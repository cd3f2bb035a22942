---- MODULE MCConsent ----
(* Consent for TLC, from four stores: one with an account in use and an open invite, *)
(* one with the reserved supplier and an invite that led to a cloud account, and a  *)
(* gateway of Taiji before and after its first import.                              *)
EXTENDS Consent

CONSTANTS r1, r2, n1, res, t1, u1, u2

MCReserved == {n1, res}
MCClouds   == {"gcp", "azure", "taiji"}

Store(rows) == [i \in Ids |-> IF i <= Len(rows) THEN rows[i] ELSE NoRow]

InUse == Store(<<
    NewRow("supplier", n1, None, "", <<>>),
    NewRow("source", None, "azure", "", [supplier |-> 1]),
    NewRow("entity", n1, None, "", [source |-> 2]),
    NewRow("category", n1, None, "", <<>>),
    NewRow("account", t1, "azure", "granted", <<>>),
    NewRow("data_source", u1, None, "", [account |-> 5, category |-> 4]),
    NewRow("project", u1, None, "standby", [source |-> 2, entity |-> 3, site |-> 6]),
    NewRow("invite", None, None, "pending", [source |-> 2])>>)

Onboarded == Store(<<
    NewRow("supplier", res, None, "", <<>>),
    NewRow("source", None, "azure", "", [supplier |-> 1]),
    NewRow("category", n1, None, "", <<>>),
    NewRow("account", None, "gcp", "legacy", <<>>),
    NewRow("data_source", u1, None, "", [account |-> 4]),
    NewRow("account", t1, "azure", "granted", <<>>),
    NewRow("invite", None, None, "consumed", [source |-> 2, account |-> 6]),
    NewRow("invite", None, None, "pending", <<>>)>>)

\* A gateway with one imported pair; a pair of the same name as the other one has an account
\* that is not bound to a data source, but to an entity of another supply source.
Gateway == Store(<<
    NewRow("supplier", n1, None, "", <<>>),
    NewRow("source", None, "taiji", "", [supplier |-> 1]),
    NewRow("account", SharedName(2), "taiji", "legacy", <<>>),
    NewRow("data_source", None, None, "", [account |-> 3]),
    NewRow("project", u1, None, "active", [source |-> 2, site |-> 4]),
    NewRow("project", u2, None, "active", [source |-> 2, entity |-> 8]),
    NewRow("source", None, "azure", "", [supplier |-> 1]),
    NewRow("entity", n1, None, "", [source |-> 7])>>)

\* The gateway before its first import.
Untouched == Store(<<
    NewRow("supplier", n1, None, "", <<>>),
    NewRow("source", None, "taiji", "", [supplier |-> 1])>>)

MCStores == {InUse, Onboarded, Gateway, Untouched}
Symmetry == Permutations(Requests)
====
