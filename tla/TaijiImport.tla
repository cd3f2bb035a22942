---------------------------- MODULE TaijiImport ----------------------------
(***************************************************************************)
(* Taking Taiji's daily snapshots by hand, the two requests at the end of    *)
(* api/service_accounts.py: discovery from the newest snapshot in the blob   *)
(* container, and the upload of the snapshot of a day.  All accounts of a     *)
(* supply source hang on one cloud account, found by its name, and on one     *)
(* data source of it; else each data source would collect the whole day.      *)
(*                                                                         *)
(* A snapshot is the set of its "<user>:<token>" pairs; one day of billing.  *)
(***************************************************************************)
EXTENDS Directory

Seqs == INSTANCE SequencesExt

TaijiSource(ss) == db[ss].kind = "source" /\ db[ss].cloud = "taiji"

\* What the requests look for: any account of the name, if there are several.
SharedAccounts(ss) == {a \in Named("account", SharedName(ss)) : db[a].cloud = "taiji"}

SharedSite(a) == NewRow("data_source", None, None, "", [account |-> a])

\* The shared data source: the rows that are flushed for it, its account, its id.
SharedSites(ss) ==
    LET account == NewRow("account", SharedName(ss), "taiji", "legacy", <<>>)
    IN  IF SharedAccounts(ss) = {}
          THEN {[rows |-> Beside(Lone(Fresh(1), account), Lone(Fresh(2), SharedSite(Fresh(1)))),
                 account |-> Fresh(1), site |-> Fresh(2)]}
          ELSE UNION {IF Pointing("data_source", "account", a) = {}
                        THEN {[rows |-> Lone(Fresh(1), SharedSite(a)), account |-> a, site |-> Fresh(1)]}
                        ELSE {[rows |-> Empty, account |-> a, site |-> d] :
                                 d \in Pointing("data_source", "account", a)} :
                      a \in SharedAccounts(ss)}

\* rows, and after them those of S, in ids of their own.
Appending(rows, S) ==
    LET s == Seqs!SetToSeq(S)
        n == Cardinality(DOMAIN rows)
    IN  Beside(rows, [j \in {Fresh(n + k) : k \in DOMAIN s} |-> s[j - Fresh(n)]])

\* Mutant of Unknown: the accounts of every data source count.
UnknownAnywhere(ss, d, X) == {x \in X : \A p \in Named("project", x) : db[p].refs["source"] # ss}

\* The pairs that have no account of the supply source under the data source.
Unknown(ss, d, X) ==
    {x \in X : \A p \in Named("project", x) : <<db[p].refs["source"], db[p].refs["site"]>> # <<ss, d>>}

AccountRows(ss, d, e, X) ==
    {NewRow("project", x, None, "active", [source |-> ss, site |-> d, entity |-> e]) : x \in Unknown(ss, d, X)}

\* A snapshot that can be read has X; without a pair nothing is written.  A shared account
\* that is there gets the secret anew, an UPDATE that needs its row.
FromBlob(r, ss, e, X) ==
    /\ TaijiSource(ss) /\ X # {}
    /\ e # None => db[e].kind = "entity" /\ db[e].refs["source"] = ss
    /\ \E s \in SharedSites(ss) :
          LET rows == Appending(s.rows, AccountRows(ss, s.site, e, X))
          IN  Read(r, "taiji_from_blob", Beside(rows, [a \in {s.account} \ DOMAIN rows |-> db[a]]), {})

\* The billing is inserted row by row, before the commit.
IngestDay(r, ss, X) ==
    /\ TaijiSource(ss)
    /\ \E s \in SharedSites(ss) :
          LET billing(x) == NewRow("billing", x, None, "", [site |-> s.site])
          IN  Read(r, "taiji_ingest_day",
                   Appending(Appending(s.rows, AccountRows(ss, s.site, None, X)),
                             {billing(x) : x \in X}), {})

Importing(r) ==
    \E ss \in Ids, X \in SUBSET Targets :
       \/ IngestDay(r, ss, X)
       \/ \E e \in Nullable(Ids) : FromBlob(r, ss, e, X)
============================================================================
