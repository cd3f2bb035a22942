------------------------------ MODULE Consent ------------------------------
(***************************************************************************)
(* The onboarding of an Azure customer, api/azure_consent.py: an operator    *)
(* makes an invite, the customer consents at Microsoft, whose redirect calls *)
(* the callback, and the operator verifies what the tenant lets us see.      *)
(* It works on the tables of Directory, beside everything that is done there  *)
(* and the imports of TaijiImport.                                           *)
(***************************************************************************)
EXTENDS TaijiImport

InviteStatus == StatusesOf("invite")

\* POST /start; a supply source that is given must be one of azure.
Start(r, ss) ==
    /\ ss # None => db[ss].kind = "source" /\ db[ss].cloud = "azure"
    /\ Insert(r, "start", NewRow("invite", None, None, "pending", [source |-> ss]))

Revoke(r, i) ==
    /\ db[i].kind = "invite" /\ db[i].status = "pending"
    /\ Rewrite(r, "revoke", i, [db[i] EXCEPT !.status = "expired"])

DeleteInvite(r, i) == db[i].kind = "invite" /\ Remove(r, "delete_invite", {i})

DeleteInvites(r, statuses) ==
    LET S == {i \in Of("invite") : db[i].status \in statuses}
    IN  S # {} /\ Remove(r, "delete_invites", S)

Multi(a) == db[a].kind = "account" /\ db[a].status # "legacy"

\* POST /register, the manual way: nobody looks whether the tenant is there already.
Register(r, t) == Insert(r, "register", NewRow("account", t, "azure", "pending", <<>>))

Open(i) == db[i].kind = "invite" /\ db[i].status = "pending"

\* The callback of an invite that is too old, or with an error of Microsoft's.
Refuse(r, i, status) ==
    /\ Open(i)
    /\ Rewrite(r, "callback", i, [db[i] EXCEPT !.status = status])

AccountsOf(t) == {a \in Of("account") : Multi(a) /\ db[a].cloud = "azure" /\ db[a].key = t}

\* Mutant of Consumed: the invite gets the status of the account.
ConsumedGranted(i, a) == [db[i] EXCEPT !.status = "granted", !.refs["account"] = a]

Consumed(i, a) == [db[i] EXCEPT !.status = "consumed", !.refs["account"] = a]

\* The callback of a tenant: its account, or a new one.
Callback(r, i, t) ==
    /\ Open(i)
    /\ \/ \E a \in AccountsOf(t) : Rewrite(r, "callback", i, Consumed(i, a))
       \/ /\ AccountsOf(t) = {}
          /\ Read(r, "callback",
                  [j \in {i, Fresh(1)} |->
                      IF j = i THEN Consumed(i, Fresh(1))
                      ELSE NewRow("account", t, "azure", "granted", <<>>)], {})

-----------------------------------------------------------------------------
\* The external ids that have a service account under the cloud account.
Imported(a) ==
    {db[p].key : p \in {q \in Of("project") :
        db[q].refs["site"] # None /\ db[db[q].refs["site"]].refs["account"] = a}}

Missing(a, subs) == subs \ Imported(a)

Granted(a) == [db[a] EXCEPT !.status = "granted"]

\* A data source and a service account for a subscription.
Site(a, u)        == NewRow("data_source", u, None, "", [account |-> a])
Account(ss, d, u) == NewRow("project", u, None, "standby", [source |-> ss, site |-> d])

InvitesOf(a) == Pointing("invite", "account", a)

\* Data sources and service accounts for the subscriptions s: two ids for each.
Imports(a, ss, s) ==
    [j \in {a} \cup {Fresh(k) : k \in 1 .. 2 * Len(s)} |->
        LET n == j - Fresh(1)
            u == s[(n \div 2) + 1]
        IN  IF j = a THEN Granted(a)
            ELSE IF n % 2 = 0 THEN Site(a, u) ELSE Account(ss, j - 1, u)]

Verifiable(a) == Multi(a) /\ db[a].cloud = "azure" /\ db[a].key # None

\* No token for the tenant: the consent counts as pending again.
VerifyFails(r, a) ==
    /\ Verifiable(a)
    /\ Rewrite(r, "verify", a, [db[a] EXCEPT !.status = "pending"])

\* The tenant shows no subscription, or no invite says where they belong.
VerifyOnly(r, a, subs) ==
    /\ Verifiable(a)
    /\ \/ subs = {}
       \/ InvitesOf(a) = {}
       \/ \E i \in InvitesOf(a) : db[i].refs["source"] = None
    /\ Rewrite(r, "verify", a, Granted(a))

\* The supply source is that of the first invite of the account, whatever its
\* status, in the order the database returns them.
Verify(r, a, subs) ==
    /\ Verifiable(a)
    /\ subs # {}
    /\ \E i \in InvitesOf(a) :
          /\ db[i].refs["source"] # None
          /\ Read(r, "verify",
                  Imports(a, db[i].refs["source"], Seqs!SetToSeq(Missing(a, subs))), {})

Consenting(r) ==
    \/ \E ss \in Nullable(Of("source")) : Start(r, ss)
    \/ \E i \in Ids :
          \/ Revoke(r, i) \/ DeleteInvite(r, i)
          \/ \E status \in {"expired", "failed"} : Refuse(r, i, status)
          \/ \E t \in Tenants : Callback(r, i, t)
    \/ \E status \in InviteStatus : DeleteInvites(r, {status})
    \/ DeleteInvites(r, InviteStatus)
    \/ \E t \in Tenants : Register(r, t)
    \/ \E a \in Ids :
          \/ VerifyFails(r, a)
          \/ \E subs \in SUBSET Targets : VerifyOnly(r, a, subs) \/ Verify(r, a, subs)

Next ==
    \E r \in Requests :
       \/ Ready(r) /\ (Supplying(r) \/ Collecting(r) \/ Using(r) \/ Importing(r) \/ Consenting(r))
       \/ Commit(r)
       \/ Rollback(r)

Spec == Init /\ [][Next]_vars

-----------------------------------------------------------------------------
Inserted(i) == ~Exists(db, i) /\ Exists(db', i)

\* A row inserted by an import of Taiji.
OneOfShared(i) ==
    CASE db'[i].kind = "account"
           -> \A a \in Named("account", db'[i].key) : db[a].cloud # "taiji"
      [] db'[i].kind = "data_source"
           -> Pointing("data_source", "account", db'[i].refs["account"]) = {}
      [] db'[i].kind = "project"
           -> \A p \in Named("project", db'[i].key) :
                 db[p].refs["source"] = db'[i].refs["source"] =>
                    db[p].refs["site"] # db'[i].refs["site"]
      [] db'[i].kind = "billing"
           -> \E p \in Ids : db'[p].kind = "project" /\ db'[p].key = db'[i].key
                                /\ db'[p].refs["site"] = db'[i].refs["site"]

(* What a request looks for before it inserts, it does not insert a second time,   *)
(* if nobody overlaps it: a supplier of the same name, a view of the account, the   *)
(* account of a tenant whose administrator consents twice, the service account of   *)
(* a subscription that is verified again, the account and the data source that the  *)
(* imports of Taiji share, the service account of a pair (suppliers.py:86,          *)
(* data_sources.py:187, azure_consent.py:446, 348, service_accounts.py:1316, 1539,  *)
(* 1363).  No unique index guards most of them.  And no import bills what has no     *)
(* service account under the data source it is billed to: its cost would vanish     *)
(* from the reports (service_accounts.py:1359).                                     *)
OneOfEach ==
    [][\A r \in Requests : Committed(r) /\ r \in alone =>
          \A i \in Ids : Inserted(i) =>
             CASE job[r].api \in {"create_supplier", "discover"} /\ db'[i].kind = "supplier"
                    -> Named("supplier", db'[i].key) = {}
               [] job[r].api = "create_gcp_view"
                    -> \A d \in Pointing("data_source", "account", db'[i].refs["account"]) :
                          db[d].key # db'[i].key
               [] job[r].api = "callback"
                    -> \A a \in Of("account") : Multi(a) /\ db[a].cloud = "azure"
                          => db[a].key # db'[i].key
               [] job[r].api = "verify" /\ db'[i].kind = "project"
                    -> \A p \in Named("project", db'[i].key) :
                          \A d \in Of("data_source") : db[p].refs["site"] = d =>
                             db[d].refs["account"] # db'[db'[i].refs["site"]].refs["account"]
               [] job[r].api \in {"taiji_from_blob", "taiji_ingest_day"} -> OneOfShared(i)
               [] OTHER -> TRUE]_vars
=============================================================================
