----------------------------- MODULE Directory -----------------------------
(***************************************************************************)
(* The master data that billing hangs on: suppliers, their supply sources   *)
(* and entities, cloud accounts, data sources and categories, with the       *)
(* service accounts, billing rows and monthly bills that point at them.      *)
(*                                                                         *)
(* A request reads, counts what still points at its row, decides and         *)
(* commits; others commit in between.  What the count was to prevent is then *)
(* settled by the foreign keys: ON DELETE of the schema, and the ORM, which   *)
(* writes NULL into the children of a row it deletes.                        *)
(***************************************************************************)
EXTENDS Integers, FiniteSets, Sequences, TLC

CONSTANTS
    MaxId,      \* bound: ids the sequences may draw
    Requests,   \* bound: requests at work at a time
    Names,      \* names of suppliers, entities and categories
    Reserved,   \* RESERVED_UNASSIGNED_SUPPLIER_NAME
    Clouds,     \* providers, "gcp" and "azure" among them
    Tenants,    \* Azure tenants
    Targets,    \* what a data source collects: a GCP view, an Azure subscription
    None,       \* NULL
    Stores,     \* the databases a behaviour may start from
    MaxCommits  \* bound: commits in all, so of requests that read

Ids == 1 .. MaxId

Columns == {"supplier", "source", "entity", "account", "site", "category"}

Kinds == {"supplier", "source", "entity", "category", "account", "data_source",
          "project", "billing", "bill", "invite"}

\* "legacy" stands for auth_mode; the status of other accounts is their consent_status.
StatusesOf(kind) ==
    CASE kind = "account" -> {"legacy", "pending", "granted"}
      [] kind = "invite"  -> {"pending", "expired", "failed", "consumed"}
      [] kind = "project" -> {"standby", "active"}
      [] OTHER            -> {""}

Statuses == UNION {StatusesOf(kind) : kind \in Kinds}

\* taiji-shared-<id>: the account that the imports of a supply source share.
SharedName(ss) == <<"taiji-shared", ss>>

\* key is the name, the tenant or the target; refs are the foreign keys.
Row == [kind : Kinds,
        key : Names \cup Tenants \cup Targets \cup {None} \cup {SharedName(i) : i \in Ids},
        cloud : Clouds \cup {None}, status : Statuses, refs : [Columns -> Ids \cup {None}]]

NoRefs == [c \in Columns |-> None]
NoRow  == [kind |-> None, key |-> None, cloud |-> None, status |-> "", refs |-> NoRefs]

\* What becomes of a row when the row it points at is deleted.
Cascades == {<<"source", "supplier">>, <<"entity", "source">>}
SetsNull == {<<"project", "entity">>, <<"project", "site">>, <<"project", "category">>,
             <<"data_source", "category">>}

\* The table that a foreign key points into.
TableOf == [supplier |-> "supplier", source |-> "source", entity |-> "entity",
            account |-> "account", site |-> "data_source", category |-> "category"]

Exists(d, i) == d[i] # NoRow
Fits(row) == row.status \in StatusesOf(row.kind)
Sound(d) == \A i \in Ids : \A c \in Columns :
                d[i].refs[c] # None => d[d[i].refs[c]].kind = TableOf[c]

ASSUME DirectoryOK ==
    /\ MaxId \in Nat /\ MaxCommits \in Nat
    /\ Reserved \in Names /\ {"gcp", "azure", "taiji"} \subseteq Clouds /\ IsFiniteSet(Targets)
    /\ None \notin Ids /\ None \notin Names \cup Tenants \cup Targets
    /\ None \notin Clouds \cup Kinds
    /\ \A d \in Stores :
          /\ d \in [Ids -> Row \cup {NoRow}] /\ Sound(d) /\ \A i \in Ids : Fits(d[i])
          /\ \E n \in 0 .. MaxId : {i \in Ids : Exists(d, i)} = 1 .. n

VARIABLES
    db,     \* the tables
    drawn,  \* the last id drawn
    job,    \* what each request is about to commit
    alone,  \* requests since whose reading nobody has committed (history)
    left    \* commits left

vars == <<db, drawn, job, alone, left>>

Empty == [i \in {} |-> NoRow]
Idle  == [api |-> "idle", before |-> Empty, after |-> Empty, gone |-> {}]

Init ==
    /\ db \in Stores
    /\ drawn = Cardinality({i \in Ids : Exists(db, i)})
    /\ job = [r \in Requests |-> Idle]
    /\ alone = {}
    /\ left = MaxCommits

-----------------------------------------------------------------------------
Of(kind) == {i \in Ids : db[i].kind = kind}
Pointing(kind, c, i) == {j \in Of(kind) : db[j].refs[c] = i}
Named(kind, n) == {i \in Of(kind) : db[i].key = n}

Fresh(k) == drawn + k
Ready(r) ==
    /\ job[r] = Idle
    /\ Cardinality({q \in Requests : job[q] # Idle}) < left

\* A flush draws the ids of new rows; the rows themselves appear at the commit.
Read(r, api, after, gone) ==
    /\ DOMAIN after \subseteq Ids
    /\ job' = [job EXCEPT ![r] = [api |-> api, after |-> after, gone |-> gone,
                                  before |-> [i \in DOMAIN after |-> db[i]]]]
    /\ drawn' = drawn + Cardinality(DOMAIN after \ {i \in Ids : i <= drawn})
    /\ alone' = alone \cup {r}
    /\ UNCHANGED <<db, left>>

NewRow(kind, key, cloud, status, refs) ==
    [kind |-> kind, key |-> key, cloud |-> cloud, status |-> status,
     refs |-> [c \in Columns |-> IF c \in DOMAIN refs THEN refs[c] ELSE None]]

\* Rows side by side, and a row by itself.
Beside(f, g) == [i \in DOMAIN f \cup DOMAIN g |-> IF i \in DOMAIN f THEN f[i] ELSE g[i]]
Lone(i, row) == [j \in {i} |-> row]

Insert(r, api, row)    == Read(r, api, Lone(Fresh(1), row), {})
Rewrite(r, api, i, row) == Read(r, api, Lone(i, row), {})
Remove(r, api, S)      == Read(r, api, Empty, S)

-----------------------------------------------------------------------------
(* api/suppliers.py                                                        *)

\* The only check of a supplier's name: there is no unique index.
CreateSupplier(r, n) ==
    /\ Named("supplier", n) = {}
    /\ Insert(r, "create_supplier", NewRow("supplier", n, None, "", <<>>))

UpdateSupplier(r, s, n) ==
    /\ db[s].kind = "supplier" /\ n # db[s].key
    /\ Reserved \notin {n, db[s].key}
    /\ Named("supplier", n) = {}
    /\ Rewrite(r, "update_supplier", s, [db[s] EXCEPT !.key = n])

SourcesOf(s) == Pointing("source", "supplier", s)

DeleteSupplier(r, s) ==
    /\ db[s].kind = "supplier" /\ db[s].key # Reserved
    /\ \A ss \in SourcesOf(s) : Pointing("project", "source", ss) = {}
    /\ Remove(r, "delete_supplier", {s})

CreateSource(r, s, cloud) ==
    /\ db[s].kind = "supplier"
    /\ \A ss \in SourcesOf(s) : db[ss].cloud # cloud
    /\ Insert(r, "create_supply_source",
              NewRow("source", None, cloud, "", [supplier |-> s]))

DeleteSource(r, ss) ==
    /\ db[ss].kind = "source"
    /\ Pointing("project", "source", ss) = {}
    /\ Remove(r, "delete_supply_source", {ss})

CreateEntity(r, ss, n) ==
    /\ db[ss].kind = "source"
    /\ \A e \in Pointing("entity", "source", ss) : db[e].key # n
    /\ Insert(r, "create_entity", NewRow("entity", n, None, "", [source |-> ss]))

UpdateEntity(r, e, n) ==
    /\ db[e].kind = "entity" /\ n # db[e].key
    /\ \A f \in Pointing("entity", "source", db[e].refs["source"]) : db[f].key # n
    /\ Rewrite(r, "update_entity", e, [db[e] EXCEPT !.key = n])

\* Mutant of DeleteEntity: nobody counts the accounts of the entity.
DeleteEntityUncounted(r, e) ==
    db[e].kind = "entity" /\ Remove(r, "delete_entity", {e})

DeleteEntity(r, e) ==
    /\ db[e].kind = "entity"
    /\ Pointing("project", "entity", e) = {}
    /\ Remove(r, "delete_entity", {e})

-----------------------------------------------------------------------------
(* api/cloud_accounts.py, api/data_sources.py, api/categories.py, as the    *)
(* roles with full access use them.                                        *)

CreateAccount(r, cloud) ==
    Insert(r, "create_cloud_account", NewRow("account", None, cloud, "legacy", <<>>))

\* The provider and the secret, with the tenant in it, are taken as they come.
UpdateAccount(r, a, cloud, t) ==
    /\ db[a].kind = "account"
    /\ Rewrite(r, "update_cloud_account", a, [db[a] EXCEPT !.cloud = cloud, !.key = t])

DeleteAccount(r, a) ==
    /\ db[a].kind = "account"
    /\ Pointing("data_source", "account", a) = {}
    /\ Remove(r, "delete_cloud_account", {a})

CreateDataSource(r, a, c, x) ==
    /\ db[a].kind = "account"
    /\ Insert(r, "create_data_source",
              NewRow("data_source", x, None, "", [account |-> a, category |-> c]))

\* create_gcp_view refuses a view that a source of the account collects already.
CreateGcpView(r, a, c, x) ==
    /\ db[a].kind = "account" /\ db[a].cloud = "gcp"
    /\ \A d \in Pointing("data_source", "account", a) : db[d].key # x
    /\ Insert(r, "create_gcp_view",
              NewRow("data_source", x, None, "", [account |-> a, category |-> c]))

UpdateDataSource(r, d, a, c, x) ==
    /\ db[d].kind = "data_source" /\ db[a].kind = "account"
    /\ Rewrite(r, "update_data_source", d,
               [db[d] EXCEPT !.key = x, !.refs["account"] = a, !.refs["category"] = c])

DeleteDataSource(r, d) ==
    /\ db[d].kind = "data_source"
    /\ Pointing("billing", "site", d) = {}
    /\ Pointing("project", "site", d) = {}
    /\ Remove(r, "delete_data_source", {d})

CreateCategory(r, n) == Insert(r, "create_category", NewRow("category", n, None, "", <<>>))

UpdateCategory(r, c, n) ==
    /\ db[c].kind = "category"
    /\ Rewrite(r, "update_category", c, [db[c] EXCEPT !.key = n])

DeleteCategory(r, c) ==
    /\ db[c].kind = "category"
    /\ \A kind \in {"data_source", "project", "bill"} : Pointing(kind, "category", c) = {}
    /\ Remove(r, "delete_category", {c})

-----------------------------------------------------------------------------
(* What the rest of the system writes into these tables, as far as the      *)
(* deletions above have to reckon with it.                                 *)

\* An account is given an entity, a data source or a category (module Accounts).
Bind(r, p, c, i) ==
    /\ db[p].kind = "project"
    /\ i # None => db[i].kind = (CASE c = "entity" -> "entity"
                                   [] c = "site" -> "data_source"
                                   [] c = "category" -> "category")
    /\ Rewrite(r, "bind", p, [db[p] EXCEPT !.refs[c] = i])

\* The first billing of a data source, and the first bill of a category.
Collect(r, d) ==
    /\ db[d].kind = "data_source" /\ Pointing("billing", "site", d) = {}
    /\ Insert(r, "collect", NewRow("billing", None, None, "", [site |-> d]))

Bill(r, c) ==
    /\ db[c].kind = "category" /\ Pointing("bill", "category", c) = {}
    /\ Insert(r, "bill", NewRow("bill", None, None, "", [category |-> c]))

GcpProjects(x) ==
    {p \in Named("project", x) : db[db[p].refs["source"]].cloud = "gcp"}

GcpSources(s) == {ss \in SourcesOf(s) : db[ss].cloud = "gcp"}

\* ensure_other_gcp_supply_source_id: the rows it flushes, and the source it returns.
Ensured ==
    LET supplier  == NewRow("supplier", Reserved, None, "", <<>>)
        source(s) == NewRow("source", None, "gcp", "", [supplier |-> s])
    IN  IF Named("supplier", Reserved) = {}
          THEN {[rows |-> Beside(Lone(Fresh(1), supplier), Lone(Fresh(2), source(Fresh(1)))),
                 source |-> Fresh(2)]}
          ELSE UNION {IF GcpSources(s) = {}
                        THEN {[rows |-> Lone(Fresh(1), source(s)), source |-> Fresh(1)]}
                        ELSE {[rows |-> Empty, source |-> ss] : ss \in GcpSources(s)} :
                      s \in Named("supplier", Reserved)}

\* auto_create_gcp_projects, and discover_gcp_projects of the API.
Discover(r, x) ==
    /\ GcpProjects(x) = {}
    /\ \E e \in Ensured :
          Read(r, "discover",
               Beside(e.rows, Lone(Fresh(Cardinality(DOMAIN e.rows) + 1),
                   NewRow("project", x, None, "standby", [source |-> e.source]))), {})

\* Without an account to create the one of the API commits the reserved rows all the
\* same, the one of a sync does not.
DiscoverNothing(r) ==
    \E e \in Ensured : e.rows # Empty /\ Read(r, "discover", e.rows, {})

-----------------------------------------------------------------------------
\* The columns whose value the request has changed, over the row as it is now.
Written(now, before, after) ==
    IF before = NoRow THEN after
    ELSE [now EXCEPT !.key    = IF before.key = after.key THEN @ ELSE after.key,
                     !.cloud  = IF before.cloud = after.cloud THEN @ ELSE after.cloud,
                     !.status = IF before.status = after.status THEN @ ELSE after.status,
                     !.refs   = [c \in Columns |-> IF before.refs[c] = after.refs[c]
                                                     THEN @[c] ELSE after.refs[c]]]

\* An UPDATE that finds no row raises StaleDataError.
Finds(j) == \A i \in DOMAIN j.after : j.before[i] # NoRow => Exists(db, i)

\* The rows that go with the rows S.
Below(d, S) == {i \in Ids : \E c \in Columns :
                    d[i].refs[c] \in S /\ <<d[i].kind, c>> \in Cascades}
Doomed(d, S) == S \cup Below(d, S) \cup Below(d, S \cup Below(d, S))

Deleted(d, S) ==
    [i \in Ids |-> IF i \in S THEN NoRow
                   ELSE [d[i] EXCEPT !.refs = [c \in Columns |->
                            IF @[c] \in S /\ <<d[i].kind, c>> \in SetsNull THEN None ELSE @[c]]]]

\* The unique indexes.  NULL differs from NULL, except in the second index of projects.
Unique(d) ==
    \A i, j \in Ids : i # j /\ d[i].kind = d[j].kind =>
        CASE d[i].kind = "source"   -> <<d[i].refs["supplier"], d[i].cloud>>
                                         # <<d[j].refs["supplier"], d[j].cloud>>
          [] d[i].kind = "entity"   -> <<d[i].refs["source"], d[i].key>>
                                         # <<d[j].refs["source"], d[j].key>>
          [] d[i].kind = "category" -> d[i].key # d[j].key
          [] d[i].kind = "project"  ->
               <<d[i].refs["source"], d[i].refs["site"], d[i].key>>
                 # <<d[j].refs["source"], d[j].refs["site"], d[j].key>>
          [] OTHER -> TRUE

\* The billing of a day is inserted ON CONFLICT DO NOTHING, each row when its turn comes.
Conflicting(row) ==
    /\ row.kind = "billing" /\ row.key # None
    /\ \E b \in Named("billing", row.key) : db[b].refs["site"] = row.refs["site"]

\* The commit; a violated key leaves only Rollback.
Commit(r) ==
    LET j    == job[r]
        next == [i \in Ids |-> IF i \in DOMAIN j.after /\ ~Conflicting(j.after[i])
                                 THEN Written(db[i], j.before[i], j.after[i]) ELSE db[i]]
    IN  /\ j # Idle /\ left > 0
        /\ Finds(j)
        /\ db' = Deleted(next, Doomed(next, j.gone))
        /\ Sound(db') /\ Unique(db')
        /\ job' = [job EXCEPT ![r] = Idle]
        /\ alone' = {}
        /\ left' = left - 1
        /\ UNCHANGED drawn

\* Ids drawn in vain: the last ones might as well not have been drawn.
Rollback(r) ==
    LET vain == {i \in DOMAIN job[r].after : job[r].before[i] = NoRow}
    IN  /\ job[r] # Idle
        /\ job' = [job EXCEPT ![r] = Idle]
        /\ alone' = alone \ {r}
        /\ drawn' = IF drawn \in vain THEN drawn - Cardinality(vain) ELSE drawn
        /\ UNCHANGED <<db, left>>

Nullable(S) == S \cup {None}

Supplying(r) ==
    \/ \E n \in Names : CreateSupplier(r, n) \/ CreateCategory(r, n)
    \/ \E i \in Ids, n \in Names :
          UpdateSupplier(r, i, n) \/ CreateEntity(r, i, n) \/ UpdateEntity(r, i, n)
             \/ UpdateCategory(r, i, n)
    \/ \E i \in Ids, cloud \in Clouds : CreateSource(r, i, cloud)
    \/ \E i \in Ids : DeleteSupplier(r, i) \/ DeleteSource(r, i) \/ DeleteEntity(r, i)
                         \/ DeleteCategory(r, i)

Collecting(r) ==
    \/ \E cloud \in Clouds : CreateAccount(r, cloud)
    \/ \E a \in Of("account"), cloud \in Clouds, t \in Nullable(Tenants) :
          UpdateAccount(r, a, cloud, t)
    \/ \E a \in Of("account"), c \in Nullable(Of("category")), x \in Targets :
          \/ CreateDataSource(r, a, c, x) \/ CreateGcpView(r, a, c, x)
          \/ \E d \in Of("data_source") : UpdateDataSource(r, d, a, c, x)
    \/ \E i \in Ids : DeleteAccount(r, i) \/ DeleteDataSource(r, i)

Using(r) ==
    \/ \E p \in Of("project"), c \in {"entity", "site", "category"}, i \in Nullable(Ids) :
          Bind(r, p, c, i)
    \/ \E i \in Ids : Collect(r, i) \/ Bill(r, i)
    \/ \E x \in Targets : Discover(r, x)
    \/ DiscoverNothing(r)

-----------------------------------------------------------------------------
JobOK(j) ==
    /\ DOMAIN j.after \subseteq Ids /\ j.gone \subseteq Ids
    /\ j.after \in [DOMAIN j.after -> Row]
    /\ j.before \in [DOMAIN j.after -> Row \cup {NoRow}]

TypeOK ==
    /\ db \in [Ids -> Row \cup {NoRow}] /\ drawn \in 0 .. MaxId
    /\ \A i \in Ids : Fits(db[i])
    /\ DOMAIN job = Requests /\ \A r \in Requests : JobOK(job[r])
    /\ alone \subseteq Requests /\ left \in 0 .. MaxCommits

Committed(r) == job[r] # Idle /\ job'[r] = Idle /\ left' < left

\* What bills and reports are made of.
Kept == {"project", "data_source", "billing", "bill", "invite"}

\* An account has an entity of its own supply source; PUT /projects takes any.
Homed(i) == db[i].refs["entity"] # None =>
                db[db[i].refs["entity"]].refs["source"] = db[i].refs["source"]

(* A deletion that nobody overlaps takes nothing from anybody: no account, data   *)
(* source, billing, bill or invite goes with it or loses what it points at.  The   *)
(* counts before the deletion have to cover everything the cascades and the ORM's  *)
(* NULLs would reach (suppliers.py:163, 243, 477, data_sources.py:253).  They do    *)
(* not cover an account whose entity is of another supply source than its own.     *)
NothingIsCut ==
    [][\A r \in Requests : Committed(r) /\ r \in alone /\ job[r].gone # {} =>
          \A i \in Ids \ job[r].gone : db[i].kind \in Kept /\ Homed(i) => db'[i] = db[i]]_vars
=============================================================================
