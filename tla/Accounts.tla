------------------------------ MODULE Accounts ------------------------------
(***************************************************************************)
(* The service accounts: rows of projects, created by an operator or found   *)
(* in the billing of GCP, moved between supply sources, given an entity and  *)
(* customer codes, switched on and off, deleted by a time stamp.             *)
(*                                                                         *)
(* A request reads what it needs, decides, and commits.  The ORM writes only *)
(* the columns whose value differs from the one it read, so a request is a   *)
(* set of rows as they were read (before) and as they shall be (after), new  *)
(* rows, and assignments to add and remove.  Between its reading and its     *)
(* commit other requests commit; the row locks an UPDATE takes last until    *)
(* the commit, which is why all of it takes effect there.                    *)
(***************************************************************************)
EXTENDS Naturals, FiniteSets

CONSTANTS
    Accounts,    \* bound: ids of projects rows
    Requests,    \* bound: requests at work at a time
    Sources,     \* supply sources
    Gcp,         \* those whose provider is gcp; the others share another one
    Bucket,      \* the reserved one that takes what discovery finds
    Entities,
    Home,        \* the supply source of each entity
    Exts,        \* external project ids
    Codes,       \* customer codes
    None,        \* NULL
    Own,         \* the data source made together with the account
    MaxCommits,  \* bound: commits in all, so of requests that read
    MaxLines     \* bound: lines of a sales sync

ASSUME AccountsOK ==
    /\ Gcp \subseteq Sources /\ Bucket \in Gcp
    /\ Home \in [Entities -> Sources]
    /\ None \notin Sources \cup Entities \cup Exts \cup Accounts
    /\ Own \notin Accounts \cup {None}
    /\ {MaxCommits, MaxLines} \subseteq Nat

Statuses == {"active", "inactive", "standby"}

\* site is the data source, named by the account it was made for.
Project == [source : Sources, entity : Entities \cup {None}, ext : Exts,
            site : Accounts \cup {None}, status : Statuses, recycled : BOOLEAN]
NoRow   == [source |-> None, entity |-> None, ext |-> None,
            site |-> None, status |-> "absent", recycled |-> FALSE]
NewRow  == [source : Sources, entity : Entities \cup {None}, ext : Exts,
            site : Accounts \cup {None, Own}, status : Statuses, recycled : {FALSE}]

VARIABLES
    row,     \* projects
    codes,   \* project_customer_assignments, by account
    job,     \* what each request is about to commit
    alone,   \* requests since whose reading nobody has committed (history)
    left     \* commits left

vars == <<row, codes, job, alone, left>>

\* scope and want are what a full sales sync was asked for.
Idle == [api |-> "idle", before |-> [a \in {} |-> NoRow], after |-> [a \in {} |-> NoRow],
         new |-> {}, bind |-> {}, unbind |-> {}, scope |-> {}, want |-> {}]

APIs == {"accounts", "projects", "discovery", "sales"}

JobOK(j) ==
    /\ j.api \in APIs \cup {"idle"}
    /\ DOMAIN j.after \subseteq Accounts
    /\ {j.before, j.after} \subseteq [DOMAIN j.after -> Project]
    /\ j.new \subseteq NewRow
    /\ j.bind \cup j.unbind \cup j.want \subseteq Accounts \X Codes
    /\ j.scope \subseteq Codes

TypeOK ==
    /\ row \in [Accounts -> Project \cup {NoRow}]
    /\ codes \in [Accounts -> SUBSET Codes]
    /\ DOMAIN job = Requests
    /\ \A r \in Requests : JobOK(job[r])
    /\ alone \subseteq Requests
    /\ left \in 0 .. MaxCommits

Init ==
    /\ row = [a \in Accounts |-> NoRow]
    /\ codes = [a \in Accounts |-> {}]
    /\ job = [r \in Requests |-> Idle]
    /\ alone = {}
    /\ left = MaxCommits

-----------------------------------------------------------------------------
There(a) == row[a] # NoRow

\* Mutant of Live: the deleted ones are found as well.
LiveOrDeleted(a) == There(a)

\* _get_active_project and _load_project_with_scope; anything else is a 404.
Live(a) == There(a) /\ ~row[a].recycled

\* The unique indexes of projects, where NULL counts as one more data source.
Key(p) == <<p.source, p.site, p.ext>>

\* More requests at work than commits left would not commit.
Ready(r) ==
    /\ job[r] = Idle
    /\ Cardinality({q \in Requests : job[q] # Idle}) < left

Read(r, api, after, new, bind, unbind, scope, want) ==
    /\ job' = [job EXCEPT ![r] =
                 [api |-> api, before |-> [a \in DOMAIN after |-> row[a]], after |-> after,
                  new |-> new, bind |-> bind, unbind |-> unbind, scope |-> scope, want |-> want]]
    /\ alone' = alone \cup {r}
    /\ UNCHANGED <<row, codes, left>>

Unchanged == [a \in {} |-> NoRow]
Insert(r, api, new)    == Read(r, api, Unchanged, new, {}, {}, {}, {})
Rewrite(r, api, after) == Read(r, api, after, {}, {}, {}, {}, {})

-----------------------------------------------------------------------------
\* POST /service-accounts: with a cloud account and a data source of its own.
Create(r, s, x, e) ==
    /\ e # None => Home[e] = s
    /\ Insert(r, "accounts", {[source |-> s, entity |-> e, ext |-> x,
                               site |-> Own, status |-> "active", recycled |-> FALSE]})

\* POST /projects: the entity and the data source are taken as they come.
CreateProject(r, s, x, e, d) ==
    Insert(r, "projects", {[source |-> s, entity |-> e, ext |-> x,
                            site |-> d, status |-> "active", recycled |-> FALSE]})

\* PUT /projects/{id}, of which the entity and the data source are modelled.
PutProject(r, a, e, d) ==
    /\ Live(a)
    /\ Rewrite(r, "projects", [b \in {a} |-> [row[a] EXCEPT !.entity = e, !.site = d]])

\* Mutant of Cleared: the entity survives the move.
ClearedNot(p, s) == [p EXCEPT !.source = s]

\* A move to another supply source takes the entity away.
Cleared(p, s) == [p EXCEPT !.source = s, !.entity = IF p.source = s THEN @ ELSE None]

\* The entity given must be one of the supply source the account now has.
MayOwn(p, e) == e # None => Home[e] = p.source

\* PUT /service-accounts/{id}: a new external id, a move, an entity, the codes.
Update(r, a, x, s, e, keep, cs) ==
    LET renamed == [row[a] EXCEPT !.ext = x]
        moved   == Cleared(renamed, s)
    IN  /\ Live(a)
        /\ \A b \in Accounts \ {a} :
              /\ Key(row[b]) # Key(renamed)
              /\ s # row[a].source => ~(row[b].source = s /\ row[b].ext = x)
        /\ ~keep => MayOwn(moved, e)
        /\ Read(r, "accounts",
                [b \in {a} |-> IF keep THEN moved ELSE [moved EXCEPT !.entity = e]],
                {}, {a} \X (cs \ codes[a]), {a} \X (codes[a] \ cs), {}, {})

SameCloud(s, t) == s \in Gcp <=> t \in Gcp

\* POST /service-accounts/bulk-assign; deleted accounts move as well.
BulkAssign(r, A, s) ==
    LET moving == {a \in A : /\ There(a)
                             /\ row[a].source # s
                             /\ SameCloud(row[a].source, s)}
    IN  /\ moving # {}
        /\ Rewrite(r, "accounts", [a \in moving |-> Cleared(row[a], s)])

\* POST /service-accounts/bulk-assign-entity
BulkAssignEntity(r, A, e) ==
    LET moving == {a \in A : There(a) /\ row[a].entity # e /\ MayOwn(row[a], e)}
    IN  /\ moving # {}
        /\ Rewrite(r, "accounts", [a \in moving |-> [row[a] EXCEPT !.entity = e]])

\* suspend, activate and standby of an account, activate and suspend of a project.
SetStatus(r, a, to) ==
    /\ Live(a)
    /\ row[a].status # to
    /\ Rewrite(r, "accounts", [b \in {a} |-> [row[a] EXCEPT !.status = to]])

\* _hard_delete
Delete(r, a) ==
    /\ Live(a)
    /\ Rewrite(r, "accounts",
               [b \in {a} |-> [row[a] EXCEPT !.recycled = TRUE, !.status = "inactive"]])

-----------------------------------------------------------------------------
\* Mutant of Known: what was deleted is forgotten.
KnownLive(X) == {row[a].ext : a \in {b \in Accounts : Live(b) /\ row[b].source \in Gcp}} \cap X

\* The external ids that have an account, deleted or not.
Known(X) == {row[a].ext : a \in {b \in Accounts : There(b) /\ row[b].source \in Gcp}} \cap X

\* discover_gcp_projects, and auto_create_gcp_projects of a sync.
Discover(r, X) ==
    LET found == X \ Known(X)
    IN  /\ found # {}
        /\ Insert(r, "discovery",
                  {[source |-> Bucket, entity |-> None, ext |-> x, site |-> None,
                    status |-> "standby", recycled |-> FALSE] : x \in found})

-----------------------------------------------------------------------------
\* The accounts a line of the sales system may mean; it gets one of them.
Matches(s, x) == {a \in Accounts : row[a].source = s /\ row[a].ext = x}

\* What is asked for: the lines that name an account, with their codes.
Wanted(items, pick) == {<<pick[<<i[1], i[2]>>], i[3]>> :
                          i \in {j \in items : Matches(j[1], j[2]) # {}}}

\* Mutant of Candidates: only the accounts named are looked at.
CandidatesNamed(want, scope) == {w[1] : w \in want}

\* In a full sync also the accounts that hold a code of its scope.
Candidates(want, scope) == {w[1] : w \in want} \cup {a \in Accounts : codes[a] \cap scope # {}}

Held(A) == UNION {{a} \X codes[a] : a \in A}

\* POST /service-accounts/customer-assignments/sync with mode = patch
SyncPatch(r, items, pick) ==
    LET want == Wanted(items, pick)
    IN  /\ want # {}
        /\ Read(r, "sales", Unchanged, {}, want \ Held(Accounts), {}, {}, {})

\* and with mode = full: a scope that is not given is that of the lines.
SyncFull(r, items, pick, given) ==
    LET scope   == IF given = {} THEN {i[3] : i \in items} ELSE given
        want    == Wanted(items, pick)
        inScope == {w \in want : w[2] \in scope}
        current == {h \in Held(Candidates(want, scope)) : h[2] \in scope}
    IN  /\ scope # {}
        /\ Read(r, "sales", Unchanged, {}, inScope \ current, current \ inScope, scope, want)

-----------------------------------------------------------------------------
\* The columns whose value the request has changed, over the row as it is now.
Written(now, before, after) ==
    [source   |-> IF before.source   = after.source   THEN now.source   ELSE after.source,
     entity   |-> IF before.entity   = after.entity   THEN now.entity   ELSE after.entity,
     ext      |-> IF before.ext      = after.ext      THEN now.ext      ELSE after.ext,
     site     |-> IF before.site     = after.site     THEN now.site     ELSE after.site,
     status   |-> IF before.status   = after.status   THEN now.status   ELSE after.status,
     recycled |-> IF before.recycled = after.recycled THEN now.recycled ELSE after.recycled]

\* Mutant of Placed: the data source is not flushed before the account.
PlacedLater(a, p) == p

\* New rows get ids of their own, and an account its own data source.
Placed(a, p) == [p EXCEPT !.site = IF @ = Own THEN a ELSE @]

\* The commit; a violated unique index leaves only Rollback.
Commit(r) ==
    LET j == job[r]
    IN  \E at \in [j.new -> {a \in Accounts : ~There(a)}] :
          LET next(a) == IF \E p \in j.new : at[p] = a
                           THEN Placed(a, CHOOSE p \in j.new : at[p] = a)
                         ELSE IF a \in DOMAIN j.after
                           THEN Written(row[a], j.before[a], j.after[a]) ELSE row[a]
          IN  /\ j # Idle
              /\ left > 0
              /\ \A p, q \in j.new : at[p] = at[q] => p = q
              /\ \A b \in j.bind : b[2] \notin codes[b[1]]
              /\ row' = [a \in Accounts |-> next(a)]
              /\ \A a, b \in Accounts :
                    a # b /\ row'[a] # NoRow => Key(row'[a]) # Key(row'[b])
              /\ codes' = [a \in Accounts |-> {c \in Codes :
                             \/ <<a, c>> \in j.bind
                             \/ c \in codes[a] /\ <<a, c>> \notin j.unbind}]
              /\ job' = [job EXCEPT ![r] = Idle]
              /\ alone' = {}
              /\ left' = left - 1

\* Any exception on the way; nothing of the request is left.
Rollback(r) ==
    /\ job[r] # Idle
    /\ job' = [job EXCEPT ![r] = Idle]
    /\ alone' = alone \ {r}
    /\ UNCHANGED <<row, codes, left>>

Nullable(S) == S \cup {None}
DataSources == {a \in Accounts : There(a)}
Keys  == Sources \X Exts
Lines == {items \in SUBSET (Sources \X Exts \X Codes) : Cardinality(items) <= MaxLines}
\* Which of several accounts with the same key the last row of the query is.
Picks == {pick \in [Keys -> Accounts \cup {None}] :
            \A k \in Keys : IF Matches(k[1], k[2]) = {} THEN pick[k] = None
                                                      ELSE pick[k] \in Matches(k[1], k[2])}

Request(r) ==
    \/ \E s \in Sources, x \in Exts, e \in Nullable(Entities) :
          \/ Create(r, s, x, e)
          \/ \E d \in Nullable(DataSources) : CreateProject(r, s, x, e, d)
    \/ \E a \in Accounts, e \in Nullable(Entities), d \in Nullable(DataSources) :
          PutProject(r, a, e, d)
    \/ \E a \in Accounts, x \in Exts, s \in Sources, e \in Nullable(Entities),
         keep \in BOOLEAN, cs \in SUBSET Codes : Update(r, a, x, s, e, keep, cs)
    \/ \E A \in SUBSET Accounts, s \in Sources : BulkAssign(r, A, s)
    \/ \E A \in SUBSET Accounts, e \in Nullable(Entities) : BulkAssignEntity(r, A, e)
    \/ \E a \in Accounts, to \in Statuses : SetStatus(r, a, to)
    \/ \E a \in Accounts : Delete(r, a)
    \/ \E X \in SUBSET Exts : Discover(r, X)
    \/ \E items \in Lines, pick \in Picks :
          \/ SyncPatch(r, items, pick)
          \/ \E given \in SUBSET Codes : SyncFull(r, items, pick, given)

Next ==
    \E r \in Requests :
       \/ Ready(r) /\ Request(r)
       \/ Commit(r)
       \/ Rollback(r)

Spec == Init /\ [][Next]_vars

-----------------------------------------------------------------------------
Committed(r) == job[r] # Idle /\ job'[r] = Idle /\ left' < left

Owned(p) == MayOwn(p, p.entity)

(* A request of the service-accounts API that nobody overlaps keeps every    *)
(* account with an entity of its own supply source: create, update, both    *)
(* bulk assignments and discovery, in any order (service_accounts.py:872,    *)
(* 1051 clear the entity, 532, 913, 1153 check it).                          *)
EntityKept ==
    [][\A r \in Requests : Committed(r) /\ r \in alone /\ job[r].api # "projects" =>
          \A a \in Accounts : Owned(row[a]) => Owned(row'[a])]_vars

Retired(p) == p.recycled => p.status = "inactive"

(* A request that nobody overlaps leaves a deleted account inactive: deletion *)
(* sets both columns (service_accounts.py:625) and no status change finds     *)
(* the account again.                                                       *)
DeletedStaysInactive ==
    [][\A r \in Requests : Committed(r) /\ r \in alone =>
          \A a \in Accounts : Retired(row[a]) => Retired(row'[a])]_vars

(* Discovery creates no account for a GCP project that has one, a deleted     *)
(* one included: what was deleted is not revived by the next sync             *)
(* (service_accounts.py:614, sync_service.py:388).                          *)
NoRevival ==
    [][\A r \in Requests : Committed(r) /\ r \in alone /\ job[r].api = "discovery" =>
          \A a, b \in Accounts :
             ~There(a) /\ row'[a] # NoRow /\ There(b) /\ row[b].source \in Gcp
                => row'[a].ext # row[b].ext]_vars

(* After a full sales sync that nobody overlaps, a code of its scope is held  *)
(* by exactly the accounts the sync names, whoever held it before; whatever   *)
(* happens, it does not touch other codes (service_accounts.py:1783).        *)
SalesExact ==
    [][\A r \in Requests : Committed(r) /\ job[r].scope # {} =>
          /\ r \in alone => \A c \in job[r].scope :
                {a \in Accounts : c \in codes'[a]} = {a \in Accounts : <<a, c>> \in job[r].want}
          /\ \A a \in Accounts : codes'[a] \ job[r].scope = codes[a] \ job[r].scope]_vars
=============================================================================
