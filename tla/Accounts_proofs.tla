-------------------------- MODULE Accounts_proofs --------------------------
(***************************************************************************)
(* What a request of the account routers may rely on, for any number of     *)
(* accounts, sources, entities and requests.                                *)
(***************************************************************************)
EXTENDS Accounts, TLAPS

(* What a request has decided, judged when it read: the rows it rewrites are  *)
(* there, and it spoils neither the entity nor the retirement of one.        *)
Sound(api, before, after, new) ==
    /\ \A a \in DOMAIN after :
          /\ Retired(before[a]) => Retired(after[a])
          /\ api # "projects" /\ Owned(before[a]) => Owned(after[a])
    /\ api # "projects" => \A p \in new : Owned(p)

(* What discovery is about to create has no account yet.                    *)
Unknown(api, new) ==
    api = "discovery" =>
       \A p \in new, b \in Accounts : There(b) /\ row[b].source \in Gcp => p.ext # row[b].ext

(* The differences of a full sync are in its scope, and lead to what it wants. *)
InScope(bind, unbind, scope) ==
    scope # {} => \A w \in bind \cup unbind : w[2] \in scope

Exact(bind, unbind, scope, want) ==
    \A c \in scope, a \in Accounts :
       (<<a, c>> \in bind \/ (c \in codes[a] /\ <<a, c>> \notin unbind)) <=> <<a, c>> \in want

(* What a request has decided; what it owes to the tables it read counts      *)
(* while nobody has committed since.                                        *)
Promise(r) ==
    /\ InScope(job[r].bind, job[r].unbind, job[r].scope)
    /\ r \in alone => /\ Unknown(job[r].api, job[r].new)
                      /\ Exact(job[r].bind, job[r].unbind, job[r].scope, job[r].want)
    /\ Sound(job[r].api, job[r].before, job[r].after, job[r].new)
    /\ \A a \in DOMAIN job[r].after :
          /\ There(a)
          /\ r \in alone => job[r].before[a] = row[a]

IInv == TypeOK /\ \A r \in Requests : Promise(r)

(* What the handlers have to show of the request they make.                  *)
Proper(api, after, new) ==
    /\ api \in APIs
    /\ DOMAIN after \subseteq Accounts
    /\ after \in [DOMAIN after -> Project]
    /\ \A a \in DOMAIN after : There(a)
    /\ new \subseteq NewRow
    /\ Sound(api, row, after, new)

-----------------------------------------------------------------------------
(* The initial tables satisfy the invariant.                                *)
LEMMA InitIInv == Init => IInv
<1> SUFFICES ASSUME Init PROVE IInv
  OBVIOUS
<1>1. DOMAIN Idle.after = {} /\ JobOK(Idle)
  BY DEF JobOK, Idle
<1>2. TypeOK
  BY <1>1, AccountsOK DEF Init, TypeOK
<1>3. \A r \in Requests : Promise(r)
  BY <1>1 DEF Init, Promise, Sound, InScope, Idle
<1> QED
  BY <1>2, <1>3 DEF IInv

(* Whatever a request reads and decides properly, the invariant is kept.     *)
LEMMA ReadKeeps ==
    ASSUME IInv, NEW r \in Requests,
           NEW STATE api, NEW STATE after, NEW STATE new, NEW STATE bind,
           NEW STATE unbind, NEW STATE scope, NEW STATE want,
           Read(r, api, after, new, bind, unbind, scope, want),
           Proper(api, after, new), Unknown(api, new),
           InScope(bind, unbind, scope), Exact(bind, unbind, scope, want),
           bind \cup unbind \cup want \subseteq Accounts \X Codes, scope \subseteq Codes
    PROVE  IInv'
<1> DEFINE j == [api |-> api, before |-> [a \in DOMAIN after |-> row[a]], after |-> after,
                 new |-> new, bind |-> bind, unbind |-> unbind, scope |-> scope, want |-> want]
<1>1. /\ DOMAIN job' = Requests /\ row' = row /\ codes' = codes /\ left' = left
      /\ alone' = alone \cup {r} /\ job'[r] = j
      /\ \A q \in Requests \ {r} : job'[q] = job[q]
  BY DEF Read, IInv, TypeOK
<1>2. [a \in DOMAIN after |-> row[a]] \in [DOMAIN after -> Project]
  BY DEF IInv, TypeOK, There, Proper
<1>3. JobOK(j)
  BY <1>2 DEF JobOK, Proper
<1>4. Sound(j.api, j.before, j.after, j.new)
  BY DEF Proper, Sound
<1>5. \A a \in DOMAIN j.after : There(a) /\ j.before[a] = row[a]
  BY DEF Proper
<1>6. /\ Unknown(j.api, j.new) /\ InScope(j.bind, j.unbind, j.scope)
      /\ Exact(j.bind, j.unbind, j.scope, j.want)
  OBVIOUS
<1> HIDE DEF j
<1>7. TypeOK'
  BY <1>1, <1>3 DEF IInv, TypeOK
<1>8. ASSUME NEW q \in Requests PROVE Promise(q)'
  <2>1. CASE q = r
    BY <2>1, <1>1, <1>4, <1>5, <1>6 DEF Promise, There, Unknown, Exact
  <2>2. CASE q # r
    BY <2>2, <1>1 DEF IInv, Promise, There, Unknown, Exact
  <2> QED
    BY <2>1, <2>2
<1> QED
  BY <1>7, <1>8 DEF IInv

-----------------------------------------------------------------------------
(* Where no full sync is asked for, its promises are empty.                  *)
LEMMA NothingAsked ==
    /\ Unknown("accounts", {}) /\ Unknown("projects", {}) /\ Unknown("sales", {})
    /\ \A bind, unbind, want : InScope(bind, unbind, {}) /\ Exact(bind, unbind, {}, want)
BY DEF Unknown, InScope, Exact

(* A request that creates or rewrites rows only.                            *)
LEMMA InsertKeeps ==
    ASSUME IInv, NEW r \in Requests, NEW STATE api, NEW STATE new,
           Insert(r, api, new), api \in APIs, new \subseteq NewRow,
           api # "projects" => \A p \in new : Owned(p), Unknown(api, new)
    PROVE  IInv'
<1>1. Proper(api, Unchanged, new)
  BY DEF Proper, Sound, Unchanged
<1>2. Read(r, api, Unchanged, new, {}, {}, {}, {})
  BY DEF Insert
<1> QED
  BY <1>1, <1>2, NothingAsked, ReadKeeps

\* A request that rewrites rows keeps the invariant if its rows are sound.
LEMMA RewriteKeeps ==
    ASSUME IInv, NEW r \in Requests, NEW STATE api, NEW STATE after,
           Rewrite(r, api, after), Proper(api, after, {})
    PROVE  IInv'
<1>1. Read(r, api, after, {}, {}, {}, {}, {})
  BY DEF Rewrite
<1>2. Unknown(api, {})
  BY DEF Unknown
<1> QED
  BY <1>1, <1>2, NothingAsked, ReadKeeps

(* A row that is there has the type of one.                                 *)
LEMMA RowType ==
    ASSUME TypeOK, NEW a \in Accounts, There(a)
    PROVE  row[a] \in Project
BY DEF TypeOK, There

(* A move takes the entity away, or does nothing to it.                      *)
LEMMA ClearedOwned ==
    ASSUME NEW p \in Project, NEW s \in Sources
    PROVE  /\ Cleared(p, s) \in Project
           /\ Owned(p) => Owned(Cleared(p, s))
           /\ Retired(p) => Retired(Cleared(p, s))
           /\ Cleared(p, s).source = s
BY DEF Project, Cleared, Owned, MayOwn, Retired

(* Creating an account checks the entity against the source.                *)
LEMMA CreateKeeps ==
    ASSUME IInv, NEW r \in Requests, NEW s \in Sources, NEW x \in Exts,
           NEW e \in Nullable(Entities), Create(r, s, x, e)
    PROVE  IInv'
<1> DEFINE p == [source |-> s, entity |-> e, ext |-> x,
                 site |-> Own, status |-> "active", recycled |-> FALSE]
<1>1. p \in NewRow /\ Owned(p)
  BY DEF NewRow, Statuses, Owned, MayOwn, Create, Nullable
<1>2. Insert(r, "accounts", {p})
  BY DEF Create
<1> HIDE DEF p
<1>3. "accounts" \in APIs /\ Unknown("accounts", {p})
  BY DEF APIs, Unknown
<1> QED
  BY <1>1, <1>2, <1>3, InsertKeeps

\* POST /projects.
LEMMA CreateProjectKeeps ==
    ASSUME IInv, NEW r \in Requests, NEW s \in Sources, NEW x \in Exts,
           NEW e \in Nullable(Entities), NEW d \in Nullable(DataSources),
           CreateProject(r, s, x, e, d)
    PROVE  IInv'
<1> DEFINE p == [source |-> s, entity |-> e, ext |-> x,
                 site |-> d, status |-> "active", recycled |-> FALSE]
<1>1. p \in NewRow
  BY DEF NewRow, Statuses, Nullable, DataSources
<1>2. Insert(r, "projects", {p})
  BY DEF CreateProject
<1> HIDE DEF p
<1>3. "projects" \in APIs /\ Unknown("projects", {p})
  BY DEF APIs, Unknown
<1> QED
  BY <1>1, <1>2, <1>3, InsertKeeps

\* PUT /projects.
LEMMA PutProjectKeeps ==
    ASSUME IInv, NEW r \in Requests, NEW a \in Accounts,
           NEW e \in Nullable(Entities), NEW d \in Nullable(DataSources),
           PutProject(r, a, e, d)
    PROVE  IInv'
<1> DEFINE after == [b \in {a} |-> [row[a] EXCEPT !.entity = e, !.site = d]]
<1>1. There(a) /\ row[a] \in Project
  BY RowType DEF PutProject, Live, IInv
<1>2. /\ after[a] \in Project
      /\ Retired(row[a]) => Retired(after[a])
  BY <1>1 DEF Project, Nullable, DataSources, Retired
<1>3. Proper("projects", after, {})
  BY <1>1, <1>2 DEF Proper, APIs, Sound
<1>4. Rewrite(r, "projects", after)
  BY DEF PutProject
<1> HIDE DEF after
<1> QED
  BY <1>3, <1>4, RewriteKeeps

(* An update checks the entity against the source the account ends with.     *)
LEMMA UpdateKeeps ==
    ASSUME IInv, NEW r \in Requests, NEW a \in Accounts, NEW x \in Exts,
           NEW s \in Sources, NEW e \in Nullable(Entities),
           NEW keep \in BOOLEAN, NEW cs \in SUBSET Codes,
           Update(r, a, x, s, e, keep, cs)
    PROVE  IInv'
<1> DEFINE renamed == [row[a] EXCEPT !.ext = x]
           moved   == Cleared(renamed, s)
           final   == IF keep THEN moved ELSE [moved EXCEPT !.entity = e]
           after   == [b \in {a} |-> final]
           bind    == {a} \X (cs \ codes[a])
           unbind  == {a} \X (codes[a] \ cs)
<1>1. There(a) /\ row[a] \in Project
  BY RowType DEF Update, Live, IInv
<1>2. /\ renamed \in Project
      /\ Owned(row[a]) => Owned(renamed)
      /\ Retired(row[a]) => Retired(renamed)
  BY <1>1 DEF Project, Owned, MayOwn, Retired
<1>3. /\ moved \in Project
      /\ Owned(row[a]) => Owned(moved)
      /\ Retired(row[a]) => Retired(moved)
  BY <1>2, ClearedOwned
<1>4. ~keep => MayOwn(moved, e)
  BY DEF Update
<1>5. Read(r, "accounts", after, {}, bind, unbind, {}, {})
  BY DEF Update
<1> HIDE DEF moved
<1>6. /\ final \in Project
      /\ Owned(row[a]) => Owned(final)
      /\ Retired(row[a]) => Retired(final)
  BY <1>3, <1>4 DEF Project, Owned, MayOwn, Retired, Nullable
<1> HIDE DEF final
<1>7. Proper("accounts", after, {})
  BY <1>1, <1>6 DEF Proper, APIs, Sound
<1>8. bind \cup unbind \subseteq Accounts \X Codes
  BY DEF IInv, TypeOK
<1> HIDE DEF after, bind, unbind
<1> QED
  BY <1>5, <1>7, <1>8, NothingAsked, ReadKeeps

\* Bulk assignment to a supply source.
LEMMA BulkAssignKeeps ==
    ASSUME IInv, NEW r \in Requests, NEW A \in SUBSET Accounts, NEW s \in Sources,
           BulkAssign(r, A, s)
    PROVE  IInv'
<1> DEFINE moving == {a \in A : /\ There(a)
                                /\ row[a].source # s
                                /\ SameCloud(row[a].source, s)}
           after == [a \in moving |-> Cleared(row[a], s)]
<1>1. \A a \in moving : a \in Accounts /\ There(a) /\ row[a] \in Project
  BY RowType DEF IInv
<1>2. Proper("accounts", after, {})
  BY <1>1, ClearedOwned DEF Proper, APIs, Sound
<1>3. Rewrite(r, "accounts", after)
  BY DEF BulkAssign
<1> HIDE DEF after
<1> QED
  BY <1>2, <1>3, RewriteKeeps

\* Bulk assignment to an entity.
LEMMA BulkAssignEntityKeeps ==
    ASSUME IInv, NEW r \in Requests, NEW A \in SUBSET Accounts,
           NEW e \in Nullable(Entities), BulkAssignEntity(r, A, e)
    PROVE  IInv'
<1> DEFINE moving == {a \in A : There(a) /\ row[a].entity # e /\ MayOwn(row[a], e)}
           after == [a \in moving |-> [row[a] EXCEPT !.entity = e]]
<1>1. \A a \in moving : a \in Accounts /\ There(a) /\ row[a] \in Project
  BY RowType DEF IInv
<1>2. ASSUME NEW a \in moving
      PROVE  /\ after[a] \in Project
             /\ Owned(after[a])
             /\ Retired(row[a]) => Retired(after[a])
  BY <1>1 DEF Project, Owned, MayOwn, Retired, Nullable
<1>3. Proper("accounts", after, {})
  BY <1>1, <1>2 DEF Proper, APIs, Sound
<1>4. Rewrite(r, "accounts", after)
  BY DEF BulkAssignEntity
<1> HIDE DEF after
<1> QED
  BY <1>3, <1>4, RewriteKeeps

(* A status changes on a live account only, and deletion sets both columns.   *)
LEMMA SwitchKeeps ==
    ASSUME IInv, NEW r \in Requests, NEW a \in Accounts, NEW to \in Statuses,
           SetStatus(r, a, to) \/ Delete(r, a)
    PROVE  IInv'
<1>1. There(a) /\ row[a] \in Project /\ ~row[a].recycled
  BY RowType DEF SetStatus, Delete, Live, IInv
<1>2. CASE SetStatus(r, a, to)
  <2> DEFINE after == [b \in {a} |-> [row[a] EXCEPT !.status = to]]
  <2>1. /\ after[a] \in Project /\ Retired(after[a])
        /\ Owned(row[a]) => Owned(after[a])
    BY <1>1 DEF Project, Owned, MayOwn, Retired
  <2>2. Proper("accounts", after, {})
    BY <1>1, <2>1 DEF Proper, APIs, Sound
  <2>3. Rewrite(r, "accounts", after)
    BY <1>2 DEF SetStatus
  <2> HIDE DEF after
  <2> QED
    BY <2>2, <2>3, RewriteKeeps
<1>3. CASE Delete(r, a)
  <2> DEFINE after == [b \in {a} |-> [row[a] EXCEPT !.recycled = TRUE, !.status = "inactive"]]
  <2>1. /\ after[a] \in Project /\ Retired(after[a])
        /\ Owned(row[a]) => Owned(after[a])
    BY <1>1 DEF Project, Owned, MayOwn, Retired, Statuses
  <2>2. Proper("accounts", after, {})
    BY <1>1, <2>1 DEF Proper, APIs, Sound
  <2>3. Rewrite(r, "accounts", after)
    BY <1>3 DEF Delete
  <2> HIDE DEF after
  <2> QED
    BY <2>2, <2>3, RewriteKeeps
<1> QED
  BY <1>2, <1>3

\* Discovery of GCP projects.
LEMMA DiscoverKeeps ==
    ASSUME IInv, NEW r \in Requests, NEW X \in SUBSET Exts, Discover(r, X)
    PROVE  IInv'
<1> DEFINE new == {[source |-> Bucket, entity |-> None, ext |-> x, site |-> None,
                    status |-> "standby", recycled |-> FALSE] : x \in X \ Known(X)}
<1>1. ASSUME NEW p \in new PROVE p \in NewRow /\ Owned(p)
  <2>1. PICK x \in X \ Known(X) :
           p = [source |-> Bucket, entity |-> None, ext |-> x, site |-> None,
                status |-> "standby", recycled |-> FALSE]
    OBVIOUS
  <2>2. p.entity = None /\ x \in Exts
    BY <2>1
  <2> QED
    BY <2>1, <2>2, AccountsOK DEF NewRow, Statuses, Owned, MayOwn
<1>2. Insert(r, "discovery", new)
  BY DEF Discover
<1>3. "discovery" \in APIs
  BY DEF APIs
<1>4. ASSUME NEW p \in new PROVE p.ext \in X \ Known(X)
  OBVIOUS
<1>5. \A b \in Accounts : There(b) /\ row[b].source \in Gcp /\ row[b].ext \in X
                             => row[b].ext \in Known(X)
  BY DEF Known
<1>6. Unknown("discovery", new)
  BY <1>4, <1>5 DEF Unknown
<1> HIDE DEF new
<1> QED
  BY <1>1, <1>2, <1>3, <1>6, InsertKeeps

(* The lines of the sales system name accounts.                             *)
LEMMA WantedType ==
    ASSUME NEW items \in Lines, NEW pick \in Picks
    PROVE  Wanted(items, pick) \subseteq Accounts \X Codes
<1> SUFFICES ASSUME NEW i \in items, Matches(i[1], i[2]) # {}
             PROVE  <<pick[<<i[1], i[2]>>], i[3]>> \in Accounts \X Codes
  BY DEF Wanted
<1>1. i \in Sources \X Exts \X Codes
  BY DEF Lines
<1>2. pick[<<i[1], i[2]>>] \in Matches(i[1], i[2])
  BY <1>1 DEF Picks, Keys
<1> QED
  BY <1>1, <1>2 DEF Matches

(* So do the assignments.                                                   *)
LEMMA HeldType ==
    ASSUME TypeOK, NEW A \in SUBSET Accounts
    PROVE  Held(A) \subseteq Accounts \X Codes
<1> SUFFICES ASSUME NEW h \in Held(A) PROVE h \in Accounts \X Codes
  OBVIOUS
<1>1. PICK a \in A : h \in {a} \X codes[a]
  BY DEF Held
<1>2. codes[a] \subseteq Codes /\ a \in Accounts
  BY DEF TypeOK
<1> QED
  BY <1>1, <1>2

\* The sync of the sales system.
LEMMA SalesKeeps ==
    ASSUME IInv, NEW r \in Requests, NEW items \in Lines, NEW pick \in Picks,
           NEW given \in SUBSET Codes,
           SyncPatch(r, items, pick) \/ SyncFull(r, items, pick, given)
    PROVE  IInv'
<1>1. Wanted(items, pick) \subseteq Accounts \X Codes
  BY WantedType
<1>2. Proper("sales", Unchanged, {})
  BY DEF Proper, APIs, Sound, Unchanged
<1>3. CASE SyncPatch(r, items, pick)
  <2>1. Read(r, "sales", Unchanged, {}, Wanted(items, pick) \ Held(Accounts), {}, {}, {})
    BY <1>3 DEF SyncPatch
  <2> QED
    BY <1>1, <1>2, <2>1, NothingAsked, ReadKeeps
<1>4. CASE SyncFull(r, items, pick, given)
  <2> DEFINE scope   == IF given = {} THEN {i[3] : i \in items} ELSE given
             want    == Wanted(items, pick)
             inScope == {w \in want : w[2] \in scope}
             current == {h \in Held(Candidates(want, scope)) : h[2] \in scope}
  <2>1. scope \subseteq Codes
    BY DEF Lines
  <2>2. Candidates(want, scope) \subseteq Accounts
    BY <1>1 DEF Candidates
  <2>3. Held(Candidates(want, scope)) \subseteq Accounts \X Codes
    BY <2>2, HeldType DEF IInv
  <2>4. /\ want \subseteq Accounts \X Codes
        /\ inScope \ current \subseteq Accounts \X Codes
        /\ current \ inScope \subseteq Accounts \X Codes
    BY <1>1, <2>3
  <2>5. Read(r, "sales", Unchanged, {}, inScope \ current, current \ inScope, scope, want)
    BY <1>4 DEF SyncFull
  <2>6. InScope(inScope \ current, current \ inScope, scope)
    BY DEF InScope
  <2>7. Exact(inScope \ current, current \ inScope, scope, want)
    <3> SUFFICES ASSUME NEW c \in scope, NEW a \in Accounts
                 PROVE  (<<a, c>> \in inScope \ current \/ (c \in codes[a] /\ <<a, c>> \notin current \ inScope))
                           <=> <<a, c>> \in want
      BY DEF Exact
    <3>1. <<a, c>> \in inScope <=> <<a, c>> \in want
      OBVIOUS
    <3>2. c \in codes[a] => a \in Candidates(want, scope)
      BY DEF Candidates
    <3>3. ASSUME <<a, c>> \in current PROVE c \in codes[a]
      <4>1. PICK b \in Candidates(want, scope) : <<a, c>> \in {b} \X codes[b]
        BY <3>3 DEF Held
      <4> QED
        BY <4>1
    <3>4. ASSUME a \in Candidates(want, scope), c \in codes[a] PROVE <<a, c>> \in current
      <4>1. <<a, c>> \in {a} \X codes[a]
        BY <3>4
      <4>2. <<a, c>> \in Held(Candidates(want, scope))
        BY <3>4, <4>1 DEF Held
      <4>3. <<a, c>>[2] = c
        OBVIOUS
      <4> QED
        BY <4>2, <4>3
    <3> QED
      BY <3>1, <3>2, <3>3, <3>4
  <2> HIDE DEF scope, want, inScope, current
  <2> QED
    BY <1>2, <2>1, <2>4, <2>5, <2>6, <2>7, NothingAsked, ReadKeeps
<1> QED
  BY <1>3, <1>4

-----------------------------------------------------------------------------
(* What a commit does to one row: it makes it, merges it, or leaves it.       *)
LEMMA CommitRow ==
    ASSUME IInv, NEW r \in Requests, Commit(r), NEW a \in Accounts
    PROVE  \/ ~There(a) /\ \E p \in job[r].new : row'[a] = Placed(a, p)
           \/ /\ a \in DOMAIN job[r].after
              /\ row'[a] = Written(row[a], job[r].before[a], job[r].after[a])
           \/ row'[a] = row[a]
<1> DEFINE j == job[r]
           next(at, b) ==
              IF \E p \in j.new : at[p] = b
                THEN Placed(b, CHOOSE p \in j.new : at[p] = b)
              ELSE IF b \in DOMAIN j.after
                THEN Written(row[b], j.before[b], j.after[b]) ELSE row[b]
<1>1. PICK at \in [j.new -> {b \in Accounts : ~There(b)}] :
         row' = [b \in Accounts |-> next(at, b)]
  BY DEF Commit
<1>2. row'[a] = next(at, a)
  BY <1>1
<1>3. CASE \E p \in j.new : at[p] = a
  <2>1. PICK p \in j.new : at[p] = a /\ row'[a] = Placed(a, p)
    BY <1>2, <1>3
  <2>2. ~There(a)
    BY <1>1, <2>1
  <2> QED
    BY <2>1, <2>2
<1> QED
  BY <1>2, <1>3

\* An account that is placed is an account.
LEMMA PlacedType ==
    ASSUME NEW a \in Accounts, NEW p \in NewRow
    PROVE  Placed(a, p) \in Project
BY DEF Placed, NewRow, Project

\* An account that is written is an account.
LEMMA WrittenType ==
    ASSUME NEW now \in Project, NEW before \in Project, NEW after \in Project
    PROVE  Written(now, before, after) \in Project
BY DEF Written, Project

(* A row is there for good: a commit only ever adds rows.                    *)
LEMMA CommitType ==
    ASSUME IInv, NEW r \in Requests, Commit(r), NEW a \in Accounts
    PROVE  row'[a] \in Project \cup {NoRow} /\ (There(a) => row'[a] # NoRow)
<1>1. NoRow \notin Project
  BY AccountsOK DEF NoRow, Project
<1>2. CASE ~There(a) /\ \E p \in job[r].new : row'[a] = Placed(a, p)
  BY <1>2, PlacedType DEF IInv, TypeOK, JobOK
<1>3. CASE /\ a \in DOMAIN job[r].after
           /\ row'[a] = Written(row[a], job[r].before[a], job[r].after[a])
  <2>1. There(a) /\ job[r].before[a] \in Project /\ job[r].after[a] \in Project
    BY <1>3 DEF IInv, TypeOK, JobOK, Promise
  <2> QED
    BY <1>1, <1>3, <2>1, RowType, WrittenType DEF IInv
<1>4. CASE row'[a] = row[a]
  BY <1>4 DEF IInv, TypeOK, There
<1> QED
  BY <1>2, <1>3, <1>4, CommitRow

\* A commit ends what the others have in hand.
LEMMA CommitKeeps ==
    ASSUME IInv, NEW r \in Requests, Commit(r)
    PROVE  IInv'
<1>1. /\ DOMAIN job' = Requests /\ job'[r] = Idle /\ alone' = {}
      /\ \A q \in Requests \ {r} : job'[q] = job[q]
  BY DEF Commit, IInv, TypeOK
<1>2. left' \in 0 .. MaxCommits
  BY AccountsOK DEF Commit, IInv, TypeOK
<1>3. codes' \in [Accounts -> SUBSET Codes]
  BY DEF Commit
<1>4. row' \in [Accounts -> Project \cup {NoRow}]
  <2>1. DOMAIN row' = Accounts /\ row' = [a \in Accounts |-> row'[a]]
    BY DEF Commit
  <2> QED
    BY <2>1, CommitType
<1>5. DOMAIN Idle.after = {} /\ JobOK(Idle) /\ Idle.new = {}
  BY DEF JobOK, Idle
<1>6. TypeOK'
  BY <1>1, <1>2, <1>3, <1>4, <1>5 DEF IInv, TypeOK
<1>7. ASSUME NEW q \in Requests PROVE Promise(q)'
  <2>1. CASE q = r
    BY <2>1, <1>1, <1>5 DEF Promise, Sound, InScope, Idle
  <2>2. CASE q # r
    <3>1. \A a \in DOMAIN job[q].after : There(a) /\ a \in Accounts
      BY DEF IInv, Promise, TypeOK, JobOK
    <3>2. \A a \in DOMAIN job[q].after : There(a)'
      BY <3>1, CommitType DEF There
    <3> QED
      BY <2>2, <1>1, <3>2 DEF IInv, Promise
  <2> QED
    BY <2>1, <2>2
<1> QED
  BY <1>6, <1>7 DEF IInv

\* A rollback changes no row.
LEMMA RollbackKeeps ==
    ASSUME IInv, NEW r \in Requests, Rollback(r)
    PROVE  IInv'
<1>1. /\ DOMAIN job' = Requests /\ job'[r] = Idle /\ alone' = alone \ {r}
      /\ row' = row /\ codes' = codes /\ left' = left
      /\ \A q \in Requests \ {r} : job'[q] = job[q]
  BY DEF Rollback, IInv, TypeOK
<1>2. DOMAIN Idle.after = {} /\ JobOK(Idle) /\ Idle.new = {}
  BY DEF JobOK, Idle
<1>3. TypeOK'
  BY <1>1, <1>2 DEF IInv, TypeOK
<1>4. ASSUME NEW q \in Requests PROVE Promise(q)'
  <2>1. CASE q = r
    BY <2>1, <1>1, <1>2 DEF Promise, Sound, InScope, Idle
  <2>2. CASE q # r
    BY <2>2, <1>1 DEF IInv, Promise, There, Unknown, Exact
  <2> QED
    BY <2>1, <2>2
<1> QED
  BY <1>3, <1>4 DEF IInv

-----------------------------------------------------------------------------
(* Every step keeps the invariant.                                          *)
LEMMA NextKeeps == IInv /\ [Next]_vars => IInv'
<1> SUFFICES ASSUME IInv, [Next]_vars PROVE IInv'
  OBVIOUS
<1>1. ASSUME NEW r \in Requests, Request(r) PROVE IInv'
  <2>1. CASE \E s \in Sources, x \in Exts, e \in Nullable(Entities) : Create(r, s, x, e)
    BY <2>1, CreateKeeps
  <2>2. CASE \E s \in Sources, x \in Exts, e \in Nullable(Entities),
                d \in Nullable(DataSources) : CreateProject(r, s, x, e, d)
    BY <2>2, CreateProjectKeeps
  <2>3. CASE \E a \in Accounts, e \in Nullable(Entities), d \in Nullable(DataSources) :
                PutProject(r, a, e, d)
    BY <2>3, PutProjectKeeps
  <2>4. CASE \E a \in Accounts, x \in Exts, s \in Sources, e \in Nullable(Entities),
                keep \in BOOLEAN, cs \in SUBSET Codes : Update(r, a, x, s, e, keep, cs)
    BY <2>4, UpdateKeeps
  <2>5. CASE \E A \in SUBSET Accounts, s \in Sources : BulkAssign(r, A, s)
    BY <2>5, BulkAssignKeeps
  <2>6. CASE \E A \in SUBSET Accounts, e \in Nullable(Entities) : BulkAssignEntity(r, A, e)
    BY <2>6, BulkAssignEntityKeeps
  <2>7. CASE \/ \E a \in Accounts, to \in Statuses : SetStatus(r, a, to)
             \/ \E a \in Accounts : Delete(r, a)
    BY <2>7, SwitchKeeps DEF Statuses
  <2>8. CASE \E X \in SUBSET Exts : Discover(r, X)
    BY <2>8, DiscoverKeeps
  <2>9. CASE \E items \in Lines, pick \in Picks :
                \/ SyncPatch(r, items, pick)
                \/ \E given \in SUBSET Codes : SyncFull(r, items, pick, given)
    BY <2>9, SalesKeeps
  <2> QED
    BY <1>1, <2>1, <2>2, <2>3, <2>4, <2>5, <2>6, <2>7, <2>8, <2>9 DEF Request
<1>2. CASE UNCHANGED vars
  BY <1>2 DEF vars, IInv, TypeOK, Promise, There, Unknown, Exact
<1> QED
  BY <1>1, <1>2, CommitKeeps, RollbackKeeps DEF Next

(* The variables of Accounts keep their types.                              *)
THEOREM TypeCorrect == Spec => []TypeOK
<1>1. IInv => TypeOK
  BY DEF IInv
<1> QED
  BY <1>1, InitIInv, NextKeeps, PTL DEF Spec

(* Reading uses no commit up.                                               *)
LEMMA RequestReads ==
    ASSUME NEW r \in Requests, Request(r)
    PROVE  left' = left
<1>1. ASSUME NEW s, NEW x, NEW e, Create(r, s, x, e) PROVE left' = left
  BY <1>1 DEF Create, Insert, Read
<1>2. ASSUME NEW s, NEW x, NEW e, NEW d, CreateProject(r, s, x, e, d) PROVE left' = left
  BY <1>2 DEF CreateProject, Insert, Read
<1>3. ASSUME NEW a, NEW e, NEW d, PutProject(r, a, e, d) PROVE left' = left
  BY <1>3 DEF PutProject, Rewrite, Read
<1>4. ASSUME NEW a, NEW x, NEW s, NEW e, NEW keep, NEW cs, Update(r, a, x, s, e, keep, cs)
      PROVE  left' = left
  BY <1>4 DEF Update, Read
<1>5. ASSUME NEW A, NEW s, BulkAssign(r, A, s) PROVE left' = left
  BY <1>5 DEF BulkAssign, Rewrite, Read
<1>6. ASSUME NEW A, NEW e, BulkAssignEntity(r, A, e) PROVE left' = left
  BY <1>6 DEF BulkAssignEntity, Rewrite, Read
<1>7. ASSUME NEW a, NEW to, SetStatus(r, a, to) \/ Delete(r, a) PROVE left' = left
  BY <1>7 DEF SetStatus, Delete, Rewrite, Read
<1>8. ASSUME NEW X, Discover(r, X) PROVE left' = left
  BY <1>8 DEF Discover, Insert, Read
<1>9. ASSUME NEW items, NEW pick, NEW given,
             SyncPatch(r, items, pick) \/ SyncFull(r, items, pick, given)
      PROVE  left' = left
  BY <1>9 DEF SyncPatch, SyncFull, Read
<1> QED
  BY <1>1, <1>2, <1>3, <1>4, <1>5, <1>6, <1>7, <1>8, <1>9 DEF Request

(* A step that ends a request with a commit is that commit.                  *)
LEMMA CommittedIsCommit ==
    ASSUME IInv, [Next]_vars, NEW r \in Requests, Committed(r)
    PROVE  Commit(r)
<1>1. left' # left /\ job'[r] # job[r]
  BY DEF Committed, IInv, TypeOK
<1>2. ASSUME NEW q \in Requests, Request(q) PROVE left' = left
  BY <1>2, RequestReads
<1>3. ASSUME NEW q \in Requests, Rollback(q) PROVE left' = left
  BY <1>3 DEF Rollback
<1>4. ASSUME NEW q \in Requests, Commit(q) PROVE q = r
  <2>1. job' = [job EXCEPT ![q] = Idle]
    BY <1>4 DEF Commit
  <2> QED
    BY <2>1, <1>1 DEF IInv, TypeOK
<1> QED
  BY <1>1, <1>2, <1>3, <1>4 DEF Next, vars

(* What a commit leaves in a row if nobody came between: the decided row.     *)
LEMMA AloneCommit ==
    ASSUME IInv, NEW r \in Requests, r \in alone, Commit(r), NEW a \in Accounts
    PROVE  \/ ~There(a) /\ \E p \in job[r].new : row'[a] = Placed(a, p)
           \/ /\ a \in DOMAIN job[r].after
              /\ job[r].before[a] = row[a] /\ row'[a] = job[r].after[a]
           \/ row'[a] = row[a]
<1>1. CASE /\ a \in DOMAIN job[r].after
           /\ row'[a] = Written(row[a], job[r].before[a], job[r].after[a])
  <2>1. /\ job[r].before[a] = row[a]
        /\ row[a] \in Project /\ job[r].after[a] \in Project
    BY <1>1 DEF IInv, TypeOK, JobOK, Promise
  <2>2. ASSUME NEW p \in Project, NEW q \in Project PROVE Written(p, p, q) = q
    BY DEF Written, Project
  <2> QED
    BY <1>1, <2>1, <2>2
<1> QED
  BY <1>1, CommitRow

(* A request of the account routers that nobody overlaps keeps each account's *)
(* entity one of its supply source.                                         *)
THEOREM EntitiesAreKept == Spec => EntityKept
<1> DEFINE Kept == \A r \in Requests :
                      Committed(r) /\ r \in alone /\ job[r].api # "projects" =>
                         \A a \in Accounts : Owned(row[a]) => Owned(row'[a])
<1>1. IInv /\ [Next]_vars => Kept
  <2> SUFFICES ASSUME IInv, [Next]_vars, NEW r \in Requests, Committed(r), r \in alone,
                      job[r].api # "projects", NEW a \in Accounts, Owned(row[a])
               PROVE  Owned(row'[a])
    OBVIOUS
  <2>1. Commit(r)
    BY CommittedIsCommit
  <2>2. ASSUME NEW p \in job[r].new PROVE Owned(Placed(a, p))
    <3>1. Owned(p) /\ p \in NewRow
      BY DEF IInv, Promise, Sound, TypeOK, JobOK
    <3> QED
      BY <3>1 DEF Owned, MayOwn, Placed, NewRow
  <2>3. ASSUME a \in DOMAIN job[r].after, job[r].before[a] = row[a]
        PROVE  Owned(job[r].after[a])
    BY <2>3 DEF IInv, Promise, Sound
  <2> QED
    BY <2>1, <2>2, <2>3, AloneCommit
<1>2. IInv /\ [Next]_vars => [Kept]_vars
  BY <1>1
<1> QED
  BY <1>2, InitIInv, NextKeeps, PTL DEF Spec, EntityKept

(* A request that nobody overlaps leaves a deleted account inactive.         *)
THEOREM DeletedAreInactive == Spec => DeletedStaysInactive
<1> DEFINE Kept == \A r \in Requests :
                      Committed(r) /\ r \in alone =>
                         \A a \in Accounts : Retired(row[a]) => Retired(row'[a])
<1>1. IInv /\ [Next]_vars => Kept
  <2> SUFFICES ASSUME IInv, [Next]_vars, NEW r \in Requests, Committed(r), r \in alone,
                      NEW a \in Accounts, Retired(row[a])
               PROVE  Retired(row'[a])
    OBVIOUS
  <2>1. Commit(r)
    BY CommittedIsCommit
  <2>2. ASSUME NEW p \in job[r].new PROVE Retired(Placed(a, p))
    <3>1. p \in NewRow
      BY DEF IInv, TypeOK, JobOK
    <3> QED
      BY <3>1 DEF Retired, Placed, NewRow
  <2>3. ASSUME a \in DOMAIN job[r].after, job[r].before[a] = row[a]
        PROVE  Retired(job[r].after[a])
    BY <2>3 DEF IInv, Promise, Sound
  <2> QED
    BY <2>1, <2>2, <2>3, AloneCommit
<1>2. IInv /\ [Next]_vars => [Kept]_vars
  BY <1>1
<1> QED
  BY <1>2, InitIInv, NextKeeps, PTL DEF Spec, DeletedStaysInactive

(* Discovery that nobody overlaps gives no GCP project a second account.     *)
THEOREM DeletedAreNotRevived == Spec => NoRevival
<1> DEFINE Kept == \A r \in Requests :
                      Committed(r) /\ r \in alone /\ job[r].api = "discovery" =>
                         \A a, b \in Accounts :
                            ~There(a) /\ row'[a] # NoRow /\ There(b) /\ row[b].source \in Gcp
                               => row'[a].ext # row[b].ext
<1>1. IInv /\ [Next]_vars => Kept
  <2> SUFFICES ASSUME IInv, [Next]_vars, NEW r \in Requests, Committed(r), r \in alone,
                      job[r].api = "discovery", NEW a \in Accounts, NEW b \in Accounts,
                      ~There(a), row'[a] # NoRow, There(b), row[b].source \in Gcp
               PROVE  row'[a].ext # row[b].ext
    OBVIOUS
  <2>1. Commit(r)
    BY CommittedIsCommit
  <2>2. PICK p \in job[r].new : row'[a] = Placed(a, p)
    BY <2>1, AloneCommit DEF IInv, Promise, There
  <2>3. p.ext # row[b].ext
    BY DEF IInv, Promise, Unknown
  <2>4. Placed(a, p).ext = p.ext
    BY DEF Placed, IInv, TypeOK, JobOK, NewRow
  <2> QED
    BY <2>2, <2>3, <2>4
<1>2. IInv /\ [Next]_vars => [Kept]_vars
  BY <1>1
<1> QED
  BY <1>2, InitIInv, NextKeeps, PTL DEF Spec, NoRevival

(* A full sync leaves the codes outside its scope alone, and if nobody       *)
(* overlaps it, those in its scope are held as it asks.                      *)
THEOREM SalesAreExact == Spec => SalesExact
<1> DEFINE Kept == \A r \in Requests : Committed(r) /\ job[r].scope # {} =>
                      /\ r \in alone => \A c \in job[r].scope :
                            {a \in Accounts : c \in codes'[a]}
                               = {a \in Accounts : <<a, c>> \in job[r].want}
                      /\ \A a \in Accounts :
                            codes'[a] \ job[r].scope = codes[a] \ job[r].scope
<1>1. IInv /\ [Next]_vars => Kept
  <2> SUFFICES ASSUME IInv, [Next]_vars, NEW r \in Requests, Committed(r), job[r].scope # {}
               PROVE  /\ r \in alone => \A c \in job[r].scope :
                            {a \in Accounts : c \in codes'[a]}
                               = {a \in Accounts : <<a, c>> \in job[r].want}
                      /\ \A a \in Accounts :
                            codes'[a] \ job[r].scope = codes[a] \ job[r].scope
    OBVIOUS
  <2>1. Commit(r)
    BY CommittedIsCommit
  <2>2. \A a \in Accounts, c \in Codes :
           c \in codes'[a] <=> \/ <<a, c>> \in job[r].bind
                               \/ c \in codes[a] /\ <<a, c>> \notin job[r].unbind
    <3>1. codes' = [a \in Accounts |-> {c \in Codes :
                      \/ <<a, c>> \in job[r].bind
                      \/ c \in codes[a] /\ <<a, c>> \notin job[r].unbind}]
      BY <2>1 DEF Commit
    <3> QED
      BY <3>1
  <2>3. \A a \in Accounts : codes'[a] \subseteq Codes /\ codes[a] \subseteq Codes
    BY NextKeeps DEF IInv, TypeOK
  <2>4. job[r].scope \subseteq Codes
    BY DEF IInv, TypeOK, JobOK
  <2>5. r \in alone => Exact(job[r].bind, job[r].unbind, job[r].scope, job[r].want)
    BY DEF IInv, Promise
  <2>6. \A w \in job[r].bind \cup job[r].unbind : w[2] \in job[r].scope
    BY DEF IInv, Promise, InScope
  <2>7. ASSUME NEW a \in Accounts
        PROVE  codes'[a] \ job[r].scope = codes[a] \ job[r].scope
    <3>1. ASSUME NEW c, c \notin job[r].scope
          PROVE  <<a, c>> \notin job[r].bind \cup job[r].unbind
      <4>1. <<a, c>>[2] = c
        OBVIOUS
      <4> QED
        BY <3>1, <2>6, <4>1
    <3>2. \A c : c \notin job[r].scope => (c \in codes'[a] <=> c \in codes[a])
      BY <3>1, <2>2, <2>3
    <3> QED
      BY <3>2
  <2>8. ASSUME r \in alone, NEW c \in job[r].scope, NEW a \in Accounts
        PROVE  c \in codes'[a] <=> <<a, c>> \in job[r].want
    BY <2>8, <2>2, <2>4, <2>5 DEF Exact
  <2> QED
    BY <2>7, <2>8
<1>2. IInv /\ [Next]_vars => [Kept]_vars
  BY <1>1
<1> QED
  BY <1>2, InitIInv, NextKeeps, PTL DEF Spec, SalesExact
=============================================================================
