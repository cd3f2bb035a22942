---------------------------- MODULE TaijiIngest ----------------------------
(***************************************************************************)
(* Taiji pushes its request logs (POST /api/metering/taiji/ingest).  A push  *)
(* stores the raw logs, reads back all raw logs of the days it touches,      *)
(* wipes the billing and the token usage of these days and writes them anew, *)
(* each step a transaction of its own.  A nightly job deletes raw logs past  *)
(* their retention.                                                          *)
(*                                                                         *)
(* The handler never awaits between the first store and its answer, so a     *)
(* server process works on one push at a time; two processes, as while one   *)
(* replaces the other, work side by side.  The client sends a push again     *)
(* when it got no 200.  A row's amount is the set of logs it adds up.        *)
(***************************************************************************)
EXTENDS Integers, FiniteSetsExt

CONSTANTS
    Logs,       \* request logs of Taiji, one per id
    DayOf,      \* UTC day of a log
    KeyOf,      \* its (project, model, channel), what a billing row is for
    ModelOf,    \* the model of such a key, what a token_usage row is for
    ProjectOf,  \* and its project
    Pushes,     \* what the client wants to send
    BatchOf,    \* the logs of each push
    Servers,    \* API processes
    MaxTries,   \* bound: times the client sends a push ("push_logs" tries 3)
    MaxSends,   \* bound: times it sends anything
    MaxDay,     \* bound: last day of the run
    Retention,  \* gc_taiji_raw_older_than(days=30)
    Idle        \* no push

Keys     == {KeyOf[l] : l \in Logs}
Models   == {ModelOf[k] : k \in Keys}
Projects == {ProjectOf[k] : k \in Keys}
Days     == 1 .. MaxDay

ASSUME ConstantsOK ==
    /\ DayOf \in [Logs -> Days]
    /\ BatchOf \in [Pushes -> SUBSET Logs]
    /\ MaxTries \in Nat /\ MaxSends \in Nat /\ MaxDay \in Nat \ {0} /\ Retention \in Nat
    /\ Idle \notin Pushes

VARIABLES
    raw,       \* billing_raw_taiji
    billing,   \* billing_summary of the data source, by day and key
    tokens,    \* token_usage of the data source, by day and model
    projects,  \* projects of the data source
    today,
    pc,        \* the next step of each server
    push,      \* the push it works on
    read,      \* the raw logs it has read back
    tries,     \* how often a push was sent
    acked,     \* pushes answered with 200 to a client that got the answer
    shared,    \* the days of a push that another server has been at since it began
    crossed,   \* days that no push has rewritten undisturbed since two met there
    late       \* days that a push has read back when they were past the retention

vars == <<raw, billing, tokens, projects, today, pc, push, read, tries, acked, shared, crossed, late>>

Cells  == Days \X Keys
Totals == Days \X Models
Steps  == {"store", "read", "wipe", "merge", "count", "create", "answer"}

TypeOK ==
    /\ raw \in SUBSET Logs
    /\ billing \in [Cells -> SUBSET Logs]
    /\ tokens \in [Totals -> SUBSET Logs]
    /\ projects \in SUBSET Projects
    /\ today \in Days
    /\ pc \in [Servers -> {"idle"} \cup Steps]
    /\ push \in [Servers -> Pushes \cup {Idle}]
    /\ read \in [Servers -> SUBSET Logs]
    /\ tries \in [Pushes -> 0 .. MaxTries]
    /\ acked \in SUBSET Pushes
    /\ shared \in [Servers -> SUBSET Days]
    /\ crossed \in SUBSET Days
    /\ late \in SUBSET Days

Init ==
    /\ raw = {}
    /\ billing = [c \in Cells |-> {}]
    /\ tokens = [x \in Totals |-> {}]
    /\ projects = {}
    /\ today = 1
    /\ pc = [s \in Servers |-> "idle"]
    /\ push = [s \in Servers |-> Idle]
    /\ read = [s \in Servers |-> {}]
    /\ tries = [p \in Pushes |-> 0]
    /\ acked = {}
    /\ shared = [s \in Servers |-> {}]
    /\ crossed = {}
    /\ late = {}

-----------------------------------------------------------------------------
DaysOf(p) == {DayOf[l] : l \in BatchOf[p]}
Touched(s) == DaysOf(push[s])

At(s, here, there) ==
    /\ pc[s] = here
    /\ pc' = [pc EXCEPT ![s] = there]

\* The days on which a push to s meets the one of another server.
Common(s, p, t) == IF t # s /\ pc[t] # "idle" THEN DaysOf(p) \cap Touched(t) ELSE {}
Meet(s, p) ==
    shared' = [t \in Servers |->
        IF t = s THEN UNION {Common(s, p, u) : u \in Servers} ELSE shared[t] \cup Common(s, p, t)]

\* The first day whose raw logs the collection keeps.
Cutoff == today - Retention

\* Mutant of Receive: the client never stops trying.
ReceiveAgain(s, p) ==
    /\ At(s, "idle", "store")
    /\ p \notin acked
    /\ MapThenSumSet(LAMBDA q : tries[q], Pushes) < MaxSends
    /\ \A d \in DaysOf(p) : d <= today
    /\ push' = [push EXCEPT ![s] = p]
    /\ tries' = [tries EXCEPT ![p] = @ + 1]
    /\ Meet(s, p)
    /\ UNCHANGED <<raw, billing, tokens, projects, today, read, acked, crossed, late>>

\* The client sends a push it has no 200 for; it may have given up waiting for
\* a server that is still at it.  No log is from the future, but it may be of any
\* age: the handler looks at no date.
Receive(s, p) ==
    /\ At(s, "idle", "store")
    /\ p \notin acked
    /\ MapThenSumSet(LAMBDA q : tries[q], Pushes) < MaxSends
    /\ tries[p] < MaxTries
    /\ \A d \in DaysOf(p) : d <= today
    /\ push' = [push EXCEPT ![s] = p]
    /\ tries' = [tries EXCEPT ![p] = @ + 1]
    /\ Meet(s, p)
    /\ UNCHANGED <<raw, billing, tokens, projects, today, read, acked, crossed, late>>

\* upsert_taiji_raw_logs: ON CONFLICT DO NOTHING.
Store(s) ==
    /\ At(s, "store", "read")
    /\ raw' = raw \cup BatchOf[push[s]]
    /\ UNCHANGED <<billing, tokens, projects, today, push, read, tries, acked, shared, crossed, late>>

\* Mutant of Read: aggregate what was pushed and not what is stored.
ReadBatch(s) ==
    /\ At(s, "read", "wipe")
    /\ read' = [read EXCEPT ![s] = BatchOf[push[s]]]
    /\ UNCHANGED <<raw, billing, tokens, projects, today, push, tries, acked, shared, crossed, late>>

\* reaggregate_from_taiji_raw, its five transactions.
Read(s) ==
    /\ At(s, "read", "wipe")
    /\ read' = [read EXCEPT ![s] = {l \in raw : DayOf[l] \in Touched(s)}]
    /\ late' = late \cup {d \in Touched(s) : d < Cutoff}
    /\ UNCHANGED <<raw, billing, tokens, projects, today, push, tries, acked, shared, crossed>>

Wipe(s) ==
    /\ At(s, "wipe", "merge")
    /\ billing' = [c \in Cells |-> IF c[1] \in Touched(s) THEN {} ELSE billing[c]]
    /\ tokens' = [x \in Totals |-> IF x[1] \in Touched(s) THEN {} ELSE tokens[x]]
    /\ UNCHANGED <<raw, projects, today, push, read, tries, acked, shared, crossed, late>>

\* A row on the same unique key is overwritten, every other one stays.
Over(table, rows) == [x \in DOMAIN table |-> IF rows[x] = {} THEN table[x] ELSE rows[x]]

Billed(ls)  == [c \in Cells |-> {l \in ls : DayOf[l] = c[1] /\ KeyOf[l] = c[2]}]
Counted(ls) == [x \in Totals |-> {l \in ls : DayOf[l] = x[1] /\ ModelOf[KeyOf[l]] = x[2]}]

Merge(s) ==
    /\ At(s, "merge", "count")
    /\ billing' = Over(billing, Billed(read[s]))
    /\ UNCHANGED <<raw, tokens, projects, today, push, read, tries, acked, shared, crossed, late>>

\* Mutant of Count: a failure is logged and forgotten (as in sync_tasks.py:132).
CountOrNot(s) ==
    /\ At(s, "count", "create")
    /\ UNCHANGED tokens \/ tokens' = Over(tokens, Counted(read[s]))
    /\ UNCHANGED <<raw, billing, projects, today, push, read, tries, acked, shared, crossed, late>>

Count(s) ==
    /\ At(s, "count", "create")
    /\ tokens' = Over(tokens, Counted(read[s]))
    /\ UNCHANGED <<raw, billing, projects, today, push, read, tries, acked, shared, crossed, late>>

\* auto_create_taiji_projects gives up quietly when it finds no supply source.
CreateProjects(s) ==
    /\ At(s, "create", "answer")
    /\ \/ projects' = projects \cup {ProjectOf[KeyOf[l]] : l \in read[s]}
       \/ UNCHANGED projects
    /\ UNCHANGED <<raw, billing, tokens, today, push, read, tries, acked, shared, crossed, late>>

Drop(s) ==
    /\ push' = [push EXCEPT ![s] = Idle]
    /\ read' = [read EXCEPT ![s] = {}]
    /\ shared' = [shared EXCEPT ![s] = {}]
    /\ UNCHANGED <<raw, billing, tokens, projects, today, tries, late>>

\* The summary is refreshed and the source marked successful, as far as that
\* goes; the 200 may not arrive.
Answer(s) ==
    /\ At(s, "answer", "idle")
    /\ acked' = acked \cup {push[s]} \/ UNCHANGED acked
    /\ crossed' = (crossed \ Touched(s)) \cup shared[s]
    /\ Drop(s)

\* An exception in any step is a 500, and the process may die at any step.
Fail(s) ==
    /\ pc[s] \in Steps
    /\ pc' = [pc EXCEPT ![s] = "idle"]
    /\ UNCHANGED acked
    /\ crossed' = crossed \cup shared[s]
    /\ Drop(s)

\* gc_taiji_raw_logs.
Collect ==
    /\ raw' = {l \in raw : DayOf[l] >= Cutoff}
    /\ UNCHANGED <<billing, tokens, projects, today, pc, push, read, tries, acked, shared, crossed, late>>

\* Midnight.  The collection runs four hours later (celery_app.py:44-47), when a
\* push that came before midnight is long over: no day leaves the retention under
\* a push.
Midnight ==
    /\ today < MaxDay
    /\ \A s \in Servers : pc[s] # "idle" => Cutoff \notin Touched(s)
    /\ today' = today + 1
    /\ UNCHANGED <<raw, billing, tokens, projects, pc, push, read, tries, acked, shared, crossed, late>>

Work(s) ==
    \/ Store(s) \/ Read(s) \/ Wipe(s) \/ Merge(s) \/ Count(s)
    \/ CreateProjects(s) \/ Answer(s) \/ Fail(s)

Next ==
    \/ \E s \in Servers : Work(s) \/ \E p \in Pushes : Receive(s, p)
    \/ Collect
    \/ Midnight

Spec == Init /\ [][Next]_vars

-----------------------------------------------------------------------------
\* A day is settled when every push of that day that was ever sent has been
\* answered with 200, and none is at work.
Settled(d) ==
    /\ \A p \in Pushes : d \in DaysOf(p) /\ tries[p] > 0 => p \in acked
    /\ \A s \in Servers : pc[s] # "idle" => d \notin Touched(s)

\* No two servers were at the day at once, or one has rewritten it by itself since.
Undisturbed(d) == Settled(d) /\ d \notin crossed

OnDay(d) == {l \in raw : DayOf[l] = d}

\* "taiji 原始日志 = billing/token 聚合 单一真相" (sync_service.py:758): the rows of a settled day,
\* while its raw logs are kept, add up exactly these logs; and when two processes have crossed on
\* a day (metering.py:630), the next push to it sets it right.
SingleTruth ==
    \A d \in Days : Undisturbed(d) /\ d >= Cutoff =>
        /\ \A k \in Keys : billing[<<d, k>>] = Billed(OnDay(d))[<<d, k>>]
        /\ \A m \in Models : tokens[<<d, m>>] = Counted(OnDay(d))[<<d, m>>]

Recorded(l) ==
    /\ l \in billing[<<DayOf[l], KeyOf[l]>>]
    /\ l \in tokens[<<DayOf[l], ModelOf[KeyOf[l]]>>]

\* What was answered with 200 is billed and counted, whatever was retried, overlapped or
\* garbage-collected since ("天级聚合不动", sync_service.py:849), on every settled day that the
\* last push had to itself, unless a push has aggregated the day anew when its raw logs were past
\* their retention.  The interface's guide makes no such exception: pushes in any order
\* "也不会出错" (taiji-ingest-api.md:179), history may be pushed in batches (:189); but such a push
\* rewrites its day from the logs that are left, and takes away what had been billed.
AckedIsBilled ==
    \A p \in acked : \A l \in BatchOf[p] :
        Undisturbed(DayOf[l]) /\ DayOf[l] \notin late => Recorded(l)

=============================================================================
