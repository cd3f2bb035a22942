------------------------------ MODULE SyncTask ------------------------------
(***************************************************************************)
(* The life of a billing sync: the Celery tasks of tasks/sync_tasks.py, the  *)
(* sync_logs rows and the data_sources.sync_status column they write, and    *)
(* the hourly sweeper that closes what a killed worker left behind.          *)
(*                                                                         *)
(* One action is one database transaction of the worker, because every       *)
(* helper of sync_service.py opens and commits a session of its own.  Any    *)
(* call may raise (a lost connection, a bad credential, SoftTimeLimit-       *)
(* Exceeded) and a worker process may be killed between any two of them;     *)
(* acknowledgement is early (task_acks_late=False), so a killed task is      *)
(* never redelivered.                                                        *)
(***************************************************************************)
EXTENDS Integers, FiniteSets

CONSTANTS
    Sources,      \* data sources
    Tasks,        \* sync messages put on the queue by beat or by the API
    SourceOf,     \* the data source each message names
    MaxAttempts,  \* 1 + max_retries
    TimeLimit,    \* time_limit, the hard limit of one attempt, in ticks
    SweepAge,     \* age after which the sweeper takes a running log, in ticks
    AckLoss       \* TRUE: a commit may take effect and still raise

ASSUME ConstantsOK ==
    /\ SourceOf \in [Tasks -> Sources]
    /\ MaxAttempts \in Nat \ {0}
    /\ TimeLimit \in Nat
    /\ SweepAge \in Nat
    /\ AckLoss \in BOOLEAN

(***************************************************************************)
(* What celery_app.py:67 and the docstring of the sweeper rest on: 40        *)
(* minutes of hard limit, 60 minutes of threshold.  start_time is a naive    *)
(* UTC timestamp compared with now(), so SweepAge is 60 minutes only if the  *)
(* database session's time zone is UTC.                                      *)
(***************************************************************************)
ASSUME SweepAfterLimit == TimeLimit <= SweepAge

Attempts == 1 .. MaxAttempts
Logs     == Tasks \X Attempts          \* every attempt inserts a row of its own

SourceStatus == {"pending", "running", "success", "failed"}

\* Where a worker is: the next call of _run_sync_core it will make.
Body    == {"create", "seeRunning", "setRunning", "load",
            "complete", "seeSuccess", "setSuccess"}
Handler == {"failLog", "seeFailed", "setFailed", "reraise"}
Live    == Body \cup Handler
Ended   == {"done", "exhausted", "killed"}
PCs     == {"idle", "queued"} \cup Live \cup Ended

VARIABLES
    log,          \* sync_logs.status by row, "none" while the row is not there
    age,          \* ticks since start_time of a running row, 0 of any other
    sync_status,  \* data_sources.sync_status
    pc,           \* where each task is
    attempt,      \* self.request.retries + 1
    elapsed,      \* ticks since the attempt was started, 0 without one
    seen,         \* sync_status as session.get loaded it, between load and commit
    sweep         \* the sweeper's transaction: its next step and what it has read

vars == <<log, age, sync_status, pc, attempt, elapsed, seen, sweep>>

CurrentLog(t) == <<t, attempt[t]>>

\* The tasks whose attempt has a row that the attempt has not closed yet.
Holding == {"seeRunning", "setRunning", "load", "complete"}
Holds(t) == pc[t] \in Holding

\* No transaction of the sweeper is open.
NoSweep == [pc |-> "logs", rows |-> {}, view |-> {}, sources |-> {}]

TypeOK ==
    /\ log \in [Logs -> {"none", "running", "success", "failed"}]
    /\ age \in [Logs -> 0 .. SweepAge + 1]
    /\ sync_status \in [Sources -> SourceStatus]
    /\ pc \in [Tasks -> PCs]
    /\ attempt \in [Tasks -> Attempts]
    /\ elapsed \in [Tasks -> 0 .. TimeLimit]
    /\ seen \in [Tasks -> SourceStatus]
    /\ sweep \in [pc : {"logs", "sources", "commit"}, rows : SUBSET Logs,
                  view : SUBSET Logs, sources : SUBSET Sources]

Init ==
    /\ log = [l \in Logs |-> "none"]
    /\ age = [l \in Logs |-> 0]
    /\ sync_status = [d \in Sources |-> "pending"]
    /\ pc = [t \in Tasks |-> "idle"]
    /\ attempt = [t \in Tasks |-> 1]
    /\ elapsed = [t \in Tasks |-> 0]
    /\ seen = [t \in Tasks |-> "pending"]
    /\ sweep = NoSweep

-----------------------------------------------------------------------------
Goto(t, l) ==
    /\ pc' = [pc EXCEPT ![t] = l]
    /\ elapsed' = [elapsed EXCEPT ![t] = IF l \in Live THEN @ ELSE 0]

\* sync_data_source.delay / sync_data_source_by_dates.delay
Dispatch(t) ==
    /\ pc[t] = "idle"
    /\ Goto(t, "queued")
    /\ UNCHANGED <<log, age, sync_status, attempt, seen, sweep>>

\* A pool process takes the message, acknowledges it and starts the clock.
Start(t) ==
    /\ pc[t] = "queued"
    /\ Goto(t, "create")
    /\ UNCHANGED <<log, age, sync_status, attempt, seen, sweep>>

\* create_sync_log.  start_time is read at some moment of the attempt before
\* the insert commits; the row can be there although the call raised, and then
\* log_id stays None and the handler skips the row.
Insert(t) ==
    \E a \in 0 .. elapsed[t] :
        /\ log' = [log EXCEPT ![CurrentLog(t)] = "running"]
        /\ age' = [age EXCEPT ![CurrentLog(t)] = a]

CreateLog(t) ==
    /\ pc[t] = "create"
    /\ \/ /\ Insert(t)
          /\ Goto(t, "seeRunning")
       \/ /\ UNCHANGED <<log, age>> \/ (AckLoss /\ Insert(t))
          /\ Goto(t, "seeFailed")
    /\ UNCHANGED <<sync_status, attempt, seen, sweep>>

\* update_data_source_sync_status, first half: session.get loads the row.
See(t, from, to, onError) ==
    /\ pc[t] = from
    /\ \/ /\ seen' = [seen EXCEPT ![t] = sync_status[SourceOf[t]]]
          /\ Goto(t, to)
       \/ /\ UNCHANGED seen
          /\ Goto(t, onError)
    /\ UNCHANGED <<log, age, sync_status, attempt, sweep>>

\* Second half: the commit.  SQLAlchemy writes the column only if it differs
\* from the value that was loaded.
Written(t, value) ==
    IF seen[t] = value THEN sync_status
                       ELSE [sync_status EXCEPT ![SourceOf[t]] = value]

Set(t, from, value, to, onError) ==
    /\ pc[t] = from
    /\ \/ /\ sync_status' = Written(t, value)
          /\ Goto(t, to)
       \/ /\ \/ UNCHANGED sync_status
             \/ AckLoss /\ sync_status' = Written(t, value)
          /\ Goto(t, onError)
    /\ seen' = [seen EXCEPT ![t] = "pending"]
    /\ UNCHANGED <<log, age, attempt, sweep>>

SeeRunning(t) == See(t, "seeRunning", "setRunning", "failLog")
SetRunning(t) == Set(t, "setRunning", "running", "load", "failLog")

\* Collecting the rows, storing them and what is derived from them, which is
\* the business of BillingSync: here it goes on or raises.
Load(t) ==
    /\ pc[t] = "load"
    /\ Goto(t, "complete") \/ Goto(t, "failLog")
    /\ UNCHANGED <<log, age, sync_status, attempt, seen, sweep>>

\* complete_sync_log ends the run of a row, once no sweep has it locked.
Close(t, status) ==
    /\ CurrentLog(t) \notin sweep.rows
    /\ log' = [log EXCEPT ![CurrentLog(t)] = status]
    /\ age' = [age EXCEPT ![CurrentLog(t)] = 0]

\* Mutant of Complete: a failure to write the log is swallowed.
CompleteSwallowed(t) ==
    /\ pc[t] = "complete"
    /\ Close(t, "success") \/ UNCHANGED <<log, age>>
    /\ Goto(t, "seeSuccess")
    /\ UNCHANGED <<sync_status, attempt, seen, sweep>>

\* complete_sync_log without and with an error.
Complete(t) ==
    /\ pc[t] = "complete"
    /\ \/ /\ Close(t, "success")
          /\ Goto(t, "seeSuccess")
       \/ /\ UNCHANGED <<log, age>> \/ (AckLoss /\ Close(t, "success"))
          /\ Goto(t, "failLog")
    /\ UNCHANGED <<sync_status, attempt, seen, sweep>>

SeeSuccess(t) == See(t, "seeSuccess", "setSuccess", "failLog")
SetSuccess(t) == Set(t, "setSuccess", "success", "done", "failLog")

\* The except branch: a failure of its own calls is caught and logged.  It is
\* entered here only with a log_id; without one it starts at the source.
FailLog(t) ==
    /\ pc[t] = "failLog"
    /\ Close(t, "failed") \/ UNCHANGED <<log, age>>
    /\ Goto(t, "seeFailed")
    /\ UNCHANGED <<sync_status, attempt, seen, sweep>>

SeeFailed(t) == See(t, "seeFailed", "setFailed", "reraise")
SetFailed(t) == Set(t, "setFailed", "failed", "reraise", "reraise")

\* Mutant of Reraise: one retry more than max_retries.
ReraiseOnceMore(t) ==
    /\ pc[t] = "reraise"
    /\ \/ /\ attempt[t] <= MaxAttempts
          /\ attempt' = [attempt EXCEPT ![t] = @ + 1]
          /\ Goto(t, "queued")
       \/ /\ attempt[t] > MaxAttempts
          /\ UNCHANGED attempt
          /\ Goto(t, "exhausted")
    /\ UNCHANGED <<log, age, sync_status, seen, sweep>>

\* raise self.retry(...): a new message while retries are left.
Reraise(t) ==
    /\ pc[t] = "reraise"
    /\ \/ /\ attempt[t] < MaxAttempts
          /\ attempt' = [attempt EXCEPT ![t] = @ + 1]
          /\ Goto(t, "queued")
       \/ /\ attempt[t] = MaxAttempts
          /\ UNCHANGED attempt
          /\ Goto(t, "exhausted")
    /\ UNCHANGED <<log, age, sync_status, seen, sweep>>

Work(t) ==
    \/ CreateLog(t) \/ SeeRunning(t) \/ SetRunning(t) \/ Load(t)
    \/ Complete(t) \/ SeeSuccess(t) \/ SetSuccess(t)
    \/ FailLog(t) \/ SeeFailed(t) \/ SetFailed(t) \/ Reraise(t)

-----------------------------------------------------------------------------
Die(t) ==
    /\ Goto(t, "killed")
    /\ seen' = [seen EXCEPT ![t] = "pending"]
    /\ UNCHANGED <<log, age, sync_status, attempt, sweep>>

\* OOM, SIGKILL, a container restart.
Crash(t) == pc[t] \in Live /\ Die(t)

\* Celery kills the pool process at time_limit.
HardKill(t) == pc[t] \in Live /\ elapsed[t] = TimeLimit /\ Die(t)

\* Time passes, never past the hard limit of a live attempt.
Older(n) == IF n <= SweepAge THEN n + 1 ELSE n

Tick ==
    /\ \A t \in Tasks : pc[t] \in Live => elapsed[t] < TimeLimit
    /\ elapsed' = [t \in Tasks |-> IF pc[t] \in Live THEN elapsed[t] + 1 ELSE 0]
    /\ age' = [l \in Logs |-> IF log[l] = "running" THEN Older(age[l]) ELSE 0]
    /\ UNCHANGED <<log, sync_status, pc, attempt, seen, sweep>>

\* Mutants of Orphans: a threshold that a live row can reach, no threshold at
\* all, and only the rows whose source still reads running.
OrphansEarly == {l \in Logs : log[l] = "running" /\ age[l] >= SweepAge}
OrphansAny   == {l \in Logs : log[l] = "running"}
OrphansOfRunning ==
    {l \in Logs : log[l] = "running" /\ age[l] > SweepAge
                    /\ sync_status[SourceOf[l[1]]] = "running"}

(***************************************************************************)
(* sweep_orphan_sync_logs: one transaction of two statements at READ         *)
(* COMMITTED, each with a snapshot of its own, and a commit.  The rows of    *)
(* the first statement are locked from then on; those of the second are      *)
(* locked and looked at again before they are written, so that the lock and  *)
(* the commit are one step here: a task that meets it waits and writes after *)
(* it.  The snapshot of the second statement is what NOT EXISTS looks in.    *)
(***************************************************************************)
Orphans == {l \in Logs : log[l] = "running" /\ age[l] > SweepAge}

\* The rows that the second statement sees running: its own are failed to it.
View == {l \in Logs \ sweep.rows : log[l] = "running"}

\* Mutants of Stuck: without the NOT EXISTS, and only the sources of the rows
\* this very sweep closes.
StuckAll == {d \in Sources : sync_status[d] = "running"}
StuckOfSwept ==
    {d \in Sources : /\ sync_status[d] = "running"
                     /\ \E l \in sweep.rows : SourceOf[l[1]] = d
                     /\ \A l \in View : SourceOf[l[1]] # d}

Stuck == {d \in Sources : sync_status[d] = "running" /\ \A l \in View : SourceOf[l[1]] # d}

SweepLogs ==
    /\ sweep.pc = "logs"
    /\ sweep' = [sweep EXCEPT !.pc = "sources", !.rows = Orphans]
    /\ UNCHANGED <<log, age, sync_status, pc, attempt, elapsed, seen>>

\* A sweep that finds nothing has nothing to commit.
SweepSources ==
    /\ sweep.pc = "sources"
    /\ sweep' = IF sweep.rows = {} /\ Stuck = {} THEN NoSweep
                ELSE [sweep EXCEPT !.pc = "commit", !.view = View, !.sources = Stuck]
    /\ UNCHANGED <<log, age, sync_status, pc, attempt, elapsed, seen>>

\* A source that has been given another status since is left alone.
SweepCommit ==
    /\ sweep.pc = "commit"
    /\ log' = [l \in Logs |-> IF l \in sweep.rows THEN "failed" ELSE log[l]]
    /\ sync_status' = [d \in Sources |-> IF d \in sweep.sources /\ sync_status[d] = "running"
                                         THEN "failed" ELSE sync_status[d]]
    /\ age' = [l \in Logs |-> IF l \in sweep.rows THEN 0 ELSE age[l]]
    /\ sweep' = NoSweep
    /\ UNCHANGED <<pc, attempt, elapsed, seen>>

\* Any of the statements fails, or the worker of the sweep is killed.
SweepAbort ==
    /\ sweep.pc # "logs"
    /\ sweep' = NoSweep
    /\ UNCHANGED <<log, age, sync_status, pc, attempt, elapsed, seen>>

Sweep == SweepLogs \/ SweepSources \/ SweepCommit \/ SweepAbort

Next ==
    \/ \E t \in Tasks : Dispatch(t) \/ Start(t) \/ Work(t) \/ Crash(t) \/ HardKill(t)
    \/ Tick
    \/ Sweep

Spec == Init /\ [][Next]_vars

(***************************************************************************)
(* Beat fires the sweeper every hour and not every sweep fails, Celery       *)
(* enforces the hard limit and time passes.  Nothing is assumed of a worker: *)
(* it may hang.                                                              *)
(***************************************************************************)
Fairness ==
    /\ WF_vars(Tick)
    /\ WF_vars(SweepLogs)
    /\ SF_vars(SweepSources)
    /\ SF_vars(SweepCommit)
    /\ \A t \in Tasks : WF_vars(HardKill(t))

FairSpec == Spec /\ Fairness

(***************************************************************************)
(* Every row is a run of SyncRun: it is active while its attempt can still   *)
(* close it, abandoned when it is running and nobody will.                   *)
(***************************************************************************)
Keeps(l) == CurrentLog(l[1]) = l /\ pc[l[1]] \in Holding \cup {"failLog"}

RunOf(l) ==
    CASE log[l] = "none"    -> "absent"
      [] log[l] = "running" -> IF Keeps(l) THEN "active" ELSE "abandoned"
      [] OTHER              -> log[l]

-----------------------------------------------------------------------------
(***************************************************************************)
(* Properties.                                                               *)
(***************************************************************************)

\* The sweeper never closes the log of an attempt that is still working: its
\* row is running from create_sync_log to complete_sync_log ("零误杀",
\* sync_service.py:102, celery_app.py:55).
NoFalseSweep == \A t \in Tasks : Holds(t) => log[CurrentLog(t)] = "running"

\* Why that holds: a row is there only for the attempts begun so far, it is as
\* the attempt last wrote it, and a row the attempt holds is no older than the
\* attempt, which is no older than the hard limit.
RowOfAttempt(t) ==
    /\ \A n \in Attempts : n > attempt[t] => log[<<t, n>>] = "none"
    /\ pc[t] \in {"idle", "queued", "create"} => log[CurrentLog(t)] = "none"
    /\ Holds(t) => log[CurrentLog(t)] = "running"
    /\ pc[t] = "failLog" => log[CurrentLog(t)] \in {"running", "success"}
    /\ pc[t] \in {"seeSuccess", "setSuccess", "done"} => log[CurrentLog(t)] = "success"
    /\ Keeps(CurrentLog(t)) /\ log[CurrentLog(t)] = "running"
          => age[CurrentLog(t)] <= elapsed[t]

RowDiscipline == \A t \in Tasks : RowOfAttempt(t)

\* A failed row stays failed: complete_sync_log writes without looking, so only
\* the time limit keeps it from reviving a row that the sweeper closed.
FailedIsFinal == [][\A l \in Logs : log[l] = "failed" => log'[l] = "failed"]_vars

\* A sweep does not mark failed the source of an attempt whose row was there
\* when it looked: neither the age of the row nor what happens between the look
\* and the commit lets it.  The comments claim more ("零误杀", sync_service.py:102,
\* and only a source "仍卡在 running" is reset, :106); but of an attempt that inserts
\* its row after the look and finds the source running, so that it writes nothing,
\* the commit does mark the source failed.
SweepSparesSeen ==
    [][\A t \in Tasks :
          SweepCommit /\ Holds(t) /\ CurrentLog(t) \in sweep.rows \cup sweep.view =>
             sync_status'[SourceOf[t]] = sync_status[SourceOf[t]]]_vars

\* While no commit acknowledgement is lost, a Celery task lets a source read
\* success only if some sync of that source closed its log with success, and no
\* later handler took that back.  Only the tasks are meant: a push of Taiji logs
\* writes success to its source without any row (metering.py:635).
SuccessIsEarned ==
    AckLoss \/ \A d \in Sources : sync_status[d] = "success" =>
                  \E l \in Logs : SourceOf[l[1]] = d /\ log[l] = "success"

\* Every row left running is closed in the end, by its worker or the sweeper.
EveryLogCloses == \A l \in Logs : log[l] = "running" ~> log[l] # "running"

\* No source stays running for ever, whatever was killed and when.
NoSourceStuck == \A d \in Sources : sync_status[d] = "running" ~> sync_status[d] # "running"

Row == INSTANCE SyncRun WITH Runs <- Logs, run <- [l \in Logs |-> RunOf(l)]

\* The rows behave as SyncRun says: in particular a sweep takes only rows that
\* no worker will ever write again, although it looks at their age alone.
RowsAreRuns == Row!Spec
=============================================================================
