---------------------------- MODULE Tasks_proofs ----------------------------
(* Theorems about what the Celery tasks do, each for any values of its         *)
(* constants: the sync tasks and the sweeper (SyncTask), the upkeep of         *)
(* partitions and rates (Store), and the threshold check with the              *)
(* notifications it makes (Alerts).                                            *)
EXTENDS SyncTask, Store, Alerts, Sums

-----------------------------------------------------------------------------
(* SyncTask, for any tasks, sources and limits with TimeLimit <= SweepAge:     *)
(* types, the discipline of the rows, that no live attempt loses its row to    *)
(* the sweeper, and that failures are final.                                   *)

\* Where a task goes, and what becomes of the clock of its attempt.
LEMMA GotoIs ==
    ASSUME TypeOK, NEW t \in Tasks
    PROVE  \A l \in PCs : Goto(t, l) =>
              /\ pc' \in [Tasks -> PCs] /\ elapsed' \in [Tasks -> 0 .. TimeLimit]
              /\ pc'[t] = l /\ elapsed'[t] = IF l \in Live THEN elapsed[t] ELSE 0
              /\ \A s \in Tasks : s # t => pc'[s] = pc[s] /\ elapsed'[s] = elapsed[s]
<1> SUFFICES ASSUME NEW l \in PCs, Goto(t, l)
             PROVE  /\ pc' \in [Tasks -> PCs] /\ elapsed' \in [Tasks -> 0 .. TimeLimit]
                    /\ pc'[t] = l /\ elapsed'[t] = IF l \in Live THEN elapsed[t] ELSE 0
                    /\ \A s \in Tasks : s # t => pc'[s] = pc[s] /\ elapsed'[s] = elapsed[s]
  OBVIOUS
<1> DEFINE e == IF l \in Live THEN elapsed[t] ELSE 0
<1>1. e \in 0 .. TimeLimit
  BY ConstantsOK DEF TypeOK
<1>2. elapsed' = [elapsed EXCEPT ![t] = e] /\ pc' = [pc EXCEPT ![t] = l]
  BY DEF Goto
<1> HIDE DEF e
<1>3. /\ pc \in [Tasks -> PCs] /\ elapsed \in [Tasks -> 0 .. TimeLimit]
  BY DEF TypeOK
<1>4. elapsed'[t] = e
  BY <1>2, <1>3
<1> QED
  BY <1>1, <1>2, <1>3, <1>4 DEF e

\* Every action keeps the variables of SyncTask in their types.
LEMMA TypeStep == TypeOK /\ [Next]_vars => TypeOK'
<1> SUFFICES ASSUME TypeOK, [Next]_vars PROVE TypeOK'
  OBVIOUS
<1> USE ConstantsOK, SweepAfterLimit DEF TypeOK, PCs, Live, Body, Handler, Ended,
        SourceStatus, Logs, Attempts, CurrentLog
<1>1. ASSUME NEW t \in Tasks, Dispatch(t) PROVE TypeOK'
  BY <1>1, GotoIs DEF Dispatch
<1>2. ASSUME NEW t \in Tasks, Start(t) PROVE TypeOK'
  BY <1>2, GotoIs DEF Start
<1>3. ASSUME NEW t \in Tasks, Work(t) PROVE TypeOK'
  <2>0. pc' \in [Tasks -> PCs] /\ elapsed' \in [Tasks -> 0 .. TimeLimit]
    <3>1. \E l \in PCs : Goto(t, l)
      BY <1>3 DEF Work, CreateLog, SeeRunning, SeeSuccess, SeeFailed, See, SetRunning, SetSuccess,
         SetFailed, Set, Load, Complete, FailLog, Reraise
    <3> QED
      BY <3>1, GotoIs
  <2>1. CASE CreateLog(t)
    <3>1. UNCHANGED <<log, age>> \/ Insert(t)
      BY <2>1 DEF CreateLog
    <3>2. CurrentLog(t) \in Logs
      OBVIOUS
    <3>3. log' \in [Logs -> {"none", "running", "success", "failed"}]
      BY <3>1, <3>2 DEF Insert
    <3>4. ASSUME NEW a \in 0 .. elapsed[t] PROVE a \in 0 .. SweepAge + 1
      OBVIOUS
    <3>5. age' \in [Logs -> 0 .. SweepAge + 1]
      <4>1. CASE UNCHANGED age
        BY <4>1
      <4>2. CASE Insert(t)
        <5>1. PICK a \in 0 .. elapsed[t] : age' = [age EXCEPT ![CurrentLog(t)] = a]
          BY <4>2 DEF Insert
        <5> QED
          BY <5>1, <3>2, <3>4
      <4> QED
        BY <3>1, <4>1, <4>2
    <3> QED
      BY <2>0, <2>1, <3>3, <3>5 DEF CreateLog
  <2>2. CASE SeeRunning(t) \/ SeeSuccess(t) \/ SeeFailed(t)
    BY <2>0, <2>2 DEF SeeRunning, SeeSuccess, SeeFailed, See
  <2>3. CASE SetRunning(t) \/ SetSuccess(t) \/ SetFailed(t)
    <3>1. UNCHANGED sync_status \/ \E v \in {"running", "success", "failed"} : sync_status' = Written(t, v)
      BY <2>3 DEF SetRunning, SetSuccess, SetFailed, Set
    <3>2. sync_status' \in [Sources -> SourceStatus]
      BY <3>1 DEF Written
    <3> QED
      BY <2>0, <2>3, <3>2 DEF SetRunning, SetSuccess, SetFailed, Set
  <2>4. CASE Load(t)
    BY <2>0, <2>4 DEF Load
  <2>5. CASE Complete(t) \/ FailLog(t)
    <3>1. UNCHANGED <<log, age>> \/ \E v \in {"success", "failed"} : Close(t, v)
      BY <2>5 DEF Complete, FailLog
    <3>2. CurrentLog(t) \in Logs /\ 0 \in 0 .. SweepAge + 1
      OBVIOUS
    <3>3. log' \in [Logs -> {"none", "running", "success", "failed"}]
      BY <3>1, <3>2 DEF Close
    <3>4. age' \in [Logs -> 0 .. SweepAge + 1]
      BY <3>1, <3>2 DEF Close
    <3> QED
      BY <2>0, <2>5, <3>3, <3>4 DEF Complete, FailLog
  <2>7. CASE Reraise(t)
    BY <2>0, <2>7 DEF Reraise
  <2> QED
    BY <1>3, <2>1, <2>2, <2>3, <2>4, <2>5, <2>7 DEF Work
<1>4. ASSUME NEW t \in Tasks, Crash(t) \/ HardKill(t) PROVE TypeOK'
  BY <1>4, GotoIs DEF Crash, HardKill, Die
<1>5. CASE Tick
  BY <1>5 DEF Tick, Older
<1>6. CASE Sweep
  <2>1. Orphans \subseteq Logs /\ View \subseteq Logs /\ Stuck \subseteq Sources
    BY DEF Orphans, View, Stuck
  <2>2. NoSweep \in [pc : {"logs", "sources", "commit"}, rows : SUBSET Logs,
                    view : SUBSET Logs, sources : SUBSET Sources]
    BY DEF NoSweep
  <2>3. sweep' \in [pc : {"logs", "sources", "commit"}, rows : SUBSET Logs,
                   view : SUBSET Logs, sources : SUBSET Sources]
    <3>1. CASE SweepLogs
      BY <2>1, <3>1 DEF SweepLogs
    <3>2. CASE SweepSources
      BY <2>1, <2>2, <3>2 DEF SweepSources
    <3>3. CASE SweepCommit \/ SweepAbort
      BY <2>2, <3>3 DEF SweepCommit, SweepAbort
    <3> QED
      BY <1>6, <3>1, <3>2, <3>3 DEF Sweep
  <2>4. /\ log' \in [Logs -> {"none", "running", "success", "failed"}]
        /\ age' \in [Logs -> 0 .. SweepAge + 1]
        /\ sync_status' \in [Sources -> SourceStatus]
    BY <1>6 DEF Sweep, SweepLogs, SweepSources, SweepCommit, SweepAbort
  <2>5. UNCHANGED <<pc, attempt, elapsed, seen>>
    BY <1>6 DEF Sweep, SweepLogs, SweepSources, SweepCommit, SweepAbort
  <2> QED
    BY <2>3, <2>4, <2>5
<1>7. CASE UNCHANGED vars
  BY <1>7 DEF vars
<1> QED
  BY <1>1, <1>2, <1>3, <1>4, <1>5, <1>6, <1>7 DEF Next

\* The variables keep their types in every behaviour.
THEOREM TypeCorrect == Spec => []TypeOK
<1>1. Init => TypeOK
  BY ConstantsOK DEF Init, TypeOK, PCs, SourceStatus, Attempts, Logs, NoSweep
<1> QED
  BY <1>1, TypeStep, PTL DEF Spec

-----------------------------------------------------------------------------
\* What a step of one task leaves alone: everything of another task.
Untouched(s) ==
    /\ pc'[s] = pc[s]
    /\ attempt'[s] = attempt[s]
    /\ elapsed'[s] = elapsed[s]
    /\ \A n \in Attempts : log'[<<s, n>>] = log[<<s, n>>] /\ age'[<<s, n>>] = age[<<s, n>>]

Step(t) == Dispatch(t) \/ Start(t) \/ Work(t) \/ Crash(t) \/ HardKill(t)

\* A step of one task touches no row and no counter of another.
LEMMA StepIsLocal ==
    ASSUME TypeOK, NEW t \in Tasks, NEW s \in Tasks, s # t, Step(t)
    PROVE  Untouched(s)
<1> USE ConstantsOK DEF TypeOK, Untouched, Goto, Logs, CurrentLog
<1>1. CASE Dispatch(t) \/ Start(t)
  BY <1>1 DEF Dispatch, Start
<1>2. CASE CreateLog(t)
  <2>1. UNCHANGED <<log, age>> \/ Insert(t)
    BY <1>2 DEF CreateLog
  <2>2. \A n \in Attempts : <<s, n>> \in Logs /\ <<s, n>> # CurrentLog(t)
    OBVIOUS
  <2>3. \A n \in Attempts : log'[<<s, n>>] = log[<<s, n>>] /\ age'[<<s, n>>] = age[<<s, n>>]
    BY <2>1, <2>2 DEF Insert
  <2> QED
    BY <1>2, <2>3 DEF CreateLog
<1>3. CASE SeeRunning(t) \/ SeeSuccess(t) \/ SeeFailed(t)
  BY <1>3 DEF SeeRunning, SeeSuccess, SeeFailed, See
<1>4. CASE SetRunning(t) \/ SetSuccess(t) \/ SetFailed(t)
  BY <1>4 DEF SetRunning, SetSuccess, SetFailed, Set
<1>5. CASE Load(t) \/ Complete(t) \/ FailLog(t) \/ Reraise(t)
  BY <1>5 DEF Load, Complete, FailLog, Close, Reraise
<1>6. CASE Crash(t) \/ HardKill(t)
  BY <1>6 DEF Crash, HardKill, Die
<1> QED
  BY <1>1, <1>2, <1>3, <1>4, <1>5, <1>6 DEF Step, Work

\* A task none of whose state changed keeps its discipline.
LEMMA UntouchedKeeps ==
    ASSUME TypeOK, NEW s \in Tasks, RowOfAttempt(s), Untouched(s)
    PROVE  RowOfAttempt(s)'
BY DEF TypeOK, RowOfAttempt, Untouched, Holds, Keeps, CurrentLog

\* A task keeps its own discipline by its own steps.
LEMMA OwnStepKeeps ==
    ASSUME TypeOK, TypeOK', NEW t \in Tasks, RowOfAttempt(t), Step(t)
    PROVE  RowOfAttempt(t)'
<1> USE ConstantsOK, GotoIs DEF TypeOK, RowOfAttempt, Holds, Keeps, PCs, Live, Body, Handler, Ended,
        Logs, CurrentLog, Holding
<1>1. CASE Dispatch(t) \/ Start(t)
  <2>1. pc[t] \in {"idle", "queued"} /\ pc'[t] \in {"queued", "create"} /\ UNCHANGED <<log, attempt>>
    BY <1>1 DEF Dispatch, Start
  <2> QED
    BY <2>1
<1>2. CASE CreateLog(t)
  <2>1. CASE Insert(t) /\ Goto(t, "seeRunning")
    <3>1. PICK a \in 0 .. elapsed[t] : /\ log' = [log EXCEPT ![CurrentLog(t)] = "running"]
                                      /\ age' = [age EXCEPT ![CurrentLog(t)] = a]
      BY <2>1 DEF Insert
    <3>2. /\ a <= elapsed[t]
          /\ UNCHANGED attempt /\ elapsed'[t] = elapsed[t]
          /\ pc'[t] = "seeRunning"
      BY <1>2, <2>1 DEF CreateLog
    <3> QED
      BY <1>2, <3>1, <3>2 DEF Attempts
  <2>2. CASE /\ UNCHANGED <<log, age>> \/ Insert(t)
             /\ Goto(t, "seeFailed")
    <3>1. \A n \in Attempts : n # attempt[t] => log'[<<t, n>>] = log[<<t, n>>]
      BY <2>2 DEF Insert
    <3> QED
      BY <1>2, <2>2, <3>1 DEF CreateLog, Attempts
  <2> QED
    BY <1>2, <2>1, <2>2 DEF CreateLog
<1>3. CASE SeeRunning(t) \/ SeeSuccess(t) \/ SeeFailed(t)
  BY <1>3 DEF SeeRunning, SeeSuccess, SeeFailed, See
<1>4. CASE SetRunning(t) \/ SetSuccess(t) \/ SetFailed(t)
  <2>1. UNCHANGED <<log, age, attempt>>
    BY <1>4 DEF SetRunning, SetSuccess, SetFailed, Set
  <2>2. CASE SetRunning(t)
    <3>1. pc[t] = "setRunning" /\ pc'[t] \in {"load", "failLog"} /\ elapsed'[t] = elapsed[t]
      BY <2>2 DEF SetRunning, Set
    <3> QED
      BY <2>1, <3>1
  <2>3. CASE SetSuccess(t)
    <3>1. /\ pc[t] = "setSuccess" /\ pc'[t] \in {"done", "failLog"}
          /\ pc'[t] = "failLog" => elapsed'[t] = elapsed[t]
      BY <2>3 DEF SetSuccess, Set
    <3> QED
      BY <2>1, <3>1
  <2>4. CASE SetFailed(t)
    <3>1. pc[t] = "setFailed" /\ pc'[t] = "reraise"
      BY <2>4 DEF SetFailed, Set
    <3> QED
      BY <2>1, <3>1
  <2> QED
    BY <1>4, <2>2, <2>3, <2>4
<1>5. CASE Load(t)
  BY <1>5 DEF Load
<1>6. CASE Complete(t)
  BY <1>6 DEF Complete, Close
<1>7. CASE FailLog(t)
  BY <1>7 DEF FailLog, Close
<1>8. CASE Reraise(t)
  BY <1>8 DEF Reraise, Attempts
<1>9. CASE Crash(t) \/ HardKill(t)
  BY <1>9 DEF Crash, HardKill, Die
<1> QED
  BY <1>1, <1>2, <1>3, <1>4, <1>5, <1>6, <1>7, <1>8, <1>9 DEF Step, Work

\* Time alone does not disturb a task: a held row and its attempt age together.
LEMMA TickKeeps ==
    ASSUME TypeOK, NEW t \in Tasks, RowOfAttempt(t), Tick
    PROVE  RowOfAttempt(t)'
<1> USE ConstantsOK DEF TypeOK, Logs, CurrentLog
<1>1. /\ UNCHANGED <<log, pc, attempt>>
      /\ CurrentLog(t) \in Logs
      /\ age[CurrentLog(t)] \in Nat /\ elapsed[t] \in Nat
  BY DEF Tick
<1>2. ASSUME Keeps(CurrentLog(t)), log[CurrentLog(t)] = "running"
      PROVE  age'[CurrentLog(t)] <= elapsed'[t]
  <2>1. pc[t] \in Live
    BY <1>2 DEF Keeps, Holding, Live, Body, Handler
  <2>2. elapsed'[t] = elapsed[t] + 1
    BY <2>1 DEF Tick
  <2>3. age'[CurrentLog(t)] = Older(age[CurrentLog(t)])
    BY <1>1, <1>2 DEF Tick
  <2>4. age[CurrentLog(t)] <= elapsed[t]
    BY <1>2 DEF RowOfAttempt
  <2> QED
    BY <1>1, <2>2, <2>3, <2>4 DEF Older
<1> QED
  BY <1>1, <1>2 DEF RowOfAttempt, Holds, Keeps

\* The heart of it: a row past the threshold is older than any live attempt, so
\* no attempt keeps it.
LEMMA OrphansAreNotKept ==
    ASSUME TypeOK, RowDiscipline, NEW l \in Orphans
    PROVE  ~ Keeps(l)
<1> SUFFICES ASSUME Keeps(l) PROVE FALSE
  OBVIOUS
<1>1. PICK t \in Tasks, n \in Attempts : l = <<t, n>>
  BY DEF Orphans, Logs
<1>2. l = CurrentLog(t) /\ log[l] = "running" /\ age[l] > SweepAge
  BY <1>1 DEF Orphans, Keeps
<1>3. age[l] <= elapsed[t]
  BY <1>2 DEF RowDiscipline, RowOfAttempt
<1>4. elapsed[t] \in 0 .. TimeLimit /\ age[l] \in Nat
  BY <1>1, ConstantsOK DEF TypeOK, Logs
<1> QED
  BY <1>2, <1>3, <1>4, ConstantsOK, SweepAfterLimit

\* What the sweeper has locked it still may fail when it commits: nobody writes
\* the rows, and they do not get younger.
LocksAreOrphans == sweep.rows \subseteq Orphans

\* No step of a worker, of the clock or of the sweep itself changes that.
LEMMA LocksStep == TypeOK /\ RowDiscipline /\ LocksAreOrphans /\ [Next]_vars => LocksAreOrphans'
<1> SUFFICES ASSUME TypeOK, RowDiscipline, LocksAreOrphans, [Next]_vars PROVE LocksAreOrphans'
  OBVIOUS
<1> USE DEF LocksAreOrphans
<1>1. ASSUME NEW t \in Tasks, Step(t) PROVE LocksAreOrphans'
  <2>1. sweep' = sweep
    BY <1>1 DEF Step, Work, Dispatch, Start, CreateLog, SeeRunning, SeeSuccess, SeeFailed, See,
       SetRunning, SetSuccess, SetFailed, Set, Load, Complete, FailLog, Reraise, Crash, HardKill, Die
  <2> SUFFICES ASSUME NEW l \in sweep.rows PROVE log'[l] = log[l] /\ age'[l] = age[l]
    BY <2>1 DEF Orphans
  <2>2. l \in Logs /\ log[l] = "running" /\ ~ Keeps(l)
    BY OrphansAreNotKept DEF Orphans
  <2>3. CASE CreateLog(t)
    <3>1. log[CurrentLog(t)] = "none"
      BY <2>3 DEF CreateLog, RowDiscipline, RowOfAttempt
    <3> QED
      BY <2>2, <2>3, <3>1 DEF TypeOK, CreateLog, Insert
  <2>4. CASE Complete(t) \/ FailLog(t)
    BY <2>2, <2>4 DEF TypeOK, Complete, FailLog, Close
  <2>5. CASE ~ (CreateLog(t) \/ Complete(t) \/ FailLog(t))
    BY <1>1, <2>5 DEF Step, Work, Dispatch, Start, SeeRunning, SeeSuccess, SeeFailed, See,
       SetRunning, SetSuccess, SetFailed, Set, Load, Reraise, Crash, HardKill, Die
  <2> QED
    BY <2>3, <2>4, <2>5
<1>2. CASE Tick
  BY <1>2, ConstantsOK DEF Tick, Older, TypeOK, Orphans
<1>3. CASE Sweep
  <2>1. CASE SweepLogs
    BY <2>1 DEF SweepLogs, Orphans, TypeOK
  <2>2. CASE SweepSources
    <3>1. UNCHANGED <<log, age>> /\ sweep'.rows \subseteq sweep.rows
      BY <2>2 DEF SweepSources, NoSweep, TypeOK
    <3> QED
      BY <3>1 DEF Orphans
  <2>3. CASE SweepCommit \/ SweepAbort
    BY <2>3 DEF SweepCommit, SweepAbort, NoSweep
  <2> QED
    BY <1>3, <2>1, <2>2, <2>3 DEF Sweep
<1>4. CASE UNCHANGED vars
  BY <1>4 DEF vars, Orphans
<1> QED
  BY <1>1, <1>2, <1>3, <1>4 DEF Next, Step

\* A sweep that has not committed touches no row and no task.
LEMMA SweepReads ==
    ASSUME SweepLogs \/ SweepSources \/ SweepAbort
    PROVE  UNCHANGED <<log, age, sync_status, pc, attempt, elapsed, seen>>
BY DEF SweepLogs, SweepSources, SweepAbort

\* The commit of a sweep leaves every task as disciplined as it was.
LEMMA SweepKeeps ==
    ASSUME TypeOK, RowDiscipline, LocksAreOrphans, NEW t \in Tasks, SweepCommit
    PROVE  RowOfAttempt(t)'
<1>1. UNCHANGED <<pc, attempt, elapsed>>
  BY DEF SweepCommit
<1>2. \A l \in Logs : /\ log'[l] = IF l \in sweep.rows THEN "failed" ELSE log[l]
                      /\ age'[l] = IF l \in sweep.rows THEN 0 ELSE age[l]
  BY DEF SweepCommit
<1>3. \A l \in Logs : log[l] # "running" => log'[l] = log[l]
  BY <1>2 DEF LocksAreOrphans, Orphans
<1>4. CurrentLog(t) \in Logs /\ \A n \in Attempts : <<t, n>> \in Logs
  BY DEF TypeOK, Logs, CurrentLog
<1>5. Keeps(CurrentLog(t)) => /\ log'[CurrentLog(t)] = log[CurrentLog(t)]
                              /\ age'[CurrentLog(t)] = age[CurrentLog(t)]
  BY <1>2, <1>4, OrphansAreNotKept DEF LocksAreOrphans
<1>6. Holds(t) \/ pc[t] = "failLog" => Keeps(CurrentLog(t))
  BY DEF Holds, Keeps, CurrentLog
<1>7. RowOfAttempt(t)
  BY DEF RowDiscipline
<1>8. \A n \in Attempts : n > attempt'[t] => log'[<<t, n>>] = "none"
  BY <1>1, <1>3, <1>4, <1>7 DEF RowOfAttempt
<1>9. CurrentLog(t)' = CurrentLog(t) /\ (Keeps(CurrentLog(t))' <=> Keeps(CurrentLog(t)))
  BY <1>1 DEF CurrentLog, Keeps
<1> QED
  BY <1>1, <1>3, <1>4, <1>5, <1>6, <1>7, <1>8, <1>9 DEF RowOfAttempt, Holds

\* What is inductive: the discipline, and that the sweeper's locks are orphans.
SweptInv == TypeOK /\ RowDiscipline /\ LocksAreOrphans

\* The discipline is inductive.
LEMMA RowStep == SweptInv /\ [Next]_vars => RowDiscipline'
<1> SUFFICES ASSUME TypeOK, TypeOK', RowDiscipline, LocksAreOrphans, [Next]_vars, NEW s \in Tasks
             PROVE  RowOfAttempt(s)'
  BY TypeStep DEF RowDiscipline, SweptInv
<1>1. RowOfAttempt(s)
  BY DEF RowDiscipline
<1>2. ASSUME NEW t \in Tasks, Step(t) PROVE RowOfAttempt(s)'
  BY <1>1, <1>2, StepIsLocal, UntouchedKeeps, OwnStepKeeps
<1>3. CASE Tick
  BY <1>1, <1>3, TickKeeps
<1>4. CASE SweepCommit
  BY <1>4, SweepKeeps
<1>5. CASE UNCHANGED vars \/ SweepLogs \/ SweepSources \/ SweepAbort
  BY <1>1, <1>5, SweepReads, UntouchedKeeps DEF vars, Untouched
<1> QED
  BY <1>2, <1>3, <1>4, <1>5 DEF Next, Step, Sweep

\* It holds of every behaviour.
LEMMA SyncIsInvariant == Spec => []SweptInv
<1>1. Init => TypeOK /\ RowDiscipline /\ LocksAreOrphans
  <2>1. Init => RowDiscipline
    BY ConstantsOK DEF Init, RowDiscipline, RowOfAttempt, Holds, Keeps, Holding, Logs, Attempts,
       CurrentLog
  <2>2. Init => LocksAreOrphans
    BY DEF Init, LocksAreOrphans, NoSweep
  <2>3. Init => TypeOK
    BY ConstantsOK DEF Init, TypeOK, PCs, SourceStatus, Attempts, Logs, NoSweep
  <2> QED
    BY <2>1, <2>2, <2>3
<1>2. SweptInv /\ [Next]_vars => SweptInv'
  BY TypeStep, RowStep, LocksStep DEF SweptInv
<1> QED
  BY <1>1, <1>2, PTL DEF Spec, SweptInv

\* In every behaviour a row is as its attempt left it, and a row that an attempt
\* still holds is no older than the attempt (sync_service.py:99-102).
THEOREM RowsAreDisciplined == Spec => []RowDiscipline
BY SyncIsInvariant, PTL DEF SweptInv

\* The sweeper never closes the row of a live attempt ("零误杀"), for any number
\* of overlapping tasks, as long as the hard limit is below the threshold.
THEOREM SweeperIsSafe == Spec => []NoFalseSweep
<1>1. RowDiscipline => NoFalseSweep
  BY DEF RowDiscipline, RowOfAttempt, NoFalseSweep
<1> QED
  BY <1>1, RowsAreDisciplined, PTL

-----------------------------------------------------------------------------
\* No step revives a failed row.
LEMMA FailedStep ==
    ASSUME SweptInv, [Next]_vars, NEW l \in Logs, log[l] = "failed"
    PROVE  log'[l] = "failed"
<1> USE DEF SweptInv
<1>1. ASSUME NEW t \in Tasks, Step(t) PROVE log'[l] = "failed"
  <2> USE DEF TypeOK, Logs, CurrentLog, Goto
  <2>1. RowOfAttempt(t)
    BY DEF RowDiscipline
  <2>2. CASE CreateLog(t)
    <3>1. log[CurrentLog(t)] = "none"
      BY <2>1, <2>2 DEF CreateLog, RowOfAttempt
    <3>2. log' = log \/ log' = [log EXCEPT ![CurrentLog(t)] = "running"]
      BY <2>2 DEF CreateLog, Insert
    <3> QED
      BY <3>1, <3>2
  <2>3. CASE Complete(t)
    <3>1. log[CurrentLog(t)] = "running"
      BY <2>1, <2>3 DEF Complete, RowOfAttempt, Holds, Holding
    <3>2. log' = log \/ log' = [log EXCEPT ![CurrentLog(t)] = "success"]
      BY <2>3 DEF Complete, Close
    <3> QED
      BY <3>1, <3>2
  <2>4. CASE FailLog(t)
    BY <2>4 DEF FailLog, Close
  <2>5. CASE ~ (CreateLog(t) \/ Complete(t) \/ FailLog(t))
    BY <1>1, <2>5 DEF Step, Work, Dispatch, Start, SeeRunning, SeeSuccess, SeeFailed, See,
       SetRunning, SetSuccess, SetFailed, Set, Load, Reraise, Crash, HardKill, Die
  <2> QED
    BY <2>2, <2>3, <2>4, <2>5
<1>2. CASE Tick \/ UNCHANGED vars
  BY <1>2 DEF Tick, vars
<1>3. CASE Sweep
  BY <1>3 DEF Sweep, SweepLogs, SweepSources, SweepCommit, SweepAbort
<1> QED
  BY <1>1, <1>2, <1>3 DEF Next, Step

\* A failed row stays failed, whichever worker writes without looking.
THEOREM FailuresAreFinal == Spec => FailedIsFinal
<1>1. SweptInv /\ [Next]_vars => [\A l \in Logs : log[l] = "failed" => log'[l] = "failed"]_vars
  BY FailedStep
<1> QED
  BY <1>1, SyncIsInvariant, PTL DEF Spec, FailedIsFinal

\* What a sweep resets has none of the rows that it saw running.
Reset == \A l \in sweep.view : SourceOf[l[1]] \notin sweep.sources

\* It is so from the second statement to the commit, whatever is inserted or closed meanwhile.
LEMMA ResetStep == TypeOK /\ Reset /\ [Next]_vars => Reset'
<1> SUFFICES ASSUME TypeOK, Reset, [Next]_vars PROVE Reset'
  OBVIOUS
<1>1. CASE sweep' = sweep
  BY <1>1 DEF Reset
<1>2. CASE Sweep
  <2>1. CASE SweepLogs
    BY <2>1 DEF SweepLogs, Reset, TypeOK
  <2>2. CASE SweepSources
    <3>1. \/ sweep' = NoSweep
          \/ sweep'.view = View /\ sweep'.sources = Stuck
      BY <2>2 DEF SweepSources, TypeOK
    <3> QED
      BY <3>1 DEF Reset, NoSweep, Stuck
  <2>3. CASE SweepCommit \/ SweepAbort
    BY <2>3 DEF SweepCommit, SweepAbort, NoSweep, Reset
  <2> QED
    BY <1>2, <2>1, <2>2, <2>3 DEF Sweep
<1>3. sweep' = sweep \/ Sweep
  BY DEF Next, Work, Dispatch, Start, CreateLog, SeeRunning, SeeSuccess, SeeFailed, See, SetRunning,
     SetSuccess, SetFailed, Set, Load, Complete, FailLog, Reraise, Crash, HardKill, Die, Tick, vars
<1> QED
  BY <1>1, <1>2, <1>3

\* A row that the sweep locked is held by nobody, and one that it saw running is not of a source
\* that it resets.
LEMMA SweepStep ==
    ASSUME SweptInv, Reset, SweepCommit, NEW t \in Tasks, Holds(t),
           CurrentLog(t) \in sweep.rows \cup sweep.view
    PROVE  sync_status'[SourceOf[t]] = sync_status[SourceOf[t]]
<1> DEFINE l == CurrentLog(t)
<1>1. l \in Logs /\ l[1] = t /\ SourceOf[t] \in Sources
  BY ConstantsOK DEF SweptInv, TypeOK, Logs, CurrentLog
<1>2. Keeps(l)
  BY <1>1 DEF Holds, Keeps
<1>3. l \notin sweep.rows
  BY <1>2, OrphansAreNotKept DEF SweptInv, LocksAreOrphans
<1>4. SourceOf[t] \notin sweep.sources
  BY <1>1, <1>3 DEF Reset
<1> QED
  BY <1>1, <1>4 DEF SweepCommit

\* A sweep never takes the running status from a source whose attempt had its row when the sweep
\* looked, however many tasks overlap it and whatever they do until it commits.
THEOREM SweeperSparesSeen == Spec => SweepSparesSeen
<1>1. SweptInv /\ Reset /\ [Next]_vars
        => [\A t \in Tasks :
              SweepCommit /\ Holds(t) /\ CurrentLog(t) \in sweep.rows \cup sweep.view =>
                 sync_status'[SourceOf[t]] = sync_status[SourceOf[t]]]_vars
  BY SweepStep
<1>2. Init => Reset
  BY DEF Init, Reset, NoSweep
<1> QED
  BY <1>1, <1>2, ResetStep, SyncIsInvariant, TypeCorrect, PTL DEF Spec, SweepSparesSeen

-----------------------------------------------------------------------------
(***************************************************************************)
(* The rows implement SyncRun.                                               *)
(***************************************************************************)
RunMap == [l \in Logs |-> RunOf(l)]

\* Where a step of a worker may take one row.
RowMove(l) ==
    \/ RunOf(l)' = RunOf(l)
    \/ RunOf(l) = "absent"  /\ RunOf(l)' \in {"active", "abandoned"}
    \/ RunOf(l) = "active"  /\ RunOf(l)' \in {"success", "failed", "abandoned"}
    \/ RunOf(l) = "success" /\ RunOf(l)' = "failed"

\* A worker's step moves the row of its attempt as SyncRun allows.
LEMMA CurrentRowMoves ==
    ASSUME TypeOK, RowDiscipline, NEW t \in Tasks, Step(t), NEW n \in Attempts, n = attempt[t]
    PROVE  RowMove(<<t, n>>)
<1> DEFINE l == <<t, n>>
<1> USE DEF TypeOK, Logs, Goto, CurrentLog, Holding, Keeps, RunOf, RowMove
<1>1. l \in Logs /\ l[1] = t /\ RowOfAttempt(t)
  BY DEF RowDiscipline
<1>2. CASE Dispatch(t) \/ Start(t)
  BY <1>1, <1>2 DEF Dispatch, Start
<1>3. CASE CreateLog(t)
  <2>1. log[l] = "none" /\ attempt'[t] = attempt[t]
    BY <1>1, <1>3 DEF CreateLog, RowOfAttempt
  <2>2. log'[l] \in {"none", "running"}
    BY <1>1, <1>3, <2>1 DEF CreateLog, Insert
  <2> QED
    BY <2>1, <2>2
<1>4. CASE SeeRunning(t) \/ SeeSuccess(t) \/ SeeFailed(t)
  BY <1>1, <1>4 DEF SeeRunning, SeeSuccess, SeeFailed, See, RowOfAttempt
<1>5. CASE SetRunning(t) \/ SetSuccess(t) \/ SetFailed(t)
  BY <1>1, <1>5 DEF SetRunning, SetSuccess, SetFailed, Set, RowOfAttempt
<1>6. CASE Load(t) \/ Complete(t)
  BY <1>1, <1>6 DEF Load, Complete, Close, RowOfAttempt, Holds
<1>7. CASE FailLog(t)
  BY <1>1, <1>7 DEF FailLog, Close, RowOfAttempt
<1>8. CASE Reraise(t)
  BY <1>1, <1>8 DEF Reraise
<1>9. CASE Crash(t) \/ HardKill(t)
  BY <1>1, <1>9 DEF Crash, HardKill, Die, Live
<1> QED
  BY <1>2, <1>3, <1>4, <1>5, <1>6, <1>7, <1>8, <1>9 DEF Step, Work

\* It moves no other row.
LEMMA OtherRowsStay ==
    ASSUME TypeOK, RowDiscipline, NEW t \in Tasks, Step(t), NEW n \in Attempts, n = attempt[t],
           NEW l \in Logs, l # <<t, n>>
    PROVE  RunOf(l)' = RunOf(l)
<1>1. PICK s \in Tasks, m \in Attempts : l = <<s, m>>
  BY DEF Logs
<1>2. CASE s # t
  BY <1>1, <1>2, StepIsLocal DEF Untouched, RunOf, Keeps, CurrentLog
<1>3. CASE s = t
  <2>1. m # attempt[t] /\ ~ Keeps(l)
    BY <1>1, <1>3 DEF Keeps, CurrentLog
  <2>2. log'[l] = log[l]
    BY <1>1, <1>3, <2>1 DEF TypeOK, Step, Work, Dispatch, Start, CreateLog, Insert, SeeRunning,
       SeeSuccess, SeeFailed, See, SetRunning, SetSuccess, SetFailed, Set, Load, Complete,
       FailLog, Close, Reraise, Crash, HardKill, Die, CurrentLog, Logs
  <2>3. attempt'[t] = attempt[t] \/ pc'[t] \in {"queued", "exhausted"}
    BY DEF TypeOK, Step, Work, Dispatch, Start, CreateLog, SeeRunning, SeeSuccess,
       SeeFailed, See, SetRunning, SetSuccess, SetFailed, Set, Load, Complete,
       FailLog, Reraise, Crash, HardKill, Die, Goto
  <2>4. ~ Keeps(l)'
    BY <1>1, <1>3, <2>1, <2>3 DEF Keeps, CurrentLog, Holding
  <2> QED
    BY <2>1, <2>2, <2>4 DEF RunOf
<1> QED
  BY <1>2, <1>3

\* The commit of a sweep is a reap: its rows are abandoned, and no other row moves.
LEMMA SweepReaps ==
    ASSUME SweptInv, SweepCommit
    PROVE  Row!Reap
<1>1. \A l \in sweep.rows : l \in Logs /\ RunOf(l) = "abandoned"
  BY OrphansAreNotKept DEF SweptInv, LocksAreOrphans, Orphans, RunOf
<1>2. \A l \in Logs : Keeps(l)' <=> Keeps(l)
  BY DEF SweepCommit, Keeps, CurrentLog
<1>3. \A l \in Logs : log'[l] = IF l \in sweep.rows THEN "failed" ELSE log[l]
  BY DEF SweepCommit
<1>4. \A l \in Logs : RunOf(l)' = IF l \in sweep.rows THEN "failed" ELSE RunOf(l)
  BY <1>2, <1>3 DEF RunOf
<1>5. RunMap' = [l \in Logs |-> IF l \in sweep.rows THEN "failed" ELSE RunMap[l]]
  BY <1>4 DEF RunMap
<1> QED
  BY <1>1, <1>5 DEF Row!Reap, RunMap

\* A step that moves one row as allowed is a step of SyncRun.
LEMMA MoveIsAbstract ==
    ASSUME NEW l \in Logs, RowMove(l),
           \A k \in Logs : k # l => RunOf(k)' = RunOf(k)
    PROVE  [Row!Next]_RunMap
<1>1. RunMap' = [RunMap EXCEPT ![l] = RunOf(l)']
  BY DEF RunMap
<1>2. RunMap[l] = RunOf(l)
  BY DEF RunMap
<1>3. CASE RunOf(l)' = RunOf(l)
  BY <1>1, <1>2, <1>3 DEF RunMap
<1>4. CASE RunOf(l)' # RunOf(l)
  <2>1. Row!Open(l) \/ Row!Close(l) \/ Row!TakeBack(l) \/ Row!Abandon(l)
    BY <1>1, <1>2, <1>4 DEF RowMove, RunMap, Row!Open, Row!Close, Row!TakeBack, Row!Abandon, Row!Moves
  <2> QED
    BY <2>1 DEF Row!Next
<1> QED
  BY <1>3, <1>4

\* Every step of the workers, the clock and the sweeper is a step of SyncRun.
LEMMA StepRefines ==
    ASSUME SweptInv, [Next]_vars
    PROVE  [Row!Next]_RunMap
<1> USE DEF SweptInv
<1>1. ASSUME NEW t \in Tasks, Step(t) PROVE [Row!Next]_RunMap
  <2>1. PICK n \in Attempts : n = attempt[t]
    BY DEF TypeOK
  <2>2. <<t, n>> \in Logs
    BY DEF Logs
  <2>3. RowMove(<<t, n>>)
    BY <1>1, <2>1, CurrentRowMoves
  <2>4. \A k \in Logs : k # <<t, n>> => RunOf(k)' = RunOf(k)
    BY <1>1, <2>1, OtherRowsStay
  <2> QED
    BY <2>2, <2>3, <2>4, MoveIsAbstract
<1>2. CASE Tick \/ UNCHANGED vars \/ SweepLogs \/ SweepSources \/ SweepAbort
  BY <1>2, SweepReads DEF Tick, vars, RunMap, RunOf, Keeps, CurrentLog
<1>3. CASE SweepCommit
  BY <1>3, SweepReaps DEF Row!Next
<1> QED
  BY <1>1, <1>2, <1>3 DEF Next, Step, Sweep

\* The rows of sync_logs are runs: a failure is final, a row is opened once, and
\* only an abandoned row is ever swept.
THEOREM Refinement == Spec => RowsAreRuns
<1>1. Init => Row!Init
  BY DEF Init, Row!Init, RunOf
<1>2. SweptInv /\ [Next]_vars => [Row!Next]_RunMap
  BY StepRefines
<1> QED
  BY <1>1, <1>2, SyncIsInvariant, PTL DEF Spec, RowsAreRuns, Row!Spec, RunMap

-----------------------------------------------------------------------------
\* A source that reads success was set by a task that has ended well.
Earned == AckLoss \/ \A d \in Sources : sync_status[d] = "success" =>
                        \E t \in Tasks : SourceOf[t] = d /\ pc[t] = "done"

\* No step lets a source read success before a task of it is done.
LEMMA EarnedStep ==
    ASSUME TypeOK, Earned, [Next]_vars
    PROVE  Earned'
<1> SUFFICES ASSUME ~ AckLoss, NEW d \in Sources, sync_status'[d] = "success"
             PROVE  \E t \in Tasks : SourceOf[t] = d /\ pc'[t] = "done"
  BY DEF Earned
<1>1. sync_status[d] = "success" => \E t \in Tasks : SourceOf[t] = d /\ pc[t] = "done"
  BY DEF Earned
<1>2. \A t \in Tasks : pc[t] = "done" => pc'[t] = "done"
  BY DEF TypeOK, Next, Work, Dispatch, Start, CreateLog, SeeRunning, SeeSuccess, SeeFailed, See,
     SetRunning, SetSuccess, SetFailed, Set, Load, Complete, FailLog, Reraise, Crash, HardKill,
     Die, Goto, Tick, Sweep, SweepLogs, SweepSources, SweepCommit, SweepAbort, vars, Live, Body,
     Handler
<1>3. CASE sync_status[d] = "success"
  BY <1>1, <1>2, <1>3
<1>4. CASE sync_status[d] # "success"
  <2>1. PICK t \in Tasks : SetSuccess(t)
    <3>1. ASSUME NEW t \in Tasks, SetRunning(t) \/ SetFailed(t) PROVE FALSE
      BY <1>4, <3>1, ConstantsOK DEF TypeOK, SetRunning, SetFailed, Set, Written
    <3>2. CASE Sweep
      BY <1>4, <3>2 DEF Sweep, SweepLogs, SweepSources, SweepCommit, SweepAbort
    <3>3. sync_status' # sync_status
      BY <1>4
    <3> QED
      BY <3>1, <3>2, <3>3 DEF Next, Work, Dispatch, Start, CreateLog, SeeRunning, SeeSuccess,
         SeeFailed, See, Load, Complete, FailLog, Reraise, Crash, HardKill, Die, Tick, vars
  <2>2. sync_status' = Written(t, "success") /\ pc'[t] = "done"
    <3>1. sync_status' # sync_status
      BY <1>4
    <3> QED
      BY <2>1, <3>1 DEF TypeOK, SetSuccess, Set, Goto
  <2>3. SourceOf[t] = d
    BY <1>4, <2>2, ConstantsOK DEF TypeOK, Written
  <2> QED
    BY <2>2, <2>3
<1> QED
  BY <1>3, <1>4

\* While no commit acknowledgement is lost, success on a source is backed by a
\* row that reads success.
THEOREM SuccessIsBacked == Spec => []SuccessIsEarned
<1>1. Init => Earned
  BY DEF Init, Earned
<1>2. TypeOK /\ Earned /\ [Next]_vars => Earned'
  BY EarnedStep
<1>3. TypeOK /\ RowDiscipline /\ Earned => SuccessIsEarned
  <2> SUFFICES ASSUME TypeOK, RowDiscipline, Earned, ~ AckLoss,
                      NEW d \in Sources, sync_status[d] = "success"
               PROVE  \E l \in Logs : SourceOf[l[1]] = d /\ log[l] = "success"
    BY DEF SuccessIsEarned
  <2>1. PICK t \in Tasks : SourceOf[t] = d /\ pc[t] = "done"
    BY DEF Earned
  <2>2. CurrentLog(t) \in Logs /\ CurrentLog(t)[1] = t
    BY DEF TypeOK, Logs, CurrentLog
  <2>3. log[CurrentLog(t)] = "success"
    BY <2>1 DEF RowDiscipline, RowOfAttempt
  <2> QED
    BY <2>1, <2>2, <2>3
<1> QED
  BY <1>1, <1>2, <1>3, TypeCorrect, RowsAreDisciplined, PTL DEF Spec

-----------------------------------------------------------------------------
(* Store, for any calendar, any rates and any number of months: maintenance is *)
(* never blocked, and what was frozen was frozen right.                        *)

\* Every month up to the last one that the last maintenance has prepared is there, and
\* nothing lies in the default partition but what is older than the first of them.
Prepared ==
  /\ now \in Int /\ now >= FirstMonth
  /\ missed \in 0..MaxMissed
  /\ FirstMonth..(now - missed + Ahead) \subseteq parts

Homes ==
  \A d \in DOMAIN rows : rows[d].home = Default => MonthOf[d] < FirstMonth

Collected ==
  /\ DOMAIN rows \subseteq Past
  /\ DOMAIN batch \subseteq Past

IInv == Prepared /\ Homes /\ Collected

\* The bounds are integers.
LEMMA Bounds ==
  /\ FirstMonth \in Int /\ FirstMonth >= 1
  /\ Ahead \in Nat /\ MaxMissed \in Nat /\ MaxMissed <= Ahead
  /\ \A d \in Dates : MonthOf[d] \in Int
BY StoreOK, MaintenanceKeepsUp

\* The months up to the first are prepared.
LEMMA InitPrepared == StoreInit => IInv
<1> SUFFICES ASSUME StoreInit PROVE IInv
  OBVIOUS
<1>1. Prepared
  BY Bounds DEF StoreInit, Prepared
<1>2. Homes
  <2>1. \A d \in DOMAIN rows : rows[d].home = FirstMonth
    BY DEF StoreInit
  <2> QED BY <2>1, Bounds DEF Homes, Default
<1>3. Collected
  <2>1. DOMAIN rows = Legacy /\ DOMAIN batch = {}
    BY DEF StoreInit, NoBatch
  <2>2. Legacy \subseteq Dates /\ \A d \in Legacy : MonthOf[d] = FirstMonth
    BY StoreOK
  <2> QED BY <2>1, <2>2, Bounds DEF StoreInit, Collected, Past
<1> QED BY <1>1, <1>2, <1>3 DEF IInv

\* The months that have begun have their partition.
LEMMA Begun ==
  ASSUME Prepared, NEW d \in Past, MonthOf[d] >= FirstMonth
  PROVE  MonthOf[d] \in parts
<1>1. MonthOf[d] \in Int /\ MonthOf[d] <= now
  BY Bounds DEF Past
<1>2. now <= now - missed + Ahead
  BY Bounds DEF Prepared
<1> QED BY <1>1, <1>2, Bounds DEF Prepared

\* And no step leaves one out.
LEMMA StepPrepared == IInv /\ [StoreNext]_storeVars => IInv'
<1> SUFFICES ASSUME IInv, [StoreNext]_storeVars PROVE IInv'
  OBVIOUS
<1> USE DEF IInv
<1>1. ASSUME NEW days \in SUBSET Past \ {{}}, Annotate(days) PROVE IInv'
  <2>1. DOMAIN batch' = days
    BY <1>1 DEF Annotate, Annotated
  <2> QED BY <1>1, <2>1 DEF Annotate, Prepared, Homes, Collected, Past
<1>2. ASSUME Merge PROVE IInv'
  <2>1. \A d \in DOMAIN rows' : rows'[d].home = IF d \in DOMAIN rows THEN rows[d].home ELSE Partition(d)
    BY <1>2 DEF Merge
  <2>2. DOMAIN rows' = DOMAIN batch \cup DOMAIN rows
    BY <1>2 DEF Merge
  <2>4. Homes'
    <3> SUFFICES ASSUME NEW d \in DOMAIN rows', rows'[d].home = Default PROVE MonthOf[d] < FirstMonth
      BY DEF Homes
    <3>1. CASE d \in DOMAIN rows
      <4>1. rows[d].home = Default
        BY <2>1, <3>1
      <4> QED BY <4>1, <3>1 DEF Homes
    <3>2. CASE d \notin DOMAIN rows
      <4>1. d \in DOMAIN batch /\ d \in Past
        BY <2>2, <3>2 DEF Collected
      <4>2. rows'[d].home = Partition(d)
        BY <2>1, <3>2
      <4>3. MonthOf[d] \notin parts \/ MonthOf[d] = Default
        BY <4>2 DEF Partition
      <4>4. MonthOf[d] \in Int
        BY <4>1, Bounds DEF Past
      <4> QED BY <4>1, <4>3, <4>4, Begun, Bounds DEF Default
    <3> QED BY <3>1, <3>2
  <2>5. Collected'
    BY <1>2, <2>2 DEF Merge, Collected, Past, NoBatch
  <2>6. Prepared'
    BY <1>2 DEF Merge, Prepared
  <2> QED BY <2>4, <2>5, <2>6
<1>3. ASSUME MergeFails PROVE IInv'
  BY <1>3 DEF MergeFails, Prepared, Homes, Collected, Past, NoBatch
<1>4. ASSUME NEW days, Fetch(days) PROVE IInv'
  BY <1>4 DEF Fetch, Prepared, Homes, Collected, Past
<1>5. ASSUME NEW d \in Dates, CreateRate(d) PROVE IInv'
  BY <1>5 DEF CreateRate, Prepared, Homes, Collected, Past
<1>6. ASSUME NEW m \in Months, Backfill(m) PROVE IInv'
  <2>1. DOMAIN rows' = DOMAIN rows /\ \A d \in DOMAIN rows' : rows'[d] = IF MonthOf[d] = m THEN [home |-> rows[d].home, money |-> Filled(d)] ELSE rows[d]
    BY <1>6 DEF Backfill
  <2>2. Homes'
    <3> SUFFICES ASSUME NEW d \in DOMAIN rows', rows'[d].home = Default PROVE MonthOf[d] < FirstMonth
      BY DEF Homes
    <3>1. rows[d].home = Default
      BY <2>1
    <3> QED BY <2>1, <3>1 DEF Homes
  <2> QED BY <1>6, <2>1, <2>2 DEF Backfill, Prepared, Collected, Past
<1>7. ASSUME Ensure PROVE IInv'
  <2>1. Prepared'
    <3>1. FirstMonth..(now + Ahead) \subseteq parts \cup Window
      <4> SUFFICES ASSUME NEW m \in FirstMonth..(now + Ahead), m \notin Window PROVE m \in parts
        OBVIOUS
      <4>1. m < now
        BY Bounds DEF Window, Prepared
      <4> QED BY <4>1, Bounds DEF Prepared
    <3> QED BY <1>7, <3>1, Bounds DEF Ensure, Prepared
  <2> QED BY <1>7, <2>1 DEF Ensure, Homes, Collected, Past
<1>8. ASSUME FixList PROVE IInv'
  BY <1>8 DEF FixList, Prepared, Homes, Collected, Past
<1>9. ASSUME FixMove PROVE IInv'
  <2>1. DOMAIN rows' = DOMAIN rows /\ \A d \in DOMAIN rows' :
          rows'[d] = IF d \in Strays /\ MonthOf[d] \in listed THEN [rows[d] EXCEPT !.home = MonthOf[d]] ELSE rows[d]
    BY <1>9 DEF FixMove
  <2>2. Homes'
    <3> SUFFICES ASSUME NEW d \in DOMAIN rows', rows'[d].home = Default PROVE MonthOf[d] < FirstMonth
      BY DEF Homes
    <3>1. CASE d \in Strays
      BY <3>1, <2>1 DEF Strays, Homes
    <3>2. CASE d \notin Strays
      BY <3>2, <2>1 DEF Strays
    <3> QED BY <3>1, <3>2
  <2> QED BY <1>9, <2>1, <2>2 DEF FixMove, Prepared, Collected, Past
<1>10. ASSUME FixFails PROVE IInv'
  BY <1>10 DEF FixFails, Prepared, Homes, Collected, Past
<1>11. ASSUME NextMonth PROVE IInv'
  <2>1. Collected'
    <3>1. \A d \in Past : d \in Past'
      BY <1>11, Bounds DEF NextMonth, Past, Prepared
    <3> QED BY <1>11, <3>1 DEF NextMonth, Collected
  <2> QED BY <1>11, <2>1, Bounds DEF NextMonth, Prepared, Homes
<1>12. CASE UNCHANGED storeVars
  BY <1>12 DEF storeVars, Prepared, Homes, Collected, Past
<1> QED BY <1>1, <1>2, <1>3, <1>4, <1>5, <1>6, <1>7, <1>8, <1>9, <1>10, <1>11, <1>12 DEF StoreNext

\* Nothing then stands in the way of the next partition.
LEMMA PreparedIsEnough == IInv => NeverBlocked
<1> SUFFICES ASSUME IInv, NEW d \in Strays, MonthOf[d] \in Window \ parts PROVE FALSE
  BY DEF NeverBlocked, Blocked
<1>1. MonthOf[d] < FirstMonth
  BY DEF IInv, Homes, Strays
<1>2. MonthOf[d] >= now /\ MonthOf[d] \in Int
  BY DEF Window, IInv, Prepared
<1> QED BY <1>1, <1>2, Bounds DEF IInv, Prepared

\* While no more months begin without maintenance than it plans ahead, no row of the default
\* partition keeps ensure_billing_summary_partition from creating a month (partition_maintenance.py:76).
THEOREM MaintenanceIsNeverBlocked == StoreSpec => []NeverBlocked
<1>1. StoreInit => IInv
  BY InitPrepared
<1>2. IInv /\ [StoreNext]_storeVars => IInv'
  BY StepPrepared
<1>3. IInv => NeverBlocked
  BY PreparedIsEnough
<1> QED BY <1>1, <1>2, <1>3, PTL DEF StoreSpec

----------------------------------------------------------------------------
(* The frozen amounts.                                                      *)

\* One that is bounded has a greatest.
LEMMA Greatest ==
  ASSUME NEW n \in Nat, NEW T \in SUBSET (0..n), T # {}
  PROVE  \E x \in T : \A y \in T : x >= y
<1> DEFINE U == {n - x : x \in T}
<1>1. U \in SUBSET Nat
  <2>1. \A x \in T : n - x \in Nat
    OBVIOUS
  <2> QED BY <2>1
<1>2. U # {}
  OBVIOUS
<1>3. PICK u \in U : \A v \in U : u <= v
  BY <1>1, <1>2, Least
<1>4. PICK x \in T : u = n - x
  OBVIOUS
<1>5. \A y \in T : n - y \in U
  OBVIOUS
<1> QED BY <1>3, <1>4, <1>5

\* What Max and Min return.
LEMMA MaxIs ==
  ASSUME NEW n \in Nat, NEW T \in SUBSET (0..n), T # {}
  PROVE  Max(T) \in T /\ \A y \in T : Max(T) >= y
BY Greatest DEF Max

\* The greatest element is the only one of its kind.
LEMMA MaxOnly ==
  ASSUME NEW n \in Nat, NEW T \in SUBSET (0..n), NEW x \in T, \A y \in T : x >= y
  PROVE  Max(T) = x
<1>1. Max(T) \in T /\ Max(T) >= x
  BY MaxIs
<1>2. x >= Max(T)
  BY <1>1
<1>3. x \in Int /\ Max(T) \in Int
  <2>1. \A y \in T : y \in Int
    OBVIOUS
  <2> QED BY <1>1, <2>1
<1> QED BY <1>1, <1>2, <1>3

\* The days are 1..n.
LEMMA Calendar == \E n \in Nat : Dates = 1..n
BY StoreOK, FS_CardinalityType

\* The rate Latest takes is the constant or that of a day up to the given one, and none is later.
LEMMA LatestIs ==
  ASSUME NEW days \in SUBSET Dates, NEW day \in Dates
  PROVE  /\ Latest(days, day) \in {k \in days : k <= day} \cup {Constant}
         /\ \A k \in days : k <= day => k <= Latest(days, day)
<1>1. PICK n \in Nat : Dates = 1..n
  BY Calendar
<1> DEFINE T == {k \in days : k <= day} \cup {Constant}
<1>2. T \in SUBSET (0..n) /\ T # {}
  <2>1. \A k \in T : k = 0 \/ k \in 1..n
    BY <1>1 DEF Constant
  <2>2. \A k \in T : k \in 0..n
    BY <2>1
  <2> QED BY <2>2
<1>3. Max(T) \in T /\ \A y \in T : Max(T) >= y
  BY <1>2, MaxIs
<1>4. Latest(days, day) = Max(T)
  BY DEF Latest
<1>5. \A k \in days : k <= day => k \in T
  OBVIOUS
<1> QED BY <1>1, <1>2, <1>3, <1>4, <1>5

\* There is no other such rate.
LEMMA LatestOnly ==
  ASSUME NEW days \in SUBSET Dates, NEW day \in Dates,
         NEW x \in {k \in days : k <= day} \cup {Constant},
         \A k \in days : k <= day => k <= x
  PROVE  Latest(days, day) = x
<1>1. PICK n \in Nat : Dates = 1..n
  BY Calendar
<1>2. /\ Latest(days, day) \in {k \in days : k <= day} \cup {Constant}
      /\ \A k \in days : k <= day => k <= Latest(days, day)
  BY LatestIs
<1>3. x \in 0..n /\ Latest(days, day) \in 0..n
  <2>1. \A k \in {k \in days : k <= day} \cup {Constant} : k = 0 \/ k \in 1..n
    BY <1>1 DEF Constant
  <2>2. \A k \in {k \in days : k <= day} \cup {Constant} : k \in 0..n
    BY <2>1
  <2> QED BY <2>2, <1>2
<1>4. x <= Latest(days, day)
  BY <1>2, <1>3 DEF Constant
<1>5. Latest(days, day) <= x
  BY <1>2, <1>3 DEF Constant
<1> QED BY <1>3, <1>4, <1>5

\* What holds of the two amounts of a row from its annotation on: as long as the second is
\* missing the first was not converted, so that the backfill may set the day of both.
Sound(money) ==
  /\ RightAmounts(money)
  /\ money.cny = NULL => money.usd.rate = Unconverted

Typed ==
  /\ now \in FirstMonth..LastMonth
  /\ parts \in SUBSET Months /\ missed \in 0..MaxMissed
  /\ queued \in BOOLEAN /\ listed \in SUBSET Months
  /\ rates \in SUBSET RateDays
  /\ DOMAIN rows \subseteq Dates /\ DOMAIN batch \subseteq Dates

Kept ==
  /\ \A d \in DOMAIN rows :
       rows[d] \in [home : {Default} \cup parts, money : Frozen] /\ Sound(rows[d].money)
  /\ \A d \in DOMAIN batch : batch[d] \in Frozen /\ Sound(batch[d])

FInv == Typed /\ Kept

\* The units that are ever written and the rates that are ever taken.
LEMMA AmountIs ==
  ASSUME NEW unit \in {"USD", "CNY", "NULL"}, NEW rate \in {Unconverted, Constant} \cup RateDays
  PROVE  /\ Amount(unit, rate) \in Amounts
         /\ Amount(unit, rate).unit = unit /\ Amount(unit, rate).rate = rate
BY DEF Amount, Amounts

\* Two amounts of the right currencies at the right rate are a sound pair.
LEMMA PairIsSound ==
  ASSUME NEW due \in {Constant} \cup RateDays, NEW late \in BOOLEAN,
         NEW rate \in {due, Constant}, rate = due \/ late,
         NEW usd \in {Amount("USD", Unconverted), Amount("USD", rate), NULL},
         NEW cny \in {Amount("CNY", Unconverted), Amount("CNY", rate), NULL},
         cny = NULL => usd # Amount("USD", rate)
  PROVE  /\ [usd |-> usd, cny |-> cny, due |-> due, late |-> late] \in Frozen
         /\ Sound([usd |-> usd, cny |-> cny, due |-> due, late |-> late])
<1> DEFINE money == [usd |-> usd, cny |-> cny, due |-> due, late |-> late]
<1>1. usd \in Amounts /\ usd.unit \in {"USD", "NULL"} /\ usd.rate \in {Unconverted, rate}
  BY AmountIs DEF NULL
<1>2. cny \in Amounts /\ cny.unit \in {"CNY", "NULL"} /\ cny.rate \in {Unconverted, rate}
  BY AmountIs DEF NULL
<1>3. cny = NULL => usd.rate = Unconverted
  BY AmountIs DEF NULL
<1>4. money \in Frozen
  BY <1>1, <1>2 DEF Frozen
<1>5. RightAmounts(money)
  BY <1>1, <1>2 DEF RightAmounts
<1>6. Sound(money)
  BY <1>3, <1>5 DEF Sound
<1> QED BY <1>4, <1>6

\* compute_dual_currency leaves nothing NULL: a currency that is neither comes converted.
LEMMA DualIs ==
  ASSUME NEW d \in Dates, NEW rate
  PROVE  /\ DualCurrency(d, rate).usd \in {Amount("USD", Unconverted), Amount("USD", rate)}
         /\ DualCurrency(d, rate).cny \in {Amount("CNY", Unconverted), Amount("CNY", rate)}
<1>1. CASE CurrencyOf[d] = "USD"
  BY <1>1 DEF DualCurrency
<1>2. CASE CurrencyOf[d] = "CNY"
  BY <1>2 DEF DualCurrency
<1>3. CASE CurrencyOf[d] \notin {"USD", "CNY"}
  <2>1. d \in Converted
    BY <1>3, StoreOK
  <2>2. DualCurrency(d, rate) = [usd |-> Amount("USD", Unconverted), cny |-> Amount("CNY", rate)]
    BY <1>3, <2>1 DEF DualCurrency
  <2> QED BY <2>2
<1> QED BY <1>1, <1>2, <1>3

\* The rate resolve_rate finds for a day of the batch is that of the nearest earlier day of
\* all that are known; the constant stands in for it only where a later day of the batch has one.
LEMMA ResolveIs ==
  ASSUME rates \in SUBSET Dates, NEW days \in SUBSET Dates, NEW d \in days
  PROVE  \/ Resolve(d, RateMap(days), Fallback(days)) = Latest(rates, d)
         \/ /\ Resolve(d, RateMap(days), Fallback(days)) = Constant
            /\ \E k \in RateMap(days) : k > d
<1>1. PICK n \in Nat : Dates = 1..n
  BY Calendar
<1>2. /\ Min(days) \in days /\ \A k \in days : Min(days) <= k
      /\ Max(days) \in days /\ \A k \in days : Max(days) >= k
  <2>1. days \in SUBSET Nat /\ days \in SUBSET (0..n) /\ days # {}
    <3>1. \A k \in days : k \in 1..n
      BY <1>1
    <3>2. \A k \in days : k \in Nat /\ k \in 0..n
      BY <3>1
    <3> QED BY <3>2
  <2> QED BY <2>1, MinIs, MaxIs
<1>3. /\ Min(days) <= d /\ d <= Max(days)
      /\ \A k \in Dates : k \in Int /\ k >= 1 /\ k <= n
      /\ d \in Dates /\ Min(days) \in Dates /\ Max(days) \in Dates
  <2>1. d \in Dates /\ Min(days) \in Dates /\ Max(days) \in Dates
    BY <1>2
  <2>2. \A k \in Dates : k \in Int /\ k >= 1 /\ k <= n
    BY <1>1
  <2>3. Min(days) <= d /\ d <= Max(days)
    <3>1. Min(days) <= d /\ Max(days) >= d
      BY <1>2
    <3> QED BY <3>1, <2>1, <2>2
  <2> QED BY <2>1, <2>2, <2>3
<1> DEFINE map == RateMap(days)
           earlier == {k \in map : k <= d}
<1>4. \A k : k \in map <=> k \in rates /\ Min(days) <= k /\ k <= Max(days)
  BY DEF RateMap
<1>5. map \subseteq rates
  BY <1>4
<1> HIDE DEF map
<1>6. CASE earlier # {}
  <2>1. earlier \in SUBSET (0..n)
    <3>1. \A k \in earlier : k \in Dates
      BY <1>5
    <3> QED BY <3>1, <1>1
  <2>2. Max(earlier) \in earlier /\ \A k \in earlier : Max(earlier) >= k
    BY <1>6, <2>1, MaxIs
  <2>3. \A k \in rates : k <= d => k <= Max(earlier)
    <3> SUFFICES ASSUME NEW k \in rates, k <= d PROVE k <= Max(earlier)
      OBVIOUS
    <3>0. k \in Int /\ Min(days) \in Int /\ Max(days) \in Int /\ d \in Int /\ Max(earlier) \in Int
      BY <1>3, <1>5, <2>2
    <3>1. CASE Min(days) <= k
      <4>1. k \in map
        BY <3>0, <3>1, <1>3, <1>4
      <4>2. k \in earlier
        BY <4>1
      <4> QED BY <4>2, <2>2, <3>0
    <3>2. CASE ~ (Min(days) <= k)
      <4>1. Min(days) <= Max(earlier)
        BY <2>2, <1>4
      <4> QED BY <3>0, <3>2, <4>1
    <3> QED BY <3>1, <3>2
  <2>4. Max(earlier) \in {k \in rates : k <= d} \cup {Constant}
    BY <2>2, <1>5
  <2>5. Latest(rates, d) = Max(earlier)
    BY <2>3, <2>4, <1>3, LatestOnly
  <2>6. Resolve(d, map, Fallback(days)) = Max(earlier)
    BY <1>6 DEF Resolve
  <2> QED BY <2>5, <2>6 DEF map
<1>7. CASE earlier = {} /\ map = {}
  <2>1. Resolve(d, map, Fallback(days)) = Latest(rates, Max(days))
    BY <1>7 DEF Resolve, Fallback, map
  <2> DEFINE last == Latest(rates, Max(days))
  <2>2. /\ last \in {k \in rates : k <= Max(days)} \cup {Constant}
        /\ \A k \in rates : k <= Max(days) => k <= last
    BY <1>3, LatestIs
  <2> HIDE DEF last
  <2>3. \A k \in rates : k <= Max(days) => k <= d
    <3> SUFFICES ASSUME NEW k \in rates, k <= Max(days) PROVE k <= d
      OBVIOUS
    <3>1. ~ (Min(days) <= k)
      BY <1>4, <1>7
    <3> QED BY <3>1, <1>3
  <2>4. last \in {k \in rates : k <= d} \cup {Constant}
    BY <2>2, <2>3
  <2>5. \A k \in rates : k <= d => k <= Max(days)
    BY <1>3
  <2>6. Latest(rates, d) = last
    BY <2>2, <2>4, <2>5, <1>3, LatestOnly
  <2> QED BY <2>1, <2>6 DEF last, map
<1>8. CASE earlier = {} /\ map # {}
  <2>1. Resolve(d, map, Fallback(days)) = Constant
    BY <1>8 DEF Resolve, Fallback, map
  <2>2. PICK k \in map : TRUE
    BY <1>8
  <2>3. ~ (k <= d) /\ k \in Dates
    BY <1>8, <1>5
  <2>4. k > d
    BY <2>3, <1>3
  <2> QED BY <2>1, <2>2, <2>4 DEF map
<1> QED BY <1>6, <1>7, <1>8

\* Annotated rows are sound.
LEMMA AnnotatedIsSound ==
  ASSUME rates \in SUBSET RateDays, NEW days \in SUBSET Dates, NEW d \in days
  PROVE  Annotated(days)[d] \in Frozen /\ Sound(Annotated(days)[d])
<1> DEFINE rate == Resolve(d, RateMap(days), Fallback(days))
           due == Latest(rates, d)
           late == \E k \in RateMap(days) : k > d
<1>1. rates \in SUBSET Dates
  BY StoreOK
<1>2. Annotated(days)[d] = [usd |-> DualCurrency(d, rate).usd, cny |-> DualCurrency(d, rate).cny,
                            due |-> due, late |-> late]
  BY DEF Annotated
<1>3. rate = due \/ (rate = Constant /\ late)
  BY <1>1, ResolveIs
<1>4. due \in {Constant} \cup RateDays
  BY <1>1, LatestIs
<1>5. late \in BOOLEAN
  OBVIOUS
<1> DEFINE usd == DualCurrency(d, rate).usd
           cny == DualCurrency(d, rate).cny
<1>6. /\ usd \in {Amount("USD", Unconverted), Amount("USD", rate)}
      /\ cny \in {Amount("CNY", Unconverted), Amount("CNY", rate)}
  BY DualIs
<1>7. Annotated(days)[d] = [usd |-> usd, cny |-> cny, due |-> due, late |-> late]
  BY <1>2
<1> HIDE DEF rate, due, late, usd, cny
<1>8. cny # NULL
  BY <1>6 DEF NULL, Amount
<1>9. rate \in {due, Constant} /\ (rate = due \/ late)
  BY <1>3
<1>10. /\ usd \in {Amount("USD", Unconverted), Amount("USD", rate), NULL}
       /\ cny \in {Amount("CNY", Unconverted), Amount("CNY", rate), NULL}
       /\ cny = NULL => usd # Amount("USD", rate)
  BY <1>6, <1>8
<1>11. /\ [usd |-> usd, cny |-> cny, due |-> due, late |-> late] \in Frozen
       /\ Sound([usd |-> usd, cny |-> cny, due |-> due, late |-> late])
  BY <1>4, <1>5, <1>9, <1>10, PairIsSound
<1> QED BY <1>7, <1>11

\* The backfill leaves them sound.
LEMMA FilledIsSound ==
  ASSUME rates \in SUBSET RateDays, NEW d \in Dates,
         rows[d].money \in Frozen, Sound(rows[d].money)
  PROVE  Filled(d) \in Frozen /\ Sound(Filled(d))
<1> DEFINE old == rows[d].money
           rate == Latest(rates, d)
           usd == IF old.usd # NULL THEN old.usd
                  ELSE IF CurrencyOf[d] = "USD" \/ d \in Converted THEN Amount("USD", Unconverted) ELSE NULL
           cny == IF old.cny # NULL THEN old.cny
                  ELSE IF CurrencyOf[d] = "CNY" THEN Amount("CNY", Unconverted)
                  ELSE IF usd # NULL /\ rate # Constant THEN Amount("CNY", rate) ELSE NULL
           due == IF old.cny = NULL THEN rate ELSE old.due
<1>1. Filled(d) = [usd |-> usd, cny |-> cny, due |-> due, late |-> old.late]
  BY DEF Filled
<1>2. old \in Frozen /\ Sound(old)
  OBVIOUS
<1>3. rate \in {Constant} \cup RateDays
  BY StoreOK, LatestIs
<1>4. usd \in {old.usd, Amount("USD", Unconverted), NULL}
  OBVIOUS
<1>5. old.cny # NULL => cny = old.cny /\ due = old.due
  OBVIOUS
<1>6. old.cny = NULL => cny \in {Amount("CNY", Unconverted), Amount("CNY", rate), NULL} /\ due = rate
  OBVIOUS
<1> HIDE DEF old, rate, usd, cny, due
<1>7. /\ old.usd \in Amounts /\ old.cny \in Amounts
      /\ old.due \in {Constant} \cup RateDays /\ old.late \in BOOLEAN
  BY <1>2 DEF Frozen
<1>8. /\ old.usd.unit \in {"USD", "NULL"} /\ old.cny.unit \in {"CNY", "NULL"}
      /\ old.usd.rate \in {Unconverted, old.due} \/ (old.usd.rate = Constant /\ old.late)
      /\ old.cny.rate \in {Unconverted, old.due} \/ (old.cny.rate = Constant /\ old.late)
      /\ old.cny = NULL => old.usd.rate = Unconverted
  BY <1>2 DEF Sound, RightAmounts
<1>9. /\ usd \in Amounts /\ usd.unit \in {"USD", "NULL"}
      /\ usd.rate = Unconverted \/ usd.rate = old.usd.rate
  BY <1>4, <1>7, <1>8, AmountIs DEF NULL
<1>10. due \in {Constant} \cup RateDays
  BY <1>3, <1>5, <1>6, <1>7
<1>11. CASE old.cny # NULL
  <2>1. cny \in Amounts /\ cny.unit \in {"CNY", "NULL"} /\ cny # NULL /\ due = old.due
    BY <1>11, <1>5, <1>7, <1>8
  <2>2. /\ usd.rate \in {Unconverted, due} \/ (usd.rate = Constant /\ old.late)
        /\ cny.rate \in {Unconverted, due} \/ (cny.rate = Constant /\ old.late)
    BY <1>11, <1>5, <1>8, <1>9
  <2> QED BY <1>1, <1>7, <1>9, <1>10, <2>1, <2>2 DEF Frozen, Sound, RightAmounts
<1>12. CASE old.cny = NULL
  <2>1. due = rate /\ usd.rate = Unconverted
    BY <1>12, <1>6, <1>8, <1>9
  <2>2. /\ cny \in Amounts /\ cny.unit \in {"CNY", "NULL"}
        /\ cny.rate \in {Unconverted, due}
    BY <1>12, <1>3, <1>6, <2>1, AmountIs DEF NULL
  <2> QED BY <1>1, <1>7, <1>9, <1>10, <2>1, <2>2 DEF Frozen, Sound, RightAmounts
<1> QED BY <1>11, <1>12

\* No amount is frozen to begin with.
LEMMA InitFInv == StoreInit => FInv
<1> SUFFICES ASSUME StoreInit PROVE FInv
  OBVIOUS
<1>1. FirstMonth \in Int /\ LastMonth \in Int /\ FirstMonth >= 1 /\ FirstMonth <= LastMonth /\ Ahead \in Nat
  BY StoreOK
<1>2. Typed
  <2>1. now \in FirstMonth..LastMonth
    BY <1>1 DEF StoreInit
  <2>2. parts \in SUBSET Months
    BY <1>1 DEF StoreInit, Months
  <2>3. missed \in 0..MaxMissed
    BY Bounds DEF StoreInit
  <2>4. DOMAIN rows \subseteq Dates /\ DOMAIN batch \subseteq Dates
    BY StoreOK DEF StoreInit, NoBatch
  <2> QED BY <2>1, <2>2, <2>3, <2>4 DEF StoreInit, Typed
<1>3. Unfrozen \in Frozen /\ Sound(Unfrozen)
  <2>1. Unfrozen = [usd |-> NULL, cny |-> NULL, due |-> Constant, late |-> FALSE]
    BY DEF Unfrozen
  <2>2. NULL # Amount("USD", Constant)
    BY DEF NULL, Amount
  <2> QED BY <2>1, <2>2, PairIsSound
<1>4. \A d \in DOMAIN rows : rows[d] = [home |-> FirstMonth, money |-> Unfrozen]
  BY DEF StoreInit
<1>5. FirstMonth \in parts
  BY <1>1 DEF StoreInit
<1>6. DOMAIN batch = {}
  BY DEF StoreInit, NoBatch
<1>7. Kept
  BY <1>3, <1>4, <1>5, <1>6 DEF Kept
<1> QED BY <1>2, <1>7 DEF FInv

\* The invariant as it stands at one row.
LEMMA RowIs ==
  ASSUME FInv, NEW d \in DOMAIN rows
  PROVE  /\ d \in Dates /\ rows[d].home \in {Default} \cup parts
         /\ rows[d].money \in Frozen /\ Sound(rows[d].money)
         /\ rows[d] = [home |-> rows[d].home, money |-> rows[d].money]
BY DEF FInv, Typed, Kept

\* What the months and the days are in numbers.
LEMMA Numbers ==
  /\ Past \subseteq Dates
  /\ \A d \in Dates : MonthOf[d] \in 1..LastMonth /\ MonthOf[d] \in Months
  /\ LastMonth \in Int /\ FirstMonth \in Int /\ FirstMonth >= 1 /\ Ahead \in Nat
<1>1. /\ \A d \in Dates : MonthOf[d] \in 1..LastMonth
      /\ LastMonth \in Int /\ FirstMonth \in Int /\ FirstMonth >= 1 /\ Ahead \in Nat
  <2>1. \A d \in Dates : MonthOf[d] \in 1..LastMonth
    BY StoreOK
  <2>2. LastMonth \in Nat /\ FirstMonth \in 1..LastMonth /\ Ahead \in Nat
    BY StoreOK
  <2>3. FirstMonth \in Int /\ FirstMonth >= 1
    BY <2>2
  <2> QED BY <2>1, <2>2, <2>3
<1>2. \A d \in Dates : MonthOf[d] \in Months
  BY <1>1 DEF Months
<1> QED BY <1>1, <1>2 DEF Past

\* No step freezes an amount at a wrong rate.
LEMMA StepFInv == FInv /\ [StoreNext]_storeVars => FInv'
<1> SUFFICES ASSUME FInv, [StoreNext]_storeVars PROVE FInv'
  OBVIOUS
<1>0. Typed /\ Kept
  BY DEF FInv
<1>1. ASSUME NEW days \in SUBSET Past \ {{}}, Annotate(days) PROVE FInv'
  <2>1. days \subseteq Dates /\ rates \in SUBSET RateDays
    BY <1>0, Numbers DEF Typed
  <2>2. \A d \in days : batch'[d] \in Frozen /\ Sound(batch'[d])
    BY <1>1, <2>1, AnnotatedIsSound DEF Annotate
  <2>3. DOMAIN batch' = days
    BY <1>1 DEF Annotate, Annotated
  <2>4. Typed'
    BY <1>0, <1>1, <2>1, <2>3 DEF Annotate, Typed, Months
  <2>5. Kept'
    BY <1>0, <1>1, <2>2, <2>3 DEF Annotate, Kept
  <2> QED BY <2>4, <2>5 DEF FInv
<1>2. ASSUME Merge PROVE FInv'
  <2>1. /\ DOMAIN rows' = DOMAIN batch \cup DOMAIN rows
        /\ \A d \in DOMAIN rows' :
             rows'[d] = [home |-> IF d \in DOMAIN rows THEN rows[d].home ELSE Partition(d),
                         money |-> IF d \in DOMAIN batch THEN batch[d] ELSE rows[d].money]
    BY <1>2 DEF Merge
  <2>2. UNCHANGED <<now, parts, missed, queued, listed, rates>> /\ DOMAIN batch' = {}
    BY <1>2 DEF Merge, NoBatch
  <2>3. ASSUME NEW d \in DOMAIN rows'
        PROVE  rows'[d] \in [home : {Default} \cup parts, money : Frozen] /\ Sound(rows'[d].money)
    <3> DEFINE home == IF d \in DOMAIN rows THEN rows[d].home ELSE Partition(d)
               money == IF d \in DOMAIN batch THEN batch[d] ELSE rows[d].money
    <3>1. home \in {Default} \cup parts
      BY RowIs DEF Partition
    <3>2. money \in Frozen /\ Sound(money)
      BY <1>0, <2>1, RowIs DEF Kept
    <3>3. rows'[d] = [home |-> home, money |-> money]
      BY <2>1
    <3> HIDE DEF home, money
    <3> QED BY <3>1, <3>2, <3>3
  <2>4. Typed'
    BY <1>0, <2>1, <2>2 DEF Typed, Months
  <2>5. Kept'
    BY <2>2, <2>3 DEF Kept
  <2> QED BY <2>4, <2>5 DEF FInv
<1>3. ASSUME MergeFails PROVE FInv'
  <2>1. DOMAIN batch' = {}
    BY <1>3 DEF MergeFails, NoBatch
  <2>2. Typed'
    BY <1>0, <1>3, <2>1 DEF MergeFails, Typed, Months
  <2>3. Kept'
    BY <1>0, <1>3, <2>1 DEF MergeFails, Kept
  <2> QED BY <2>2, <2>3 DEF FInv
<1>4. ASSUME NEW days \in SUBSET (RecentDays \cap RateDays) \ {{}}, Fetch(days) PROVE FInv'
  <2>1. Typed'
    BY <1>0, <1>4 DEF Fetch, Typed, Months
  <2>2. Kept'
    BY <1>0, <1>4 DEF Fetch, Kept
  <2> QED BY <2>1, <2>2 DEF FInv
<1>5. ASSUME NEW d \in Dates, CreateRate(d) PROVE FInv'
  <2>1. Typed'
    BY <1>0, <1>5 DEF CreateRate, Typed, Months
  <2>2. Kept'
    BY <1>0, <1>5 DEF CreateRate, Kept
  <2> QED BY <2>1, <2>2 DEF FInv
<1>6. ASSUME NEW m \in Months, Backfill(m) PROVE FInv'
  <2>1. /\ DOMAIN rows' = DOMAIN rows
        /\ \A d \in DOMAIN rows' : rows'[d] = IF MonthOf[d] = m THEN [home |-> rows[d].home, money |-> Filled(d)] ELSE rows[d]
    BY <1>6 DEF Backfill
  <2>2. UNCHANGED <<now, parts, missed, queued, listed, rates, batch>>
    BY <1>6 DEF Backfill
  <2>3. ASSUME NEW d \in DOMAIN rows'
        PROVE  rows'[d] \in [home : {Default} \cup parts, money : Frozen] /\ Sound(rows'[d].money)
    <3>1. /\ d \in Dates /\ rows[d].home \in {Default} \cup parts
          /\ rows[d].money \in Frozen /\ Sound(rows[d].money)
          /\ rows[d] = [home |-> rows[d].home, money |-> rows[d].money]
      BY <2>1, RowIs
    <3>2. Filled(d) \in Frozen /\ Sound(Filled(d))
      BY <1>0, <3>1, FilledIsSound DEF Typed
    <3> QED BY <2>1, <3>1, <3>2
  <2>4. Typed'
    BY <1>0, <2>1, <2>2 DEF Typed, Months
  <2>5. Kept'
    BY <1>0, <2>2, <2>3 DEF Kept
  <2> QED BY <2>4, <2>5 DEF FInv
<1>7. ASSUME Ensure PROVE FInv'
  <2>1. Window \subseteq Months
    BY <1>0, Numbers DEF Window, Months, Typed
  <2>2. Typed'
    BY <1>0, <1>7, <2>1, Bounds DEF Ensure, Typed, Months
  <2>3. Kept'
    <3>1. rows' = rows /\ batch' = batch /\ parts \subseteq parts'
      BY <1>7 DEF Ensure
    <3> QED BY <1>0, <3>1 DEF Kept
  <2> QED BY <2>2, <2>3 DEF FInv
<1>8. ASSUME FixList PROVE FInv'
  <2>1. \A d \in Strays : MonthOf[d] \in Months
    BY <1>0, Numbers DEF Strays, Typed
  <2>2. listed' \in SUBSET Months
    BY <1>8, <2>1 DEF FixList
  <2>3. Typed'
    BY <1>0, <1>8, <2>2 DEF FixList, Typed, Months
  <2>4. Kept'
    BY <1>0, <1>8 DEF FixList, Kept
  <2> QED BY <2>3, <2>4 DEF FInv
<1>9. ASSUME FixMove PROVE FInv'
  <2>1. /\ DOMAIN rows' = DOMAIN rows
        /\ \A d \in DOMAIN rows' : rows'[d] = IF d \in Strays /\ MonthOf[d] \in listed
                                              THEN [rows[d] EXCEPT !.home = MonthOf[d]] ELSE rows[d]
    BY <1>9 DEF FixMove
  <2>2. UNCHANGED <<now, missed, queued, rates, batch>> /\ parts' = parts \cup listed /\ listed' = {}
    BY <1>9 DEF FixMove
  <2>3. ASSUME NEW d \in DOMAIN rows'
        PROVE  rows'[d] \in [home : {Default} \cup parts', money : Frozen] /\ Sound(rows'[d].money)
    <3>1. /\ d \in Dates /\ rows[d].home \in {Default} \cup parts
          /\ rows[d].money \in Frozen /\ Sound(rows[d].money)
          /\ rows[d] = [home |-> rows[d].home, money |-> rows[d].money]
      BY <2>1, RowIs
    <3>2. CASE d \in Strays /\ MonthOf[d] \in listed
      <4>1. rows'[d] = [home |-> MonthOf[d], money |-> rows[d].money]
        BY <2>1, <3>1, <3>2
      <4> QED BY <2>2, <3>1, <3>2, <4>1
    <3>3. CASE ~ (d \in Strays /\ MonthOf[d] \in listed)
      BY <2>1, <2>2, <3>1, <3>3
    <3> QED BY <3>2, <3>3
  <2>4. Typed'
    BY <1>0, <2>1, <2>2 DEF Typed, Months
  <2>5. Kept'
    BY <1>0, <2>2, <2>3 DEF Kept
  <2> QED BY <2>4, <2>5 DEF FInv
<1>10. ASSUME FixFails PROVE FInv'
  <2>1. Typed'
    BY <1>0, <1>10 DEF FixFails, Typed, Months
  <2>2. Kept'
    BY <1>0, <1>10 DEF FixFails, Kept
  <2> QED BY <2>1, <2>2 DEF FInv
<1>11. ASSUME NextMonth PROVE FInv'
  <2>1. now' \in FirstMonth..LastMonth /\ missed' \in 0..MaxMissed
    BY <1>0, <1>11, Bounds, Numbers DEF NextMonth, Typed
  <2>2. Typed'
    BY <1>0, <1>11, <2>1 DEF NextMonth, Typed, Months
  <2>3. Kept'
    BY <1>0, <1>11 DEF NextMonth, Kept
  <2> QED BY <2>2, <2>3 DEF FInv
<1>12. CASE UNCHANGED storeVars
  <2>1. Typed'
    BY <1>0, <1>12 DEF storeVars, Typed, Months
  <2>2. Kept'
    BY <1>0, <1>12 DEF storeVars, Kept
  <2> QED BY <2>1, <2>2 DEF FInv
<1> QED BY <1>1, <1>2, <1>3, <1>4, <1>5, <1>6, <1>7, <1>8, <1>9, <1>10, <1>11, <1>12 DEF StoreNext

\* Each variable has its type: in particular a row lies in a partition there is, or in the default
\* one, and was never converted with anything but a day's published rate or the constant.
THEOREM StoreTypes == StoreSpec => []StoreTypeOK
<1>1. FInv => StoreTypeOK
  BY DEF FInv, Typed, Kept, StoreTypeOK
<1> QED BY <1>1, InitFInv, StepFInv, PTL DEF StoreSpec

\* A frozen amount is in its column's currency and was converted at the nearest earlier rate known
\* at the time, or at the constant where only a later day of its batch has one: for any calendar,
\* any currencies and any order of batches, rates and backfills (currency_service.py:65-120).
THEOREM AmountsAreRight == StoreSpec => []FrozenIsRight
<1>1. FInv => FrozenIsRight
  BY DEF FInv, Kept, Sound, FrozenIsRight
<1> QED BY <1>1, InitFInv, StepFInv, PTL DEF StoreSpec

-----------------------------------------------------------------------------
(* Alerts, for any rules, projects and days.                                   *)

\* The ids of a day's alerts, wherever they are kept.
Told == history \cup DOMAIN notes \cup dismissed

\* A session is the one of the running check, which alerts of one rule of the day at a time.
CheckTyped ==
  /\ check = [on |-> check.on, todo |-> check.todo, loaded |-> check.loaded, telling |-> check.telling]
  /\ check.on \in BOOLEAN /\ (~check.on => check = NoCheck)
  /\ checked \in BOOLEAN /\ (check.on => checked)
  /\ quiet \in BOOLEAN
  /\ \A h \in check.telling : h \in Ids /\ check.telling = {h}

\* An alert is of a rule that has been, of a day whose check has begun, and of a rule that
\* the check of the day is done with.
Dated ==
  /\ dismissed \subseteq Ids
  /\ \A i \in Told : i[1] \in used /\ i[2] <= today /\ (~checked => i[2] < today)
  /\ \A r \in check.todo : <<r, today>> \notin Told

\* A deletion has read the alerts of its rule.
Detaching ==
  deletion # NoDeletion =>
    \E r \in used : deletion.of = {r} /\ deletion.ids \subseteq {h \in Ids : h[1] = r}

AlertsInv == AlertsTypeOK /\ AlertsAreShown /\ CheckTyped /\ Dated /\ Detaching

\* What an undisturbed check has settled, it has settled as the rules are.
Settled ==
  quiet /\ check.on =>
    /\ \A r \in DOMAIN check.loaded : r \in DOMAIN rule /\ check.loaded[r] = rule[r]
    /\ \A r \in DOMAIN rule :
         rule[r].active /\ r \notin check.todo => (Fires(rule[r]) <=> <<r, today>> \in DOMAIN notes)

\* The days of the run are numbers.
LEMMA DayNumbers ==
  /\ Days \subseteq Nat /\ Todays \subseteq Nat /\ Todays \subseteq Days /\ Todays # {}
  /\ \A r \in Rules : ShapesOf[r] \subseteq Shapes
BY AlertsOK

\* The smallest sets.
LEMMA Few == Cardinality({}) = 0 /\ \A x : Cardinality({x}) = 1
BY FS_EmptySet, FS_Singleton

\* The first day has nothing to tell.
LEMMA AlertsStart == AlertsInit => AlertsInv /\ Settled
<1> SUFFICES ASSUME AlertsInit PROVE AlertsInv /\ Settled
  OBVIOUS
<1> USE DEF AlertsInit
<1>1. today \in Todays
  BY DayNumbers, MinIs
<1>2. history = {} /\ DOMAIN notes = {} /\ dismissed = {} /\ DOMAIN check.loaded = {}
  BY DEF NoCheck
<1>4. AlertsTypeOK
  BY <1>1, <1>2, Few DEF AlertsTypeOK, NoCheck, NoDeletion
<1>5. AlertsAreShown
  BY <1>2 DEF AlertsAreShown
<1>6. CheckTyped
  BY DEF CheckTyped, NoCheck
<1>7. Dated /\ Detaching
  BY <1>2 DEF Dated, Detaching, Told, NoCheck
<1>8. Settled
  BY DEF Settled, NoCheck
<1> QED BY <1>4, <1>5, <1>6, <1>7, <1>8 DEF AlertsInv

\* A step of the session that writes nothing, but leaves a session of the day.
LEMMA Winding ==
  ASSUME AlertsInv, UNCHANGED <<today, tables, deletion>>, CheckTyped', checked => checked',
         (check'.todo) \subseteq check.todo, DOMAIN (check'.loaded) \subseteq check'.todo,
         check'.telling \subseteq check.telling
  PROVE  AlertsInv'
<1> USE DEF tables
<1>1. Cardinality(check'.telling) <= 1
  <2>1. CASE check'.telling = {}
    BY <2>1, Few
  <2>2. ASSUME NEW h \in check'.telling PROVE Cardinality(check'.telling) <= 1
    <3>1. check'.telling = {h}
      BY <2>2 DEF CheckTyped
    <3>2. Cardinality({h}) = 1
      BY Few
    <3> QED BY <3>1, <3>2
  <2> QED BY <2>1, <2>2
<1>2. AlertsTypeOK'
  BY <1>1 DEF AlertsInv, AlertsTypeOK
<1>3. AlertsAreShown'
  BY DEF AlertsInv, AlertsAreShown
<1>4. Dated' /\ Detaching'
  BY DEF AlertsInv, Dated, Detaching, Told
<1> QED BY <1>2, <1>3, <1>4 DEF AlertsInv

\* No session at all is one.
LEMMA Stopped ==
  ASSUME AlertsInv, UNCHANGED <<today, tables, checked, deletion, quiet>>, check' = NoCheck
  PROVE  AlertsInv'
<1>1. CheckTyped'
  BY DEF AlertsInv, CheckTyped, NoCheck
<1> QED BY <1>1, Winding DEF NoCheck

\* The check begins on the rules that are there.
LEMMA BeginInv == AlertsInv /\ Begin => AlertsInv'
<1> SUFFICES ASSUME AlertsInv, Begin PROVE AlertsInv'
  OBVIOUS
<1> DEFINE active == {r \in DOMAIN rule : rule[r].active}
<1> USE DEF Begin, tables
<1>1. /\ check' = [on |-> TRUE, todo |-> active, loaded |-> Only(rule, active), telling |-> {}]
      /\ DOMAIN Only(rule, active) = active /\ active \subseteq used
  BY DEF Only, AlertsInv, AlertsTypeOK
<1> HIDE DEF active
<1>2. CheckTyped'
  BY <1>1 DEF CheckTyped
<1>3. AlertsTypeOK'
  <2>1. Cardinality(check'.telling) <= 1 /\ check'.telling = {} /\ check'.todo = active
    BY <1>1, Few
  <2> HIDE DEF Begin
  <2>2. DOMAIN check'.loaded \subseteq check'.todo /\ check'.todo \subseteq used
    <3>1. check'.loaded = Only(rule, active) /\ check'.todo = active
      BY <1>1
    <3> QED BY <1>1, <3>1
  <2>3. UNCHANGED <<today, tables, deletion>>
    BY DEF Begin
  <2> QED BY <2>1, <2>2, <2>3 DEF AlertsInv, AlertsTypeOK
<1>4. AlertsAreShown' /\ Detaching'
  BY DEF AlertsInv, AlertsAreShown, Detaching
<1>5. Dated'
  <2>1. Told' = Told
    BY DEF Told
  <2>2. today \in Nat
    BY DayNumbers DEF AlertsInv, AlertsTypeOK
  <2>3. \A i \in Told : i[2] < today
    BY DEF AlertsInv, Dated
  <2>4. \A r \in check'.todo : <<r, today>> \notin Told
    BY <2>2, <2>3
  <2> QED BY <2>1, <2>3, <2>4 DEF AlertsInv, Dated
<1> QED BY <1>2, <1>3, <1>4, <1>5 DEF AlertsInv

\* The steps of the session that write nothing.
LEMMA WindingInv ==
  AlertsInv /\ ((\E r \in Rules : Pass(r)) \/ Tell \/ CheckBreaks \/ CheckFails \/ CheckEnds) => AlertsInv'
<1> USE DEF tables
<1>1. ASSUME AlertsInv, NEW r \in Rules, Pass(r) PROVE AlertsInv'
  <2>1. check' = [on |-> check.on, todo |-> check.todo \ {r},
                  loaded |-> Only(check.loaded, DOMAIN check.loaded \ {r}), telling |-> check.telling]
    BY <1>1 DEF Pass, AlertsInv, CheckTyped
  <2>2. CheckTyped'
    BY <1>1, <2>1 DEF CheckTyped, AlertsInv, Pass, Turn, NoCheck
  <2>3. DOMAIN check'.loaded = DOMAIN check.loaded \ {r} /\ DOMAIN check.loaded \subseteq check.todo
    BY <1>1, <2>1 DEF Only, AlertsInv, AlertsTypeOK
  <2> QED BY <1>1, <2>1, <2>2, <2>3, Winding DEF Pass
<1>2. ASSUME AlertsInv, Tell PROVE AlertsInv'
  <2>1. check' = [on |-> check.on, todo |-> check.todo, loaded |-> check.loaded, telling |-> {}]
    BY <1>2 DEF Tell, AlertsInv, CheckTyped
  <2>2. CheckTyped'
    BY <1>2, <2>1 DEF CheckTyped, AlertsInv, Tell
  <2> QED BY <1>2, <2>1, <2>2, Winding DEF Tell, AlertsInv, AlertsTypeOK
<1> QED BY <1>1, <1>2, Stopped DEF CheckBreaks, CheckFails, CheckEnds

\* A rule fires.
LEMMA TriggerInv == ASSUME AlertsInv, NEW r \in Rules, Trigger(r) PROVE AlertsInv'
<1> DEFINE i == <<r, today>>
<1> USE DEF Trigger, Turn
<1>1. /\ i \in Ids /\ i[1] = r /\ i[2] = today /\ today \in Nat /\ r \in check.todo /\ r \in DOMAIN rule
      /\ i \notin Told /\ check.on /\ checked
  BY DayNumbers DEF AlertsInv, AlertsTypeOK, Ids, Dated, CheckTyped
<1>2. /\ history' = history \cup {i} /\ DOMAIN notes' = DOMAIN notes \cup {i} /\ dismissed' = dismissed
      /\ notes'[i] = [linked |-> TRUE, read |-> FALSE]
      /\ \A n \in DOMAIN notes : notes'[n] = notes[n]
  BY <1>1 DEF Told
<1>3. check' = [on |-> TRUE, todo |-> check.todo \ {r}, loaded |-> <<>>, telling |-> {i}]
  BY <1>1 DEF AlertsInv, CheckTyped
<1>4. CheckTyped'
  <2> HIDE DEF i, Trigger
  <2>1. quiet' = quiet /\ checked' = checked /\ Ids' = Ids
    BY DEF Trigger, Ids
  <2> QED BY <1>1, <1>3, <2>1 DEF CheckTyped, AlertsInv
<1>5. AlertsTypeOK'
  <2>1. Cardinality(check'.telling) <= 1
    <3>1. Cardinality({i}) = 1
      BY Few
    <3> QED BY <1>3, <3>1
  <2>2. DOMAIN check'.loaded = {}
    BY <1>3
  <2> HIDE DEF Trigger
  <2> QED BY <1>1, <1>2, <1>3, <2>1, <2>2 DEF AlertsInv, AlertsTypeOK, Told, Trigger
<1>6. AlertsAreShown'
  BY <1>1, <1>2 DEF AlertsInv, AlertsAreShown
<1>7. Dated'
  <2>1. Told' = Told \cup {i}
    BY <1>2 DEF Told
  <2>2. \A q \in check'.todo : <<q, today>> # i
    BY <1>3
  <2>3. r \in used
    BY <1>1 DEF AlertsInv, AlertsTypeOK
  <2> QED BY <1>1, <1>3, <2>1, <2>2, <2>3 DEF AlertsInv, Dated
<1>8. Detaching'
  BY DEF AlertsInv, Detaching
<1> QED BY <1>4, <1>5, <1>6, <1>7, <1>8 DEF AlertsInv

\* The next day.
LEMMA NextDayInv == AlertsInv /\ NextDay => AlertsInv'
<1> SUFFICES ASSUME AlertsInv, NextDay PROVE AlertsInv'
  OBVIOUS
<1> USE DEF NextDay, tables
<1>1. today' \in Todays /\ today < today' /\ today \in Nat /\ today' \in Nat
  <2> DEFINE later == {d \in Todays : d > today}
  <2>1. later \in SUBSET Nat /\ later # {}
    BY DayNumbers
  <2>2. Min(later) \in later
    BY <2>1, MinIs
  <2> QED BY <2>2, DayNumbers DEF AlertsInv, AlertsTypeOK
<1>2. check = NoCheck /\ check' = NoCheck
  BY DEF AlertsInv, CheckTyped
<1>3. CheckTyped'
  BY <1>2 DEF AlertsInv, CheckTyped, NoCheck
<1>4. AlertsTypeOK'
  <2>1. history \subseteq {h \in Ids : h[1] \in DOMAIN rule /\ h[2] <= today}
    BY DEF AlertsInv, AlertsTypeOK
  <2>2. \A h \in Ids : h[2] \in Nat
    BY DayNumbers DEF Ids
  <2>3. history' \subseteq {h \in Ids : h[1] \in DOMAIN rule /\ h[2] <= today'}
    BY <1>1, <2>1, <2>2
  <2> QED BY <1>1, <1>2, <2>3 DEF AlertsInv, AlertsTypeOK, NoCheck
<1>5. AlertsAreShown' /\ Detaching'
  BY DEF AlertsInv, AlertsAreShown, Detaching
<1>6. Dated'
  <2>1. \A i \in Told : i[1] \in used /\ i[2] <= today /\ i[2] \in Nat
    <3>1. Told \subseteq Ids
      BY DEF Told, AlertsInv, AlertsTypeOK, Dated
    <3> QED BY <3>1, DayNumbers DEF AlertsInv, Dated, Ids
  <2>2. \A i \in Told : i[2] < today'
    BY <1>1, <2>1
  <2>3. Told' = Told /\ check'.todo = {}
    BY <1>2 DEF Told, NoCheck
  <2> HIDE DEF NextDay
  <2>4. used' = used /\ dismissed' = dismissed
    BY DEF NextDay
  <2>5. \A i \in Told' : i[1] \in used' /\ i[2] <= today' /\ i[2] < today'
    BY <1>1, <2>1, <2>2, <2>3, <2>4
  <2> QED BY <2>3, <2>4, <2>5 DEF AlertsInv, Dated, Ids
<1> QED BY <1>3, <1>4, <1>5, <1>6 DEF AlertsInv

\* A change of the billing, and notifications that are read or deleted, leave the ids of the
\* alerts where they are.
LEMMA RequestInv ==
  ASSUME AlertsInv, UNCHANGED <<today, rule, used, history, check, checked>>, quiet' \in BOOLEAN,
         ledger' \in Ledgers, Detaching',
         DOMAIN notes' \subseteq DOMAIN notes, dismissed' = dismissed \cup (DOMAIN notes \ DOMAIN notes'),
         \A n \in DOMAIN notes' : /\ notes'[n] \in [linked : BOOLEAN, read : BOOLEAN]
                                  /\ notes'[n].linked = notes[n].linked,
         Cardinality(deletion'.of) <= 1
  PROVE  AlertsInv'
<1>1. Told' = Told
  BY DEF Told
<1>2. AlertsTypeOK'
  BY DEF AlertsInv, AlertsTypeOK
<1>3. AlertsAreShown'
  BY DEF AlertsInv, AlertsAreShown
<1>4. CheckTyped'
  BY DEF AlertsInv, CheckTyped
<1>5. Dated'
  BY <1>1 DEF AlertsInv, AlertsTypeOK, Dated
<1> QED BY <1>2, <1>3, <1>4, <1>5 DEF AlertsInv

\* What a deletion has read stays of its rule.
LEMMA DetachingStays ==
  ASSUME AlertsInv, deletion' = deletion, used' = used PROVE Detaching' /\ Cardinality(deletion'.of) <= 1
BY DEF AlertsInv, AlertsTypeOK, Detaching, Ids

\* New billing.
LEMMA SyncInv == AlertsInv /\ Sync => AlertsInv'
<1>1. AlertsInv => \A n \in DOMAIN notes : notes[n] \in [linked : BOOLEAN, read : BOOLEAN]
  BY DEF AlertsInv, AlertsTypeOK
<1> QED BY <1>1, RequestInv, DetachingStays DEF Sync

\* Everything a request does to the notifications.
LEMMA NotesInv ==
  ASSUME AlertsInv, NEW u \in Users
  PROVE  /\ \A n \in DOMAIN notes : MarkRead(u, n) \/ DeleteNotification(u, n) => AlertsInv'
         /\ MarkAllRead(u) => AlertsInv'
         /\ \A onlyRead \in BOOLEAN : DeleteNotifications(u, onlyRead) => AlertsInv'
<1>1. ledger \in Ledgers /\ \A n \in DOMAIN notes : notes[n] \in [linked : BOOLEAN, read : BOOLEAN]
  BY DEF AlertsInv, AlertsTypeOK
<1>3. ASSUME NEW ns, notes' = Marked(ns), Request,
             UNCHANGED <<today, ledger, rule, used, history, dismissed, check, checked, deletion>>
      PROVE AlertsInv'
  <2>1. DOMAIN notes' = DOMAIN notes
    BY <1>3 DEF Marked
  <2>2. \A n \in DOMAIN notes' : notes'[n] = [notes[n] EXCEPT !.read = @ \/ n \in ns]
    BY <1>3 DEF Marked
  <2>3. \A n \in DOMAIN notes' : /\ notes'[n] \in [linked : BOOLEAN, read : BOOLEAN]
                                 /\ notes'[n].linked = notes[n].linked
    BY <1>1, <2>1, <2>2
  <2> QED BY <1>1, <1>3, <2>1, <2>3, RequestInv, DetachingStays DEF Request
<1>4. ASSUME NEW ns \in SUBSET DOMAIN notes, Request, Dismiss(ns) PROVE AlertsInv'
  <2>1. DOMAIN notes' = DOMAIN notes \ ns /\ \A n \in DOMAIN notes' : notes'[n] = notes[n]
    BY <1>4 DEF Dismiss, Only
  <2>2. DOMAIN notes \ DOMAIN notes' = ns
    BY <2>1
  <2> QED BY <1>1, <1>4, <2>1, <2>2, RequestInv, DetachingStays DEF Request, Dismiss
<1>5. ASSUME NEW n \in DOMAIN notes, MarkRead(u, n) \/ DeleteNotification(u, n) PROVE AlertsInv'
  BY <1>3, <1>4, <1>5 DEF MarkRead, DeleteNotification
<1>6. ASSUME MarkAllRead(u) PROVE AlertsInv'
  BY <1>3, <1>6 DEF MarkAllRead
<1>7. ASSUME NEW onlyRead \in BOOLEAN, DeleteNotifications(u, onlyRead) PROVE AlertsInv'
  <2>1. {n \in VisibleNotes(u) : onlyRead => notes[n].read} \in SUBSET DOMAIN notes
    BY DEF VisibleNotes
  <2> QED BY <1>4, <1>7, <2>1 DEF DeleteNotifications
<1> QED BY <1>5, <1>6, <1>7

\* A rule is created or updated.
LEMMA RulesInv ==
  ASSUME AlertsInv, NEW u \in Users, NEW r \in Rules, NEW s \in ShapesOf[r],
         CreateRule(u, r, s) \/ (r \in DOMAIN rule /\ UpdateRule(u, r, s))
  PROVE  AlertsInv'
<1>1. /\ UNCHANGED <<today, ledger, history, notes, dismissed, check, checked, deletion>> /\ quiet' = FALSE
      /\ used' = used \cup {r}
      /\ DOMAIN rule' = DOMAIN rule \cup {r}
      /\ \A q \in DOMAIN rule' : rule'[q] = IF q = r THEN s ELSE rule[q]
      /\ r \in DOMAIN rule \/ r \notin used
  <2>1. CASE CreateRule(u, r, s)
    BY <2>1 DEF CreateRule, Request
  <2>2. CASE r \in DOMAIN rule /\ UpdateRule(u, r, s)
    BY <2>2 DEF UpdateRule, Request, AlertsInv, AlertsTypeOK
  <2> QED BY <2>1, <2>2
<1>2. AlertsTypeOK'
  BY <1>1 DEF AlertsInv, AlertsTypeOK
<1>3. AlertsAreShown'
  BY <1>1 DEF AlertsInv, AlertsAreShown, Dated, Told
<1>4. CheckTyped'
  BY <1>1 DEF AlertsInv, CheckTyped
<1>5. Dated' /\ Detaching'
  BY <1>1 DEF AlertsInv, Dated, Told, Detaching
<1> QED BY <1>2, <1>3, <1>4, <1>5 DEF AlertsInv

\* The deletion of a rule: what it reads, and what it deletes.
LEMMA DeletionInv ==
  ASSUME AlertsInv
  PROVE  /\ \A u \in Users : \A r \in DOMAIN rule : DeleteBegins(u, r) => AlertsInv'
         /\ DeleteFails => AlertsInv'
         /\ DeleteRule => AlertsInv'
<1> USE DEF tables
<1>1. ASSUME NEW u \in Users, NEW r \in DOMAIN rule, DeleteBegins(u, r) PROVE AlertsInv'
  <2>1. deletion' = [of |-> {r}, ids |-> {h \in history : h[1] = r}] /\ quiet' = FALSE
    BY <1>1 DEF DeleteBegins, Request
  <2>2. Detaching'
    BY <1>1, <2>1 DEF Detaching, AlertsInv, AlertsTypeOK, DeleteBegins
  <2>3. Cardinality(deletion'.of) <= 1
    <3>1. Cardinality({r}) = 1
      BY Few
    <3> QED BY <2>1, <3>1
  <2>4. \A n \in DOMAIN notes : notes[n] \in [linked : BOOLEAN, read : BOOLEAN]
    BY DEF AlertsInv, AlertsTypeOK
  <2>5. ledger' \in Ledgers
    BY <1>1 DEF AlertsInv, AlertsTypeOK, DeleteBegins
  <2> QED BY <1>1, <2>1, <2>2, <2>3, <2>4, <2>5, RequestInv DEF DeleteBegins
<1>2. ASSUME DeleteFails PROVE AlertsInv'
  <2>1. Detaching' /\ Cardinality(deletion'.of) <= 1
    BY <1>2, Few DEF DeleteFails, Detaching, NoDeletion
  <2>2. \A n \in DOMAIN notes : notes[n] \in [linked : BOOLEAN, read : BOOLEAN]
    BY DEF AlertsInv, AlertsTypeOK
  <2> QED BY <1>2, <2>1, <2>2, RequestInv DEF DeleteFails, AlertsInv, AlertsTypeOK, CheckTyped
<1>3. ASSUME DeleteRule PROVE AlertsInv'
  <2>1. PICK r \in deletion.of :
          /\ \A h \in history : h[1] = r /\ h \in DOMAIN notes => h \in deletion.ids
          /\ rule' = Only(rule, DOMAIN rule \ {r})
          /\ history' = {h \in history : h[1] # r}
          /\ notes' = [n \in DOMAIN notes |->
                        IF n \in deletion.ids THEN [notes[n] EXCEPT !.linked = FALSE] ELSE notes[n]]
    BY <1>3 DEF DeleteRule
  <2>2. /\ UNCHANGED <<today, ledger, used, dismissed, check, checked>> /\ quiet' = FALSE
        /\ deletion' = NoDeletion
    BY <1>3 DEF DeleteRule
  <2>3. \A h \in deletion.ids : h \in Ids /\ h[1] = r
    <3>1. deletion # NoDeletion
      BY <2>1 DEF NoDeletion
    <3> QED BY <2>1, <3>1 DEF AlertsInv, Detaching
  <2>4. DOMAIN rule' = DOMAIN rule \ {r} /\ \A q \in DOMAIN rule' : rule'[q] = rule[q]
    BY <2>1 DEF Only
  <2>5. /\ DOMAIN notes' = DOMAIN notes
        /\ \A n \in DOMAIN notes :
             /\ notes[n] \in [linked : BOOLEAN, read : BOOLEAN]
             /\ notes'[n] \in [linked : BOOLEAN, read : BOOLEAN]
             /\ notes'[n].linked = (notes[n].linked /\ n \notin deletion.ids)
    BY <2>1 DEF AlertsInv, AlertsTypeOK
  <2>6. AlertsTypeOK'
    <3>1. Cardinality(deletion'.of) <= 1
      BY <2>2, Few DEF NoDeletion
    <3>2. history' \subseteq {h \in Ids : h[1] \in DOMAIN rule' /\ h[2] <= today}
      BY <2>1, <2>4 DEF AlertsInv, AlertsTypeOK
    <3>3. /\ DOMAIN rule' \subseteq used
          /\ \A q \in DOMAIN rule' : rule'[q] \in ShapesOf[q]
      BY <2>4 DEF AlertsInv, AlertsTypeOK
    <3>4. DOMAIN notes' \subseteq Ids \ dismissed
      BY <2>5 DEF AlertsInv, AlertsTypeOK
    <3> QED BY <2>2, <2>5, <3>1, <3>2, <3>3, <3>4 DEF AlertsInv, AlertsTypeOK
  <2>7. AlertsAreShown'
    <3>1. history' \subseteq DOMAIN notes' \cup dismissed'
      BY <2>1, <2>2, <2>5 DEF AlertsInv, AlertsAreShown
    <3>2. ASSUME NEW n \in DOMAIN notes'
          PROVE IF notes'[n].linked THEN n \in history' ELSE n[1] \notin DOMAIN rule'
      <4>1. CASE notes[n].linked /\ n \notin deletion.ids
        BY <2>1, <2>5, <3>2, <4>1 DEF AlertsInv, AlertsAreShown
      <4>2. CASE ~ notes[n].linked \/ n \in deletion.ids
        BY <2>3, <2>4, <2>5, <3>2, <4>2 DEF AlertsInv, AlertsAreShown
      <4> QED BY <4>1, <4>2
    <3> QED BY <3>1, <3>2 DEF AlertsAreShown
  <2>8. CheckTyped'
    BY <2>2 DEF AlertsInv, CheckTyped
  <2>9. Dated' /\ Detaching'
    BY <2>1, <2>2, <2>5 DEF AlertsInv, Dated, Told, Detaching
  <2> QED BY <2>6, <2>7, <2>8, <2>9 DEF AlertsInv
<1> QED BY <1>1, <1>2, <1>3

\* Every step keeps the invariant.
LEMMA AlertsStep == AlertsInv /\ [AlertsNext]_alertsVars => AlertsInv'
<1> SUFFICES ASSUME AlertsInv, [AlertsNext]_alertsVars PROVE AlertsInv'
  OBVIOUS
<1>1. CASE Checking
  BY <1>1, BeginInv, WindingInv, TriggerInv DEF Checking
<1>2. CASE NextDay
  BY <1>2, NextDayInv
<1>3. CASE Sync
  BY <1>3, SyncInv
<1>4. ASSUME NEW u \in Users, Serving(u) PROVE AlertsInv'
  <2>1. used \subseteq Rules /\ DOMAIN rule \subseteq used
    BY DEF AlertsInv, AlertsTypeOK
  <2>2. ASSUME NEW r \in Rules \ used, NEW s \in ShapesOf[r], CreateRule(u, r, s) PROVE AlertsInv'
    <3>1. CreateRule(u, r, s) \/ (r \in DOMAIN rule /\ UpdateRule(u, r, s))
      BY <2>2
    <3>2. r \in Rules
      OBVIOUS
    <3> QED BY <3>1, <3>2, RulesInv
  <2>3. ASSUME NEW r \in DOMAIN rule, NEW s \in ShapesOf[r], UpdateRule(u, r, s) PROVE AlertsInv'
    BY <2>1, <2>3, RulesInv
  <2>4. ASSUME NEW r \in DOMAIN rule, DeleteBegins(u, r) PROVE AlertsInv'
    BY <2>4, DeletionInv
  <2>5. CASE \/ \E n \in DOMAIN notes : MarkRead(u, n) \/ DeleteNotification(u, n)
             \/ MarkAllRead(u)
             \/ \E onlyRead \in BOOLEAN : DeleteNotifications(u, onlyRead)
    BY <2>5, NotesInv
  <2> QED BY <1>4, <2>2, <2>3, <2>4, <2>5 DEF Serving
<1>5. CASE DeleteRule \/ DeleteFails
  BY <1>5, DeletionInv
<1>6. CASE UNCHANGED alertsVars
  BY <1>6 DEF alertsVars, tables, AlertsInv, AlertsTypeOK, AlertsAreShown, CheckTyped, Dated, Detaching,
     Told, Ids
<1> QED BY <1>1, <1>2, <1>3, <1>4, <1>5, <1>6 DEF AlertsNext

\* The types of the rules, of the alerts and of the session of the check.
THEOREM AlertsTypes == AlertsSpec => []AlertsTypeOK
<1>1. AlertsInv => AlertsTypeOK
  BY DEF AlertsInv
<1> QED BY <1>1, AlertsStart, AlertsStep, PTL DEF AlertsSpec

\* No alert without its notification (api/alerts.py:172), for any rules and any billing, wherever
\* a check stops and however a deletion meets it.
THEOREM AlertsAlwaysShown == AlertsSpec => []AlertsAreShown
<1>1. AlertsInv => AlertsAreShown
  BY DEF AlertsInv
<1> QED BY <1>1, AlertsStart, AlertsStep, PTL DEF AlertsSpec

----------------------------------------------------------------------------
(* The check against the page of rules.                                     *)

\* What the checker adds up of a row.
InUsd == [c \in DOMAIN ledger |-> Usd(c)]

\* The totals are sums.
LEMMA TotalIs ==
  ASSUME NEW cells \in SUBSET DOMAIN ledger, IsFiniteSet(cells)
  PROVE  Total(cells) = Sum(InUsd, cells)
<1>1. Total(cells) = Sum([c \in cells |-> Usd(c)], cells)
  BY DEF Total, MapThenSumSet, MapThenFoldSet, Adds, Pick, Sum
<1> DEFINE f == [c \in cells |-> Usd(c)]
<1>2. \A c \in cells : f[c] = InUsd[c]
  BY DEF InUsd
<1> HIDE DEF f
<1>3. Sum(f, cells) = Sum(InUsd, cells)
  BY <1>2, SumSame
<1> QED BY <1>1, <1>3 DEF f

LEMMA BilledIs ==
  ASSUME NEW cells
  PROVE  AsBilled(cells) = Sum([c \in cells |-> ledger[c].cost], cells)
BY DEF AsBilled, MapThenSumSet, MapThenFoldSet, Adds, Pick, Sum

\* Of rows in dollars the page adds up the same.
LEMMA CostByIs ==
  ASSUME NEW ref, NEW days, NEW cells, IsFiniteSet(cells),
         cells = {c \in DOMAIN ledger : c.day \in days /\ Matches(c, ref)},
         \A c \in cells : Usd(c) = ledger[c].cost
  PROVE  CostBy(ref, days) = Sum(InUsd, cells)
<1>1. CostBy(ref, days) = Sum([c \in cells |-> ledger[c].cost], cells)
  BY BilledIs DEF CostBy
<1> DEFINE f == [c \in cells |-> ledger[c].cost]
<1>2. \A c \in cells : f[c] = InUsd[c]
  BY DEF InUsd
<1> HIDE DEF f
<1>3. Sum(f, cells) = Sum(InUsd, cells)
  BY <1>2, SumSame
<1> QED BY <1>1, <1>3 DEF f

\* The page's too, over the references.
LEMMA StatusCostIs ==
  ASSUME NEW s, NEW days
  PROVE  StatusCost(s, days) = Sum([ref \in s.refs |-> CostBy(ref, days)], s.refs)
BY DEF StatusCost, MapThenSumSet, MapThenFoldSet, Adds, Pick, Sum

\* Whether a rule fires is a matter of the billing and the day.
LEMMA FiresStays ==
  ASSUME NEW s, ledger' = ledger, today' = today
  PROVE  Fires(s)' <=> Fires(s)
BY DEF Fires, Total, MapThenSumSet, MapThenFoldSet, AtLeast, QuotaNear, Risen, GroupSpent, YearSpent,
   PeriodSpent, MonthSpent, CommitmentMissed, CommitmentDays, MonthTo, YearTo, FirstOfMonth, LastOfMonth,
   Counted, Selects, Usd, Rises, Matches, OfProject

\* A set of one element at most.
LEMMA OnlyOne ==
  ASSUME NEW S, IsFiniteSet(S), Cardinality(S) <= 1, NEW x \in S, NEW y \in S
  PROVE  x = y
<1>1. Cardinality(S) \in Nat
  BY FS_CardinalityType
<1>2. Cardinality(S) # 0
  BY FS_EmptySet
<1>3. Cardinality(S) = 1
  BY <1>1, <1>2
<1>4. \E z : S = {z}
  BY <1>3, FS_Singleton
<1> QED BY <1>4

\* What the rules and the billing are.
LEMMA RuleIs ==
  ASSUME AlertsInv, NEW r \in DOMAIN rule
  PROVE  /\ r \in Rules /\ rule[r] \in Shapes /\ IsFiniteSet(rule[r].refs)
         /\ IsFiniteSet(DOMAIN ledger) /\ \A c \in DOMAIN ledger : Usd(c) \in Nat /\ c.day \in Days
<1>1. r \in Rules /\ rule[r] \in ShapesOf[r] /\ ledger \in Ledgers
  BY DEF AlertsInv, AlertsTypeOK
<1>2. /\ r \in Rules /\ rule[r] \in Shapes /\ IsFiniteSet(rule[r].refs) /\ IsFiniteSet(DOMAIN ledger)
      /\ \A c \in DOMAIN ledger : ledger[c] \in [cost : Nat, usd : Nat \cup {NotFilled}] /\ c.day \in Days
  BY <1>1, AlertsOK
<1>3. \A c \in DOMAIN ledger : Usd(c) \in Nat
  BY <1>2 DEF Usd
<1> QED BY <1>2, <1>3

\* Where no row of the billing matches two references and all are in dollars, the totals of the
\* references are the total of what the rule counts.
LEMMA CostsAreTotal ==
  ASSUME AlertsInv, NEW r \in DOMAIN rule, Comparable(rule[r]), NEW days
  PROVE  LET cells == Counted(rule[r], days)
         IN  /\ StatusCost(rule[r], days) = Total(cells) /\ Total(cells) \in Nat
             /\ cells = {} => Total(cells) = 0
<1> DEFINE s == rule[r]
           cells == Counted(s, days)
           C == [ref \in s.refs |-> {c \in DOMAIN ledger : c.day \in days /\ Matches(c, ref)}]
           h == [ref \in s.refs |-> CostBy(ref, days)]
<1>1. /\ IsFiniteSet(s.refs) /\ s.refs # {} /\ IsFiniteSet(DOMAIN ledger)
      /\ \A c \in DOMAIN ledger : InUsd[c] \in Nat
      /\ \A c \in DOMAIN ledger : Cardinality({ref \in s.refs : Matches(c, ref)}) <= 1
      /\ \A c \in DOMAIN ledger : (\E ref \in s.refs : Matches(c, ref)) => Usd(c) = ledger[c].cost
      /\ s.kind \in Typeds => s.target = "project"
  BY RuleIs DEF Comparable, Posed, InDollars, OfProjects, InUsd
<1> HIDE DEF s
<1>2. cells = UNION {C[ref] : ref \in s.refs} /\ cells \subseteq DOMAIN ledger
  <2>1. cells = {c \in DOMAIN ledger : c.day \in days /\ \E ref \in s.refs : Matches(c, ref)}
    BY <1>1 DEF Counted, Selects
  <2>2. \A c : c \in UNION {C[ref] : ref \in s.refs} <=>
                c \in DOMAIN ledger /\ c.day \in days /\ \E ref \in s.refs : Matches(c, ref)
    <3>1. \A ref \in s.refs : C[ref] = {c \in DOMAIN ledger : c.day \in days /\ Matches(c, ref)}
      OBVIOUS
    <3> HIDE DEF C
    <3> QED BY <3>1
  <2> HIDE DEF cells, C
  <2> QED BY <2>1, <2>2
<1>3. \A ref \in s.refs : IsFiniteSet(C[ref]) /\ C[ref] \subseteq DOMAIN ledger
  BY <1>1, FS_Subset
<1>4. \A ref \in s.refs : h[ref] = Sum(InUsd, C[ref])
  <2> SUFFICES ASSUME NEW ref \in s.refs PROVE CostBy(ref, days) = Sum(InUsd, C[ref])
    OBVIOUS
  <2> DEFINE D == {c \in DOMAIN ledger : c.day \in days /\ Matches(c, ref)}
  <2>1. C[ref] = D /\ IsFiniteSet(D)
    BY <1>3
  <2>2. \A c \in D : Usd(c) = ledger[c].cost
    BY <1>1
  <2>3. CostBy(ref, days) = Sum(InUsd, D)
    BY <2>1, <2>2, CostByIs
  <2> QED BY <2>1, <2>3
<1>5. ASSUME NEW p \in s.refs, NEW q \in s.refs, p # q PROVE C[p] \cap C[q] = {}
  <2> SUFFICES ASSUME NEW c \in C[p] \cap C[q] PROVE FALSE
    OBVIOUS
  <2> DEFINE both == {ref \in s.refs : Matches(c, ref)}
  <2>1. c \in DOMAIN ledger /\ p \in both /\ q \in both
    OBVIOUS
  <2>2. IsFiniteSet(both) /\ Cardinality(both) <= 1
    BY <1>1, <2>1, FS_Subset
  <2> HIDE DEF both
  <2> QED BY <1>5, <2>1, <2>2, OnlyOne
<1>6. Sum(h, s.refs) = Sum(InUsd, cells)
  <2>1. \A ref \in s.refs : IsFiniteSet(C[ref]) /\ h[ref] = Sum(InUsd, C[ref])
    BY <1>3, <1>4
  <2>2. \A ref \in s.refs : \A x \in C[ref] : InUsd[x] \in Int
    BY <1>1, <1>3
  <2> HIDE DEF C, h, cells
  <2> QED BY <1>1, <1>2, <1>5, <2>1, <2>2, SumParts
<1>7. Total(cells) \in Nat /\ (cells = {} => Total(cells) = 0) /\ Total(cells) = Sum(InUsd, cells)
  <2>1. IsFiniteSet(cells)
    BY <1>1, <1>2, FS_Subset
  <2> HIDE DEF cells
  <2>2. Sum(InUsd, cells) \in Nat
    BY <1>1, <1>2, <2>1, SumNat
  <2>3. Total(cells) = Sum(InUsd, cells)
    BY <1>2, <2>1, TotalIs
  <2> QED BY <2>1, <2>2, <2>3, SumIs
<1>8. StatusCost(s, days) = Total(cells)
  BY <1>6, <1>7, StatusCostIs
<1> QED BY <1>7, <1>8 DEF s

\* Without billing of days to come, a month or a year to date is all of it.
LEMMA NothingToCome ==
  ASSUME AlertsInv, NEW r \in DOMAIN rule, Comparable(rule[r])
  PROVE  /\ Counted(rule[r], MonthTo(today)) = Counted(rule[r], ThisMonth)
         /\ Counted(rule[r], YearTo(today)) = Counted(rule[r], ThisYear)
BY DEF Comparable, Posed, Counted, MonthTo, ThisMonth, YearTo, ThisYear

\* The two answers are one.
LEMMA FiresIsTriggered ==
  ASSUME AlertsInv, NEW r \in DOMAIN rule, Comparable(rule[r])
  PROVE  Fires(rule[r]) <=> StatusTriggered(rule[r])
<1> DEFINE s == rule[r]
<1> SUFFICES Fires(s) <=> StatusTriggered(s)
  OBVIOUS
<1>1. s \in Shapes /\ s.limit \in Nat /\ s.limit > 0 /\ s.refs # {}
  BY RuleIs DEF Shapes, Comparable, Posed
<1>2. \A days : /\ StatusCost(s, days) = Total(Counted(s, days)) /\ Total(Counted(s, days)) \in Nat
                /\ Counted(s, days) = {} => Total(Counted(s, days)) = 0
  BY CostsAreTotal
<1>3. /\ Counted(s, MonthTo(today)) = Counted(s, ThisMonth)
      /\ Counted(s, YearTo(today)) = Counted(s, ThisYear)
  BY NothingToCome
<1>4. today \in Nat /\ today \in Days
  BY DayNumbers DEF AlertsInv, AlertsTypeOK
<1>5. /\ s.kind = "monthly_minimum_commitment" =>
           LastOfMonth(today) /\ Counted(s, MonthTo(today)) # {}
      /\ s.kind = "custom_period_budget_multi" => s.days # {}
      /\ NotRoundedUp(s)
  BY DEF Comparable, Posed
<1> HIDE DEF s
<1>6. CASE s.kind = "daily_absolute"
  <2> DEFINE cells == Counted(s, {today - 1})
             total == Total(cells)
             cost == StatusCost(s, {today - 1})
  <2>1. Fires(s) <=> cells # {} /\ total >= s.limit
    BY <1>6 DEF Fires, AtLeast
  <2>2. StatusTriggered(s) <=> cost >= s.limit
    BY <1>6 DEF StatusTriggered
  <2>3. cost = total /\ total \in Nat /\ (cells = {} => total = 0)
    BY <1>2
  <2> HIDE DEF cells, total, cost
  <2> QED BY <1>1, <2>1, <2>2, <2>3
<1>7. CASE s.kind = "monthly_budget"
  <2> DEFINE total == Total(Counted(s, ThisMonth))
  <2>1. Fires(s) <=> Counted(s, ThisMonth) # {} /\ total >= s.limit
    BY <1>7, <1>3 DEF Fires, MonthSpent, AtLeast
  <2>2. StatusTriggered(s) <=> StatusCost(s, ThisMonth) >= s.limit
    BY <1>7 DEF StatusTriggered
  <2>3. StatusCost(s, ThisMonth) = total /\ total \in Nat /\ (Counted(s, ThisMonth) = {} => total = 0)
    BY <1>2
  <2> HIDE DEF total
  <2> QED BY <1>1, <1>3, <1>5, <1>7, <2>1, <2>2, <2>3
<1>8. CASE s.kind = "monthly_budget_multi"
  <2> DEFINE total == Total(Counted(s, ThisMonth))
  <2>1. Fires(s) <=> total >= s.limit
    BY <1>8, <1>1, <1>3 DEF Fires, GroupSpent
  <2>2. StatusTriggered(s) <=> StatusCost(s, ThisMonth) >= s.limit
    BY <1>8 DEF StatusTriggered
  <2>3. StatusCost(s, ThisMonth) = total /\ total \in Nat /\ (Counted(s, ThisMonth) = {} => total = 0)
    BY <1>2
  <2> HIDE DEF total
  <2> QED BY <1>1, <1>3, <1>5, <1>8, <2>1, <2>2, <2>3
<1>9. CASE s.kind = "daily_increase_pct"
  <2> DEFINE before == Counted(s, {today - 2})
             after == Counted(s, {today - 1})
             prev == Total(before)
             curr == Total(after)
  <2>1. /\ StatusCost(s, {today - 2}) = prev /\ prev \in Nat /\ (before = {} => prev = 0)
        /\ StatusCost(s, {today - 1}) = curr /\ curr \in Nat /\ (after = {} => curr = 0)
    BY <1>2
  <2>2. Fires(s) <=> before # {} /\ after # {} /\ prev > 0 /\ 100 * (curr - prev) >= s.limit * prev
    BY <1>9 DEF Fires, Risen, Rises
  <2>9. RisesRounded(prev, curr, s.limit) => Rises(prev, curr, s.limit)
    BY <1>5, <1>9 DEF NotRoundedUp
  <2>10. StatusTriggered(s) <=> IF prev > 0 THEN RisesRounded(prev, curr, s.limit) ELSE 0 >= s.limit
    BY <1>9, <2>1 DEF StatusTriggered
  <2> HIDE DEF before, after, prev, curr
  <2>11. Rises(prev, curr, s.limit) => RisesRounded(prev, curr, s.limit)
    <3> DEFINE part == s.limit * prev
    <3>1. part \in Int /\ (200 * s.limit - 1) * prev = 200 * part - prev
      BY <1>1, <2>1
    <3> HIDE DEF part
    <3>2. 100 * (curr - prev) >= part => 20000 * (curr - prev) >= 200 * part - prev
      BY <2>1, <3>1
    <3> QED BY <3>1, <3>2 DEF Rises, RisesRounded, part
  <2>3. StatusTriggered(s) <=> IF prev > 0 THEN 100 * (curr - prev) >= s.limit * prev ELSE 0 >= s.limit
    BY <2>9, <2>10, <2>11 DEF Rises
  <2>4. s.limit * prev \in Int /\ (prev > 0 => s.limit * prev > 0)
    BY <1>1, <2>1
  <2>5. curr = 0 /\ prev > 0 => ~ (100 * (curr - prev) >= s.limit * prev)
    BY <2>1, <2>4
  <2>6. prev > 0 => (Fires(s) <=> 100 * (curr - prev) >= s.limit * prev)
    BY <2>1, <2>2, <2>5
  <2>7. prev > 0 => (StatusTriggered(s) <=> 100 * (curr - prev) >= s.limit * prev)
    BY <2>3
  <2>8. ~ (prev > 0) => ~ Fires(s) /\ ~ StatusTriggered(s)
    BY <1>1, <2>2, <2>3
  <2> QED BY <2>6, <2>7, <2>8
<1>10. CASE s.kind = "monthly_minimum_commitment"
  <2> DEFINE total == Total(Counted(s, ThisMonth))
  <2>1. ~ FirstOfMonth(today)
    BY <1>4, <1>5, <1>10, AlertsOK DEF FirstOfMonth, LastOfMonth
  <2>2. CommitmentDays = MonthTo(today)
    BY <1>5, <1>10, <2>1 DEF CommitmentDays
  <2>3. Fires(s) <=> Counted(s, ThisMonth) # {} /\ total < s.limit
    BY <1>3, <1>10, <2>2 DEF Fires, CommitmentMissed
  <2>4. StatusTriggered(s) <=> StatusCost(s, ThisMonth) < s.limit
    BY <1>10 DEF StatusTriggered
  <2>5. StatusCost(s, ThisMonth) = total
    BY <1>2
  <2> QED BY <1>3, <1>5, <1>10, <2>3, <2>4, <2>5
<1>11. CASE s.kind = "account_lifetime_quota"
  <2> DEFINE total == Total(Counted(s, Days))
  <2>1. Fires(s) <=> 10 * total >= 9 * s.limit
    BY <1>11, <1>1 DEF Fires, QuotaNear
  <2>2. StatusTriggered(s) <=> 10 * StatusCost(s, Days) >= 9 * s.limit
    BY <1>11 DEF StatusTriggered
  <2>3. StatusCost(s, Days) = total /\ total \in Nat /\ (Counted(s, Days) = {} => total = 0)
    BY <1>2
  <2> HIDE DEF total
  <2> QED BY <1>1, <1>3, <1>5, <1>11, <2>1, <2>2, <2>3
<1>12. CASE s.kind = "yearly_budget_multi"
  <2> DEFINE total == Total(Counted(s, ThisYear))
  <2>1. Fires(s) <=> total >= s.limit
    BY <1>12, <1>1, <1>3 DEF Fires, YearSpent, GroupSpent
  <2>2. StatusTriggered(s) <=> StatusCost(s, ThisYear) >= s.limit
    BY <1>12 DEF StatusTriggered
  <2>3. StatusCost(s, ThisYear) = total /\ total \in Nat /\ (Counted(s, ThisYear) = {} => total = 0)
    BY <1>2
  <2> HIDE DEF total
  <2> QED BY <1>1, <1>3, <1>5, <1>12, <2>1, <2>2, <2>3
<1>13. CASE s.kind = "custom_period_budget_multi"
  <2> DEFINE total == Total(Counted(s, s.days))
  <2>1. Fires(s) <=> total >= s.limit
    BY <1>13, <1>1, <1>5 DEF Fires, PeriodSpent, GroupSpent
  <2>2. StatusTriggered(s) <=> StatusCost(s, s.days) >= s.limit
    BY <1>13 DEF StatusTriggered
  <2>3. StatusCost(s, s.days) = total /\ total \in Nat /\ (Counted(s, s.days) = {} => total = 0)
    BY <1>2
  <2> HIDE DEF total
  <2> QED BY <1>1, <1>3, <1>5, <1>13, <2>1, <2>2, <2>3
<1>14. s.kind \in Singles \cup Multis
  BY <1>1 DEF Shapes
<1> QED
  BY <1>6, <1>7, <1>8, <1>9, <1>10, <1>11, <1>12, <1>13, <1>14 DEF Singles, Multis, Typeds

\* What a request, a deletion, new billing or a session that ends leaves is not at issue.
LEMMA Unsettled == (~ quiet' \/ check' = NoCheck) => Settled'
BY DEF Settled, NoCheck

\* An undisturbed check settles each rule as it is.
LEMMA SettledStep == AlertsInv /\ Settled /\ [AlertsNext]_alertsVars => Settled'
<1> SUFFICES ASSUME AlertsInv, Settled, [AlertsNext]_alertsVars PROVE Settled'
  OBVIOUS
<1> USE DEF tables
<1>1. CASE Begin
  <2> DEFINE active == {r \in DOMAIN rule : rule[r].active}
  <2>1. check' = [on |-> TRUE, todo |-> active, loaded |-> Only(rule, active), telling |-> {}]
        /\ rule' = rule
    BY <1>1 DEF Begin
  <2>2. \A r \in DOMAIN check'.loaded : r \in DOMAIN rule /\ check'.loaded[r] = rule[r]
    BY <2>1 DEF Only
  <2>3. \A r \in DOMAIN rule : rule[r].active => r \in check'.todo
    BY <2>1
  <2> QED BY <2>1, <2>2, <2>3 DEF Settled
<1>2. ASSUME NEW r \in Rules, Pass(r) PROVE Settled'
  <2>1. check' = [on |-> check.on, todo |-> check.todo \ {r},
                  loaded |-> Only(check.loaded, DOMAIN check.loaded \ {r}), telling |-> check.telling]
    BY <1>2 DEF Pass, AlertsInv, CheckTyped
  <2>2. /\ UNCHANGED <<today, ledger, rule, notes, quiet>> /\ check.on
        /\ r \in check.todo /\ ~ Fires(Seen(r)) /\ (r \in DOMAIN check.loaded \/ r \in DOMAIN rule)
    BY <1>2 DEF Pass, Turn, Known
  <2>3. /\ DOMAIN check'.loaded = DOMAIN check.loaded \ {r}
        /\ \A q \in DOMAIN check'.loaded : check'.loaded[q] = check.loaded[q]
    BY <2>1 DEF Only
  <2> SUFFICES ASSUME quiet PROVE Settled'
    BY <2>2 DEF Settled
  <2>4. Seen(r) = rule[r] /\ r \in DOMAIN rule
    BY <2>2 DEF Seen, Settled
  <2>5. <<r, today>> \notin DOMAIN notes
    BY <2>2 DEF AlertsInv, Dated, Told
  <2>6. ASSUME NEW q \in DOMAIN rule, rule[q].active, q \notin check'.todo
        PROVE Fires(rule[q]) <=> <<q, today>> \in DOMAIN notes
    BY <2>1, <2>2, <2>4, <2>5, <2>6 DEF Settled
  <2>7. \A q \in DOMAIN rule : Fires(rule[q])' <=> Fires(rule[q])
    BY <2>2, FiresStays
  <2>8. \A q \in DOMAIN check'.loaded : q \in DOMAIN rule /\ check'.loaded[q] = rule[q]
    BY <2>2, <2>3 DEF Settled
  <2> QED BY <2>2, <2>6, <2>7, <2>8 DEF Settled
<1>3. ASSUME NEW r \in Rules, Trigger(r) PROVE Settled'
  <2>1. check' = [on |-> check.on, todo |-> check.todo \ {r}, loaded |-> <<>>, telling |-> {<<r, today>>}]
    BY <1>3 DEF Trigger, AlertsInv, CheckTyped
  <2>2. /\ UNCHANGED <<today, ledger, rule, quiet>> /\ check.on
        /\ r \in check.todo /\ Fires(Seen(r)) /\ r \in DOMAIN rule
        /\ DOMAIN notes' = DOMAIN notes \cup {<<r, today>>}
    BY <1>3 DEF Trigger, Turn
  <2>3. DOMAIN check'.loaded = {}
    BY <2>1
  <2> SUFFICES ASSUME quiet PROVE Settled'
    BY <2>2 DEF Settled
  <2>4. Seen(r) = rule[r]
    BY <2>2 DEF Seen, Settled
  <2>5. ASSUME NEW q \in DOMAIN rule, rule[q].active, q \notin check'.todo
        PROVE Fires(rule[q]) <=> <<q, today>> \in DOMAIN notes'
    BY <2>1, <2>2, <2>4, <2>5 DEF Settled
  <2>6. \A q \in DOMAIN rule : Fires(rule[q])' <=> Fires(rule[q])
    BY <2>2, FiresStays
  <2> QED BY <2>2, <2>3, <2>5, <2>6 DEF Settled
<1>4. CASE Tell \/ DeleteFails \/ UNCHANGED alertsVars
  <2>1. /\ UNCHANGED <<today, ledger, rule, notes, quiet>> /\ check'.on = check.on
        /\ check'.todo = check.todo /\ check'.loaded = check.loaded
    BY <1>4 DEF Tell, DeleteFails, alertsVars, AlertsInv, CheckTyped
  <2>2. \A q \in DOMAIN rule : Fires(rule[q])' <=> Fires(rule[q])
    BY <2>1, FiresStays
  <2> QED BY <2>1, <2>2 DEF Settled
<1>5. CASE CheckBreaks \/ CheckFails \/ CheckEnds \/ NextDay
  BY <1>5, Unsettled DEF CheckBreaks, CheckFails, CheckEnds, NextDay, AlertsInv, CheckTyped
<1>6. CASE Sync \/ DeleteRule
  BY <1>6, Unsettled DEF Sync, DeleteRule
<1>7. ASSUME NEW u \in Users, Serving(u) PROVE Settled'
  <2>1. Request => ~ quiet'
    BY DEF Request
  <2> QED BY <1>7, <2>1, Unsettled DEF Serving, CreateRule, UpdateRule, DeleteBegins, MarkRead,
       DeleteNotification, MarkAllRead, DeleteNotifications
<1> QED BY <1>1, <1>2, <1>3, <1>4, <1>5, <1>6, <1>7 DEF AlertsNext, Checking

\* A user who is shown a rule is shown its alerts.
LEMMA ShownWithRule ==
  ASSUME NEW u \in Users, NEW r \in StatusRules(u)
  PROVE  /\ r \in DOMAIN rule /\ rule[r].active
         /\ <<r, today>> \in VisibleNotes(u) <=> <<r, today>> \in DOMAIN notes
<1>1. r \in VisibleRules(u) /\ r \in DOMAIN rule /\ rule[r].active
  BY DEF StatusRules, VisibleRules
<1> QED BY <1>1 DEF VisibleNotes

\* A check that ends undisturbed has alerted exactly the rules of which the page says that they
\* are triggered (api/alerts.py:512 against alert_service.py:80): for any ledger, any calendar
\* and any rules that can be compared, although the one counts each row once, in dollars, and the
\* other adds up a total for each reference, as billed.  The rows of a comparable rule are in
\* dollars, it is about projects, and no rise of it is one that the page rounds up.
THEOREM AlertsAreOfTheStatus == AlertsSpec => AlertsMatchStatus
<1>1. AlertsInv /\ Settled /\ [AlertsNext]_alertsVars =>
        [CheckEnds /\ quiet =>
           \A u \in Users : \A r \in StatusRules(u) : Comparable(rule[r]) =>
              Agrees(u, r)]_alertsVars
  <2> SUFFICES ASSUME AlertsInv, Settled, CheckEnds, quiet,
                      NEW u \in Users, NEW r \in StatusRules(u), Comparable(rule[r])
               PROVE  Agrees(u, r)
    OBVIOUS
  <2>1. /\ r \in DOMAIN rule /\ rule[r].active
        /\ <<r, today>> \in VisibleNotes(u) <=> <<r, today>> \in DOMAIN notes
    BY ShownWithRule
  <2>2. Fires(rule[r]) <=> <<r, today>> \in DOMAIN notes
    BY <2>1 DEF Settled, CheckEnds
  <2>3. Fires(rule[r]) <=> StatusTriggered(rule[r])
    BY <2>1, FiresIsTriggered
  <2> QED BY <2>1, <2>2, <2>3 DEF Agrees
<1> QED BY <1>1, AlertsStart, AlertsStep, SettledStep, PTL DEF AlertsSpec, AlertsMatchStatus
=============================================================================
