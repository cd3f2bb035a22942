---------------------------- MODULE BillingSync ----------------------------
(***************************************************************************)
(* What a sync does to the billing tables: collect rows from the cloud,      *)
(* store them in billing_summary (upsert_billing_rows), and rebuild          *)
(* billing_daily_summary for the same days and ALL sources                   *)
(* (refresh_daily_summary).                                                  *)
(*                                                                         *)
(* PostgreSQL runs each transaction at READ COMMITTED: every statement reads *)
(* the rows committed when it starts.  So a DELETE is two steps here, its    *)
(* snapshot and the moment it takes effect on what is left of those rows;    *)
(* rows another transaction inserts in between survive it.  Which row is     *)
(* which is told by the task that inserted it.  Amounts are kept apart, not  *)
(* added up: a total is the set of its parts.                                *)
(***************************************************************************)
EXTENDS Naturals

CONSTANTS
    Sources, Days, Keys,
    Tasks,
    SourceOf,    \* the source of a task
    RangeOf,     \* the days of a task
    Kind,        \* "rolling" (daily), "replace" (by month), "refresh" (API)
    MaxAmount,   \* bound: amounts are 1..MaxAmount, 0 stands for no row
    Nobody       \* inserter of a row that is not there

ASSUME ConstantsOK ==
    /\ SourceOf \in [Tasks -> Sources]
    /\ RangeOf \in [Tasks -> SUBSET Days]
    /\ Kind \in [Tasks -> {"rolling", "replace", "refresh"}]
    /\ MaxAmount \in Nat
    /\ Nobody \notin Tasks

Lines   == Days \X Keys             \* what a provider bills a source for
Cells   == Sources \X Days \X Keys   \* the unique key of billing_summary
Groups  == Sources \X Days          \* that of billing_daily_summary (one project)
Amounts == 0 .. MaxAmount
Parts   == SUBSET (Keys \X Amounts)
Feeds   == [Lines -> Amounts]

VARIABLES
    billing,   \* billing_summary
    summary,   \* billing_daily_summary
    pc,
    rows,      \* what a task collected
    doomed,    \* the rows the DELETE of a task has seen: <<key, inserter>>
    computed   \* what the INSERT ... SELECT of a task has read

vars == <<billing, summary, pc, rows, doomed, computed>>

NoRow   == [by |-> Nobody, amount |-> 0]
NoTotal == [by |-> Nobody, parts |-> {}]
NoFeed  == [x \in Lines |-> 0]
NoRead  == [g \in Groups |-> {}]

Working == {"collected", "deleting", "stored", "refreshing", "selected"}
Over    == {"done", "failed", "unrefreshed"}

TypeOK ==
    /\ billing \in [Cells -> [by : Tasks \cup {Nobody}, amount : Amounts]]
    /\ summary \in [Groups -> [by : Tasks \cup {Nobody}, parts : Parts]]
    /\ pc \in [Tasks -> {"idle"} \cup Working \cup Over]
    /\ rows \in [Tasks -> Feeds]
    /\ doomed \in [Tasks -> SUBSET ((Cells \cup Groups) \X Tasks)]
    /\ computed \in [Tasks -> [Groups -> Parts]]

Init ==
    /\ billing = [c \in Cells |-> NoRow]
    /\ summary = [g \in Groups |-> NoTotal]
    /\ pc = [t \in Tasks |-> "idle"]
    /\ rows = [t \in Tasks |-> NoFeed]
    /\ doomed = [t \in Tasks |-> {}]
    /\ computed = [t \in Tasks |-> NoRead]

-----------------------------------------------------------------------------
Goto(t, l) == pc' = [pc EXCEPT ![t] = l]

\* The parts a group has in billing_summary.
PartsOf(g) == {<<k, billing[<<g[1], g[2], k>>].amount>> :
                 k \in {k \in Keys : billing[<<g[1], g[2], k>>].amount > 0}}

InRange(t, g) == g[2] \in RangeOf[t]
Scope(t) == {c \in Cells : c[1] = SourceOf[t] /\ c[2] \in RangeOf[t]}

\* collector.collect_billing over the range of the task.  Providers restate their
\* data (late costs, corrections, renamed products): it may return anything.
Collect(t) ==
    /\ pc[t] = "idle"
    /\ Kind[t] # "refresh"
    /\ \E f \in Feeds :
          /\ \A x \in Lines : f[x] > 0 => x[1] \in RangeOf[t]
          /\ rows' = [rows EXCEPT ![t] = f]
    /\ Goto(t, "collected")
    /\ UNCHANGED <<billing, summary, doomed, computed>>

\* Mutant of ReplaceDelete: the rolling sync replaces its range as well.
DeleteAlways(t) ==
    /\ pc[t] = "collected"
    /\ doomed' = [doomed EXCEPT ![t] =
                    {<<c, billing[c].by>> : c \in {c \in Scope(t) : billing[c].amount > 0}}]
    /\ Goto(t, "deleting")
    /\ UNCHANGED <<billing, summary, rows, computed>>

\* upsert_billing_rows with a replace_scope starts by deleting the range.
ReplaceDelete(t) ==
    /\ pc[t] = "collected"
    /\ Kind[t] = "replace"
    /\ doomed' = [doomed EXCEPT ![t] =
                    {<<c, billing[c].by>> : c \in {c \in Scope(t) : billing[c].amount > 0}}]
    /\ Goto(t, "deleting")
    /\ UNCHANGED <<billing, summary, rows, computed>>

\* The insert, and the commit: a row that is still there on the same unique key
\* is updated in place (ON CONFLICT DO UPDATE).  Without rows and without a
\* scope upsert_billing_rows returns at once.
Collected(t, c) == IF c \in Scope(t) THEN rows[t][<<c[2], c[3]>>] ELSE 0

Spared(t, c) == IF <<c, billing[c].by>> \in doomed[t] THEN NoRow ELSE billing[c]

\* Mutant of Merged: a conflict adds to the cost that is there.
MergedAdding(t, c) ==
    IF Collected(t, c) > 0
    THEN [by     |-> IF Spared(t, c).amount > 0 THEN billing[c].by ELSE t,
          amount |-> Spared(t, c).amount + Collected(t, c)]
    ELSE Spared(t, c)

Merged(t, c) ==
    IF Collected(t, c) > 0
    THEN [by     |-> IF Spared(t, c).amount > 0 THEN billing[c].by ELSE t,
          amount |-> Collected(t, c)]
    ELSE Spared(t, c)

Merge(t) ==
    /\ \/ pc[t] = "collected" /\ Kind[t] = "rolling"
       \/ pc[t] = "deleting"
    /\ billing' = [c \in Cells |-> Merged(t, c)]
    /\ rows' = [rows EXCEPT ![t] = NoFeed]
    /\ doomed' = [doomed EXCEPT ![t] = {}]
    /\ Goto(t, "stored")
    /\ UNCHANGED <<summary, computed>>

\* POST /api/sync/refresh-summary goes straight to the summary.
AskRefresh(t) ==
    /\ pc[t] = "idle"
    /\ Kind[t] = "refresh"
    /\ Goto(t, "stored")
    /\ UNCHANGED <<billing, summary, rows, doomed, computed>>

\* refresh_daily_summary deletes the days, whatever the source ...
RefreshDelete(t) ==
    /\ pc[t] = "stored"
    /\ doomed' = [doomed EXCEPT ![t] =
                    {<<g, summary[g].by>> : g \in {g \in Groups : InRange(t, g) /\ summary[g].parts # {}}}]
    /\ Goto(t, "refreshing")
    /\ UNCHANGED <<billing, summary, rows, computed>>

\* ... the DELETE waits for a transaction that has deleted some of its rows and
\* not committed, and once it is through the INSERT reads billing_summary ...
StillThere(r) == r[1] \in Groups /\ summary[r[1]].by = r[2]

RefreshSelect(t) ==
    /\ pc[t] = "refreshing"
    /\ \A u \in Tasks \ {t} : pc[u] = "selected" =>
          ~ \E r \in doomed[t] \cap doomed[u] : StillThere(r)
    /\ computed' = [computed EXCEPT ![t] =
                      [g \in Groups |-> IF InRange(t, g) THEN PartsOf(g) ELSE {}]]
    /\ Goto(t, "selected")
    /\ UNCHANGED <<billing, summary, rows, doomed>>

\* ... and writes the totals, unless a total that the DELETE has not seen is in
\* the way: then uix_daily_summary_dedup raises, the transaction is rolled back
\* and the caller logs a warning.
Left(t, g) == IF <<g, summary[g].by>> \in doomed[t] THEN NoTotal ELSE summary[g]

\* Mutant of Clash: an insert that overwrites (ON CONFLICT DO UPDATE).
NoClash(t) == FALSE

Clash(t) == \E g \in Groups : computed[t][g] # {} /\ Left(t, g).parts # {}

Leave(t, l) ==
    /\ Goto(t, l)
    /\ doomed' = [doomed EXCEPT ![t] = {}]
    /\ computed' = [computed EXCEPT ![t] = NoRead]
    /\ rows' = [rows EXCEPT ![t] = NoFeed]

RefreshCommit(t) ==
    /\ pc[t] = "selected"
    /\ ~ Clash(t)
    /\ summary' = [g \in Groups |-> IF computed[t][g] = {} THEN Left(t, g)
                                    ELSE [by |-> t, parts |-> computed[t][g]]]
    /\ Leave(t, "done")
    /\ UNCHANGED <<billing>>

\* A clash, a lost connection, a deadlock, the soft or the hard time limit: the
\* open transaction is rolled back.  Before the commit of Merge the sync fails;
\* after it the exception is swallowed, or the process is gone.
Abort(t) ==
    /\ \/ pc[t] \in {"collected", "deleting"} /\ Leave(t, "failed")
       \/ pc[t] \in {"stored", "refreshing", "selected"} /\ Leave(t, "unrefreshed")
    /\ UNCHANGED <<billing, summary>>

Step(t) ==
    \/ Collect(t) \/ ReplaceDelete(t) \/ Merge(t) \/ AskRefresh(t) \/ RefreshDelete(t)
    \/ RefreshSelect(t) \/ RefreshCommit(t) \/ Abort(t)

Next == \E t \in Tasks : Step(t)

Spec == Init /\ [][Next]_vars

-----------------------------------------------------------------------------
\* Where the summary does not say what billing_summary says.
Drift == {g \in Groups : summary[g].parts # PartsOf(g)}

\* The tasks that have changed the billing and not rebuilt the summary (yet).
Owing(day) == {t \in Tasks : /\ Kind[t] # "refresh"
                             /\ pc[t] \in {"stored", "refreshing", "selected", "unrefreshed"}
                             /\ day \in RangeOf[t]}

\* The summary of a day differs from its billing only while a sync owes the day
\* a refresh, or where the billing is gone altogether: the unique constraint
\* turns every other race of two refreshes into the failure of one of them, so
\* the failures that sync_tasks.py:140-143 swallows are the only other cause.
DriftIsOwed == \A g \in Drift : Owing(g[2]) # {} \/ PartsOf(g) = {}

\* A rolling sync never takes a row away, whatever the cloud returns
\* ("避免上游偶发空返回时误删好数据", sync_service.py:190).
RollingKeeps ==
    [][\A t \in Tasks : Kind[t] = "rolling" /\ Step(t) =>
          \A c \in Cells : billing[c].amount > 0 => billing'[c].amount > 0]_vars
=============================================================================
