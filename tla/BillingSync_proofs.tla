------------------------- MODULE BillingSync_proofs -------------------------
(***************************************************************************)
(* The summary follows the billing: theorems about BillingSync for any      *)
(* sources, days, tasks and amounts.                                         *)
(***************************************************************************)
EXTENDS BillingSync, TLAPS

\* A refresh that has read a group and no longer says what the billing says.
Stale(t, g) ==
    /\ pc[t] = "selected"
    /\ InRange(t, g)
    /\ computed[t][g] # PartsOf(g)

\* Somebody will put the group right, or has given up: who merged last is never stale.
Awaited(g) == \E t \in Owing(g[2]) : ~ Stale(t, g)

\* What a task has in hand where it is: only a replacing sync deletes billing, of its scope; a
\* refresh has seen totals of its days that were written by tasks that are through, and has read
\* its days only.
InHand(t) ==
    /\ pc[t] \in {"idle", "collected", "stored"} => doomed[t] = {}
    /\ pc[t] = "deleting" => Kind[t] = "replace" /\ \A r \in doomed[t] : r[1] \in Scope(t)
    /\ pc[t] \in {"refreshing", "selected"} =>
         \A r \in doomed[t] : r[1] \in Groups /\ InRange(t, r[1]) /\ pc[r[2]] = "done"
    /\ pc[t] = "selected" => \A g \in Groups : ~ InRange(t, g) => computed[t][g] = {}
    /\ pc[t] \in {"collected", "deleting"} => Kind[t] # "refresh"

\* Whatever is there has been written by a task, a total by one that is through.
Signed ==
    /\ \A c \in Cells : billing[c].amount > 0 => billing[c].by \in Tasks
    /\ \A g \in Groups : summary[g].parts # {} => summary[g].by \in Tasks
    /\ \A g \in Groups : summary[g].by \in Tasks => pc[summary[g].by] = "done"

\* The total that nobody is still to put right is right, and no stale refresh has seen it: its
\* insert clashes with it, or leaves it where it is.
Right(g) ==
    PartsOf(g) # {} /\ ~ Awaited(g) =>
        /\ summary[g].parts = PartsOf(g)
        /\ \A t \in Tasks : Stale(t, g) => <<g, summary[g].by>> \notin doomed[t]

Typed == TypeOK /\ Signed /\ \A t \in Tasks : InHand(t)
IInv  == Typed /\ \A g \in Groups : Right(g)

-----------------------------------------------------------------------------
(* Types.                                                                  *)

\* What a group adds up to are parts.
LEMMA PartsType == ASSUME TypeOK, NEW g \in Groups PROVE PartsOf(g) \in Parts
<1>1. \A k \in Keys : <<g[1], g[2], k>> \in Cells
  BY DEF Groups, Cells
<1>2. \A k \in Keys : billing[<<g[1], g[2], k>>].amount \in Amounts
  BY <1>1 DEF TypeOK
<1>3. ASSUME NEW p \in PartsOf(g) PROVE p \in Keys \X Amounts
  <2>1. PICK k \in Keys : p = <<k, billing[<<g[1], g[2], k>>].amount>>
    BY DEF PartsOf
  <2> QED BY <2>1, <1>2
<1> QED BY <1>3 DEF Parts

\* The rows and the totals that are not there.
LEMMA NothingTypes ==
    /\ NoRow \in [by : Tasks \cup {Nobody}, amount : Amounts]
    /\ NoTotal \in [by : Tasks \cup {Nobody}, parts : Parts]
    /\ NoFeed \in Feeds
    /\ NoRead \in [Groups -> Parts]
BY ConstantsOK DEF NoRow, NoTotal, NoFeed, NoRead, Amounts, Parts, Feeds

\* A merged row is a row, and somebody's.
LEMMA MergedType ==
  ASSUME Typed, NEW t \in Tasks, NEW c \in Cells
  PROVE  /\ Merged(t, c) \in [by : Tasks \cup {Nobody}, amount : Amounts]
         /\ Merged(t, c).amount > 0 => Merged(t, c).by \in Tasks
<1>1. billing[c] \in [by : Tasks \cup {Nobody}, amount : Amounts]
  BY DEF Typed, TypeOK
<1>2. <<c[2], c[3]>> \in Lines
  BY DEF Cells, Lines
<1>3. Collected(t, c) \in Amounts
  BY <1>2, ConstantsOK DEF Collected, Typed, TypeOK, Feeds, Amounts
<1>4. Spared(t, c) \in [by : Tasks \cup {Nobody}, amount : Amounts]
  BY <1>1, NothingTypes DEF Spared
<1>5. Spared(t, c).amount > 0 => Spared(t, c) = billing[c] /\ billing[c].by \in Tasks
  BY <1>1 DEF Spared, NoRow, Typed, Signed
<1>6. CASE Collected(t, c) > 0
  <2>1. Merged(t, c) = [by |-> IF Spared(t, c).amount > 0 THEN billing[c].by ELSE t,
                        amount |-> Collected(t, c)]
    BY <1>6 DEF Merged
  <2>2. (IF Spared(t, c).amount > 0 THEN billing[c].by ELSE t) \in Tasks
    BY <1>5
  <2> QED BY <1>3, <2>1, <2>2
<1>7. CASE ~ (Collected(t, c) > 0)
  <2>1. Merged(t, c) = Spared(t, c)
    BY <1>7 DEF Merged
  <2> QED BY <1>4, <1>5, <2>1
<1> QED BY <1>6, <1>7

\* Nothing is there at first.
LEMMA InitHolds == Init => IInv
<1> SUFFICES ASSUME Init PROVE IInv
  OBVIOUS
<1>1. TypeOK
  BY NothingTypes DEF Init, TypeOK
<1>2. Signed
  BY ConstantsOK DEF Init, Signed, NoRow, NoTotal
<1>3. \A t \in Tasks : InHand(t)
  BY DEF Init, InHand
<1>4. ASSUME NEW g \in Groups PROVE PartsOf(g) = {}
  <2>1. \A k \in Keys : <<g[1], g[2], k>> \in Cells
    BY DEF Groups, Cells
  <2>2. \A k \in Keys : billing[<<g[1], g[2], k>>].amount = 0
    BY <2>1 DEF Init, NoRow
  <2>3. {k \in Keys : billing[<<g[1], g[2], k>>].amount > 0} = {}
    BY <2>2
  <2> QED BY <2>3 DEF PartsOf
<1> QED BY <1>1, <1>2, <1>3, <1>4 DEF IInv, Typed, Right

\* A step of one task leaves what the others have in hand: who is through stays so.
LEMMA OthersKeep ==
  ASSUME Typed, NEW t \in Tasks, pc[t] # "done",
         \A u \in Tasks \ {t} : pc'[u] = pc[u] /\ doomed'[u] = doomed[u] /\ computed'[u] = computed[u],
         InHand(t)'
  PROVE  \A u \in Tasks : InHand(u)'
<1> SUFFICES ASSUME NEW u \in Tasks, u # t PROVE InHand(u)'
  OBVIOUS
<1>1. InHand(u)
  BY DEF Typed
<1>2. \A r \in doomed[u] : r[2] \in Tasks
  BY DEF Typed, TypeOK
<1>3. \A r \in doomed[u] : pc[r[2]] = "done" => pc'[r[2]] = "done"
  BY <1>2
<1> QED BY <1>1, <1>3 DEF InHand, Scope, InRange

-----------------------------------------------------------------------------
(* Steps that leave a group alone.                                          *)

\* A group stays right when neither its billing nor its total changes and the task at work is
\* not stale afterwards and owes what it owed.
LEMMA StaysRight ==
  ASSUME Typed, NEW g \in Groups, Right(g), NEW t \in Tasks,
         PartsOf(g)' = PartsOf(g), summary'[g] = summary[g],
         \A u \in Tasks \ {t} : pc'[u] = pc[u] /\ doomed'[u] = doomed[u] /\ computed'[u] = computed[u],
         ~ Stale(t, g)',
         t \in Owing(g[2]) => t \in Owing(g[2])'
  PROVE  Right(g)'
<1>1. ASSUME NEW u \in Tasks, u # t
      PROVE  Stale(u, g)' = Stale(u, g) /\ (u \in Owing(g[2]))' = (u \in Owing(g[2]))
  BY <1>1 DEF Stale, Owing, InRange
<1>2. Awaited(g) => Awaited(g)'
  <2> SUFFICES ASSUME NEW u \in Owing(g[2]), ~ Stale(u, g) PROVE Awaited(g)'
    BY DEF Awaited
  <2>1. u \in Tasks
    BY DEF Owing
  <2>2. CASE u = t
    BY <2>2 DEF Awaited
  <2>3. CASE u # t
    BY <1>1, <2>1, <2>3 DEF Awaited
  <2> QED BY <2>2, <2>3
<1>3. ASSUME NEW u \in Tasks, Stale(u, g)' PROVE Stale(u, g) /\ doomed'[u] = doomed[u]
  BY <1>1, <1>3
<1> QED BY <1>2, <1>3 DEF Right

\* A step that stores nothing leaves all groups right.
LEMMA AllStayRight ==
  ASSUME IInv, NEW t \in Tasks, UNCHANGED <<billing, summary>>,
         \A u \in Tasks \ {t} : pc'[u] = pc[u] /\ doomed'[u] = doomed[u] /\ computed'[u] = computed[u],
         \A g \in Groups : ~ Stale(t, g)' /\ (t \in Owing(g[2]) => t \in Owing(g[2])')
  PROVE  \A g \in Groups : Right(g)'
<1> SUFFICES ASSUME NEW g \in Groups PROVE Right(g)'
  OBVIOUS
<1>1. PartsOf(g)' = PartsOf(g)
  BY DEF PartsOf
<1> QED BY <1>1, StaysRight DEF IInv

-----------------------------------------------------------------------------
(* The steps of a task.                                                     *)

\* A task has collected and writes nothing yet.
LEMMA CollectStep == ASSUME IInv, NEW t \in Tasks, Collect(t) PROVE IInv'
<1>1. /\ UNCHANGED <<billing, summary, doomed, computed>>
      /\ pc[t] = "idle" /\ Kind[t] # "refresh"
      /\ pc' = [pc EXCEPT ![t] = "collected"]
  BY DEF Collect, Goto
<1>2. TypeOK'
  <2>1. PICK f \in Feeds : rows' = [rows EXCEPT ![t] = f]
    BY DEF Collect
  <2>2. rows' \in [Tasks -> Feeds]
    BY <2>1 DEF IInv, Typed, TypeOK
  <2>3. pc' \in [Tasks -> {"idle"} \cup Working \cup Over]
    BY <1>1 DEF IInv, Typed, TypeOK, Working
  <2> QED BY <1>1, <2>2, <2>3 DEF IInv, Typed, TypeOK
<1>3. pc'[t] = "collected" /\ \A u \in Tasks \ {t} : pc'[u] = pc[u]
  BY <1>1 DEF IInv, Typed, TypeOK
<1>4. InHand(t)'
  BY <1>1, <1>3 DEF InHand, IInv, Typed
<1>5. Signed'
  BY <1>1, <1>3 DEF IInv, Typed, Signed
<1>6. \A g \in Groups : ~ Stale(t, g)' /\ t \notin Owing(g[2])
  BY <1>1, <1>3 DEF Stale, Owing
<1> QED BY <1>1, <1>2, <1>3, <1>4, <1>5, <1>6, OthersKeep, AllStayRight DEF IInv, Typed

\* The DELETE of a replacement notes the rows that it sees.
LEMMA ReplaceDeleteStep == ASSUME IInv, NEW t \in Tasks, ReplaceDelete(t) PROVE IInv'
<1> DEFINE seen == {<<c, billing[c].by>> : c \in {c \in Scope(t) : billing[c].amount > 0}}
<1>1. /\ UNCHANGED <<billing, summary, rows, computed>>
      /\ pc[t] = "collected" /\ Kind[t] = "replace"
      /\ pc' = [pc EXCEPT ![t] = "deleting"]
      /\ doomed' = [doomed EXCEPT ![t] = seen]
  BY DEF ReplaceDelete, Goto
<1>2. \A r \in seen : r[1] \in Scope(t) /\ r \in (Cells \cup Groups) \X Tasks
  <2> SUFFICES ASSUME NEW c \in Scope(t), billing[c].amount > 0
               PROVE  <<c, billing[c].by>> \in (Cells \cup Groups) \X Tasks
    OBVIOUS
  <2> QED BY DEF Scope, IInv, Typed, Signed
<1>3. TypeOK'
  <2>1. doomed' \in [Tasks -> SUBSET ((Cells \cup Groups) \X Tasks)]
    BY <1>1, <1>2 DEF IInv, Typed, TypeOK
  <2>2. pc' \in [Tasks -> {"idle"} \cup Working \cup Over]
    BY <1>1 DEF IInv, Typed, TypeOK, Working
  <2> QED BY <1>1, <2>1, <2>2 DEF IInv, Typed, TypeOK
<1>4. /\ pc'[t] = "deleting" /\ doomed'[t] = seen
      /\ \A u \in Tasks \ {t} : pc'[u] = pc[u] /\ doomed'[u] = doomed[u]
  BY <1>1 DEF IInv, Typed, TypeOK
<1> HIDE DEF seen
<1>5. InHand(t)'
  BY <1>1, <1>2, <1>4 DEF InHand, Scope
<1>6. Signed'
  BY <1>1, <1>4 DEF IInv, Typed, Signed
<1>7. \A g \in Groups : ~ Stale(t, g)' /\ t \notin Owing(g[2])
  BY <1>1, <1>4 DEF Stale, Owing
<1> QED BY <1>1, <1>3, <1>4, <1>5, <1>6, <1>7, OthersKeep, AllStayRight DEF IInv, Typed

\* A refresh is asked for: the task has stored nothing, and owes it from then on.
LEMMA AskRefreshStep == ASSUME IInv, NEW t \in Tasks, AskRefresh(t) PROVE IInv'
<1>1. /\ UNCHANGED <<billing, summary, rows, doomed, computed>>
      /\ pc[t] = "idle" /\ Kind[t] = "refresh"
      /\ pc' = [pc EXCEPT ![t] = "stored"]
  BY DEF AskRefresh, Goto
<1>2. TypeOK'
  BY <1>1 DEF IInv, Typed, TypeOK, Working
<1>3. pc'[t] = "stored" /\ \A u \in Tasks \ {t} : pc'[u] = pc[u]
  BY <1>1 DEF IInv, Typed, TypeOK
<1>4. InHand(t)'
  BY <1>1, <1>3 DEF InHand, IInv, Typed
<1>5. Signed'
  BY <1>1, <1>3 DEF IInv, Typed, Signed
<1>6. \A g \in Groups : ~ Stale(t, g)' /\ t \notin Owing(g[2])
  BY <1>1, <1>3 DEF Stale, Owing
<1> QED BY <1>1, <1>2, <1>3, <1>4, <1>5, <1>6, OthersKeep, AllStayRight DEF IInv, Typed

\* The DELETE of a refresh notes the part of the summary that it sees.
LEMMA RefreshDeleteStep == ASSUME IInv, NEW t \in Tasks, RefreshDelete(t) PROVE IInv'
<1> DEFINE seen == {<<g, summary[g].by>> : g \in {g \in Groups : InRange(t, g) /\ summary[g].parts # {}}}
<1>1. /\ UNCHANGED <<billing, summary, rows, computed>>
      /\ pc[t] = "stored"
      /\ pc' = [pc EXCEPT ![t] = "refreshing"]
      /\ doomed' = [doomed EXCEPT ![t] = seen]
  BY DEF RefreshDelete, Goto
<1>2. \A r \in seen : /\ r \in (Cells \cup Groups) \X Tasks
                      /\ r[1] \in Groups /\ InRange(t, r[1]) /\ pc[r[2]] = "done"
  <2> SUFFICES ASSUME NEW g \in Groups, InRange(t, g), summary[g].parts # {}
               PROVE  summary[g].by \in Tasks /\ pc[summary[g].by] = "done"
    OBVIOUS
  <2> QED BY DEF IInv, Typed, Signed
<1>3. TypeOK'
  <2>1. doomed' \in [Tasks -> SUBSET ((Cells \cup Groups) \X Tasks)]
    BY <1>1, <1>2 DEF IInv, Typed, TypeOK
  <2>2. pc' \in [Tasks -> {"idle"} \cup Working \cup Over]
    BY <1>1 DEF IInv, Typed, TypeOK, Working
  <2> QED BY <1>1, <2>1, <2>2 DEF IInv, Typed, TypeOK
<1>4. /\ pc'[t] = "refreshing" /\ doomed'[t] = seen
      /\ \A u \in Tasks \ {t} : pc'[u] = pc[u] /\ doomed'[u] = doomed[u]
  BY <1>1 DEF IInv, Typed, TypeOK
<1> HIDE DEF seen
<1>5. InHand(t)'
  <2>1. \A r \in seen : pc'[r[2]] = "done"
    BY <1>1, <1>2, <1>4
  <2> QED BY <1>2, <1>4, <2>1 DEF InHand, InRange
<1>6. Signed'
  BY <1>1, <1>4 DEF IInv, Typed, Signed
<1>7. \A g \in Groups : ~ Stale(t, g)' /\ (t \in Owing(g[2]) => t \in Owing(g[2])')
  BY <1>1, <1>4 DEF Stale, Owing
<1> QED BY <1>1, <1>3, <1>4, <1>5, <1>6, <1>7, OthersKeep, AllStayRight DEF IInv, Typed

\* A refresh that has just read its groups is not stale.
LEMMA RefreshSelectStep == ASSUME IInv, NEW t \in Tasks, RefreshSelect(t) PROVE IInv'
<1> DEFINE read == [g \in Groups |-> IF InRange(t, g) THEN PartsOf(g) ELSE {}]
<1>1. /\ UNCHANGED <<billing, summary, rows, doomed>>
      /\ pc[t] = "refreshing"
      /\ pc' = [pc EXCEPT ![t] = "selected"]
      /\ computed' = [computed EXCEPT ![t] = read]
  BY DEF RefreshSelect, Goto
<1>2. read \in [Groups -> Parts]
  BY PartsType DEF IInv, Typed, Parts
<1>3. TypeOK'
  <2>1. computed' \in [Tasks -> [Groups -> Parts]]
    BY <1>1, <1>2 DEF IInv, Typed, TypeOK
  <2>2. pc' \in [Tasks -> {"idle"} \cup Working \cup Over]
    BY <1>1 DEF IInv, Typed, TypeOK, Working
  <2> QED BY <1>1, <2>1, <2>2 DEF IInv, Typed, TypeOK
<1>4. /\ pc'[t] = "selected" /\ computed'[t] = read
      /\ \A u \in Tasks \ {t} : pc'[u] = pc[u] /\ computed'[u] = computed[u]
  BY <1>1 DEF IInv, Typed, TypeOK
<1>5. \A g \in Groups : computed'[t][g] = IF InRange(t, g) THEN PartsOf(g) ELSE {}
  BY <1>4
<1> HIDE DEF read
<1>6. InHand(t)'
  <2>1. \A r \in doomed[t] : r[1] \in Groups /\ InRange(t, r[1]) /\ pc[r[2]] = "done" /\ r[2] \in Tasks
    BY <1>1 DEF IInv, Typed, TypeOK, InHand
  <2>2. \A r \in doomed'[t] : r[1] \in Groups /\ InRange(t, r[1])' /\ pc'[r[2]] = "done"
    BY <1>1, <1>4, <2>1 DEF InRange
  <2>3. \A g \in Groups : ~ InRange(t, g)' => computed'[t][g] = {}
    BY <1>5 DEF InRange
  <2> QED BY <1>4, <2>2, <2>3 DEF InHand
<1>7. Signed'
  BY <1>1, <1>4 DEF IInv, Typed, Signed
<1>8. ASSUME NEW g \in Groups PROVE ~ Stale(t, g)' /\ (t \in Owing(g[2]) => t \in Owing(g[2])')
  <2>1. PartsOf(g)' = PartsOf(g)
    BY <1>1 DEF PartsOf
  <2> QED BY <1>1, <1>4, <1>5, <2>1 DEF Stale, Owing, InRange
<1> QED BY <1>1, <1>3, <1>4, <1>6, <1>7, <1>8, OthersKeep, AllStayRight DEF IInv, Typed

\* Who gives up after its merge owes the refresh for good.
LEMMA AbortStep == ASSUME IInv, NEW t \in Tasks, Abort(t) PROVE IInv'
<1>1. PICK l \in {"failed", "unrefreshed"} :
        /\ pc' = [pc EXCEPT ![t] = l]
        /\ doomed' = [doomed EXCEPT ![t] = {}]
        /\ computed' = [computed EXCEPT ![t] = NoRead]
        /\ rows' = [rows EXCEPT ![t] = NoFeed]
        /\ l = "failed" => pc[t] \in {"collected", "deleting"}
        /\ l = "unrefreshed" => pc[t] \in {"stored", "refreshing", "selected"}
  BY DEF Abort, Leave, Goto
<1>2. UNCHANGED <<billing, summary>>
  BY DEF Abort
<1>3. TypeOK'
  <2>1. pc' \in [Tasks -> {"idle"} \cup Working \cup Over]
    BY <1>1 DEF IInv, Typed, TypeOK, Over
  <2>2. /\ doomed' \in [Tasks -> SUBSET ((Cells \cup Groups) \X Tasks)]
        /\ computed' \in [Tasks -> [Groups -> Parts]]
        /\ rows' \in [Tasks -> Feeds]
    BY <1>1, NothingTypes DEF IInv, Typed, TypeOK
  <2> QED BY <1>2, <2>1, <2>2 DEF IInv, Typed, TypeOK
<1>4. /\ pc[t] # "done" /\ pc'[t] = l
      /\ \A u \in Tasks \ {t} : pc'[u] = pc[u] /\ doomed'[u] = doomed[u] /\ computed'[u] = computed[u]
  BY <1>1 DEF IInv, Typed, TypeOK
<1>5. InHand(t)'
  BY <1>4 DEF InHand
<1>6. Signed'
  BY <1>2, <1>4 DEF IInv, Typed, Signed
<1>7. \A g \in Groups : ~ Stale(t, g)' /\ (t \in Owing(g[2]) => t \in Owing(g[2])')
  BY <1>1, <1>4 DEF Stale, Owing
<1> QED BY <1>2, <1>3, <1>4, <1>5, <1>6, <1>7, OthersKeep, AllStayRight DEF IInv, Typed

\* A merge changes groups of its days only, and owes them a refresh from then on.
LEMMA MergeStep == ASSUME IInv, NEW t \in Tasks, Merge(t) PROVE IInv'
<1>1. /\ pc[t] \in {"collected", "deleting"} /\ Kind[t] # "refresh"
      /\ UNCHANGED <<summary, computed>>
      /\ pc' = [pc EXCEPT ![t] = "stored"]
      /\ billing' = [c \in Cells |-> Merged(t, c)]
      /\ rows' = [rows EXCEPT ![t] = NoFeed]
      /\ doomed' = [doomed EXCEPT ![t] = {}]
  BY DEF Merge, Goto, IInv, Typed, InHand
<1>2. TypeOK'
  <2>1. pc' \in [Tasks -> {"idle"} \cup Working \cup Over]
    BY <1>1 DEF IInv, Typed, TypeOK, Working
  <2>2. billing' \in [Cells -> [by : Tasks \cup {Nobody}, amount : Amounts]]
    BY <1>1, MergedType DEF IInv
  <2>3. rows' \in [Tasks -> Feeds] /\ doomed' \in [Tasks -> SUBSET ((Cells \cup Groups) \X Tasks)]
    BY <1>1, NothingTypes DEF IInv, Typed, TypeOK
  <2> QED BY <1>1, <2>1, <2>2, <2>3 DEF IInv, Typed, TypeOK
<1>3. /\ pc'[t] = "stored" /\ doomed'[t] = {}
      /\ \A u \in Tasks \ {t} : pc'[u] = pc[u] /\ doomed'[u] = doomed[u]
  BY <1>1 DEF IInv, Typed, TypeOK
<1>4. InHand(t)'
  BY <1>3 DEF InHand
<1>5. Signed'
  <2>1. \A c \in Cells : billing'[c].amount > 0 => billing'[c].by \in Tasks
    BY <1>1, MergedType DEF IInv
  <2>2. \A g \in Groups : summary[g].by \in Tasks => pc'[summary[g].by] = "done"
    BY <1>1, <1>3 DEF IInv, Typed, Signed
  <2> QED BY <1>1, <2>1, <2>2 DEF IInv, Typed, Signed
<1>6. ASSUME NEW g \in Groups PROVE Right(g)'
  <2>1. CASE InRange(t, g)
    <3>1. t \in Owing(g[2])' /\ ~ Stale(t, g)'
      BY <1>1, <1>3, <2>1 DEF Owing, Stale, InRange
    <3> QED BY <3>1 DEF Right, Awaited
  <2>2. CASE ~ InRange(t, g)
    <3>1. ASSUME NEW k \in Keys PROVE billing'[<<g[1], g[2], k>>] = billing[<<g[1], g[2], k>>]
      <4> DEFINE c == <<g[1], g[2], k>>
      <4>1. c \in Cells /\ c \notin Scope(t)
        BY <2>2 DEF Groups, Cells, Scope, InRange
      <4>2. <<c, billing[c].by>> \notin doomed[t]
        BY <1>1, <4>1 DEF IInv, Typed, InHand
      <4>3. Merged(t, c) = billing[c]
        BY <4>1, <4>2 DEF Merged, Collected, Spared
      <4> QED BY <1>1, <4>1, <4>3
    <3>2. PartsOf(g)' = PartsOf(g)
      BY <3>1 DEF PartsOf
    <3>3. ~ Stale(t, g)' /\ t \notin Owing(g[2])
      BY <1>1, <1>3 DEF Stale, Owing
    <3> QED BY <1>1, <1>3, <3>2, <3>3, StaysRight DEF IInv
  <2> QED BY <2>1, <2>2
<1> QED BY <1>1, <1>2, <1>3, <1>4, <1>5, <1>6, OthersKeep DEF IInv, Typed

\* A refresh that commits writes what the billing says, or what it read clashes with the total
\* that says it, or it leaves that total alone.
LEMMA RefreshCommitStep == ASSUME IInv, NEW t \in Tasks, RefreshCommit(t) PROVE IInv'
<1> DEFINE New(g) == IF computed[t][g] = {} THEN Left(t, g)
                     ELSE [by |-> t, parts |-> computed[t][g]]
<1>1. /\ UNCHANGED billing
      /\ pc[t] = "selected" /\ ~ Clash(t)
      /\ pc' = [pc EXCEPT ![t] = "done"]
      /\ doomed' = [doomed EXCEPT ![t] = {}]
      /\ computed' = [computed EXCEPT ![t] = NoRead]
      /\ rows' = [rows EXCEPT ![t] = NoFeed]
      /\ summary' = [g \in Groups |-> New(g)]
  BY DEF RefreshCommit, Leave, Goto
<1>2. ASSUME NEW g \in Groups
      PROVE  /\ New(g) \in [by : Tasks \cup {Nobody}, parts : Parts]
             /\ New(g).parts # {} => New(g).by \in Tasks
             /\ New(g).by \in Tasks => New(g).by = t \/ New(g) = summary[g]
  <2>1. /\ computed[t][g] \in Parts
        /\ summary[g] \in [by : Tasks \cup {Nobody}, parts : Parts]
        /\ summary[g].parts # {} => summary[g].by \in Tasks
    BY DEF IInv, Typed, TypeOK, Signed
  <2>2. Left(t, g) = NoTotal \/ Left(t, g) = summary[g]
    BY DEF Left
  <2>3. CASE computed[t][g] = {}
    <3>1. New(g) = Left(t, g)
      BY <2>3
    <3>2. NoTotal.parts = {} /\ NoTotal.by \notin Tasks
      BY ConstantsOK DEF NoTotal
    <3> QED BY <2>1, <2>2, <3>1, <3>2, NothingTypes
  <2>4. CASE computed[t][g] # {}
    <3>1. New(g) = [by |-> t, parts |-> computed[t][g]]
      BY <2>4
    <3> QED BY <2>1, <3>1
  <2> QED BY <2>3, <2>4
<1>3. summary' \in [Groups -> [by : Tasks \cup {Nobody}, parts : Parts]]
      /\ \A g \in Groups : summary'[g] = New(g)
  BY <1>1, <1>2
<1> HIDE DEF New
<1>4. TypeOK'
  <2>1. pc' \in [Tasks -> {"idle"} \cup Working \cup Over]
    BY <1>1 DEF IInv, Typed, TypeOK, Over
  <2>2. /\ doomed' \in [Tasks -> SUBSET ((Cells \cup Groups) \X Tasks)]
        /\ computed' \in [Tasks -> [Groups -> Parts]]
        /\ rows' \in [Tasks -> Feeds]
    BY <1>1, NothingTypes DEF IInv, Typed, TypeOK
  <2> QED BY <1>1, <1>3, <2>1, <2>2 DEF IInv, Typed, TypeOK
<1>5. /\ pc'[t] = "done"
      /\ \A u \in Tasks \ {t} : pc'[u] = pc[u] /\ doomed'[u] = doomed[u] /\ computed'[u] = computed[u]
  BY <1>1 DEF IInv, Typed, TypeOK
<1>6. InHand(t)'
  BY <1>5 DEF InHand
<1>7. Signed'
  <2>1. \A c \in Cells : billing'[c].amount > 0 => billing'[c].by \in Tasks
    BY <1>1 DEF IInv, Typed, Signed
  <2>2. \A g \in Groups : summary'[g].parts # {} => summary'[g].by \in Tasks
    BY <1>2, <1>3
  <2>3. ASSUME NEW g \in Groups, summary'[g].by \in Tasks PROVE pc'[summary'[g].by] = "done"
    <3>1. summary'[g].by = t \/ summary'[g] = summary[g]
      BY <1>2, <1>3, <2>3
    <3>2. summary'[g] = summary[g] => pc[summary[g].by] = "done"
      BY <2>3 DEF IInv, Typed, Signed
    <3> QED BY <1>5, <2>3, <3>1, <3>2
  <2> QED BY <2>1, <2>2, <2>3 DEF Signed
<1>8. ASSUME NEW g \in Groups PROVE Right(g)'
  <2>1. PartsOf(g)' = PartsOf(g)
    BY <1>1 DEF PartsOf
  <2>2. ~ Stale(t, g)'
    BY <1>5 DEF Stale
  <2>3. ASSUME NEW u \in Tasks, u # t
        PROVE  Stale(u, g)' = Stale(u, g) /\ (u \in Owing(g[2]))' = (u \in Owing(g[2]))
    BY <1>5, <2>1, <2>3 DEF Stale, Owing, InRange
  <2>4. CASE ~ InRange(t, g)
    <3>1. computed[t][g] = {} /\ <<g, summary[g].by>> \notin doomed[t]
      BY <1>1, <2>4 DEF IInv, Typed, InHand
    <3>2. summary'[g] = summary[g]
      BY <1>3, <3>1 DEF New, Left
    <3>3. t \notin Owing(g[2])
      BY <2>4 DEF Owing, InRange
    <3> QED BY <1>5, <2>1, <2>2, <3>2, <3>3, StaysRight DEF IInv
  <2>5. CASE InRange(t, g) /\ computed[t][g] = PartsOf(g)
    <3> SUFFICES ASSUME PartsOf(g)' # {}
                 PROVE  /\ summary'[g].parts = PartsOf(g)'
                        /\ \A u \in Tasks : Stale(u, g)' => <<g, summary'[g].by>> \notin doomed'[u]
      BY DEF Right
    <3>1. summary'[g] = [by |-> t, parts |-> PartsOf(g)]
      BY <1>3, <2>1, <2>5 DEF New
    <3>2. ASSUME NEW u \in Tasks, Stale(u, g)' PROVE <<g, t>> \notin doomed'[u]
      <4>1. u # t /\ doomed'[u] = doomed[u]
        BY <1>5, <2>2, <3>2
      <4>2. pc[u] = "selected"
        BY <1>5, <3>2, <4>1 DEF Stale
      <4>3. \A r \in doomed[u] : pc[r[2]] = "done"
        BY <4>2 DEF IInv, Typed, InHand
      <4> QED BY <1>1, <4>1, <4>3
    <3> QED BY <2>1, <3>1, <3>2
  <2>6. CASE Stale(t, g)
    <3> SUFFICES ASSUME PartsOf(g)' # {}, ~ Awaited(g)'
                 PROVE  /\ summary'[g].parts = PartsOf(g)'
                        /\ \A u \in Tasks : Stale(u, g)' => <<g, summary'[g].by>> \notin doomed'[u]
      BY DEF Right
    <3>1. ~ Awaited(g)
      <4> SUFFICES ASSUME NEW u \in Owing(g[2]), ~ Stale(u, g) PROVE FALSE
        BY DEF Awaited
      <4>1. u \in Tasks /\ u # t
        BY <2>6 DEF Owing
      <4> QED BY <2>3, <4>1 DEF Awaited
    <3>2. summary[g].parts = PartsOf(g) /\ \A u \in Tasks : Stale(u, g) => <<g, summary[g].by>> \notin doomed[u]
      BY <2>1, <3>1 DEF IInv, Right
    <3>3. Left(t, g) = summary[g]
      BY <2>6, <3>2 DEF Left
    <3>4. computed[t][g] = {}
      BY <1>1, <2>1, <3>2, <3>3 DEF Clash
    <3>5. summary'[g] = summary[g]
      BY <1>3, <3>3, <3>4 DEF New
    <3> QED BY <1>5, <2>1, <2>2, <2>3, <3>2, <3>5
  <2> QED BY <1>1, <2>4, <2>5, <2>6 DEF Stale
<1> QED BY <1>1, <1>4, <1>5, <1>6, <1>7, <1>8, OthersKeep DEF IInv, Typed

-----------------------------------------------------------------------------
\* The invariant is inductive.
LEMMA StepHolds == IInv /\ [Next]_vars => IInv'
<1> SUFFICES ASSUME IInv, [Next]_vars PROVE IInv'
  OBVIOUS
<1>1. CASE UNCHANGED vars
  <2>1. TypeOK' /\ Signed'
    BY <1>1 DEF vars, IInv, Typed, TypeOK, Signed
  <2>2. \A t \in Tasks : InHand(t)'
    BY <1>1 DEF vars, IInv, Typed, InHand, Scope, InRange
  <2>3. ASSUME NEW g \in Groups PROVE Right(g)'
    <3>1. PartsOf(g)' = PartsOf(g)
      BY <1>1 DEF vars, PartsOf
    <3>2. \A t : Stale(t, g)' = Stale(t, g)
      BY <1>1, <3>1 DEF vars, Stale, InRange
    <3>3. Owing(g[2])' = Owing(g[2])
      BY <1>1 DEF vars, Owing
    <3>4. Awaited(g)' = Awaited(g)
      BY <3>2, <3>3 DEF Awaited
    <3> QED BY <1>1, <3>1, <3>2, <3>4 DEF vars, IInv, Right
  <2> QED BY <2>1, <2>2, <2>3 DEF IInv, Typed
<1>2. ASSUME NEW t \in Tasks, Step(t) PROVE IInv'
  BY <1>2, CollectStep, ReplaceDeleteStep, MergeStep, AskRefreshStep, RefreshDeleteStep,
     RefreshSelectStep, RefreshCommitStep, AbortStep DEF Step
<1> QED BY <1>1, <1>2 DEF Next

\* It holds in every state.
LEMMA Invariance == Spec => []IInv
<1>1. Init => IInv
  BY InitHolds
<1>2. IInv /\ [Next]_vars => IInv'
  BY StepHolds
<1> QED BY <1>1, <1>2, PTL DEF Spec

\* The tables and what the tasks hold keep their types.
THEOREM BillingTypes == Spec => []TypeOK
<1>1. IInv => TypeOK
  BY DEF IInv, Typed
<1> QED BY <1>1, Invariance, PTL

\* However syncs and refreshes overlap or fail, the summary differs from the billing only while a
\* sync owes the day its refresh or where the billing is gone (sync_tasks.py:140,
\* sync_service.py:461): the unique key of the summary turns away every stale refresh.
THEOREM DriftIsAlwaysOwed == Spec => []DriftIsOwed
<1>1. IInv => DriftIsOwed
  BY DEF IInv, Right, DriftIsOwed, Drift, Awaited
<1> QED BY <1>1, Invariance, PTL

\* A rolling sync takes no row away, whatever the cloud returned and whoever works beside it
\* (sync_service.py:190): it has doomed nothing, and an upsert only adds and overwrites.
THEOREM RollingNeverLoses == Spec => RollingKeeps
<1>1. ASSUME IInv, NEW t \in Tasks, Kind[t] = "rolling", Step(t),
             NEW c \in Cells, billing[c].amount > 0
      PROVE  billing'[c].amount > 0
  <2>1. CASE Merge(t)
    <3>1. doomed[t] = {}
      BY <1>1, <2>1 DEF Merge, IInv, Typed, InHand
    <3>2. Merged(t, c).amount > 0
      BY <1>1, <3>1 DEF Merged, Spared
    <3> QED BY <2>1, <3>2 DEF Merge
  <2>2. CASE ~ Merge(t)
    BY <1>1, <2>2 DEF Step, Collect, ReplaceDelete, AskRefresh, RefreshDelete, RefreshSelect,
                      RefreshCommit, Abort
  <2> QED BY <2>1, <2>2
<1>2. IInv => (\A t \in Tasks : Kind[t] = "rolling" /\ Step(t) =>
                  \A c \in Cells : billing[c].amount > 0 => billing'[c].amount > 0)
  BY <1>1
<1> QED BY <1>2, Invariance, PTL DEF RollingKeeps
=============================================================================
