------------------------- MODULE TaijiIngest_proofs -------------------------
(***************************************************************************)
(* What Taiji has pushed is billed: theorems about TaijiIngest for any       *)
(* logs, pushes, servers, retention and number of tries.                     *)
(***************************************************************************)
EXTENDS TaijiIngest, TLAPS

\* A server at work on a day, and one that has had the day to itself since it began.
On(s, d)    == pc[s] # "idle" /\ d \in Touched(s)
Alone(s, d) == On(s, d) /\ d \notin shared[s]

\* Who works, works on a push that was sent, has nobody else's answer to it where it is alone, and
\* rewrites days within the retention or late ones.
InHand(s) ==
    /\ pc[s] = "idle" => shared[s] = {}
    /\ pc[s] # "idle" =>
         /\ push[s] \in Pushes
         /\ tries[push[s]] > 0
         /\ shared[s] \subseteq Touched(s)
         /\ pc[s] \notin {"store", "read"} => \A d \in Touched(s) : d >= Cutoff \/ d \in late
    /\ \A d \in Days : Alone(s, d) => push[s] \notin acked

\* Two servers on a day know of each other.
Meeting == \A s, t \in Servers : \A d \in Days : s # t /\ On(s, d) /\ On(t, d) => d \in shared[s]

\* The logs of a push that has been stored are there while their day is kept.
Has(p) == \A l \in BatchOf[p] : DayOf[l] >= Cutoff => l \in raw
Stored ==
    /\ \A p \in acked : Has(p)
    /\ \A s \in Servers : pc[s] \notin {"idle", "store"} => Has(push[s])

\* What a server aggregates is of the days that it touches.
ReadsOwn(s) == pc[s] \in {"wipe", "merge", "count"} => \A l \in read[s] : DayOf[l] \in Touched(s)

Basics == TypeOK /\ Meeting /\ Stored /\ \A s \in Servers : InHand(s) /\ ReadsOwn(s)

\* The rows of a day: none, or what its raw logs add up to.
NotBilled(d)  == \A k \in Keys : billing[<<d, k>>] = {}
NotCounted(d) == \A m \in Models : tokens[<<d, m>>] = {}
IsBilled(d)   == \A k \in Keys : billing[<<d, k>>] = Billed(OnDay(d))[<<d, k>>]
IsCounted(d)  == \A m \in Models : tokens[<<d, m>>] = Counted(OnDay(d))[<<d, m>>]

\* How far a server is with a day that it has to itself.
Far(s, d) ==
    /\ pc[s] \in {"wipe", "merge", "count"} => {l \in read[s] : DayOf[l] = d} = OnDay(d)
    /\ pc[s] = "merge" => NotBilled(d)
    /\ pc[s] \in {"count", "create", "answer"} => IsBilled(d)
    /\ pc[s] \in {"merge", "count"} => NotCounted(d)
    /\ pc[s] \in {"create", "answer"} => IsCounted(d)

\* What was answered is billed and counted on the day.
Acknowledged(d) ==
    \A p \in acked : \A l \in BatchOf[p] : DayOf[l] = d =>
        l \in billing[<<d, KeyOf[l]>>] /\ l \in tokens[<<d, ModelOf[KeyOf[l]]>>]

\* A day that nobody disturbs agrees with its raw logs while they are kept, and afterwards still
\* has what was answered, until a push reads it back.
DayHolds(d) ==
    /\ d >= Cutoff => \A s \in Servers : Alone(s, d) => Far(s, d)
    /\ d >= Cutoff /\ Undisturbed(d) => IsBilled(d) /\ IsCounted(d)
    /\ d < Cutoff /\ Undisturbed(d) /\ d \notin late => Acknowledged(d)

IInv == Basics /\ \A d \in Days : DayHolds(d)

-----------------------------------------------------------------------------
(* Constants and operators.                                                 *)

\* Days are integers, and the cutoff follows the clock.
LEMMA Bounds == Days \subseteq Int /\ (TypeOK => Cutoff \in Int /\ Cutoff' = today' - Retention)
BY ConstantsOK DEF Days, TypeOK, Cutoff

\* What a push touches is days, and its logs are logs.
LEMMA Batches ==
  ASSUME NEW p \in Pushes
  PROVE  /\ BatchOf[p] \subseteq Logs /\ DaysOf(p) \subseteq Days
         /\ \A l \in BatchOf[p] : DayOf[l] \in DaysOf(p)
BY ConstantsOK DEF DaysOf

\* The key and the model of a log have rows on its day.
LEMMA RowsOfLog ==
  ASSUME NEW l \in Logs
  PROVE  DayOf[l] \in Days /\ KeyOf[l] \in Keys /\ ModelOf[KeyOf[l]] \in Models
BY ConstantsOK DEF Keys, Models

\* What a row adds up.
LEMMA BilledAt ==
  ASSUME NEW ls, NEW d \in Days, NEW k \in Keys
  PROVE  Billed(ls)[<<d, k>>] = {l \in ls : DayOf[l] = d /\ KeyOf[l] = k}
<1>1. <<d, k>> \in Cells
  BY DEF Cells
<1> QED BY <1>1 DEF Billed

\* What a total adds up.
LEMMA CountedAt ==
  ASSUME NEW ls, NEW d \in Days, NEW m \in Models
  PROVE  Counted(ls)[<<d, m>>] = {l \in ls : DayOf[l] = d /\ ModelOf[KeyOf[l]] = m}
<1>1. <<d, m>> \in Totals
  BY DEF Totals
<1> QED BY <1>1 DEF Counted

\* A row depends on the logs of its day only.
LEMMA SameDaySameRows ==
  ASSUME NEW d \in Days, NEW ls, {l \in ls : DayOf[l] = d} = OnDay(d)
  PROVE  /\ \A k \in Keys : Billed(ls)[<<d, k>>] = Billed(OnDay(d))[<<d, k>>]
         /\ \A m \in Models : Counted(ls)[<<d, m>>] = Counted(OnDay(d))[<<d, m>>]
<1>1. \A l : l \in ls /\ DayOf[l] = d <=> l \in OnDay(d) /\ DayOf[l] = d
  BY DEF OnDay
<1>2. ASSUME NEW k \in Keys PROVE Billed(ls)[<<d, k>>] = Billed(OnDay(d))[<<d, k>>]
  <2>1. {l \in ls : DayOf[l] = d /\ KeyOf[l] = k} = {l \in OnDay(d) : DayOf[l] = d /\ KeyOf[l] = k}
    BY <1>1
  <2>2. Billed(ls)[<<d, k>>] = {l \in ls : DayOf[l] = d /\ KeyOf[l] = k}
    BY BilledAt
  <2>3. Billed(OnDay(d))[<<d, k>>] = {l \in OnDay(d) : DayOf[l] = d /\ KeyOf[l] = k}
    BY BilledAt
  <2> QED BY <2>1, <2>2, <2>3
<1>3. ASSUME NEW m \in Models PROVE Counted(ls)[<<d, m>>] = Counted(OnDay(d))[<<d, m>>]
  <2>1. {l \in ls : DayOf[l] = d /\ ModelOf[KeyOf[l]] = m}
          = {l \in OnDay(d) : DayOf[l] = d /\ ModelOf[KeyOf[l]] = m}
    BY <1>1
  <2>2. Counted(ls)[<<d, m>>] = {l \in ls : DayOf[l] = d /\ ModelOf[KeyOf[l]] = m}
    BY CountedAt
  <2>3. Counted(OnDay(d))[<<d, m>>] = {l \in OnDay(d) : DayOf[l] = d /\ ModelOf[KeyOf[l]] = m}
    BY CountedAt
  <2> QED BY <2>1, <2>2, <2>3
<1> QED BY <1>2, <1>3

\* Rows of logs have the types of the tables.
LEMMA RowTypes ==
  ASSUME NEW ls \in SUBSET Logs
  PROVE  /\ Billed(ls) \in [Cells -> SUBSET Logs]
         /\ Counted(ls) \in [Totals -> SUBSET Logs]
BY DEF Billed, Counted

\* An upsert keeps a table's type.
LEMMA OverType ==
  ASSUME NEW S, NEW table \in [S -> SUBSET Logs], NEW rows \in [S -> SUBSET Logs]
  PROVE  /\ Over(table, rows) \in [S -> SUBSET Logs]
         /\ \A x \in S : Over(table, rows)[x] = IF rows[x] = {} THEN table[x] ELSE rows[x]
BY DEF Over

-----------------------------------------------------------------------------
(* Days.                                                                    *)

\* A day is left alone by a step that changes neither its rows, its logs within the retention nor
\* who is alone on it.
LEMMA Elsewhere ==
  ASSUME TypeOK, NEW d \in Days, DayHolds(d), Cutoff' = Cutoff, d >= Cutoff => OnDay(d)' = OnDay(d),
         \A k \in Keys : billing'[<<d, k>>] = billing[<<d, k>>],
         \A m \in Models : tokens'[<<d, m>>] = tokens[<<d, m>>],
         Undisturbed(d)' => Undisturbed(d), late \subseteq late',
         \A p \in acked' : p \in acked \/ ~ \E l \in BatchOf[p] : DayOf[l] = d,
         \A t \in Servers : Alone(t, d)' => Alone(t, d) /\ pc'[t] = pc[t] /\ read'[t] = read[t]
  PROVE  DayHolds(d)'
<1>1. NotBilled(d)' = NotBilled(d) /\ (d >= Cutoff => IsBilled(d)' = IsBilled(d))
  BY BilledAt DEF IsBilled, NotBilled
<1>2. NotCounted(d)' = NotCounted(d) /\ (d >= Cutoff => IsCounted(d)' = IsCounted(d))
  BY CountedAt DEF IsCounted, NotCounted
<1>3. Acknowledged(d) => Acknowledged(d)'
  <2> SUFFICES ASSUME Acknowledged(d), NEW p \in acked', NEW l \in BatchOf[p], DayOf[l] = d
               PROVE  /\ l \in billing'[<<d, KeyOf[l]>>]
                      /\ l \in tokens'[<<d, ModelOf[KeyOf[l]]>>]
    BY DEF Acknowledged
  <2>1. p \in acked /\ l \in Logs
    BY Batches DEF TypeOK
  <2>2. l \in billing[<<d, KeyOf[l]>>] /\ l \in tokens[<<d, ModelOf[KeyOf[l]]>>]
    BY <2>1 DEF Acknowledged
  <2> QED BY <2>1, <2>2, RowsOfLog
<1>4. ASSUME NEW t \in Servers, Alone(t, d)', d >= Cutoff PROVE Far(t, d)'
  <2>1. Far(t, d) /\ pc'[t] = pc[t] /\ read'[t] = read[t]
    BY <1>4 DEF DayHolds
  <2> QED BY <1>1, <1>2, <1>4, <2>1 DEF Far
<1> QED BY <1>1, <1>2, <1>3, <1>4 DEF DayHolds

\* A day that two have met on is free of claims while one of them is there, or has crossed.
LEMMA Disputed ==
  ASSUME NEW d \in Days, ~ Undisturbed(d)', \A t \in Servers : ~ Alone(t, d)'
  PROVE  DayHolds(d)'
BY DEF DayHolds

-----------------------------------------------------------------------------
(* The steps of a server at work, from the store to the projects.            *)

\* What such a step leaves alone.
Inner(s, x) ==
    /\ pc[s] \in Steps /\ x \in Steps \ {"store"}
    /\ pc' = [pc EXCEPT ![s] = x]
    /\ UNCHANGED <<today, push, tries, acked, shared, crossed>>

\* What a transaction of a push changes, but for its rows.
LEMMA InnerFrame ==
  ASSUME TypeOK, NEW s \in Servers, NEW x, Inner(s, x)
  PROVE  /\ pc'[s] = x /\ pc[s] # "idle" /\ x # "idle" /\ x # "store"
         /\ pc' \in [Servers -> {"idle"} \cup Steps]
         /\ \A t \in Servers \ {s} : pc'[t] = pc[t]
         /\ Cutoff' = Cutoff
         /\ \A t \in Servers : Touched(t)' = Touched(t)
         /\ \A t \in Servers, d \in Days : On(t, d)' = On(t, d) /\ Alone(t, d)' = Alone(t, d)
<1>1. /\ pc'[s] = x /\ pc[s] # "idle" /\ x # "idle" /\ x # "store"
      /\ pc' \in [Servers -> {"idle"} \cup Steps]
      /\ \A t \in Servers \ {s} : pc'[t] = pc[t]
  BY DEF Inner, TypeOK, Steps
<1>2. Cutoff' = Cutoff
  BY DEF Inner, Cutoff
<1>3. \A t \in Servers : Touched(t)' = Touched(t)
  BY DEF Inner, Touched
<1> QED BY <1>1, <1>2, <1>3 DEF Inner, On, Alone

\* A push stays where its transactions may be.
LEMMA InnerBasics ==
  ASSUME Basics, NEW s \in Servers, NEW x, Inner(s, x), TypeOK', Stored',
         pc'[s] \in {"wipe", "merge", "count"} => \A l \in read'[s] : DayOf[l] \in Touched(s),
         \A t \in Servers \ {s} : read'[t] = read[t], late \subseteq late',
         pc[s] \in {"store", "read"} /\ x # "read" => {d \in Touched(s) : d < Cutoff} \subseteq late'
  PROVE  Basics'
<1>1. TypeOK
  BY DEF Basics
<1>2. Meeting'
  <2>1. \A t \in Servers, d \in Days : On(t, d)' = On(t, d)
    BY <1>1, InnerFrame
  <2>2. shared' = shared /\ Meeting
    BY DEF Basics, Inner
  <2> QED BY <2>1, <2>2 DEF Meeting
<1>3. ASSUME NEW t \in Servers PROVE InHand(t)' /\ ReadsOwn(t)'
  <2>1. InHand(t) /\ ReadsOwn(t)
    BY DEF Basics
  <2>2. (pc'[t] = "idle") = (pc[t] = "idle")
    BY <1>1, InnerFrame
  <2>3. Cutoff' = Cutoff /\ Touched(t)' = Touched(t) /\ \A d \in Days : Alone(t, d)' = Alone(t, d)
    BY <1>1, InnerFrame
  <2>4. pc'[t] \notin {"idle", "store", "read"} => \A d \in Touched(t) : d >= Cutoff \/ d \in late'
    <3> SUFFICES ASSUME pc'[t] \notin {"idle", "store", "read"}, NEW d \in Touched(t), ~ (d >= Cutoff)
                 PROVE  d \in late'
      OBVIOUS
    <3>1. pc[t] # "idle" /\ d \in Days
      BY <1>1, <2>1, <2>2, Batches DEF InHand, Touched
    <3>2. d \in Int /\ Cutoff \in Int
      BY <1>1, <3>1, Bounds
    <3>3. CASE pc[t] \in {"store", "read"}
      <4>1. t = s
        BY <1>1, <3>3, InnerFrame
      <4>2. pc'[s] = x
        BY <1>1, InnerFrame
      <4> QED BY <3>2, <3>3, <4>1, <4>2
    <3>4. CASE pc[t] \notin {"store", "read"}
      BY <2>1, <3>1, <3>4 DEF InHand
    <3> QED BY <3>3, <3>4
  <2>5. InHand(t)'
    BY <2>1, <2>2, <2>3, <2>4 DEF InHand, Inner
  <2>6. ReadsOwn(t)'
    <3>1. CASE t = s
      BY <2>3, <3>1 DEF ReadsOwn
    <3>2. CASE t # s
      BY <1>1, <2>1, <2>3, <3>2, InnerFrame DEF ReadsOwn
    <3> QED BY <3>1, <3>2
  <2> QED BY <2>5, <2>6
<1> QED BY <1>2, <1>3 DEF Basics

\* The days of the server are its own business, or disputed; the others stay as they are.
LEMMA InnerDays ==
  ASSUME IInv, NEW s \in Servers, NEW x, Inner(s, x), late \subseteq late',
         \A t \in Servers \ {s} : read'[t] = read[t],
         \A d \in Days \ Touched(s) :
            /\ OnDay(d)' = OnDay(d)
            /\ \A k \in Keys : billing'[<<d, k>>] = billing[<<d, k>>]
            /\ \A m \in Models : tokens'[<<d, m>>] = tokens[<<d, m>>],
         \A d \in Days : Alone(s, d) /\ d >= Cutoff /\ Far(s, d) => Far(s, d)'
  PROVE  \A d \in Days : DayHolds(d)'
<1> SUFFICES ASSUME NEW d \in Days PROVE DayHolds(d)'
  OBVIOUS
<1>1. TypeOK /\ DayHolds(d) /\ Meeting
  BY DEF IInv, Basics
<1>2. Undisturbed(d)' = Undisturbed(d)
  <2>1. \A t \in Servers : (pc'[t] # "idle" => d \notin Touched(t)') = (pc[t] # "idle" => d \notin Touched(t))
    BY <1>1, InnerFrame
  <2> QED BY <2>1 DEF Undisturbed, Settled, Inner
<1>3. CASE d \in Touched(s)
  <2>1. On(s, d)
    BY <1>1, <1>3, InnerFrame DEF On
  <2>2. ~ Undisturbed(d)
    BY <2>1 DEF Undisturbed, Settled, On
  <2>3. ASSUME NEW t \in Servers, Alone(t, d)', d >= Cutoff PROVE Far(t, d)'
    <3>1. Alone(t, d)
      BY <1>1, <2>3, InnerFrame
    <3>2. t = s
      BY <1>1, <2>1, <3>1 DEF Meeting, Alone
    <3> QED BY <1>1, <2>3, <3>1, <3>2 DEF DayHolds
  <2> QED BY <1>1, <1>2, <2>2, <2>3, InnerFrame DEF DayHolds
<1>4. CASE d \notin Touched(s)
  <2>1. ASSUME NEW t \in Servers, Alone(t, d)' PROVE Alone(t, d) /\ pc'[t] = pc[t] /\ read'[t] = read[t]
    <3>1. Alone(t, d)
      BY <1>1, <2>1, InnerFrame
    <3>2. t # s
      BY <1>4, <3>1 DEF Alone, On
    <3> QED BY <1>1, <3>1, <3>2, InnerFrame
  <2>2. acked' = acked /\ Cutoff' = Cutoff
    BY <1>1, InnerFrame DEF Inner
  <2> QED BY <1>1, <1>2, <1>4, <2>1, <2>2, Elsewhere
<1> QED BY <1>3, <1>4

\* upsert_taiji_raw_logs
LEMMA StoreStep == ASSUME IInv, NEW s \in Servers, Store(s) PROVE IInv'
<1>1. /\ Inner(s, "read") /\ pc[s] = "store"
      /\ raw' = raw \cup BatchOf[push[s]]
      /\ UNCHANGED <<billing, tokens, projects, read, late>>
  BY DEF Store, At, Inner, Steps
<1>2. TypeOK /\ push[s] \in Pushes /\ Stored
  BY <1>1 DEF IInv, Basics, InHand
<1>3. TypeOK'
  <2>1. raw' \in SUBSET Logs
    BY <1>1, <1>2, Batches DEF TypeOK
  <2> QED BY <1>1, <1>2, <2>1, InnerFrame DEF TypeOK, Inner
<1>4. Stored'
  <2>1. ASSUME NEW p, Has(p) PROVE Has(p)'
    BY <1>1, <1>2, <2>1, InnerFrame DEF Has
  <2>2. Has(push[s])'
    BY <1>1 DEF Has, Inner
  <2>3. acked' = acked /\ push' = push
    BY <1>1 DEF Inner
  <2>4. \A t \in Servers \ {s} : pc'[t] = pc[t]
    BY <1>1, <1>2, InnerFrame
  <2> QED BY <1>2, <2>1, <2>2, <2>3, <2>4 DEF Stored
<1>5. Basics'
  <2>1. pc'[s] = "read"
    BY <1>1, <1>2, InnerFrame
  <2> QED BY <1>1, <1>3, <1>4, <2>1, InnerBasics DEF IInv
<1>6. ASSUME NEW d \in Days \ Touched(s) PROVE OnDay(d)' = OnDay(d)
  BY <1>1, <1>2, Batches DEF OnDay, Touched
<1>7. ASSUME NEW d \in Days PROVE Far(s, d)'
  <2>1. pc'[s] = "read"
    BY <1>1, <1>2, InnerFrame
  <2> QED BY <2>1 DEF Far
<1> QED BY <1>1, <1>5, <1>6, <1>7, InnerDays DEF IInv

\* The raw logs of the days are read back.
LEMMA ReadStep == ASSUME IInv, NEW s \in Servers, Read(s) PROVE IInv'
<1>1. /\ Inner(s, "wipe") /\ pc[s] = "read"
      /\ read' = [read EXCEPT ![s] = {l \in raw : DayOf[l] \in Touched(s)}]
      /\ late' = late \cup {d \in Touched(s) : d < Cutoff}
      /\ UNCHANGED <<raw, billing, tokens, projects>>
  BY DEF Read, At, Inner, Steps
<1>2. TypeOK /\ Stored
  BY DEF IInv, Basics
<1>3. /\ read' \in [Servers -> SUBSET Logs]
      /\ read'[s] = {l \in raw : DayOf[l] \in Touched(s)}
      /\ \A t \in Servers \ {s} : read'[t] = read[t]
  BY <1>1, <1>2 DEF TypeOK
<1>4. TypeOK'
  <2>1. push[s] \in Pushes
    BY <1>1 DEF IInv, Basics, InHand
  <2>2. late' \subseteq Days
    BY <1>1, <1>2, <2>1, Batches DEF TypeOK, Touched
  <2> QED BY <1>1, <1>2, <1>3, <2>2, InnerFrame DEF TypeOK, Inner
<1>5. Stored'
  <2>1. \A p : Has(p)' = Has(p)
    BY <1>1, <1>2, InnerFrame DEF Has
  <2>2. \A t \in Servers : pc'[t] \notin {"idle", "store"} => pc[t] \notin {"idle", "store"}
    BY <1>1, <1>2, InnerFrame
  <2> QED BY <1>1, <1>2, <2>1, <2>2 DEF Stored, Inner
<1>6. Basics'
  BY <1>1, <1>3, <1>4, <1>5, InnerBasics DEF IInv
<1>7. ASSUME NEW d \in Days, Alone(s, d) PROVE Far(s, d)'
  <2>1. d \in Touched(s) /\ pc'[s] = "wipe"
    BY <1>1, <1>2, <1>7, InnerFrame DEF Alone, On
  <2>2. {l \in read'[s] : DayOf[l] = d} = {l \in raw : DayOf[l] = d}
    BY <1>3, <2>1
  <2> QED BY <1>1, <2>1, <2>2 DEF Far, OnDay
<1>8. \A d \in Days : OnDay(d)' = OnDay(d)
  BY <1>1 DEF OnDay
<1> QED BY <1>1, <1>3, <1>6, <1>7, <1>8, InnerDays DEF IInv

\* A step that changes rows only keeps what is stored.
LEMMA RowsOnly ==
  ASSUME Basics, NEW s \in Servers, NEW x, Inner(s, x), pc[s] \notin {"store", "read"},
         x \in {"merge", "count"} => pc[s] \in {"wipe", "merge", "count"}, x \notin {"read", "wipe"}, UNCHANGED <<raw, read, late>>,
         billing' \in [Cells -> SUBSET Logs], tokens' \in [Totals -> SUBSET Logs],
         projects' \in SUBSET Projects
  PROVE  /\ Basics'
         /\ \A d \in Days : OnDay(d)' = OnDay(d)
         /\ \A d \in Days : Billed(OnDay(d)') = Billed(OnDay(d)) /\ Counted(OnDay(d)') = Counted(OnDay(d))
<1>1. TypeOK /\ Stored
  BY DEF Basics
<1>2. TypeOK'
  BY <1>1, InnerFrame DEF TypeOK, Inner
<1>3. Stored'
  <2>1. \A p : Has(p)' = Has(p)
    BY <1>1, InnerFrame DEF Has
  <2>2. \A t \in Servers : pc'[t] \notin {"idle", "store"} => pc[t] \notin {"idle", "store"}
    BY <1>1, InnerFrame
  <2> QED BY <1>1, <2>1, <2>2 DEF Stored, Inner
<1>4. \A d \in Days : OnDay(d)' = OnDay(d)
  BY DEF OnDay
<1>5. pc'[s] \in {"wipe", "merge", "count"} => \A l \in read'[s] : DayOf[l] \in Touched(s)
  BY <1>1, InnerFrame DEF Basics, ReadsOwn
<1>6. Basics'
  BY <1>2, <1>3, <1>5, InnerBasics
<1> QED BY <1>4, <1>6

\* The DELETE of the days' rows.
LEMMA WipeStep == ASSUME IInv, NEW s \in Servers, Wipe(s) PROVE IInv'
<1>1. /\ Inner(s, "merge") /\ pc[s] = "wipe"
      /\ billing' = [c \in Cells |-> IF c[1] \in Touched(s) THEN {} ELSE billing[c]]
      /\ tokens' = [y \in Totals |-> IF y[1] \in Touched(s) THEN {} ELSE tokens[y]]
      /\ UNCHANGED <<raw, projects, read, late>>
  BY DEF Wipe, At, Inner, Steps
<1>2. TypeOK
  BY DEF IInv, Basics
<1>3. billing' \in [Cells -> SUBSET Logs] /\ tokens' \in [Totals -> SUBSET Logs]
  BY <1>1, <1>2 DEF TypeOK
<1>4. Basics' /\ \A d \in Days : OnDay(d)' = OnDay(d)
  BY <1>1, <1>2, <1>3, RowsOnly DEF IInv, TypeOK
<1>5. ASSUME NEW d \in Days
      PROVE  /\ \A k \in Keys : billing'[<<d, k>>] = IF d \in Touched(s) THEN {} ELSE billing[<<d, k>>]
             /\ \A m \in Models : tokens'[<<d, m>>] = IF d \in Touched(s) THEN {} ELSE tokens[<<d, m>>]
  BY <1>1 DEF Cells, Totals
<1>6. ASSUME NEW d \in Days, Alone(s, d), Far(s, d) PROVE Far(s, d)'
  <2>1. d \in Touched(s) /\ pc'[s] = "merge"
    BY <1>1, <1>2, <1>6, InnerFrame DEF Alone, On
  <2>2. {l \in read'[s] : DayOf[l] = d} = OnDay(d)'
    BY <1>1, <1>4, <1>6 DEF Far
  <2> QED BY <1>5, <2>1, <2>2 DEF Far, NotBilled, NotCounted
<1>7. ASSUME NEW d \in Days \ Touched(s)
      PROVE  /\ \A k \in Keys : billing'[<<d, k>>] = billing[<<d, k>>]
             /\ \A m \in Models : tokens'[<<d, m>>] = tokens[<<d, m>>]
  BY <1>5, <1>7
<1> QED BY <1>1, <1>4, <1>6, <1>7, InnerDays DEF IInv

\* The upsert of what was read: over nothing it is what was read.
LEMMA MergeStep == ASSUME IInv, NEW s \in Servers, Merge(s) PROVE IInv'
<1>1. /\ Inner(s, "count") /\ pc[s] = "merge"
      /\ billing' = Over(billing, Billed(read[s]))
      /\ UNCHANGED <<raw, tokens, projects, read, late>>
  BY DEF Merge, At, Inner, Steps
<1>2. TypeOK /\ read[s] \in SUBSET Logs
  BY DEF IInv, Basics, TypeOK
<1>3. /\ billing' \in [Cells -> SUBSET Logs]
      /\ \A c \in Cells : billing'[c] = IF Billed(read[s])[c] = {} THEN billing[c] ELSE Billed(read[s])[c]
  <2>1. Billed(read[s]) \in [Cells -> SUBSET Logs] /\ billing \in [Cells -> SUBSET Logs]
    BY <1>2, RowTypes DEF TypeOK
  <2> QED BY <1>1, <2>1, OverType
<1>4. Basics' /\ \A d \in Days : OnDay(d)' = OnDay(d)
  BY <1>1, <1>2, <1>3, RowsOnly DEF IInv, TypeOK
<1>5. ASSUME NEW d \in Days, NEW k \in Keys
      PROVE  billing'[<<d, k>>] = IF Billed(read[s])[<<d, k>>] = {} THEN billing[<<d, k>>]
                                  ELSE Billed(read[s])[<<d, k>>]
  <2>1. <<d, k>> \in Cells
    BY DEF Cells
  <2> QED BY <1>3, <2>1
<1>6. ASSUME NEW d \in Days, d \notin Touched(s), NEW k \in Keys
      PROVE  billing'[<<d, k>>] = billing[<<d, k>>]
  <2>1. \A l \in read[s] : DayOf[l] \in Touched(s)
    BY <1>1 DEF IInv, Basics, ReadsOwn
  <2>2. Billed(read[s])[<<d, k>>] = {l \in read[s] : DayOf[l] = d /\ KeyOf[l] = k}
    BY BilledAt
  <2>3. Billed(read[s])[<<d, k>>] = {}
    BY <1>6, <2>1, <2>2
  <2> QED BY <1>5, <2>3
<1>7. ASSUME NEW d \in Days, Alone(s, d), Far(s, d) PROVE Far(s, d)'
  <2>1. pc'[s] = "count"
    BY <1>1, <1>2, InnerFrame
  <2>2. {l \in read[s] : DayOf[l] = d} = OnDay(d) /\ NotBilled(d) /\ NotCounted(d)
    BY <1>1, <1>7 DEF Far
  <2>3. \A k \in Keys : billing'[<<d, k>>] = Billed(OnDay(d))[<<d, k>>]
    <3>1. \A k \in Keys : Billed(read[s])[<<d, k>>] = Billed(OnDay(d))[<<d, k>>]
      BY <2>2, SameDaySameRows
    <3> QED BY <1>5, <2>2, <3>1 DEF NotBilled
  <2>4. IsBilled(d)' /\ NotCounted(d)'
    BY <1>1, <1>4, <2>2, <2>3 DEF IsBilled, NotCounted
  <2> QED BY <1>1, <1>4, <2>1, <2>2, <2>4 DEF Far
<1> QED BY <1>1, <1>4, <1>6, <1>7, InnerDays DEF IInv

\* The upsert of the token usage.
LEMMA CountStep == ASSUME IInv, NEW s \in Servers, Count(s) PROVE IInv'
<1>1. /\ Inner(s, "create") /\ pc[s] = "count"
      /\ tokens' = Over(tokens, Counted(read[s]))
      /\ UNCHANGED <<raw, billing, projects, read, late>>
  BY DEF Count, At, Inner, Steps
<1>2. TypeOK /\ read[s] \in SUBSET Logs
  BY DEF IInv, Basics, TypeOK
<1>3. /\ tokens' \in [Totals -> SUBSET Logs]
      /\ \A y \in Totals : tokens'[y] = IF Counted(read[s])[y] = {} THEN tokens[y] ELSE Counted(read[s])[y]
  <2>1. Counted(read[s]) \in [Totals -> SUBSET Logs] /\ tokens \in [Totals -> SUBSET Logs]
    BY <1>2, RowTypes DEF TypeOK
  <2> QED BY <1>1, <2>1, OverType
<1>4. Basics' /\ \A d \in Days : OnDay(d)' = OnDay(d)
  BY <1>1, <1>2, <1>3, RowsOnly DEF IInv, TypeOK
<1>5. ASSUME NEW d \in Days, NEW m \in Models
      PROVE  tokens'[<<d, m>>] = IF Counted(read[s])[<<d, m>>] = {} THEN tokens[<<d, m>>]
                                 ELSE Counted(read[s])[<<d, m>>]
  <2>1. <<d, m>> \in Totals
    BY DEF Totals
  <2> QED BY <1>3, <2>1
<1>6. ASSUME NEW d \in Days, d \notin Touched(s), NEW m \in Models
      PROVE  tokens'[<<d, m>>] = tokens[<<d, m>>]
  <2>1. \A l \in read[s] : DayOf[l] \in Touched(s)
    BY <1>1 DEF IInv, Basics, ReadsOwn
  <2>2. Counted(read[s])[<<d, m>>] = {l \in read[s] : DayOf[l] = d /\ ModelOf[KeyOf[l]] = m}
    BY CountedAt
  <2>3. Counted(read[s])[<<d, m>>] = {}
    BY <1>6, <2>1, <2>2
  <2> QED BY <1>5, <2>3
<1>7. ASSUME NEW d \in Days, Alone(s, d), Far(s, d) PROVE Far(s, d)'
  <2>1. pc'[s] = "create"
    BY <1>1, <1>2, InnerFrame
  <2>2. {l \in read[s] : DayOf[l] = d} = OnDay(d) /\ IsBilled(d) /\ NotCounted(d)
    BY <1>1, <1>7 DEF Far
  <2>3. \A m \in Models : tokens'[<<d, m>>] = Counted(OnDay(d))[<<d, m>>]
    <3>1. \A m \in Models : Counted(read[s])[<<d, m>>] = Counted(OnDay(d))[<<d, m>>]
      BY <2>2, SameDaySameRows
    <3> QED BY <1>5, <2>2, <3>1 DEF NotCounted
  <2>4. IsBilled(d)' /\ IsCounted(d)'
    BY <1>1, <1>4, <2>2, <2>3 DEF IsBilled, IsCounted
  <2> QED BY <2>1, <2>4 DEF Far
<1> QED BY <1>1, <1>4, <1>6, <1>7, InnerDays DEF IInv

\* auto_create_taiji_projects touches no rows.
LEMMA CreateProjectsStep == ASSUME IInv, NEW s \in Servers, CreateProjects(s) PROVE IInv'
<1>1. /\ Inner(s, "answer") /\ pc[s] = "create"
      /\ projects' = projects \cup {ProjectOf[KeyOf[l]] : l \in read[s]} \/ UNCHANGED projects
      /\ UNCHANGED <<raw, billing, tokens, read, late>>
  BY DEF CreateProjects, At, Inner, Steps
<1>2. TypeOK
  BY DEF IInv, Basics
<1>3. projects' \in SUBSET Projects
  <2>1. \A l \in read[s] : KeyOf[l] \in Keys
    BY <1>2, RowsOfLog DEF TypeOK
  <2> QED BY <1>1, <1>2, <2>1 DEF TypeOK, Projects
<1>4. Basics' /\ \A d \in Days : OnDay(d)' = OnDay(d)
  BY <1>1, <1>2, <1>3, RowsOnly DEF IInv, TypeOK
<1>5. ASSUME NEW d \in Days, Far(s, d) PROVE Far(s, d)'
  <2>1. pc'[s] = "answer"
    BY <1>1, <1>2, InnerFrame
  <2>2. IsBilled(d) /\ IsCounted(d)
    BY <1>1, <1>5 DEF Far
  <2>3. IsBilled(d)' /\ IsCounted(d)'
    BY <1>1, <1>4, <2>2 DEF IsBilled, IsCounted
  <2> QED BY <2>1, <2>3 DEF Far
<1> QED BY <1>1, <1>4, <1>5, InnerDays DEF IInv

-----------------------------------------------------------------------------
(* The end of a push.                                                        *)

\* A server lets go of its push: answered, which it does at the last step only, or not.
Leave(s) ==
    /\ pc[s] \in Steps
    /\ pc' = [pc EXCEPT ![s] = "idle"]
    /\ acked' \in {acked, acked \cup {push[s]}}
    /\ acked' # acked => pc[s] = "answer"
    /\ Drop(s)

\* What the end of a push changes.
LEMMA LeaveFrame ==
  ASSUME Basics, NEW s \in Servers, Leave(s)
  PROVE  /\ Cutoff' = Cutoff
         /\ \A d \in Days : OnDay(d)' = OnDay(d)
         /\ pc'[s] = "idle" /\ shared'[s] = {}
         /\ \A t \in Servers \ {s} : /\ pc'[t] = pc[t] /\ push'[t] = push[t]
                                     /\ read'[t] = read[t] /\ shared'[t] = shared[t]
         /\ \A t \in Servers \ {s} : Touched(t)' = Touched(t)
         /\ \A t \in Servers \ {s}, d \in Days : On(t, d)' = On(t, d) /\ Alone(t, d)' = Alone(t, d)
         /\ \A d \in Days : ~ On(s, d)' /\ ~ Alone(s, d)'
         /\ push[s] \in Pushes /\ Touched(s) \subseteq Days /\ shared[s] \subseteq Touched(s)
         /\ \A d \in Touched(s) : On(s, d)
<1>1. TypeOK /\ InHand(s)
  BY DEF Basics
<1>2. Cutoff' = Cutoff /\ \A d \in Days : OnDay(d)' = OnDay(d)
  BY DEF Leave, Drop, Cutoff, OnDay
<1>3. /\ pc'[s] = "idle" /\ shared'[s] = {}
      /\ \A t \in Servers \ {s} : /\ pc'[t] = pc[t] /\ push'[t] = push[t]
                                  /\ read'[t] = read[t] /\ shared'[t] = shared[t]
  BY <1>1 DEF Leave, Drop, TypeOK
<1>4. \A t \in Servers \ {s} : Touched(t)' = Touched(t)
  BY <1>3 DEF Touched
<1>5. \A t \in Servers \ {s}, d \in Days : On(t, d)' = On(t, d) /\ Alone(t, d)' = Alone(t, d)
  BY <1>3, <1>4 DEF On, Alone
<1>6. pc[s] # "idle"
  BY DEF Leave, Steps
<1>7. push[s] \in Pushes /\ Touched(s) \subseteq Days /\ shared[s] \subseteq Touched(s)
  BY <1>1, <1>6, Batches DEF InHand, Touched
<1> QED BY <1>2, <1>3, <1>4, <1>5, <1>6, <1>7 DEF On, Alone

\* Whoever is left does not have the push that was answered to himself.
LEMMA LeaveBasics ==
  ASSUME Basics, NEW s \in Servers, Leave(s), crossed' \in SUBSET Days
  PROVE  Basics'
<1>1. TypeOK /\ Meeting /\ Stored
  BY DEF Basics
<1>2. TypeOK'
  <2>1. acked' \in SUBSET Pushes
    BY <1>1, LeaveFrame DEF Leave, TypeOK
  <2>2. /\ pc' \in [Servers -> {"idle"} \cup Steps] /\ push' \in [Servers -> Pushes \cup {Idle}]
        /\ read' \in [Servers -> SUBSET Logs] /\ shared' \in [Servers -> SUBSET Days]
    BY <1>1 DEF Leave, Drop, TypeOK
  <2> QED BY <1>1, <2>1, <2>2 DEF Leave, Drop, TypeOK
<1>3. Meeting'
  <2> SUFFICES ASSUME NEW t \in Servers, NEW u \in Servers, NEW d \in Days,
                      t # u, On(t, d)', On(u, d)'
               PROVE  d \in shared'[t]
    BY DEF Meeting
  <2>1. t # s /\ u # s
    BY LeaveFrame
  <2>2. On(t, d) /\ On(u, d) /\ shared'[t] = shared[t]
    BY <2>1, LeaveFrame
  <2> QED BY <1>1, <2>2 DEF Meeting
<1>4. Stored'
  <2>1. \A p : Has(p)' = Has(p)
    BY LeaveFrame DEF Has, Leave, Drop
  <2>2. ASSUME NEW p \in acked' PROVE Has(p)
    <3>1. CASE p \in acked
      BY <1>1, <3>1 DEF Stored
    <3>2. CASE p \notin acked
      <4>1. p = push[s] /\ pc[s] = "answer"
        BY <2>2, <3>2 DEF Leave
      <4> QED BY <1>1, <4>1 DEF Stored
    <3> QED BY <3>1, <3>2
  <2>3. ASSUME NEW t \in Servers, pc'[t] \notin {"idle", "store"} PROVE Has(push'[t])
    <3>1. t # s
      BY <2>3, LeaveFrame
    <3>2. pc'[t] = pc[t] /\ push'[t] = push[t]
      BY <3>1, LeaveFrame
    <3> QED BY <1>1, <2>3, <3>2 DEF Stored
  <2> QED BY <2>1, <2>2, <2>3 DEF Stored
<1>5. ASSUME NEW t \in Servers PROVE InHand(t)' /\ ReadsOwn(t)'
  <2>1. CASE t = s
    BY <2>1, LeaveFrame DEF InHand, ReadsOwn
  <2>2. CASE t # s
    <3>1. InHand(t) /\ ReadsOwn(t)
      BY DEF Basics
    <3>2. /\ pc'[t] = pc[t] /\ push'[t] = push[t] /\ read'[t] = read[t] /\ shared'[t] = shared[t]
          /\ Touched(t)' = Touched(t) /\ Cutoff' = Cutoff /\ tries' = tries
          /\ late' = late
      BY <2>2, LeaveFrame DEF Leave, Drop
    <3>3. ASSUME NEW d \in Days, Alone(t, d)' PROVE push'[t] \notin acked'
      <4>1. Alone(t, d)
        BY <2>2, <3>3, LeaveFrame
      <4>2. push[t] \notin acked
        BY <3>1, <4>1 DEF InHand
      <4>3. ~ On(s, d)
        BY <1>1, <2>2, <4>1 DEF Meeting, Alone
      <4>4. push[t] # push[s]
        BY <4>1, <4>3, LeaveFrame DEF Alone, On, Touched
      <4> QED BY <3>2, <4>2, <4>4 DEF Leave
    <3>4. InHand(t)'
      BY <3>1, <3>2, <3>3 DEF InHand
    <3> QED BY <3>1, <3>2, <3>4 DEF ReadsOwn
  <2> QED BY <2>1, <2>2
<1> QED BY <1>2, <1>3, <1>4, <1>5 DEF Basics

\* The days of others stay as they are, and nobody is alone on a day of the server.
LEMMA LeaveDays ==
  ASSUME IInv, NEW s \in Servers, Leave(s), crossed' \in SUBSET Days,
         \A d \in Days \ Touched(s) : d \in crossed' <=> d \in crossed
  PROVE  /\ \A d \in Days \ Touched(s) : DayHolds(d)'
         /\ \A d \in Touched(s), t \in Servers : ~ Alone(t, d)'
<1>1. TypeOK /\ Meeting /\ Basics
  BY DEF IInv, Basics
<1>2. ASSUME NEW d \in Days \ Touched(s) PROVE DayHolds(d)'
  <2>1. d \notin DaysOf(push[s])
    BY DEF Touched
  <2>2. Undisturbed(d)' => Undisturbed(d)
    <3> SUFFICES ASSUME Undisturbed(d)' PROVE Settled(d)
      BY DEF Undisturbed
    <3>1. ASSUME NEW p \in Pushes, d \in DaysOf(p), tries[p] > 0 PROVE p \in acked
      <4>1. p \in acked'
        BY <3>1 DEF Undisturbed, Settled, Leave, Drop
      <4> QED BY <2>1, <3>1, <4>1 DEF Leave
    <3>2. ASSUME NEW t \in Servers, pc[t] # "idle" PROVE d \notin Touched(t)
      <4>1. CASE t = s
        BY <4>1
      <4>2. CASE t # s
        BY <1>1, <3>2, <4>2, LeaveFrame DEF Undisturbed, Settled
      <4> QED BY <4>1, <4>2
    <3> QED BY <3>1, <3>2 DEF Settled
  <2>3. \A p \in acked' : p \in acked \/ ~ \E l \in BatchOf[p] : DayOf[l] = d
    BY <2>1 DEF Leave, DaysOf
  <2>4. ASSUME NEW t \in Servers, Alone(t, d)' PROVE Alone(t, d) /\ pc'[t] = pc[t] /\ read'[t] = read[t]
    <3>1. t # s
      BY <1>1, <2>4, LeaveFrame
    <3> QED BY <1>1, <2>4, <3>1, LeaveFrame
  <2>5. DayHolds(d) /\ Cutoff' = Cutoff /\ OnDay(d)' = OnDay(d) /\ UNCHANGED <<billing, tokens, late>>
    BY <1>1, LeaveFrame DEF IInv, Leave, Drop
  <2> QED BY <1>1, <2>2, <2>3, <2>4, <2>5, Elsewhere
<1>3. ASSUME NEW d \in Touched(s), NEW t \in Servers PROVE ~ Alone(t, d)'
  <2>1. On(s, d) /\ d \in Days
    BY <1>1, LeaveFrame
  <2>2. CASE t = s
    BY <1>1, <2>1, <2>2, LeaveFrame
  <2>3. CASE t # s
    <3>1. ~ Alone(t, d)
      BY <1>1, <2>1, <2>3 DEF Meeting, Alone
    <3> QED BY <1>1, <2>1, <2>3, <3>1, LeaveFrame
  <2> QED BY <2>2, <2>3
<1> QED BY <1>2, <1>3

\* A push that had a day to itself leaves it in agreement with its raw logs.
LEMMA AnswerStep == ASSUME IInv, NEW s \in Servers, Answer(s) PROVE IInv'
<1>1. Leave(s) /\ pc[s] = "answer" /\ crossed' = (crossed \ Touched(s)) \cup shared[s]
  BY DEF Answer, At, Leave, Steps
<1>2. Basics
  BY DEF IInv
<1>3. crossed' \in SUBSET Days /\ \A d \in Days \ Touched(s) : d \in crossed' <=> d \in crossed
  BY <1>1, <1>2, LeaveFrame DEF Basics, TypeOK
<1>4. Basics'
  BY <1>1, <1>2, <1>3, LeaveBasics
<1>5. ASSUME NEW d \in Days, d \in Touched(s) PROVE DayHolds(d)'
  <2>1. \A t \in Servers : ~ Alone(t, d)'
    BY <1>1, <1>3, <1>5, LeaveDays
  <2>2. CASE d \in shared[s]
    BY <1>1, <2>1, <2>2, Disputed DEF Undisturbed
  <2>3. CASE d \notin shared[s]
    <3>1. Alone(s, d) /\ InHand(s) /\ DayHolds(d)
      BY <1>1, <1>2, <1>5, <2>3, LeaveFrame DEF IInv, Basics, Alone
    <3>2. Cutoff' = Cutoff /\ OnDay(d)' = OnDay(d) /\ UNCHANGED <<billing, tokens, late>>
      BY <1>1, <1>2, LeaveFrame DEF Leave, Drop
    <3>3. CASE d >= Cutoff
      <4>1. IsBilled(d) /\ IsCounted(d)
        BY <1>1, <3>1, <3>3 DEF DayHolds, Far
      <4>2. IsBilled(d)' /\ IsCounted(d)'
        BY <3>2, <4>1 DEF IsBilled, IsCounted
      <4>3. ~ (d < Cutoff)
        BY <1>2, <3>3, Bounds DEF Basics
      <4> QED BY <2>1, <3>2, <4>2, <4>3 DEF DayHolds
    <3>4. CASE ~ (d >= Cutoff)
      <4>1. d \in late
        BY <1>1, <1>5, <3>1, <3>4 DEF InHand
      <4> QED BY <2>1, <3>2, <3>4, <4>1 DEF DayHolds
    <3> QED BY <3>3, <3>4
  <2> QED BY <2>2, <2>3
<1> QED BY <1>1, <1>3, <1>4, <1>5, LeaveDays DEF IInv

\* A day it fails on is not settled until the client has sent the push again.
LEMMA FailStep == ASSUME IInv, NEW s \in Servers, Fail(s) PROVE IInv'
<1>1. Leave(s) /\ acked' = acked /\ crossed' = crossed \cup shared[s]
  BY DEF Fail, Leave
<1>2. Basics
  BY DEF IInv
<1>3. crossed' \in SUBSET Days /\ \A d \in Days \ Touched(s) : d \in crossed' <=> d \in crossed
  BY <1>1, <1>2, LeaveFrame DEF Basics, TypeOK
<1>4. Basics'
  BY <1>1, <1>2, <1>3, LeaveBasics
<1>5. ASSUME NEW d \in Days, d \in Touched(s) PROVE DayHolds(d)'
  <2>1. \A t \in Servers : ~ Alone(t, d)'
    BY <1>1, <1>3, <1>5, LeaveDays
  <2>2. CASE d \in shared[s]
    BY <1>1, <2>1, <2>2, Disputed DEF Undisturbed
  <2>3. CASE d \notin shared[s]
    <3>1. Alone(s, d) /\ InHand(s)
      BY <1>1, <1>2, <1>5, <2>3, LeaveFrame DEF Basics, Alone
    <3>2. push[s] \in Pushes /\ push[s] \notin acked' /\ tries'[push[s]] > 0 /\ d \in DaysOf(push[s])
      BY <1>1, <1>5, <3>1 DEF InHand, Alone, On, Touched, Leave, Drop
    <3>3. ~ Undisturbed(d)'
      BY <3>2 DEF Undisturbed, Settled
    <3> QED BY <2>1, <3>3, Disputed
  <2> QED BY <2>2, <2>3
<1> QED BY <1>1, <1>3, <1>4, <1>5, LeaveDays DEF IInv

-----------------------------------------------------------------------------
(* The other steps.                                                          *)

\* What a push that begins at s changes: who else is at its days.
LEMMA ReceiveFrame ==
  ASSUME Basics, NEW s \in Servers, NEW p \in Pushes, Receive(s, p)
  PROVE  /\ pc[s] = "idle" /\ pc'[s] = "store" /\ push'[s] = p /\ Touched(s)' = DaysOf(p)
         /\ pc' \in [Servers -> {"idle"} \cup Steps] /\ push' \in [Servers -> Pushes \cup {Idle}]
         /\ tries' \in [Pushes -> 0 .. MaxTries] /\ tries'[p] > 0
         /\ \A q \in Pushes \ {p} : tries'[q] = tries[q]
         /\ \A q \in Pushes : tries[q] > 0 => tries'[q] > 0
         /\ \A t \in Servers \ {s} : /\ pc'[t] = pc[t] /\ push'[t] = push[t]
                                     /\ Touched(t)' = Touched(t)
         /\ shared'[s] = UNION {Common(s, p, u) : u \in Servers}
         /\ \A t \in Servers \ {s} : shared'[t] = shared[t] \cup Common(s, p, t)
         /\ \A t \in Servers : Common(s, p, t) \subseteq DaysOf(p)
         /\ \A t \in Servers, d \in DaysOf(p) : d \in Common(s, p, t) <=> t # s /\ On(t, d)
         /\ shared' \in [Servers -> SUBSET Days]
<1>1. TypeOK
  BY DEF Basics
<1>2. /\ pc[s] = "idle" /\ pc'[s] = "store" /\ push'[s] = p
      /\ pc' \in [Servers -> {"idle"} \cup Steps] /\ push' \in [Servers -> Pushes \cup {Idle}]
      /\ \A t \in Servers \ {s} : pc'[t] = pc[t] /\ push'[t] = push[t]
  BY <1>1 DEF Receive, At, TypeOK, Steps
<1>3. /\ tries' \in [Pushes -> 0 .. MaxTries] /\ tries'[p] > 0
      /\ \A q \in Pushes \ {p} : tries'[q] = tries[q]
  BY <1>1, ConstantsOK DEF Receive, TypeOK
<1>4. \A q \in Pushes : tries[q] > 0 => tries'[q] > 0
  BY <1>3
<1>5. Touched(s)' = DaysOf(p) /\ \A t \in Servers \ {s} : Touched(t)' = Touched(t)
  BY <1>2 DEF Touched
<1>6. /\ \A t \in Servers : Common(s, p, t) \subseteq DaysOf(p)
      /\ \A t \in Servers, d \in DaysOf(p) : d \in Common(s, p, t) <=> t # s /\ On(t, d)
  BY DEF Common, On
<1>7. shared' = [t \in Servers |->
         IF t = s THEN UNION {Common(s, p, u) : u \in Servers} ELSE shared[t] \cup Common(s, p, t)]
  BY DEF Receive, Meet
<1>8. /\ shared'[s] = UNION {Common(s, p, u) : u \in Servers}
      /\ \A t \in Servers \ {s} : shared'[t] = shared[t] \cup Common(s, p, t)
  BY <1>7
<1>9. shared' \in [Servers -> SUBSET Days]
  <2>1. \A t \in Servers : Common(s, p, t) \subseteq Days
    BY <1>6, Batches
  <2>2. UNION {Common(s, p, u) : u \in Servers} \subseteq Days
    BY <2>1
  <2> QED BY <1>1, <1>7, <2>1, <2>2 DEF TypeOK
<1> QED BY <1>2, <1>3, <1>4, <1>5, <1>6, <1>8, <1>9

\* The basics when a push begins.
LEMMA ReceiveBasics ==
  ASSUME Basics, NEW s \in Servers, NEW p \in Pushes, Receive(s, p)
  PROVE  Basics'
<1>1. TypeOK /\ Meeting /\ Stored /\ \A t \in Servers : InHand(t) /\ ReadsOwn(t)
  BY DEF Basics
<1>2. TypeOK'
  BY <1>1, ReceiveFrame DEF TypeOK, Receive
<1>3. \A t \in Servers \ {s}, d \in Days : On(t, d)' = On(t, d)
  BY ReceiveFrame DEF On
<1>4. \A d \in Days : On(s, d)' => d \in DaysOf(p)
  BY ReceiveFrame DEF On
<1>5. Meeting'
  <2> SUFFICES ASSUME NEW t \in Servers, NEW u \in Servers, NEW d \in Days,
                      t # u, On(t, d)', On(u, d)'
               PROVE  d \in shared'[t]
    BY DEF Meeting
  <2>1. CASE t = s
    <3>1. d \in DaysOf(p) /\ On(u, d)
      BY <1>3, <1>4, <2>1
    <3>2. d \in Common(s, p, u)
      BY <2>1, <3>1, ReceiveFrame
    <3> QED BY <2>1, <3>2, ReceiveFrame
  <2>2. CASE t # s /\ u = s
    <3>1. d \in DaysOf(p) /\ On(t, d)
      BY <1>3, <1>4, <2>2
    <3>2. d \in Common(s, p, t)
      BY <2>2, <3>1, ReceiveFrame
    <3> QED BY <2>2, <3>2, ReceiveFrame
  <2>3. CASE t # s /\ u # s
    <3>1. d \in shared[t]
      BY <1>1, <1>3, <2>3 DEF Meeting
    <3> QED BY <2>3, <3>1, ReceiveFrame
  <2> QED BY <2>1, <2>2, <2>3
<1>6. Stored'
  <2>1. \A q : Has(q)' = Has(q)
    BY DEF Has, Cutoff, Receive
  <2>2. acked' = acked
    BY DEF Receive
  <2>3. ASSUME NEW t \in Servers, pc'[t] \notin {"idle", "store"} PROVE Has(push'[t])
    <3>1. t # s
      BY <2>3, ReceiveFrame
    <3>2. pc'[t] = pc[t] /\ push'[t] = push[t]
      BY <3>1, ReceiveFrame
    <3> QED BY <1>1, <2>3, <3>2 DEF Stored
  <2> QED BY <1>1, <2>1, <2>2, <2>3 DEF Stored
<1>7. ASSUME NEW t \in Servers PROVE InHand(t)' /\ ReadsOwn(t)'
  <2>1. Cutoff' = Cutoff /\ acked' = acked /\ read' = read /\ late' = late
    BY DEF Receive, Cutoff
  <2>2. CASE t = s
    <3>1. shared'[s] \subseteq DaysOf(p)
      BY ReceiveFrame
    <3>2. p \notin acked
      BY DEF Receive
    <3> QED BY <2>1, <2>2, <3>1, <3>2, ReceiveFrame DEF InHand, ReadsOwn
  <2>3. CASE t # s
    <3>1. /\ pc'[t] = pc[t] /\ push'[t] = push[t] /\ Touched(t)' = Touched(t)
          /\ shared'[t] = shared[t] \cup Common(s, p, t)
      BY <2>3, ReceiveFrame
    <3>2. /\ pc[t] = "idle" => Common(s, p, t) = {}
          /\ Common(s, p, t) \subseteq Touched(t)
      BY DEF Common
    <3>3. \A d \in Days : Alone(t, d)' => Alone(t, d)
      BY <1>3, <2>3, <3>1 DEF Alone
    <3>4. pc[t] # "idle" => tries'[push[t]] > 0
      BY <1>1, ReceiveFrame DEF InHand
    <3> QED BY <1>1, <2>1, <3>1, <3>2, <3>3, <3>4 DEF InHand, ReadsOwn
  <2> QED BY <2>2, <2>3
<1> QED BY <1>2, <1>5, <1>6, <1>7 DEF Basics

\* A push unsettles its days, and whoever was alone on one of them no longer is.
LEMMA ReceiveStep == ASSUME IInv, NEW s \in Servers, NEW p \in Pushes, Receive(s, p) PROVE IInv'
<1>1. Basics /\ TypeOK /\ Basics'
  BY ReceiveBasics DEF IInv, Basics
<1>2. \A t \in Servers \ {s}, d \in Days : On(t, d)' = On(t, d) /\ (Alone(t, d)' => Alone(t, d))
  BY <1>1, ReceiveFrame DEF On, Alone
<1>3. ASSUME NEW d \in Days, d \in DaysOf(p) PROVE DayHolds(d)'
  <2>1. ~ Undisturbed(d)'
    BY <1>1, <1>3, ReceiveFrame DEF Undisturbed, Settled
  <2>2. ASSUME NEW t \in Servers, Alone(t, d)' PROVE Far(t, d)'
    <3>1. CASE t = s
      BY <1>1, <3>1, ReceiveFrame DEF Far
    <3>2. CASE t # s
      <4>1. On(t, d)
        BY <1>2, <2>2, <3>2 DEF Alone
      <4>2. d \in shared'[t]
        BY <1>1, <1>3, <3>2, <4>1, ReceiveFrame
      <4> QED BY <2>2, <4>2 DEF Alone
    <3> QED BY <3>1, <3>2
  <2> QED BY <2>1, <2>2 DEF DayHolds
<1>4. ASSUME NEW d \in Days, d \notin DaysOf(p) PROVE DayHolds(d)'
  <2>1. Undisturbed(d)' => Undisturbed(d)
    <3> SUFFICES ASSUME Undisturbed(d)' PROVE Settled(d)
      BY DEF Undisturbed, Receive
    <3>1. ASSUME NEW q \in Pushes, d \in DaysOf(q), tries[q] > 0 PROVE q \in acked
      BY <1>1, <1>4, <3>1, ReceiveFrame DEF Undisturbed, Settled, Receive
    <3>2. ASSUME NEW t \in Servers, pc[t] # "idle" PROVE d \notin Touched(t)
      <4>1. t # s
        BY <1>1, <3>2, ReceiveFrame
      <4> QED BY <1>1, <3>2, <4>1, ReceiveFrame DEF Undisturbed, Settled
    <3> QED BY <3>1, <3>2 DEF Settled
  <2>2. ASSUME NEW t \in Servers, Alone(t, d)' PROVE Alone(t, d) /\ pc'[t] = pc[t] /\ read'[t] = read[t]
    <3>1. t # s
      BY <1>1, <1>4, <2>2, ReceiveFrame DEF Alone, On
    <3> QED BY <1>1, <1>2, <2>2, <3>1, ReceiveFrame DEF Receive
  <2>3. DayHolds(d) /\ Cutoff' = Cutoff /\ OnDay(d)' = OnDay(d) /\ UNCHANGED <<billing, tokens, acked, late>>
    BY DEF IInv, Receive, Cutoff, OnDay
  <2> QED BY <1>1, <2>1, <2>2, <2>3, Elsewhere
<1> QED BY <1>1, <1>3, <1>4 DEF IInv

\* gc_taiji_raw_logs, and no step at all: no day within the retention is touched.
LEMMA CollectStep ==
  ASSUME IInv, UNCHANGED <<billing, tokens, projects, today, pc, push, read, tries, acked, shared, crossed,
                     late>>,
         raw' = {l \in raw : DayOf[l] >= Cutoff} \/ raw' = raw
  PROVE  IInv'
<1>1. TypeOK /\ Meeting /\ Stored /\ \A t \in Servers : InHand(t) /\ ReadsOwn(t)
  BY DEF IInv, Basics
<1>2. Cutoff' = Cutoff /\ Meeting' /\ \A t \in Servers : InHand(t)' /\ ReadsOwn(t)'
  BY <1>1 DEF Cutoff, Meeting, InHand, ReadsOwn, On, Alone, Touched
<1>3. TypeOK'
  BY <1>1 DEF TypeOK
<1>4. Stored'
  <2>1. \A p : Has(p) => Has(p)'
    BY <1>2 DEF Has
  <2> QED BY <1>1, <2>1 DEF Stored
<1>5. ASSUME NEW d \in Days PROVE DayHolds(d)'
  <2>1. d >= Cutoff => OnDay(d)' = OnDay(d)
    BY DEF OnDay
  <2>2. Undisturbed(d)' = Undisturbed(d) /\ \A t \in Servers : Alone(t, d)' = Alone(t, d)
    BY DEF Undisturbed, Settled, Alone, On, Touched
  <2>3. DayHolds(d)
    BY DEF IInv
  <2> QED BY <1>1, <1>2, <2>1, <2>2, <2>3, Elsewhere
<1> QED BY <1>1, <1>2, <1>3, <1>4, <1>5 DEF IInv, Basics

\* A day within the retention that agrees with its raw logs has what was answered.
LEMMA AgreedIsAcknowledged ==
  ASSUME TypeOK, Stored, NEW d \in Days, d >= Cutoff, IsBilled(d), IsCounted(d)
  PROVE  Acknowledged(d)
<1> SUFFICES ASSUME NEW p \in acked, NEW l \in BatchOf[p], DayOf[l] = d
             PROVE  l \in billing[<<d, KeyOf[l]>>] /\ l \in tokens[<<d, ModelOf[KeyOf[l]]>>]
  BY DEF Acknowledged
<1>1. l \in Logs
  BY Batches DEF TypeOK
<1>2. l \in OnDay(d) /\ KeyOf[l] \in Keys /\ ModelOf[KeyOf[l]] \in Models
  BY <1>1, RowsOfLog DEF Stored, Has, OnDay
<1>3. l \in Billed(OnDay(d))[<<d, KeyOf[l]>>]
  BY <1>2, BilledAt
<1>4. l \in Counted(OnDay(d))[<<d, ModelOf[KeyOf[l]]>>]
  BY <1>2, CountedAt
<1> QED BY <1>2, <1>3, <1>4 DEF IsBilled, IsCounted

\* A day that leaves the retention takes with it what was answered.
LEMMA MidnightStep == ASSUME IInv, Midnight PROVE IInv'
<1>1. TypeOK /\ Meeting /\ Stored /\ \A t \in Servers : InHand(t) /\ ReadsOwn(t)
  BY DEF IInv, Basics
<1>2. Cutoff \in Int /\ Cutoff' = Cutoff + 1 /\ Days \subseteq Int
  BY <1>1, Bounds, ConstantsOK DEF Midnight, Cutoff, TypeOK, Days
<1>3. TypeOK'
  BY <1>1, ConstantsOK DEF TypeOK, Midnight, Days
<1>4. \A t \in Servers : Touched(t)' = Touched(t)
  BY DEF Touched, Midnight
<1>5. \A t \in Servers, d \in Days : On(t, d)' = On(t, d) /\ Alone(t, d)' = Alone(t, d)
  BY <1>4 DEF On, Alone, Midnight
<1>6. Meeting'
  BY <1>1, <1>5 DEF Meeting, Midnight
<1>7. ASSUME NEW t \in Servers PROVE InHand(t)' /\ ReadsOwn(t)'
  <2>1. pc[t] \notin {"idle", "store", "read"} => \A d \in Touched(t) : d >= Cutoff' \/ d \in late
    <3> SUFFICES ASSUME pc[t] \notin {"idle", "store", "read"}, NEW d \in Touched(t), d \notin late
                 PROVE  d >= Cutoff'
      OBVIOUS
    <3>1. d \in Days
      BY <1>1, Batches DEF InHand, Touched
    <3>2. d >= Cutoff /\ d # Cutoff
      BY <1>1 DEF InHand, Midnight
    <3> QED BY <1>2, <3>1, <3>2
  <2> QED BY <1>1, <1>4, <1>5, <2>1 DEF InHand, ReadsOwn, Midnight
<1>8. Stored'
  <2>1. ASSUME NEW p \in Pushes, Has(p) PROVE Has(p)'
    <3> SUFFICES ASSUME NEW l \in BatchOf[p], DayOf[l] >= Cutoff' PROVE l \in raw'
      BY DEF Has
    <3>1. DayOf[l] \in Int
      BY <1>2, Batches
    <3> QED BY <1>2, <2>1, <3>1 DEF Has, Midnight
  <2>2. \A t \in Servers : pc[t] # "idle" => push[t] \in Pushes
    BY <1>1 DEF InHand
  <2> QED BY <1>1, <2>1, <2>2 DEF Stored, Midnight, TypeOK
<1>9. ASSUME NEW d \in Days PROVE DayHolds(d)'
  <2>1. DayHolds(d) /\ d \in Int
    BY <1>2 DEF IInv
  <2>2. \A t \in Servers : (pc'[t] # "idle" => d \notin Touched(t)') = (pc[t] # "idle" => d \notin Touched(t))
    BY <1>4 DEF Midnight
  <2>3. Undisturbed(d)' = Undisturbed(d)
    BY <2>2 DEF Undisturbed, Settled, Midnight
  <2>4. /\ IsBilled(d)' = IsBilled(d) /\ IsCounted(d)' = IsCounted(d)
        /\ NotBilled(d)' = NotBilled(d) /\ NotCounted(d)' = NotCounted(d)
        /\ OnDay(d)' = OnDay(d)
    BY DEF IsBilled, IsCounted, NotBilled, NotCounted, OnDay, Midnight
  <2>5. \A t \in Servers : Far(t, d)' = Far(t, d)
    BY <2>4 DEF Far, Midnight
  <2>6. Acknowledged(d)' = Acknowledged(d)
    BY DEF Acknowledged, Midnight
  <2>7. d >= Cutoff' => d >= Cutoff
    BY <1>2, <2>1
  <2>8. ASSUME d < Cutoff', Undisturbed(d), d \notin late PROVE Acknowledged(d)
    <3>1. CASE d < Cutoff
      BY <2>1, <2>8, <3>1 DEF DayHolds
    <3>2. CASE d = Cutoff
      <4>1. d >= Cutoff
        BY <1>2, <3>2
      <4> QED BY <1>1, <2>1, <2>8, <4>1, AgreedIsAcknowledged DEF DayHolds
    <3> QED BY <1>2, <2>1, <2>8, <3>1, <3>2
  <2>9. late' = late
    BY DEF Midnight
  <2> QED BY <1>5, <2>1, <2>3, <2>4, <2>5, <2>6, <2>7, <2>8, <2>9 DEF DayHolds
<1> QED BY <1>3, <1>6, <1>7, <1>8, <1>9 DEF IInv, Basics

-----------------------------------------------------------------------------
(* The invariant and what follows from it.                                   *)

\* Nothing was sent, stored or billed.
LEMMA InitHolds == Init => IInv
<1> SUFFICES ASSUME Init PROVE IInv
  OBVIOUS
<1>1. TypeOK
  BY ConstantsOK DEF Init, TypeOK, Days
<1>2. \A t \in Servers, d \in Days : ~ On(t, d) /\ ~ Alone(t, d)
  BY DEF Init, On, Alone
<1>3. Basics
  BY <1>1, <1>2 DEF Basics, Meeting, Stored, InHand, ReadsOwn, Init
<1>4. ASSUME NEW d \in Days PROVE DayHolds(d)
  <2>1. OnDay(d) = {} /\ acked = {}
    BY DEF OnDay, Init
  <2>2. \A k \in Keys : billing[<<d, k>>] = {} /\ Billed({})[<<d, k>>] = {}
    BY BilledAt DEF Init, Cells
  <2>3. \A m \in Models : tokens[<<d, m>>] = {} /\ Counted({})[<<d, m>>] = {}
    BY CountedAt DEF Init, Totals
  <2>4. IsBilled(d) /\ IsCounted(d) /\ Acknowledged(d)
    BY <2>1, <2>2, <2>3 DEF IsBilled, IsCounted, Acknowledged
  <2> QED BY <1>2, <2>4 DEF DayHolds
<1> QED BY <1>3, <1>4 DEF IInv

\* Every step keeps the invariant.
LEMMA StepHolds == IInv /\ [Next]_vars => IInv'
<1> SUFFICES ASSUME IInv, [Next]_vars PROVE IInv'
  OBVIOUS
<1>1. CASE \E s \in Servers : Work(s)
  BY <1>1, StoreStep, ReadStep, WipeStep, MergeStep, CountStep, CreateProjectsStep, AnswerStep,
     FailStep DEF Work
<1>2. CASE \E s \in Servers, p \in Pushes : Receive(s, p)
  BY <1>2, ReceiveStep
<1>3. CASE Collect
  BY <1>3, CollectStep DEF Collect
<1>4. CASE Midnight
  BY <1>4, MidnightStep
<1>5. CASE UNCHANGED vars
  BY <1>5, CollectStep DEF vars
<1> QED BY <1>1, <1>2, <1>3, <1>4, <1>5 DEF Next

\* The invariant always holds.
LEMMA Invariance == Spec => []IInv
BY InitHolds, StepHolds, PTL DEF Spec

\* The tables, the servers and the client have their types.
THEOREM IngestTypes == Spec => []TypeOK
<1>1. IInv => TypeOK
  BY DEF IInv, Basics
<1> QED BY <1>1, Invariance, PTL

\* The rows of a settled day whose last push had it to itself add up exactly its raw logs while
\* these are kept, however pushes were retried, failed half-way or crossed, late ones included.
THEOREM RawIsTheTruth == Spec => []SingleTruth
<1>1. IInv => SingleTruth
  BY DEF IInv, DayHolds, SingleTruth, IsBilled, IsCounted
<1> QED BY <1>1, Invariance, PTL

\* What was answered with 200 is billed and counted on a settled day, also after its raw logs were
\* collected, unless a push has aggregated the day from what the collection left.
THEOREM AnsweredIsBilled == Spec => []AckedIsBilled
<1>1. IInv => AckedIsBilled
  <2> SUFFICES ASSUME IInv, NEW p \in acked, NEW l \in BatchOf[p], Undisturbed(DayOf[l]),
                      DayOf[l] \notin late
               PROVE  Recorded(l)
    BY DEF AckedIsBilled
  <2> DEFINE d == DayOf[l]
  <2>1. TypeOK /\ Stored /\ d \in Days /\ d \in Int /\ Cutoff \in Int /\ DayHolds(d)
    BY RowsOfLog, Batches, Bounds DEF IInv, Basics, TypeOK
  <2>2. Acknowledged(d)
    <3>1. CASE d >= Cutoff
      BY <2>1, <3>1, AgreedIsAcknowledged DEF DayHolds
    <3>2. CASE d < Cutoff
      BY <2>1, <3>2 DEF DayHolds
    <3> QED BY <2>1, <3>1, <3>2
  <2> QED BY <2>2 DEF Acknowledged, Recorded
<1> QED BY <1>1, Invariance, PTL
=============================================================================
