------------------------- MODULE MonthlyBill_proofs -------------------------
(***************************************************************************)
(* What the monthly bills promise: theorems about MonthlyBill for any keys,  *)
(* operators, jobs, bases and adjustments.                                   *)
(***************************************************************************)
EXTENDS MonthlyBill, TLAPS

\* What an operator's request remembers of a bill, while it edits one or regenerates: one row,
\* or one draft per key.
Knows(u) ==
    /\ pc[u] \notin Editing => loaded[u] = NoRow
    /\ pc[u] \in Editing => loaded[u] # NoRow /\ doomed[u] = {}
    /\ pc[u] = "idle" => doomed[u] = {}
    /\ \A k \in Keys, i, j \in Ids : <<k, i>> \in doomed[u] /\ <<k, j>> \in doomed[u] => i = j

\* The job deletes nothing.
JobsSpare == \A r \in Jobs : doomed[r] = {}

Typed == TypeOK /\ JobsSpare /\ \A u \in Users : Knows(u)

\* Who does nothing has missed nothing.
Rested(r) == pc[r] = "idle" => missed[r] = {}

\* The row that an operator edits is still the one that was loaded, up to its amounts, unless it is
\* gone or somebody else has saved it.
Agrees(u) ==
    /\ bill[key[u]].status = loaded[u].status
    /\ bill[key[u]].adjustment = loaded[u].adjustment
    /\ key[u] \notin raced => loaded[u].final_cost[2] = loaded[u].adjustment

Same(u) ==
    pc[u] \in Editing =>
        /\ loaded[u].status \in Editable(pc[u])
        /\ bill[key[u]].id = loaded[u].id /\ key[u] \notin missed[u] => Agrees(u)

\* What a regeneration deletes is a draft, unless somebody has saved it since.
Drafts(r) ==
    \A k \in Keys, i \in Ids : <<k, i>> \in doomed[r] /\ bill[k].id = i /\ k \notin missed[r] =>
        bill[k].status = "draft"

\* The list of bills that a generation leaves alone is up to date, but for those saved since.
Listed(r) ==
    pc[r] = "upsert" =>
        \/ rows[r] = NoRows
        \/ \A k \in Keys : bill[k].status \in {"confirmed", "paid"} /\ k \notin missed[r] =>
              k \in locked[r]

Kind(r) == Rested(r) /\ Drafts(r) /\ Listed(r) /\ (r \in Users => Same(r))

IInv == Typed /\ AdjustmentCounts /\ \A r \in Requests : Kind(r)

-----------------------------------------------------------------------------
(* Rows and the checks of their status.                                      *)

\* A row that is there has all its columns.
LEMMA RowThere ==
  ASSUME NEW row \in Row, row # NoRow
  PROVE  /\ row \in [id : Ids, status : {"draft", "confirmed", "paid"}, base : Bases,
                     adjustment : Adjustments, final_cost : Bases \X Adjustments]
         /\ row.id \in Ids /\ row.id # 0
         /\ row.status \in {"draft", "confirmed", "paid"}
         /\ row.base \in Bases /\ row.adjustment \in Adjustments
         /\ row.final_cost \in Bases \X Adjustments
BY ConstantsOK DEF Row

\* No row has neither id nor status.
LEMMA RowMissing ==
  /\ NoRow \in Row
  /\ NoRow.id = 0 /\ NoRow.status = "none"
  /\ NoRow.base = NoBase /\ NoRow.adjustment = 0 /\ NoRow.final_cost = <<NoBase, 0>>
BY DEF Row, NoRow

\* A row is there when its status says so.
LEMMA RowById ==
  ASSUME NEW row \in Row
  PROVE  /\ row.id \in Ids \cup {0}
         /\ row.id = 0 <=> row = NoRow
         /\ row.status = "none" <=> row = NoRow
         /\ row.status \in {"none", "draft", "confirmed", "paid"}
<1>1. CASE row = NoRow
  BY <1>1, RowMissing
<1>2. CASE row # NoRow
  BY <1>2, RowThere
<1> QED BY <1>1, <1>2

\* What each operation accepts.
LEMMA Accepted ==
  /\ Editable("adjust") = {"draft", "confirmed"} /\ Editable("confirm") = {"draft"}
  /\ Editable("pay") = {"confirmed"} /\ Editable("delete") = {"draft"}
  /\ \A op \in Editing : Editable(op) \subseteq {"draft", "confirmed"}
BY DEF Editable, Editing

\* A serial gives a key that no row and no operator knows.
LEMMA FreshIds ==
  ASSUME Typed, NEW k \in Keys
  PROVE  /\ FreshId(k) \in Ids /\ FreshId(k) # bill[k].id
         /\ \A u \in Users : key[u] = k => FreshId(k) # loaded[u].id
         /\ \A r \in Requests : <<k, FreshId(k)>> \notin doomed[r]
<1> DEFINE used == [u \in Users |->
                      IF pc[u] \in Editing THEN loaded[u].id
                      ELSE IF \E i \in Ids : <<k, i>> \in doomed[u]
                           THEN CHOOSE i \in Ids : <<k, i>> \in doomed[u] ELSE 0]
<1>1. TypeOK /\ bill[k] \in Row /\ bill[k].id \in Ids \cup {0}
  BY RowById DEF Typed, TypeOK
<1>2. ASSUME NEW u \in Users
      PROVE  /\ used[u] \in Ids \cup {0}
             /\ \A i \in Ids : i # used[u] =>
                   /\ i # loaded[u].id
                   /\ <<k, i>> \notin doomed[u]
  <2>1. Knows(u) /\ loaded[u] \in Row
    BY <1>1 DEF Typed, TypeOK
  <2>2. CASE pc[u] \in Editing
    BY <2>1, <2>2, RowById DEF Knows
  <2>3. CASE pc[u] \notin Editing
    <3>1. loaded[u].id = 0
      BY <2>1, <2>3, RowMissing DEF Knows
    <3>2. \A i \in Ids : i # 0
      BY ConstantsOK
    <3>3. CASE \E i \in Ids : <<k, i>> \in doomed[u]
      <4>1. used[u] = CHOOSE i \in Ids : <<k, i>> \in doomed[u]
        BY <2>3, <3>3
      <4>2. used[u] \in Ids /\ <<k, used[u]>> \in doomed[u]
        BY <3>3, <4>1
      <4>3. \A i \in Ids : <<k, i>> \in doomed[u] => i = used[u]
        BY <2>1, <4>2 DEF Knows
      <4> QED BY <3>1, <3>2, <4>2, <4>3
    <3>4. CASE ~ \E i \in Ids : <<k, i>> \in doomed[u]
      BY <2>3, <3>1, <3>2, <3>4
    <3> QED BY <3>3, <3>4
  <2> QED BY <2>2, <2>3
<1>3. used \in [Users -> Ids \cup {0}]
  BY <1>2
<1>4. PICK j \in Ids : j # bill[k].id /\ \A u \in Users : j # used[u]
  BY <1>1, <1>3, IdsSuffice
<1>5. \A u \in Users : j # loaded[u].id /\ <<k, j>> \notin doomed[u]
  BY <1>2, <1>4
<1>6. \A r \in Requests : <<k, j>> \notin doomed[r]
  BY <1>5 DEF Typed, JobsSpare, Requests
<1> DEFINE Unknown(i) == /\ i # bill[k].id
                         /\ \A u \in Users : key[u] = k => i # loaded[u].id
                         /\ \A r \in Requests : <<k, i>> \notin doomed[r]
<1>7. Unknown(j)
  BY <1>4, <1>5, <1>6
<1>8. FreshId(k) = CHOOSE i \in Ids : Unknown(i)
  BY DEF FreshId
<1>9. \A i : Unknown(i) => /\ i # bill[k].id
                           /\ \A u \in Users : key[u] = k => i # loaded[u].id
                           /\ \A r \in Requests : <<k, i>> \notin doomed[r]
  OBVIOUS
<1> HIDE DEF Unknown
<1> QED BY <1>7, <1>8, <1>9

\* What becomes of a bill that is not there, and of one that is.
NoneOrDraft(row) ==
    row = NoRow \/ (row.status = "draft" /\ row.adjustment = 0 /\ row.final_cost[2] = 0)
SameButTotal(old, row) ==
    /\ row.id = old.id /\ row.status = old.status /\ row.adjustment = old.adjustment
    /\ row = old \/ row.final_cost[2] = old.adjustment

\* What a generation makes of a bill: it keeps the row but for its base and the total, deletes a
\* doomed one, or drafts one where there is none.
LEMMA UpsertedRow ==
  ASSUME Typed, NEW r \in Requests, NEW k \in Keys
  PROVE  /\ Kept(r, k) \in {NoRow, bill[k]} /\ Upserted(r, k) \in Row
         /\ bill[k] # NoRow /\ Kept(r, k) = NoRow => <<k, bill[k].id>> \in doomed[r]
         /\ LeftAlone(r, k) => Upserted(r, k) = Kept(r, k)
         /\ Kept(r, k) = NoRow => /\ NoneOrDraft(Upserted(r, k))
                                  /\ Upserted(r, k) = NoRow \/ Upserted(r, k).id = FreshId(k)
         /\ Kept(r, k) # NoRow => SameButTotal(bill[k], Upserted(r, k))
<1>1. TypeOK /\ bill[k] \in Row /\ rows[r][k] \in Bases \cup {NoBase}
  BY DEF Typed, TypeOK, Base
<1>2. /\ Kept(r, k) \in {NoRow, bill[k]} /\ Kept(r, k) \in Row
      /\ bill[k] # NoRow /\ Kept(r, k) = NoRow => <<k, bill[k].id>> \in doomed[r]
  BY <1>1, RowMissing DEF Kept
<1>3. CASE LeftAlone(r, k)
  <2>1. Upserted(r, k) = Kept(r, k)
    BY <1>3 DEF Upserted
  <2> QED BY <1>2, <2>1 DEF NoneOrDraft, SameButTotal
<1>4. CASE ~ LeftAlone(r, k) /\ Kept(r, k) = NoRow
  <2>1. Upserted(r, k) = Drafted(r, k)
    BY <1>4 DEF Upserted
  <2>2. FreshId(k) \in Ids /\ rows[r][k] \in Bases /\ 0 \in Adjustments
    BY <1>1, <1>4, FreshIds, ConstantsOK DEF LeftAlone
  <2>3. /\ Drafted(r, k) \in Row /\ Drafted(r, k).status = "draft"
        /\ Drafted(r, k).adjustment = 0 /\ Drafted(r, k).final_cost[2] = 0
        /\ Drafted(r, k).id = FreshId(k)
    BY <2>2 DEF Drafted, Row
  <2> QED BY <1>2, <1>4, <2>1, <2>3 DEF NoneOrDraft
<1>5. CASE ~ LeftAlone(r, k) /\ Kept(r, k) # NoRow
  <2>1. Upserted(r, k) = Updated(r, k) /\ Kept(r, k) = bill[k]
    BY <1>2, <1>5 DEF Upserted
  <2>2. rows[r][k] \in Bases
    BY <1>1, <1>5 DEF LeftAlone
  <2>3. bill[k] \in [id : Ids, status : {"draft", "confirmed", "paid"}, base : Bases,
                     adjustment : Adjustments, final_cost : Bases \X Adjustments]
    BY <1>1, <1>5, <2>1, RowThere
  <2>4. Updated(r, k) = [bill[k] EXCEPT !.base = rows[r][k],
                                        !.final_cost = <<rows[r][k], bill[k].adjustment>>]
    BY <2>1 DEF Updated
  <2>5. /\ Updated(r, k) \in Row
        /\ Updated(r, k).id = bill[k].id /\ Updated(r, k).status = bill[k].status
        /\ Updated(r, k).adjustment = bill[k].adjustment
        /\ Updated(r, k).final_cost[2] = bill[k].adjustment
    <3>1. <<rows[r][k], bill[k].adjustment>> \in Bases \X Adjustments
      BY <2>2, <2>3
    <3>2. <<rows[r][k], bill[k].adjustment>>[2] = bill[k].adjustment
      OBVIOUS
    <3>3. Updated(r, k) \in [id : Ids, status : {"draft", "confirmed", "paid"}, base : Bases,
                            adjustment : Adjustments, final_cost : Bases \X Adjustments]
      BY <2>2, <2>3, <2>4, <3>1
    <3>4. /\ Updated(r, k).id = bill[k].id /\ Updated(r, k).status = bill[k].status
          /\ Updated(r, k).adjustment = bill[k].adjustment
          /\ Updated(r, k).final_cost = <<rows[r][k], bill[k].adjustment>>
      BY <2>3, <2>4
    <3> QED BY <3>2, <3>3, <3>4 DEF Row
  <2> QED BY <1>2, <1>5, <2>1, <2>5 DEF SameButTotal
<1> QED BY <1>3, <1>4, <1>5

-----------------------------------------------------------------------------
(* Types, for any number of operators.                                       *)

\* Operators and jobs make requests.
LEMMA WhoAsks == /\ \A u \in Users : u \in Requests /\ u \notin Jobs
                 /\ \A r \in Jobs : r \in Requests
                 /\ \A r \in Requests : r \in Users \/ r \in Jobs
BY ConstantsOK DEF Requests

\* The columns that a request writes.
Adjusted(u) ==
    [bill[key[u]] EXCEPT !.adjustment = Dirty(u, "adjustment", amount[u]),
                         !.final_cost = Dirty(u, "final_cost", <<loaded[u].base, amount[u]>>)]
Marked(u, status) == [bill[key[u]] EXCEPT !.status = status]

\* Whom a commit overtakes.
LEMMA OvertakeFrame ==
  ASSUME Typed, NEW r \in Requests, NEW written \in SUBSET Keys, Overtake(r, written)
  PROVE  /\ missed'[r] = {}
         /\ \A t \in Requests \ {r} : missed'[t] = missed[t] \cup (written \cap HasRead(t))
         /\ raced' = raced \cup (written \cap missed[r])
         /\ missed' \in [Requests -> SUBSET Keys] /\ raced' \in SUBSET Keys
BY DEF Overtake, Typed, TypeOK

\* The end of an edit writes one row, if its id is still there.
LEMMA SaveFrame ==
  ASSUME Typed, NEW u \in Users, NEW op \in Editing, NEW row, Save(u, op, row)
  PROVE  /\ pc[u] = op /\ pc'[u] = "idle" /\ loaded'[u] = NoRow /\ key[u] \in Keys
         /\ \A t \in Requests \ {u} : pc'[t] = pc[t]
         /\ \A t \in Users \ {u} : loaded'[t] = loaded[t] /\ key'[t] = key[t]
         /\ \A k \in Keys :
               bill'[k] = IF k = key[u] /\ bill[k].id = loaded[u].id THEN row ELSE bill[k]
         /\ UNCHANGED <<billing, rows, locked, doomed>>
         /\ doomed[u] = {} /\ loaded[u] \in Row /\ loaded[u] # NoRow /\ bill[key[u]] \in Row
         /\ amount[u] \in Adjustments
         /\ missed'[u] = {}
         /\ \A t \in Requests \ {u} :
               missed'[t] = missed[t] \cup ({k \in Keys : bill'[k] # bill[k]} \cap HasRead(t))
         /\ raced' = raced \cup ({k \in Keys : bill'[k] # bill[k]} \cap missed[u])
         /\ missed' \in [Requests -> SUBSET Keys] /\ raced' \in SUBSET Keys
<1>1. TypeOK /\ Knows(u)
  BY DEF Typed
<1>2. /\ pc[u] = op /\ pc'[u] = "idle" /\ \A t \in Requests \ {u} : pc'[t] = pc[t]
  BY <1>1, WhoAsks DEF Save, At, TypeOK
<1>3. /\ loaded'[u] = NoRow /\ key[u] \in Keys
      /\ \A t \in Users \ {u} : loaded'[t] = loaded[t] /\ key'[t] = key[t]
  BY <1>1 DEF Save, TypeOK
<1>4. \A k \in Keys : bill'[k] = IF k = key[u] /\ bill[k].id = loaded[u].id THEN row ELSE bill[k]
  BY <1>1, <1>3 DEF Save, TypeOK
<1>5. UNCHANGED <<billing, rows, locked, doomed>>
  BY DEF Save, generation
<1>6. /\ doomed[u] = {} /\ loaded[u] \in Row /\ loaded[u] # NoRow /\ bill[key[u]] \in Row
      /\ amount[u] \in Adjustments
  BY <1>1, <1>2, <1>3 DEF Knows, TypeOK
<1> DEFINE W == {k \in Keys : bill'[k] # bill[k]}
<1>7. u \in Requests /\ W \in SUBSET Keys /\ Overtake(u, W)
  BY WhoAsks DEF Save
<1> HIDE DEF W
<1>8. /\ missed'[u] = {}
      /\ \A t \in Requests \ {u} : missed'[t] = missed[t] \cup (W \cap HasRead(t))
      /\ raced' = raced \cup (W \cap missed[u])
      /\ missed' \in [Requests -> SUBSET Keys] /\ raced' \in SUBSET Keys
  BY <1>7, OvertakeFrame
<1> QED BY <1>2, <1>3, <1>4, <1>5, <1>6, <1>8 DEF W

\* It keeps the types when what it writes is a row.
LEMMA SaveTyped ==
  ASSUME Typed, NEW u \in Users, NEW op \in Editing, NEW row, Save(u, op, row),
         bill[key[u]].id = loaded[u].id => row \in Row
  PROVE  Typed'
<1>1. TypeOK
  BY DEF Typed
<1>2. bill' \in [Keys -> Row]
  <2>1. CASE bill[key[u]].id = loaded[u].id
    BY <1>1, <2>1 DEF Save, TypeOK
  <2>2. CASE bill[key[u]].id # loaded[u].id
    BY <1>1, <2>2 DEF Save, TypeOK
  <2> QED BY <2>1, <2>2
<1>3. pc' \in [Requests -> {"idle"} \cup Editing \cup Generating]
  BY <1>1 DEF Save, At, TypeOK
<1>4. /\ key' \in [Users -> Keys] /\ loaded' \in [Users -> Row] /\ amount' \in [Users -> Adjustments]
  <2>1. (CHOOSE k \in Keys : TRUE) \in Keys
    BY ConstantsOK
  <2>2. NoRow \in Row /\ 0 \in Adjustments
    BY RowMissing, ConstantsOK
  <2> QED BY <1>1, <2>1, <2>2 DEF Save, TypeOK
<1>5. TypeOK'
  BY <1>1, <1>2, <1>3, <1>4, SaveFrame DEF TypeOK
<1>6. ASSUME NEW t \in Users PROVE Knows(t)'
  <2>1. CASE t = u
    BY <2>1, SaveFrame DEF Knows, Editing
  <2>2. CASE t # u
    BY <2>2, SaveFrame, WhoAsks DEF Typed, Knows
  <2> QED BY <2>1, <2>2
<1>7. JobsSpare'
  BY SaveFrame DEF Typed, JobsSpare
<1> QED BY <1>5, <1>6, <1>7 DEF Typed

\* The adjusted row: a row that names no other column.
LEMMA AdjustedRow ==
  ASSUME Typed, NEW u \in Users, bill[key[u]] \in Row, bill[key[u]] # NoRow,
         loaded[u] \in Row, loaded[u] # NoRow, amount[u] \in Adjustments
  PROVE  /\ Adjusted(u) \in Row /\ Adjusted(u).status = bill[key[u]].status
         /\ Adjusted(u).adjustment = IF amount[u] = loaded[u].adjustment
                                     THEN bill[key[u]].adjustment ELSE amount[u]
         /\ Adjusted(u).final_cost = IF <<loaded[u].base, amount[u]>> = loaded[u].final_cost
                                     THEN bill[key[u]].final_cost ELSE <<loaded[u].base, amount[u]>>
<1> DEFINE row == bill[key[u]]
           a == Dirty(u, "adjustment", amount[u])
           c == Dirty(u, "final_cost", <<loaded[u].base, amount[u]>>)
<1>1. row \in [id : Ids, status : {"draft", "confirmed", "paid"}, base : Bases,
               adjustment : Adjustments, final_cost : Bases \X Adjustments]
  BY RowThere
<1>2. a = IF amount[u] = loaded[u].adjustment THEN row.adjustment ELSE amount[u]
  BY DEF Dirty
<1>3. c = IF <<loaded[u].base, amount[u]>> = loaded[u].final_cost
          THEN row.final_cost ELSE <<loaded[u].base, amount[u]>>
  BY DEF Dirty
<1>4. a \in Adjustments
  BY <1>1, <1>2
<1>5. c \in Bases \X Adjustments
  <2>1. loaded[u].base \in Bases /\ row.final_cost \in Bases \X Adjustments
    BY <1>1, RowThere
  <2> QED BY <1>3, <2>1
<1>6. Adjusted(u) = [row EXCEPT !.adjustment = a, !.final_cost = c]
  BY DEF Adjusted
<1> HIDE DEF row, a, c
<1>7. /\ Adjusted(u) \in [id : Ids, status : {"draft", "confirmed", "paid"}, base : Bases,
                         adjustment : Adjustments, final_cost : Bases \X Adjustments]
      /\ Adjusted(u).status = row.status
      /\ Adjusted(u).adjustment = a /\ Adjusted(u).final_cost = c
  BY <1>1, <1>4, <1>5, <1>6
<1> QED BY <1>2, <1>3, <1>7 DEF Row, row

\* The confirmed or paid row: the same but for its status.
LEMMA MarkedRow ==
  ASSUME NEW u \in Users, bill[key[u]] \in Row, bill[key[u]] # NoRow,
         NEW status \in {"draft", "confirmed", "paid"}
  PROVE  /\ Marked(u, status) \in Row /\ Marked(u, status).status = status
         /\ Amounts(Marked(u, status)) = Amounts(bill[key[u]])
         /\ Marked(u, status).adjustment = bill[key[u]].adjustment
         /\ Marked(u, status).final_cost = bill[key[u]].final_cost
<1> DEFINE row == bill[key[u]]
<1>1. row \in [id : Ids, status : {"draft", "confirmed", "paid"}, base : Bases,
               adjustment : Adjustments, final_cost : Bases \X Adjustments]
  BY RowThere
<1>2. Marked(u, status) = [row EXCEPT !.status = status]
  BY DEF Marked
<1> HIDE DEF row
<1>3. /\ Marked(u, status) \in [id : Ids, status : {"draft", "confirmed", "paid"}, base : Bases,
                                adjustment : Adjustments, final_cost : Bases \X Adjustments]
      /\ Marked(u, status).status = status /\ Marked(u, status).base = row.base
      /\ Marked(u, status).adjustment = row.adjustment
      /\ Marked(u, status).final_cost = row.final_cost
  BY <1>1, <1>2
<1> QED BY <1>3 DEF Row, Amounts, row

\* An edit that finds its row writes a row.
Edit(u) == Adjust(u) \/ Confirm(u) \/ MarkPaid(u) \/ Delete(u)

\* The four edits of an operator save what they are named for.
LEMMA Edits ==
  ASSUME NEW u \in Users, Edit(u)
  PROVE  \/ Save(u, "adjust", Adjusted(u))
         \/ Save(u, "confirm", Marked(u, "confirmed"))
         \/ Save(u, "pay", Marked(u, "paid"))
         \/ Save(u, "delete", NoRow)
BY DEF Edit, Adjust, Confirm, MarkPaid, Delete, Adjusted, Marked

\* Types under the edits.
LEMMA EditTyped == ASSUME Typed, NEW u \in Users, Edit(u) PROVE Typed'
<1>1. ASSUME NEW op \in Editing, NEW row, Save(u, op, row), bill[key[u]].id = loaded[u].id
      PROVE  bill[key[u]] # NoRow /\ bill[key[u]] \in Row /\ loaded[u] \in Row /\ loaded[u] # NoRow
             /\ amount[u] \in Adjustments
  BY <1>1, SaveFrame, RowById
<1>2. {"adjust", "confirm", "pay", "delete"} = Editing
  BY DEF Editing
<1>3. CASE Save(u, "adjust", Adjusted(u))
  <2>1. bill[key[u]].id = loaded[u].id => Adjusted(u) \in Row
    BY <1>1, <1>2, <1>3, AdjustedRow
  <2> QED BY <1>2, <1>3, <2>1, SaveTyped
<1>4. CASE Save(u, "confirm", Marked(u, "confirmed"))
  <2>1. bill[key[u]].id = loaded[u].id => Marked(u, "confirmed") \in Row
    BY <1>1, <1>2, <1>4, MarkedRow
  <2> QED BY <1>2, <1>4, <2>1, SaveTyped
<1>5. CASE Save(u, "pay", Marked(u, "paid"))
  <2>1. bill[key[u]].id = loaded[u].id => Marked(u, "paid") \in Row
    BY <1>1, <1>2, <1>5, MarkedRow
  <2> QED BY <1>2, <1>5, <2>1, SaveTyped
<1>6. CASE Save(u, "delete", NoRow)
  BY <1>2, <1>6, RowMissing, SaveTyped
<1> QED BY <1>3, <1>4, <1>5, <1>6, Edits

\* An operator loads a bill that is there.
LEMMA LoadFrame ==
  ASSUME Typed, NEW u \in Users, NEW op \in Editing, LoadBill(u, op)
  PROVE  /\ pc'[u] = op /\ \A t \in Requests \ {u} : pc'[t] = pc[t]
         /\ \A t \in Users \ {u} : loaded'[t] = loaded[t] /\ key'[t] = key[t]
         /\ key'[u] \in Keys /\ loaded'[u] = bill[key'[u]] /\ loaded'[u].status \in Editable(op)
         /\ doomed[u] = {} /\ UNCHANGED <<billing, bill, rows, locked, doomed, missed, raced>>
         /\ Typed'
<1>1. TypeOK /\ Knows(u)
  BY DEF Typed
<1>2. PICK k \in Keys : /\ bill[k].status \in Editable(op)
                        /\ key' = [key EXCEPT ![u] = k]
                        /\ loaded' = [loaded EXCEPT ![u] = bill[k]]
  BY DEF LoadBill
<1>3. /\ pc[u] = "idle" /\ pc'[u] = op /\ \A t \in Requests \ {u} : pc'[t] = pc[t]
      /\ pc' \in [Requests -> {"idle"} \cup Editing \cup Generating]
  BY <1>1, WhoAsks DEF LoadBill, At, TypeOK
<1>4. /\ \A t \in Users \ {u} : loaded'[t] = loaded[t] /\ key'[t] = key[t]
      /\ key'[u] = k /\ loaded'[u] = bill[k]
      /\ key' \in [Users -> Keys] /\ loaded' \in [Users -> Row]
  BY <1>1, <1>2 DEF TypeOK
<1>5. UNCHANGED <<billing, bill, rows, locked, doomed, missed, raced>> /\ amount' \in [Users -> Adjustments]
  BY <1>1 DEF LoadBill, generation, overtaking, TypeOK
<1>6. doomed[u] = {}
  BY <1>1, <1>3 DEF Knows
<1>7. bill[k] # NoRow
  BY <1>1, <1>2, Accepted, RowMissing
<1>8. TypeOK'
  BY <1>1, <1>3, <1>4, <1>5 DEF TypeOK
<1>9. ASSUME NEW t \in Users PROVE Knows(t)'
  <2>1. CASE t = u
    BY <1>3, <1>4, <1>5, <1>6, <1>7, <2>1 DEF Knows, Editing
  <2>2. CASE t # u
    BY <1>3, <1>4, <1>5, <2>2, WhoAsks DEF Typed, Knows
  <2> QED BY <2>1, <2>2
<1>10. JobsSpare'
  BY <1>5 DEF Typed, JobsSpare
<1> QED BY <1>2, <1>3, <1>4, <1>5, <1>6, <1>8, <1>9, <1>10 DEF Typed

\* A generation's step goes on or ends, and leaves the other requests and the edits alone.
Going(r, x) ==
    /\ pc[r] \notin Editing /\ x \in {"idle"} \cup Generating
    /\ pc' = [pc EXCEPT ![r] = x]
    /\ \A t \in Requests \ {r} :
          rows'[t] = rows[t] /\ locked'[t] = locked[t] /\ doomed'[t] = doomed[t]
    /\ UNCHANGED <<key, loaded, amount, billing>>

\* It keeps the types when it dooms at most one id per key, nothing if it is a job or over.
LEMMA GoingTyped ==
  ASSUME Typed, NEW r \in Requests, NEW x, Going(r, x),
         bill' \in [Keys -> Row],
         rows' \in [Requests -> [Keys -> Base]], locked' \in [Requests -> SUBSET Keys],
         doomed' \in [Requests -> SUBSET (Keys \X Ids)],
         missed' \in [Requests -> SUBSET Keys], raced' \in SUBSET Keys,
         \A k \in Keys, i, j \in Ids : <<k, i>> \in doomed'[r] /\ <<k, j>> \in doomed'[r] => i = j,
         r \in Jobs \/ x = "idle" => doomed'[r] = {}
  PROVE  /\ pc'[r] = x /\ \A t \in Requests \ {r} : pc'[t] = pc[t]
         /\ Typed'
<1>1. TypeOK
  BY DEF Typed
<1>2. /\ pc'[r] = x /\ \A t \in Requests \ {r} : pc'[t] = pc[t]
      /\ pc' \in [Requests -> {"idle"} \cup Editing \cup Generating]
  BY <1>1 DEF Going, TypeOK
<1>3. TypeOK'
  BY <1>1, <1>2 DEF TypeOK, Going
<1>4. ASSUME NEW t \in Users PROVE Knows(t)'
  <2>1. CASE t = r
    BY <1>2, <2>1 DEF Typed, Knows, Going, Editing, Generating
  <2>2. CASE t # r
    BY <1>2, <2>2, WhoAsks DEF Typed, Knows, Going
  <2> QED BY <2>1, <2>2
<1>5. JobsSpare'
  BY WhoAsks DEF Typed, JobsSpare, Going
<1> QED BY <1>2, <1>3, <1>4, <1>5 DEF Typed

\* POST /generate or the job begins.
LEMMA GenerateFrame ==
  ASSUME Typed, NEW r \in Requests, Generate(r)
  PROVE  /\ Going(r, "aggregate") /\ UNCHANGED <<bill, rows, locked, doomed, missed, raced>>
         /\ pc[r] = "idle"
         /\ pc'[r] = "aggregate" /\ \A t \in Requests \ {r} : pc'[t] = pc[t]
         /\ Typed'
<1>1. /\ TypeOK /\ Going(r, "aggregate") /\ UNCHANGED <<bill, rows, locked, doomed, missed, raced>>
      /\ pc[r] = "idle"
  BY DEF Typed, Generate, At, Going, edit, generation, overtaking, Editing, Generating
<1>2. \A k \in Keys, i, j \in Ids : <<k, i>> \in doomed'[r] /\ <<k, j>> \in doomed'[r] => i = j
  BY <1>1, WhoAsks DEF Typed, JobsSpare, Knows
<1>3. r \in Jobs => doomed'[r] = {}
  BY <1>1 DEF Typed, JobsSpare
<1> QED BY <1>1, <1>2, <1>3, GoingTyped DEF TypeOK

\* POST /regenerate begins.
LEMMA RegenerateFrame ==
  ASSUME Typed, NEW u \in Users, Regenerate(u)
  PROVE  /\ Going(u, "aggregate") /\ UNCHANGED <<bill, rows, locked, missed, raced>>
         /\ pc'[u] = "aggregate" /\ \A t \in Requests \ {u} : pc'[t] = pc[t]
         /\ \A k \in Keys, i \in Ids : <<k, i>> \in doomed'[u] => bill[k].status = "draft"
         /\ Typed'
<1>1. TypeOK /\ u \in Requests /\ u \notin Jobs
  BY WhoAsks DEF Typed
<1> DEFINE drafts == {k \in Keys : bill[k].status = "draft"}
<1>2. doomed' = [doomed EXCEPT ![u] = {<<k, bill[k].id>> : k \in drafts}]
  BY DEF Regenerate
<1>3. doomed'[u] = {<<k, bill[k].id>> : k \in drafts} /\ \A t \in Requests \ {u} : doomed'[t] = doomed[t]
  BY <1>1, <1>2 DEF TypeOK
<1>4. Going(u, "aggregate") /\ UNCHANGED <<bill, rows, locked, missed, raced>>
  BY <1>3 DEF Regenerate, At, Going, edit, overtaking, Editing, Generating
<1>5. \A k, i : <<k, i>> \in doomed'[u] => k \in drafts /\ i = bill[k].id
  BY <1>3
<1>6. \A k \in drafts : bill[k].id \in Ids
  BY <1>1, RowMissing, RowThere DEF TypeOK
<1>7. doomed' \in [Requests -> SUBSET (Keys \X Ids)]
  <2>1. {<<k, bill[k].id>> : k \in drafts} \in SUBSET (Keys \X Ids)
    BY <1>6
  <2> QED BY <1>1, <1>2, <2>1 DEF TypeOK
<1>8. UNCHANGED <<bill, rows, locked>> /\ bill' \in [Keys -> Row]
      /\ rows' \in [Requests -> [Keys -> Base]] /\ locked' \in [Requests -> SUBSET Keys]
      /\ missed' \in [Requests -> SUBSET Keys] /\ raced' \in SUBSET Keys
  BY <1>1, <1>4 DEF TypeOK
<1>9. \A k \in Keys, i, j \in Ids : <<k, i>> \in doomed'[u] /\ <<k, j>> \in doomed'[u] => i = j
  BY <1>5
<1>10. \A k \in Keys, i \in Ids : <<k, i>> \in doomed'[u] => bill[k].status = "draft"
  BY <1>5
<1> HIDE DEF drafts
<1>11. pc'[u] = "aggregate" /\ (\A t \in Requests \ {u} : pc'[t] = pc[t]) /\ Typed'
  BY <1>1, <1>4, <1>7, <1>8, <1>9, GoingTyped
<1> QED BY <1>4, <1>10, <1>11

\* The totals are read.
LEMMA AggregateFrame ==
  ASSUME Typed, NEW r \in Requests, Aggregate(r)
  PROVE  /\ UNCHANGED <<bill, locked, doomed, missed, raced>> /\ rows'[r] = billing
         /\ pc'[r] = IF billing = NoRows THEN "upsert" ELSE "lock"
         /\ \A t \in Requests \ {r} : rows'[t] = rows[t] /\ pc'[t] = pc[t]
         /\ UNCHANGED <<key, loaded>>
         /\ Typed'
<1> DEFINE x == IF billing = NoRows THEN "upsert" ELSE "lock"
<1>1. TypeOK
  BY DEF Typed
<1>2. /\ rows'[r] = billing /\ \A t \in Requests \ {r} : rows'[t] = rows[t]
      /\ rows' \in [Requests -> [Keys -> Base]]
  BY <1>1 DEF Aggregate, TypeOK
<1>3. Going(r, x) /\ UNCHANGED <<bill, locked, doomed, key, loaded, missed, raced>>
  BY <1>2 DEF Aggregate, At, Going, edit, overtaking, Editing, Generating
<1>4. \A k \in Keys, i, j \in Ids : <<k, i>> \in doomed'[r] /\ <<k, j>> \in doomed'[r] => i = j
  BY <1>3, WhoAsks DEF Typed, JobsSpare, Knows
<1>5. r \in Jobs => doomed'[r] = {}
  BY <1>3 DEF Typed, JobsSpare
<1>6. /\ bill' \in [Keys -> Row] /\ locked' \in [Requests -> SUBSET Keys]
      /\ doomed' \in [Requests -> SUBSET (Keys \X Ids)] /\ x # "idle"
      /\ missed' \in [Requests -> SUBSET Keys] /\ raced' \in SUBSET Keys
  BY <1>1, <1>3 DEF TypeOK
<1> HIDE DEF x
<1>7. pc'[r] = x /\ (\A t \in Requests \ {r} : pc'[t] = pc[t]) /\ Typed'
  BY <1>2, <1>3, <1>4, <1>5, <1>6, GoingTyped
<1> QED BY <1>2, <1>3, <1>7 DEF x

\* The list of the bills to leave alone is read.
LEMMA ReadLockedFrame ==
  ASSUME Typed, NEW r \in Requests, ReadLocked(r)
  PROVE  /\ UNCHANGED <<bill, rows, doomed, missed, raced>> /\ pc'[r] = "upsert"
         /\ locked'[r] = {k \in Keys : Kept(r, k).status \in {"confirmed", "paid"}}
         /\ \A t \in Requests \ {r} : locked'[t] = locked[t] /\ pc'[t] = pc[t]
         /\ UNCHANGED <<key, loaded>>
         /\ Typed'
<1>1. TypeOK
  BY DEF Typed
<1>2. /\ locked'[r] = {k \in Keys : Kept(r, k).status \in {"confirmed", "paid"}}
      /\ \A t \in Requests \ {r} : locked'[t] = locked[t]
      /\ locked' \in [Requests -> SUBSET Keys]
  BY <1>1 DEF ReadLocked, TypeOK
<1>3. Going(r, "upsert") /\ UNCHANGED <<bill, rows, doomed, key, loaded, missed, raced>>
  BY <1>2 DEF ReadLocked, At, Going, edit, overtaking, Editing, Generating
<1>4. \A k \in Keys, i, j \in Ids : <<k, i>> \in doomed'[r] /\ <<k, j>> \in doomed'[r] => i = j
  BY <1>3, WhoAsks DEF Typed, JobsSpare, Knows
<1>5. r \in Jobs => doomed'[r] = {}
  BY <1>3 DEF Typed, JobsSpare
<1>6. /\ bill' \in [Keys -> Row] /\ rows' \in [Requests -> [Keys -> Base]]
      /\ doomed' \in [Requests -> SUBSET (Keys \X Ids)]
      /\ missed' \in [Requests -> SUBSET Keys] /\ raced' \in SUBSET Keys
  BY <1>1, <1>3 DEF TypeOK
<1>7. pc'[r] = "upsert" /\ (\A t \in Requests \ {r} : pc'[t] = pc[t]) /\ Typed'
  BY <1>2, <1>3, <1>4, <1>5, <1>6, GoingTyped
<1> QED BY <1>2, <1>3, <1>7

\* The generation is over, with its bills or without.
LEMMA FinishFrame ==
  ASSUME Typed, NEW r \in Requests, pc[r] \in Generating, pc' = [pc EXCEPT ![r] = "idle"],
         Finish(r), UNCHANGED <<billing, edit>>, bill' \in [Keys -> Row],
         missed' \in [Requests -> SUBSET Keys], raced' \in SUBSET Keys
  PROVE  /\ pc'[r] = "idle" /\ doomed'[r] = {}
         /\ \A t \in Requests \ {r} : /\ rows'[t] = rows[t] /\ locked'[t] = locked[t]
                                      /\ doomed'[t] = doomed[t] /\ pc'[t] = pc[t]
         /\ UNCHANGED <<key, loaded>>
         /\ Typed'
<1>1. TypeOK /\ NoRows \in [Keys -> Base]
  BY DEF Typed, NoRows, Base
<1>2. /\ rows' \in [Requests -> [Keys -> Base]] /\ locked' \in [Requests -> SUBSET Keys]
      /\ doomed' \in [Requests -> SUBSET (Keys \X Ids)] /\ doomed'[r] = {}
      /\ \A t \in Requests \ {r} : /\ rows'[t] = rows[t] /\ locked'[t] = locked[t]
                                   /\ doomed'[t] = doomed[t]
  BY <1>1 DEF Finish, TypeOK
<1>3. Going(r, "idle") /\ UNCHANGED <<key, loaded>>
  BY <1>2 DEF Going, edit, Editing, Generating
<1>4. pc'[r] = "idle" /\ (\A t \in Requests \ {r} : pc'[t] = pc[t]) /\ Typed'
  BY <1>2, <1>3, GoingTyped
<1> QED BY <1>2, <1>3, <1>4

\* The keys whose row a generation deletes.
Gone(r) == {k \in Keys : Kept(r, k) # bill[k]}

\* Upsert and Abort end a generation.
LEMMA UpsertFrame ==
  ASSUME Typed, NEW r \in Requests, Upsert(r) \/ Abort(r)
  PROVE  /\ pc'[r] = "idle" /\ doomed'[r] = {} /\ missed'[r] = {}
         /\ \A t \in Requests \ {r} : /\ rows'[t] = rows[t] /\ locked'[t] = locked[t]
                                      /\ doomed'[t] = doomed[t] /\ pc'[t] = pc[t]
                                      /\ missed[t] \subseteq missed'[t]
         /\ raced \subseteq raced'
         /\ Upsert(r) => raced' = raced \cup (Gone(r) \cap missed[r])
         /\ Abort(r) => raced' = raced /\ \A t \in Requests \ {r} : missed'[t] = missed[t]
         /\ UNCHANGED <<key, loaded>>
         /\ Typed'
<1>1. pc[r] \in Generating /\ pc' = [pc EXCEPT ![r] = "idle"] /\ Finish(r) /\ UNCHANGED <<billing, edit>>
  BY DEF Upsert, Abort, At, Generating
<1>2. bill' \in [Keys -> Row]
  <2>1. CASE Upsert(r)
    BY <2>1, UpsertedRow DEF Upsert
  <2>2. CASE Abort(r)
    BY <2>2 DEF Abort, Typed, TypeOK
  <2> QED BY <2>1, <2>2
<1>3. ASSUME NEW W \in SUBSET Keys, Overtake(r, W)
      PROVE  /\ missed'[r] = {} /\ raced \subseteq raced' /\ raced' = raced \cup (W \cap missed[r])
             /\ \A t \in Requests \ {r} :
                   missed[t] \subseteq missed'[t] /\ (W = {} => missed'[t] = missed[t])
             /\ missed' \in [Requests -> SUBSET Keys] /\ raced' \in SUBSET Keys
  <2>1. /\ missed'[r] = {} /\ raced' = raced \cup (W \cap missed[r])
        /\ \A t \in Requests \ {r} : missed'[t] = missed[t] \cup (W \cap HasRead(t))
        /\ missed' \in [Requests -> SUBSET Keys] /\ raced' \in SUBSET Keys
    BY <1>3, OvertakeFrame
  <2> QED BY <2>1
<1>4. Upsert(r) => Overtake(r, Gone(r)) /\ Gone(r) \in SUBSET Keys
  BY DEF Upsert, Gone
<1>5. Abort(r) => Overtake(r, {}) /\ {} \in SUBSET Keys
  BY DEF Abort
<1>6. /\ missed'[r] = {} /\ raced \subseteq raced'
      /\ \A t \in Requests \ {r} : missed[t] \subseteq missed'[t]
      /\ missed' \in [Requests -> SUBSET Keys] /\ raced' \in SUBSET Keys
  BY <1>3, <1>4, <1>5
<1>7. Upsert(r) => raced' = raced \cup (Gone(r) \cap missed[r])
  BY <1>3, <1>4
<1>8. Abort(r) => raced' = raced /\ \A t \in Requests \ {r} : missed'[t] = missed[t]
  BY <1>3, <1>5
<1> QED BY <1>1, <1>2, <1>6, <1>7, <1>8, FinishFrame

\* A change of the billing.
LEMMA RestateFrame ==
  ASSUME Typed, NEW k \in Keys, Restate(k)
  PROVE  UNCHANGED <<bill, pc, key, loaded, rows, locked, doomed, missed, raced>> /\ Typed'
<1>1. /\ billing' \in [Keys -> Base]
      /\ UNCHANGED <<bill, pc, key, loaded, amount, rows, locked, doomed, missed, raced>>
  BY DEF Restate, edit, generation, overtaking, Typed, TypeOK
<1> QED BY <1>1 DEF Typed, TypeOK, Knows, JobsSpare

-----------------------------------------------------------------------------
(* Steps of operators and jobs.                                              *)

\* What a step may do to the amounts of a paid bill.
Preserved(k) ==
    bill[k].status = "paid" /\ Amounts(bill'[k]) # Amounts(bill[k]) =>
        \E r \in Requests : k \in missed[r] /\ pc[r] # "idle" /\ pc'[r] = "idle"

Promised == \A k \in Keys : Preserved(k)

\* A step that leaves the bills alone is kept by the requests it does not concern.
LEMMA Quiet ==
  ASSUME IInv, Typed', bill' = bill, raced' = raced, NEW r \in Requests,
         \A t \in Requests \ {r} : /\ pc'[t] = pc[t] /\ rows'[t] = rows[t] /\ locked'[t] = locked[t]
                                   /\ doomed'[t] = doomed[t] /\ missed'[t] = missed[t],
         \A u \in Users \ {r} : key'[u] = key[u] /\ loaded'[u] = loaded[u],
         Kind(r)'
  PROVE  IInv' /\ Promised
<1>1. AdjustmentCounts'
  BY DEF IInv, AdjustmentCounts
<1>2. ASSUME NEW t \in Requests \ {r} PROVE Kind(t)'
  <2>1. Kind(t)
    BY DEF IInv
  <2>2. Rested(t)' /\ Drafts(t)' /\ Listed(t)'
    BY <2>1 DEF Kind, Rested, Drafts, Listed
  <2>3. t \in Users => Same(t)'
    BY <2>1 DEF Kind, Same, Agrees
  <2> QED BY <2>2, <2>3 DEF Kind
<1>3. Promised
  BY DEF Promised, Preserved
<1> QED BY <1>1, <1>2, <1>3 DEF IInv

\* An edit is noticed by everyone who has read its bill.
LEMMA EditNoticed ==
  ASSUME IInv, NEW u \in Users, NEW op \in Editing, NEW row, Save(u, op, row), Typed',
         bill[key[u]].id = loaded[u].id /\ key[u] \notin missed[u] /\ key[u] \notin raced =>
             row.final_cost[2] = row.adjustment
  PROVE  /\ IInv'
         /\ key[u] \in Keys /\ \A k \in Keys \ {key[u]} : bill'[k] = bill[k]
         /\ \/ bill'[key[u]] = bill[key[u]]
            \/ key[u] \in missed[u] /\ key[u] \in raced' /\ pc[u] # "idle" /\ pc'[u] = "idle"
            \/ /\ bill[key[u]].id = loaded[u].id /\ bill'[key[u]] = row /\ Agrees(u)
               /\ bill[key[u]].status \in Editable(op)
<1>1. /\ Typed /\ Same(u) /\ pc[u] = op /\ pc'[u] = "idle" /\ u \in Requests /\ key[u] \in Keys
      /\ pc[u] # "idle"
  BY SaveFrame, WhoAsks DEF IInv, Kind, Editing
<1> DEFINE W == {k \in Keys : bill'[k] # bill[k]}
<1>2. /\ \A k \in Keys \ {key[u]} : bill'[k] = bill[k]
      /\ bill[key[u]].id # loaded[u].id => bill'[key[u]] = bill[key[u]]
      /\ bill[key[u]].id = loaded[u].id => bill'[key[u]] = row
  BY <1>1, SaveFrame
<1>3. /\ missed'[u] = {} /\ raced' = raced \cup (W \cap missed[u])
      /\ \A t \in Requests \ {u} : missed'[t] = missed[t] \cup (W \cap HasRead(t))
  BY <1>1, SaveFrame
<1>4. AdjustmentCounts'
  <2> SUFFICES ASSUME NEW k \in Keys, k \notin raced' PROVE bill'[k].final_cost[2] = bill'[k].adjustment
    BY DEF AdjustmentCounts
  <2>1. CASE bill'[k] = bill[k]
    BY <1>3, <2>1 DEF IInv, AdjustmentCounts
  <2>2. CASE bill'[k] # bill[k]
    BY <1>2, <1>3, <2>2
  <2> QED BY <2>1, <2>2
<1>5. ASSUME NEW t \in Requests PROVE Kind(t)'
  <2>1. CASE t = u
    <3>1. pc'[u] = "idle" /\ missed'[u] = {} /\ doomed'[u] = {}
      BY <1>1, SaveFrame
    <3> QED BY <2>1, <3>1 DEF Kind, Rested, Drafts, Listed, Same, Editing
  <2>2. CASE t # u
    <3>1. /\ Kind(t) /\ pc'[t] = pc[t] /\ rows'[t] = rows[t] /\ locked'[t] = locked[t]
          /\ doomed'[t] = doomed[t] /\ missed'[t] = missed[t] \cup (W \cap HasRead(t))
          /\ t \in Users => key'[t] = key[t] /\ loaded'[t] = loaded[t]
      BY <1>1, <1>3, <2>2, SaveFrame DEF IInv
    <3>2. Rested(t)'
      <4>1. pc[t] = "idle" => HasRead(t) = {}
        <5>1. pc[t] = "idle" => doomed[t] = {}
          BY <1>1, WhoAsks DEF Typed, Knows, JobsSpare
        <5> QED BY <5>1 DEF HasRead, Editing
      <4> QED BY <3>1, <4>1 DEF Kind, Rested
    <3>3. Listed(t)'
      <4> SUFFICES ASSUME pc[t] = "upsert", rows[t] # NoRows, NEW k \in Keys,
                          bill'[k].status \in {"confirmed", "paid"}, k \notin missed'[t]
                   PROVE  k \in locked[t]
        BY <3>1 DEF Listed
      <4>1. HasRead(t) = Keys
        BY DEF HasRead, Editing
      <4>2. bill'[k] = bill[k] /\ k \notin missed[t]
        BY <3>1, <4>1
      <4> QED BY <3>1, <4>2 DEF Kind, Listed
    <3>4. Drafts(t)'
      <4> SUFFICES ASSUME NEW k \in Keys, NEW i \in Ids, <<k, i>> \in doomed[t], bill'[k].id = i,
                          k \notin missed'[t]
                   PROVE  bill'[k].status = "draft"
        BY <3>1 DEF Drafts
      <4>1. t \in Users /\ pc[t] \notin Editing
        BY <1>1, WhoAsks DEF Typed, Knows, JobsSpare
      <4>2. k \in HasRead(t)
        BY <4>1 DEF HasRead
      <4>3. bill'[k] = bill[k] /\ k \notin missed[t]
        BY <3>1, <4>2
      <4> QED BY <3>1, <4>3 DEF Kind, Drafts
    <3>5. ASSUME t \in Users PROVE Same(t)'
      <4> SUFFICES ASSUME pc[t] \in Editing
                   PROVE  /\ loaded[t].status \in Editable(pc[t])
                          /\ bill'[key[t]].id = loaded[t].id /\ key[t] \notin missed'[t] => Agrees(t)'
        BY <3>1, <3>5 DEF Same
      <4>1. loaded[t].status \in Editable(pc[t])
        BY <3>1, <3>5 DEF Kind, Same
      <4>2. ASSUME bill'[key[t]].id = loaded[t].id, key[t] \notin missed'[t] PROVE Agrees(t)'
        <5>1. key[t] \in HasRead(t) /\ key[t] \in Keys
          BY <1>1, <3>5 DEF HasRead, Typed, TypeOK
        <5>2. bill'[key[t]] = bill[key[t]] /\ key[t] \notin missed[t]
          BY <3>1, <4>2, <5>1
        <5>3. Agrees(t)
          BY <3>1, <3>5, <4>2, <5>2 DEF Kind, Same
        <5> QED BY <1>3, <3>1, <3>5, <5>2, <5>3 DEF Agrees
      <4> QED BY <4>1, <4>2
    <3> QED BY <3>2, <3>3, <3>4, <3>5 DEF Kind
  <2> QED BY <2>1, <2>2
<1>6. \/ bill'[key[u]] = bill[key[u]]
      \/ key[u] \in missed[u] /\ key[u] \in raced' /\ pc[u] # "idle" /\ pc'[u] = "idle"
      \/ /\ bill[key[u]].id = loaded[u].id /\ bill'[key[u]] = row /\ Agrees(u)
         /\ bill[key[u]].status \in Editable(op)
  BY <1>1, <1>2, <1>3 DEF Same, Agrees
<1> QED BY <1>1, <1>2, <1>4, <1>5, <1>6 DEF IInv

\* What an operator finds before he writes, when his row is there and he has missed nothing.
LEMMA EditFinds ==
  ASSUME IInv, NEW u \in Users, NEW op \in Editing, NEW row, Save(u, op, row),
         bill[key[u]].id = loaded[u].id, key[u] \notin missed[u]
  PROVE  /\ Agrees(u)
         /\ key[u] \notin raced => bill[key[u]].final_cost[2] = bill[key[u]].adjustment
<1>1. Typed /\ Same(u) /\ pc[u] = op /\ AdjustmentCounts /\ key[u] \in Keys
  BY SaveFrame, WhoAsks DEF IInv, Kind
<1> QED BY <1>1 DEF Same, AdjustmentCounts

\* His row is a row.
LEMMA EditRows ==
  ASSUME IInv, NEW u \in Users, NEW op \in Editing, NEW row, Save(u, op, row),
         bill[key[u]].id = loaded[u].id
  PROVE  /\ bill[key[u]] \in Row /\ bill[key[u]] # NoRow
         /\ loaded[u] \in Row /\ loaded[u] # NoRow /\ amount[u] \in Adjustments
BY SaveFrame, RowById DEF IInv

\* The four things that an operator may do to a bill.
Edited(k) ==
    \/ /\ bill[k].status \in {"draft", "confirmed"} /\ bill'[k].status = bill[k].status
       /\ bill'[k].adjustment \in Adjustments
    \/ /\ bill[k].status = "draft" /\ bill'[k].status = "confirmed"
       /\ bill'[k].adjustment = bill[k].adjustment
    \/ /\ bill[k].status = "confirmed" /\ bill'[k].status = "paid"
       /\ bill'[k].adjustment = bill[k].adjustment
    \/ bill[k].status = "draft" /\ bill'[k] = NoRow

\* What becomes of the bill that u has edited: nothing, one of these, or he has raced somebody.
Outcome(u) ==
    \/ bill'[key[u]] = bill[key[u]]
    \/ key[u] \in missed[u] /\ key[u] \in raced' /\ pc[u] # "idle" /\ pc'[u] = "idle"
    \/ Edited(key[u])

\* An adjustment writes its total as well, a confirmation and a payment no amount, and what is
\* deleted was a draft.
LEMMA EditMoves ==
  ASSUME IInv, NEW u \in Users, Edit(u)
  PROVE  /\ IInv' /\ key[u] \in Keys /\ Outcome(u)
         /\ \A k \in Keys \ {key[u]} : bill'[k] = bill[k]
<1>1. Typed /\ Typed'
  BY EditTyped DEF IInv
<1>2. {"adjust", "confirm", "pay", "delete"} = Editing
  BY DEF Editing
<1> DEFINE row == bill[key[u]]
           found == row.id = loaded[u].id
<1>3. CASE Save(u, "adjust", Adjusted(u))
  <2>1. ASSUME found
        PROVE  /\ row \in Row /\ row # NoRow /\ loaded[u] \in Row /\ loaded[u] # NoRow
               /\ amount[u] \in Adjustments /\ Adjusted(u).status = row.status
               /\ Adjusted(u).adjustment = IF amount[u] = loaded[u].adjustment
                                           THEN row.adjustment ELSE amount[u]
               /\ Adjusted(u).final_cost = IF <<loaded[u].base, amount[u]>> = loaded[u].final_cost
                                           THEN row.final_cost ELSE <<loaded[u].base, amount[u]>>
    BY <1>1, <1>2, <1>3, <2>1, EditRows, AdjustedRow
  <2>2. ASSUME found, key[u] \notin missed[u]
        PROVE  Adjusted(u).adjustment = amount[u]
    <3>1. row.adjustment = loaded[u].adjustment
      BY <1>2, <1>3, <2>2, EditFinds DEF Agrees
    <3> QED BY <2>1, <2>2, <3>1
  <2>3. ASSUME found, key[u] \notin missed[u], key[u] \notin raced
        PROVE  Adjusted(u).final_cost[2] = Adjusted(u).adjustment
    <3>1. /\ row.adjustment = loaded[u].adjustment /\ row.final_cost[2] = row.adjustment
          /\ loaded[u].final_cost[2] = loaded[u].adjustment
      BY <1>2, <1>3, <2>3, EditFinds DEF Agrees
    <3>2. CASE <<loaded[u].base, amount[u]>> = loaded[u].final_cost
      <4>1. loaded[u].final_cost[2] = amount[u]
        BY <3>2
      <4> QED BY <2>1, <2>2, <2>3, <3>1, <3>2, <4>1
    <3>3. CASE <<loaded[u].base, amount[u]>> # loaded[u].final_cost
      <4>1. Adjusted(u).final_cost = <<loaded[u].base, amount[u]>>
        BY <2>1, <2>3, <3>3
      <4> QED BY <2>2, <2>3, <4>1
    <3> QED BY <3>2, <3>3
  <2>4. /\ IInv' /\ key[u] \in Keys /\ \A k \in Keys \ {key[u]} : bill'[k] = bill[k]
        /\ \/ bill'[key[u]] = row
           \/ key[u] \in missed[u] /\ key[u] \in raced' /\ pc[u] # "idle" /\ pc'[u] = "idle"
           \/ /\ found /\ bill'[key[u]] = Adjusted(u) /\ Agrees(u)
              /\ row.status \in Editable("adjust")
    BY <1>1, <1>2, <1>3, <2>3, EditNoticed
  <2>5. ASSUME found, bill'[key[u]] = Adjusted(u), Agrees(u), row.status \in Editable("adjust")
        PROVE  Edited(key[u])
    <3>1. Adjusted(u).adjustment \in Adjustments
      <4>1. row.adjustment = loaded[u].adjustment
        BY <2>5 DEF Agrees
      <4> QED BY <2>1, <2>5, <4>1
    <3> QED BY <2>1, <2>5, <3>1, Accepted DEF Edited
  <2> QED BY <2>4, <2>5 DEF Outcome
<1>4. ASSUME NEW op \in {"confirm", "pay"}, NEW to,
             op = "confirm" => to = "confirmed", op = "pay" => to = "paid", Save(u, op, Marked(u, to))
      PROVE  /\ IInv' /\ key[u] \in Keys /\ Outcome(u)
             /\ \A k \in Keys \ {key[u]} : bill'[k] = bill[k]
  <2>1. ASSUME found
        PROVE  /\ Marked(u, to).status = to /\ Marked(u, to).adjustment = row.adjustment
               /\ Marked(u, to).final_cost = row.final_cost
    BY <1>2, <1>4, <2>1, EditRows, MarkedRow
  <2>2. found /\ key[u] \notin missed[u] /\ key[u] \notin raced =>
            Marked(u, to).final_cost[2] = Marked(u, to).adjustment
    BY <1>2, <1>4, <2>1, EditFinds
  <2>3. /\ IInv' /\ key[u] \in Keys /\ \A k \in Keys \ {key[u]} : bill'[k] = bill[k]
        /\ \/ bill'[key[u]] = row
           \/ key[u] \in missed[u] /\ key[u] \in raced' /\ pc[u] # "idle" /\ pc'[u] = "idle"
           \/ found /\ bill'[key[u]] = Marked(u, to) /\ row.status \in Editable(op)
    BY <1>1, <1>2, <1>4, <2>2, EditNoticed
  <2>4. found /\ bill'[key[u]] = Marked(u, to) /\ row.status \in Editable(op) => Edited(key[u])
    BY <1>4, <2>1, Accepted DEF Edited
  <2> QED BY <2>3, <2>4 DEF Outcome
<1>5. CASE Save(u, "delete", NoRow)
  <2>1. NoRow.status = "none" /\ NoRow.final_cost[2] = NoRow.adjustment
    BY RowMissing
  <2>2. /\ IInv' /\ key[u] \in Keys /\ \A k \in Keys \ {key[u]} : bill'[k] = bill[k]
        /\ \/ bill'[key[u]] = row
           \/ key[u] \in missed[u] /\ key[u] \in raced' /\ pc[u] # "idle" /\ pc'[u] = "idle"
           \/ bill'[key[u]] = NoRow /\ row.status \in Editable("delete")
    BY <1>1, <1>2, <1>5, <2>1, EditNoticed
  <2>3. row.status \in Editable("delete") => row.status = "draft"
    BY Accepted
  <2> QED BY <2>2, <2>3 DEF Outcome, Edited
<1> QED BY <1>3, <1>4, <1>5, Edits

\* No edit that has missed nothing is for a paid bill.
LEMMA EditStep == ASSUME IInv, NEW u \in Users, Edit(u) PROVE IInv' /\ Promised
<1>1. /\ IInv' /\ key[u] \in Keys /\ Outcome(u)
      /\ \A k \in Keys \ {key[u]} : bill'[k] = bill[k]
  BY EditMoves
<1>2. Preserved(key[u])
  BY <1>1, WhoAsks DEF Outcome, Edited, Preserved
<1> QED BY <1>1, <1>2 DEF Promised, Preserved

\* What is loaded agrees with the bill.
LEMMA LoadStep ==
  ASSUME IInv, NEW u \in Users, NEW op \in Editing, LoadBill(u, op) PROVE IInv' /\ Promised
<1>1. Typed /\ u \in Requests /\ op # "idle" /\ op # "upsert"
  BY WhoAsks DEF IInv, Editing
<1>2. Same(u)'
  BY <1>1, LoadFrame DEF IInv, AdjustmentCounts, Same, Agrees
<1>3. Rested(u)' /\ Drafts(u)' /\ Listed(u)'
  BY <1>1, LoadFrame DEF Rested, Drafts, Listed
<1>4. \A t \in Users : t \in Requests
  BY WhoAsks
<1>5. /\ bill' = bill /\ raced' = raced /\ Typed'
      /\ \A t \in Requests \ {u} : /\ pc'[t] = pc[t] /\ rows'[t] = rows[t] /\ locked'[t] = locked[t]
                                   /\ doomed'[t] = doomed[t] /\ missed'[t] = missed[t]
      /\ \A t \in Users \ {u} : key'[t] = key[t] /\ loaded'[t] = loaded[t]
  BY <1>1, LoadFrame
<1> QED BY <1>1, <1>2, <1>3, <1>5, Quiet DEF Kind

\* A generation begins, by the job or an operator.
LEMMA BeginStep ==
  ASSUME IInv, NEW r \in Requests, Generate(r) \/ (r \in Users /\ Regenerate(r))
  PROVE  IInv' /\ Promised
<1>1. Typed
  BY DEF IInv
<1>2. CASE Generate(r)
  <2>1. Kind(r)'
    BY <1>1, <1>2, GenerateFrame DEF IInv, Kind, Rested, Same, Drafts, Listed, Editing
  <2>2. bill' = bill /\ raced' = raced /\ missed' = missed /\ key' = key /\ loaded' = loaded
    BY <1>1, <1>2, GenerateFrame DEF Going
  <2> QED BY <1>1, <1>2, <2>1, <2>2, GenerateFrame, Quiet
<1>3. CASE r \in Users /\ Regenerate(r)
  <2>1. Kind(r)'
    BY <1>1, <1>3, RegenerateFrame DEF Kind, Rested, Same, Drafts, Listed, Editing
  <2>2. bill' = bill /\ raced' = raced /\ missed' = missed /\ key' = key /\ loaded' = loaded
    BY <1>1, <1>3, RegenerateFrame DEF Going
  <2> QED BY <1>1, <1>3, <2>1, <2>2, RegenerateFrame, Quiet DEF Going
<1> QED BY <1>2, <1>3

\* The totals are read: without any, nothing will be written.
LEMMA AggregateStep == ASSUME IInv, NEW r \in Requests, Aggregate(r) PROVE IInv' /\ Promised
<1>1. Typed
  BY DEF IInv
<1>2. Kind(r)'
  <2>1. pc'[r] \notin Editing /\ pc'[r] # "idle" /\ (pc'[r] = "upsert" => rows'[r] = NoRows)
    BY <1>1, AggregateFrame DEF Editing
  <2>2. Drafts(r)'
    BY <1>1, AggregateFrame DEF IInv, Kind, Drafts
  <2> QED BY <2>1, <2>2 DEF Kind, Rested, Same, Listed
<1>3. bill' = bill /\ raced' = raced /\ missed' = missed /\ key' = key /\ loaded' = loaded
  BY <1>1, AggregateFrame
<1> QED BY <1>1, <1>2, <1>3, AggregateFrame, Quiet

\* A confirmed bill is not doomed unless somebody has just confirmed it, so that the list has it.
LEMMA ReadLockedStep == ASSUME IInv, NEW r \in Requests, ReadLocked(r) PROVE IInv' /\ Promised
<1>1. Typed /\ TypeOK
  BY DEF IInv, Typed
<1>2. ASSUME NEW k \in Keys, bill[k].status \in {"confirmed", "paid"}, k \notin missed[r]
      PROVE  k \in locked'[r]
  <2>1. bill[k].id \in Ids
    BY <1>1, <1>2, RowMissing, RowThere DEF TypeOK
  <2>2. <<k, bill[k].id>> \notin doomed[r]
    BY <1>2, <2>1 DEF IInv, Kind, Drafts
  <2>3. Kept(r, k) = bill[k]
    BY <2>2 DEF Kept
  <2> QED BY <1>1, <1>2, <2>3, ReadLockedFrame
<1>3. Kind(r)'
  <2>1. pc'[r] \notin Editing /\ pc'[r] # "idle"
    BY <1>1, ReadLockedFrame DEF Editing
  <2>2. Drafts(r)'
    BY <1>1, ReadLockedFrame DEF IInv, Kind, Drafts
  <2>3. Listed(r)'
    BY <1>1, <1>2, ReadLockedFrame DEF Listed
  <2> QED BY <2>1, <2>2, <2>3 DEF Kind, Rested, Same
<1>4. bill' = bill /\ raced' = raced /\ missed' = missed /\ key' = key /\ loaded' = loaded
  BY <1>1, ReadLockedFrame
<1> QED BY <1>1, <1>3, <1>4, ReadLockedFrame, Quiet

\* A request whose generation is over claims nothing.
LEMMA OverIsKind ==
  ASSUME NEW r \in Requests, pc'[r] = "idle", doomed'[r] = {}, missed'[r] = {}
  PROVE  Kind(r)'
BY DEF Kind, Rested, Same, Drafts, Listed, Editing

\* A generation that ends without its bills.
LEMMA AbortStep == ASSUME IInv, NEW r \in Requests, Abort(r) PROVE IInv' /\ Promised
<1>1. Typed /\ bill' = bill
  BY DEF IInv, Abort
<1>2. Kind(r)'
  BY <1>1, UpsertFrame, OverIsKind
<1>3. raced' = raced /\ key' = key /\ loaded' = loaded
  BY <1>1, UpsertFrame
<1> QED BY <1>1, <1>2, <1>3, UpsertFrame, Quiet

\* What a generation does to a bill: it leaves status and adjustment, or it puts a draft, or none,
\* in the place of none or of a draft that an operator regenerates.
LEMMA UpsertMoves ==
  ASSUME IInv, NEW r \in Requests, Upsert(r), NEW k \in Keys
  PROVE  /\ Kept(r, k) # NoRow =>
              /\ Kept(r, k) = bill[k]
              /\ bill'[k].id = bill[k].id /\ bill'[k].status = bill[k].status
              /\ bill'[k].adjustment = bill[k].adjustment
              /\ bill'[k] = bill[k] \/ bill'[k].final_cost[2] = bill[k].adjustment
         /\ Kept(r, k) = NoRow => /\ NoneOrDraft(bill'[k])
                                  /\ bill'[k] = NoRow \/ bill'[k].id = FreshId(k)
         /\ bill[k] # NoRow /\ Kept(r, k) = NoRow => k \in missed[r] \/ bill[k].status = "draft"
<1>1. Typed /\ TypeOK
  BY DEF IInv, Typed
<1>2. bill'[k] = Upserted(r, k)
  BY DEF Upsert
<1>3. ASSUME Kept(r, k) # NoRow PROVE SameButTotal(bill[k], bill'[k]) /\ Kept(r, k) = bill[k]
  BY <1>1, <1>2, <1>3, UpsertedRow
<1>4. ASSUME Kept(r, k) = NoRow
      PROVE  NoneOrDraft(bill'[k]) /\ (bill'[k] = NoRow \/ bill'[k].id = FreshId(k))
  BY <1>1, <1>2, <1>4, UpsertedRow
<1>5. ASSUME bill[k] # NoRow, Kept(r, k) = NoRow PROVE k \in missed[r] \/ bill[k].status = "draft"
  <2>1. <<k, bill[k].id>> \in doomed[r] /\ bill[k].id \in Ids
    BY <1>1, <1>5, UpsertedRow, RowThere DEF TypeOK
  <2> QED BY <2>1 DEF IInv, Kind, Drafts
<1> QED BY <1>3, <1>4, <1>5 DEF SameButTotal

\* A generation does not change a row that others know but for its amounts: it deletes it, and
\* the new one has an id that nobody knows.
LEMMA UpsertKind ==
  ASSUME IInv, NEW r \in Requests, Upsert(r), NEW t \in Requests, t # r
  PROVE  Kind(t)'
<1>1. /\ Typed /\ TypeOK /\ Kind(t) /\ pc'[t] = pc[t] /\ rows'[t] = rows[t] /\ locked'[t] = locked[t]
      /\ doomed'[t] = doomed[t] /\ missed[t] \subseteq missed'[t] /\ raced \subseteq raced'
      /\ key' = key /\ loaded' = loaded
  BY UpsertFrame DEF IInv, Typed
<1>2. ASSUME NEW k \in Keys, Kept(r, k) # NoRow
      PROVE  /\ bill'[k].id = bill[k].id /\ bill'[k].status = bill[k].status
             /\ bill'[k].adjustment = bill[k].adjustment
  BY <1>2, UpsertMoves
<1>3. ASSUME NEW k \in Keys, Kept(r, k) = NoRow
      PROVE  /\ bill'[k] = NoRow \/ (bill'[k].status = "draft" /\ bill'[k].id = FreshId(k))
             /\ bill'[k].status \notin {"confirmed", "paid"}
  BY <1>3, UpsertMoves, RowMissing DEF NoneOrDraft
<1>4. ASSUME NEW k \in Keys, Kept(r, k) = NoRow
      PROVE  /\ \A i \in Ids : bill'[k].id = i => <<k, i>> \notin doomed[t]
             /\ \A u \in Users : key[u] = k /\ loaded[u] # NoRow => bill'[k].id # loaded[u].id
  <2>1. \A u \in Users : loaded[u] # NoRow => loaded[u].id \in Ids /\ loaded[u].id # 0
    BY <1>1, RowThere DEF TypeOK
  <2>2. CASE bill'[k] = NoRow
    <3>1. bill'[k].id = 0 /\ \A i \in Ids : i # 0
      BY <2>2, RowMissing, ConstantsOK
    <3> QED BY <2>1, <3>1
  <2>3. CASE bill'[k].id = FreshId(k)
    BY <1>1, <2>3, FreshIds
  <2> QED BY <1>3, <1>4, <2>2, <2>3
<1>5. Rested(t)'
  <2>1. pc[t] = "idle" => HasRead(t) = {}
    <3>1. pc[t] = "idle" => doomed[t] = {}
      BY <1>1, WhoAsks DEF Typed, Knows, JobsSpare
    <3> QED BY <3>1 DEF HasRead, Editing
  <2>2. Gone(r) \in SUBSET Keys /\ Overtake(r, Gone(r))
    BY DEF Upsert, Gone
  <2>3. missed'[t] = missed[t] \cup (Gone(r) \cap HasRead(t))
    BY <1>1, <2>2, OvertakeFrame
  <2> QED BY <1>1, <2>1, <2>3 DEF Kind, Rested
<1>6. Listed(t)'
  <2>1. Listed(t)
    BY <1>1 DEF Kind
  <2>2. \A k \in Keys : bill'[k].status \in {"confirmed", "paid"} => bill'[k].status = bill[k].status
    BY <1>2, <1>3
  <2> QED BY <1>1, <2>1, <2>2 DEF Listed
<1>7. Drafts(t)'
  <2>1. Drafts(t)
    BY <1>1 DEF Kind
  <2> QED BY <1>1, <1>2, <1>4, <2>1 DEF Drafts
<1>8. ASSUME t \in Users, pc[t] \in Editing PROVE Same(t)'
  <2>1. Same(t) /\ loaded[t] # NoRow /\ key[t] \in Keys
    BY <1>1, <1>8 DEF Kind, Typed, TypeOK, Knows
  <2>2. ASSUME bill'[key[t]].id = loaded[t].id, key[t] \notin missed'[t] PROVE Agrees(t)'
    <3>1. Kept(r, key[t]) # NoRow
      BY <1>4, <1>8, <2>1, <2>2
    <3>2. /\ bill'[key[t]].id = bill[key[t]].id /\ bill'[key[t]].status = bill[key[t]].status
          /\ bill'[key[t]].adjustment = bill[key[t]].adjustment
      BY <1>2, <2>1, <3>1
    <3>3. Agrees(t)
      BY <1>1, <1>8, <2>1, <2>2, <3>2 DEF Same
    <3> QED BY <1>1, <3>2, <3>3 DEF Agrees
  <2> QED BY <1>1, <1>8, <2>1, <2>2 DEF Same
<1>9. t \in Users => Same(t)'
  BY <1>1, <1>8 DEF Same
<1> QED BY <1>5, <1>6, <1>7, <1>9 DEF Kind

\* The bills of a generation: whom it has not missed, it leaves alone when confirmed.
LEMMA UpsertStep == ASSUME IInv, NEW r \in Requests, Upsert(r) PROVE IInv' /\ Promised
<1>1. Typed /\ TypeOK /\ AdjustmentCounts /\ pc[r] = "upsert" /\ pc'[r] = "idle"
  BY UpsertFrame DEF IInv, Typed, Upsert, At
<1>2. ASSUME NEW k \in Keys PROVE Preserved(k)
  <2> SUFFICES ASSUME bill[k].status = "paid", Amounts(bill'[k]) # Amounts(bill[k])
               PROVE  k \in missed[r]
    BY <1>1 DEF Preserved
  <2>1. CASE Kept(r, k) = NoRow
    BY <2>1, UpsertMoves, RowMissing
  <2>2. CASE Kept(r, k) # NoRow
    <3>1. Kept(r, k) = bill[k] /\ bill'[k] = Upserted(r, k)
      BY <2>2, UpsertMoves DEF Upsert
    <3>2. ~ LeftAlone(r, k)
      BY <1>1, <3>1, UpsertedRow
    <3>3. rows[r] # NoRows /\ k \notin locked[r]
      BY <3>2 DEF LeftAlone, NoRows
    <3> QED BY <1>1, <3>3 DEF IInv, Kind, Listed
  <2> QED BY <2>1, <2>2
<1>3. AdjustmentCounts'
  <2> SUFFICES ASSUME NEW k \in Keys, k \notin raced'
               PROVE  bill'[k].final_cost[2] = bill'[k].adjustment
    BY DEF AdjustmentCounts
  <2>1. bill[k].final_cost[2] = bill[k].adjustment
    BY <1>1, UpsertFrame DEF AdjustmentCounts
  <2>2. NoRow.final_cost[2] = NoRow.adjustment
    BY RowMissing
  <2>3. CASE Kept(r, k) # NoRow
    BY <2>1, <2>3, UpsertMoves
  <2>4. CASE Kept(r, k) = NoRow
    BY <2>2, <2>4, UpsertMoves DEF NoneOrDraft
  <2> QED BY <2>3, <2>4
<1>4. Kind(r)'
  BY <1>1, UpsertFrame, OverIsKind
<1>5. Typed'
  BY <1>1, UpsertFrame
<1> QED BY <1>2, <1>3, <1>4, <1>5, UpsertKind DEF IInv, Promised

-----------------------------------------------------------------------------
(* The invariants and what follows from them.                                *)

\* No bill, and nobody at work.
LEMMA InitTyped == Init => Typed
<1> SUFFICES ASSUME Init PROVE Typed
  OBVIOUS
<1>1. NoRow \in Row /\ 0 \in Adjustments /\ NoRows \in [Keys -> Base] /\ (CHOOSE k \in Keys : TRUE) \in Keys
  BY RowMissing, ConstantsOK DEF NoRows, Base
<1>2. TypeOK
  BY <1>1 DEF Init, TypeOK
<1> QED BY <1>2, WhoAsks DEF Init, Typed, Knows, JobsSpare, Editing

\* Every step keeps the types, however many operators there are.
LEMMA StepTyped == Typed /\ [Next]_vars => Typed'
<1> SUFFICES ASSUME Typed, [Next]_vars PROVE Typed'
  OBVIOUS
<1>1. CASE \E k \in Keys : Restate(k)
  BY <1>1, RestateFrame
<1>2. CASE \E u \in Users : \E op \in Editing : LoadBill(u, op)
  BY <1>2, LoadFrame
<1>3. CASE \E u \in Users : Edit(u)
  BY <1>3, EditTyped
<1>4. CASE \E u \in Users : Regenerate(u)
  BY <1>4, RegenerateFrame
<1>5. CASE \E r \in Requests : Generate(r) \/ Aggregate(r) \/ ReadLocked(r) \/ Upsert(r) \/ Abort(r)
  BY <1>5, GenerateFrame, AggregateFrame, ReadLockedFrame, UpsertFrame
<1>6. CASE UNCHANGED vars
  <2>1. TypeOK'
    BY <1>6 DEF vars, Typed, TypeOK
  <2>2. JobsSpare' /\ \A u \in Users : Knows(u)'
    BY <1>6 DEF vars, Typed, Knows, JobsSpare
  <2> QED BY <2>1, <2>2 DEF Typed
<1> QED BY <1>1, <1>2, <1>3, <1>4, <1>5, <1>6 DEF Next, Edit

\* The rows and the requests have their types, however many operators there are: a bill that is
\* there has an id, a status, a base, and a total of a base and an adjustment.
THEOREM BillTypes == Spec => []TypeOK
<1>1. Typed => TypeOK
  BY DEF Typed
<1> QED BY <1>1, InitTyped, StepTyped, PTL DEF Spec

\* Nothing is there to be adjusted.
LEMMA InitHolds == Init => IInv
<1> SUFFICES ASSUME Init PROVE IInv
  OBVIOUS
<1>1. AdjustmentCounts
  <2>1. NoRow.final_cost[2] = NoRow.adjustment
    BY RowMissing
  <2>2. \A k \in Keys : bill[k] = NoRow
    BY DEF Init
  <2> QED BY <2>1, <2>2 DEF AdjustmentCounts
<1>2. ASSUME NEW r \in Requests PROVE Kind(r)
  BY WhoAsks DEF Init, Kind, Rested, Same, Drafts, Listed, Editing
<1> QED BY <1>1, <1>2, InitTyped DEF IInv

\* Every step of operators and jobs keeps the invariant and the promise.
LEMMA StepHolds == IInv /\ [Next]_vars => IInv' /\ (Promised \/ UNCHANGED vars)
<1> SUFFICES ASSUME IInv, [Next]_vars PROVE IInv' /\ (Promised \/ UNCHANGED vars)
  OBVIOUS
<1>1. CASE \E k \in Keys : Restate(k)
  <2>1. /\ UNCHANGED <<bill, pc, key, loaded, rows, locked, doomed, missed, raced>> /\ Typed'
    BY <1>1, RestateFrame DEF IInv
  <2>2. IInv'
    BY <2>1 DEF IInv, AdjustmentCounts, Kind, Rested, Same, Agrees, Drafts, Listed
  <2> QED BY <2>1, <2>2 DEF Promised, Preserved
<1>2. CASE \E u \in Users : \E op \in Editing : LoadBill(u, op)
  BY <1>2, LoadStep
<1>3. CASE \E u \in Users : Edit(u)
  BY <1>3, EditStep
<1>4. CASE \E u \in Users : Regenerate(u)
  BY <1>4, BeginStep, WhoAsks
<1>5. CASE \E r \in Requests : Generate(r) \/ Aggregate(r) \/ ReadLocked(r) \/ Upsert(r) \/ Abort(r)
  BY <1>5, BeginStep, AggregateStep, ReadLockedStep, UpsertStep, AbortStep
<1>6. CASE UNCHANGED vars
  <2>1. Typed'
    BY <1>6, StepTyped DEF IInv
  <2>2. UNCHANGED <<bill, pc, key, loaded, rows, locked, doomed, missed, raced>>
    BY <1>6 DEF vars
  <2> QED BY <1>6, <2>1, <2>2 DEF IInv, AdjustmentCounts, Kind, Rested, Same, Agrees, Drafts, Listed
<1> QED BY <1>1, <1>2, <1>3, <1>4, <1>5, <1>6 DEF Next, Edit

\* The invariant always holds.
LEMMA Invariance == Spec => []IInv
<1>1. IInv /\ [Next]_vars => IInv'
  BY StepHolds
<1> QED BY <1>1, InitHolds, PTL DEF Spec

\* The total of a bill counts the adjustment that the bill shows, whatever generations cross an
\* adjustment, as long as no request has written the bill over another operator's save.
THEOREM TotalsCountAdjustments == Spec => []AdjustmentCounts
<1>1. IInv => AdjustmentCounts
  BY DEF IInv
<1> QED BY <1>1, Invariance, PTL

\* And nothing changes the amounts of a paid bill but a request that read it, or its list, before
\* somebody else saved the bill.
THEOREM PaidBillsAreKept == Spec => PaidIsKept
<1>1. IInv /\ [Next]_vars =>
        [\A k \in Keys : bill[k].status = "paid" /\ Amounts(bill'[k]) # Amounts(bill[k]) =>
            \E r \in Requests : k \in missed[r] /\ pc[r] # "idle" /\ pc'[r] = "idle"]_vars
  BY StepHolds DEF Promised, Preserved
<1> QED BY <1>1, Invariance, PTL DEF Spec, PaidIsKept

-----------------------------------------------------------------------------
(* MonthlyBill implements BillBook.                                          *)

\* The book of the bills: the columns of each that operators own.
BookMap == [k \in Keys |-> [status |-> bill[k].status, adjustment |-> bill[k].adjustment]]

\* A bill that the book has none of is not there.
LEMMA Unbooked ==
  ASSUME TypeOK, NEW k \in Keys
  PROVE  BookMap[k] = Book!NoBill <=> bill[k] = NoRow
<1>1. bill[k] \in Row /\ BookMap[k] = [status |-> bill[k].status, adjustment |-> bill[k].adjustment]
  BY DEF TypeOK, BookMap
<1>2. CASE bill[k] = NoRow
  BY <1>1, <1>2 DEF NoRow, Book!NoBill
<1>3. CASE bill[k] # NoRow
  BY <1>1, <1>3, RowThere DEF Book!NoBill
<1> QED BY <1>2, <1>3

\* What an operator does to one bill is the operation that it is named for.
LEMMA EditBooks ==
  ASSUME NEW x \in Keys, Edited(x), \A k \in Keys \ {x} : bill'[k] = bill[k]
  PROVE  raced \subseteq raced' => Book!Next
<1> SUFFICES ASSUME raced \subseteq raced' PROVE Book!Next
  OBVIOUS
<1>1. BookMap[x] = [status |-> bill[x].status, adjustment |-> bill[x].adjustment]
  BY DEF BookMap
<1>2. BookMap' = [BookMap EXCEPT ![x] = [status |-> bill'[x].status, adjustment |-> bill'[x].adjustment]]
  BY DEF BookMap
<1>3. CASE /\ bill[x].status \in {"draft", "confirmed"} /\ bill'[x].status = bill[x].status
           /\ bill'[x].adjustment \in Adjustments
  <2>1. BookMap' = [BookMap EXCEPT ![x].adjustment = bill'[x].adjustment]
    <3>1. [BookMap[x] EXCEPT !.adjustment = bill'[x].adjustment]
            = [status |-> bill'[x].status, adjustment |-> bill'[x].adjustment]
      BY <1>1, <1>3
    <3> QED BY <1>2, <3>1
  <2>2. Book!Adjust(x)
    BY <1>1, <1>3, <2>1 DEF Book!Adjust, Book!Leaves, BookMap
  <2> QED BY <2>2 DEF Book!Next
<1>4. ASSUME NEW from, NEW to, bill[x].status = from, bill'[x].status = to,
             bill'[x].adjustment = bill[x].adjustment
      PROVE  Book!Becomes(x, from, to)
  <2>1. BookMap' = [BookMap EXCEPT ![x].status = to]
    <3>1. [BookMap[x] EXCEPT !.status = to] = [status |-> bill'[x].status, adjustment |-> bill'[x].adjustment]
      BY <1>1, <1>4
    <3> QED BY <1>2, <3>1
  <2> QED BY <1>1, <1>4, <2>1 DEF Book!Becomes, Book!Leaves, BookMap
<1>5. CASE bill[x].status = "draft" /\ bill'[x] = NoRow
  <2>1. BookMap' = [BookMap EXCEPT ![x] = Book!NoBill]
    BY <1>2, <1>5 DEF NoRow, Book!NoBill
  <2>2. Book!Delete(x)
    BY <1>1, <1>5, <2>1 DEF Book!Delete, Book!Leaves, BookMap
  <2> QED BY <2>2 DEF Book!Next
<1> QED BY <1>3, <1>4, <1>5 DEF Edited, Book!Next, Book!Confirm, Book!MarkPaid

\* An edit is an operation of the book, or disputes its bill.
LEMMA EditIsBooked == ASSUME IInv, NEW u \in Users, Edit(u) PROVE Book!Next
<1>1. /\ key[u] \in Keys /\ Outcome(u) /\ \A k \in Keys \ {key[u]} : bill'[k] = bill[k]
  BY EditMoves
<1>2. raced \subseteq raced'
  BY Edits, SaveFrame DEF IInv, Editing
<1>3. ASSUME bill'[key[u]] = bill[key[u]] \/ key[u] \in raced' PROVE Book!Leaves(BookMap)
  BY <1>1, <1>3 DEF Book!Leaves, BookMap
<1>4. Book!Leaves(BookMap) => Book!Next
  BY <1>2 DEF Book!Next, BookMap
<1> QED BY <1>1, <1>2, <1>3, <1>4, EditBooks DEF Outcome

\* What a generation writes, it writes at one stroke; what it deletes over another's save is
\* disputed.
LEMMA UpsertBooks ==
  ASSUME IInv, NEW r \in Requests, Upsert(r)
  PROVE  Book!Next
<1> DEFINE gone == {k \in Keys \ raced' : bill[k] # NoRow /\ Kept(r, k) = NoRow}
           billed == {k \in Keys : bill'[k] # NoRow}
           result == [k \in Keys |-> IF BookMap[k] # Book!NoBill /\ k \notin gone THEN BookMap[k]
                                     ELSE IF k \in billed THEN Book!NewBill ELSE Book!NoBill]
<1>1. TypeOK /\ Typed
  BY DEF IInv, Typed
<1>2. raced' = raced \cup (Gone(r) \cap missed[r])
  BY <1>1, UpsertFrame
<1>3. \A k \in gone : BookMap[k].status = "draft"
  <2> SUFFICES ASSUME NEW k \in Keys \ raced', bill[k] # NoRow, Kept(r, k) = NoRow
               PROVE  bill[k].status = "draft"
    BY DEF BookMap
  <2>1. k \in Gone(r)
    BY DEF Gone
  <2> QED BY <1>2, <2>1, UpsertMoves
<1>4. ASSUME NEW k \in Keys \ raced' PROVE BookMap'[k] = result[k]
  <2>1. /\ BookMap[k] = [status |-> bill[k].status, adjustment |-> bill[k].adjustment]
        /\ BookMap'[k] = [status |-> bill'[k].status, adjustment |-> bill'[k].adjustment]
    BY DEF BookMap
  <2>2. BookMap[k] = Book!NoBill <=> bill[k] = NoRow
    BY <1>1, Unbooked
  <2>3. CASE Kept(r, k) # NoRow
    <3>1. bill[k] # NoRow
      BY <2>3 DEF Kept
    <3> QED BY <2>1, <2>2, <2>3, <3>1, UpsertMoves
  <2>4. CASE Kept(r, k) = NoRow
    <3>1. BookMap[k] = Book!NoBill \/ k \in gone
      BY <2>2, <2>4
    <3>2. CASE bill'[k] = NoRow
      <4>1. BookMap'[k] = Book!NoBill /\ k \notin billed
        BY <2>1, <3>2 DEF NoRow, Book!NoBill
      <4> QED BY <3>1, <4>1
    <3>3. CASE bill'[k] # NoRow
      <4>1. bill'[k].status = "draft" /\ bill'[k].adjustment = 0
        BY <2>4, <3>3, UpsertMoves DEF NoneOrDraft
      <4>2. BookMap'[k] = Book!NewBill /\ k \in billed
        BY <2>1, <3>3, <4>1 DEF Book!NewBill
      <4> QED BY <3>1, <4>2
    <3> QED BY <3>2, <3>3
  <2> QED BY <2>3, <2>4
<1>5. gone \in SUBSET Keys /\ billed \in SUBSET Keys
  OBVIOUS
<1>6. Book!Leaves(result)
  <2> HIDE DEF result
  <2> QED BY <1>4 DEF Book!Leaves, BookMap
<1> HIDE DEF gone, billed
<1>7. Book!Generate
  BY <1>3, <1>5, <1>6 DEF Book!Generate, BookMap
<1> QED BY <1>2, <1>7 DEF Book!Next

\* A request is several transactions, operators work side by side and a job beside them, but every
\* step is one of the operations of the API on a bill that it is for, or touches neither status nor
\* adjustment (docs/API.md:154-160): whatever crosses, no status check is out of date when its
\* request writes, and a generation keeps the adjustments it finds.  The exceptions are the bills
\* that a request has written or deleted although another had saved them since it read them.
THEOREM BillsAreKeptInBook == Spec => BillsAreBooked
<1>1. Init => Book!Init
  BY DEF Init, NoRow, Book!Init, Book!NoBill
<1>2. IInv /\ [Next]_vars => [Book!Next]_<<BookMap, raced>>
  <2> SUFFICES ASSUME IInv, [Next]_vars PROVE [Book!Next]_<<BookMap, raced>>
    OBVIOUS
  <2>1. CASE \E u \in Users : Edit(u)
    BY <2>1, EditIsBooked
  <2>2. CASE \E r \in Requests : Upsert(r)
    BY <2>2, UpsertBooks
  <2>3. CASE \E r \in Requests : Abort(r)
    <3>1. bill' = bill /\ raced' = raced
      BY <2>3, UpsertFrame DEF Abort, IInv
    <3> QED BY <3>1 DEF BookMap
  <2>4. CASE bill' = bill /\ raced' = raced
    BY <2>4 DEF BookMap
  <2> QED BY <2>1, <2>2, <2>3, <2>4 DEF Next, Edit, Restate, LoadBill, Regenerate, Generate, Aggregate,
                                      ReadLocked, overtaking, vars
<1> QED BY <1>1, <1>2, Invariance, PTL DEF Spec, BillsAreBooked, Book!Spec, BookMap
=============================================================================
