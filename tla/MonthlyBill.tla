---------------------------- MODULE MonthlyBill ----------------------------
(***************************************************************************)
(* The bills of one month, a row of monthly_bills per (category, provider):  *)
(* generated from billing_summary by a beat job or an operator, adjusted,    *)
(* confirmed, paid or deleted by an operator.                                *)
(*                                                                         *)
(* A request loads the row, checks its status and writes it back by id, with *)
(* no lock in between; the generation reads the billing, then the bills it   *)
(* must leave alone, then upserts the others.  Between two statements of a   *)
(* request other requests commit.  Two ghosts record who overtakes whom.     *)
(*                                                                         *)
(* A base stands for an original_cost with its markup_rate, a final_cost is  *)
(* the pair of the base and the adjustment it was computed from.             *)
(***************************************************************************)
EXTENDS Naturals

CONSTANTS
    Keys,           \* (category, provider)
    Users,          \* operators, each with one request at a time
    Jobs,           \* workers that may run generate_monthly_bills
    Bases,          \* bound: what a generation may compute
    Adjustments,    \* bound: what an operator may enter, 0 among them
    Ids             \* bound: primary keys, reused when nobody knows them

Requests == Users \cup Jobs
NoBase   == "-"

ASSUME ConstantsOK ==
    /\ Keys # {} /\ Users \cap Jobs = {}
    /\ Adjustments \in SUBSET Nat /\ 0 \in Adjustments
    /\ Ids \in SUBSET (Nat \ {0})
    /\ NoBase \notin Bases

\* A serial never runs out: there is a key that neither a row nor any operator knows.
ASSUME IdsSuffice ==
    \A i \in Ids \cup {0}, used \in [Users -> Ids \cup {0}] :
        \E j \in Ids : j # i /\ \A u \in Users : j # used[u]

Base  == Bases \cup {NoBase}
NoRow == [id |-> 0, status |-> "none", base |-> NoBase,
          adjustment |-> 0, final_cost |-> <<NoBase, 0>>]
Row   == {NoRow} \cup
         [id : Ids, status : {"draft", "confirmed", "paid"}, base : Bases,
          adjustment : Adjustments, final_cost : Bases \X Adjustments]

VARIABLES
    billing,   \* what billing_summary adds up to, by key
    bill,      \* monthly_bills
    pc,        \* the next statement of each request
    key,       \* the bill an operator works on
    loaded,    \* and its row as it was loaded
    amount,    \* the adjustment entered
    rows,      \* the totals a generation has read
    locked,    \* the keys it leaves alone
    doomed,    \* the drafts a regeneration deletes
    missed,    \* the bills that another request has saved or deleted since a request read them
    raced      \* the bills that a request has saved or deleted all the same

vars == <<billing, bill, pc, key, loaded, amount, rows, locked, doomed, missed, raced>>

Editing    == {"adjust", "confirm", "pay", "delete"}
Generating == {"aggregate", "lock", "upsert"}

TypeOK ==
    /\ billing \in [Keys -> Base]
    /\ bill \in [Keys -> Row]
    /\ pc \in [Requests -> {"idle"} \cup Editing \cup Generating]
    /\ key \in [Users -> Keys]
    /\ loaded \in [Users -> Row]
    /\ amount \in [Users -> Adjustments]
    /\ rows \in [Requests -> [Keys -> Base]]
    /\ locked \in [Requests -> SUBSET Keys]
    /\ doomed \in [Requests -> SUBSET (Keys \X Ids)]
    /\ missed \in [Requests -> SUBSET Keys]
    /\ raced \in SUBSET Keys

NoRows == [k \in Keys |-> NoBase]

Init ==
    /\ billing \in [Keys -> Base]
    /\ bill = [k \in Keys |-> NoRow]
    /\ pc = [r \in Requests |-> "idle"]
    /\ key = [u \in Users |-> CHOOSE k \in Keys : TRUE]
    /\ loaded = [u \in Users |-> NoRow]
    /\ amount = [u \in Users |-> 0]
    /\ rows = [r \in Requests |-> NoRows]
    /\ locked = [r \in Requests |-> {}]
    /\ doomed = [r \in Requests |-> {}]
    /\ missed = [r \in Requests |-> {}]
    /\ raced = {}

-----------------------------------------------------------------------------
At(r, here, there) ==
    /\ pc[r] = here
    /\ pc' = [pc EXCEPT ![r] = there]

edit       == <<key, loaded, amount>>
generation == <<rows, locked, doomed>>
overtaking == <<missed, raced>>

\* What a request has read and will act upon.
HasRead(r) ==
    IF pc[r] \in Editing THEN {key[r]}
    ELSE IF pc[r] = "upsert" THEN Keys
    ELSE {k \in Keys : \E i \in Ids : <<k, i>> \in doomed[r]}

\* A request commits a change of some bills.
Overtake(r, written) ==
    /\ missed' = [t \in Requests |-> IF t = r THEN {} ELSE missed[t] \cup (written \cap HasRead(t))]
    /\ raced' = raced \cup (written \cap missed[r])

\* A regeneration flushes its deletes with its first read, and locks the rows until it ends.
Held(r, k) == \E t \in Requests \ {r} : pc[t] \in {"lock", "upsert"} /\ <<k, bill[k].id>> \in doomed[t]

\* A sync changes the billing of the month, or a category its markup.
Restate(k) ==
    /\ \E b \in Base : billing' = [billing EXCEPT ![k] = b]
    /\ UNCHANGED <<bill, pc, edit, generation, overtaking>>

\* Mutant of Editable: a bill can be adjusted whatever its status.
EditableLate(op) == CASE op = "adjust"  -> {"draft", "confirmed", "paid"}
                      [] op = "confirm" -> {"draft"}
                      [] op = "pay"     -> {"confirmed"}
                      [] op = "delete"  -> {"draft"}

\* _load_bill_in_scope and the check of the status; any other status is a 400.
Editable(op) == CASE op = "adjust"  -> {"draft", "confirmed"}
                  [] op = "confirm" -> {"draft"}
                  [] op = "pay"     -> {"confirmed"}
                  [] op = "delete"  -> {"draft"}

LoadBill(u, op) ==
    /\ At(u, "idle", op)
    /\ \E k \in Keys :
          /\ bill[k].status \in Editable(op)
          /\ key' = [key EXCEPT ![u] = k]
          /\ loaded' = [loaded EXCEPT ![u] = bill[k]]
    /\ \/ op = "adjust" /\ \E a \in Adjustments : amount' = [amount EXCEPT ![u] = a]
       \/ op # "adjust" /\ UNCHANGED amount
    /\ UNCHANGED <<billing, bill, generation, overtaking>>

\* The flush and the commit.  An UPDATE that finds the id gone raises, a DELETE
\* does not mind; either way nothing is written.
Save(u, op, row) ==
    /\ At(u, op, "idle")
    /\ ~ Held(u, key[u])
    /\ bill' = IF bill[key[u]].id = loaded[u].id THEN [bill EXCEPT ![key[u]] = row] ELSE bill
    /\ key' = [key EXCEPT ![u] = CHOOSE k \in Keys : TRUE]
    /\ loaded' = [loaded EXCEPT ![u] = NoRow]
    /\ amount' = [amount EXCEPT ![u] = 0]
    /\ Overtake(u, {k \in Keys : bill'[k] # bill[k]})
    /\ UNCHANGED <<billing, generation>>

\* An UPDATE names the columns whose value is not the loaded one.
Dirty(u, field, value) ==
    IF value = loaded[u][field] THEN bill[key[u]][field] ELSE value

Adjust(u) ==
    Save(u, "adjust",
         [bill[key[u]] EXCEPT !.adjustment = Dirty(u, "adjustment", amount[u]),
                              !.final_cost = Dirty(u, "final_cost", <<loaded[u].base, amount[u]>>)])

Confirm(u)  == Save(u, "confirm", [bill[key[u]] EXCEPT !.status = "confirmed"])
MarkPaid(u) == Save(u, "pay", [bill[key[u]] EXCEPT !.status = "paid"])
Delete(u)   == Save(u, "delete", NoRow)

-----------------------------------------------------------------------------
\* POST /generate and the beat's job start with the totals ...
Generate(r) ==
    /\ At(r, "idle", "aggregate")
    /\ UNCHANGED <<billing, bill, edit, generation, overtaking>>

\* ... POST /regenerate selects the drafts first, to delete them.
Regenerate(u) ==
    /\ At(u, "idle", "aggregate")
    /\ doomed' = [doomed EXCEPT ![u] =
                    {<<k, bill[k].id>> : k \in {k \in Keys : bill[k].status = "draft"}}]
    /\ UNCHANGED <<billing, bill, edit, rows, locked, overtaking>>

\* Without totals generate_bills returns at once, and only the deletes remain.
Aggregate(r) ==
    /\ At(r, "aggregate", IF billing = NoRows THEN "upsert" ELSE "lock")
    /\ \A k \in Keys : <<k, bill[k].id>> \in doomed[r] => ~ Held(r, k)
    /\ rows' = [rows EXCEPT ![r] = billing]
    /\ UNCHANGED <<billing, bill, edit, locked, doomed, overtaking>>

\* What is left of a bill after the deletes of r, by id, whatever the status has
\* become.
Kept(r, k) == IF <<k, bill[k].id>> \in doomed[r] THEN NoRow ELSE bill[k]

ReadLocked(r) ==
    /\ At(r, "lock", "upsert")
    /\ locked' = [locked EXCEPT ![r] = {k \in Keys : Kept(r, k).status \in {"confirmed", "paid"}}]
    /\ UNCHANGED <<billing, bill, edit, rows, doomed, overtaking>>

FreshId(k) ==
    CHOOSE i \in Ids : /\ i # bill[k].id
                       /\ \A u \in Users : key[u] = k => i # loaded[u].id
                       /\ \A r \in Requests : <<k, i>> \notin doomed[r]

Drafted(r, k) == [id |-> FreshId(k), status |-> "draft", base |-> rows[r][k],
                  adjustment |-> 0, final_cost |-> <<rows[r][k], 0>>]

\* Mutant of Updated: the total forgets the adjustment.
UpdatedBare(r, k) ==
    [Kept(r, k) EXCEPT !.base = rows[r][k], !.final_cost = <<rows[r][k], 0>>]

\* Mutant of Updated: the values of a new bill, its adjustment among them.
UpdatedAnew(r, k) ==
    [Kept(r, k) EXCEPT !.base = rows[r][k], !.adjustment = 0, !.final_cost = <<rows[r][k], 0>>]

\* ON CONFLICT DO UPDATE, whatever the status of the row in the way.
Updated(r, k) ==
    [Kept(r, k) EXCEPT !.base = rows[r][k], !.final_cost = <<rows[r][k], Kept(r, k).adjustment>>]

\* Mutant of Upserted: a key without a total is billed as well.
UpsertedAll(r, k) ==
    IF k \in locked[r] THEN Kept(r, k)
    ELSE IF Kept(r, k) = NoRow THEN Drafted(r, k) ELSE Updated(r, k)

LeftAlone(r, k) == rows[r][k] = NoBase \/ k \in locked[r]

Upserted(r, k) ==
    IF LeftAlone(r, k) THEN Kept(r, k)
    ELSE IF Kept(r, k) = NoRow THEN Drafted(r, k) ELSE Updated(r, k)

Finish(r) ==
    /\ rows' = [rows EXCEPT ![r] = NoRows]
    /\ locked' = [locked EXCEPT ![r] = {}]
    /\ doomed' = [doomed EXCEPT ![r] = {}]

Upsert(r) ==
    /\ At(r, "upsert", "idle")
    /\ \A k \in Keys : LeftAlone(r, k) \/ ~ Held(r, k)
    /\ bill' = [k \in Keys |-> Upserted(r, k)]
    /\ Finish(r)
    /\ Overtake(r, {k \in Keys : Kept(r, k) # bill[k]})
    /\ UNCHANGED <<billing, edit>>

\* An exception or a killed worker: get_db rolls back.
Abort(r) ==
    /\ pc[r] \in Generating
    /\ pc' = [pc EXCEPT ![r] = "idle"]
    /\ Finish(r)
    /\ Overtake(r, {})
    /\ UNCHANGED <<billing, bill, edit>>

Next ==
    \/ \E k \in Keys : Restate(k)
    \/ \E u \in Users :
          \/ \E op \in Editing : LoadBill(u, op)
          \/ Adjust(u) \/ Confirm(u) \/ MarkPaid(u) \/ Delete(u) \/ Regenerate(u)
    \/ \E r \in Requests : Generate(r) \/ Aggregate(r) \/ ReadLocked(r) \/ Upsert(r) \/ Abort(r)

Spec == Init /\ [][Next]_vars

-----------------------------------------------------------------------------
Book == INSTANCE BillBook
        WITH book <- [k \in Keys |-> [status |-> bill[k].status, adjustment |-> bill[k].adjustment]],
             disputed <- raced

\* Although a request is two transactions and a generation three statements, any number
\* of operators work at once and the job runs beside them, every step is an operation of
\* docs/API.md:154-160 on a bill that it is for, or changes neither status nor adjustment:
\* no check of a status is out of date when its request writes, no adjustment comes to a
\* paid bill, no regeneration deletes a confirmed one and a generation keeps those it
\* finds.  Only for a bill that a request has written without knowing of another
\* operator's save nothing is promised any more: no row is locked and no version checked.
BillsAreBooked == Book!Spec

\* The final cost of a bill includes the adjustment that the bill shows: an adjustment
\* and a generation that cross may leave an old base in the total, never another
\* adjustment.  Two operators' requests that cross on a bill may do that.
AdjustmentCounts == \A k \in Keys \ raced : bill[k].final_cost[2] = bill[k].adjustment

\* Nobody changes the amounts of a paid bill who has seen it confirmed: it takes a
\* request, an operator's or the job's, that read the bill, or its list of bills to leave
\* alone, before another request saved it, and commits after.
Amounts(row) == <<row.base, row.adjustment, row.final_cost>>

PaidIsKept ==
    [][\A k \in Keys : bill[k].status = "paid" /\ Amounts(bill'[k]) # Amounts(bill[k]) =>
          \E r \in Requests : k \in missed[r] /\ pc[r] # "idle" /\ pc'[r] = "idle"]_vars

(***************************************************************************)
(* What the documents say and the code does not do.                          *)
(***************************************************************************)

\* "Confirmed/paid bills are never touched to preserve financial integrity"
\* (bill_service.py:22), POST /regenerate deletes "该月所有 draft" and nothing but a draft is
\* deleted (docs/API.md:160, :159), PUT /adjust is "仅 draft 或 confirmed" (:156): a
\* confirmed bill keeps its base until it is paid, and a paid bill is final.  An upsert that
\* crosses a confirmation, a regeneration that crosses one and an adjustment that crosses
\* a payment each break it.
ConfirmedUntouched ==
    [][\A k \in Keys :
          /\ bill[k].status = "confirmed" =>
                bill'[k].status \in {"confirmed", "paid"} /\ bill'[k].base = bill[k].base
          /\ bill[k].status = "paid" => bill'[k] = bill[k]]_vars

=============================================================================
