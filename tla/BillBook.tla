------------------------------ MODULE BillBook ------------------------------
(***************************************************************************)
(* What docs/API.md:154-160 promises of the bills of a month, each request   *)
(* at one stroke: which of them an operation is for, and what it leaves of   *)
(* the status and of the adjustment, the two columns that operators own.     *)
(* Of a disputed bill it says nothing.                                       *)
(***************************************************************************)
CONSTANTS
    Keys,           \* (category, provider)
    Adjustments     \* what an operator may enter, 0 among them

VARIABLES book, disputed

NoBill  == [status |-> "none", adjustment |-> 0]
NewBill == [status |-> "draft", adjustment |-> 0]

Init == book = [k \in Keys |-> NoBill] /\ disputed = {}

\* An operation has its result on the bills that are not disputed.
Leaves(result) == \A k \in Keys \ disputed' : book'[k] = result[k]

Adjust(k) ==
    /\ book[k].status \in {"draft", "confirmed"}
    /\ \E a \in Adjustments : Leaves([book EXCEPT ![k].adjustment = a])

Becomes(k, from, to) == book[k].status = from /\ Leaves([book EXCEPT ![k].status = to])

Confirm(k)  == Becomes(k, "draft", "confirmed")
MarkPaid(k) == Becomes(k, "confirmed", "paid")

Delete(k) == book[k].status = "draft" /\ Leaves([book EXCEPT ![k] = NoBill])

\* A generation drafts bills where there are none; a regeneration deletes drafts before it does.
Generate ==
    \E gone, billed \in SUBSET Keys :
        /\ \A k \in gone : book[k].status = "draft"
        /\ Leaves([k \in Keys |-> IF book[k] # NoBill /\ k \notin gone THEN book[k]
                                  ELSE IF k \in billed THEN NewBill ELSE NoBill])

\* A bill once disputed remains so.
Next ==
    /\ disputed \subseteq disputed'
    /\ \/ Leaves(book)
       \/ Generate
       \/ \E k \in Keys : Adjust(k) \/ Confirm(k) \/ MarkPaid(k) \/ Delete(k)

Spec == Init /\ [][Next]_<<book, disputed>>

=============================================================================
