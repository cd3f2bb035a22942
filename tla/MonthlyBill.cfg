\* Two operators at a time; an operator may generate as the job does.
CONSTANTS
    u1 = u1
    u2 = u2
    x = x
    y = y
    Keys = {"a"}
    Users = {u1, u2}
    Jobs = {}
    Bases = {x, y}
    Adjustments = {0, 1}
    Ids = {1, 2, 3, 4}
SPECIFICATION Spec
SYMMETRY Symmetry
INVARIANTS TypeOK AdjustmentCounts
PROPERTIES BillsAreBooked PaidIsKept
