\* The same instance: requests that cross the confirmation or the payment of a bill.
CONSTANTS
    u1 = u1
    u2 = u2
    x = x
    y = y
    Keys = {"a"}
    Users = {u1, u2}
    Jobs = {}
    Bases = {x, y}
    Adjustments = {0, 1}
    Ids = {1, 2, 3, 4}
SPECIFICATION Spec
PROPERTIES ConfirmedUntouched
