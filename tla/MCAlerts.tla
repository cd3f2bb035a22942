------------------------------ MODULE MCAlerts ------------------------------
(* Alerts for TLC: two sites of one provider that use the same external id    *)
(* and a project without a data source, whose id has blanks around it; the    *)
(* last day of a month, the first of the next; rows that are not in dollars   *)
(* or not filled in, a rise of one hundred percent and one just below.        *)
EXTENDS Alerts, TLC

CONSTANTS east, west, none, p1, p2, p3, x, y, yBlank, admin, operator, r1, r2

MCPrincipal == admin :> [roles |-> {"cloud_admin"}, modules |-> Unrestricted, accounts |-> Unrestricted]
            @@ operator :> [roles |-> {"taiji"}, modules |-> Unrestricted, accounts |-> Unrestricted]
MCExt == p1 :> x @@ p2 :> x @@ p3 :> yBlank
MCTrimmed == x :> x @@ y :> y @@ yBlank :> y
MCSite == p1 :> east @@ p2 :> west @@ p3 :> none
MCProvider == p1 :> "taiji" @@ p2 :> "taiji" @@ p3 :> "gcp"
MCProviderAt == east :> "taiji" @@ west :> "taiji"

MCMonth == <<1, 1, 1, 2, 2>>
MCYear == <<1, 1, 1, 2, 2>>

Dollars(n) == [cost |-> n, usd |-> n]

MCLedgers == {
    Cell(east, x, 2) :> Dollars(1) @@ Cell(west, x, 2) :> [cost |-> 3, usd |-> NotFilled],
    Cell(east, x, 1) :> Dollars(4) @@ Cell(east, x, 2) :> Dollars(9) @@ Cell(west, x, 1) :> Dollars(1)
        @@ Cell(west, x, 2) :> Dollars(2) @@ Cell(west, y, 3) :> [cost |-> 7, usd |-> 1],
    Cell(east, x, 1) :> Dollars(1) @@ Cell(east, x, 2) :> Dollars(2) @@ Cell(east, x, 3) :> Dollars(4)
        @@ Cell(east, y, 3) :> Dollars(2) @@ Cell(west, x, 1) :> Dollars(30000) @@ Cell(west, x, 2) :> Dollars(59999)}

Shape(kind, target, refs, limit, days, active) ==
    [kind |-> kind, target |-> target, refs |-> refs, limit |-> limit, days |-> days, active |-> active]
OfProject1(kind, limit) == Shape(kind, "project", {ByProject(p1)}, limit, {}, TRUE)
OfGroup(kind, projects, limit, days) ==
    Shape(kind, "project_group", {ByProject(p) : p \in projects}, limit, days, TRUE)

MCShapes ==
    r1 :> {OfProject1("daily_absolute", 2), OfProject1("monthly_budget", 7),
           OfProject1("monthly_minimum_commitment", 4), OfProject1("account_lifetime_quota", 14),
           Shape("daily_increase_pct", "project", {ByProject(p2)}, 100, {}, TRUE),
           Shape("account_lifetime_quota", "project", {ByExternal(x)}, 4, {}, TRUE),
           Shape("daily_absolute", "provider", {ByExternal("taiji")}, 2, {}, TRUE)}
 @@ r2 :> {Shape("monthly_budget", "project", {}, 6, {}, TRUE),
           OfGroup("monthly_budget_multi", {p1, p3}, 5, {}),
           OfGroup("yearly_budget_multi", {p1, p2}, 5, {}),
           OfGroup("custom_period_budget_multi", {p2, p3}, 4, {2, 3}),
           Shape("monthly_budget", "project", {ByProject(p3)}, 2, {}, FALSE)}
=============================================================================
