------------------------------- MODULE MCReports -------------------------------
(* An administrator, a user of one provider and a program with a key for one   *)
(* account; two sources of two providers, two months of two days.              *)
EXTENDS Reports

CONSTANTS admin, member, key, s1, s2, a1, a2, x, y, p1, p2, p3, none

MCTokenRoles == (admin :> {{"cloud_admin"}}) @@ (member :> {{x}, {}})
MCDbRoles == (admin :> {"cloud_admin"}) @@ (member :> {})
MCKeyOf == (key :> [owner |-> admin, modules |-> {"dashboard", "billing"}, accounts |-> {a1}, expires |-> TRUE])
MCAccountOf == (s1 :> a1) @@ (s2 :> a2)
MCProviderOf == (a1 :> x) @@ (a2 :> y)
MCCategoryOf == (s1 :> "resale") @@ (s2 :> none)

Item(day, source, project, region) ==
    [day |-> day, source |-> source, project |-> project, product |-> "vm", region |-> region]
\* Two rows of one day, one of the day before, and one of the day after the month; one has a blank
\* after its project.
MCItems == {Item(4, s1, "east", "eu"), Item(4, s1, "east ", none), Item(3, s2, "east", "eu"), Item(5, s2, "west", none)}
MCFirst == {Item(4, s1, "east", "eu"), Item(4, s1, "east ", none), Item(3, s2, "east", "eu")}

\* A row of before the two columns; then an invoice in dollars and one in yuan.
MCFirstBill == [cost |-> 1, usd |-> none, cny |-> none]
MCBills == {[cost |-> 2, usd |-> 2, cny |-> 14], [cost |-> 14, usd |-> 2, cny |-> 14]}

\* Two accounts match the project "east" of s1, one of them whatever its source; the third is
\* written with a blank.
MCTrimmed == [e \in {"east", "east "} |-> "east"] @@ [e \in {"west", "west "} |-> "west"]
MCProjectOf ==
    (p1 :> [ext |-> "east", source |-> s1, provider |-> x, status |-> "active"])
 @@ (p2 :> [ext |-> "east", source |-> none, provider |-> x, status |-> "standby"])
 @@ (p3 :> [ext |-> "west ", source |-> s2, provider |-> y, status |-> "active"])

Month(fn, currency) == [fn |-> fn, month |-> 2, currency |-> currency]
MCQuestions ==
    {Month("overview", "usd"), Month("by_provider", "cny"), Month("by_category", "usd"),
     Month("by_region", "usd"), Month("unassigned", "usd"),
     [fn |-> "trend", month |-> 1, to |-> 2, granularity |-> "daily", currency |-> "usd"],
     [fn |-> "trend", month |-> 2, to |-> 2, granularity |-> "monthly", currency |-> "cny"],
     [fn |-> "by_project", month |-> 2, limit |-> 1, currency |-> "usd"],
     [fn |-> "by_service", month |-> 2, limit |-> 1, provider |-> x, currency |-> "usd"],
     [fn |-> "top_growth", days |-> 1, currency |-> "usd"]}
MCFilters ==
    {[first |-> 1, last |-> 5, provider |-> none, accounts |-> {}],
     [first |-> 3, last |-> 4, provider |-> x, accounts |-> {p1, p2, p3}]}
================================================================================
