------------------------------- MODULE Alerts -------------------------------
(* The daily check of the alert rules (services/alert_service.py), what a     *)
(* rule's target_id refers to (services/alert_targets.py), and the rules,     *)
(* history and notifications behind the API (api/alerts.py).  The check       *)
(* works through the rules in one database session; requests are one step     *)
(* each, but for the deletion of a rule, which first reads what to detach.    *)
(* A day holds one row per site and external id; a row is billed in some      *)
(* currency and has, once it is filled in, its amount in dollars.             *)
EXTENDS Integers, FiniteSetsExt, Scope

CONSTANTS Users, PrincipalOf,
          Projects, ExtOf, SiteOf, ProviderOf, \* SiteOf[p] = NoSite: data_source_id is NULL
          NoSite,
          ProviderAt,         \* a site's provider
          Trimmed,            \* external ids -> the same without blanks around them
          NotFilled,          \* cost_usd is NULL
          CalendarMonth, CalendarYear,    \* of a day, 1..n
          Ledgers,            \* what billing may hold: functions from some cells to amounts
          Rules, ShapesOf,    \* a rule's ids, and what its requests may make of it
          Todays,             \* the days of the run
          MaxRequests         \* bound: how many requests there are

VARIABLES
    today,
    ledger,     \* billing_summary: cell -> [cost, usd]
    rule,       \* alert_rules: id -> shape
    used,       \* the ids that have been given
    history,    \* alert_history: ids <<rule, day>>, as a rule is checked once a day
    notes,      \* notifications: the id of its history -> [linked, read]
    dismissed,  \* notifications that a user has deleted
    check,      \* the session of a running check, or NoCheck
    checked,    \* the day has had its check
    deletion,   \* a delete_rule that has read the history, or NoDeletion
    requests,   \* how many requests have been made
    quiet       \* nothing has been requested or synced since the check began

alertsVars == <<today, ledger, rule, used, history, notes, dismissed, check, checked, deletion, requests, quiet>>
tables == <<ledger, rule, used, history, notes, dismissed>>

Days == DOMAIN CalendarMonth
Cell(site, ext, day) == [site |-> site, ext |-> ext, day |-> day]
ByProject(p) == [by |-> "pid", is |-> p]
ByExternal(x) == [by |-> "ext", is |-> x]
Refs == {ByProject(p) : p \in Projects} \cup {ByExternal(Trimmed[ExtOf[p]]) : p \in Projects}
             \cup {ByExternal(ProviderAt[site]) : site \in DOMAIN ProviderAt}

\* The kinds whose check looks at target_type, and the others.
Typeds == {"daily_absolute", "daily_increase_pct", "monthly_budget", "monthly_minimum_commitment"}
Singles == Typeds \cup {"account_lifetime_quota"}
Multis == {"monthly_budget_multi", "yearly_budget_multi", "custom_period_budget_multi"}

\* A rule: refs is what its target_id parses to, {} for a rule about everything (the id of a
\* provider parses as an external id); days is the custom period.
Shapes == [kind : Singles \cup Multis, target : {"project", "provider", "project_group"},
           refs : SUBSET Refs, limit : Nat, days : SUBSET Days, active : BOOLEAN]

\* A month has two days or more; the references of a rule and the billing are finitely many.
ASSUME AlertsOK ==
    /\ Days \subseteq Nat
    /\ \A d \in Days : {d - 1, d + 1} \subseteq Days =>
         CalendarMonth[d] \in {CalendarMonth[d - 1], CalendarMonth[d + 1]}
    /\ Todays \subseteq Days /\ Todays # {}
    /\ \A r \in Rules : ShapesOf[r] \subseteq Shapes
    /\ \A r \in Rules : \A s \in ShapesOf[r] :
         IsFiniteSet(s.refs) /\ (s.kind \in Singles => Cardinality(s.refs) <= 1)
    /\ \A l \in Ledgers : IsFiniteSet(DOMAIN l) /\ \A c \in DOMAIN l :
         l[c] \in [cost : Nat, usd : Nat \cup {NotFilled}] /\ c.day \in Days

\* The rules to be checked, those of them the session has loaded, the alert to be told of.
NoCheck == [on |-> FALSE, todo |-> {}, loaded |-> <<>>, telling |-> {}]
NoDeletion == [of |-> {}, ids |-> {}]
Ids == Rules \X Days

AlertsTypeOK ==
    /\ today \in Todays /\ ledger \in Ledgers
    /\ used \subseteq Rules /\ DOMAIN rule \subseteq used
    /\ \A r \in DOMAIN rule : rule[r] \in ShapesOf[r]
    /\ history \subseteq {h \in Ids : h[1] \in DOMAIN rule /\ h[2] <= today}
    /\ DOMAIN notes \subseteq Ids \ dismissed
    /\ \A n \in DOMAIN notes : notes[n] \in [linked : BOOLEAN, read : BOOLEAN]
    /\ DOMAIN check.loaded \subseteq check.todo /\ check.todo \subseteq used
    /\ \A h \in check.telling : h[2] = today
    /\ Cardinality(check.telling) <= 1 /\ Cardinality(deletion.of) <= 1

----------------------------------------------------------------------------
(* Targets and amounts.                                                     *)

\* billing_matches_project_row, with same_data_source.
OfProject(c, p) == c.ext = Trimmed[ExtOf[p]] /\ SiteOf[p] \in {c.site, NoSite}

\* billing_target_filter: the rows of one reference.
Matches(c, ref) ==
    CASE ref.by = "ext" -> c.ext = ref.is
      [] ref.by = "pid" -> OfProject(c, ref.is)

\* Mutant of Selects: a project is matched by its external id alone.
SelectsAnySite(s, c) ==
    \/ s.refs = {}
    \/ \E ref \in s.refs : c.ext = IF ref.by = "ext" THEN ref.is ELSE Trimmed[ExtOf[ref.is]]

\* The filter of a check: four kinds heed target_type, and only a rule about a project has its
\* references looked at there; the others heed the references.
Selects(s, c) ==
    \/ s.refs = {}
    \/ /\ s.kind \in Typeds /\ s.target # "project"
       /\ s.target = "provider" => s.refs = {ByExternal(ProviderAt[c.site])}
    \/ /\ s.kind \in Typeds => s.target = "project"
       /\ \E ref \in s.refs : Matches(c, ref)

\* The rows a rule counts: each once, whichever references it matches.
Counted(s, days) == {c \in DOMAIN ledger : c.day \in days /\ Selects(s, c)}

\* _cost: dollars, and the amount as it was billed while they have not been filled in.
Usd(c) == IF ledger[c].usd = NotFilled THEN ledger[c].cost ELSE ledger[c].usd

Total(cells) == MapThenSumSet(LAMBDA c : Usd(c), cells)

MonthTo(d) == {e \in Days : CalendarMonth[e] = CalendarMonth[d] /\ e <= d}
YearTo(d) == {e \in Days : CalendarYear[e] = CalendarYear[d] /\ e <= d}
FirstOfMonth(d) == d - 1 \in Days /\ CalendarMonth[d - 1] # CalendarMonth[d]
LastOfMonth(d) == d + 1 \in Days /\ CalendarMonth[d + 1] # CalendarMonth[d]

\* _check_monthly_commitment: the month it is about, none in its middle.
CommitmentDays ==
    IF FirstOfMonth(today) THEN MonthTo(today - 1)
    ELSE IF LastOfMonth(today) THEN MonthTo(today) ELSE {}

AtLeast(cells, limit) == cells # {} /\ Total(cells) >= limit

\* _check_account_lifetime_quota: nine tenths of the quota.
QuotaNear(s) == s.limit > 0 /\ s.refs # {} /\ 10 * Total(Counted(s, Days)) >= 9 * s.limit

Rises(prev, curr, pct) == 100 * (curr - prev) >= pct * prev

\* _check_daily_increase_pct; nothing to compare with where the day before cost nothing.
Risen(s) ==
    LET prev == Counted(s, {today - 2})  curr == Counted(s, {today - 1})
    IN  prev # {} /\ curr # {} /\ Total(prev) > 0 /\ Rises(Total(prev), Total(curr), s.limit)

\* The three _multi checks: of this month, of this year, of a period.
GroupSpent(s, days) == s.limit > 0 /\ s.refs # {} /\ Total(Counted(s, days)) >= s.limit
YearSpent(s) == GroupSpent(s, YearTo(today))
PeriodSpent(s) == s.days # {} /\ GroupSpent(s, s.days)

\* _check_monthly_budget
MonthSpent(s) == AtLeast(Counted(s, MonthTo(today)), s.limit)

\* _check_monthly_commitment: nothing is due where nothing was billed at all.
CommitmentMissed(s) ==
    LET cells == Counted(s, CommitmentDays) IN cells # {} /\ Total(cells) < s.limit

\* check_all_alerts: whether a rule fires, by its threshold_type.
Fires(s) ==
    CASE s.kind = "daily_absolute" -> AtLeast(Counted(s, {today - 1}), s.limit)
      [] s.kind = "monthly_budget" -> MonthSpent(s)
      [] s.kind = "daily_increase_pct" -> Risen(s)
      [] s.kind = "monthly_minimum_commitment" -> CommitmentMissed(s)
      [] s.kind = "account_lifetime_quota" -> QuotaNear(s)
      [] s.kind = "monthly_budget_multi" -> GroupSpent(s, MonthTo(today))
      [] s.kind = "yearly_budget_multi" -> YearSpent(s)
      [] s.kind = "custom_period_budget_multi" -> PeriodSpent(s)

----------------------------------------------------------------------------
(* rule_status: the same question, answered for the page of rules.           *)

\* The amounts as they were billed, whatever their currency.
AsBilled(cells) == MapThenSumSet(LAMBDA c : ledger[c].cost, cells)

\* cost_by_ref: a total for each reference.  target_type is not looked at.
CostBy(ref, days) == AsBilled({c \in DOMAIN ledger : c.day \in days /\ Matches(c, ref)})

\* Whole months and years, the days to come included.
StatusCost(s, days) == MapThenSumSet(LAMBDA ref : CostBy(ref, days), s.refs)
ThisMonth == {e \in Days : CalendarMonth[e] = CalendarMonth[today]}
ThisYear == {e \in Days : CalendarYear[e] = CalendarYear[today]}

\* Rounded to hundredths of a percent first: a rise within half of one below pct is pct.
RisesRounded(prev, curr, pct) == 20000 * (curr - prev) >= (200 * pct - 1) * prev

StatusTriggered(s) ==
    CASE s.kind = "daily_absolute" -> StatusCost(s, {today - 1}) >= s.limit
      [] s.kind \in {"monthly_budget", "monthly_budget_multi"} -> StatusCost(s, ThisMonth) >= s.limit
      [] s.kind = "daily_increase_pct" ->
            LET prev == StatusCost(s, {today - 2})  curr == StatusCost(s, {today - 1})
            IN  IF prev > 0 THEN RisesRounded(prev, curr, s.limit) ELSE 0 >= s.limit
      [] s.kind = "monthly_minimum_commitment" -> StatusCost(s, ThisMonth) < s.limit
      [] s.kind = "account_lifetime_quota" -> 10 * StatusCost(s, Days) >= 9 * s.limit
      [] s.kind = "yearly_budget_multi" -> StatusCost(s, ThisYear) >= s.limit
      [] s.kind = "custom_period_budget_multi" -> StatusCost(s, s.days) >= s.limit

----------------------------------------------------------------------------
(* The check: one worker, one session.                                      *)

AlertsInit ==
    /\ today = Min(Todays)
    /\ ledger \in Ledgers
    /\ used \in SUBSET Rules
    /\ rule \in [used -> UNION {ShapesOf[r] : r \in Rules}] /\ \A r \in used : rule[r] \in ShapesOf[r]
    /\ history = {} /\ notes = <<>> /\ dismissed = {}
    /\ check = NoCheck /\ checked = FALSE
    /\ deletion = NoDeletion /\ requests = 0 /\ quiet = TRUE

Only(f, S) == [x \in S |-> f[x]]

Begin ==
    /\ ~check.on /\ ~checked
    /\ LET active == {r \in DOMAIN rule : rule[r].active}
       IN  check' = [on |-> TRUE, todo |-> active, loaded |-> Only(rule, active), telling |-> {}]
    /\ checked' = TRUE /\ quiet' = TRUE
    /\ UNCHANGED <<today, tables, deletion, requests>>

\* A commit expires what the session has loaded; the next use loads it again.
Seen(r) == IF r \in DOMAIN check.loaded THEN check.loaded[r] ELSE rule[r]
Known(r) == r \in DOMAIN check.loaded \cup DOMAIN rule

Turn(r) == check.on /\ check.telling = {} /\ r \in check.todo

Pass(r) ==
    /\ Turn(r) /\ Known(r)
    /\ ~Fires(Seen(r))
    /\ check' = [check EXCEPT !.todo = @ \ {r}, !.loaded = Only(@, DOMAIN @ \ {r})]
    /\ UNCHANGED <<today, tables, checked, deletion, requests, quiet>>

\* Mutant of Trigger: the notification is left to the step that tells people.
TriggerSilently(r) ==
    /\ Turn(r) /\ Known(r) /\ r \in DOMAIN rule
    /\ Fires(Seen(r))
    /\ history' = history \cup {<<r, today>>}
    /\ check' = [check EXCEPT !.todo = @ \ {r}, !.loaded = <<>>, !.telling = {<<r, today>>}]
    /\ UNCHANGED <<today, ledger, rule, used, notes, dismissed, checked, deletion, requests, quiet>>

\* _trigger_alert: history and notification in one transaction.  The foreign key needs the
\* rule to be there still.
Trigger(r) ==
    /\ Turn(r) /\ Known(r) /\ r \in DOMAIN rule
    /\ Fires(Seen(r))
    /\ history' = history \cup {<<r, today>>}
    /\ notes' = [n \in DOMAIN notes \cup {<<r, today>>} |->
                    IF n = <<r, today>> THEN [linked |-> TRUE, read |-> FALSE] ELSE notes[n]]
    /\ check' = [check EXCEPT !.todo = @ \ {r}, !.loaded = <<>>, !.telling = {<<r, today>>}]
    /\ UNCHANGED <<today, ledger, rule, used, dismissed, checked, deletion, requests, quiet>>

\* The rule is read again for its mail and its webhook; a failure to send is logged, and
\* notified is all that differs.
Tell ==
    /\ check.on /\ check.telling # {} /\ check.telling \subseteq history
    /\ check' = [check EXCEPT !.telling = {}]
    /\ UNCHANGED <<today, tables, checked, deletion, requests, quiet>>

\* The rule, or the history to be marked, has been deleted.  Nothing rolls the session back,
\* and the handler itself reads rule.id from it: the exception leaves the loop.
CheckBreaks ==
    /\ check.on
    /\ \/ check.telling \ history # {}
       \/ \E r \in check.todo : Turn(r) /\ r \notin DOMAIN rule /\ (Known(r) => Fires(Seen(r)))
    /\ check' = NoCheck
    /\ UNCHANGED <<today, tables, checked, deletion, requests, quiet>>

\* A query fails: the transaction stays aborted, so the rules that are left fail as well.
CheckFails ==
    /\ check.on
    /\ check' = NoCheck
    /\ UNCHANGED <<today, tables, checked, deletion, requests, quiet>>

CheckEnds ==
    /\ check.on /\ check.todo = {} /\ check.telling = {}
    /\ check' = NoCheck
    /\ UNCHANGED <<today, tables, checked, deletion, requests, quiet>>

NextDay ==
    /\ checked /\ ~check.on /\ \E d \in Todays : d > today
    /\ today' = Min({d \in Todays : d > today})
    /\ checked' = FALSE
    /\ UNCHANGED <<tables, check, deletion, requests, quiet>>

Sync ==
    /\ requests < MaxRequests
    /\ ledger' \in Ledgers \ {ledger}
    /\ requests' = requests + 1 /\ quiet' = FALSE
    /\ UNCHANGED <<today, rule, used, history, notes, dismissed, check, checked, deletion>>

----------------------------------------------------------------------------
(* The API.                                                                 *)

TargetProviders(s) ==
    {ProviderOf[p] : p \in {q \in Projects : \E ref \in s.refs : ref \in {ByProject(q), ByExternal(ExtOf[q])}}}

\* _ensure_rule_target_in_scope
InScope(u, s) == FullAccess(PrincipalOf[u]) \/ TargetProviders(s) \subseteq ProvidersOf(PrincipalOf[u])

\* _visible_rule_ids
VisibleRules(u) ==
    {r \in DOMAIN rule :
        \/ FullAccess(PrincipalOf[u])
        \/ /\ ProvidersOf(PrincipalOf[u]) # {}
           /\ rule[r].refs = {} \/ TargetProviders(rule[r]) \cap ProvidersOf(PrincipalOf[u]) # {}}

\* rule_status: the rules its page shows.
StatusRules(u) == {r \in VisibleRules(u) : rule[r].active /\ rule[r].refs # {}}

\* _scope_notifications_stmt: a notification without history is everybody's, but somebody
\* who sees no rule gets none.
VisibleNotes(u) ==
    {n \in DOMAIN notes :
        \/ FullAccess(PrincipalOf[u])
        \/ VisibleRules(u) # {} /\ (notes[n].linked => n[1] \in VisibleRules(u))}

\* _ensure_notification_visible, which lets everybody at a notification without history.
Reachable(u, n) == notes[n].linked /\ ~FullAccess(PrincipalOf[u]) => n[1] \in VisibleRules(u)

Request ==
    /\ requests < MaxRequests
    /\ requests' = requests + 1 /\ quiet' = FALSE

CreateRule(u, r, s) ==
    /\ Request
    /\ CloudRole(PrincipalOf[u]) /\ InScope(u, s)
    /\ r \notin used
    /\ used' = used \cup {r}
    /\ rule' = [q \in DOMAIN rule \cup {r} |-> IF q = r THEN s ELSE rule[q]]
    /\ UNCHANGED <<today, ledger, history, notes, dismissed, check, checked, deletion>>

UpdateRule(u, r, s) ==
    /\ Request
    /\ CloudRole(PrincipalOf[u]) /\ InScope(u, rule[r]) /\ InScope(u, s)
    /\ rule' = [rule EXCEPT ![r] = s]
    /\ UNCHANGED <<today, ledger, used, history, notes, dismissed, check, checked, deletion>>

\* delete_rule: hist_ids.
DeleteBegins(u, r) ==
    /\ Request
    /\ deletion = NoDeletion
    /\ CloudRole(PrincipalOf[u]) /\ InScope(u, rule[r])
    /\ deletion' = [of |-> {r}, ids |-> {h \in history : h[1] = r}]
    /\ UNCHANGED <<today, tables, check, checked>>

\* Mutant of DeleteRule: the history is deleted by the ids that were read.
DeleteRuleByIds ==
    /\ \E r \in deletion.of :
         /\ rule' = Only(rule, DOMAIN rule \ {r})
         /\ history' = history \ deletion.ids
         /\ notes' = [n \in DOMAIN notes |-> IF n \in deletion.ids THEN [notes[n] EXCEPT !.linked = FALSE] ELSE notes[n]]
    /\ deletion' = NoDeletion /\ quiet' = FALSE
    /\ UNCHANGED <<today, ledger, used, dismissed, check, checked, requests>>

\* Detach the notifications, delete the history, delete the rule.  The history is deleted by
\* rule: a notification of one that was written since stands in its way.
DeleteRule ==
    /\ \E r \in deletion.of :
         /\ \A h \in history : h[1] = r /\ h \in DOMAIN notes => h \in deletion.ids
         /\ rule' = Only(rule, DOMAIN rule \ {r})
         /\ history' = {h \in history : h[1] # r}
         /\ notes' = [n \in DOMAIN notes |-> IF n \in deletion.ids THEN [notes[n] EXCEPT !.linked = FALSE] ELSE notes[n]]
    /\ deletion' = NoDeletion /\ quiet' = FALSE
    /\ UNCHANGED <<today, ledger, used, dismissed, check, checked, requests>>

DeleteFails ==
    /\ deletion # NoDeletion
    /\ deletion' = NoDeletion
    /\ UNCHANGED <<today, tables, check, checked, requests, quiet>>

Marked(ns) == [n \in DOMAIN notes |-> [notes[n] EXCEPT !.read = @ \/ n \in ns]]

MarkRead(u, n) ==
    /\ Request
    /\ Reachable(u, n)
    /\ notes' = Marked({n})
    /\ UNCHANGED <<today, ledger, rule, used, history, dismissed, check, checked, deletion>>

MarkAllRead(u) ==
    /\ Request
    /\ notes' = Marked(VisibleNotes(u))
    /\ UNCHANGED <<today, ledger, rule, used, history, dismissed, check, checked, deletion>>

Dismiss(ns) ==
    /\ notes' = Only(notes, DOMAIN notes \ ns)
    /\ dismissed' = dismissed \cup ns
    /\ UNCHANGED <<today, ledger, rule, used, history, check, checked, deletion>>

DeleteNotification(u, n) == Request /\ Reachable(u, n) /\ Dismiss({n})

DeleteNotifications(u, onlyRead) ==
    Request /\ Dismiss({n \in VisibleNotes(u) : onlyRead => notes[n].read})

Checking == Begin \/ (\E r \in Rules : Pass(r) \/ Trigger(r)) \/ Tell \/ CheckBreaks \/ CheckFails \/ CheckEnds

Serving(u) ==
    \/ \E r \in Rules \ used : \E s \in ShapesOf[r] : CreateRule(u, r, s)
    \/ \E r \in DOMAIN rule : \E s \in ShapesOf[r] : UpdateRule(u, r, s)
    \/ \E r \in DOMAIN rule : DeleteBegins(u, r)
    \/ \E n \in DOMAIN notes : MarkRead(u, n) \/ DeleteNotification(u, n)
    \/ MarkAllRead(u)
    \/ \E onlyRead \in BOOLEAN : DeleteNotifications(u, onlyRead)

AlertsNext == Checking \/ NextDay \/ Sync \/ (\E u \in Users : Serving(u)) \/ DeleteRule \/ DeleteFails

AlertsSpec == AlertsInit /\ [][AlertsNext]_alertsVars

----------------------------------------------------------------------------
(* Properties.                                                              *)

\* A question with one answer: a positive limit, references of which no billing row matches two,
\* no billing of days to come, the period of a custom rule given, and for a commitment the last
\* day of the month and some billing.
Posed(s) ==
    /\ s.refs # {} /\ s.limit > 0
    /\ \A c \in DOMAIN ledger : Cardinality({ref \in s.refs : Matches(c, ref)}) <= 1 /\ c.day <= today
    /\ s.kind = "monthly_minimum_commitment" =>
         LastOfMonth(today) /\ Counted(s, MonthTo(today)) # {}
    /\ s.kind = "custom_period_budget_multi" => s.days # {}

\* What the two read differently: the target, the currency, and a rise just below the limit.
OfProjects(s) == s.kind \in Typeds => s.target = "project"
InDollars(s) == \A c \in DOMAIN ledger : (\E ref \in s.refs : Matches(c, ref)) => Usd(c) = ledger[c].cost
NotRoundedUp(s) ==
    LET prev == Total(Counted(s, {today - 2}))  curr == Total(Counted(s, {today - 1}))
    IN  s.kind = "daily_increase_pct" /\ RisesRounded(prev, curr, s.limit) => Rises(prev, curr, s.limit)

Comparable(s) == Posed(s) /\ OfProjects(s) /\ InDollars(s) /\ NotRoundedUp(s)

\* The user is shown an alert of today exactly where the page calls the rule triggered.
Agrees(u, r) == <<r, today>> \in VisibleNotes(u) <=> StatusTriggered(rule[r])

\* A check that ends while nobody has changed anything has alerted exactly the rules that
\* rule_status shows as triggered (api/alerts.py:512 against alert_service.py:80; the two compute
\* every amount by different queries), and whoever is shown the one is shown the other: for
\* rules about projects whose rows are in dollars, but for a rise the page rounds up.  The
\* promise has no such conditions ("triggered: bool  # whether the alert condition is met",
\* api/alerts.py:397), but the page adds up amounts as they were billed where the check takes
\* dollars ("绝不混币", alert_service.py:31), and a provider's name for a project's id.
AlertsMatchStatus ==
    [][CheckEnds /\ quiet =>
          \A u \in Users : \A r \in StatusRules(u) : Comparable(rule[r]) => Agrees(u, r)]_alertsVars

\* No alert without its notification, whenever the check stops and whoever deletes a rule: a
\* recorded alert has a notification until a user deletes it, a notification points to an alert
\* that is there, and it loses the alert only together with the rule (api/alerts.py:172).
AlertsAreShown ==
    /\ history \subseteq DOMAIN notes \cup dismissed
    /\ \A n \in DOMAIN notes : IF notes[n].linked THEN n \in history ELSE n[1] \notin DOMAIN rule
=============================================================================
