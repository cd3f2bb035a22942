-------------------------------- MODULE Reports --------------------------------
(* What the console and the programs read: the cached aggregations of the      *)
(* dashboard (dashboard_service.py), the uncached queries of api/metering.py   *)
(* and api/billing.py, and their exports, which read a page at a time while    *)
(* the syncs write.                                                            *)
(*                                                                             *)
(* A billing row is [id, item, bill]; an item is what identifies a row: its    *)
(* day, data source, project, product and region. A bill is what a row costs,  *)
(* in the currency of its invoice, and in dollars and yuan as frozen when it   *)
(* came in; rows older than those two columns have None there. Amounts are     *)
(* whole. The daily summary is left out: BillingSync is about how it follows   *)
(* the rows, here it has followed.                                             *)
EXTENDS Access, FiniteSetsExt, SequencesExt, Functions

CONSTANTS Sources, AccountOf, ProviderOf, CategoryOf, Items, Projects, ProjectOf, Failed, None,
          MonthLength, Today, Chunk, Questions, Filters, FirstRows, FirstBill, Bills, Yuan, Trimmed, MaxCached
\* AccountOf[source], ProviderOf[account]; CategoryOf[source] may be None
\* Items: records [day, source, project, product, region]; region may be None
\* ProjectOf[p]: a service account [ext, source, provider, status]; source may be None
\* Failed: the sources whose last sync failed
\* Questions: what is asked of the dashboard; Filters: what is asked of metering and exports
\* FirstRows: the items billed at first, at FirstBill each; Bills: what a sync brings; both are
\* records [cost, usd, cny]; Yuan: the rate of a day, if it is the same for all
\* Trimmed: a project's id without the blanks around it

VARIABLES rows, nextId, cache, export
\* rows: the billing; nextId: the sequence of its ids
\* cache: what Redis holds, [answer, of]; of is the billing it was computed from
\* export: the export at work, or finished
reportVars == <<rows, nextId, cache, export>>
vars == <<accessVars, reportVars>>

ASSUME ReportsAssumption ==
    /\ AccountOf \in [Sources -> DOMAIN ProviderOf] /\ "all" \notin Sources
    /\ IsFiniteSet(Items) /\ FirstRows \subseteq Items /\ \A i \in Items : i.day \in Nat
    /\ IsFiniteSet(Projects) /\ IsFiniteSet(Failed)
    /\ \A p \in Projects : ProjectOf[p].status # None
    /\ None # "active"
    /\ MonthLength \in Nat \ {0} /\ Chunk \in Nat \ {0}
    /\ \A q \in Questions : (q.fn # "top_growth" => q.month \in Nat) /\ (q.fn = "trend" => q.to \in Nat)
    /\ \A f \in Filters :
         /\ f = [first |-> f.first, last |-> f.last, provider |-> f.provider, accounts |-> f.accounts]
         /\ f.first \in Nat /\ f.last \in Nat /\ f.accounts \subseteq Projects
    /\ \A b \in Bills \cup {FirstBill} : b.cost \in Int /\ {b.usd, b.cny} \subseteq Int \cup {None}
    /\ Yuan \in Int
    /\ \A p \in Projects : Trimmed[Trimmed[ProjectOf[p].ext]] = Trimmed[ProjectOf[p].ext]

ProviderOfSource(s) == ProviderOf[AccountOf[s]]

-------------------------------------------------------------------------------
(* Scopes.                                                                    *)

All == {"all"}

\* visible_data_source_ids: None for those who see everything.
ScopeOf(p) ==
    IF FullAccess(p) /\ p.accounts = Unrestricted THEN All
    ELSE VisibleSources(p, ProviderOf, AccountOf)

\* _apply_scope
Within(R, scope) == IF scope = All THEN R ELSE {r \in R : r.item.source \in scope}

\* Mutant of CacheKey: one entry for everybody.
CacheKeyShared(q, scope) == <<q>>

\* _cache_key and _scope_token, taken to be injective
CacheKey(q, scope) == <<q, scope>>

-------------------------------------------------------------------------------
(* The aggregations of the dashboard, over the rows of the scope.             *)

\* _amt and _amt_bs: COALESCE(cost_cny, 0), or COALESCE(cost_usd, cost) as the daily summary adds it
Amount(r, currency) ==
    IF currency = "cny" THEN IF r.bill.cny = None THEN 0 ELSE r.bill.cny
    ELSE IF r.bill.usd = None THEN r.bill.cost ELSE r.bill.usd
Total(R, currency) == MapThenSumSet(LAMBDA r : Amount(r, currency), R)

\* _month_range, and the rows of the days from..before
FirstDay(month) == (month - 1) * MonthLength + 1
During(R, from, before) == {r \in R : r.item.day >= from /\ r.item.day < before}
OfMonth(R, month) == During(R, FirstDay(month), FirstDay(month + 1))

\* GROUP BY with the sum of the amounts; group is a function from the rows.
By(group, currency) ==
    [g \in Range(group) |-> Total({r \in DOMAIN group : group[r] = g}, currency)]

\* ORDER BY cost DESC LIMIT n: which of equals is cut is not determined.
Limited(f, n) ==
    {Restrict(f, D) : D \in {D \in SUBSET DOMAIN f :
        /\ Cardinality(D) = (IF Cardinality(DOMAIN f) < n THEN Cardinality(DOMAIN f) ELSE n)
        /\ \A g \in D, h \in DOMAIN f \ D : f[g] >= f[h]}}

\* active_projects of the overview: by the providers of the sources, not by the sources.
ActiveProjects(scope) ==
    Cardinality({p \in Projects :
        /\ ProjectOf[p].status = "active"
        /\ scope = All \/ \E s \in scope : ProviderOfSource(s) = ProjectOf[p].provider})

\* get_overview
Overview(q, R, scope) ==
    {[total |-> Total(OfMonth(R, q.month), q.currency),
      previous |-> Total(OfMonth(R, q.month - 1), q.currency),
      active |-> ActiveProjects(scope)]}

\* get_trend, by day or by month
Trend(q, R) ==
    LET period(r) == IF q.granularity = "daily" THEN r.item.day
                     ELSE (r.item.day - 1) \div MonthLength
        wanted == During(R, FirstDay(q.month), FirstDay(q.to + 1))
    IN  {By([r \in wanted |-> <<period(r), ProviderOfSource(r.item.source)>>], q.currency)}

\* get_by_provider
ByProvider(q, R) ==
    {By([r \in OfMonth(R, q.month) |-> ProviderOfSource(r.item.source)], q.currency)}

\* get_by_category: an inner join, so sources without a category are left out.
ByCategory(q, R) ==
    LET joined == {r \in OfMonth(R, q.month) : CategoryOf[r.item.source] # None}
    IN  {By([r \in joined |-> CategoryOf[r.item.source]], q.currency)}

\* billing_scope.same_data_source, and the equality of the project beside it: the dashboard trims
\* neither side, metering that of the account, the queries of the accounts both.
SameSource(p, r) == ProjectOf[p].source \in {None, r.item.source}
Matches(p, r) == ProjectOf[p].ext = r.item.project /\ SameSource(p, r)
MeteredMatches(p, r) == Trimmed[ProjectOf[p].ext] = r.item.project /\ SameSource(p, r)
AccountMatches(p, r) == Trimmed[ProjectOf[p].ext] = Trimmed[r.item.project] /\ SameSource(p, r)
Matching(r) == {p \in Projects : Matches(p, r)}

\* An outer join with the projects: a row counts as often as projects match, but at least once.
Copies(r) == IF Matching(r) = {} THEN 1 ELSE Cardinality(Matching(r))
Joined(R) == [r \in R |-> Copies(r)]
ByJoined(copies, currency) ==
    [g \in {r.item.project : r \in DOMAIN copies} |->
        MapThenSumSet(LAMBDA r : copies[r] * Amount(r, currency),
                      {r \in DOMAIN copies : r.item.project = g})]

\* get_by_project
ByProject(q, R) == Limited(ByJoined(Joined(OfMonth(R, q.month)), q.currency), q.limit)

\* get_by_service
ByService(q, R) ==
    LET mine == {r \in OfMonth(R, q.month) : q.provider \in {None, ProviderOfSource(r.item.source)}}
    IN  Limited(By([r \in mine |-> r.item.product], q.currency), q.limit)

\* get_by_region
ByRegion(q, R) ==
    LET placed == {r \in OfMonth(R, q.month) : r.item.region # None}
    IN  {By([r \in placed |-> <<r.item.region, ProviderOfSource(r.item.source)>>], q.currency)}

\* get_top_growth, its limit not reached: what costs more than one now, with what it cost before.
TopGrowth(q, R) ==
    LET from == Today - q.days
        now == ByJoined(Joined({r \in R : r.item.day >= from}), q.currency)
        before == ByJoined(Joined(During(R, from - q.days, from)), q.currency)
    IN  {[g \in {g \in DOMAIN now : now[g] > 1} |->
            [now |-> now[g], before |-> IF g \in DOMAIN before THEN before[g] ELSE 0]]}

\* get_unassigned: rows without a project, and the copies whose project is not active.
Unassigned(q, R) ==
    LET copies(r) == IF Matching(r) = {} THEN 1
                     ELSE Cardinality({p \in Matching(r) : ProjectOf[p].status # "active"})
    IN  {ByJoined([r \in {r \in OfMonth(R, q.month) : copies(r) > 0} |-> copies(r)], q.currency)}

Nothing == [g \in {} |-> 0]
\* What the query of q may answer in scope. With nothing in scope no query is sent.
Computed(q, scope, R) ==
    LET mine == Within(R, scope)
    IN  IF q.fn = "overview" THEN Overview(q, mine, scope)
        ELSE IF scope = {} THEN {Nothing}
        ELSE CASE q.fn = "trend" -> Trend(q, mine)
               [] q.fn = "by_provider" -> ByProvider(q, mine)
               [] q.fn = "by_category" -> ByCategory(q, mine)
               [] q.fn = "by_project" -> ByProject(q, mine)
               [] q.fn = "by_service" -> ByService(q, mine)
               [] q.fn = "by_region" -> ByRegion(q, mine)
               [] q.fn = "top_growth" -> TopGrowth(q, mine)
               [] q.fn = "unassigned" -> Unassigned(q, mine)

\* Whether the cache answers q: an empty list in it does not.
Hit(q, scope) == CacheKey(q, scope) \in DOMAIN cache /\ DOMAIN cache[CacheKey(q, scope)].answer # {}

\* A request of api/dashboard.py, or one of the four in dashboard_bundle, that is not answered
\* from the cache. The other requests change nothing. Of the entries, MaxCached are kept at a time.
Ask(p, q) ==
    /\ Request
    /\ MayAsk(p, "dashboard")
    /\ ~Hit(q, ScopeOf(p))
    /\ LET held == DOMAIN cache \cup {CacheKey(q, ScopeOf(p))}
       IN  /\ Cardinality(held) <= MaxCached
           /\ \E a \in Computed(q, ScopeOf(p), rows) :
                cache' = [k \in held |-> IF k = CacheKey(q, ScopeOf(p)) THEN [answer |-> a, of |-> rows]
                                         ELSE cache[k]]
    /\ UNCHANGED <<users, jar, sessions, logins, refreshing, keys, enabled, rows, nextId, export>>

\* CACHE_TTL has passed.
CacheExpires(key) ==
    /\ cache' = Restrict(cache, DOMAIN cache \ {key})
    /\ UNCHANGED <<accessVars, rows, nextId, export>>

-------------------------------------------------------------------------------
(* Metering and billing: [first, last, provider, accounts], where accounts are *)
(* the projects asked for, any if empty.                                       *)

\* _metering_scope: an inner join, so a row counts as often as chosen projects match it.
Times(f, r) ==
    IF f.accounts = {} THEN 1
    ELSE Cardinality({p \in f.accounts :
             MeteredMatches(p, r) /\ ProjectOf[p].provider = ProviderOfSource(r.item.source)})

\* What the filters other than the dates leave.
Chosen(f, R) ==
    {r \in R : f.provider \in {None, ProviderOfSource(r.item.source)} /\ Times(f, r) > 0}

\* _apply_filters and _metering_scope
Selected(f, R) == {r \in Chosen(f, R) : r.item.day \in f.first..f.last}

\* metering_summary, metering_daily, metering_by_service: the bare cost, whatever its currency
SelectedCost(f, R) == MapThenSumSet(LAMBDA r : Times(f, r) * r.bill.cost, Selected(f, R))
Daily(f, R) ==
    [d \in {r.item.day : r \in Selected(f, R)} |-> SelectedCost(f, {r \in R : r.item.day = d})]
ByMeteredService(f, R) ==
    [g \in {r.item.product : r \in Selected(f, R)} |-> SelectedCost(f, {r \in R : r.item.product = g})]

\* metering_product_list, which asks for no dates
Products(f, R) == {r.item.product : r \in Chosen(f, R)}

\* ORDER BY date DESC and id, descending or ascending.
Ordered(S, idsDown) ==
    LET above(r, s) == r.item.day > s.item.day \/ (r.item.day = s.item.day /\ (r.id > s.id <=> idsDown))
    IN  [n \in 1..Cardinality(S) |->
            CHOOSE r \in S : Cardinality({s \in S \ {r} : above(s, r)}) = n - 1]

\* The rows of a joined query in that order.
Lines(f, R, idsDown) ==
    LET rs == Ordered(Selected(f, R), idsDown)
    IN  FlattenSeq([i \in DOMAIN rs |-> [j \in 1..Times(f, rs[i]) |-> rs[i]]])

\* OFFSET offset LIMIT n
Piece(s, offset, n) == SubSeq(s, offset + 1, IF Len(s) < offset + n THEN Len(s) ELSE offset + n)

\* metering_detail and metering_detail_count
MeteringDetail(f, R, page, size) == Piece(Lines(f, R, TRUE), (page - 1) * size, size)
DetailCount(f, R) == MapThenSumSet(LAMBDA r : Times(f, r), Selected(f, R))

\* billing_detail: the ids ascend.
BillingDetail(f, R, page, size) == Piece(Lines(f, R, FALSE), (page - 1) * size, size)

\* get_costs of service_accounts.py: the rows it adds up, by day and by product.
AccountCosts(p, first, last, R) ==
    {r \in During(R, first, last + 1) :
        /\ Trimmed[r.item.project] = Trimmed[ProjectOf[p].ext]
        /\ ProviderOfSource(r.item.source) = ProjectOf[p].provider
        /\ ProjectOf[p].source # None => r.item.source = ProjectOf[p].source}

\* daily_report, of all providers or of one: the rows that are added up for each account, by
\* source, day and product.
DailyReport(first, last, provider, R) ==
    [p \in {p \in Projects : provider \in {None, ProjectOf[p].provider}} |->
        {r \in During(R, first, last + 1) :
            AccountMatches(p, r) /\ ProjectOf[p].provider = ProviderOfSource(r.item.source)}]

\* export_account_costs: a line for each row, by day; the condition is written out once more.
AccountSheet(p, first, last, R) ==
    LET mine == {r \in During(R, first, last + 1) :
                    AccountMatches(p, r) /\ ProviderOfSource(r.item.source) = ProjectOf[p].provider}
    IN  CHOOSE q \in [1..Cardinality(mine) -> mine] :
            IsInjective(q) /\ \A i, j \in DOMAIN q : i < j => q[i].item.day <= q[j].item.day

\* list_accounts, of all providers and states or of one; the customer codes are in Accounts.
Listed(p, provider, status) ==
    {a \in Projects :
        /\ ProviderVisible(p, ProjectOf[a].provider)
        /\ provider \in {None, ProjectOf[a].provider}
        /\ status \in {None, ProjectOf[a].status}}

\* The sync_error of the list, which is looked up for the sources of the page.
ShowsError(a) == ProjectOf[a].source \in Failed

\* accounts_summary: one pass over the accounts, outer-joined with their sources.
Summary(p) ==
    LET mine == {a \in Projects : ProviderVisible(p, ProjectOf[a].provider)}
    IN  [total |-> Cardinality(mine),
         status_counts |-> [s \in {ProjectOf[a].status : a \in mine} |->
                               Cardinality({a \in mine : ProjectOf[a].status = s})],
         failed |-> Cardinality({x \in mine \X Failed : ProjectOf[x[1]].source = x[2]})]

NoRow == [day |-> 0, id |-> 0]
NoExport == [state |-> "none"]

\* The statement is built for the caller, and its stream begins. stood is the rows that were
\* there then and have not been deleted since.
Opened(p, f) ==
    [state |-> "reading", filter |-> f, scope |-> ScopeOf(p), last |-> NoRow, out |-> <<>>,
     stood |-> {r.id : r \in Selected(f, Within(rows, ScopeOf(p)))}]
Opening(p, f) ==
    /\ Request
    /\ export = NoExport
    /\ export' = Opened(p, f)
    /\ UNCHANGED <<users, jar, sessions, logins, refreshing, keys, enabled, rows, nextId, cache>>

\* billing_export and billing_export_full, which know no accounts
BillingExport(p, f) == MayAsk(p, "billing") /\ f.accounts = {} /\ Opening(p, f)

\* metering_export
MeteringExport(p, f) == MayAsk(p, "metering") /\ Opening(p, f)

\* Mutant of Beyond: the day alone.
BeyondDay(r, last) == last = NoRow \/ r.item.day < last.day

\* The keyset: what sorts after the last row sent, by day and then id, both descending.
Beyond(r, last) ==
    last = NoRow \/ r.item.day < last.day \/ (r.item.day = last.day /\ r.id < last.id)

\* The joined rows beyond the last one in that order, CHUNK of them.
Page(R) ==
    Piece(Lines(export.filter, {r \in Within(R, export.scope) : Beyond(r, export.last)}, TRUE), 0, Chunk)

\* One turn of _stream_csv: a statement of its own, which sees what has been committed by then.
ExportPage ==
    /\ export.state = "reading"
    /\ LET page == Page(rows)
       IN  export' = [export EXCEPT
             !.out = @ \o [i \in DOMAIN page |-> [id |-> page[i].id, item |-> page[i].item]],
             !.last = IF page = <<>> THEN @ ELSE [day |-> Last(page).item.day, id |-> Last(page).id],
             !.state = IF Len(page) < Chunk THEN "done" ELSE @]
    /\ UNCHANGED <<accessVars, rows, nextId, cache>>

-------------------------------------------------------------------------------
(* The syncs: upsert_billing_rows for one source.                             *)

\* Rows of these items, with the ids the sequence gives them
Numbered(items, from, b) ==
    LET order == SetToSeq(items)
    IN  {[id |-> from + n - 1, item |-> order[n], bill |-> b] : n \in DOMAIN order}

\* Mutant of Fresh: a conflict is not seen.
FreshAll(items, old) == items

\* The items no row has: ON CONFLICT DO UPDATE changes the others and keeps their ids.
Fresh(items, old) == items \ {r.item : r \in old}

\* With replace_scope the rows of the source are deleted first.
Sync(s, items, b, replace) ==
    /\ Request
    /\ LET old == IF replace THEN {r \in rows : r.item.source # s} ELSE rows
           fresh == Fresh(items, old)
           kept == {IF r.item \in items THEN [r EXCEPT !.bill = b] ELSE r : r \in old}
       IN  /\ rows' = kept \cup Numbered(fresh, nextId, b)
           /\ nextId' = nextId + Cardinality(fresh)
           /\ export' = IF export = NoExport THEN export
                        ELSE [export EXCEPT !.stood = @ \cap {r.id : r \in old}]
    /\ UNCHANGED <<users, jar, sessions, logins, refreshing, keys, enabled, cache>>

Init ==
    /\ AccessInit
    /\ nextId = Cardinality(FirstRows) + 1
    /\ rows = Numbered(FirstRows, 1, FirstBill)
    /\ cache = [k \in {} |-> 0]
    /\ export = NoExport

Next ==
    \/ AccessNext /\ UNCHANGED reportVars
    \/ \E p \in Principals :
         \/ \E q \in Questions : Ask(p, q)
         \/ \E f \in Filters : BillingExport(p, f) \/ MeteringExport(p, f)
    \/ \E key \in DOMAIN cache : CacheExpires(key)
    \/ ExportPage
    \/ \E s \in Sources, b \in Bills, replace \in BOOLEAN :
         \E items \in SUBSET {i \in Items : i.source = s} : Sync(s, items, b, replace)

Spec == Init /\ [][Next]_vars

-------------------------------------------------------------------------------
TypeOK ==
    /\ AccessTypeOK
    /\ \A r \in rows : r.id \in 1..(nextId - 1) /\ r.item \in Items /\ r.bill \in Bills \cup {FirstBill}
    /\ \A r, s \in rows : r # s => r.id # s.id /\ r.item # s.item
    /\ export # NoExport =>
         /\ export.state \in {"reading", "done"}
         /\ export.stood \subseteq {r.id : r \in rows}
         /\ \A i \in DOMAIN export.out : export.out[i].item \in Items

\* What metering says of some months, in a currency, for the rows of a scope.
MonthFilter(month, months) ==
    [first |-> FirstDay(month), last |-> FirstDay(month + months) - 1, provider |-> None, accounts |-> {}]
Metered(f, R, currency) ==
    IF currency = "cny" THEN Yuan * SelectedCost(f, {r \in R : r.bill.cny # None}) ELSE SelectedCost(f, R)
SumOf(a) == MapThenSumSet(LAMBDA g : a[g], DOMAIN a)

\* Rows that cost the same in dollars as on their invoice, or whose yuan are all at one rate.
Alike(S, currency) ==
    \A r \in S : IF currency = "cny" THEN r.bill.cny \in {None, Yuan * r.bill.cost}
               ELSE r.bill.usd \in {None, r.bill.cost}
AgreesOn(figure, f, R, currency) ==
    Alike(Selected(f, R), currency) => figure = Metered(f, R, currency)

\* Single figures and sums are those of metering, of the rows that a query does not leave out, as
\* long as these very rows are alike; of the queries that join the projects as long as no row
\* matches two.
AgreesWithMetering(q, a, R) ==
    LET month == MonthFilter(q.month, 1)
    IN  CASE q.fn = "overview" ->
               /\ AgreesOn(a.total, month, R, q.currency)
               /\ AgreesOn(a.previous, MonthFilter(q.month - 1, 1), R, q.currency)
          [] q.fn = "trend" ->
               LET months == MonthFilter(q.month, q.to - q.month + 1)
                   onDay(d) == MapThenSumSet(LAMBDA g : a[g], {g \in DOMAIN a : g[1] = d})
               IN  /\ AgreesOn(SumOf(a), months, R, q.currency)
                   /\ q.granularity = "daily" /\ q.currency = "usd" =>
                        \A d \in DOMAIN Daily(months, R) :
                          Alike(Selected(months, {r \in R : r.item.day = d}), "usd")
                            => onDay(d) = Daily(months, R)[d]
          [] q.fn = "by_provider" -> AgreesOn(SumOf(a), month, R, q.currency)
          [] q.fn = "by_category" ->
               AgreesOn(SumOf(a), month, {r \in R : CategoryOf[r.item.source] # None}, q.currency)
          [] q.fn = "by_service" /\ q.currency = "usd" ->
               LET mine == [month EXCEPT !.provider = q.provider]
               IN  \A g \in DOMAIN a :
                     Alike(Selected(mine, {r \in R : r.item.product = g}), "usd")
                       => a[g] = ByMeteredService(mine, R)[g]
          [] q.fn = "by_region" ->
               AgreesOn(SumOf(a), month, {r \in R : r.item.region # None}, q.currency)
          [] q.fn = "by_project" ->
               \A g \in DOMAIN a : (\A r \in R : r.item.project = g => Copies(r) = 1) =>
                 AgreesOn(a[g], month, {r \in R : r.item.project = g}, q.currency)
          [] q.fn = "unassigned" ->
               (\A r \in R : Copies(r) = 1) =>
                 AgreesOn(SumOf(a), month,
                          {r \in R : \A p \in Matching(r) : ProjectOf[p].status # "active"}, q.currency)
          [] OTHER -> TRUE

\* Whoever asks the dashboard, and whoever asked it before, what the cache answers is what
\* metering, which caches nothing, says of the caller's own data sources, as of the moment the
\* answer was computed: dashboard_service.py:15 (the scope is part of the key) against
\* metering.py:38, two sets of queries with their own date ranges, joins and scopes. The one adds
\* up what is frozen in the currency asked for (dashboard_service.py:120), the other the bare cost
\* (metering.py:186), so this is said of a figure whose own rows are alike in that. Where a row is
\* in yuan the two differ, although every aggregation inside is to be of cost_usd
\* (currency_service.py:5).
DashboardAgrees ==
    \A scope \in {ScopeOf(p) : p \in {p \in Principals : MayAsk(p, "dashboard")}}, q \in Questions :
        Hit(q, scope) =>
            LET entry == cache[CacheKey(q, scope)]
            IN  AgreesWithMetering(q, entry.answer, Within(entry.of, scope))

\* Four queries, each with its own join, are asked what an account costs: its page and its sheet,
\* the report of all accounts and metering (service_accounts.py:1940, 2040, 663, metering.py:116).
\* The first three add up the same rows, also where two accounts share them and where blanks are
\* around a project; metering the same but for the rows whose own project has blanks around it,
\* which it does not trim (metering.py:124, billing_scope.py:27).
AccountsAgree ==
    \A f \in {f \in Filters : f.accounts = {}} :
        LET report == DailyReport(f.first, f.last, f.provider, rows)
        IN  \A p \in DOMAIN report :
                LET costs == AccountCosts(p, f.first, f.last, rows)
                    sheet == AccountSheet(p, f.first, f.last, rows)
                IN  /\ costs = report[p] /\ costs = Range(sheet) /\ Len(sheet) = Cardinality(costs)
                    /\ Selected([f EXCEPT !.accounts = {p}], rows)
                         = {r \in costs : Trimmed[r.item.project] = r.item.project}

\* Three handlers count the accounts of a caller: the list by provider roles, the summary in one
\* pass, the overview of the dashboard by the providers of the visible sources
\* (service_accounts.py:378, 497, dashboard_service.py:185). List and summary agree; the overview
\* never counts more, and as many unless a key is restricted or a provider has no source yet.
ListsAgree ==
    \A p \in {p \in Principals : CloudRole(p)} :
        LET summary == Summary(p)
            active == Cardinality(Listed(p, None, "active"))
        IN  /\ summary.total = Cardinality(Listed(p, None, None))
            /\ \A s \in DOMAIN summary.status_counts :
                 summary.status_counts[s] = Cardinality(Listed(p, None, s))
            /\ summary.failed = Cardinality({a \in Listed(p, None, None) : ShowsError(a)})
            /\ ActiveProjects(ScopeOf(p)) <= active
            /\ (/\ p.accounts = Unrestricted
                /\ \A a \in Projects : \E s \in Sources : ProviderOfSource(s) = ProjectOf[a].provider)
               => ActiveProjects(ScopeOf(p)) = active

\* Whoever turns the pages of the details (metering.py:342, billing.py:76), as many as their
\* count says there are, meets what the figures above them add up, and only products that the
\* list offers; the details of billing, which are joined with nothing, are the same rows.
DetailsAgree ==
    \A f \in Filters :
        LET pages == 1..((DetailCount(f, rows) + 1) \div 2)
            shown == FlattenSeq([n \in pages |-> MeteringDetail(f, rows, n, 2)])
            billed == FlattenSeq([n \in pages |-> BillingDetail(f, rows, n, 2)])
        IN  /\ Len(shown) = DetailCount(f, rows)
            /\ SelectedCost(f, rows) = FoldSeq(LAMBDA r, sum : r.bill.cost + sum, 0, shown)
            /\ Range([i \in DOMAIN shown |-> shown[i].item.product]) \subseteq Products(f, rows)
            /\ f.accounts = {} => Range(billed) = Range(shown) /\ IsInjective(billed)

\* The figures are the same wherever they are asked for: the accounts' costs and counts, the
\* details and the dashboard's answers. What speaks of the rows and the callers alone need not
\* be looked at again for every answer and export there may be beside them.
FiguresAgree ==
    IF DOMAIN cache = {} /\ export = NoExport THEN AccountsAgree /\ ListsAgree /\ DetailsAgree
    ELSE DashboardAgrees

\* An export that reads page by page while syncs write sends every row that stays, and sends an
\* item twice only if two of the chosen accounts match it: a replaced row has a new id, and the
\* keyset (billing.py:209, metering.py:455) goes down the ids, so it is not met again.
ExportIsWhole ==
    export # NoExport =>
        /\ export.state = "done" => export.stood \subseteq {export.out[i].id : i \in DOMAIN export.out}
        /\ \A i, j \in DOMAIN export.out :
             i < j /\ export.out[i].item = export.out[j].item => Times(export.filter, export.out[i]) > 1
===============================================================================
