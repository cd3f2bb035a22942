------------------------------- MODULE Store -------------------------------
(* What becomes of a billing row besides its total: the two currencies it   *)
(* is frozen in (services/currency_service.py), and the partition of        *)
(* billing_summary it lies in (tasks/partition_maintenance.py).  A day's    *)
(* rows of one source are one row; an amount is its currency and the day    *)
(* whose exchange rate it was converted with.  Rates are positive, and a    *)
(* corrected rate changes no row that is already frozen.                    *)
EXTENDS Integers, FiniteSetsExt

CONSTANTS Dates,          \* the days, 1..n
          MonthOf,        \* the month of a day
          CurrencyOf,     \* the currency the provider bills a day in
          Converted,      \* the days whose rows carry the provider's conversion rate
          Legacy,         \* the days collected before there were two currencies
          RateDays,       \* the days a rate is ever known of: none is published for weekends
          Back,           \* days_back: how many days a daily fetch asks for
          Ahead,          \* months_ahead: partitions are made for this many coming months
          MaxMissed,      \* how many months may begin without a successful maintenance
          FirstMonth, LastMonth

\* Billing starts before FirstMonth, which is when the table was partitioned.  What was
\* collected earlier was billed in dollars (migration 025), and a currency that is neither
\* dollars nor yuan comes with its conversion rate.
ASSUME StoreOK ==
  /\ IsFiniteSet(Dates) /\ Dates = 1..Cardinality(Dates)
  /\ \A d \in Dates : MonthOf[d] \in 1..LastMonth
  /\ \A d, e \in Dates : d <= e => MonthOf[d] <= MonthOf[e]
  /\ \A d \in Dates : CurrencyOf[d] \notin {"USD", "CNY"} => d \in Converted
  /\ Legacy \subseteq Dates
  /\ \A d \in Legacy : CurrencyOf[d] = "USD" /\ MonthOf[d] = FirstMonth
  /\ RateDays \subseteq Dates
  /\ LastMonth \in Nat /\ FirstMonth \in 1..LastMonth
  /\ Ahead \in Nat /\ Back \in Nat \ {0}

\* While maintenance misses no more months than it plans ahead.
ASSUME MaintenanceKeepsUp == MaxMissed \in 0..Ahead

VARIABLES
  now,        \* the current month
  parts,      \* the months that have a partition
  missed,     \* months begun since maintenance last succeeded
  queued,     \* a fix_default_partition message is waiting
  listed,     \* the months a running fix found in the default partition
  rates,      \* the days of exchange_rates
  rows,       \* billing_summary
  batch       \* the annotated rows an upsert is about to merge

storeVars == <<now, parts, missed, queued, listed, rates, rows, batch>>

Months == 1..(LastMonth + Ahead)
Constant == 0            \* FALLBACK_USD_CNY instead of a day's rate
Unconverted == -1
Default == 0             \* the default partition

Amount(unit, rate) == [unit |-> unit, rate |-> rate]
NULL == Amount("NULL", Unconverted)

Amounts == [unit : {CurrencyOf[d] : d \in Dates} \cup {"USD", "CNY", "NULL"},
            rate : {Unconverted, Constant} \cup RateDays]
\* The two frozen amounts; due and late are not stored: the day the nearest earlier rate is
\* of when the amounts are computed, and whether the batch has a rate of a later day.
Frozen == [usd : Amounts, cny : Amounts, due : {Constant} \cup RateDays, late : BOOLEAN]

StoreTypeOK ==
  /\ now \in FirstMonth..LastMonth
  /\ parts \in SUBSET Months /\ missed \in 0..MaxMissed
  /\ queued \in BOOLEAN /\ listed \in SUBSET Months
  /\ rates \in SUBSET RateDays
  /\ DOMAIN rows \subseteq Dates /\ DOMAIN batch \subseteq Dates
  /\ \A d \in DOMAIN rows :
       /\ rows[d].home \in {Default} \cup parts
       /\ rows[d].money \in Frozen
  /\ \A d \in DOMAIN batch : batch[d] \in Frozen

Unfrozen == [usd |-> NULL, cny |-> NULL, due |-> Constant, late |-> FALSE]
NoBatch == <<>>

\* Migrations 020 and 025: the history has its partitions and no converted amounts.
StoreInit ==
  /\ now = FirstMonth
  /\ parts = FirstMonth..(FirstMonth + Ahead)
  /\ missed = 0 /\ queued = FALSE /\ listed = {}
  /\ rates = {}
  /\ rows = [d \in Legacy |-> [home |-> FirstMonth, money |-> Unfrozen]]
  /\ batch = NoBatch

----------------------------------------------------------------------------
(* The two currencies.                                                      *)

Latest(days, day) == Max({d \in days : d <= day} \cup {Constant})

\* compute_dual_currency.
DualCurrency(d, rate) ==
  LET other == Amount(IF d \in Converted THEN "USD" ELSE CurrencyOf[d], Unconverted)
  IN  CASE CurrencyOf[d] = "USD" -> [usd |-> Amount("USD", Unconverted), cny |-> Amount("CNY", rate)]
        [] CurrencyOf[d] = "CNY" -> [usd |-> Amount("USD", IF d \in Converted THEN Unconverted ELSE rate),
                                     cny |-> Amount("CNY", Unconverted)]
        [] OTHER -> [usd |-> other, cny |-> Amount("CNY", rate)]

\* Mutant of Resolve: any rate of the batch.
ResolveAny(d, map, fallback) == IF map = {} THEN fallback ELSE Max(map)

\* resolve_rate: the day itself, else the nearest earlier one the map holds.
Resolve(d, map, fallback) ==
  LET earlier == {k \in map : k <= d}
  IN  IF earlier = {} THEN fallback ELSE Max(earlier)

\* load_usd_cny_rate_map: the rates between the first and the last day of the batch.
RateMap(days) == {k \in rates : Min(days) <= k /\ k <= Max(days)}

\* annotate_rows_with_dual_currency: with no rate among the batch's days the latest one
\* before its end is taken for all of them, else the constant stands in.
Fallback(days) == IF RateMap(days) = {} THEN Latest(rates, Max(days)) ELSE Constant

Annotated(days) ==
  [d \in days |->
     LET dual == DualCurrency(d, Resolve(d, RateMap(days), Fallback(days)))
     IN  [usd |-> dual.usd, cny |-> dual.cny, due |-> Latest(rates, d), late |-> \E k \in RateMap(days) : k > d]]

\* Billing is for days that have begun.
Past == {d \in Dates : MonthOf[d] <= now}

\* upsert_billing_rows, before the merge: another transaction may store rates in between.
Annotate(days) ==
  /\ batch = NoBatch
  /\ batch' = Annotated(days)
  /\ UNCHANGED <<now, parts, missed, queued, listed, rates, rows>>

\* PostgreSQL's choice of the partition for a new row.
Partition(d) == IF MonthOf[d] \in parts THEN MonthOf[d] ELSE Default

\* INSERT ... ON CONFLICT DO UPDATE: a row that is there stays where it lies.
Merge ==
  /\ batch # NoBatch
  /\ rows' = [d \in DOMAIN batch \cup DOMAIN rows |->
                [home |-> IF d \in DOMAIN rows THEN rows[d].home ELSE Partition(d),
                 money |-> IF d \in DOMAIN batch THEN batch[d] ELSE rows[d].money]]
  /\ batch' = NoBatch
  /\ UNCHANGED <<now, parts, missed, queued, listed, rates>>

MergeFails ==
  /\ batch # NoBatch
  /\ batch' = NoBatch
  /\ UNCHANGED <<now, parts, missed, queued, listed, rates, rows>>

\* sync_exchange_rate, daily: the last days, those for which the source has a rate.
RecentDays == {d \in Past : Cardinality({k \in Past : k > d}) < Back}

Fetch(days) ==
  /\ rates' = rates \cup days
  /\ UNCHANGED <<now, parts, missed, queued, listed, rows, batch>>

\* create_rate: a second rate of a day is refused (uq_exchange_rate).
CreateRate(d) ==
  /\ d \in (Past \cap RateDays) \ rates
  /\ rates' = rates \cup {d}
  /\ UNCHANGED <<now, parts, missed, queued, listed, rows, batch>>

\* backfill_dual_currency.py, a month at a time: only what is still NULL is filled.
Filled(d) ==
  LET old == rows[d].money
      usd == IF old.usd # NULL THEN old.usd
             ELSE IF CurrencyOf[d] = "USD" \/ d \in Converted THEN Amount("USD", Unconverted) ELSE NULL
      rate == Latest(rates, d)
      cny == IF old.cny # NULL THEN old.cny
             ELSE IF CurrencyOf[d] = "CNY" THEN Amount("CNY", Unconverted)
             ELSE IF usd # NULL /\ rate # Constant THEN Amount("CNY", rate) ELSE NULL
  IN  [usd |-> usd, cny |-> cny, due |-> IF old.cny = NULL THEN rate ELSE old.due, late |-> old.late]

Backfill(m) ==
  /\ rates # {}
  /\ rows' = [d \in DOMAIN rows |-> IF MonthOf[d] = m THEN [home |-> rows[d].home, money |-> Filled(d)] ELSE rows[d]]
  /\ UNCHANGED <<now, parts, missed, queued, listed, rates, batch>>

----------------------------------------------------------------------------
(* The partitions.                                                          *)

Strays == {d \in DOMAIN rows : rows[d].home = Default}

\* Mutant of Window: one month less.
WindowShort == now..(now + Ahead - 1)

\* The months that must have a partition.
Window == now..(now + Ahead)

\* CREATE TABLE ... PARTITION OF is refused while the default partition holds rows of the
\* month; the transaction of ensure_billing_summary_partition then does nothing at all.
Blocked == \E d \in Strays : MonthOf[d] \in Window \ parts

\* Mutant of Ensure: the default partition is looked at only if a partition was made.
EnsureOnChange ==
  /\ ~Blocked
  /\ parts' = parts \cup Window
  /\ missed' = 0
  /\ queued' = (queued \/ (Strays # {} /\ parts' # parts))
  /\ UNCHANGED <<now, listed, rates, rows, batch>>

\* ensure_billing_summary_partition, and the message it leaves for the repair.
Ensure ==
  /\ ~Blocked
  /\ parts' = parts \cup Window
  /\ missed' = 0
  /\ queued' = (queued \/ Strays # {})
  /\ UNCHANGED <<now, listed, rates, rows, batch>>

\* fix_default_partition: SELECT DISTINCT month, before the locks of the DETACH.
FixList ==
  /\ queued /\ listed = {}
  /\ queued' = FALSE
  /\ listed' = {MonthOf[d] : d \in Strays}
  /\ UNCHANGED <<now, parts, missed, rates, rows, batch>>

\* Mutant of FixMove: the rows are moved to tables that are no partitions.
FixMoveBare ==
  /\ listed # {}
  /\ rows' = [d \in DOMAIN rows |-> IF d \in Strays /\ MonthOf[d] \in listed
                                    THEN [rows[d] EXCEPT !.home = MonthOf[d]] ELSE rows[d]]
  /\ listed' = {}
  /\ UNCHANGED <<now, parts, missed, queued, rates, batch>>

\* DETACH, a partition per month, the rows moved into it, ATTACH.
FixMove ==
  /\ listed # {}
  /\ parts' = parts \cup listed
  /\ rows' = [d \in DOMAIN rows |-> IF d \in Strays /\ MonthOf[d] \in listed
                                    THEN [rows[d] EXCEPT !.home = MonthOf[d]] ELSE rows[d]]
  /\ listed' = {}
  /\ UNCHANGED <<now, missed, queued, rates, batch>>

\* Any statement may fail; the ATTACH of the finally block fails with it, and the rollback
\* leaves the table as it was.
FixFails ==
  /\ listed # {}
  /\ listed' = {}
  /\ UNCHANGED <<now, parts, missed, queued, rates, rows, batch>>

NextMonth ==
  /\ now < LastMonth /\ missed < MaxMissed
  /\ now' = now + 1
  /\ missed' = missed + 1
  /\ UNCHANGED <<parts, queued, listed, rates, rows, batch>>

StoreNext ==
  \/ \E days \in SUBSET Past \ {{}} : Annotate(days)
  \/ Merge
  \/ MergeFails
  \/ \E days \in SUBSET (RecentDays \cap RateDays) \ {{}} : Fetch(days)
  \/ \E d \in Dates : CreateRate(d)
  \/ \E m \in Months : Backfill(m)
  \/ Ensure
  \/ FixList
  \/ FixMove
  \/ FixFails
  \/ NextMonth

StoreSpec == StoreInit /\ [][StoreNext]_storeVars

\* Beat runs maintenance three times a month and the workers take its messages; a repair
\* may fail, but not every time.
StoreFairSpec == StoreSpec /\ WF_storeVars(Ensure) /\ WF_storeVars(FixList) /\ SF_storeVars(FixMove)

----------------------------------------------------------------------------
(* Properties.                                                              *)

\* While no more months begin without maintenance than it plans ahead, the default partition
\* never holds a row of a month that maintenance has yet to create: one such row makes every
\* later ensure_billing_summary_partition fail before it looks at the default partition.
NeverBlocked == ~Blocked

\* Rows older than the first partition are collected into the default partition; the repair
\* brings each of them to the partition of its month.
StraysAreMoved ==
  \A d \in Dates : d \in Strays ~> (d \in DOMAIN rows /\ rows[d].home = MonthOf[d])

\* A frozen amount is in the currency of its column, and was converted at the rate of its day or
\* the nearest earlier day known at the time.  Only where a later day of the batch has a rate and
\* no day up to the row's own does, is it the constant: the map stops at the batch's first day.
RightAmounts(money) ==
  /\ money.usd.unit \in {"USD", "NULL"} /\ money.cny.unit \in {"CNY", "NULL"}
  /\ \A amount \in {money.usd, money.cny} :
       amount.rate \in {Unconverted, money.due} \/ (amount.rate = Constant /\ money.late)

FrozenIsRight ==
  /\ \A d \in DOMAIN rows : RightAmounts(rows[d].money)
  /\ \A d \in DOMAIN batch : RightAmounts(batch[d])
=============================================================================
