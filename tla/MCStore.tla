------------------------------ MODULE MCStore ------------------------------
(* Four days.  The first month is older than the partitions, and has two    *)
(* days so that a batch may have a rate on its later day only; nothing is   *)
(* collected in the third, and the fourth needs a partition made after the  *)
(* migration.                                                               *)
EXTENDS Store

MCDates == 1..4
MCMonthOf == <<1, 1, 2, 4>>
MCCurrencyOf == <<"USD", "CNY", "USD", "EUR">>
MCConverted == {4}
MCLegacy == {3}
MCRateDays == {1, 3}
=============================================================================
