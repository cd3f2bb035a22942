SPECIFICATION StoreFairSpec
CONSTANTS
  Dates <- MCDates
  MonthOf <- MCMonthOf
  CurrencyOf <- MCCurrencyOf
  Converted <- MCConverted
  Legacy <- MCLegacy
  RateDays <- MCRateDays
  Back = 2
  Ahead = 1
  MaxMissed = 1
  FirstMonth = 2
  LastMonth = 4
INVARIANTS StoreTypeOK NeverBlocked FrozenIsRight
PROPERTY StraysAreMoved
