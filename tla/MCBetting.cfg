\* Three accounts of a point each on a best of three.
CONSTANTS
  MaxMaps = 3
  MaxPlans = 1
  MaxCorrections = 1
  Accounts <- MCAccounts
  Initial = 1
  Wagers <- MCWagers
  Operated = {2}
  MaxStakes = 3
SPECIFICATION BettingSpec
INVARIANTS BettingTypeOK SeriesFollowsMaps HistoryReversed PotsReturned CleanMeansPaid
PROPERTIES StakesStopAtStart
CHECK_DEADLOCK FALSE
