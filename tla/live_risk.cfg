SPECIFICATION Spec
CONSTANTS
  Assets <- MCAssets
  Amounts <- MCAmounts
  Rates <- MCRates
  Scale = 20
  MaxAge = 1
  MaxTotalLoss = 18
  MaxDailyLoss = 10
  MaxActivities = 1
  MaxDay = 2
  MaxFaults = 1
INVARIANT LossHalts
INVARIANT FlowsCountedOnce
INVARIANT EntryOnVerifiedRisk
CHECK_DEADLOCK FALSE
