SPECIFICATION TriggerSpec
CONSTANTS
  Dispatchers <- MCDispatchers
  MaxRuns = 5
  MaxDay = 2
  MaxDailyAttempts = 2
  ListLimit = 2
CHECK_DEADLOCK FALSE
INVARIANTS DailyAttemptsBounded OneSuccessADay
