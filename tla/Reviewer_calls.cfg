SPECIFICATION Spec
CONSTANTS
  up = up
  down = down
  Keys = {up, down}
  Modes = {"advisory", "required"}
  WithoutReview = TRUE
  Outcomes = {"approve", "reject", "noop", "timeout", "blocked"}
  Worst = 1
  Cap = 1
  PerMinute = 2
  Minute = 1
  PerHour = 3
  Hour = 3
  Day = 3
  Debounce = 1
  CacheTTL = 2
  ApprovalTTL = 1
  Prices = {1, 3}
  MaxMove = 1
  MaxTime = 3
  MaxCalls = 3
  MaxTasks = 2
  MaxRestarts = 1
INVARIANTS SpendBounded TradesFollowAnswers
CHECK_DEADLOCK FALSE
