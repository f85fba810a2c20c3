SPECIFICATION Spec
CONSTANTS
  NoCause = NoCause
  NoWatch = NoWatch
  NoBudget = NoBudget
  NoTab = NoTab
  Budgets = {0, 2}
  Minute = 2
  Minutes = 2
  Second = 2
  Delays = {1}
  Hair = 1
  FirstTabs = 1
  MaxTabs = 2
  MaxFrames = 2
INVARIANTS FramesAreCounted BudgetEndsTheLoop
PROPERTIES ClockIsRight RequestsAreServed
CHECK_DEADLOCK FALSE
