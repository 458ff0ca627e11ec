CONSTANTS
  Timeouts = {1, 2}
  Budgets = {0, 1, 3, 8, 16}
  NoDeadline = NoDeadline
SPECIFICATION FairSpec
INVARIANTS TypeOK NothingLeftOpen DeadlineKept
PROPERTIES ImplementsContract Ends
CHECK_DEADLOCK FALSE
