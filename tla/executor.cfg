SPECIFICATION Spec
CONSTANTS
  U16Max = 3
  Missions <- AllKinds
  Budgets = {0, 1}
  MaxQueue = 1
  MaxFaults = 1
CHECK_DEADLOCK FALSE
INVARIANTS
  SuccessWasFlown
  ReportedWasObeyed
PROPERTY RecallKept
