SPECIFICATION Spec
CONSTANTS
  U16Max = 3
  Missions <- OneTask
  Budgets = {0}
  MaxQueue = 1
  MaxFaults = 0
CHECK_DEADLOCK FALSE
INVARIANT PostludeAfterMission
