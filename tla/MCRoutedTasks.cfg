SPECIFICATION Spec
CONSTANTS
  None = None
  Root = Root
  OtherTasks = {made_up}
  a = a
  Processes = {p1, p2}
  Refs = {a}
  Payloads <- MCPayloads
  ClaimLists <- MCClaimLists
  MaxCalls = 3
  MaxChanges = 2
  MaxCrashes = 1
INVARIANT
  RoutedTasksAreHandled
CHECK_DEADLOCK FALSE
