SPECIFICATION Spec
CONSTANTS
  None = None
  Root = Root
  OtherTasks = {}
  a = a
  Processes = {p1, p2}
  Refs = {a}
  Payloads <- MCPayloads
  ClaimLists <- MCClaimLists
  MaxCalls = 3
  MaxChanges = 1
  MaxCrashes = 1
SYMMETRY
  Operators
INVARIANTS
  TypeOK
  OutputsExist
  EffectsAreAudited
  
CHECK_DEADLOCK FALSE
