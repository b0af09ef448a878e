CONSTANTS
  Sessions = {s1}
  Grace = 1
  MaxChanges = 0
  MaxCalls = 2
SPECIFICATION Spec
INVARIANT FailsOpen
