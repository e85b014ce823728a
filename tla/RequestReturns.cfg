SPECIFICATION Spec
CONSTANTS
  Pools = {a, b}
  Default = a
  NoPool = none
  Cap = 3
  MaxJobs = 2
  MaxOther = 1
  MaxSwitches = 2
INVARIANT RequestReturns
\* An answered, refused or silent pool may be the end of it.
CHECK_DEADLOCK FALSE
