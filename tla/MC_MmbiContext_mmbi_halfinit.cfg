CONSTANTS
  APIs = {"mmbi"}
  AllocMayFail = TRUE
  MaxSends = 2
  MaxInits = 2
  MaxCbSets = 0

SPECIFICATION Spec
INVARIANT NoHalfInitContext
