\* The MMBI API, one context, the callback registered twice while the poll
\* thread runs.
CONSTANTS
  APIs = {"mmbi"}
  AllocMayFail = FALSE
  MaxSends = 1
  MaxInits = 1
  MaxCbSets = 2

SPECIFICATION Spec
INVARIANT CallbackGetsItsUserData
