\* Either API, picked in Init; allocations may fail; three contexts one
\* after another, each with two sends and two callback registrations.
CONSTANTS
  APIs = {"mmbi", "transport"}
  AllocMayFail = TRUE
  MaxSends = 2
  MaxInits = 3
  MaxCbSets = 2

SPECIFICATION Spec
INVARIANT TypeOK
INVARIANT MmbiCoreExclusive
INVARIANT TransportNoHalfInit
INVARIANT OpenAttemptsExact
 
