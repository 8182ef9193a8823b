\* One lookup is enough: the list it returns already points into the
\* destroyed Host.
CONSTANTS
  MaxFd = 5
  MaxCalls = 2
  MaxIps = 2
SPECIFICATION Spec
INVARIANT ListPointsToLiveMemory
