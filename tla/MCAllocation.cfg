SPECIFICATION FairSpec
CONSTANTS
  N_CHANNELS = 2
  MAX_PRN = 4
  Dead <- MCDead
  FirstPrn <- MCFirstPrn
  SECONDS_IN_WEEK = 3
  RELOCK = 2
INVARIANT TypeOK
PROPERTY OffIsReallocated
PROPERTY EverySatelliteSearched
INVARIANT UndisturbedDistinct
 
VIEW MCView
