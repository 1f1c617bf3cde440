SPECIFICATION PositionSpec
CONSTANTS
  N_CHANNELS = 1
  Satellites <- MCSatellites
  MAX_CHANGES = 1
INVARIANT ReadsOneSet
