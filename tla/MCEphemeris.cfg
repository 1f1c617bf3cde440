SPECIFICATION FairSpec
CONSTANTS
  N_CHANNELS = 1
  Satellites <- MCSatellites
  MAX_CHANGES = 2
INVARIANT TypeOK
INVARIANT OneDataSet
INVARIANT OwnSatellite
INVARIANT BadIsInvalid
PROPERTY EphemerisArrives
