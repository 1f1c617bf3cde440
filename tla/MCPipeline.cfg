SPECIFICATION FairSpec
CONSTANTS
  N_CHANNELS = 2
  MIN_SATS = 2
  MaxTic = 3
INVARIANT Handshake
INVARIANT SnapshotCoherent
INVARIANT ClockCountsTics
PROPERTY HandoffSpec
PROPERTY FreshConsumed
