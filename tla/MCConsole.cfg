SPECIFICATION ConsoleSpec
CONSTANTS
  N_CHANNELS = 2
  PARTS = 2
  PART = 1
  PAGE = 1
  MODES = 2
  VERSIONS = 2
INVARIANT ConsoleTypeOK
INVARIANT LogWhole
INVARIANT EphemerisLogged
PROPERTY LogGoesOn
