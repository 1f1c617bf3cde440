SPECIFICATION Spec
CONSTANTS
  Ch = {c1, c2}
  HALF = 2
  CODE_REF = 1
  CARRIER_REF = 2
  CODE_LOOP = 0
  CARRIER_LOOP = 1
  PULL_IN_TIME = 3
  LOUD = 1
SYMMETRY Symmetry
INVARIANT RateAsked
INVARIANT LockedCodeRate
