SPECIFICATION Spec
CONSTANTS
  WEEK = 20
  SUBFRAME = 2
  HOW = 1
  WEEKS = 4
  FIRST = 6
  LAST = 8
  MAX_LATE = 1
  MAX_READ = 2
INVARIANT ClockRight
INVARIANT WeekComes
INVARIANT ReadRight
