SPECIFICATION CalendarSpec
CONSTANTS
  PER_DAY = 2
  LAST_WEEK = 6330
INVARIANT DateRight
