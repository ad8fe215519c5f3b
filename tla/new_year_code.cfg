\* The turn of a year. The bound on draws lets it stop.
SPECIFICATION Spec
CONSTANTS
  Requests = {"r1", "r2"}
  Series = {"EVT", "ACT"}
  YearInCode = {"ACT"}
  None = None
  MaxYear = 2
  MaxDraws = 4
CHECK_DEADLOCK FALSE
INVARIANT DrawnCodeIsNew
