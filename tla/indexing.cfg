SPECIFICATION MCSpec
CONSTANTS
  None = None
  Callers = {c1, c2, c3}
  Size = 2
  Paths = {p1, p2}
  Contents = {a, b}
  Versions = {1, 2}
  Clis = {"cli"}
  Habits = {"reconcile"}
  MaxEdits = 2
  MaxFaults = 2
INVARIANTS  ParsesAreTrue
PROPERTIES  EveryParseReturns
