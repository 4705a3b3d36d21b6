\* Three tasks, room for two, every server sweeps.
SPECIFICATION Spec
CONSTANTS
  Task = {t1, t2, t3}
  Visible = {}
  Host = {h1, h2}
  Nobody = nobody
  Slots = 2
  Limit = 1
  MaxFaults = 0
INVARIANTS TypeOK WithinBudget NoOverlap OneContinuation
PROPERTY VerdictStands
CHECK_DEADLOCK FALSE
SYMMETRY Alike
