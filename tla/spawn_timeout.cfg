\* One child, one daemon, nothing fails: the verdict of the watchdog gets lost.
SPECIFICATION Spec
CONSTANTS
  Task = {t1, t2}
  Visible = {}
  Host = {h1}
  Nobody = nobody
  Slots = 2
  Limit = 1
  MaxFaults = 0
PROPERTY TimedOutIsMarked
CHECK_DEADLOCK FALSE
