\* Two children with a pid and one in a Terminal window, one sweeping process, a
\* crash, a failed launch or a write that never gets the lock.
SPECIFICATION FairSpec
CONSTANTS
  Task = {t1, t2, t3}
  Visible = {t3}
  Host = {h1}
  Nobody = nobody
  Slots = 2
  Limit = 1
  MaxFaults = 1
PROPERTY Settles
CHECK_DEADLOCK FALSE
