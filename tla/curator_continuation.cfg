\* The watchdog's continuation and the curator's own retry work on one batch.
SPECIFICATION Spec
CONSTANTS
  Ticker = {daemon}
  Daemon = daemon
  Task <- Children
  Batches = 1
  Skilled <- SkilledBatches
  Cap = 2
  Width = 1
  Limits = {1}
  MaxPasses <- Passes
  MaxFaults = 0
INVARIANT NoDuplicate
CHECK_DEADLOCK FALSE
