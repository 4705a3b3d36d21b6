\* One pass after another over a batch of skills, a scheduled and a manual tick.
SPECIFICATION FairSpec
CONSTANTS
  Ticker = {daemon, manual}
  Daemon = daemon
  Task <- Children
  Batches = 1
  Skilled <- SkilledBatches
  Cap = 2
  Width = 2
  Limits = {0, 1}
  MaxPasses <- Passes
  MaxFaults = 1
INVARIANTS TypeOK SoleWorker PassesApart EndorsedIsReviewed SpendBounded
PROPERTY PassEnds
CHECK_DEADLOCK FALSE
