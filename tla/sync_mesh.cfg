\* Three writes of two rows, relayed through 2, and a cloned database.
SPECIFICATION Spec
CONSTANTS
  Node = {1, 2, 3}
  Gid = {g1, g2}
  Wall <- Skewed
  MaxWrites = 3
  Peers <- LinePeers
  Spare = {3}
  MaxFails <- NoFailure
INVARIANTS TypeOK ClockDominates StampsUnique NoResurrection NoGap
PROPERTY NeverBack
