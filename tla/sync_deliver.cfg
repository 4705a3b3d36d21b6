\* Failed sessions, late and lost pushes, a cloned database, and delivery.
SPECIFICATION FairSpec
CONSTANTS
  Node = {1, 2, 3}
  Gid = {g1}
  Wall <- Skewed
  MaxWrites = 2
  Peers <- LinePeers
  Spare = {3}
  MaxFails <- FirstMayFail
INVARIANTS DifferenceShows MergesCommute
PROPERTIES ImplementsMap EveryWriteArrives Converges
