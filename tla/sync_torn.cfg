SPECIFICATION TornSpec
CONSTANTS
  Node = {1, 2}
  g1 = g1
  g2 = g2
  Gid = {g1, g2}
  Wall <- PairWall
  MaxWrites = 2
  Peers <- PairPeers
  Spare = {}
  MaxFails <- NoFailure
  TableOf <- Tables
INVARIANT NoGap
