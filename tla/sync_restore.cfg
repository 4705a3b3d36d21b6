SPECIFICATION RestoreSpec
CONSTANTS
  Node = {1, 2}
  Gid = {g1, g2}
  Wall <- PairWall
  MaxWrites = 2
  Peers <- PairPeers
  Spare = {}
  MaxFails <- NoFailure
PROPERTY Converges
