\* Two machines on one issue, one machine on two, one that tries again, and one
\* with continuations.
SPECIFICATION FairSpec
CONSTANTS
  a = a
  m = m
  b = b
  hostA = hostA
  hostB = hostB
  Process = {a, m, b}
  Daemon = {a, b}
  Host = {hostA, hostB}
  HostOf <- Machine
  Issue = {1, 2}
  Sites <- Deployments
  PrRepairMax = 1
  MaxPulls = 2
INVARIANTS TypeOK MergedGreen OneImplementer OnePull SingleFlight SpendBounded
PROPERTIES Drains ImplementsDesk
CHECK_DEADLOCK FALSE
