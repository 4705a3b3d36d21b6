\* Two databases; two observations, two passes and a fault; two servers and two
\* faults of hosts; a child with two requests for its handle.
SPECIFICATION Spec
CONSTANTS
  Path = {1, 2}
  MaxKeys = 4
  Passer = {a, b}
  Obs = {x, y}
  Validator = {1, 2, 3, 4, 5}
  Unclaimed = None
  BatchSize = 2
  MaxRequeues = 2
  TimeoutRetries = 1
  MaxLeaseFaults = 1
  HostProc = {h1, h2, h3}
  Server = {s, t}
  Nobody = None
  MaxHostFaults = 2
  Client = {c1, c2}
  MaxHandleFaults = 1
INVARIANTS TypeOK KeyOpens OneReader ChildrenBounded FinalIsOver
PROPERTIES ObservationsResolved HostServes HandleSettles CancelPrevails
CHECK_DEADLOCK FALSE
