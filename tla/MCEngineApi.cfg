SPECIFICATION Spec
CONSTANTS
  main = main
  client = client
  Callers = {main, client}
  Connections = {client}
  Runs = {r1}
  Workers = {w1, w2}
  Proxies = {p1, p2}
  Targets = {1, 2}
  NumTokens = 2
  Loaded = {p1, p2}
  Checked = {}
  Ops <- SidecarOps
  None = None
INVARIANTS TypeOK LeaseUntilStop NoProxyLeak OrphansWereStopped MapIsLive
SYMMETRY Symmetry
CHECK_DEADLOCK FALSE
