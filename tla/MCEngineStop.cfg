SPECIFICATION FairSpec
CONSTANTS
  main = main
  client = client
  Callers = {client}
  Connections = {}
  Runs = {r1}
  Workers = {w1, w2}
  Proxies = {p1, p2}
  Targets = {1, 2}
  NumTokens = 2
  Loaded = {p1, p2}
  Checked = {}
  Ops <- ScalingOps
  None = None
PROPERTY StopEndsWorkers
CHECK_DEADLOCK FALSE
