SPECIFICATION FairSpec
CONSTANTS
  main = main
  client = client
  Callers = {client}
  Connections = {client}
  Runs = {r1}
  Workers = {w1, w2}
  Proxies = {p1}
  Targets = {1}
  NumTokens = 2
  Loaded = {}
  Checked = {p1}
  Ops <- SequentialOps
  None = None
INVARIANT StoppedMeansStopped
PROPERTIES RequestsReturn CancelledWorkersEnd StopDrains MonitorRefills
CHECK_DEADLOCK FALSE
