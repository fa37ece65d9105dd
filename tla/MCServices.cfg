SPECIFICATION Spec
CONSTANTS
  Proxies = {p1}
  Toks = {t1, t2}
  Batches = {b1}
  Concurrency = 1
  MaxErrors = 1
  NoProxy = none
  Runs = {1, 2}
  StreamClients = {c1}
  NoRun = 0
  Entries = {e1, e2}
  Cap = 2
  FeedCap = 1
  Pushers = {g1}
  Conns = {w1}
  NoEntry = empty
  Calls = {a1, a2}
  Threshold = 2
  HalfOpenMax = 2
  ResetTimeout = 1
  Keys = {k1, k2}
  Rate = 1
  Interval = 2
  Burst = 2
  Stale = 4
  Ads = {ad1, ad2}
  NoAd = none
  MaxWatches = 1
  MaxInbox = 2
  KickErrCap = 3
  Broadcasts = {s1, s2}
  OffAir = off
  Bonuses = {x1}
  NoBonus = none
INVARIANTS ServicesTypeOK TokensSafe OutcomesFit ViewersSafe
PROPERTIES ServicesImplement ServicesProceed
\* A viewer that has returned, with its loops, has stopped.
CHECK_DEADLOCK FALSE
