SPECIFICATION Spec
CONSTANTS
  ch = ch
  live = live
  brief = brief
  night = night
  w1 = w1
  w2 = w2
  Channels = {ch}
  Clients = {c1}
  Watchers = {w1, w2}
  Contexts <- MCContexts
  Rules = {brief, night}
  RuleOf <- NightAndLive
  Days = 2
  Minutes = 2
  MaxTimers = 2
  None = None
PROPERTY StopCancelsAll
