CONSTANTS
  m1 = m1
  m2 = m2
  m3 = m3
  Id = {m1}
  Workers = {w1}
  Tokens = {t1, t2}
  NoToken = NoToken
  NoId = NoId
  Envelope <- AllOfAKind
  Notices = {}
  WaitKinds = {"none", "thread-busy", "turn-starting", "time", "plugin", "provisioning", "host-offline", "interaction"}
  Birth = "created"
  MayCrash = TRUE
SPECIFICATION FairDispatchSpec
PROPERTIES IdleThreadIsDrained ClaimsResolve
CHECK_DEADLOCK FALSE
