CONSTANTS
  m1 = m1
  m2 = m2
  m3 = m3
  Id = {m1, m3}
  Workers = {w1}
  Tokens = {t1, t2}
  NoToken = NoToken
  NoId = NoId
  Envelope <- AllOfAKind
  Notices = {m3}
  WaitKinds = {"none"}
SPECIFICATION Spec
INVARIANTS NothingLost
CHECK_DEADLOCK FALSE
