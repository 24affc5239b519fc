CONSTANTS
  m1 = m1
  m2 = m2
  m3 = m3
  Id = {m1, m2, m3}
  Workers = {w1, w2}
  Tokens = {t1, t2, t3}
  NoToken = NoToken
  NoId = NoId
  Envelope <- TwoOfAKind
  Notices = {m3}
  WaitKinds = {"none", "time"}
SPECIFICATION Spec
SYMMETRY Interchangeable
INVARIANTS TypeOK ClaimsExclusive OneEnvelope AtMostOnce
PROPERTIES SentWhole KeepsPromise
CHECK_DEADLOCK FALSE
