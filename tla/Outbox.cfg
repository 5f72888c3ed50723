SPECIFICATION OutboxSpec
CONSTANTS
  Jobs = {j1, j2}
  Hosts = {h1, h2}
  Lease = 4
  Timeout = 3
  Delay = 0
  MaxAttempts = 2
  MaxMishaps = 1
  Nobody = Nobody
  Callers = {c1, c2}
  Workers = {w1, w2}
  Direct = direct
  Readers = {r1, r2}
  Markers = {m1, m2}
  MaxLapses = 1
  EmailAttempts = 2
  None = None
INVARIANTS CTypeOK OneSender AtMostOnce NTypeOK OneMailPerLapse StatusIsTrue FeedIsCurrent
PROPERTIES SentIsFinal EveryJobEnds StatusSettles
CHECK_DEADLOCK FALSE
