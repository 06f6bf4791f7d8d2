SPECIFICATION Spec
CONSTANTS
  q1 = q1
  q2 = q2
  q3 = q3
  i1 = i1
  IPs = {i1}
  Requests = {q1, q2, q3}
  ip <- MCip
  print <- MCprint
  spoilt <- MCspoilt
  route <- MCroute
  Backends = {"sqlite"}
  MaxNow = 1
  NoRow = NoRow
  TTL = 0
  MaxFetches = 1
  Workers = {w1, w2}
  Window = 1
  QueueSize = 1
PROPERTY
  MinimalRowIsNew
