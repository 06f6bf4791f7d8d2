SPECIFICATION Spec
CONSTANTS
  q1 = q1
  q2 = q2
  q3 = q3
  i1 = i1
  IPs = {i1}
  Requests = {q1, q3}
  ip <- MCip
  print <- MCprintDistinct
  spoilt <- MCspoilt
  route <- MCrouteInspected
  Backends = {"none", "sqlite", "postgres", "mariadb"}
  MaxNow = 1
  NoRow = NoRow
  TTL = 0
  MaxFetches = 1
  Workers = {w1}
  Window = 1
  QueueSize = 1
PROPERTIES
  EveryRequestSettles
