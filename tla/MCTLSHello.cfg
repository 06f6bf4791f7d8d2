SPECIFICATION Spec
CONSTANTS
  c1 = c1
  c2 = c2
  h3 = h3
  http = http
  a1 = a1
  a2 = a2
  Conns = {c1, c2, h3, http}
  Addrs = {a1, a2}
  Hellos <- MCHellos
  kind <- MCkind
  addr <- MCaddr
  Missing = Missing
INVARIANTS
  TypeOK
  NeverForeign
  EntryIsBacked
PROPERTY
  KeptWhileOpen
