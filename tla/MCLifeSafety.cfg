SPECIFICATION Spec
CONSTANTS
  c1 = c1
  c2 = c2
  d1 = d1
  d2 = d2
  d3 = d3
  o1 = o1
  o2 = o2
  o3 = o3
  o4 = o4
  None = None
  Conns = {c1, c2}
  Drivers = {d1, d2, d3}
  Options = {o1, o2, o3, o4}
  OptionAt <- MCOptionAt
  Versions <- MCVersions
  HasSslSet = TRUE
  Refusals = TRUE
  LocalServer = FALSE
SYMMETRY Symmetry
INVARIANTS
  TypeOK
  HandleKnown
  OneOwner
