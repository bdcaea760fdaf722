\* Overlapping requests of one browser, with every failure.
CONSTANTS
  Requests = {r1, r2}
  Persons = {p1, p2}
  Collectivities = {c1, c2}
  Active = {c1}
  v1 = v1
  v2 = v2
  Values = {v1, v2}
  Links = {v1}
  Arrivals <- FromPortal
  Sids = {s1, s2}
  Kinds = {"quotient", "error"}
  MayRaise = TRUE
  None = None
SPECIFICATION Spec
CHECK_DEADLOCK FALSE
SYMMETRY Symmetry
INVARIANTS
  TypeOK
  SessionsAreOfOneParent
  PagesAreOfOneParentAndPortal
  LogoutIsKept
