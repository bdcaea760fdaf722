\* One request at a time; API Particulier answers.
CONSTANTS
  Requests = {r1}
  Persons = {p1, p2}
  Collectivities = {c1, c2}
  Active = {c1, c2}
  v1 = v1
  v2 = v2
  Values = {v1, v2}
  Links = {v1}
  Arrivals <- Anyhow
  Sids = {s1, s2}
  Kinds = {"quotient", "error"}
  MayRaise = FALSE
  None = None
SPECIFICATION Spec
CHECK_DEADLOCK FALSE
PROPERTIES
  OnlyOwnQuotientIsUsed
  PortalValuesAreKept
