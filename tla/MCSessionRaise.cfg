\* One request at a time; API Particulier may fail.
CONSTANTS
  Requests = {r1}
  Persons = {p1, p2}
  Collectivities = {c1, c2}
  Active = {c1, c2}
  v1 = v1
  v2 = v2
  Values = {v1, v2}
  Links = {v1}
  Arrivals <- FromPortal
  Sids = {s1, s2}
  Kinds = {"quotient"}
  MayRaise = TRUE
  None = None
SPECIFICATION FairSpec
CHECK_DEADLOCK FALSE
PROPERTY OnlyOwnQuotientIsUsed
