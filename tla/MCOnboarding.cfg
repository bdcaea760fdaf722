\* Two jobs and two API calls for one siret, whose commune may change.
CONSTANTS
  Jobs = {j1, j2}
  Calls = {k1, k2}
  Sirets = {s1}
  Communes = {c1, c2}
  Editors = {e1, e2}
  None = None
SPECIFICATION Spec
CHECK_DEADLOCK FALSE
SYMMETRY Symmetry
INVARIANTS
  TypeOK
  ActivatedIsSubscribed
  SuccessIsActiveOrReported
  CreatedIsOwn
