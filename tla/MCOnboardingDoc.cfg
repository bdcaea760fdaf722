\* What the documentation says of a set-up.
CONSTANTS
  Jobs = {j1, j2}
  Calls = {k1}
  Sirets = {s1}
  Communes = {c1}
  Editors = {e1}
  None = None
SPECIFICATION Spec
CHECK_DEADLOCK FALSE
INVARIANT ActivatedIsSubscribedActively
