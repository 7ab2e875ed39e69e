CONSTANTS
  Callers = {c1, c2, c3}
  Projects = {p1, p2}
  Gates = {g1, g2, g3, g4, g5}
  None = None
  MAX_SESSION_PROJECT_SERVICES = 1
SPECIFICATION Spec
SYMMETRY Identities
INVARIANT TypeOK
INVARIANT OneStart
