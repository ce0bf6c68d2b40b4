SPECIFICATION Spec
CONSTANTS
  NoRequest = NoRequest
  Requests = {q1, q2}
  Windows = {w1, w2}
  Kinds = {"permission", "elicitation"}
SYMMETRY Symmetry
INVARIANT
  ReplayAgrees
CHECK_DEADLOCK FALSE
