SPECIFICATION Spec
CONSTANTS
  c1 = c1
  c2 = c2
  d1 = d1
  d2 = d2
  Commit = {c1, c2}
  Path = {q1, q2}
  Phrase = {x1}
  Again = 1
  User = {s1, s2}
  NoUser = NoUser
  NoBranch = NoBranch
  MaxWork = 1
  Agent = {s1}
  Outsider = other
  Doc = {d1, d2}
  Line = {trunk, side}
  Trunk = trunk
  MaxPieces = 2
  Owner = {s1, s2}
  NoOwner = NoOwner
  MaxEntries = 4
SYMMETRY Alike
CHECK_DEADLOCK FALSE
INVARIANT ApprovedLines
INVARIANT WorkKept
INVARIANT PlanKept
PROPERTY ReadyIsTrue
