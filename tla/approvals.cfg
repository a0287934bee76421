SPECIFICATION MCSpec
CONSTANTS
  Session = {s1, s2}
  Caller = {s1, s2}
  Prompted = {s1, s2}
  Subject = {x, y}
  Code = {c1, c2}
  None = None
  Untyped = TRUE
  TTL = 1
  MaxNow = 3
  MaxPrompts = 1
SYMMETRY MCSymmetry
INVARIANT OneCallPerPrompt
PROPERTY OnlyBackedCallsPass
PROPERTY PromiseKept
