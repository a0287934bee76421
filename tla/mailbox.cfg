SPECIFICATION LiveSpec
CONSTANTS
  s1 = s1
  s2 = s2
  s3 = s3
  alpha = alpha
  hello = hello
  p1 = p1
  p2 = p2
  r1 = r1
  r2 = r2
  None = None
  Session = {s1, s2, s3}
  Project = {alpha}
  Text = {hello}
  Sender = {p1}
  Reader = {r1}
  Overlap = FALSE
  Killable = {p1}
  Batch = 1
  Window = 1
  MaxNow = 1
  MaxSends = 2
  MaxMoves = 1
CHECK_DEADLOCK FALSE
INVARIANT ShownOnce
INVARIANT ReadIsShown
INVARIANT OneRecipient
PROPERTY EveryMessageShown
PROPERTY PromiseKept
