SPECIFICATION LiveSpec
CONSTANTS
  s1 = s1
  s2 = s2
  left = left
  done = done
  None = None
  Session = {s1, s2}
  Body = {left, done}
  Asking = {left}
  Closed = {done}
  Limit = 2
  MaxTurns = 2
  MaxEngages = 2
  MaxLedger = 1
CHECK_DEADLOCK FALSE
INVARIANT AsksInTurn
INVARIANT AsksForPlan
INVARIANT NeverTwice
INVARIANT BadRepliesRevised
INVARIANT LetGoIsTold
PROPERTY TurnEnds
