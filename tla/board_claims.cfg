SPECIFICATION Spec
CONSTANTS
  Session = {s1, s2}
  Nobody = Nobody
  folder = folder
  inner = inner
  elsewhere = elsewhere
  s1 = s1
  s2 = s2
  Claim <- MCClaim
  Overlap <- MCOverlap
  Requests <- MCTwoRequests
  MayTake = {s1, s2}
  OwnersStayQuiet = TRUE
  Crashes = TRUE
  StaleAfter = 0
  MaxNow = 2
INVARIANT Exclusive
PROPERTY OnlyStaleLoses
PROPERTY PromiseKept
