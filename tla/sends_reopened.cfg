SPECIFICATION Spec
CONSTANTS
  s1 = s1
  s2 = s2
  s3 = s3
  slack = slack
  jira = jira
  None = None
  Session = {s1, s2}
  Scope = {slack}
  Reaches = {{slack}}
  MaxSends = 1
  MaxHours = 1
  Day = 1
  Alone = FALSE
  MaxNow = 0
  MaxCalls = 2
  MaxOpens = 2
SYMMETRY MCSymmetry
CHECK_DEADLOCK FALSE
PROPERTY ClosedByItsLast
