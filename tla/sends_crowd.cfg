SPECIFICATION LiveSpec
CONSTANTS
  s1 = s1
  s2 = s2
  s3 = s3
  slack = slack
  jira = jira
  None = None
  Session = {s1, s2}
  Scope = {slack, jira}
  Reaches = {{slack, jira}}
  MaxSends = 1
  MaxHours = 1
  Day = 1
  Alone = FALSE
  MaxNow = 0
  MaxCalls = 3
  MaxOpens = 1
CHECK_DEADLOCK FALSE
INVARIANT OvershootBounded
PROPERTY PromiseKept
PROPERTY SpentCloses
