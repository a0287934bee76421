SPECIFICATION OutsideSpec
CONSTANTS
  s1 = s1
  s2 = s2
  s3 = s3
  slack = slack
  None = None
  Session = {s1}
  Scope = {slack}
  Reaches = {{slack}}
  MaxSends = 2
  MaxHours = 2
  Day = 2
  Alone = TRUE
  MaxNow = 2
  MaxCalls = 3
  MaxOpens = 2
  Run = {n1, n2}
  Key = {k1, k2}
  NoRecord = NoRecord
  MaxWent = 2
  User = {s1, s2, s3}
  NoUser = NoUser
  Device <- MCDevice
  Seat = {s1, s2}
  Hold = {h1}
  Date = {d1}
  NoDate = NoDate
  MaxEvents = 3
  Ritual = {w1, w2}
  Target = {t1}
  Local = {t1}
  Surface = surface
  MaxAge = 1
  MaxClock = 2
  MaxLoads = 3
  Setter = {p1, p2}
  Field = {f, g}
  Rest = rest
  MaxValue = 3
CHECK_DEADLOCK FALSE
INVARIANT PlannedSends
INVARIANT ReachedOnce
INVARIANT HoldsKept
INVARIANT MarksKept
PROPERTY OwnBrowser
PROPERTY OthersEditsKept
