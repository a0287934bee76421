SPECIFICATION Spec
CONSTANTS
  s1 = s1
  s2 = s2
  Caller = {u1, u2}
  Site = {s1, s2}
  Command <- MCCommand
  Window = 1
  Exporter = {e1, e2}
  Nobody = nobody
  Long = {2}
  Segment = 3
  MaxRows = 5
  MaxRewrites = 1
  MaxSegments = 2
  Recorded = {r1, r2}
  MaxRecords = 2
  MaxReadings = 1
  Process = {i1, i2}
  Release = {1, 2, 3}
  MaxStarts = 4
  Mover = {m1, m2}
  NoFile = NoFile
  MaxItems = 3
  Releaser = {p1, p2}
  Remotes <- MCRemotes
  Manifest <- MCManifest
  MaxRuns = 2
SYMMETRY Releasers
CHECK_DEADLOCK FALSE
INVARIANT ArchiveKept
INVARIANT BoardKept
PROPERTY RapidIsApproved
PROPERTY SyncKept
PROPERTY InstallKept
PROPERTY PublishKept
