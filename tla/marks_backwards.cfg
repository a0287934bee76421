SPECIFICATION MarkSpec
CONSTANTS
  Ritual = {w1, w2}
  Target = {t1}
  Local = {t1}
  Surface = surface
  MaxAge = 1
  MaxClock = 2
  MaxLoads = 3
CHECK_DEADLOCK FALSE
PROPERTY NeverBackwards
