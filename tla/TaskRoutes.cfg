\* Three requests to the routes of one task, which may be in any state.
SPECIFICATION RouteSpec
CONSTANTS
  t1 = t1
  Task = {t1}
  s1 = s1
  Session = {s1}
  m1 = m1
  Msg = {m1}
  NoSession = NoSession
  MaxIter = 2
  MaxResume = 3
  r1 = r1
  r2 = r2
  r3 = r3
  Request = {r1, r2, r3}
INVARIANTS
  CancelledIsOver
  ResumedOnce
PROPERTIES
  LoopSpec
CHECK_DEADLOCK FALSE
