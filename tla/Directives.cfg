\* Two tasks, of one session or of two, and a directive of each kind.
SPECIFICATION DSpec
CONSTANTS
  t1 = t1
  t2 = t2
  Task = {t1, t2}
  s1 = s1
  s2 = s2
  Session = {s1, s2}
  Msg = {}
  NoSession = NoSession
  MaxIter = 2
  MaxResume = 1
  d1 = d1
  d2 = d2
  Realtime = {d1}
  Checkpoint = {d2}
  NoTask = NoTask
SYMMETRY Symmetry
INVARIANTS
  NoLateDirective
  CompletedShowsAll
CHECK_DEADLOCK FALSE
