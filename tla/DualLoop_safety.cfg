\* Two tasks, one session, so that tasks meet on a session; two messages.
SPECIFICATION Spec
CONSTANTS
  t1 = t1
  t2 = t2
  Task = {t1, t2}
  s1 = s1
  Session = {s1}
  m1 = m1
  m2 = m2
  Msg = {m1, m2}
  NoSession = NoSession
  MaxIter = 2
  MaxResume = 2
SYMMETRY Symmetry
INVARIANTS
  NoSilentLoss
  NoStrandedMessage
  Cancellable
  CancelIsFinal
  HonestOutcome
PROPERTY LifecycleSpec
CHECK_DEADLOCK FALSE
