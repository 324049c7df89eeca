\* A drained message is not among the messages sent to the LLM.
SPECIFICATION Spec
CONSTANTS
  t1 = t1
  t2 = t2
  Task = {t1, t2}
  s1 = s1
  Session = {s1}
  m1 = m1
  Msg = {m1}
  NoSession = NoSession
  MaxIter = 2
  MaxResume = 1
PROPERTY Steered
CHECK_DEADLOCK FALSE
