\* Up to three calls in rounds of up to two, two of them with the same id.
SPECIFICATION FairSpec
CONSTANTS
  N = 3
  MaxCalls = 2
  Tool = {bash, enter, exit, delegate, fetch, post}
  Bash = bash
  EnterPlan = enter
  ExitPlan = exit
  Delegate = delegate
  Concurrent = {fetch, post}
  Interactive = {bash, post}
  Sensitive = {bash, post}
  Checked = {bash, fetch, post}
  bash = bash
  enter = enter
  exit = exit
  delegate = delegate
  fetch = fetch
  post = post
  Id <- RepeatedIds
INVARIANTS
  ApprovedAsRun
  Alone
  EventsPaired
PROPERTIES
  ModeRespected
  StrandedByItsId
  DeliverySpec
  RunEnds
CHECK_DEADLOCK FALSE
