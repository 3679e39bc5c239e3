\* Callbacks call back into the core; ids wrap after two submissions.
SPECIFICATION Spec
CONSTANTS
  Token = {t1, t2, t3}
  Requests <- MCFewRequests
  Answers <- MCOneAnswer
  NoRequest = NoRequest
  NoToken = NoToken
  MaxId = 2
  Timeouts = {TRUE, FALSE}
  Reentrant = TRUE
SYMMETRY TokenSymmetry
INVARIANTS
  TypeOK
  ExactlyOneReply
  TimerOnlyWhilePending
  EndedBeforeFreed
  EventsTellPending
PROPERTY NewcomersSpared
