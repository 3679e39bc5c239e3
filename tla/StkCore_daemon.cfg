\* The daemon: the callbacks only send, nobody turns the timeout off.
SPECIFICATION FairSpec
CONSTANTS
  Token = {t1, t2, t3}
  Requests <- MCRequests
  Answers <- MCAnswers
  NoRequest = NoRequest
  NoToken = NoToken
  MaxId = 3
  Timeouts = {TRUE}
  Reentrant = FALSE
INVARIANTS
  RepliesAccepted
  NoneConfused
  ChoiceIsKept
PROPERTIES
  KeepsPromise
