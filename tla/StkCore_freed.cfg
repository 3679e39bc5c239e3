\* An event callback that answers the request it is told of.
\* It may stop: both invocations have been answered.
CHECK_DEADLOCK FALSE
SPECIFICATION Spec
CONSTANTS
  Token = {t1, t2}
  Requests <- MCFewRequests
  Answers <- MCOneAnswer
  NoRequest = NoRequest
  NoToken = NoToken
  MaxId = 2
  Timeouts = {TRUE}
  Reentrant = TRUE
INVARIANT SubmittedStays
