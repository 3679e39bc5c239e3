\* A set next to a Setup, with services and ConnMan coming and going; two modems,
\* with the data SIM, the modems and ofono coming and going.
\* two calls and two changes of a property.
\* It may stop: the bounded sets and changes have been made.
CHECK_DEADLOCK FALSE
SPECIFICATION Spec
CONSTANTS
  Set = {s1}
  Setup = {f1}
  Path = {p1, p2}
  NoPath = none
  ConnManAborts = TRUE
  ProxiesFail = FALSE
  MaxRestarts = 2
  MaxNews = 3
  MaxModem = 1
  Context = {x1}
  Client = {g1}
  MaxMoves = 6
  Call = {c1, c2}
  Get = get
  Value = {v1, v2}
  None = none
  Unknown = unknown
  MaxSignals = 2
INVARIANTS
  OkMeansDone
  NobodyWaitsForNothing
  FollowsTheDataSim
  StatusIsCurrent
  LastOneDrops
  AnsweredOnce
  QuietMeansCurrent
PROPERTIES
  EverySetIsAnswered
  EveryCallIsAnswered
