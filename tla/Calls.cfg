\* Two agents' lives at one path; two messages with a restart and a late database.
\* It may stop: everything bounded has happened.
CHECK_DEADLOCK FALSE
SPECIFICATION Spec
CONSTANTS
  RetryMax = 2
  MaxRefusals = 1
  MaxChanges = 4
  MaxCalls = 3
  MaxInstances = 3
  MaxMessages = 2
  MaxTo = 2
  MaxSims = 1
  MaxComings = 1
  MaxCrashes = 1
  MaxOut = 2
  BusFaults = FALSE
  OfonoForgets = FALSE
INVARIANTS
  BelievedHeld
  NeverStuck
  DialogsAreLive
  AtMostOnce
  OneAtATime
  StatusIsTrue
PROPERTIES
  
  EveryMessageSettles
