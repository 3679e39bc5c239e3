\* A powerSet and an airplaneModeSet that overlap, and nothing that fails.
\* It may stop: the bounded requests have been made.
CHECK_DEADLOCK FALSE
SPECIFICATION PowerSpec
CONSTANTS
  Slot = {0}
  DefaultVoice = 0
  MaxRequests = 2
  MaxFaults = 0
INVARIANT AirplaneMeansOffline
