\* Two slots, one of which is the default for calls; powerSet, and airplane
\* mode on and off, each when all is quiet.
\* It may stop: the bounded requests have been made and answered.
CHECK_DEADLOCK FALSE
SPECIFICATION GroundSpec
CONSTANTS
  Slot = {0, 1}
  DefaultVoice = 0
  MaxRequests = 3
  MaxFaults = 0
INVARIANT AirplaneOffRestores
