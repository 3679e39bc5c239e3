\* Two modems that come and go with ofono restarting; and two slots with two power
\* requests, failures, a restart and a loss of power.
\* It may stop: everything bounded has happened.
CHECK_DEADLOCK FALSE
SPECIFICATION Spec
CONSTANTS
  MaxModem = 1
  MaxGone = 2
  MaxDeaths = 1
  MaxWire = 3
  Slot = {0, 1}
  DefaultVoice = 0
  MaxRequests = 2
  MaxFaults = 1
INVARIANTS
  SlotsFollowModems
  NoModemMissed
  UnmovedSlotsComeUp
  AnsweredOnce
  NothingSticks
  PatientIsObeyed
