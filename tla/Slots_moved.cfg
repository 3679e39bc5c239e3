\* Modems that change places.
\* It may stop: everything has happened.
CHECK_DEADLOCK FALSE
SPECIFICATION SlotsSpec
CONSTANTS
  MaxModem = 1
  MaxGone = 1
  MaxDeaths = 0
  MaxWire = 4
INVARIANTS
  EverySlotComesUp
