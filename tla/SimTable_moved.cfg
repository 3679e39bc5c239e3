\* Two slots; the card that was chosen is put from one into the other.
\* It may stop: the bounded changes have been made.
CHECK_DEADLOCK FALSE
SPECIFICATION TableSpec
CONSTANTS
  MaxSlots = 2
  Role = {"data"}
  Iccid = {a, b}
  NoIccid = none
  Label = {work}
  NoLabel = unnamed
  MaxSwaps = 8
INVARIANT ChoiceFollowsPhysicalCard
