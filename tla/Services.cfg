\* Two clients and four changes of the slot; two cards in two slots.
\* It may stop: the bounded changes have been made.
CHECK_DEADLOCK FALSE
SPECIFICATION Spec
CONSTANTS
  Client = {c1, c2}
  MaxMoves = 4
  MaxPath = 2
  MaxSlots = 2
  Role = {"voice", "data"}
  Iccid = {a, b}
  NoIccid = none
  Label = {work}
  NoLabel = unnamed
  MaxSwaps = 12
INVARIANTS
  ScansAreClaimed
  NetworkIsTold
  ListIsComplete
  TargetIsRight
  SimStatusIsTold
  ChoiceFollowsCard
PROPERTY EveryRequestIsAnswered
