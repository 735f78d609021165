SPECIFICATION Spec
CONSTANTS
  Hours <- MCHours
  Years = {19, 20}
  Days <- MCDays
  Shuffled <- MCShuffled
  MaxUnread = 4
CHECK_DEADLOCK FALSE
INVARIANT
  TypeOK
PROPERTIES
  RightHour
  ShowsWhatWasSet
