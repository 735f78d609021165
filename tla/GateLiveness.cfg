SPECIFICATION FairSpec
CONSTANTS
  Ids = {i1}
  Buttons = {b0}
  MainButton = b0
  PassTimeout = 1
  HurryTimeout = 2
  MaxLag = 1
  RelaxedPos = FALSE
  RelaxedDateTime = TRUE
  StoredRecords <- AnyRecords
  None = None
PROPERTIES
  GateCloses
  IdleWhenEmpty
