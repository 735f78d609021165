SPECIFICATION SiteSpec
CONSTANTS
  Ids = {i1}
  Buttons = {b0}
  MainButton = b0
  PassTimeout = 1
  HurryTimeout = 2
  MaxLag = 1
  RelaxedPos = FALSE
  RelaxedDateTime = FALSE
  StoredRecords <- OrdinaryRecords
  None = None
  MayTurnBack = TRUE
INVARIANT PositionIsTrue
