SPECIFICATION RecordsSpec
CONSTANTS
  MaxCode = 1
  Ids = {0, 1}
  Infos = {"a", "b"}
  Positions = {"UNKNOWN", "INSIDE"}
  Config = Config
  None = None
  NoTable = NoTable
INVARIANTS
  TypeOK
  NeverAddressesBusyChip
PROPERTIES
  ImplementsRecordStore
  CommandReport
  CommandsAnswer
