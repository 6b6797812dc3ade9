SPECIFICATION Spec
CONSTANTS
  Entries = {"luma", "luma2", "name", "gain", "fps"}
  NoEntry = NoEntry
  None = None
  Ids = {"l", "n", "g", "f"}
  Id <- MCId
  Hash <- MCHash
  HashSize = 4
  IndexRange = 8
  Modules = {"auto_exp", "sensor"}
  Kind <- MCKind
  Table <- MCTable
  Banks = {bank0, bank1}
  NoBank = NoBank
  Values <- MCValues
  NoValue = NoValue
  Default <- MCDefault
  Persist = {"gain", "fps"}
  Aliased = {"name"}
SYMMETRY BankSymmetry
INVARIANTS
  SaveInSlotOrder
  LoadInSlotOrder
  StoredIsFound
PROPERTIES
  OkMeansInSync
  HashIsDirectory
  NoMemoryOnlyWhenFull
  RegisteredIsFound
