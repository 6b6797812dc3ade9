SPECIFICATION Spec
CONSTANTS
  Entries = {"luma", "luma2", "name", "gain", "fps"}
  NoEntry = NoEntry
  None = None
  Ids = {"l", "n", "g", "f"}
  Id <- MCId
  Hash <- MCHash
  HashSize = 8
  IndexRange = 4
  Modules = {"auto_exp", "sensor"}
  Kind <- MCKind
  Table <- MCTable
  Banks = {bank0, bank1}
  NoBank = NoBank
  Values <- MCValues
  NoValue = NoValue
  Default <- MCDefault
  Persist = {"gain", "fps"}
  Aliased = {"name"}
PROPERTY
  NoMemoryOnlyWhenFull
