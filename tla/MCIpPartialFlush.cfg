SPECIFICATION Spec
CONSTANTS
  Modules = {"sensor"}
  Params = {"exposure", "shutdown", "luma"}
  NoEntry = NoEntry
  None = None
  Values = {0, 1}
  Kind <- MCKind
  Table <- MCTable
  Order <- MCOrder
  OrderCount = 1
  Wired = {"sensor"}
  Execs = {"sensor"}
  InitPush <- MCInitPush
  Owner <- MCOwner
  Lid <- MCLid
  Flags <- MCFlags
  Default <- MCDefault
  Numeric = {}
  Accepts <- MCAccepts
  InitLimits <- MCInitLimits
  LimitArgs = {}
  Lids = {0, 1, 2}
  DirtyMapBits = 3
  HashSize = 8
  ErrorWrap = 2
  Calls = {"init", "register", "write", "flush"}
VIEW state
PROPERTY
  WrittenBitsCleared
