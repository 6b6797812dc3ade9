SPECIFICATION Spec
CONSTANTS
  Modules = {"sensor", "wide", "huge", "auto_exp", "misc"}
  Params = {"gain", "w0", "w2", "h0", "luma", "speed", "extra"}
  NoEntry = NoEntry
  None = None
  Values = {0}
  Kind <- MCKind
  Table <- MCTable
  Order <- MCOrder
  OrderCount = 3
  Wired = {"sensor", "wide"}
  Execs = {}
  InitPush <- MCInitPush
  Owner <- MCOwner
  Lid <- MCLid
  Flags <- MCFlags
  Default <- MCDefault
  Numeric = {}
  Accepts <- MCAccepts
  InitLimits <- MCInitLimits
  LimitArgs = {}
  Lids = {0, 1, 2, 3}
  DirtyMapBits = 3
  HashSize = 4
  ErrorWrap = 1
  Calls = {"init", "register", "set_storage", "check", "save", "write", "flush", "load", "load_all", "reset_one"}
VIEW state
INVARIANTS
  DirtyCountExact
  DirtyBytePending
  ListOrdered
  RegistryConsistent
PROPERTIES
  InitFollowsOrder
  FailedFlushRetries
