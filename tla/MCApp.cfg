SPECIFICATION Spec
CONSTANTS
  Modules = {"auto_exp"}
  Params = {"luma", "mode", "calibrate"}
  NoEntry = NoEntry
  None = None
  Values = {0, 1, 2}
  Kind <- MCKind
  Table <- MCTable
  Order <- MCOrder
  OrderCount = 1
  Wired = {"auto_exp"}
  Execs = {"auto_exp"}
  InitPush <- MCInitPush
  Owner <- MCOwner
  Lid <- MCLid
  Flags <- MCFlags
  Default <- MCDefault
  Numeric = {"luma"}
  Accepts <- MCAccepts
  InitLimits <- MCInitLimits
  LimitArgs = {0, 2}
  Lids = {0, 1, 2}
  DirtyMapBits = 3
  HashSize = 8
  ErrorWrap = 1
  Calls = {"init", "deinit", "register", "write", "write_raw", "write_immediate", "exec", "flush", "load", "reset_one", "reset_all", "set_range", "validate_all", "clear_stats"}
VIEW state
INVARIANTS
  AppDirtyFlagged
PROPERTIES
  NumericClamped
  AppliedValueCached
  FlushOkLeavesClean
