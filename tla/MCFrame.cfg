SPECIFICATION Spec
CONSTANTS
  Budget = 3
  GainTop = 1
  GainFloor <- MCGainFloor
  MaxStep = 1
  LumaSpan = 4
  HostValues <- MCHostValues
  HostResets = {"exposure", "enable"}
  Stored <- MCStored
  Default <- MCDefault
  Undefined = {0, 2, 5}
  NoValue = NoValue
INVARIANTS
  InStep
  GainBounded
PROPERTIES
  ManualExposureKept
  QuietFrameFits
  ExposureSettles
