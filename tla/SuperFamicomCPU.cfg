CONSTANTS
  Line = 33
  Lines = 4
  Vdisp = 3
  InitPosition = 3
  HdmaPosition = 18
  Access = 2
  Channels = 2
  CountHalf = 4
  SizeWidth = 4
  FactorBits = 3
  Programs <- CpuPrograms
SPECIFICATION Spec
INVARIANTS ActiveIsPending DmaIsolated HdmaFollowsTable NmiHasCause WaitEnds AluResult
PROPERTIES MaskedIrqAfterNmi
