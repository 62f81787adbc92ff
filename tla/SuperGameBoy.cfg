CONSTANTS
  Host = Host
  Nowhere = Nowhere
  Threads <- SgbThreads
  Master = "cpu"
  Peers <- SgbPeers
  Lead <- SgbLead
  PowerOrder <- SgbPower
  SaveOrder <- SgbPower
  Scalars <- SgbScalars
  Bodies <- SgbBodies
  FrameThreads = {"ppu"}
  FrameFirst = {"ppu"}
  Lines = 2
  Vblank = 1
  Stoppers = {}
  Polite = {}
  Dmc <- SgbDmc
  DmaDelay = 1
  Ports = {}
  Swaps = {}
  Second = 127
  Gens = {0, 1}
  MaxSaves = 1
  StepClocks = 2
  GbScalars <- SgbGbScalars
  GbBodies <- SgbGbBodies
  GbLines = 2
  GbVblank = 1
  GbStoppers = {"gbcpu"}
  GbGens = {0, 1}
  CountWidth = 8
  MaxGap = 2
SPECIFICATION NestedFairSpec
INVARIANTS NestedTypeOK NestedSafePoint ClocksCharged NestedSwitchesValid
PROPERTIES NestedRunCompletes NestedSaveCompletes
