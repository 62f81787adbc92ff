CONSTANTS
  Devices <- TwoDevices
  Host = Host
  Nowhere = Nowhere
  Threads <- FcThreads
  Master = "cpu"
  Peers <- FcPeers
  Lead <- FcLead
  PowerOrder <- FcPower
  SaveOrder <- FcSave
  Scalars <- FcScalars
  Bodies <- FcBodies
  FrameThreads = {"ppu"}
  FrameFirst = {}
  Lines = 3
  Vblank = 2
  Stoppers = {}
  Polite = {}
  Dmc <- FcDmc
  DmaDelay = 2
  Ports <- FcPorts
  Swaps <- NoSwaps
  Second <- FcSecond
  Gens = {0}
  MaxSaves = 1
SPECIFICATION FairSpec
INVARIANTS TypeOK NotAhead RunEndsWithFrame 
PROPERTIES ClockAdvances RunCompletes SaveCompletes EveryThreadRuns
