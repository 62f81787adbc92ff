CONSTANTS
  Devices <- TwoDevices
  Host = Host
  Nowhere = Nowhere
  Threads <- FcThreads
  Master = "cpu"
  Peers <- FcPeers
  Lead <- FcLead
  PowerOrder <- FcPower
  SaveOrder <- FcSave
  Scalars <- FcScalars
  Bodies <- FcBody
  FrameThreads = {"ppu"}
  FrameFirst = {}
  Lines = 2
  Vblank = 1
  Stoppers = {}
  Polite = {}
  Dmc <- NoDmc
  DmaDelay = 2
  Ports <- FcPorts
  Swaps <- FcSwaps
  Second <- FcSecond
  Gens = {0, 1}
  MaxSaves = 1
SPECIFICATION Spec
INVARIANTS SafePoint DanglingOnlyAfterSave
PROPERTIES OthersFrozen KeepsContract
\* A switch to a deleted cothread takes control out of the model.
CHECK_DEADLOCK FALSE
