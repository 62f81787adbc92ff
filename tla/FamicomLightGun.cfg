CONSTANTS
  Devices <- ThreeDevices
  Host = Host
  Nowhere = Nowhere
  Threads <- FcThreads
  Master = "cpu"
  Peers <- FcPeers
  Lead <- FcLead
  PowerOrder <- FcPower
  SaveOrder <- FcSave
  Scalars <- FcScalars
  Bodies <- FcBodies
  FrameThreads = {"ppu"}
  FrameFirst = {}
  Lines = 2
  Vblank = 1
  Stoppers = {}
  Polite = {}
  Dmc <- NoDmc
  DmaDelay = 2
  Ports <- FcPorts
  Swaps <- NoSwaps
  Second <- FcSecond
  Gens = {0}
  MaxSaves = 1
SPECIFICATION Spec
INVARIANT LightGunHangs
