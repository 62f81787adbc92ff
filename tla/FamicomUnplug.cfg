CONSTANTS
  Devices <- ThreeDevices
  Host = Host
  Nowhere = Nowhere
  Threads <- FcThreads
  Master = "cpu"
  Peers <- FcPeers
  Lead <- FcLead
  PowerOrder <- FcPower
  SaveOrder <- FcSave
  Scalars <- FcScalars
  Bodies <- FcBodies
  FrameThreads = {"ppu"}
  FrameFirst = {}
  Lines = 2
  Vblank = 1
  Stoppers = {}
  Polite = {}
  Dmc <- NoDmc
  DmaDelay = 2
  Ports <- FcPorts
  Swaps <- AllSwaps
  Second <- FcSecond
  Gens = {0, 1}
  MaxSaves = 1
SPECIFICATION Spec
INVARIANT SwitchIsValid
