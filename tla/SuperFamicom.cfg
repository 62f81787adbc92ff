CONSTANTS
  Host = Host
  Nowhere = Nowhere
  Threads <- SfcThreads
  Master = "cpu"
  Peers <- SfcPeers
  Lead <- SfcLead
  PowerOrder <- SfcPower
  SaveOrder <- SfcSave
  Scalars <- SfcScalars
  Bodies <- SfcBodies
  FrameThreads = {"ppu"}
  FrameFirst = {"ppu"}
  Lines = 2
  Vblank = 1
  Stoppers = {"smp", "sa1"}
  Polite = {"cpu", "smp", "sa1"}
  Dmc <- NoDmc
  DmaDelay = 2
  Ports <- SfcPorts
  Swaps = {}
  Second <- SfcSecond
  Gens = {0}
  MaxSaves = 1
SPECIFICATION FairSpec
INVARIANTS SafePoint NotAhead
PROPERTY SaveCompletes
