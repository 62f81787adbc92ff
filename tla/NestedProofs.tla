----------------------------- MODULE NestedProofs -----------------------------
(***************************************************************************)
(* The two schedulers of a Super Game Boy, one inside a thread of the      *)
(* other.  What SchedulerProofs shows of a scheduler is cited twice: as it *)
(* is for the Super Famicom, and as an instance for the Game Boy.          *)
(***************************************************************************)
EXTENDS SuperGameBoyProofs, SchedulerProofs

GBP == INSTANCE SchedulerProofs WITH
  Threads <- GbThreads, Host <- "icd2", Master <- "gbcpu", Peers <- GbPeers, Lead <- GbLead,
  PowerOrder <- GbPower, SaveOrder <- GbSave, Scalars <- GbScalars, Bodies <- GbBodies,
  FrameThreads <- {"gbppu"}, FrameFirst <- {}, Lines <- GbLines, Vblank <- GbVblank,
  Stoppers <- GbStoppers, Polite <- {}, Dmc <- [a \in {} |-> "gbcpu"], Ports <- {},
  Swaps <- {}, Gens <- GbGens, MaxSaves <- 0, saves <- 0,
  active <- gActive, mode <- gMode, event <- gEvent, resume <- gResume, master <- gMaster,
  gen <- gGen, clock <- gClock, scalar <- gScalar, pc <- gPc, work <- gWork, peer <- gPeer,
  line <- gLine, stopped <- gStopped, stall <- gStall, phase <- gPhase, turn <- gTurn,
  fresh <- gFresh

-----------------------------------------------------------------------------
(* The invariant *)

\* The Game Boy's scheduler keeps what any scheduler does.
InnerInv ==
  /\ GBP!SaveInv /\ gPc \in [GbThreads -> Points]
  /\ GBP!HandleLives /\ GBP!SwitchIsValid

\* The Game Boy's CPU is in the middle of an instruction as many clocks as it owes, and
\* executes HALT and STOP a whole step at a time.
OwedInv ==
  /\ owed \in 0 .. StepClocks
  /\ gStall["gbcpu"] = 0 /\ gPc["gbcpu"] # "scanline"
  /\ gPc["gbcpu"] \in {"top", "main"} => owed \in {0, StepClocks} /\ ~gStopped["gbcpu"]
  /\ gStopped["gbcpu"] => gWork["gbcpu"] # 0 /\ gWork["gbcpu"] % StepClocks = 0
  /\ gPc["gbcpu"] \in {"step", "peer"} /\ ~gStopped["gbcpu"]
       => (gWork["gbcpu"] + owed) % StepClocks = 0

\* It gives its state up, and then others do, only after CPU::step() has ended.
OwedParked ==
  /\ gPhase = "await" /\ gActive = "icd2" /\ gEvent = "Synchronize" => owed = 0
  /\ gPhase \in {"synchronize", "await"} /\ gTurn # 1 => owed = 0
  /\ gPhase = "saved" => owed = 0

\* The Game Boy runs while the ICD2's cothread is in one of the two calls, in which the
\* Super Famicom's scheduler does not switch.
CallInv ==
  /\ pc["icd2"] \in {"gbsave", "gbrun"} => active = "icd2"
  /\ pc["icd2"] = "gbrun" <=> gPhase = "run"
  /\ pc["icd2"] \notin {"gbsave", "gbrun"} <=> gPhase = "idle"
  /\ pc["icd2"] = "gbsave" => mode = "SynchronizeSlave"

Quiet == (\A t \in GbThreads : GB!AtTop(t)) /\ gActive = "icd2" /\ owed = 0

\* From when the ICD2 has given its state up until the Super Famicom's is copied, the Game
\* Boy is at its safe point.
QuietInv ==
  /\ phase = "await" /\ active = Host /\ event = "Synchronize" /\ SaveOrder[turn] = "icd2" => Quiet
  /\ phase \in {"synchronize", "await"} =>
       \A i \in DOMAIN SaveOrder : i < turn /\ SaveOrder[i] = "icd2"
         => Quiet \/ (phase = "await" /\ SaveOrder[turn] = "icd2")
  /\ phase = "saved" => Quiet

OuterInv ==
  /\ SaveInv /\ pc \in [Threads -> Points \cup {"gbsave", "gbrun"}]
  /\ HandleLives /\ SwitchIsValid

NestedInv == OuterInv /\ InnerInv /\ OwedInv /\ OwedParked /\ CallInv /\ QuietInv
-----------------------------------------------------------------------------
(* The instance *)

LEMMA InnerAssumptions ==
  GBP!ThreadsAssumption /\ GBP!SaveOrderAssumption /\ GBP!NumbersAssumption
<1>1. GBP!ThreadsAssumption
  <2>1. IsFiniteSet(GbThreads)
    <3>1. IsFiniteSet({"gbcpu"}) /\ IsFiniteSet({"gbppu"}) /\ IsFiniteSet({"gbapu"})
      BY FS_Singleton
    <3>2. IsFiniteSet({"gbcpu"} \cup {"gbppu"})
      BY <3>1, FS_Union
    <3>3. IsFiniteSet(({"gbcpu"} \cup {"gbppu"}) \cup {"gbapu"})
      BY <3>1, <3>2, FS_Union
    <3>4. GbThreads = ({"gbcpu"} \cup {"gbppu"}) \cup {"gbapu"}
      BY DEF GbThreads
    <3>. QED  BY <3>3, <3>4
  <2>2. GbPeers \in [GbThreads -> Seq(GbThreads)] /\ GbPower \in Seq(GbThreads)
    BY DEF GbPeers, GbPower, GbThreads
  <2>3. \A t \in GbThreads : \E i \in DOMAIN GbPower : GbPower[i] = t
    BY DEF GbPower, GbThreads
  <2>4. Nowhere # "icd2" /\ Nowhere \notin GbThreads
    BY ThreadsAssumption, IcdAssumption, GameBoyAssumption
       DEF ThreadsAssumption, IcdAssumption, GameBoyAssumption
  <2>5. \A t \in GbThreads : GbPeers[t] # << >>
    BY DEF GbPeers, GbThreads
  <2>6. /\ "icd2" \notin GbThreads /\ "gbcpu" \in GbThreads /\ "gbcpu" \notin {}
        /\ {"gbppu"} \subseteq GbThreads /\ {} \subseteq {"gbppu"}
        /\ {} \subseteq GbThreads \ {"gbppu"} /\ {} \subseteq Seq({})
    BY DEF GbThreads
  <2>7. GBP!IsFiniteSet(GbThreads)
    BY <2>1 DEF IsFiniteSet, GBP!IsFiniteSet
  <2>. QED  BY <2>2, <2>3, <2>4, <2>5, <2>6, <2>7 DEF GBP!ThreadsAssumption
<1>2. GBP!SaveOrderAssumption
  BY DEF GBP!SaveOrderAssumption, GbSave, GbThreads
<1>3. GBP!NumbersAssumption
  <2>1. \A t \in GbThreads : GbLead[t] \in [GbThreads -> Nat]
    BY DEF GbLead
  <2>2. Second \in Nat /\ DmaDelay \in Nat \ {0}
    BY NumbersAssumption DEF NumbersAssumption
  <2>. QED  BY <2>1, <2>2, GameBoyAssumption DEF GBP!NumbersAssumption, GameBoyAssumption
<1>. QED  BY <1>1, <1>2, <1>3

\* The Game Boy's scheduler of SuperGameBoy is the one the instance speaks of.
LEMMA SameThread ==
  ASSUME NEW t, NEW e
  PROVE  /\ GB!Park(t) <=> GBP!Park(t)
         /\ GB!Pass(t) <=> GBP!Pass(t)
         /\ GB!Begin(t) <=> GBP!Begin(t)
         /\ GB!Step(t) <=> GBP!Step(t)
         /\ GB!Synchronize(t) <=> GBP!Synchronize(t)
         /\ GB!Scanline(t) <=> GBP!Scanline(t)
         /\ GB!Exit(t, e) <=> GBP!Exit(t, e)
         /\ GB!AtTop(t) <=> GBP!AtTop(t)
         /\ GB!ThreadStep(t) <=> GBP!ThreadStep(t)
<1>1. GB!Park(t) <=> GBP!Park(t)
  BY DEF GB!Park, GBP!Park, GB!Exit, GBP!Exit, GB!Normalized, GBP!Normalized,
         GB!SyncMode, GBP!SyncMode, GB!Handle, GBP!Handle, GB!cpu, GBP!cpu, GB!host, GBP!host
<1>2. GB!Pass(t) <=> GBP!Pass(t)
  BY DEF GB!Pass, GBP!Pass, GB!SyncMode, GBP!SyncMode, GB!Handle, GBP!Handle, GB!sched, GBP!sched,
         GB!cpu, GBP!cpu, GB!host, GBP!host
<1>3. GB!Begin(t) <=> GBP!Begin(t)
  BY DEF GB!Begin, GBP!Begin, GB!FetchSample, GBP!FetchSample, GB!sched, GBP!sched,
         GB!host, GBP!host
<1>4. GB!Step(t) <=> GBP!Step(t)
  BY DEF GB!Step, GBP!Step, GB!Width, GBP!Width, GB!Spinning, GBP!Spinning,
         GB!synchronizing, GBP!synchronizing, GB!sched, GBP!sched, GB!cpu, GBP!cpu,
         GB!host, GBP!host
<1>5. GB!Synchronize(t) <=> GBP!Synchronize(t)
  BY DEF GB!Synchronize, GBP!Synchronize, GB!Forced, GBP!Forced, GB!Due, GBP!Due,
         GB!AfterBody, GBP!AfterBody, GB!Switch, GBP!Switch, GB!Valid, GBP!Valid,
         GB!Handle, GBP!Handle, GB!Width, GBP!Width, GB!synchronizing, GBP!synchronizing,
         GB!sched, GBP!sched, GB!cpu, GBP!cpu, GB!host, GBP!host
<1>6. GB!Scanline(t) <=> GBP!Scanline(t)
  BY DEF GB!Scanline, GBP!Scanline, GB!Exit, GBP!Exit, GB!Normalized, GBP!Normalized,
         GB!Handle, GBP!Handle, GB!cpu, GBP!cpu, GB!host, GBP!host
<1>7. GB!Exit(t, e) <=> GBP!Exit(t, e)
  BY DEF GB!Exit, GBP!Exit, GB!Normalized, GBP!Normalized, GB!Handle, GBP!Handle
<1>8. GB!AtTop(t) <=> GBP!AtTop(t)
  BY DEF GB!AtTop, GBP!AtTop
<1>9. GB!ThreadStep(t) <=> GBP!ThreadStep(t)
  BY <1>1, <1>2, <1>3, <1>4, <1>5, <1>6 DEF GB!ThreadStep, GBP!ThreadStep
<1>. QED  BY <1>1, <1>2, <1>3, <1>4, <1>5, <1>6, <1>7, <1>8, <1>9

LEMMA SameHost ==
         /\ GB!Run <=> GBP!Run
         /\ GB!RunReturns <=> GBP!RunReturns
         /\ GB!SynchronizeThread <=> GBP!SynchronizeThread
         /\ GB!Reenter <=> GBP!Reenter
         /\ GB!Synchronized <=> GBP!Synchronized
         /\ GB!Create <=> GBP!Create
         /\ GB!Power <=> GBP!Power
         /\ GB!TypeOK <=> GBP!TypeOK
<1>1. GB!Run <=> GBP!Run
  BY DEF GB!Run, GBP!Run, GB!Enter, GBP!Enter, GB!Switch, GBP!Switch, GB!Valid, GBP!Valid,
         GB!cpu, GBP!cpu
<1>2. GB!RunReturns <=> GBP!RunReturns
  BY DEF GB!RunReturns, GBP!RunReturns, GB!sched, GBP!sched, GB!cpu, GBP!cpu
<1>3. GB!SynchronizeThread <=> GBP!SynchronizeThread
  BY DEF GB!SynchronizeThread, GBP!SynchronizeThread, GB!Enter, GBP!Enter, GB!Switch, GBP!Switch,
         GB!Valid, GBP!Valid, GB!Handle, GBP!Handle, GB!cpu, GBP!cpu
<1>4. GB!Reenter <=> GBP!Reenter
  BY DEF GB!Reenter, GBP!Reenter, GB!Enter, GBP!Enter, GB!Switch, GBP!Switch, GB!Valid, GBP!Valid,
         GB!cpu, GBP!cpu, GB!host, GBP!host
<1>5. GB!Synchronized <=> GBP!Synchronized
  BY DEF GB!Synchronized, GBP!Synchronized, GB!sched, GBP!sched, GB!cpu, GBP!cpu
<1>6. GB!Create <=> GBP!Create
  BY DEF GB!Create, GBP!Create
<1>7. GB!Power <=> GBP!Power
  BY DEF GB!Power, GBP!Power, GB!Create, GBP!Create, GB!PowerClock, GBP!PowerClock,
         GB!BiasOf, GBP!BiasOf, GB!host, GBP!host
<1>8. GB!TypeOK <=> GBP!TypeOK
  BY DEF GB!TypeOK, GBP!TypeOK, GB!ValuesOK, GBP!ValuesOK, GB!Points, GBP!Points,
         GB!Phases, GBP!Phases
<1>. QED  BY <1>1, <1>2, <1>3, <1>4, <1>5, <1>6, <1>7, <1>8


-----------------------------------------------------------------------------
(* The Game Boy's scheduler *)

\* What the Game Boy's threads do in any scheduler.
LEMMA InnerThread ==
  ASSUME InnerInv, NEW t \in GbThreads, GB!ThreadStep(t)
  PROVE  /\ InnerInv'
         /\ gActive = t
         /\ UNCHANGED << gMode, gMaster, gGen, gPhase, gTurn >>
         /\ \A u \in GbThreads : u # t => gPc'[u] = gPc[u] /\ gWork'[u] = gWork[u]
<1>1. GBP!ThreadStep(t) /\ GBP!SaveInv /\ GBP!TypeInv
  BY SameThread DEF InnerInv, GBP!SaveInv
<1>2. GBP!SaveInv'
  BY <1>1, InnerAssumptions, GBP!ThreadSave
<1>3. GBP!HandleLives' /\ GBP!SwitchIsValid'
  BY <1>1, InnerAssumptions, GBP!ThreadSwitchValid DEF InnerInv
<1>4. gPc' \in [GbThreads -> Points]
  <2>1. gPc \in [GbThreads -> GBP!Points] /\ GBP!Next
    BY <1>1 DEF InnerInv, Points, GBP!Points, GBP!Next, GBP!Proceed
  <2>2. gPc' \in [GbThreads -> GBP!Points]
    BY <2>1, InnerAssumptions, GBP!NextPoints
  <2>. QED  BY <2>2 DEF Points, GBP!Points
<1>5. /\ gActive = t
      /\ UNCHANGED << gMode, gMaster, gGen, gPhase, gTurn >>
      /\ \A u \in GbThreads : u # t => gPc'[u] = gPc[u] /\ gWork'[u] = gWork[u]
  BY <1>1, InnerAssumptions, GBP!ThreadStepFacts
<1>. QED  BY <1>2, <1>3, <1>4, <1>5 DEF InnerInv

\* What its caller, the ICD2, does in any.
LEMMA InnerHost ==
  ASSUME InnerInv,
         \/ GB!Run \/ GB!RunReturns \/ GB!SynchronizeThread \/ GB!Reenter \/ GB!Synchronized
         \/ GB!Power
  PROVE  InnerInv'
<1>1. \/ GBP!Run \/ GBP!RunReturns \/ GBP!SynchronizeThread \/ GBP!Reenter \/ GBP!Synchronized
      \/ GBP!Power
  BY SameHost
<1>2. GBP!SaveInv /\ GBP!TypeInv /\ GBP!Next
  BY <1>1 DEF InnerInv, GBP!SaveInv, GBP!Next, GBP!Proceed
<1>3. GBP!SaveInv'
  BY <1>2, InnerAssumptions, GBP!NextSave
<1>4. GBP!HandleLives' /\ GBP!SwitchIsValid'
  BY <1>1, <1>2, InnerAssumptions, GBP!HostSwitchValid DEF InnerInv
<1>5. gPc' \in [GbThreads -> Points]
  <2>1. gPc \in [GbThreads -> GBP!Points]
    BY DEF InnerInv, Points, GBP!Points
  <2>2. gPc' \in [GbThreads -> GBP!Points]
    BY <1>2, <2>1, InnerAssumptions, GBP!NextPoints
  <2>. QED  BY <2>2 DEF Points, GBP!Points
<1>. QED  BY <1>3, <1>4, <1>5 DEF InnerInv


\* An exit from it for another reason: CPU::step() has ended, or a blank frame has.
LEMMA InnerExit ==
  ASSUME InnerInv, NEW t \in GbThreads, gActive = t, NEW e \in {"Step", "Frame"}, GB!Exit(t, e),
         gPc' = gPc \/ gPc' = [gPc EXCEPT ![t] = "top"],
         UNCHANGED << gMode, gMaster, gGen, gScalar, gWork, gPeer, gLine, gStopped, gStall,
                      gPhase, gTurn, gFresh >>
  PROVE  InnerInv'
<1>1. GBP!Exit(t, e) /\ GBP!SaveInv /\ GBP!TypeInv /\ GBP!ValuesOK
  BY SameThread DEF InnerInv, GBP!SaveInv, GBP!TypeInv
<1>2. /\ gClock' \in [GbThreads -> Nat]
      /\ gEvent' = e /\ gResume' = GBP!Handle(t) /\ gResume' \in GbThreads \X GbGens
      /\ gActive' = "icd2"
  BY <1>1, InnerAssumptions, GBP!ExitType
<1>3. /\ gPc = [v \in GbThreads |-> gPc[v]] /\ gPc' = [v \in GbThreads |-> gPc'[v]]
      /\ \A u \in GbThreads : gPc'[u] \in {gPc[u], "top"} /\ (u # t => gPc'[u] = gPc[u])
      /\ gPc' \in [GbThreads -> Points]
  <2>1. gPc \in [GbThreads -> Points] /\ "top" \in Points
    BY DEF InnerInv, Points
  <2>. QED  BY <2>1
<1>4. GBP!TypeInv'
  <2>1. GBP!ValuesOK'
    BY <1>1, <1>2 DEF GBP!ValuesOK
  <2>2. GBP!WorkLeft'
    BY <1>1, <1>3 DEF GBP!TypeInv, GBP!WorkLeft
  <2>. QED  BY <1>3, <2>1, <2>2 DEF GBP!TypeInv
<1>5. gPhase \in {"run", "await"}
  <2>1. gActive # "icd2" /\ gPhase \in GBP!Phases /\ GBP!HostRuns
    BY <1>1 DEF GBP!ValuesOK, GBP!SaveInv, GbThreads
  <2>. QED  BY <2>1 DEF GBP!HostRuns, GBP!Phases
<1>6. GBP!MasterIsPrimary' /\ GBP!HostRuns' /\ GBP!SafePoint'
  BY <1>1, <1>5 DEF GBP!SaveInv, GBP!MasterIsPrimary, GBP!Handle, GBP!HostRuns, GBP!SafePoint
<1>7. GBP!ModeOfCall'
  <2>1. ASSUME gPhase = "await", gTurn # 1
        PROVE  t = GbSave[gTurn]
    BY <1>1, <2>1 DEF GBP!SaveInv, GBP!ModeOfCall, GbThreads
  <2>. QED  BY <1>1, <1>2, <2>1 DEF GBP!SaveInv, GBP!ModeOfCall, GBP!Handle
<1>8. GBP!ParkedAtTop'
  BY <1>2 DEF GBP!ParkedAtTop
<1>9. GBP!EarlierAtTop'
  <2>1. \A i \in DOMAIN GbSave : GbSave[i] \in GbThreads
    BY DEF GbSave, GbThreads
  <2>. QED  BY <1>1, <1>3, <2>1 DEF GBP!SaveInv, GBP!EarlierAtTop, GBP!AtTop
<1>10. GBP!HandleLives' /\ GBP!SwitchIsValid'
  <2>1. "icd2" # Nowhere
    BY ThreadsAssumption, IcdAssumption DEF ThreadsAssumption, IcdAssumption
  <2>. QED  BY <1>2, <2>1 DEF GBP!HandleLives, GBP!SwitchIsValid, GBP!Valid, GBP!Handle
<1>. QED  BY <1>3, <1>4, <1>6, <1>7, <1>8, <1>9, <1>10 DEF InnerInv, GBP!SaveInv

\* The CPU restarts the picture unit's cothread while it runs itself.
LEMMA InnerWriteLCDC ==
  ASSUME InnerInv, WriteLCDC
  PROVE  InnerInv'
<1>1. GBP!SaveInv /\ GBP!TypeInv /\ GBP!ValuesOK
  BY DEF InnerInv, GBP!SaveInv, GBP!TypeInv
<1>2. gActive = "gbcpu" /\ "gbcpu" # "icd2" /\ "gbcpu" # "gbppu" /\ "gbppu" \in GbThreads
  BY DEF WriteLCDC, GbThreads
<1>3. UNCHANGED << gActive, gMode, gEvent, gResume, gMaster, gClock, gScalar, gStopped, gStall,
                   gPhase, gTurn, gFresh >>
  BY DEF WriteLCDC
<1>4. /\ gGen' \in [GbThreads -> GbGens] /\ gWork' \in [GbThreads -> Nat]
      /\ gLine' \in [GbThreads -> Nat]
      /\ gPeer' \in [GbThreads -> Nat] /\ \A u \in GbThreads : gPeer'[u] \in DOMAIN GbPeers[u]
      /\ gPc' \in [GbThreads -> Points]
      /\ \A u \in GbThreads : \/ gPc'[u] = gPc[u] /\ gWork'[u] = gWork[u] /\ gGen'[u] = gGen[u]
                              \/ u = "gbppu" /\ gPc'[u] = "top"
  <2>0. /\ gGen \in [GbThreads -> GbGens] /\ gWork \in [GbThreads -> Nat]
        /\ gLine \in [GbThreads -> Nat]
        /\ gPeer \in [GbThreads -> Nat] /\ \A u \in GbThreads : gPeer[u] \in DOMAIN GbPeers[u]
        /\ gPc \in [GbThreads -> Points] /\ "top" \in Points
    BY <1>1 DEF InnerInv, GBP!ValuesOK, Points
  <2>1. CASE lcd
    <3>1. PICK g \in GbGens : gGen' = [gGen EXCEPT !["gbppu"] = g]
      BY <2>1 DEF WriteLCDC
    <3>2. /\ gPc' = [gPc EXCEPT !["gbppu"] = "top"] /\ gWork' = [gWork EXCEPT !["gbppu"] = 0]
          /\ gPeer' = [gPeer EXCEPT !["gbppu"] = 1] /\ gLine' = [gLine EXCEPT !["gbppu"] = 0]
      BY <2>1 DEF WriteLCDC
    <3>3. 1 \in DOMAIN GbPeers["gbppu"]
      BY DEF GbPeers, GbThreads
    <3>4. gPeer' \in [GbThreads -> Nat] /\ \A u \in GbThreads : gPeer'[u] \in DOMAIN GbPeers[u]
      BY <2>0, <3>2, <3>3
    <3>. QED  BY <2>0, <3>1, <3>2, <3>4
  <2>2. CASE ~lcd
    BY <2>0, <2>2 DEF WriteLCDC
  <2>. QED  BY <2>1, <2>2
<1>5. GBP!TypeInv'
  <2>1. GBP!ValuesOK'
    BY <1>1, <1>3, <1>4 DEF GBP!ValuesOK
  <2>2. GBP!WorkLeft'
    BY <1>1, <1>4 DEF GBP!TypeInv, GBP!WorkLeft
  <2>3. gPc' = [v \in GbThreads |-> gPc'[v]]
    BY <1>4
  <2>. QED  BY <2>1, <2>2, <2>3 DEF GBP!TypeInv
<1>6. \A i \in DOMAIN GbSave : GbSave[i] \in GbThreads /\ (GbSave[i] = "gbcpu" <=> i = 1)
  BY DEF GbSave, GbThreads
<1>7. gTurn \in DOMAIN GbSave /\ (gPhase = "await" => gTurn = 1) /\ gPhase \in {"run", "await"}
  <2>1. gTurn \in DOMAIN GbSave /\ gPhase \in GBP!Phases /\ GBP!HostRuns
    BY <1>1 DEF GBP!ValuesOK, GBP!SaveInv
  <2>2. gPhase \in {"run", "await"}
    BY <1>2, <2>1 DEF GBP!HostRuns, GBP!Phases
  <2>3. gPhase = "await" /\ gTurn # 1 => GbSave[gTurn] = "gbcpu"
    BY <1>1, <1>2 DEF GBP!SaveInv, GBP!ModeOfCall
  <2>. QED  BY <1>6, <2>1, <2>2, <2>3
<1>8. GBP!MasterIsPrimary'
  <2>1. gGen'["gbcpu"] = gGen["gbcpu"]
    BY <1>4 DEF GbThreads
  <2>. QED  BY <1>1, <1>3, <2>1 DEF GBP!SaveInv, GBP!MasterIsPrimary, GBP!Handle
<1>9. GBP!HostRuns' /\ GBP!SafePoint' /\ GBP!ParkedAtTop' /\ GBP!ModeOfCall'
  BY <1>1, <1>2, <1>3, <1>7 DEF GBP!SaveInv, GBP!HostRuns, GBP!SafePoint, GBP!ParkedAtTop, GBP!ModeOfCall
<1>10. GBP!EarlierAtTop'
  BY <1>1, <1>3, <1>4, <1>6 DEF GBP!SaveInv, GBP!EarlierAtTop, GBP!AtTop
<1>11. GBP!HandleLives' /\ GBP!SwitchIsValid'
  BY <1>2, <1>3 DEF InnerInv, GBP!HandleLives, GBP!SwitchIsValid
<1>. QED  BY <1>4, <1>5, <1>8, <1>9, <1>10, <1>11 DEF InnerInv, GBP!SaveInv


\* Its scheduler does not know what an interrupt ends, and nothing happens to it while the
\* Super Famicom's threads run.
LEMMA InnerKept ==
  ASSUME InnerInv,
         UNCHANGED << gActive, gMode, gEvent, gResume, gMaster, gGen, gClock, gScalar, gPc, gWork,
                      gPeer, gLine, gStall, gPhase, gTurn, gFresh >>,
         gStopped' \in [GbThreads -> BOOLEAN]
  PROVE  InnerInv'
<1>1. GBP!TypeInv'
  BY DEF InnerInv, GBP!SaveInv, GBP!TypeInv, GBP!ValuesOK, GBP!WorkLeft
<1>2. /\ GBP!MasterIsPrimary' /\ GBP!HostRuns' /\ GBP!ModeOfCall' /\ GBP!ParkedAtTop'
      /\ GBP!EarlierAtTop' /\ GBP!SafePoint'
  BY DEF InnerInv, GBP!SaveInv, GBP!MasterIsPrimary, GBP!Handle, GBP!HostRuns, GBP!ModeOfCall,
         GBP!ParkedAtTop, GBP!EarlierAtTop, GBP!SafePoint, GBP!AtTop
<1>. QED  BY <1>1, <1>2 DEF InnerInv, GBP!SaveInv, GBP!HandleLives, GBP!SwitchIsValid, GBP!Valid

LEMMA InnerStutter ==
  ASSUME InnerInv, UNCHANGED gSystem
  PROVE  InnerInv'
<1>1. gStopped \in [GbThreads -> BOOLEAN]
  BY DEF InnerInv, GBP!SaveInv, GBP!TypeInv, GBP!ValuesOK
<1>. QED  BY <1>1, InnerKept DEF gSystem

LEMMA InnerInterrupt ==
  ASSUME InnerInv, GbInterrupt
  PROVE  InnerInv'
<1>1. gStopped \in [GbThreads -> BOOLEAN]
  BY DEF InnerInv, GBP!SaveInv, GBP!TypeInv, GBP!ValuesOK
<1>2. gStopped' \in [GbThreads -> BOOLEAN]
  BY <1>1 DEF GbInterrupt
<1>. QED  BY <1>2, InnerKept DEF GbInterrupt

\* The ICD2 calls runToSave(), and it returns.
LEMMA InnerSaves ==
  ASSUME InnerInv, IcdSaves, gPhase = "idle"
  PROVE  InnerInv'
<1>1. /\ gPhase' = "synchronize" /\ gTurn' = 1 /\ gActive = "icd2"
      /\ UNCHANGED << gActive, gMode, gEvent, gResume, gMaster, gGen, gClock, gScalar, gPc, gWork,
                      gPeer, gLine, gStopped, gStall, gFresh >>
  BY DEF IcdSaves
<1>2. 1 \in DOMAIN GbSave /\ \A i \in DOMAIN GbSave : ~ (i < 1)
  BY DEF GbSave
<1>3. GBP!TypeInv'
  BY <1>1, <1>2 DEF InnerInv, GBP!SaveInv, GBP!TypeInv, GBP!ValuesOK, GBP!WorkLeft, GBP!Phases
<1>4. /\ GBP!MasterIsPrimary' /\ GBP!HostRuns' /\ GBP!ModeOfCall' /\ GBP!ParkedAtTop'
      /\ GBP!EarlierAtTop' /\ GBP!SafePoint'
  BY <1>1, <1>2 DEF InnerInv, GBP!SaveInv, GBP!MasterIsPrimary, GBP!Handle, GBP!HostRuns,
                    GBP!ModeOfCall, GBP!ParkedAtTop, GBP!EarlierAtTop, GBP!SafePoint
<1>. QED  BY <1>1, <1>3, <1>4 DEF InnerInv, GBP!SaveInv, GBP!HandleLives, GBP!SwitchIsValid, GBP!Valid

LEMMA InnerParks ==
  ASSUME InnerInv, IcdParks
  PROVE  InnerInv'
<1>1. /\ gPhase = "saved" /\ gPhase' = "idle"
      /\ UNCHANGED << gActive, gMode, gEvent, gResume, gMaster, gGen, gClock, gScalar, gPc, gWork,
                      gPeer, gLine, gStopped, gStall, gTurn, gFresh >>
  BY DEF IcdParks
<1>2. GBP!TypeInv'
  BY <1>1 DEF InnerInv, GBP!SaveInv, GBP!TypeInv, GBP!ValuesOK, GBP!WorkLeft, GBP!Phases
<1>3. /\ GBP!MasterIsPrimary' /\ GBP!HostRuns' /\ GBP!ModeOfCall' /\ GBP!ParkedAtTop'
      /\ GBP!EarlierAtTop' /\ GBP!SafePoint'
  BY <1>1 DEF InnerInv, GBP!SaveInv, GBP!MasterIsPrimary, GBP!Handle, GBP!HostRuns,
              GBP!ModeOfCall, GBP!ParkedAtTop, GBP!EarlierAtTop, GBP!SafePoint
<1>. QED  BY <1>1, <1>2, <1>3 DEF InnerInv, GBP!SaveInv, GBP!HandleLives, GBP!SwitchIsValid, GBP!Valid

\* A load creates its threads again, between the calls.
LEMMA InnerRestore ==
  ASSUME InnerInv, RestoreGameBoy, gPhase = "idle", gActive = "icd2"
  PROVE  InnerInv'
<1>1. /\ GBP!Create
      /\ UNCHANGED << gActive, gMode, gEvent, gClock, gLine, gStopped, gStall, gPhase, gTurn, gFresh >>
  BY SameHost DEF RestoreGameBoy
<1>2. /\ gGen' \in [GbThreads -> GbGens]
      /\ gResume' \in GbThreads \X GbGens /\ gMaster' \in GbThreads \X GbGens
      /\ gScalar' \in [GbThreads -> Nat] /\ gPc' = [v \in GbThreads |-> gPc'[v]]
      /\ gWork' \in [GbThreads -> Nat]
      /\ gPeer' \in [GbThreads -> Nat] /\ \A t \in GbThreads : gPeer'[t] \in DOMAIN GbPeers[t]
      /\ \A t \in GbThreads : gPc'[t] = "top"
  BY <1>1, InnerAssumptions, GBP!CreateType
<1>3. GBP!TypeInv'
  BY <1>1, <1>2 DEF InnerInv, GBP!SaveInv, GBP!TypeInv, GBP!ValuesOK, GBP!WorkLeft
<1>4. GBP!MasterIsPrimary' /\ GBP!Valid(gResume)'
  BY <1>1 DEF GBP!Create, GBP!MasterIsPrimary, GBP!Handle, GBP!Valid, GbThreads
<1>5. /\ GBP!HostRuns' /\ GBP!ModeOfCall' /\ GBP!ParkedAtTop' /\ GBP!EarlierAtTop' /\ GBP!SafePoint'
  BY <1>1 DEF GBP!HostRuns, GBP!ModeOfCall, GBP!ParkedAtTop, GBP!EarlierAtTop, GBP!SafePoint
<1>6. gPc' \in [GbThreads -> Points]
  <2>1. "top" \in Points
    BY DEF Points
  <2>. QED  BY <1>2, <2>1
<1>. QED  BY <1>1, <1>3, <1>4, <1>5, <1>6 DEF InnerInv, GBP!SaveInv, GBP!HandleLives, GBP!SwitchIsValid


LEMMA GbInner ==
  ASSUME InnerInv, GbCode \/ WriteLCDC \/ GbInterrupt
  PROVE  InnerInv'
<1>1. {"gbcpu", "gbppu", "gbapu"} = GbThreads
  BY DEF GbThreads
<1>2. CASE GbCpuStepEnds
  BY <1>1, <1>2, InnerExit DEF GbCpuStepEnds
<1>3. CASE GbPpuBlankEnds
  BY <1>1, <1>3, InnerExit DEF GbPpuBlankEnds
<1>4. CASE GbCpuClock \/ GbCpuOther \/ GbPpuBegin \/ GbPpuOther \/ GbApu
  <2>1. \E t \in GbThreads : GB!ThreadStep(t)
    BY <1>1, <1>4 DEF GbCpuClock, GbCpuOther, GbPpuBegin, GbPpuOther, GbApu, GB!ThreadStep
  <2>. QED  BY <2>1, InnerThread
<1>. QED  BY <1>2, <1>3, <1>4, InnerWriteLCDC, InnerInterrupt DEF GbCode

-----------------------------------------------------------------------------
(* The clocks of an instruction *)

\* A thread stops itself alone, and none pulls the CPU's RDY line.
LEMMA StopsItself ==
  ASSUME InnerInv, NEW t \in GbThreads, GB!ThreadStep(t)
  PROVE  gStall' = gStall /\ \A u \in GbThreads : u # t => gStopped'[u] = gStopped[u]
<1>1. gStopped \in [GbThreads -> BOOLEAN]
  BY DEF InnerInv, GBP!SaveInv, GBP!TypeInv, GBP!ValuesOK
<1>2. CASE GB!Begin(t)
  <2>1. \E s : gStopped' = [gStopped EXCEPT ![t] = s]
    BY <1>2 DEF GB!Begin
  <2>2. gStall' = gStall
    BY <1>2 DEF GB!Begin, GB!FetchSample
  <2>. QED  BY <1>1, <2>1, <2>2
<1>3. CASE GB!Park(t) \/ GB!Pass(t) \/ GB!Step(t) \/ GB!Synchronize(t) \/ GB!Scanline(t)
  BY <1>3 DEF GB!Park, GB!Pass, GB!Step, GB!Synchronize, GB!Scanline, GB!cpu
<1>. QED  BY <1>2, <1>3 DEF GB!ThreadStep

\* The invariant speaks of the CPU alone.
LEMMA OwedKept ==
  ASSUME OwedInv, owed' = owed, gStall'["gbcpu"] = gStall["gbcpu"], gPc'["gbcpu"] = gPc["gbcpu"],
         gWork'["gbcpu"] = gWork["gbcpu"], gStopped'["gbcpu"] = gStopped["gbcpu"]
  PROVE  OwedInv'
BY DEF OwedInv

LEMMA OtherOwed ==
  ASSUME InnerInv, OwedInv, owed' = owed, NEW t \in GbThreads, t # "gbcpu", GB!ThreadStep(t)
  PROVE  OwedInv'
<1>1. "gbcpu" \in GbThreads
  BY DEF GbThreads
<1>. QED  BY <1>1, InnerThread, StopsItself, OwedKept

\* The end of CPU::step() leaves whole steps of the instruction.
LEMMA WholeSteps ==
  ASSUME NEW w \in Nat
  PROVE  (w + StepClocks) % StepClocks = w % StepClocks
<1>1. StepClocks \in Nat \ {0} /\ StepClocks \in Int /\ w \in Int
  BY CountsAssumption
<1>2. ((StepClocks % StepClocks) + w) % StepClocks = (StepClocks + w) % StepClocks
  BY <1>1, ModAdd
<1>3. StepClocks % StepClocks = 0
  BY <1>1
<1>. QED  BY <1>1, <1>2, <1>3

LEMMA CpuFacts ==
  ASSUME InnerInv
  PROVE  /\ StepClocks \in Nat \ {0} /\ "gbcpu" \in GbThreads
         /\ gPc \in [GbThreads -> Points] /\ gWork \in [GbThreads -> Nat]
         /\ gStopped \in [GbThreads -> BOOLEAN]
         /\ gPc["gbcpu"] = "step" => gWork["gbcpu"] # 0
BY CountsAssumption DEF InnerInv, GBP!SaveInv, GBP!TypeInv, GBP!ValuesOK, GBP!WorkLeft, GbThreads

LEMMA ClockOwed ==
  ASSUME InnerInv, OwedInv, GbCpuClock
  PROVE  OwedInv'
<1>1. /\ gPc["gbcpu"] = "step" /\ owed' = owed + 1 /\ owed # StepClocks
      /\ gPc' = [gPc EXCEPT !["gbcpu"] = "peer"] /\ UNCHANGED << gStopped, gStall >>
      /\ gWork' = [gWork EXCEPT !["gbcpu"] = IF GB!Spinning("gbcpu") THEN @ ELSE @ - 1]
  BY DEF GbCpuClock, StepDone, GB!Step, GB!cpu
<1>2. GB!Spinning("gbcpu") <=> gStopped["gbcpu"]
  BY DEF OwedInv, GB!Spinning
<1>3. owed' \in 0 .. StepClocks
  BY <1>1, CpuFacts DEF OwedInv
<1>4. CASE gStopped["gbcpu"]
  BY <1>1, <1>2, <1>3, <1>4, CpuFacts DEF OwedInv
<1>5. CASE ~gStopped["gbcpu"]
  <2>1. gWork'["gbcpu"] = gWork["gbcpu"] - 1 /\ gPc'["gbcpu"] = "peer"
    BY <1>1, <1>2, <1>5, CpuFacts
  <2>2. gWork'["gbcpu"] + owed' = gWork["gbcpu"] + owed
    BY <1>1, <2>1, CpuFacts DEF OwedInv
  <2>3. (gWork["gbcpu"] + owed) % StepClocks = 0
    BY <1>1, <1>5 DEF OwedInv
  <2>. QED  BY <1>1, <1>3, <1>5, <2>1, <2>2, <2>3 DEF OwedInv
<1>. QED  BY <1>4, <1>5

LEMMA CpuOwed ==
  ASSUME InnerInv, OwedInv, GbCpuOther
  PROVE  OwedInv'
<1>1. owed' = owed /\ (gPc["gbcpu"] # "peer" => owed # StepClocks)
  BY DEF GbCpuOther, gExtra, StepDone
<1>2. CASE GB!Park("gbcpu") \/ GB!Pass("gbcpu")
  BY <1>1, <1>2, CpuFacts DEF GB!Park, GB!Pass, GB!cpu, OwedInv
<1>3. CASE GB!Begin("gbcpu")
  <2>1. /\ gPc["gbcpu"] = "main" /\ owed = 0 /\ gStall' = gStall
        /\ gPc' = [gPc EXCEPT !["gbcpu"] = "step"]
    BY <1>1, <1>3 DEF GB!Begin, GB!FetchSample, OwedInv
  <2>2. PICK n \in GbBodies["gbcpu"] : gWork' = [gWork EXCEPT !["gbcpu"] = n]
    BY <1>3 DEF GB!Begin
  <2>3. n \in Nat \ {0} /\ n % StepClocks = 0 /\ n + 0 = n
    BY <2>2, CpuFacts, GameBoyAssumption DEF GameBoyAssumption
  <2>4. gPc'["gbcpu"] = "step" /\ gWork'["gbcpu"] = n
    BY <2>1, <2>2, CpuFacts
  <2>. QED  BY <1>1, <2>1, <2>3, <2>4 DEF OwedInv
<1>4. CASE GB!Synchronize("gbcpu")
  <2>1. /\ gPc["gbcpu"] = "peer" /\ UNCHANGED << gWork, gStopped, gStall >>
        /\ \/ gPc'["gbcpu"] = "peer"
           \/ gPc'["gbcpu"] = "step"
           \/ gPc'["gbcpu"] = "top" /\ ~(gWork["gbcpu"] > 0)
    BY <1>4, CpuFacts DEF GB!Synchronize, GB!AfterBody, GB!cpu
  <2>2. ~(gWork["gbcpu"] > 0) => gWork["gbcpu"] = 0 /\ gWork["gbcpu"] + owed = owed
    BY CpuFacts DEF OwedInv
  <2>3. CASE gPc'["gbcpu"] \in {"peer", "step"}
    BY <1>1, <2>1, <2>3 DEF OwedInv
  <2>4. CASE gPc'["gbcpu"] = "top" /\ ~(gWork["gbcpu"] > 0)
    <3>1. ~gStopped["gbcpu"] /\ owed % StepClocks = 0
      BY <2>1, <2>2, <2>4 DEF OwedInv
    <3>2. owed \in {0, StepClocks}
      <4>1. owed < StepClocks => owed % StepClocks = owed
        BY CpuFacts DEF OwedInv
      <4>. QED  BY <3>1, <4>1, CpuFacts DEF OwedInv
    <3>. QED  BY <1>1, <2>1, <2>4, <3>1, <3>2 DEF OwedInv
  <2>. QED  BY <2>1, <2>3, <2>4
<1>. QED  BY <1>2, <1>3, <1>4 DEF GbCpuOther


LEMMA StepEndsOwed ==
  ASSUME InnerInv, OwedInv, GbCpuStepEnds
  PROVE  OwedInv'
<1>1. /\ owed = StepClocks /\ owed' = 0 /\ gPc["gbcpu"] # "peer"
      /\ UNCHANGED << gPc, gWork, gStopped, gStall >>
  BY DEF GbCpuStepEnds, StepDone
<1>2. 0 \in 0 .. StepClocks /\ gWork["gbcpu"] \in Nat /\ gWork["gbcpu"] + 0 = gWork["gbcpu"]
  BY CpuFacts
<1>3. (gWork["gbcpu"] + owed) % StepClocks = gWork["gbcpu"] % StepClocks
  BY <1>1, <1>2, WholeSteps
<1>. QED  BY <1>1, <1>2, <1>3 DEF OwedInv

LEMMA InterruptOwed ==
  ASSUME InnerInv, OwedInv, GbInterrupt
  PROVE  OwedInv'
<1>1. /\ owed = StepClocks /\ gStopped["gbcpu"]
      /\ gStopped' = [gStopped EXCEPT !["gbcpu"] = FALSE]
      /\ UNCHANGED << owed, gPc, gWork, gStall >>
  BY DEF GbInterrupt, StepDone, gExtra
<1>2. gWork["gbcpu"] \in Nat /\ ~gStopped'["gbcpu"]
  BY <1>1, CpuFacts
<1>3. (gWork["gbcpu"] + owed) % StepClocks = 0
  BY <1>1, <1>2, WholeSteps DEF OwedInv
<1>. QED  BY <1>1, <1>2, <1>3 DEF OwedInv

LEMMA GbOwed ==
  ASSUME InnerInv, OwedInv, GbCode \/ WriteLCDC \/ GbInterrupt
  PROVE  OwedInv'
<1>1. GbThreads = {"gbcpu", "gbppu", "gbapu"}
  BY DEF GbThreads
<1>2. CASE GbPpuBegin \/ GbPpuOther \/ GbApu
  <2>1. owed' = owed
    BY <1>2 DEF GbPpuBegin, GbPpuOther, GbApu, gExtra
  <2>2. GB!ThreadStep("gbppu") \/ GB!ThreadStep("gbapu")
    BY <1>2 DEF GbPpuBegin, GbPpuOther, GbApu, GB!ThreadStep
  <2>. QED  BY <1>1, <2>1, <2>2, OtherOwed
<1>3. CASE GbPpuBlankEnds
  <2>1. gPc'["gbcpu"] = gPc["gbcpu"]
    BY <1>3, CpuFacts DEF GbPpuBlankEnds
  <2>. QED  BY <1>3, <2>1, OwedKept DEF GbPpuBlankEnds
<1>4. CASE WriteLCDC
  <2>1. gPc'["gbcpu"] = gPc["gbcpu"] /\ gWork'["gbcpu"] = gWork["gbcpu"]
    BY <1>4, CpuFacts DEF WriteLCDC
  <2>. QED  BY <1>4, <2>1, OwedKept DEF WriteLCDC
<1>. QED  BY <1>2, <1>3, <1>4, ClockOwed, CpuOwed, StepEndsOwed, InterruptOwed DEF GbCode

\* It is kept by a power cycle, and by a load if the CPU was at the top of its loop.
LEMMA PowerOwed ==
  ASSUME GbPower_
  PROVE  OwedInv'
<1>1. /\ gPc' = [t \in GbThreads |-> "top"] /\ gStopped' = [t \in GbThreads |-> FALSE]
      /\ gStall' = [t \in GbThreads |-> 0] /\ owed' = 0
  BY DEF GbPower_, GB!Power, GB!Create
<1>. QED  BY <1>1, CountsAssumption DEF OwedInv, GbThreads

LEMMA RestoreOwed ==
  ASSUME OwedInv, RestoreGameBoy, GB!AtTop("gbcpu"), owed = 0
  PROVE  OwedInv'
<1>1. gPc' = [t \in GbThreads |-> "top"] /\ owed' = owed /\ UNCHANGED << gStopped, gStall >>
  BY DEF RestoreGameBoy, GB!Create, gExtra
<1>. QED  BY <1>1 DEF OwedInv, GB!AtTop, GbThreads

-----------------------------------------------------------------------------
(* The Game Boy's safe point *)

\* Its CPU gives the state up between two steps, and runs no more.
LEMMA GbParked ==
  ASSUME InnerInv, OwedInv, OwedParked, GbCode \/ WriteLCDC \/ GbInterrupt
  PROVE  OwedParked'
<1>1. /\ GBP!SaveInv /\ GBP!TypeInv /\ "gbcpu" \in GbThreads /\ "icd2" \notin GbThreads
      /\ GbThreads = {"gbcpu", "gbppu", "gbapu"}
      /\ GbSave[1] = "gbcpu" /\ \A i \in DOMAIN GbSave : GbSave[i] = "gbcpu" => i = 1
  BY DEF InnerInv, GBP!SaveInv, GbThreads, GbSave
<1>2. /\ gActive \in GbThreads /\ UNCHANGED << gPhase, gTurn, gMode >>
      /\ gActive # "gbcpu" => owed' = owed
  <2>1. CASE GbCpuStepEnds \/ WriteLCDC \/ GbInterrupt \/ GbPpuBlankEnds
    BY <1>1, <2>1 DEF GbCpuStepEnds, WriteLCDC, GbInterrupt, GbPpuBlankEnds
  <2>2. CASE GbCpuClock \/ GbCpuOther \/ GbPpuBegin \/ GbPpuOther \/ GbApu
    <3>1. \E t \in GbThreads : GB!ThreadStep(t) /\ (t # "gbcpu" => owed' = owed)
      BY <1>1, <2>2 DEF GbCpuClock, GbCpuOther, GbPpuBegin, GbPpuOther, GbApu, gExtra, GB!ThreadStep
    <3>. QED  BY <3>1, InnerThread
  <2>. QED  BY <2>1, <2>2 DEF GbCode
<1>3. gPhase \in {"run", "await"} /\ gTurn \in DOMAIN GbSave
  <2>1. gActive # "icd2" /\ gPhase \in GBP!Phases /\ GBP!HostRuns /\ gTurn \in DOMAIN GbSave
    BY <1>1, <1>2 DEF GBP!SaveInv, GBP!TypeInv, GBP!ValuesOK
  <2>. QED  BY <2>1 DEF GBP!HostRuns, GBP!Phases
<1>4. gPhase = "await" /\ gTurn # 1 => owed = 0 /\ owed' = 0
  <2>. SUFFICES ASSUME gPhase = "await", gTurn # 1
                PROVE  gActive # "gbcpu" /\ owed = 0
    BY <1>2
  <2>1. gActive = GbSave[gTurn]
    BY <1>1, <1>2 DEF GBP!SaveInv, GBP!ModeOfCall
  <2>. QED  BY <1>1, <1>3, <2>1 DEF OwedParked
<1>5. ASSUME gPhase = "await", gTurn = 1, gActive' = "icd2", gEvent' = "Synchronize"
      PROVE  owed' = 0
  <2>1. GBP!Park("gbcpu") /\ GbCpuOther
    <3>1. ASSUME NEW t \in GbThreads, GB!ThreadStep(t)
          PROVE  t = "gbcpu" /\ GBP!Park(t)
      <4>1. GBP!Park(t)
        <5>1. GBP!ThreadStep(t)
          BY <3>1, SameThread
        <5>2. \/ GBP!Park(t)
              \/ GBP!Exit(t, "Frame")
              \/ gActive' # "icd2"
          BY <1>1, <5>1, InnerAssumptions, GBP!ThreadSwitch
        <5>. QED  BY <1>5, <5>2 DEF GBP!Exit
      <4>2. gMode = "SynchronizeMaster" /\ gMode = GBP!SyncMode(t)
        BY <1>1, <1>5, <4>1 DEF GBP!Park, GBP!SaveInv, GBP!ModeOfCall
      <4>3. GBP!Handle(t) = GBP!Handle("gbcpu")
        BY <1>1, <4>2 DEF GBP!SyncMode, GBP!SaveInv, GBP!MasterIsPrimary
      <4>. QED  BY <4>1, <4>3 DEF GBP!Handle
    <3>2. ~ (GbCpuStepEnds \/ GbPpuBlankEnds)
      BY <1>5 DEF GbCpuStepEnds, GbPpuBlankEnds, GB!Exit
    <3>3. ~ (WriteLCDC \/ GbInterrupt)
      BY <1>5 DEF WriteLCDC, GbInterrupt
    <3>4. ~ (GbPpuBegin \/ GbPpuOther \/ GbApu)
      BY <1>1, <3>1 DEF GbPpuBegin, GbPpuOther, GbApu, GB!ThreadStep
    <3>5. ~ GbCpuClock
      <4>1. GbCpuClock => GB!ThreadStep("gbcpu") /\ gPc["gbcpu"] = "step"
        BY DEF GbCpuClock, GB!ThreadStep, GB!Step
      <4>. QED  BY <1>1, <3>1, <4>1 DEF GBP!Park
    <3>6. GbCpuOther
      BY <3>2, <3>3, <3>4, <3>5 DEF GbCode
    <3>. QED  BY <1>1, <3>1, <3>6 DEF GbCpuOther, GB!ThreadStep
  <2>2. gPc["gbcpu"] = "top" /\ owed' = owed /\ owed # StepClocks
    BY <2>1 DEF GBP!Park, GbCpuOther, StepDone, gExtra
  <2>. QED  BY <2>2 DEF OwedInv
<1>. QED  BY <1>2, <1>3, <1>4, <1>5 DEF OwedParked


-----------------------------------------------------------------------------
(* The Super Famicom's scheduler *)

Places == Points \cup {"gbsave", "gbrun"}

LEMMA OuterThread ==
  ASSUME OuterInv, NEW t \in Threads, ThreadStep(t)
  PROVE  /\ OuterInv' /\ active = t
         /\ UNCHANGED << mode, phase, turn >>
         /\ \A u \in Threads : u # t => pc'[u] = pc[u]
         /\ pc'[t] \in Points
<1>1. SaveInv /\ TypeInv /\ pc \in [Threads -> Places]
  BY DEF OuterInv, SaveInv, Places
<1>2. SaveInv' /\ HandleLives' /\ SwitchIsValid'
  BY <1>1, ThreadSave, ThreadSwitchValid DEF OuterInv
<1>3. PICK p \in Points : pc' = [pc EXCEPT ![t] = p]
  <2>1. PICK p : pc' = [pc EXCEPT ![t] = p] /\ p \in Points
    BY <1>1 DEF ThreadStep, Park, Pass, Begin, Step, Synchronize, Scanline, AfterBody, Points
  <2>. QED  BY <2>1
<1>4. pc' \in [Threads -> Places] /\ pc'[t] \in Points
  <2>1. Points \subseteq Places
    BY DEF Places
  <2>. QED  BY <1>1, <1>3, <2>1
<1>5. /\ active = t
      /\ UNCHANGED << mode, phase, turn >>
      /\ \A u \in Threads : u # t => pc'[u] = pc[u]
  BY <1>1, ThreadStepFacts
<1>. QED  BY <1>2, <1>4, <1>5 DEF OuterInv, Places

LEMMA OuterHost ==
  ASSUME OuterInv,
         \/ RunReturns \/ SynchronizeThread \/ Reenter \/ Synchronized \/ Serialize
         \/ Run \/ Save \/ Unserialize \/ Power
  PROVE  /\ OuterInv' /\ active = Host /\ active # "icd2"
         /\ pc'["icd2"] \in {pc["icd2"], "top"}
<1>1. SaveInv /\ TypeInv /\ Next /\ "icd2" \in Threads
  BY IcdAssumption DEF OuterInv, SaveInv, Next, Proceed, IcdAssumption
<1>2. SaveInv' /\ HandleLives' /\ SwitchIsValid'
  BY <1>1, NextSave, HostSwitchValid DEF OuterInv
<1>3. UNCHANGED pc \/ pc' = [t \in Threads |-> "top"]
  BY DEF RunReturns, SynchronizeThread, Reenter, Synchronized, Serialize, Run, Save, Unserialize,
         Power, Create
<1>4. pc' \in [Threads -> Places]
  BY <1>3 DEF OuterInv, Places, Points
<1>5. active = Host /\ active # "icd2"
  BY <1>1, ThreadsAssumption
     DEF ThreadsAssumption, RunReturns, SynchronizeThread, Reenter, Synchronized, Serialize, Run,
         Save, Unserialize, Power
<1>. QED  BY <1>1, <1>2, <1>3, <1>4, <1>5 DEF OuterInv, Places

\* While the ICD2's cothread runs and the others are synchronized, it is its turn.
LEMMA IcdTurn ==
  ASSUME OuterInv, active = "icd2"
  PROVE  /\ phase \in {"run", "await"}
         /\ mode = "SynchronizeSlave" => phase = "await" /\ turn # 1
         /\ phase = "await" /\ turn # 1 => SaveOrder[turn] = "icd2"
         /\ turn \in DOMAIN SaveOrder /\ 1 \in DOMAIN SaveOrder /\ SaveOrder[1] = "cpu"
         /\ \A i \in DOMAIN SaveOrder : ~ (i < 1)
<1>1. SaveInv /\ TypeInv /\ "icd2" # Host
  BY ThreadsAssumption, IcdAssumption DEF ThreadsAssumption, IcdAssumption, OuterInv, SaveInv
<1>2. phase \in {"run", "await"}
  BY <1>1 DEF SaveInv, TypeInv, ValuesOK, HostRuns, Phases
<1>3. phase = "await" /\ turn # 1 => SaveOrder[turn] = "icd2"
  BY <1>1 DEF SaveInv, ModeOfCall
<1>4. mode = "SynchronizeSlave" => phase = "await" /\ turn # 1
  BY <1>1, <1>2 DEF SaveInv, ModeOfCall
<1>. QED  BY <1>1, <1>2, <1>3, <1>4, TurnType, IcdAssumption DEF IcdAssumption

\* The ICD2's cothread goes from one place to another, and its clock on.
LEMMA IcdMoves ==
  ASSUME OuterInv, active = "icd2",
         NEW p \in {"gbsave", "gbrun", "peer"}, pc' = [pc EXCEPT !["icd2"] = p],
         NEW c \in Nat, clock' = clock \/ clock' = [clock EXCEPT !["icd2"] = c],
         peer' = peer \/ peer' = [peer EXCEPT !["icd2"] = 1],
         UNCHANGED << active, sched, gen, scalar, work, line, cpu, host, fresh >>
  PROVE  OuterInv'
<1>1. /\ SaveInv /\ TypeInv /\ ValuesOK /\ "icd2" \in Threads /\ "icd2" # Host
      /\ pc \in [Threads -> Places] /\ p \in Places
  BY ThreadsAssumption, IcdAssumption
     DEF ThreadsAssumption, IcdAssumption, OuterInv, SaveInv, TypeInv, Places, Points
<1>2. UNCHANGED << active, mode, event, resume, master, gen, scalar, work, line, stopped, stall,
                   phase, turn, saves, fresh >>
  BY DEF sched, cpu, host
<1>3. pc' \in [Threads -> Places] /\ \A u \in Threads : u # "icd2" => pc'[u] = pc[u]
  BY <1>1
<1>4. ValuesOK'
  <2>1. clock' \in [Threads -> Nat]
    BY <1>1 DEF ValuesOK
  <2>2. \A t \in Threads : peer'[t] \in DOMAIN Peers[t]
    <3>1. 1 \in DOMAIN Peers["icd2"]
      BY IcdAssumption DEF IcdAssumption
    <3>2. \A t \in Threads : peer[t] \in DOMAIN Peers[t]
      BY <1>1 DEF ValuesOK
    <3>3. CASE peer' = [peer EXCEPT !["icd2"] = 1]
      <4>1. ASSUME NEW t \in Threads
            PROVE  peer'[t] = peer[t] \/ (t = "icd2" /\ peer'[t] = 1)
        BY <3>3
      <4>. QED  BY <3>1, <3>2, <4>1
    <3>. QED  BY <3>2, <3>3
  <2>. QED  BY <1>1, <1>2, <2>1, <2>2 DEF ValuesOK
<1>5. TypeInv'
  <2>1. WorkLeft'
    BY <1>1, <1>2, <1>3 DEF TypeInv, WorkLeft
  <2>2. pc' = [v \in Threads |-> pc'[v]]
    BY <1>3
  <2>. QED  BY <1>4, <2>1, <2>2 DEF TypeInv
<1>6. MasterIsPrimary' /\ HostRuns' /\ ModeOfCall' /\ ParkedAtTop' /\ SafePoint'
  BY <1>1, <1>2, IcdTurn DEF SaveInv, MasterIsPrimary, Handle, HostRuns, ModeOfCall, ParkedAtTop, SafePoint
<1>7. EarlierAtTop'
  <2>. SUFFICES ASSUME phase = "await", NEW i \in DOMAIN SaveOrder, i < turn, SaveOrder[i] # SaveOrder[turn]
                PROVE  AtTop(SaveOrder[i])'
    BY <1>2, IcdTurn DEF EarlierAtTop
  <2>1. AtTop(SaveOrder[i])
    BY <1>1 DEF SaveInv, EarlierAtTop
  <2>2. turn # 1 /\ SaveOrder[turn] = "icd2"
    BY IcdTurn
  <2>3. SaveOrder[i] \in Threads
    BY <1>1, TurnType
  <2>. QED  BY <1>3, <2>1, <2>2, <2>3 DEF AtTop
<1>8. HandleLives' /\ SwitchIsValid'
  BY <1>2 DEF OuterInv, HandleLives, SwitchIsValid, Valid
<1>. QED  BY <1>3, <1>5, <1>6, <1>7, <1>8 DEF OuterInv, SaveInv, Places


\* It gives its state up when it is synchronized.
LEMMA OuterParks ==
  ASSUME OuterInv, IcdParks, mode = "SynchronizeSlave"
  PROVE  OuterInv'
<1>1. /\ SaveInv /\ TypeInv /\ ValuesOK /\ "icd2" \in Threads /\ "icd2" # Host /\ active = "icd2"
      /\ pc \in [Threads -> Places] /\ "main" \in Places /\ Nowhere # Host
  BY ThreadsAssumption, IcdAssumption
     DEF ThreadsAssumption, IcdAssumption, OuterInv, SaveInv, TypeInv, Places, Points, IcdParks
<1>2. /\ pc' = [pc EXCEPT !["icd2"] = "main"]
      /\ UNCHANGED << mode, master, gen, scalar, work, peer, line, stopped, stall, phase, turn, saves, fresh >>
  BY DEF IcdParks, cpu, host
<1>3. /\ clock' \in [Threads -> Nat] /\ event' = "Synchronize"
      /\ resume' = Handle("icd2") /\ resume' \in Threads \X Gens /\ active' = Host
  BY <1>1, ExitType DEF IcdParks
<1>4. /\ pc' \in [Threads -> Places] /\ pc'["icd2"] = "main"
      /\ \A u \in Threads : u # "icd2" => pc'[u] = pc[u]
  BY <1>1, <1>2
<1>5. TypeInv'
  <2>1. ValuesOK'
    BY <1>1, <1>2, <1>3 DEF ValuesOK
  <2>2. WorkLeft'
    BY <1>1, <1>2, <1>4 DEF TypeInv, WorkLeft
  <2>3. pc' = [v \in Threads |-> pc'[v]]
    BY <1>4
  <2>. QED  BY <2>1, <2>2, <2>3 DEF TypeInv
<1>6. phase = "await" /\ turn # 1 /\ SaveOrder[turn] = "icd2"
  BY <1>1, IcdTurn DEF IcdParks
<1>7. /\ MasterIsPrimary' /\ HostRuns' /\ ModeOfCall' /\ ParkedAtTop' /\ SafePoint'
  BY <1>1, <1>2, <1>3, <1>4, <1>6
     DEF SaveInv, MasterIsPrimary, Handle, HostRuns, ModeOfCall, ParkedAtTop, AtTop, SafePoint
<1>8. EarlierAtTop'
  <2>1. \A i \in DOMAIN SaveOrder : SaveOrder[i] \in Threads
    BY <1>1, TurnType
  <2>. QED  BY <1>1, <1>2, <1>4, <1>6, <2>1 DEF SaveInv, EarlierAtTop, AtTop
<1>9. HandleLives' /\ SwitchIsValid'
  <2>1. Valid(resume)'
    BY <1>2, <1>3 DEF Valid, Handle
  <2>. QED  BY <1>1, <1>3, <2>1 DEF HandleLives, SwitchIsValid
<1>. QED  BY <1>4, <1>5, <1>7, <1>8, <1>9 DEF OuterInv, SaveInv, Places

\* The CPU may create its thread again, but not while another is synchronized.
LEMMA OuterControl ==
  ASSUME OuterInv, WriteControl
  PROVE  /\ OuterInv' /\ UNCHANGED << active, mode, event, phase, turn >>
         /\ active = "cpu" /\ active # Host /\ phase \in {"run", "await"} /\ (phase = "await" => turn = 1)
         /\ \A u \in Threads : u # "icd2" => pc'[u] = pc[u]
         /\ pc'["icd2"] \in {pc["icd2"], "top"}
<1>1. /\ SaveInv /\ TypeInv /\ ValuesOK /\ "icd2" \in Threads /\ "cpu" # Host /\ active = "cpu"
      /\ pc \in [Threads -> Places] /\ "top" \in Places /\ Master = "cpu" /\ Master \in Threads
  BY ThreadsAssumption, IcdAssumption
     DEF ThreadsAssumption, IcdAssumption, OuterInv, SaveInv, TypeInv, Places, Points, WriteControl
<1>2. UNCHANGED << active, mode, event, resume, master, line, stopped, stall, phase, turn, saves, fresh >>
  BY DEF WriteControl, sched, cpu, host
<1>3. /\ gen' \in [Threads -> Gens] /\ clock' \in [Threads -> Nat] /\ work' \in [Threads -> Nat]
      /\ pc' \in [Threads -> Places]
      /\ peer' \in [Threads -> Nat] /\ \A t \in Threads : peer'[t] \in DOMAIN Peers[t]
      /\ \A u \in Threads : \/ pc'[u] = pc[u] /\ gen'[u] = gen[u] /\ work'[u] = work[u]
                            \/ u = "icd2" /\ pc'[u] = "top"
  <2>0. /\ gen \in [Threads -> Gens] /\ clock \in [Threads -> Nat] /\ work \in [Threads -> Nat]
        /\ pc \in [Threads -> Places]
        /\ peer \in [Threads -> Nat] /\ \A t \in Threads : peer[t] \in DOMAIN Peers[t]
    BY <1>1 DEF ValuesOK
  <2>1. CASE RestartIcd
    <3>1. PICK g \in Gens : gen' = [gen EXCEPT !["icd2"] = g]
      BY <2>1 DEF RestartIcd
    <3>2. /\ pc' = [pc EXCEPT !["icd2"] = "top"] /\ work' = [work EXCEPT !["icd2"] = 0]
          /\ peer' = [peer EXCEPT !["icd2"] = 1] /\ clock' = [clock EXCEPT !["icd2"] = 0]
      BY <2>1 DEF RestartIcd
    <3>3. peer' \in [Threads -> Nat] /\ \A t \in Threads : peer'[t] \in DOMAIN Peers[t]
      <4>1. 1 \in DOMAIN Peers["icd2"]
        BY IcdAssumption DEF IcdAssumption
      <4>2. peer' \in [Threads -> Nat]
        BY <2>0, <3>2
      <4>3. ASSUME NEW t \in Threads
            PROVE  peer'[t] = peer[t] \/ (t = "icd2" /\ peer'[t] = 1)
        BY <2>0, <3>2
      <4>. QED  BY <2>0, <4>1, <4>2, <4>3
    <3>. QED  BY <1>1, <2>0, <3>1, <3>2, <3>3
  <2>2. CASE UNCHANGED << gen, pc, work, peer, clock >>
    BY <2>0, <2>2
  <2>. QED  BY <2>1, <2>2 DEF WriteControl
<1>4. scalar' \in [Threads -> Nat]
  <2>1. PICK s \in Scalars["icd2"] : scalar' = [scalar EXCEPT !["icd2"] = s]
    BY DEF WriteControl
  <2>2. s \in Nat
    BY <1>1, <2>1, NumbersAssumption DEF NumbersAssumption
  <2>. QED  BY <1>1, <2>1, <2>2 DEF ValuesOK
<1>5. TypeInv'
  <2>1. ValuesOK'
    BY <1>1, <1>2, <1>3, <1>4 DEF ValuesOK
  <2>2. WorkLeft'
    BY <1>1, <1>3 DEF TypeInv, WorkLeft
  <2>3. pc' = [v \in Threads |-> pc'[v]]
    BY <1>3
  <2>. QED  BY <2>1, <2>2, <2>3 DEF TypeInv
<1>6. phase \in {"run", "await"} /\ (phase = "await" => turn = 1)
  <2>1. phase \in Phases /\ HostRuns /\ ModeOfCall
    BY <1>1 DEF ValuesOK, SaveInv
  <2>2. phase = "await" /\ turn # 1 => SaveOrder[turn] = Master
    BY <1>1, <2>1 DEF ModeOfCall
  <2>3. turn \in DOMAIN SaveOrder /\ (SaveOrder[turn] = Master <=> turn = 1)
    BY <1>1, TurnType, SaveOrderAssumption DEF SaveOrderAssumption
  <2>. QED  BY <1>1, <2>1, <2>2, <2>3 DEF HostRuns, Phases
<1>7. MasterIsPrimary'
  <2>1. gen'[Master] = gen[Master]
    BY <1>1, <1>3
  <2>. QED  BY <1>1, <1>2, <2>1 DEF SaveInv, MasterIsPrimary, Handle
<1>8. HostRuns' /\ ModeOfCall' /\ ParkedAtTop' /\ SafePoint'
  BY <1>1, <1>2, <1>6 DEF SaveInv, HostRuns, ModeOfCall, ParkedAtTop, SafePoint
<1>9. EarlierAtTop'
  <2>1. \A i \in DOMAIN SaveOrder : SaveOrder[i] \in Threads
    BY <1>1, TurnType
  <2>. QED  BY <1>1, <1>2, <1>3, <2>1 DEF SaveInv, EarlierAtTop, AtTop
<1>10. HandleLives' /\ SwitchIsValid'
  BY <1>1, <1>2 DEF OuterInv, HandleLives, SwitchIsValid
<1>. QED  BY <1>1, <1>2, <1>3, <1>5, <1>6, <1>7, <1>8, <1>9, <1>10 DEF OuterInv, SaveInv, Places

-----------------------------------------------------------------------------
(* One scheduler inside the other *)

\* While the ICD2's cothread runs there is nothing to show of the Game Boy's safe point.
LEMMA IcdQuiet ==
  ASSUME OuterInv, active = "icd2", UNCHANGED << active, phase, turn >>
  PROVE  QuietInv'
<1>1. "icd2" # Host
  BY ThreadsAssumption, IcdAssumption DEF ThreadsAssumption, IcdAssumption
<1>. QED  BY <1>1, IcdTurn DEF QuietInv

\* The safe point and the call are of the places, which others than its CPU keep.
LEMMA QuietKept ==
  ASSUME UNCHANGED gameboy
  PROVE  (Quiet' <=> Quiet) /\ UNCHANGED << gPhase, gTurn, gActive, gEvent, owed >> /\ UNCHANGED gSystem
BY DEF Quiet, gameboy, gSystem, gExtra, GB!AtTop

LEMMA StillKept ==
  ASSUME InnerInv, OwedInv, OwedParked, UNCHANGED gameboy
  PROVE  InnerInv' /\ OwedInv' /\ OwedParked'
<1>1. UNCHANGED gSystem /\ owed' = owed
  BY DEF gameboy, gExtra
<1>2. InnerInv'
  BY <1>1, InnerStutter
<1>3. OwedInv' /\ OwedParked'
  BY <1>1 DEF gSystem, OwedInv, OwedParked
<1>. QED  BY <1>2, <1>3

\* A cothread of the Super Famicom runs, and the ICD2's does not give its state up.
LEMMA NestedThread ==
  ASSUME NestedInv, NEW t \in Threads, ThreadStep(t), t # "icd2" \/ ~Park(t), UNCHANGED gameboy
  PROVE  NestedInv'
<1>1. /\ OuterInv /\ InnerInv /\ OwedInv /\ OwedParked /\ CallInv /\ QuietInv
      /\ SaveInv /\ TypeInv /\ t # Host /\ "icd2" \in Threads /\ pc[t] \in Points
  BY ThreadsAssumption, IcdAssumption
     DEF NestedInv, OuterInv, SaveInv, ThreadsAssumption, IcdAssumption, ThreadStep, Park, Pass,
         Begin, Step, Synchronize, Scanline, Points
<1>2. /\ OuterInv' /\ active = t /\ UNCHANGED << mode, phase, turn >>
      /\ \A u \in Threads : u # t => pc'[u] = pc[u]
      /\ pc'[t] \in Points
  BY <1>1, OuterThread
<1>3. InnerInv' /\ OwedInv' /\ OwedParked'
  BY <1>1, StillKept
<1>4. UNCHANGED << gPhase, gTurn, gActive, gEvent >> /\ (Quiet' <=> Quiet)
  BY QuietKept
<1>5. {"gbsave", "gbrun"} \cap Points = {} /\ pc["icd2"] \notin {"gbsave", "gbrun"}
  <2>1. {"gbsave", "gbrun"} \cap Points = {}
    BY DEF Points
  <2>. QED  BY <1>1, <1>2, <2>1 DEF CallInv
<1>6. CallInv'
  <2>1. pc'["icd2"] \notin {"gbsave", "gbrun"}
    BY <1>1, <1>2, <1>5
  <2>. QED  BY <1>1, <1>4, <1>5, <2>1 DEF CallInv
<1>7. phase \in {"run", "await"}
  <2>1. phase \in Phases /\ HostRuns
    BY <1>1 DEF SaveInv, TypeInv, ValuesOK
  <2>. QED  BY <1>1, <1>2, <2>1 DEF HostRuns, Phases
<1>8. ~ (phase = "await" /\ active' = Host /\ event' = "Synchronize" /\ SaveOrder[turn] = "icd2")
  <2>. SUFFICES ASSUME phase = "await", active' = Host, event' = "Synchronize", SaveOrder[turn] = "icd2"
                PROVE  FALSE
    OBVIOUS
  <2>1. Park(t)
    <3>1. Exit(t, "Frame") => event' # "Synchronize"
      BY DEF Exit
    <3>. QED  BY <1>1, <3>1, ThreadSwitch
  <2>2. turn # 1
    BY <1>1, TurnType, IcdAssumption DEF IcdAssumption
  <2>3. active \in {"icd2", Host}
    BY <1>1, <2>2 DEF SaveInv, ModeOfCall
  <2>. QED  BY <1>1, <1>2, <2>1, <2>3
<1>9. QuietInv'
  BY <1>1, <1>2, <1>4, <1>7, <1>8 DEF QuietInv
<1>. QED  BY <1>2, <1>3, <1>6, <1>9 DEF NestedInv

\* The program thread runs, and the Game Boy does not.
LEMMA HostQuiet ==
  ASSUME OuterInv, QuietInv, Quiet' <=> Quiet,
         RunReturns \/ SynchronizeThread \/ Reenter \/ Synchronized \/ Serialize \/ Run \/ Save
  PROVE  QuietInv'
<1>1. SaveInv /\ TypeInv /\ ValuesOK
  BY DEF OuterInv, SaveInv, TypeInv
<1>2. CASE RunReturns \/ Serialize \/ Run
  BY <1>2 DEF RunReturns, Serialize, Run, QuietInv
<1>3. CASE Save
  BY <1>1, <1>3, TurnType DEF Save, QuietInv
<1>4. ASSUME NEW m \in {"Run", "SynchronizeMaster", "SynchronizeSlave"}, NEW h \in Threads \X Gens,
             Enter(m, h)
      PROVE  active' # Host
  BY <1>4, EnterType, ThreadsAssumption DEF ThreadsAssumption
<1>5. resume \in Threads \X Gens /\ mode \in {"Run", "SynchronizeMaster", "SynchronizeSlave"}
  BY <1>1 DEF ValuesOK
<1>6. CASE SynchronizeThread
  <2>1. phase = "synchronize" /\ phase' = "await" /\ turn' = turn
    BY <1>6 DEF SynchronizeThread
  <2>2. active' # Host
    <3> DEFINE t == SaveOrder[turn]
    <3>1. Enter("SynchronizeMaster", resume) \/ Enter("SynchronizeSlave", Handle(t))
      BY <1>6 DEF SynchronizeThread
    <3>2. Handle(t) \in Threads \X Gens
      BY <1>1, TurnType, HandleType
    <3>. HIDE DEF t
    <3>. QED  BY <1>4, <1>5, <3>1, <3>2
  <2>. QED  BY <2>1, <2>2 DEF QuietInv
<1>7. CASE Reenter
  <2>1. phase = "await" /\ UNCHANGED << phase, turn >> /\ active' # Host
    BY <1>4, <1>5, <1>7 DEF Reenter, host
  <2>. QED  BY <2>1 DEF QuietInv
<1>8. CASE Synchronized
  <2>1. phase = "await" /\ active = Host /\ event = "Synchronize"
    BY <1>8 DEF Synchronized
  <2>2. ASSUME NEW i \in DOMAIN SaveOrder, i <= turn, SaveOrder[i] = "icd2"
        PROVE  Quiet
    <3>1. i < turn \/ i = turn
      BY <1>1, <2>2, TurnType
    <3>. QED  BY <2>1, <2>2, <3>1 DEF QuietInv
  <2>3. CASE turn = Len(SaveOrder)
    <3>1. PICK i \in DOMAIN SaveOrder : SaveOrder[i] = "icd2"
      BY IcdAssumption DEF IcdAssumption
    <3>2. Quiet
      BY <1>1, <2>2, <2>3, <3>1, TurnType
    <3>. QED  BY <1>8, <2>3, <3>2 DEF Synchronized, QuietInv
  <2>4. CASE turn # Len(SaveOrder)
    <3>1. phase' = "synchronize" /\ turn' = turn + 1
      BY <1>8, <2>4 DEF Synchronized
    <3>2. ASSUME NEW i \in DOMAIN SaveOrder, i < turn + 1
          PROVE  i <= turn
      BY <1>1, <3>2, TurnType
    <3>. QED  BY <2>2, <3>1, <3>2 DEF QuietInv
  <2>. QED  BY <2>3, <2>4
<1>. QED  BY <1>2, <1>3, <1>6, <1>7, <1>8

LEMMA NestedHost ==
  ASSUME NestedInv, UNCHANGED gameboy,
         RunReturns \/ SynchronizeThread \/ Reenter \/ Synchronized \/ Serialize \/ Run \/ Save
  PROVE  NestedInv'
<1>1. OuterInv /\ InnerInv /\ OwedInv /\ OwedParked /\ CallInv /\ QuietInv
  BY DEF NestedInv
<1>2. OuterInv' /\ active # "icd2" /\ pc'["icd2"] \in {pc["icd2"], "top"}
  BY <1>1, OuterHost
<1>3. InnerInv' /\ OwedInv' /\ OwedParked'
  BY <1>1, StillKept
<1>4. gPhase' = gPhase /\ (Quiet' <=> Quiet)
  BY QuietKept
<1>5. CallInv'
  BY <1>1, <1>2, <1>4 DEF CallInv
<1>6. QuietInv'
  BY <1>1, <1>4, HostQuiet
<1>. QED  BY <1>2, <1>3, <1>5, <1>6 DEF NestedInv

\* The threads of the Game Boy run, in the cothread of the ICD2.
LEMMA NestedGb ==
  ASSUME NestedInv, GbCode \/ WriteLCDC \/ GbInterrupt, UNCHANGED << vars, running >>
  PROVE  NestedInv'
<1>1. OuterInv /\ InnerInv /\ OwedInv /\ OwedParked /\ CallInv /\ QuietInv
  BY DEF NestedInv
<1>2. UNCHANGED << active, mode, event, phase, turn, pc, resume, gen >>
  BY DEF vars, sched, host
<1>3. OuterInv'
  <2>1. SaveInv'
    BY <1>1, NextSave DEF OuterInv
  <2>. QED  BY <1>1, <1>2, <2>1 DEF OuterInv, HandleLives, SwitchIsValid, Valid
<1>4. InnerInv' /\ OwedInv' /\ OwedParked'
  BY <1>1, GbInner, GbOwed, GbParked
<1>5. gActive \in GbThreads /\ gPhase' = gPhase
  <2>0. GbThreads = {"gbcpu", "gbppu", "gbapu"}
    BY DEF GbThreads
  <2>1. CASE GbCpuStepEnds \/ WriteLCDC \/ GbInterrupt \/ GbPpuBlankEnds
    BY <2>0, <2>1 DEF GbCpuStepEnds, WriteLCDC, GbInterrupt, GbPpuBlankEnds
  <2>2. CASE GbCpuClock \/ GbCpuOther \/ GbPpuBegin \/ GbPpuOther \/ GbApu
    <3>1. \E t \in GbThreads : GB!ThreadStep(t)
      BY <2>0, <2>2 DEF GbCpuClock, GbCpuOther, GbPpuBegin, GbPpuOther, GbApu, GB!ThreadStep
    <3>. QED  BY <1>1, <3>1, InnerThread
  <2>. QED  BY <2>1, <2>2 DEF GbCode
<1>6. gPhase # "idle" /\ active = "icd2"
  <2>1. "icd2" \notin GbThreads
    BY DEF GbThreads
  <2>2. gPhase # "idle"
    BY <1>1, <1>5, <2>1 DEF InnerInv, GBP!SaveInv, GBP!HostRuns
  <2>. QED  BY <1>1, <2>2 DEF CallInv
<1>7. CallInv' /\ QuietInv'
  BY <1>1, <1>2, <1>5, <1>6, IcdQuiet DEF CallInv
<1>. QED  BY <1>3, <1>4, <1>7 DEF NestedInv

\* The ICD2's cothread calls runToSave() of the Game Boy, and is in it.
LEMMA NestedSaves ==
  ASSUME NestedInv, IcdSaves
  PROVE  NestedInv'
<1>1. OuterInv /\ InnerInv /\ OwedInv /\ OwedParked /\ CallInv /\ QuietInv
  BY DEF NestedInv
<1>2. /\ active = "icd2" /\ pc["icd2"] = "top" /\ mode = "SynchronizeSlave"
      /\ pc' = [pc EXCEPT !["icd2"] = "gbsave"]
      /\ UNCHANGED << active, sched, gen, clock, scalar, work, peer, line, cpu, host, fresh >>
      /\ gPhase' = "synchronize" /\ gTurn' = 1
      /\ UNCHANGED << gPc, gWork, gStopped, gStall, owed >>
  BY DEF IcdSaves, synchronizing, gExtra
<1>3. OuterInv'
  <2>1. 0 \in Nat
    OBVIOUS
  <2>. QED  BY <1>1, <1>2, <2>1, IcdMoves
<1>4. InnerInv'
  BY <1>1, <1>2, InnerSaves DEF CallInv
<1>5. OwedInv' /\ OwedParked'
  BY <1>1, <1>2, OwedKept DEF OwedParked
<1>6. CallInv'
  <2>1. pc'["icd2"] = "gbsave"
    BY <1>1, <1>2, IcdAssumption DEF IcdAssumption, OuterInv
  <2>. QED  BY <1>2, <2>1 DEF CallInv, sched
<1>7. QuietInv'
  BY <1>1, <1>2, IcdQuiet DEF host
<1>. QED  BY <1>3, <1>4, <1>5, <1>6, <1>7 DEF NestedInv

LEMMA NestedProceeds ==
  ASSUME NestedInv, GbSaveProceeds
  PROVE  NestedInv'
<1>1. OuterInv /\ InnerInv /\ OwedInv /\ OwedParked /\ CallInv /\ QuietInv
  BY DEF NestedInv
<1>2. /\ pc["icd2"] = "gbsave" /\ active = "icd2" /\ owed' = owed
      /\ UNCHANGED << active, mode, event, phase, turn, pc, resume, gen >>
      /\ GBP!SynchronizeThread \/ GBP!Reenter \/ GBP!Synchronized
  BY <1>1, SameHost DEF GbSaveProceeds, CallInv, vars, sched, host, gExtra
<1>3. OuterInv'
  <2>1. SaveInv'
    BY <1>1, NextSave DEF OuterInv, GbSaveProceeds
  <2>. QED  BY <1>1, <1>2, <2>1 DEF OuterInv, HandleLives, SwitchIsValid, Valid
<1>4. InnerInv'
  BY <1>1, InnerHost DEF GbSaveProceeds
<1>5. OwedInv'
  <2>1. UNCHANGED << gPc, gWork, gStopped, gStall >>
    BY <1>2 DEF GBP!SynchronizeThread, GBP!Reenter, GBP!Synchronized, GBP!cpu
  <2>. QED  BY <1>1, <1>2, <2>1, OwedKept
<1>6. gPhase' \in {"await", "synchronize", "saved"} /\ CallInv'
  BY <1>1, <1>2 DEF CallInv, GBP!SynchronizeThread, GBP!Reenter, GBP!Synchronized, GBP!host
<1>7. ASSUME NEW m \in {"Run", "SynchronizeMaster", "SynchronizeSlave"}, NEW h \in GbThreads \X GbGens,
             GBP!Enter(m, h)
      PROVE  gActive' # "icd2"
  <2>1. Nowhere # "icd2" /\ "icd2" \notin GbThreads
    BY ThreadsAssumption, IcdAssumption DEF ThreadsAssumption, IcdAssumption, GbThreads
  <2>. QED  BY <1>7, <2>1, InnerAssumptions, GBP!EnterType
<1>8. GBP!SaveInv /\ GBP!TypeInv /\ GBP!ValuesOK
  BY <1>1 DEF InnerInv, GBP!SaveInv, GBP!TypeInv
<1>9. /\ gResume \in GbThreads \X GbGens
      /\ gMode \in {"Run", "SynchronizeMaster", "SynchronizeSlave"}
  BY <1>8 DEF GBP!ValuesOK
<1>10. ASSUME GBP!SynchronizeThread
      PROVE  OwedParked'
  <2>1. gPhase = "synchronize" /\ gTurn' = gTurn
    BY <1>10 DEF GBP!SynchronizeThread
  <2>2. gActive' # "icd2"
    <3> DEFINE t == GbSave[gTurn]
    <3>1. GBP!Enter("SynchronizeMaster", gResume) \/ GBP!Enter("SynchronizeSlave", GBP!Handle(t))
      BY <1>10 DEF GBP!SynchronizeThread
    <3>2. t \in GbThreads
      BY <1>8, InnerAssumptions, GBP!TurnType
    <3>. HIDE DEF t
    <3>3. GBP!Handle(t) \in GbThreads \X GbGens
      BY <1>8, <3>2, InnerAssumptions, GBP!HandleType
    <3>. QED  BY <1>7, <1>9, <3>1, <3>3
  <2>3. gPhase' = "await" /\ (gTurn # 1 => owed' = 0)
    BY <1>1, <1>2, <2>1, <1>10 DEF OwedParked, GBP!SynchronizeThread
  <2>. QED  BY <2>1, <2>2, <2>3 DEF OwedParked
<1>11. ASSUME GBP!Reenter
      PROVE  OwedParked'
  <2>1. gPhase = "await" /\ UNCHANGED << gPhase, gTurn >>
    BY <1>11 DEF GBP!Reenter, GBP!host
  <2>2. gActive' # "icd2"
    BY <1>7, <1>9, <1>11 DEF GBP!Reenter
  <2>3. gTurn # 1 => owed' = 0
    BY <1>1, <1>2, <2>1 DEF OwedParked
  <2>. QED  BY <2>1, <2>2, <2>3 DEF OwedParked
<1>12. ASSUME GBP!Synchronized
      PROVE  OwedParked'
  <2>1. gPhase = "await" /\ gActive = "icd2" /\ gEvent = "Synchronize"
    BY <1>12 DEF GBP!Synchronized
  <2>2. owed' = 0
    BY <1>1, <1>2, <2>1 DEF OwedParked
  <2>. QED  BY <2>2 DEF OwedParked
<1>13. OwedParked'
  <2>1. GBP!SynchronizeThread \/ GBP!Reenter \/ GBP!Synchronized
    BY <1>2
  <2>. QED  BY <2>1, <1>10, <1>11, <1>12
<1>14. QuietInv'
  BY <1>1, <1>2, IcdQuiet
<1>. QED  BY <1>3, <1>4, <1>5, <1>6, <1>13, <1>14 DEF NestedInv

\* It returns to the ICD2, which gives its state up: the Game Boy is at its safe point.
LEMMA NestedParks ==
  ASSUME NestedInv, IcdParks
  PROVE  NestedInv'
<1>1. OuterInv /\ InnerInv /\ OwedInv /\ OwedParked /\ CallInv /\ QuietInv
  BY DEF NestedInv
<1>2. /\ active = "icd2" /\ pc["icd2"] = "gbsave" /\ gPhase = "saved" /\ gPhase' = "idle"
      /\ pc' = [pc EXCEPT !["icd2"] = "main"]
      /\ UNCHANGED << mode, phase, turn, gActive, gEvent, gPc, gWork, gStopped, gStall, owed >>
  BY DEF IcdParks, host, gExtra
<1>3. mode = "SynchronizeSlave"
  BY <1>1, <1>2 DEF CallInv
<1>4. OuterInv' /\ InnerInv' /\ OwedInv'
  BY <1>1, <1>2, <1>3, OuterParks, InnerParks, OwedKept
<1>5. OwedParked'
  BY <1>2 DEF OwedParked
<1>6. CallInv'
  <2>1. pc'["icd2"] = "main"
    BY <1>1, <1>2, IcdAssumption DEF IcdAssumption, OuterInv
  <2>. QED  BY <1>2, <2>1 DEF CallInv
<1>7. Quiet
  <2>1. GBP!SaveInv
    BY <1>1 DEF InnerInv
  <2>2. \A i \in DOMAIN GbSave : GBP!AtTop(GbSave[i])
    BY <1>2, <2>1 DEF GBP!SaveInv, GBP!SafePoint
  <2>3. \A t \in GbThreads : \E i \in DOMAIN GbSave : GbSave[i] = t
    BY DEF GbSave, GbThreads
  <2>4. \A t \in GbThreads : GB!AtTop(t)
    BY <2>2, <2>3, SameThread
  <2>5. gActive = "icd2" /\ owed = 0
    BY <1>1, <1>2, <2>1 DEF GBP!SaveInv, GBP!HostRuns, OwedParked
  <2>. QED  BY <2>4, <2>5 DEF Quiet
<1>8. Quiet'
  BY <1>2, <1>7 DEF Quiet, GB!AtTop
<1>9. QuietInv'
  BY <1>8 DEF QuietInv
<1>. QED  BY <1>4, <1>5, <1>6, <1>9 DEF NestedInv

\* The ICD2's cothread calls run() of the Game Boy, and it returns.
LEMMA NestedRuns ==
  ASSUME NestedInv, IcdRuns
  PROVE  NestedInv'
<1>1. OuterInv /\ InnerInv /\ OwedInv /\ OwedParked /\ CallInv /\ QuietInv
  BY DEF NestedInv
<1>2. /\ active = "icd2" /\ pc["icd2"] = "main" /\ owed' = owed
      /\ pc' = [pc EXCEPT !["icd2"] = "gbrun"] /\ GB!Run
      /\ UNCHANGED << active, sched, gen, clock, scalar, work, peer, line, cpu, host, fresh >>
  BY DEF IcdRuns, gExtra
<1>3. gPhase' = "run" /\ UNCHANGED << gPc, gWork, gStopped, gStall >>
  BY <1>2 DEF GB!Run, GB!cpu
<1>4. OuterInv'
  <2>1. 0 \in Nat
    OBVIOUS
  <2>. QED  BY <1>1, <1>2, <2>1, IcdMoves
<1>5. InnerInv' /\ OwedInv' /\ OwedParked'
  BY <1>1, <1>2, <1>3, InnerHost, OwedKept DEF OwedParked
<1>6. CallInv'
  <2>1. pc'["icd2"] = "gbrun"
    BY <1>1, <1>2, IcdAssumption DEF IcdAssumption, OuterInv
  <2>. QED  BY <1>2, <1>3, <2>1 DEF CallInv
<1>7. QuietInv'
  BY <1>1, <1>2, IcdQuiet DEF host
<1>. QED  BY <1>4, <1>5, <1>6, <1>7 DEF NestedInv

\* The product of a clock and a scalar is a clock.
LEMMA ChargedClock ==
  ASSUME OuterInv, NEW n \in Nat
  PROVE  /\ (clock["icd2"] + scalar["icd2"] * n) % Width \in Nat
         /\ (clock["icd2"] + 2 * scalar["icd2"]) % Width \in Nat
<1>1. clock["icd2"] \in Nat /\ scalar["icd2"] \in Nat
  BY IcdAssumption DEF IcdAssumption, OuterInv, SaveInv, TypeInv, ValuesOK
<1>2. scalar["icd2"] * n \in Nat /\ 2 * scalar["icd2"] \in Nat
  BY <1>1
<1>3. /\ clock["icd2"] + scalar["icd2"] * n \in Nat
      /\ clock["icd2"] + 2 * scalar["icd2"] \in Nat
  BY <1>1, <1>2
<1>. QED  BY <1>3, WidthType, WrapType

LEMMA NestedCharges ==
  ASSUME NestedInv, executed \in Nat, IcdCharges
  PROVE  NestedInv'
<1> DEFINE c == (clock["icd2"] + scalar["icd2"] * executed) % Width
<1>1. OuterInv /\ InnerInv /\ OwedInv /\ OwedParked /\ CallInv /\ QuietInv
  BY DEF NestedInv
<1>2. /\ active = "icd2" /\ pc["icd2"] = "gbrun" /\ owed' = owed
      /\ pc' = [pc EXCEPT !["icd2"] = "peer"] /\ GB!RunReturns
      /\ clock' = [clock EXCEPT !["icd2"] = c] /\ peer' = [peer EXCEPT !["icd2"] = 1]
      /\ UNCHANGED << active, sched, gen, scalar, work, line, cpu, host, fresh >>
  BY DEF IcdCharges, gExtra
<1>3. gPhase' = "idle" /\ UNCHANGED << gPc, gWork, gStopped, gStall >>
  BY <1>2 DEF GB!RunReturns, GB!cpu
<1>4. OuterInv'
  <2>1. c \in Nat
    BY <1>1, ChargedClock
  <2>. HIDE DEF c
  <2>. QED  BY <1>1, <1>2, <2>1, IcdMoves
<1>5. InnerInv' /\ OwedInv' /\ OwedParked'
  BY <1>1, <1>2, <1>3, InnerHost, OwedKept DEF OwedParked
<1>6. CallInv'
  <2>1. pc'["icd2"] = "peer"
    BY <1>1, <1>2, IcdAssumption DEF IcdAssumption, OuterInv
  <2>. QED  BY <1>2, <1>3, <2>1 DEF CallInv
<1>7. QuietInv'
  BY <1>1, <1>2, IcdQuiet DEF host
<1>. QED  BY <1>4, <1>5, <1>6, <1>7 DEF NestedInv

LEMMA NestedIdles ==
  ASSUME NestedInv, IcdIdles
  PROVE  NestedInv'
<1> DEFINE c == (clock["icd2"] + 2 * scalar["icd2"]) % Width
<1>1. OuterInv /\ InnerInv /\ OwedInv /\ OwedParked /\ CallInv /\ QuietInv
  BY DEF NestedInv
<1>2. /\ active = "icd2" /\ pc["icd2"] = "main" /\ UNCHANGED gameboy
      /\ pc' = [pc EXCEPT !["icd2"] = "peer"]
      /\ clock' = [clock EXCEPT !["icd2"] = c] /\ peer' = [peer EXCEPT !["icd2"] = 1]
      /\ UNCHANGED << active, sched, gen, scalar, work, line, cpu, host, fresh >>
  BY DEF IcdIdles
<1>3. OuterInv'
  <2>1. c \in Nat
    BY <1>1, ChargedClock
  <2>. HIDE DEF c
  <2>. QED  BY <1>1, <1>2, <2>1, IcdMoves
<1>4. InnerInv' /\ OwedInv' /\ OwedParked'
  BY <1>1, <1>2, StillKept
<1>5. CallInv'
  <2>1. pc'["icd2"] = "peer"
    BY <1>1, <1>2, IcdAssumption DEF IcdAssumption, OuterInv
  <2>2. gPhase = "idle" /\ gPhase' = gPhase
    BY <1>1, <1>2, QuietKept DEF CallInv
  <2>. QED  BY <2>1, <2>2 DEF CallInv
<1>6. QuietInv'
  BY <1>1, <1>2, IcdQuiet DEF host
<1>. QED  BY <1>3, <1>4, <1>5, <1>6 DEF NestedInv

\* The Super Famicom's CPU resets the ICD2, and the Game Boy with it, or neither.
LEMMA NestedControl ==
  ASSUME NestedInv, WriteControl
  PROVE  NestedInv'
<1>1. OuterInv /\ InnerInv /\ OwedInv /\ OwedParked /\ CallInv /\ QuietInv
  BY DEF NestedInv
<1>2. /\ OuterInv' /\ UNCHANGED << active, mode, event, phase, turn >>
      /\ active = "cpu" /\ active # Host /\ phase \in {"run", "await"} /\ (phase = "await" => turn = 1)
      /\ pc'["icd2"] \in {pc["icd2"], "top"}
  BY <1>1, OuterControl
<1>3. GbPower_ \/ UNCHANGED gameboy
  BY DEF WriteControl
<1>4. gPhase = "idle" /\ gPhase' = "idle" /\ pc["icd2"] \notin {"gbsave", "gbrun"}
  <2>1. gPhase = "idle" /\ pc["icd2"] \notin {"gbsave", "gbrun"}
    BY <1>1, <1>2 DEF CallInv
  <2>2. gPhase' = gPhase
    BY <1>3, QuietKept DEF GbPower_, GB!Power, GB!host
  <2>. QED  BY <2>1, <2>2
<1>5. InnerInv' /\ OwedInv'
  BY <1>1, <1>3, StillKept, InnerHost, PowerOwed DEF GbPower_
<1>6. OwedParked' /\ CallInv'
  BY <1>2, <1>4 DEF OwedParked, CallInv
<1>7. QuietInv'
  <2>1. \A i \in DOMAIN SaveOrder : ~ (i < 1)
    BY <1>1, TurnType DEF OuterInv, SaveInv
  <2>. QED  BY <1>2, <2>1 DEF QuietInv
<1>. QED  BY <1>2, <1>5, <1>6, <1>7 DEF NestedInv

\* A power cycle, and a load of what was saved.
LEMMA NestedPowers ==
  ASSUME NestedInv, NestedPower
  PROVE  NestedInv'
<1>1. /\ OuterInv /\ InnerInv /\ OwedInv /\ OwedParked /\ CallInv /\ QuietInv
      /\ Power /\ GbPower_
  BY DEF NestedInv, NestedPower
<1>2. OuterInv' /\ active # "icd2" /\ pc'["icd2"] \in {pc["icd2"], "top"}
  BY <1>1, OuterHost
<1>3. gPhase = "idle" /\ gPhase' = "idle" /\ pc["icd2"] \notin {"gbsave", "gbrun"}
  <2>1. gPhase = "idle" /\ pc["icd2"] \notin {"gbsave", "gbrun"}
    BY <1>1, <1>2 DEF CallInv
  <2>. QED  BY <1>1, <2>1 DEF GbPower_, GB!Power, GB!host
<1>4. InnerInv' /\ OwedInv'
  BY <1>1, InnerHost, PowerOwed DEF GbPower_
<1>5. OwedParked' /\ CallInv'
  BY <1>2, <1>3 DEF OwedParked, CallInv
<1>6. phase' = "idle"
  BY <1>1 DEF Power, host
<1>7. QuietInv'
  BY <1>6 DEF QuietInv
<1>. QED  BY <1>2, <1>4, <1>5, <1>7 DEF NestedInv

LEMMA NestedLoads ==
  ASSUME NestedInv, NestedUnserialize
  PROVE  NestedInv'
<1>1. /\ OuterInv /\ InnerInv /\ OwedInv /\ OwedParked /\ CallInv /\ QuietInv
      /\ Unserialize /\ RestoreGameBoy
  BY DEF NestedInv, NestedUnserialize
<1>2. OuterInv' /\ active # "icd2" /\ pc'["icd2"] \in {pc["icd2"], "top"}
  BY <1>1, OuterHost
<1>3. gPhase = "idle" /\ gPhase' = "idle" /\ pc["icd2"] \notin {"gbsave", "gbrun"}
  <2>1. gPhase = "idle" /\ pc["icd2"] \notin {"gbsave", "gbrun"}
    BY <1>1, <1>2 DEF CallInv
  <2>. QED  BY <1>1, <2>1 DEF RestoreGameBoy
<1>4. Quiet
  BY <1>1 DEF Unserialize, QuietInv
<1>5. GB!AtTop("gbcpu") /\ gActive = "icd2" /\ owed = 0
  BY <1>4 DEF Quiet, GbThreads
<1>6. InnerInv' /\ OwedInv'
  BY <1>1, <1>3, <1>5, InnerRestore, RestoreOwed
<1>7. OwedParked' /\ CallInv'
  BY <1>2, <1>3 DEF OwedParked, CallInv
<1>8. phase' = "idle"
  BY <1>1 DEF Unserialize
<1>9. QuietInv'
  BY <1>8 DEF QuietInv
<1>. QED  BY <1>2, <1>6, <1>7, <1>9 DEF NestedInv

\* Nothing either does breaks it.
LEMMA NestedNextInv == NestedInv /\ ChargeInv /\ [NestedNext]_nvars => NestedInv'
<1> SUFFICES ASSUME NestedInv, ChargeInv, [NestedNext]_nvars
             PROVE  NestedInv'
  OBVIOUS
<1>1. CASE (GbCode \/ WriteLCDC \/ GbInterrupt) /\ UNCHANGED << vars, running >>
  BY <1>1, NestedGb
<1>2. CASE IcdCode
  <2>1. CASE IcdPasses
    <3>1. ThreadStep("icd2") /\ ~Park("icd2") /\ UNCHANGED gameboy
      BY <2>1 DEF IcdPasses, ThreadStep, Pass, Park
    <3>. QED  BY <3>1, NestedThread, IcdAssumption DEF IcdAssumption
  <2>2. CASE IcdSynchronizes
    <3>1. ThreadStep("icd2") /\ ~Park("icd2") /\ UNCHANGED gameboy
      BY <2>2 DEF IcdSynchronizes, ThreadStep, Synchronize, Park
    <3>. QED  BY <3>1, NestedThread, IcdAssumption DEF IcdAssumption
  <2>3. CASE IcdCharges
    BY <2>3, NestedCharges DEF ChargeInv
  <2>. QED  BY <1>2, <2>1, <2>2, <2>3, NestedSaves, NestedProceeds, NestedParks, NestedRuns, NestedIdles
            DEF IcdCode
<1>3. CASE SfcCode \/ SfcCall
  <2>1. ASSUME NEW t \in Threads \ {"icd2"}, ThreadStep(t), UNCHANGED gameboy
        PROVE  NestedInv'
    BY <2>1, NestedThread
  <2>2. ASSUME RunReturns \/ SynchronizeThread \/ Reenter \/ Synchronized \/ Serialize \/ Run \/ Save,
               UNCHANGED gameboy
        PROVE  NestedInv'
    BY <2>2, NestedHost
  <2>. QED  BY <1>3, <2>1, <2>2 DEF SfcCode, SfcCall
<1>4. CASE UNCHANGED nvars
  <2>1. UNCHANGED << active, mode, event, phase, turn, pc, resume, gen, gameboy >>
    BY <1>4 DEF nvars, vars, sched, host
  <2>2. UNCHANGED vars
    BY <1>4 DEF nvars
  <2>3. OuterInv'
    <3>1. SaveInv'
      BY <2>2, NextSave DEF NestedInv, OuterInv
    <3>. QED  BY <2>1, <3>1 DEF NestedInv, OuterInv, HandleLives, SwitchIsValid, Valid
  <2>4. InnerInv' /\ OwedInv' /\ OwedParked'
    BY <2>1, StillKept DEF NestedInv
  <2>5. CallInv' /\ QuietInv'
    BY <2>1, QuietKept DEF NestedInv, CallInv, QuietInv
  <2>. QED  BY <2>3, <2>4, <2>5 DEF NestedInv
<1>. QED  BY <1>1, <1>2, <1>3, <1>4, NestedControl, NestedPowers, NestedLoads
          DEF NestedNext, NestedProceed

LEMMA NestedInitInv == NestedInit => NestedInv
<1> SUFFICES ASSUME NestedInit
             PROVE  NestedInv
  OBVIOUS
<1>1. Init /\ Nowhere # Host /\ Master \in Threads /\ "icd2" \in Threads
  BY ThreadsAssumption, IcdAssumption DEF NestedInit, ThreadsAssumption, IcdAssumption
<1>2. OuterInv
  <2>1. SaveInv
    BY <1>1, InitSave
  <2>2. pc \in [Threads -> Points \cup {"gbsave", "gbrun"}] /\ HandleLives /\ SwitchIsValid
    BY <1>1 DEF Init, Points, HandleLives, SwitchIsValid, Valid
  <2>. QED  BY <2>1, <2>2 DEF OuterInv
<1>3. GBP!Init
  <2>1. \A t \in GbThreads : GB!PowerClock(t, gScalar[t]) = GBP!PowerClock(t, gScalar[t])
    BY DEF GB!PowerClock, GBP!PowerClock, GB!BiasOf, GBP!BiasOf
  <2>2. gClock = [t \in GbThreads |-> GBP!PowerClock(t, gScalar[t])]
    BY <2>1 DEF NestedInit
  <2>. QED  BY <2>2 DEF NestedInit, GBP!Init
<1>4. InnerInv
  <2>1. GBP!SaveInv
    BY <1>3, InnerAssumptions, GBP!InitSave
  <2>2. "icd2" # Nowhere
    BY ThreadsAssumption, IcdAssumption DEF ThreadsAssumption, IcdAssumption
  <2>3. gPc \in [GbThreads -> Points] /\ GBP!HandleLives /\ GBP!SwitchIsValid
    BY <2>2 DEF NestedInit, Points, GBP!HandleLives, GBP!SwitchIsValid, GBP!Valid, GbThreads
  <2>. QED  BY <2>1, <2>3 DEF InnerInv
<1>5. OwedInv /\ OwedParked
  BY CountsAssumption DEF NestedInit, OwedInv, OwedParked, GbThreads
<1>6. CallInv /\ QuietInv
  BY <1>1 DEF NestedInit, Init, CallInv, QuietInv
<1>. QED  BY <1>2, <1>4, <1>5, <1>6 DEF NestedInv

LEMMA NestedInvariant == NestedSpec => [](NestedInv /\ ChargeInv)
<1>1. NestedInit => NestedInv /\ ChargeInv
  <2>1. (0 + 0) % CountWidth = 0
    BY CountsAssumption
  <2>. QED  BY <2>1, NestedInitInv DEF NestedInit, ChargeInv, ClocksCharged
<1>2. (NestedInv /\ ChargeInv) /\ [NestedNext]_nvars => (NestedInv /\ ChargeInv)'
  BY NestedNextInv, ChargeNext
<1>. QED  BY <1>1, <1>2, PTL DEF NestedSpec

-----------------------------------------------------------------------------
(* Theorems *)

\* The flags the ICD2 and the picture unit keep.
FlagsOK == running \in BOOLEAN /\ lcd \in BOOLEAN /\ blank \in BOOLEAN

LEMMA FlagsNext == FlagsOK /\ [NestedNext]_nvars => FlagsOK'
<1> SUFFICES ASSUME FlagsOK, [NestedNext]_nvars
             PROVE  FlagsOK'
  OBVIOUS
<1>1. running' \in BOOLEAN
  <2>1. \/ UNCHANGED running \/ running' \in BOOLEAN
    BY DEF NestedNext, NestedProceed, WriteControl, SfcCall, NestedPower, NestedUnserialize, nvars
  <2>. QED  BY <2>1 DEF FlagsOK
<1>2. lcd' \in BOOLEAN /\ blank' \in BOOLEAN
  <2>1. CASE UNCHANGED << lcd, blank >>
    BY <2>1 DEF FlagsOK
  <2>2. CASE GbCode \/ WriteLCDC \/ GbInterrupt
    <3>1. lcd' \in {lcd, ~lcd} /\ blank' \in {blank, ~lcd, FALSE}
      BY <2>2 DEF GbCode, WriteLCDC, GbInterrupt, GbCpuClock, GbCpuOther, GbCpuStepEnds, GbPpuBegin,
                  GbPpuBlankEnds, GbPpuOther, GbApu, gExtra
    <3>. QED  BY <3>1 DEF FlagsOK
  <2>3. CASE GbPower_
    BY <2>3 DEF GbPower_
  <2>4. UNCHANGED gameboy => UNCHANGED << lcd, blank >>
    BY DEF gameboy, gExtra
  <2>5. IcdCode => UNCHANGED << lcd, blank >>
    BY <2>4 DEF IcdCode, IcdSaves, GbSaveProceeds, IcdParks, IcdPasses, IcdRuns, IcdCharges, IcdIdles,
                IcdSynchronizes, gExtra
  <2>6. RestoreGameBoy => UNCHANGED << lcd, blank >>
    BY DEF RestoreGameBoy, gExtra
  <2>7. \/ UNCHANGED gameboy \/ GbPower_ \/ RestoreGameBoy \/ IcdCode
        \/ GbCode \/ WriteLCDC \/ GbInterrupt
    BY DEF NestedNext, NestedProceed, SfcCode, WriteControl, SfcCall, NestedPower, NestedUnserialize, nvars
  <2>. QED  BY <2>1, <2>2, <2>3, <2>4, <2>5, <2>6, <2>7
<1>. QED  BY <1>1, <1>2 DEF FlagsOK

\* Both schedulers keep the types of their variables, and the clocks of the step of the
\* Game Boy's CPU that is under way are never more than the step has (gb/cpu/timing.cpp).
THEOREM NestedTypeCorrect == NestedSpec => []NestedTypeOK
<1>1. NestedInit => FlagsOK
  BY DEF NestedInit, FlagsOK
<1>2. NestedInv /\ ChargeInv /\ FlagsOK => NestedTypeOK
  <2> SUFFICES ASSUME NestedInv, ChargeInv, FlagsOK
               PROVE  NestedTypeOK
    OBVIOUS
  <2>1. ValuesOK /\ pc \in [Threads -> Points \cup {"gbsave", "gbrun"}]
    BY DEF NestedInv, OuterInv, SaveInv, TypeInv
  <2>2. GB!TypeOK
    <3>1. GBP!ValuesOK /\ gPc \in [GbThreads -> GBP!Points]
      BY DEF NestedInv, InnerInv, GBP!SaveInv, GBP!TypeInv, Points, GBP!Points
    <3>2. GBP!TypeOK
      BY <3>1 DEF GBP!TypeOK
    <3>. QED  BY <3>2, SameHost
  <2>3. owed \in 0 .. StepClocks /\ executed \in Nat
    BY DEF NestedInv, OwedInv, ChargeInv
  <2>4. uncharged \in Nat
    <3>1. executed + owed \in Nat /\ CountWidth \in Nat \ {0}
      BY CountsAssumption DEF ChargeInv
    <3>. QED  BY <3>1 DEF ChargeInv, ClocksCharged
  <2>. QED  BY <2>1, <2>2, <2>3, <2>4 DEF NestedTypeOK, FlagsOK
<1>. QED  BY <1>1, <1>2, NestedInvariant, FlagsNext, PTL DEF NestedSpec

\* When the Super Famicom's state is copied both systems are at a safe point: the ICD2 runs
\* the Game Boy to its own before it gives its state up (icd2.cpp), and not after.
THEOREM NestedSafePointCorrect == NestedSpec => []NestedSafePoint
<1>1. NestedInv => NestedSafePoint
  BY DEF NestedInv, OuterInv, SaveInv, SafePoint, QuietInv, Quiet, NestedSafePoint
<1>. QED  BY <1>1, NestedInvariant, PTL

\* Neither scheduler switches to a cothread that was deleted, though the Super Famicom's
\* CPU creates the ICD2's and the Game Boy's again, and the Game Boy's its picture unit's,
\* while they run.
THEOREM NestedSwitchesCorrect == NestedSpec => []NestedSwitchesValid
<1>1. NestedInv => NestedSwitchesValid
  BY DEF NestedInv, OuterInv, InnerInv, SwitchIsValid, GBP!SwitchIsValid, NestedSwitchesValid
<1>. QED  BY <1>1, NestedInvariant, PTL
=============================================================================
