----------------------------- MODULE SuperGameBoy -----------------------------
(***************************************************************************)
(* A Super Famicom whose cartridge holds a Game Boy (the ICD2 of a Super   *)
(* Game Boy): two cooperative schedulers, one inside a thread of the other.*)
(* The ICD2's cothread calls GameBoy::System::run() the way the program    *)
(* thread calls that of the Super Famicom, charges the clocks the Game Boy *)
(* executed to its own clock, and brings the Game Boy to a safe point      *)
(* before it gives up its own state.                                       *)
(*                                                                         *)
(* The outer system is Scheduler, extended; the Game Boy is another        *)
(* instance of it, whose Host is the ICD2's cothread.                      *)
(***************************************************************************)
EXTENDS SchedulerProps, GameBoy

CONSTANTS
  StepClocks,             \* the clocks of one CPU::step() of the Game Boy
  GbScalars, GbBodies,    \* as Scalars and Bodies of Scheduler, for the Game Boy
  GbLines, GbVblank,
  GbStoppers,             \* {"gbcpu"} if its program may execute HALT or STOP
  GbGens,
  CountWidth,             \* the width of _clocksExecuted, a uint
  MaxGap                  \* bound: how far the clocks of the CPU and of the ICD2 may be apart
                          \* when a save is made, and when the CPU resets the ICD2

\* The CPU is the primary thread, and runToSave() synchronizes its coprocessors.
ASSUME IcdAssumption ==
  /\ {"cpu", "icd2"} \subseteq Threads /\ Master = "cpu" /\ Peers["icd2"] = << "cpu" >>
  /\ \E i \in DOMAIN SaveOrder : SaveOrder[i] = "icd2"

ASSUME CountsAssumption == StepClocks \in Nat \ {0} /\ CountWidth \in Nat \ {0} /\ MaxGap \in Nat

\* The CPU of a Super Game Boy takes its clocks a whole CPU::step() at a time.
ASSUME GameBoyAssumption ==
  /\ Nowhere \notin GbThreads
  /\ GbScalars \in [GbThreads -> SUBSET Nat] /\ GbBodies \in [GbThreads -> SUBSET (Nat \ {0})]
  /\ \A n \in GbBodies["gbcpu"] : n % StepClocks = 0
  /\ GbLines \in Nat \ {0} /\ GbVblank \in Nat
  /\ GbGens \subseteq Nat /\ 0 \in GbGens

VARIABLES
  gActive, gMode, gEvent, gResume, gMaster, gGen, gClock, gScalar, gPc, gWork, gPeer,
  gLine, gStopped, gStall, gPhase, gTurn, gFresh,    \* those of Scheduler, for the Game Boy
  running,    \* ICD2: bit 7 of r6003
  executed,   \* System::_clocksExecuted
  owed,       \* clocks of the CPU::step() that is under way
  lcd,        \* PPU::status.displayEnable
  blank,      \* this pass of PPU::main() began with the display disabled
  uncharged   \* history: clocks the Game Boy executed that the ICD2's clock does not count

gSystem == << gActive, gMode, gEvent, gResume, gMaster, gGen, gClock, gScalar, gPc, gWork,
              gPeer, gLine, gStopped, gStall, gPhase, gTurn, gFresh >>
gExtra  == << owed, lcd, blank >>
gameboy == << gSystem, gExtra, executed, uncharged >>
nvars   == << vars, gameboy, running >>

\* runToSave() of the Game Boy is called by the ICD2 alone, which needs no count of them.
GB == INSTANCE SchedulerProps WITH
  Threads <- GbThreads, Host <- "icd2", Master <- "gbcpu", Peers <- GbPeers, Lead <- GbLead,
  PowerOrder <- GbPower, SaveOrder <- GbSave, Scalars <- GbScalars, Bodies <- GbBodies,
  FrameThreads <- {"gbppu"}, FrameFirst <- {}, Lines <- GbLines, Vblank <- GbVblank,
  Stoppers <- GbStoppers, Polite <- {}, Dmc <- [a \in {} |-> "gbcpu"], Ports <- {},
  Swaps <- {}, Gens <- GbGens, MaxSaves <- 0, saves <- 0,
  active <- gActive, mode <- gMode, event <- gEvent, resume <- gResume, master <- gMaster,
  gen <- gGen, clock <- gClock, scalar <- gScalar, pc <- gPc, work <- gWork, peer <- gPeer,
  line <- gLine, stopped <- gStopped, stall <- gStall, phase <- gPhase, turn <- gTurn,
  fresh <- gFresh

-----------------------------------------------------------------------------
(* The Game Boy's threads *)

\* Mutant: one clock too many.
StepDoneLate == owed > StepClocks /\ gPc["gbcpu"] # "peer"

\* CPU::step() has executed its clocks and synchronized after the last one.
StepDone == owed = StepClocks /\ gPc["gbcpu"] # "peer"

\* The Game Boy's CPU, but for what it does at the end of CPU::step().
GbCpuClock ==
  /\ GB!Step("gbcpu")
  /\ ~StepDone
  /\ owed' = owed + 1 /\ uncharged' = (uncharged + 1) % CountWidth
  /\ UNCHANGED << executed, lcd, blank >>

GbCpuOther ==
  /\ ~StepDone
  /\ \/ GB!Park("gbcpu") \/ GB!Pass("gbcpu") \/ GB!Begin("gbcpu") \/ GB!Synchronize("gbcpu")
  /\ UNCHANGED << gExtra, executed, uncharged >>

\* On a Super Game Boy, CPU::step() ends with an exit from the scheduler.
GbCpuStepEnds ==
  /\ gActive = "gbcpu" /\ StepDone
  /\ executed' = (executed + owed) % CountWidth /\ owed' = 0
  /\ GB!Exit("gbcpu", "Step")
  /\ UNCHANGED << gMode, gMaster, gGen, gScalar, gPc, gWork, gPeer, gLine, gStopped, gStall,
                  gPhase, gTurn, gFresh, lcd, blank, uncharged >>

\* PPU::writeIO() of LCDC by the CPU: to disable the display restarts the PPU's cothread at
\* the clock it had.
WriteLCDC ==
  /\ gActive = "gbcpu" /\ gPc["gbcpu"] = "step" /\ ~StepDone /\ ~gStopped["gbcpu"]
  /\ lcd' = ~lcd
  /\ IF lcd
       THEN /\ \E g \in GbGens : gGen' = [gGen EXCEPT !["gbppu"] = g]
            /\ gPc' = [gPc EXCEPT !["gbppu"] = "top"]
            /\ gWork' = [gWork EXCEPT !["gbppu"] = 0]
            /\ gPeer' = [gPeer EXCEPT !["gbppu"] = 1]
            /\ gLine' = [gLine EXCEPT !["gbppu"] = 0]
            /\ blank' = FALSE
       ELSE UNCHANGED << gGen, gPc, gWork, gPeer, gLine, blank >>
  /\ UNCHANGED << gActive, gMode, gEvent, gResume, gMaster, gClock, gScalar, gStopped, gStall,
                  gPhase, gTurn, gFresh, owed, executed, uncharged >>

GbPpuBegin ==
  /\ GB!Begin("gbppu")
  /\ blank' = ~lcd
  /\ UNCHANGED << owed, lcd, executed, uncharged >>

\* With the display disabled each pass of PPU::main() ends a frame.
GbPpuBlankEnds ==
  /\ gActive = "gbppu" /\ gPc["gbppu"] = "scanline" /\ blank
  /\ GB!Exit("gbppu", "Frame")
  /\ gPc' = [gPc EXCEPT !["gbppu"] = "top"]
  /\ blank' = FALSE
  /\ UNCHANGED << gMode, gMaster, gGen, gScalar, gWork, gPeer, gLine, gStopped, gStall,
                  gPhase, gTurn, gFresh, owed, lcd, executed, uncharged >>

GbPpuOther ==
  /\ \/ GB!Park("gbppu") \/ GB!Pass("gbppu") \/ GB!Step("gbppu") \/ GB!Synchronize("gbppu")
     \/ ~blank /\ GB!Scanline("gbppu")
  /\ UNCHANGED << gExtra, executed, uncharged >>

GbApu == GB!ThreadStep("gbapu") /\ UNCHANGED << gExtra, executed, uncharged >>

\* CPU::raise() clears r.halt, which the loop of HALT tests after each idle().  Nothing ends
\* STOP but the program's own polling of the joypad, so it is a stop this never takes.
GbInterrupt ==
  /\ gActive = "gbcpu" /\ StepDone /\ gStopped["gbcpu"]
  /\ gStopped' = [gStopped EXCEPT !["gbcpu"] = FALSE]
  /\ UNCHANGED << gActive, gMode, gEvent, gResume, gMaster, gGen, gClock, gScalar, gPc, gWork,
                  gPeer, gLine, gStall, gPhase, gTurn, gFresh, gExtra, executed, uncharged >>

GbCode == GbCpuClock \/ GbCpuOther \/ GbCpuStepEnds \/ GbPpuBegin \/ GbPpuBlankEnds
          \/ GbPpuOther \/ GbApu

-----------------------------------------------------------------------------
(* The ICD2's thread: ICD2::Enter() and ICD2::main() *)

\* The end of System::power() of the Game Boy.
GbPower_ ==
  /\ GB!Power
  /\ executed' = 0 /\ owed' = 0 /\ uncharged' = 0
  /\ lcd' = FALSE /\ blank' = FALSE

\* At the top of the loop, while its thread is synchronized: GameBoy::system.runToSave().
IcdSaves ==
  /\ active = "icd2" /\ gActive = "icd2" /\ pc["icd2"] = "top" /\ synchronizing
  /\ pc' = [pc EXCEPT !["icd2"] = "gbsave"]
  /\ gPhase' = "synchronize" /\ gTurn' = 1
  /\ UNCHANGED << active, sched, gen, clock, scalar, work, peer, line, cpu, host, fresh,
                  gActive, gMode, gEvent, gResume, gMaster, gGen, gClock, gScalar, gPc, gWork,
                  gPeer, gLine, gStopped, gStall, gFresh, gExtra, executed, uncharged >>

\* Mutant: the Game Boy's scheduler is entered once for each thread.
GbSaveEntersOnce ==
  /\ pc["icd2"] = "gbsave"
  /\ GB!SynchronizeThread \/ GB!Synchronized
  /\ UNCHANGED << vars, gExtra, executed, uncharged >>

\* What runToSave() of the Game Boy does between two switches, in the ICD2's cothread.
GbSaveProceeds ==
  /\ pc["icd2"] = "gbsave"
  /\ GB!SynchronizeThread \/ GB!Reenter \/ GB!Synchronized
  /\ UNCHANGED << vars, gExtra, executed, uncharged >>

\* It returns, and the ICD2 gives up its own state.
IcdParks ==
  /\ active = "icd2" /\ pc["icd2"] = "gbsave" /\ gPhase = "saved"
  /\ gPhase' = "idle"
  /\ Exit("icd2", "Synchronize")
  /\ pc' = [pc EXCEPT !["icd2"] = "main"]
  /\ UNCHANGED << mode, master, gen, scalar, work, peer, line, cpu, host, fresh,
                  gActive, gMode, gEvent, gResume, gMaster, gGen, gClock, gScalar, gPc, gWork,
                  gPeer, gLine, gStopped, gStall, gTurn, gFresh, gExtra, executed, uncharged >>

\* Mutant: the ICD2 gives up its state before it brings the Game Boy to a safe point.
IcdPassesOrParks == (Pass("icd2") \/ Park("icd2")) /\ UNCHANGED gameboy

IcdPasses == Pass("icd2") /\ UNCHANGED gameboy

\* main() with the Game Boy running: GameBoy::system.run().
IcdRuns ==
  /\ active = "icd2" /\ pc["icd2"] = "main" /\ running
  /\ pc' = [pc EXCEPT !["icd2"] = "gbrun"]
  /\ GB!Run
  /\ UNCHANGED << active, sched, gen, clock, scalar, work, peer, line, cpu, host, fresh,
                  gExtra, executed, uncharged >>

\* Mutant: the count is cleared before it is charged.
IcdChargesNothing ==
  /\ active = "icd2" /\ pc["icd2"] = "gbrun"
  /\ GB!RunReturns
  /\ uncharged' = (uncharged - executed) % CountWidth
  /\ executed' = 0
  /\ pc' = [pc EXCEPT !["icd2"] = "peer"]
  /\ peer' = [peer EXCEPT !["icd2"] = 1]
  /\ UNCHANGED << active, sched, gen, clock, scalar, work, line, cpu, host, fresh, gExtra >>

\* It returns after a step of its CPU or at the end of its frame.
IcdCharges ==
  /\ active = "icd2" /\ pc["icd2"] = "gbrun"
  /\ GB!RunReturns
  /\ clock' = [clock EXCEPT !["icd2"] = (@ + scalar["icd2"] * executed) % Width]
  /\ uncharged' = (uncharged - executed) % CountWidth
  /\ executed' = 0
  /\ pc' = [pc EXCEPT !["icd2"] = "peer"]
  /\ peer' = [peer EXCEPT !["icd2"] = 1]
  /\ UNCHANGED << active, sched, gen, scalar, work, line, cpu, host, fresh, gExtra >>

\* main() with the Game Boy halted.
IcdIdles ==
  /\ active = "icd2" /\ pc["icd2"] = "main" /\ ~running
  /\ clock' = [clock EXCEPT !["icd2"] = (@ + 2 * scalar["icd2"]) % Width]
  /\ pc' = [pc EXCEPT !["icd2"] = "peer"]
  /\ peer' = [peer EXCEPT !["icd2"] = 1]
  /\ UNCHANGED << active, sched, gen, scalar, work, line, cpu, host, fresh, gameboy >>

IcdSynchronizes == Synchronize("icd2") /\ UNCHANGED gameboy

IcdCode == IcdSaves \/ GbSaveProceeds \/ IcdParks \/ IcdPasses \/ IcdRuns \/ IcdCharges
           \/ IcdIdles \/ IcdSynchronizes

-----------------------------------------------------------------------------
(* The Super Famicom *)

\* create() of the ICD2's thread in ICD2::reset().
RestartIcd ==
  /\ \E g \in Gens : gen' = [gen EXCEPT !["icd2"] = g]
  /\ pc' = [pc EXCEPT !["icd2"] = "top"]
  /\ work' = [work EXCEPT !["icd2"] = 0]
  /\ peer' = [peer EXCEPT !["icd2"] = 1]
  /\ clock' = [clock EXCEPT !["icd2"] = 0]

\* ICD2::writeIO() of 0x6003 by the CPU: bit 7 rising resets the chip and powers the Game
\* Boy, bits 0 and 1 divide the frequency.
WriteControl ==
  /\ active = "cpu" /\ pc["cpu"] = "step"
  /\ running' \in BOOLEAN
  /\ \E s \in Scalars["icd2"] : scalar' = [scalar EXCEPT !["icd2"] = s]
  /\ IF ~running /\ running'
       THEN clock["cpu"] <= MaxGap /\ RestartIcd /\ GbPower_
       ELSE UNCHANGED << gen, pc, work, peer, clock, gameboy >>
  /\ UNCHANGED << active, sched, line, cpu, host, fresh >>

\* The threads of the Super Famicom other than the ICD2, and the program thread.
SfcCode ==
  /\ \/ \E t \in Threads \ {"icd2"} : ThreadStep(t)
     \/ RunReturns \/ SynchronizeThread \/ Reenter \/ Synchronized \/ Serialize
  /\ UNCHANGED gameboy

SfcCall == (Run \/ (Save /\ clock["icd2"] <= MaxGap)) /\ UNCHANGED << gameboy, running >>

NestedPower == Power /\ GbPower_ /\ running' = FALSE

\* Mutant: System::serialize() leaves _clocksExecuted out.
RestoreGameBoyUncounted ==
  /\ GB!Create
  /\ gScalar' = gScalar
  /\ executed' = 0
  /\ UNCHANGED << gActive, gMode, gEvent, gClock, gLine, gStopped, gStall, gPhase, gTurn,
                  gFresh, gExtra, uncharged >>

\* ICD2::serialize() restores the Game Boy's state after power() created its threads again.
RestoreGameBoy ==
  /\ GB!Create
  /\ gScalar' = gScalar
  /\ UNCHANGED << gActive, gMode, gEvent, gClock, gLine, gStopped, gStall, gPhase, gTurn,
                  gFresh, gExtra, executed, uncharged >>

NestedUnserialize == Unserialize /\ RestoreGameBoy /\ UNCHANGED running

-----------------------------------------------------------------------------

NestedInit ==
  /\ Init
  /\ gActive = "icd2" /\ gMode = "Run" /\ gEvent = "Step"
  /\ gResume = << "gbcpu", 0 >> /\ gMaster = << "gbcpu", 0 >>
  /\ gGen = [t \in GbThreads |-> 0]
  /\ gScalar \in [GbThreads -> UNION {GbScalars[t] : t \in GbThreads}]
  /\ \A t \in GbThreads : gScalar[t] \in GbScalars[t]
  /\ gClock = [t \in GbThreads |-> GB!PowerClock(t, gScalar[t])]
  /\ gPc = [t \in GbThreads |-> "top"]
  /\ gWork = [t \in GbThreads |-> 0]
  /\ gPeer = [t \in GbThreads |-> 1]
  /\ gLine = [t \in GbThreads |-> 0]
  /\ gStopped = [t \in GbThreads |-> FALSE] /\ gStall = [t \in GbThreads |-> 0]
  /\ gPhase = "idle" /\ gTurn = 1 /\ gFresh = TRUE
  /\ running = FALSE /\ executed = 0 /\ owed = 0 /\ uncharged = 0
  /\ lcd = FALSE /\ blank = FALSE

NestedProceed ==
  \/ GbCode /\ UNCHANGED << vars, running >>
  \/ IcdCode /\ UNCHANGED running
  \/ SfcCode /\ UNCHANGED running

NestedNext ==
  \/ NestedProceed
  \/ (WriteLCDC \/ GbInterrupt) /\ UNCHANGED << vars, running >>
  \/ WriteControl \/ SfcCall \/ NestedPower \/ NestedUnserialize

NestedSpec == NestedInit /\ [][NestedNext]_nvars

\* As FairSpec of Scheduler.
NestedFairSpec == NestedSpec /\ WF_nvars(NestedProceed) /\ WF_nvars(Run /\ SfcCall)

-----------------------------------------------------------------------------
(* Properties *)

\* Every variable of both schedulers, and those this module adds, hold a value of their
\* type in the code; the clocks of CPU::step() are never exceeded.
NestedTypeOK ==
  /\ ValuesOK /\ pc \in [Threads -> Points \cup {"gbsave", "gbrun"}]
  /\ GB!TypeOK
  /\ owed \in 0 .. StepClocks /\ executed \in Nat /\ uncharged \in Nat
  /\ running \in BOOLEAN /\ lcd \in BOOLEAN /\ blank \in BOOLEAN

\* When the Super Famicom's state is copied, with it the Game Boy's, no thread of either
\* holds state on its stack: the inner scheduler was run to its safe point before the ICD2
\* offered its own, and was not run since.
NestedSafePoint ==
  phase = "saved" =>
    /\ \A i \in DOMAIN SaveOrder : AtTop(SaveOrder[i])
    /\ \A t \in GbThreads : GB!AtTop(t)
    /\ gActive = "icd2" /\ owed = 0

\* However the steps, the frames and the saves of the Game Boy fall, and whatever is reset
\* or loaded, each clock it executes is counted by the ICD2's clock once or is still to be.
ClocksCharged == uncharged = (executed + owed) % CountWidth

\* Neither scheduler switches to a cothread that was deleted, though the CPU restarts the
\* ICD2 and its Game Boy, and the Game Boy's CPU restarts its PPU, while they run.
NestedSwitchesValid == active # Nowhere /\ gActive # Nowhere

\* A frame of the Super Famicom ends even if the Game Boy is stopped for good: run() of the
\* Game Boy returns after each step.
NestedRunCompletes == RunCompletes

\* A save completes if the Game Boy's CPU always leaves HALT again; it does not in STOP.
NestedSaveCompletes == []<>~gStopped["gbcpu"] => SaveCompletes

=============================================================================
