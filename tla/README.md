# nSide in TLA+

nSide is a multi-system emulator. Every emulated chip is a cothread; one cooperative
scheduler (`src/nSide/emulator/scheduler.hpp`, `thread.hpp`) switches between them and
brings them all to a point where the machine can be saved. That scheduler is the core of
the program and of this project: everything else an emulated system does happens between
two of its switches.

Paths below are relative to `src/nSide/` unless they begin with another directory of
`src/`.

## 1. Inventory

| Component | State it keeps | Operations | What is hard |
|---|---|---|---|
| Scheduler, threads (`emulator/`) | `_host`, `_resume`, `_master`, `_mode`, `_event`, `_threads`; per thread handle, scalar, clock | `enter`, `exit`, `resume`, `synchronize` (two), `append`, `remove`, `primary`; `create`, `step` | which cothread continues, and where; saving without stacks; clocks in a finite range; handles that outlive their thread |
| libco (`libco/`) | the active handle; a stack per cothread | `co_create`, `co_delete`, `co_switch`, `co_active` | a freed handle, or one whose address is used again |
| Famicom (`fc/system`, `fc/cpu`, `fc/apu`, `fc/ppu`) | registers, counters, memories of each chip | `power`, `reset`, `run`, `serialize`, `unserialize`; per chip `main`, `step` | the DMC holds the CPU until the APU's thread releases it; a frame that ends during a save |
| Famicom sound (`fc/apu`), and the CPU's RDY and interrupt lines | length, envelope, sweep, frame and sample counters; `rdyLine`, `rdyAddrValid`, `apuLine` | the writes of 0x4000-0x4017, the read of 0x4015, `clock*()`, `serialize` | the sample channel stops the CPU, which may be writing; two sources of one interrupt line; counters that are tested after a decrement |
| Super Famicom CPU (`sfc/cpu/dma.cpp`, `timing.cpp`, `irq.cpp`, `io.cpp`) | 8 DMA channels, the NMI and IRQ latches, the counters of `step()` | `dmaRun`, `hdmaSetup`, `hdmaRun`, `pollInterrupts`, `lastCycle`, `readCPU`, `writeCPU` | an HDMA inside a DMA; flags set at one clock, polled at another and cleared by a read |
| Super Game Boy (`sfc/coprocessor/icd2`, `gb/system`, `gb/cpu`, `gb/ppu`) | a second scheduler; `_clocksExecuted`; `r6003` | `ICD2::main`, `writeIO`, `serialize`; `GameBoy::System::run`, `runToSave` | a scheduler inside a thread of another; threads created again while they run |
| Controller and expansion ports (`*/controller`, `fc/expansion`) | the device object, which is a thread | `connect`, `power`, `unload` | devices are deleted and created while the rest of the system stays as it is |
| Super Famicom (`sfc/`, `sfc-balanced/`) | as the Famicom, and coprocessors | as the Famicom | an SMP that runs ahead by an unsigned difference; stop instructions; the ICD2's nested scheduler |
| Other cores (`gb`, `gba`, `md`, `ms`, `pce`, `ws`, `a2600`) | as above | as above | threads `runToSave()` leaves out; the Game Boy's picture unit created again by the CPU |
| Arcade Famicoms (`fc/arcade`) | two Famicoms; a Z80 and a video circuit; a slot switcher | as the Famicom | threads created again while others run; coprocessors appended at each reset |
| Processors (`processor/`) | registers | `instruction`, `interrupt` | loops that only another thread ends |
| libretro core (`target-libretro/`) | the cached state and its flag | the libretro API | every call that changes the emulator must drop the cache |
| User interfaces (`target-nSide-t`, `target-shimai`, `target-star-rod`) | windows, settings | load, run, save and load states, change ports | the order of calls |
| Audio, video (`audio/`, `video/`) | streams, filters, sprites | `createStream`, `sample`, `refresh` | the slowest stream decides |
| Cartridges, mappers, RTC and flash chips | banks, interrupt counters, command states | reads and writes | command protocols, counters at their limit |
| nall, hiro, ruby, icarus, cart-pal, ramus | containers, widgets, drivers, databases | many | outside the emulation |

How they interact. The program thread calls the core's `Interface`; the `System` calls
`Scheduler::enter()`, which `co_switch`es to the thread that was left last. From then on
threads switch to each other in `Thread::synchronize(other)`, when the other's clock is
not ahead. A picture unit that reaches vertical blanking calls `exit(Event::Frame)`, and
`run()` returns. To save, `runToSave()` synchronizes the primary thread first, with the
whole system running (mode `SynchronizeMaster`), and then every other thread by itself
(mode `SynchronizeSlave`, in which `resume()` does nothing); each of them calls
`exit(Event::Synchronize)` at the top of its loop. Only then are the chips copied. What
is on a stack is not copied, so a load puts every thread at the top of its loop.

What makes it correct: a copy is made only when no thread has work on its stack; `run()`
and `runToSave()` return, and each for its own reason; no thread is starved; no clock
wraps, and no thread acts on a peer that is too far behind; control goes only to a
cothread that exists; and the states a frontend is given are the emulator's.
`PROJECT.json` lists each of these hazards at its line, with the property that covers it.

## 2. Modules

| Module | What it is |
|---|---|
| `Scheduler` | The scheduler, the loops of the threads, and the calls of the program thread. The emulated system (threads, peers, leads, orders, steps) is its constants. |
| `SchedulerProps` | The properties and the refinement mapping to `SaveContract`. |
| `SaveContract` | The abstract specification: what `run()` and `runToSave()` promise. |
| `Famicom`, `SuperFamicom` | The constants of these two systems, translated from `fc/` and `sfc/`. |
| `GameBoy` | The constants of a Game Boy, from `gb/`. |
| `SuperGameBoy` | The Super Famicom's `Scheduler`, extended, with a Game Boy's (`INSTANCE Scheduler`) in the thread of its ICD2. |
| `FamicomSound` | The Famicom's sound unit and the two lines by which it reaches the CPU. |
| `SuperFamicomCPU` | The step of the Super Famicom's CPU: counters, DMA, HDMA, NMI and IRQ. |
| `MCFamicom`, `MCSuperFamicom`, `MCSuperGameBoy`, `MCFamicomSound`, `MCSuperFamicomCPU` | Small numbers for TLC. |
| `LibretroSession` | The cached state of the libretro core and the calls that touch it. |
| `SchedulerProofs`, `LibretroProofs`, `FamicomSoundProofs`, `SuperGameBoyProofs`, `NestedProofs`, `SuperFamicomCPUProofs`, `HdmaProofs` | The theorems. `NestedProofs` cites those of `SchedulerProofs` twice, the second time as an instance for the Game Boy. |
| `Induction` | What the provers lack: induction over the subsets of a finite set, the least element of a set of numbers, quotients, remainders, powers of two. |

### Scheduler: state and code

Exactly one cothread runs, and it leaves the processor only at a `co_switch`. `active`
is `co_active()`; `pc[t]` says where thread `t` continues:

    "top" -> "main" -> "step" -> "peer" -> ("step" ...) -> "scanline" -> "top"

`top` is `scheduler.synchronize()`; `main` begins `main()`; `step` is `Thread::step()`;
`peer` is the list of `synchronize(x)` calls after it, one action each (`peer[t]` is the
index); `scanline` is the call a picture unit makes once per pass, first or last.
`work[t]` is the number of steps left in the pass: an instruction, a scanline, a DMA.

| Variables | Code |
|---|---|
| `mode`, `event`, `resume`, `master` | `_mode`, `_event`, `_resume`, `_master` |
| `gen` | A handle is a thread and a generation: `co_delete` and `co_create` give it any generation of `Gens`, so the new cothread has the old address or another |
| `clock`, `scalar` | `_clock`; `_scalar` times the clocks of a step. Clocks wrap at `Width`, as a `uintmax` does |
| `line` | `vcounter()` |
| `stopped`, `stall` | `r.stp`/`r.wai` of a processor; the DMC's delay while RDY is low |
| `phase`, `turn`, `saves` | where the program thread is in `run()` or `runToSave()` |
| `fresh` | history: no thread has been resumed since the scheduler was entered |

| Actions | Code |
|---|---|
| `Park`, `Pass` | `Scheduler::synchronize()` exits, or does nothing |
| `Begin`, `Step`, `Synchronize`, `Scanline` | `main()`, `Thread::step()`, `Thread::synchronize()`, `PPU::scanline()` |
| `Run`, `RunReturns` | `System::run()` |
| `Save`, `SynchronizeThread`, `Reenter`, `Synchronized`, `Serialize` | `Interface::serialize()`: `runToSave()`, the loop of `synchronize(Thread&)`, the copy |
| `Connect` | `ControllerPort::connect()`, with its Four Score case: one call may replace both ports |
| `Power`, `Unserialize` | `System::power()`; `System::unserialize()`, which powers and then restores all but the devices |

What is abstracted: registers, memory, sound and pixels. What they can do to the
scheduler is kept as a choice: how many steps a pass takes, whether the DMC fetches,
whether a processor stops, whether a thread with a lead accesses its peer. A load is of
the state that was just copied; a state copied earlier has threads at the same points.

`SaveContract` has three variables: the call that was made, the threads that are busy
(have work on their stack), and those that are parked. The mapping (`CallMade`, `Busy`,
`Parked`) is in `SchedulerProps`.

### LibretroSession

`cached`, `hasCached` are `Program::cached_serialize` and `has_cached_serialize`; `now`
stands for the state of the emulator, `data` for the frontend's buffer; `reset` and
`answered` are history. One action per API function. `retro_run()`, a reset and a copy
that runs to a safe point may leave the emulator in any state.

### SuperGameBoy

The module `EXTENDS` the scheduler for the Super Famicom and instantiates it again, as
`GB`, for the Game Boy; the inner one's host is the cothread of the ICD2. Its variables
are those of `Scheduler` with a `g` before them. Its threads and its ICD2 take turns: as
long as `gActive` is not `"icd2"` the ICD2's cothread is inside `Scheduler::enter()`.

| Variables | Code |
|---|---|
| `running` | bit 7 of `r6003` |
| `owed`, `executed` | clocks of the `CPU::step()` under way; `_clocksExecuted` |
| `lcd`, `blank` | `status.displayEnable`, and its value when this pass of `PPU::main()` began |
| `uncharged` | history: clocks executed that the ICD2's clock has not counted |

| Actions | Code |
|---|---|
| `IcdSaves`, `GbSaveProceeds`, `IcdParks`, `IcdPasses` | `ICD2::Enter()`: `runToSave()` of the Game Boy, then `scheduler.synchronize()` |
| `IcdRuns`, `IcdCharges`, `IcdIdles`, `IcdSynchronizes` | `ICD2::main()` |
| `GbCpuClock`, `GbCpuStepEnds` | the loop of `CPU::step()`, and its exit on a Super Game Boy |
| `WriteLCDC`, `GbPpuBegin`, `GbPpuBlankEnds` | the display switched off (its thread is created again) and on |
| `GbInterrupt` | `CPU::raise()` ends HALT |
| `WriteControl` | `ICD2::writeIO(0x6003)`: bit 7 rising resets the chip and powers the Game Boy |
| `NestedPower`, `NestedUnserialize` | the calls of the program thread, with what they do to the Game Boy |

What the composition shows about the code: with the Game Boy in STOP its CPU's thread
never comes to the top of its loop and a save of the Super Famicom never completes, so
`NestedSaveCompletes` is conditional; in HALT each entry of the inner scheduler executes
clocks, so a save of a halted Game Boy runs it, and what it runs is counted and charged
afterwards. Bit 7 falling only stops the Game Boy from being run; a save runs it to its
safe point all the same.

### FamicomSound

`turn` says which of the two cothreads runs; each `CpuRead` or write is one bus access,
each `ApuMain` one pass of `APU::main()`, in the order of the code: channels, then the
frame counter and the units it clocks.

| Variables | Code |
|---|---|
| `cpu` | `io.rdyLine`, `rdyAddrValid`, `apuLine`; where the byte in `mdr` comes from, the read that RDY keeps waiting, and the writes in a row before it |
| `pulse`, `triangle`, `noise` | their length counter, envelope, sweep, linear counter and shift register; a sweep's shift is kept as the power of two it divides by, the shift register by its top bit |
| `dmc` | `lengthCounter`, `irqPending`, `period` and its counter, `delay` (`dmaDelayCounter`), `bitCounter`, `full` (`dmaBufferValid`), `playing` (`sampleValid`); `fetched` is history: the byte in the buffer was read at the sample's address |
| `frame` | `FrameCounter` |
| `enabled` | `enabledChannels` |
| `program` | which registers this program writes: one of `Programs` |

`Fetch`, `PutOut` and `BeginFetch` are the three parts of `DMC::clock()`; each `Write...`
is a case of `writeIO()`; `ReadIO` is `readIO()`; `Power` and `Load` are the calls of the
system. Seen while translating: on a Dendy a write of 0x4017 loads the divider with
`NtscPeriod` where the pass uses `PalPeriod`; the test `pulsePeriod > 0x7ff` of
`Sweep::checkPeriod()` can not hold for a `uint11`.

Most counters here are decremented and then compared with 0, so that one which is 0 would
wrap and go on for a whole round. `SoundTypeOK` says of the sweep, the noise channel, the
sample channel and the frame that it never happens. Of an envelope it does: `power()` sets
`decayCounter` to 0 and the first `clock()` without a reload makes it 255. What the property
says of an envelope (`EnvelopeOK`) is that no decay is stretched by it: as long as the
counter is not within a period of one of the speeds (`Counting`), `decayVolume` is 0, over
writes of the speed in the middle of a period, reloads, loops, resets and loads.

### SuperFamicomCPU

The module is the CPU's thread alone. A unit of time is four clocks, one
`pollInterrupts()`. A cycle of an instruction is an `Edge` (`dmaEdge()`, before it
`lastCycle()` where the cycle is the last one) and an access; a general DMA is a row of
actions between the two.

| Variables | Code |
|---|---|
| `program`, `step`, `cycle` | what the program writes, reads and how it waits; where the thread is in an instruction |
| `clock` | `hcounter()`, `vcounter()`; `hdmaInitTriggered`, `hdmaTriggered` |
| `dma`, `pipe` | `dmaActive`, `dmaPending`, `hdmaPending`, `hdmaMode`, `dmaClocks`; the loop of `dmaRun()`; `spent`, the clocks of an HDMA that are being added up; the byte that `dmaWrite()` delays |
| `channel` | per channel the enable bits, `transferSize` (or the indirect address), `sourceAddress`, `hdmaAddress`, `lineCounter`, `hdmaCompleted`, `hdmaDoTransfer` |
| `irq` | the status of `irq.cpp`: valid, line, hold, transition and pending of the NMI and the IRQ, `irqLock`, `interruptPending`; the I flag and `r.wai` |
| `alu` | `mpyctr`, `divctr`, `shift`, and `rdmpy`, `rddiv` |
| `ghost` | history: the causes of an NMI not yet used, the lines each channel transferred on, the operation the ALU is doing and the value it goes on from, the time waited |

| Actions | Code |
|---|---|
| `Main` | `CPU::main()`: an interrupt or an instruction |
| `Edge` | `dmaEdge()`: a pending HDMA (`HdmaPart`), the beginning of a DMA, the triggers of `timing.cpp` (`Triggers`) |
| `DmaByte`, `DmaClose`, `DmaReturn` | the loops of `dmaRun()`, with a nested `dmaEdge()` after each byte |
| `Plain`, `ReadCPU`, `WriteCPU`, `Wait` | an access, one of 0x4210 or 0x4211, one of a register, WAI |

What the translation shows about the code. `dmaRun()`, `hdmaInit()` and `hdmaRun()` set `irqLock` so that no interrupt is
taken right after them (comment at `sfc/cpu/timing.cpp:176-177`), and the `step()` that
follows always clears it again, so the lock has no effect there. Where a program
withdraws 0x420b or 0x420c before the DMA begins, `dmaActive` stays set and the next DMA
starts without the CPU cycle that the comment at `timing.cpp:80-86` describes for DMA that
is inactive. `ActiveIsPending` lets that happen (`ghost.withdrawn`); it is about the other
ways in which the flag could be left set, by an HDMA that cuts a DMA and by the end of
either, and says that a flag left by a withdrawal is cleared at the end of the next
transfer. A write of 0x4203 or 0x4206 while the ALU is busy begins nothing, but has
already replaced `rdmpy`, and the operation under way goes on from that value: its result
is wrong, in a definite way that `AluResult` states. An IRQ
that is pending together with an NMI is taken in the NMI's handler although that
handler's I flag masks it: `lastCycle()` saw both before the NMI set the flag.

Left out: DRAM refresh, joypad polling, accesses of 6 and of 12 clocks, the IRQ line of a
coprocessor, and the interrupts that power and reset leave pending. An instruction takes
two or three cycles, and there are two channels of the eight.

## 3. Runs

| Run | Properties | What it shows |
|---|---|---|
| `famicom` | `TypeOK`, `NotAhead`, `RunEndsWithFrame`, `ClockAdvances`, `RunCompletes`, `SaveCompletes`, `EveryThreadRuns` | runs, saves, loads and power cycles with a DMC that holds the CPU, a light gun and an idle device (273 thousand states) |
| `famicom_swap` | `SafePoint`, `DanglingOnlyAfterSave`, `OthersFrozen`, `KeepsContract` | the same while ports are replaced, with every reuse of addresses (1.9 million states). Deadlock is not checked: a switch to a freed handle ends the behaviour |
| `super_famicom` | `SafePoint`, `NotAhead`, `SaveCompletes` | a lead, stop instructions of the SMP and the SA-1, and a transfer longer than a frame (571 thousand states) |
| `libretro` | `SessionTypeOK`, `CacheIsCurrent` | no call but the reset leaves a stale cache (180 states: all there are) |
| `super_game_boy` | `NestedTypeOK`, `NestedSafePoint`, `ClocksCharged`, `NestedSwitchesValid`, `NestedRunCompletes`, `NestedSaveCompletes` | the two schedulers, one in the other, with saves, loads, power cycles, resets of the ICD2 and restarts of the Game Boy's picture unit (584 thousand states) |
| `famicom_sound` | `SoundTypeOK`, `SampleIsFetched`, `FetchIsNeeded`, `InterruptLine`, `DisabledIsSilent`, `EveryReadEnds` | the sound unit under several programs, each of which writes a few of its registers at any time (754 thousand states) |
| `super_famicom_cpu` | `ActiveIsPending`, `DmaIsolated`, `HdmaFollowsTable`, `NmiHasCause`, `WaitEnds`, `AluResult`, `MaskedIrqAfterNmi` | general DMA cut by HDMA, and NMI and IRQ raised, acknowledged, masked and waited for, and the ALU, also written while it is busy, over whole frames (2.6 million states) |
| `famicom_sound_load` | `LoadRestores` is violated | a state that is saved and loaded has lost the noise channel |
| `famicom_unplug` | `SwitchIsValid` is violated | save, replace the device, run: control goes to a freed handle |
| `famicom_light_gun` | `LightGunHangs` is violated | a save with a light gun completes, although README.txt says it hangs |
| `super_famicom_stop` | `SaveCompletes` is violated | a stopped CPU makes a save last for ever |
| `libretro_reset` | `SerializesInternalState` is violated | `retro_reset()` keeps the cached state |

Bounds, and why they suffice.
- `Second = 63`, so `Width = 128`. A step is 4 (PPU), 8 (SFC PPU, SA-1), 12 or 16 units, so
  a pass and a frame are well below a second, as in the program, and what wraps there
  (the step of an idle device, the unsigned difference of the SMP) wraps here. The SMP's
  lead is 20, more than one step and less than two.
- A frame has two or three lines and a line two steps; an instruction is one or two
  steps (one where ports are replaced, so that the PPU is in the middle of a line at half
  of the saves), and in the Super Famicom three, so that it spans a frame.
- `TwoDevices`: with two devices every order of a device that is the last of the save
  order and one that is not occurs, and both ports of a Four Score. The third device of a
  Famicom is another idle one; it is present in the violation runs. The theorems hold for
  any number.
- `MaxSaves = 1` save between two runs; a second one starts from a state in which the
  threads are already at the top of their loops.
- `Gens = {0, 1}`: a new handle equals the deleted one or does not. No handle is older
  than one deletion before it is overwritten or used.
- `States` of the session has three values: those of before, of now and of the buffer.

- Super Game Boy: a `CPU::step()` of a few clocks, so that a frame of the Game Boy's picture unit
  and a save cut it in the middle; `CountWidth` small enough for the count to wrap;
  `MaxGap` bounds how far apart the clocks of the CPU and the ICD2 may be when a save or a
  reset is made, and nothing else.
- Famicom sound: `RdyDelay = 4` and at most 3 writes in a row are the program's own
  numbers, and decide the property: with 4 writes the CPU would still be writing when the
  byte is taken. Sample lengths, periods, envelopes and the frame period are small enough
  for every counter to run out and be loaded again. `Programs` writes a few registers in each run:
  two channels share no state but the frame counter.
- Super Famicom CPU: a line of 33 units (an access is 2) and 4 lines, of which one
  is vertical blanking; HDMA is set up at 3 and run at 18, so that a DMA begins
  before, across and after it; `CountHalf = 4` and `SizeWidth = 4` let the line counter,
  its repeat flag and a DMA size of 0 (which transfers the most) occur; two channels
  so that one may be done while the other goes on. `FactorBits = 3` and the
  operands of `AluProgram` (5 and 7 by 0 and 7, 29 and 63 by 0 and 5) let a sum carry, a
  division have a remainder or a divisor 0, and a write fall into any step of either
  operation, where a multiplication that goes on from a dividend may exceed `rdmpy` and
  wrap. `MCSuperFamicomCPU` has seven programs, of which each
  behaviour runs one; what two of them do to each other is not explored.

Fairness: `WF(Proceed)` says that a call that was made goes on (the machine executes
instructions), `WF(Run)` that the frontend's main loop keeps calling `run()`. There is no
fairness for a particular thread: a cooperative thread gets the processor only when
another switches to it, and `EveryThreadRuns` shows that it does. Whether a stop
instruction is met, how long a pass is and what the frontend saves is left open.

`FairSpec` of `FamicomSound` has `WF(ApuMain)`, as the two cothreads hand over to each
other after every access, and `WF(CpuRead)`: a read that RDY holds is carried on by the
CPU itself. `NestedFairSpec` is `FairSpec` of `Scheduler`. `SuperFamicomCPU` states no
fairness: that a wait for an interrupt ends is a bound on the time it takes (`WaitEnds`),
an invariant.

Two properties have limits that are part of what they say. `NotAhead` is about the
primary thread and its peers, and leaves out the thread the scheduler was entered
through and a thread synchronized alone: these do step ahead, by design. `ClockAdvances`
leaves out devices that step a whole second at a time: the clock of such a device does
wrap if it steps twice.

## 4. Theorems

Each is proved for every value of the constants that the named assumptions of its module
allow; where a theorem needs more, the hypothesis is part of its statement.

### The scheduler (`SchedulerProofs`)

For every set of threads, synchronization graph, lead, order of power-on and of saving,
number of steps, frame layout, set of generations and bound of saves. The assumptions are
the three of `Scheduler`: the threads are finite in number and differ from the program
thread; the primary thread is not a device; every thread has a peer and is powered;
`runToSave()` synchronizes the primary thread first and only once; numbers are natural.

- `TypeCorrect`: `Spec => []TypeOK`. The inductive invariant `TypeInv` adds that a thread
  that is about to step has steps left (`WorkLeft`), so that `work` stays a natural
  number; the lemma `Least` shows that the minimum `exit()` looks for exists, so that no
  clock goes below zero.
- `SafePointCorrect`, `RunCorrect`: from `SaveInv`, the conjunction of: the master's
  handle is the primary thread's (`MasterIsPrimary`), the program thread's phase and the
  active cothread agree (`HostRuns`), the mode is that of the call (`ModeOfCall`), the
  thread that exited with `Synchronize` is at the top (`ParkedAtTop`), and so are the ones
  synchronized before it (`EarlierAtTop`). Neither `SafePoint` nor `RunEndsWithFrame` is
  inductive without them: what keeps an earlier thread at the top is the mode in which
  the later one runs. TLC checked `SaveInv` on the configuration of `famicom_swap`.
- `OthersFrozenCorrect`: the action property, from the same invariant.
- `DanglingCorrect`: from `DanglingInv`, which follows the resumed handle: it lives
  unless a save left it and a port was replaced since.
- `SwitchCorrect`: control never goes to a deleted cothread, if no device is replaced
  (`Swaps = {}`). The hypothesis is needed: `famicom_unplug` is a counterexample with one
  replacement.
- `NotAheadCorrect`: `Spec => []NotAhead` for a system in which all threads synchronize
  with the primary one and it with them, without leads (`Star`), each is created once
  (`CreatedOnce`) and none is replaced, as in the Famicom and the Game Boy; the run
  `famicom` satisfies all three. `NearInv` adds to `SaveInv` what makes `NotAhead`
  inductive: the primary thread is near each peer it has synchronized with since its last
  step, except the one that runs (`MasterNear`); a peer that was resumed is near the
  primary thread until its own next step (`PeerNear`); and while a save parks the threads
  one by one the primary thread's clock is near the least (`MasterLow`), so that nothing a
  save or a load does to the others puts it ahead. How long a step is does not matter.
- `ContractKept`: `Spec => KeepsContract`, one lemma per group of actions, under the
  hypothesis that the save order names a thread once. The code breaks it on the
  PlayChoice-10 and the FamicomBox after a soft reset, where `fc/system/system.cpp:203`
  appends the coprocessor again.

### The Super Game Boy (`SuperGameBoyProofs`, `NestedProofs`)

- `ChargesCorrect`: `NestedSpec => []ClocksCharged`, from the three counts being natural
  and from `ModAdd`, which says that a wrapping sum may be taken in parts. No fact about
  either scheduler is needed.
- `NestedTypeCorrect`, `NestedSafePointCorrect`, `NestedSwitchesCorrect`. The lemmas about
  a scheduler are proved once and cited twice: for the Super Famicom's, and through
  `GBP == INSTANCE SchedulerProofs` for the Game Boy's, whose assumptions follow from
  `GameBoyAssumption` and `IcdAssumption` (`InnerAssumptions`). `NestedInv` is the
  conjunction of `OuterInv` and `InnerInv`, what holds of each scheduler alone; `OwedInv`,
  that the Game Boy's CPU is in the middle of an instruction exactly as many clocks as it
  owes, modulo a step; `OwedParked`, that none are owed once it has given its state up;
  `CallInv`, that the inner scheduler is entered just while the ICD2's thread is inside
  the call; and `QuietInv`, that from when the ICD2 has parked until the copy is made the
  Game Boy stays at its safe point. The last is what a unit test would hardly reach: the
  other threads of the Super Famicom still run in between, and one of them may write to
  the ICD2. `IcdAssumption` says that the primary thread is the CPU, that `runToSave()`
  names the ICD2, and who its peer is; `GameBoyAssumption`, that an instruction of the
  Game Boy's CPU is a number of whole `CPU::step()`s (`gb/cpu/memory.cpp` steps 4 clocks at
  a time).

For the type invariant `SchedulerProps` has it in two parts, `ValuesOK` and `TypeOK`: the
ICD2's thread has two more points in its loop than any other, inside the nested calls.

### The Famicom's sound unit (`FamicomSoundProofs`)

- `FetchCorrect`, `InterruptCorrect`, `SampleCorrect`: from `FetchInv`, which adds the
  types of the sample channel, the frame counter and the CPU's lines, and `Timely`.
  `SampleIsFetched` is not inductive: the buffer is filled in a pass of the APU, and what
  makes the byte the right one happened up to `RdyDelay` accesses earlier. `Timely` counts
  them: since RDY went low the CPU has either begun a read, or written once per pass; as
  an instruction writes fewer times in a row than the delay, it reads by the last. The
  assumption `FetchAssumption` says just that, and that a byte has at least one bit. The
  other facts about a pass are lemmas on its three parts (`FetchFacts`, `PutOutFacts`,
  `BeginFetchFacts`).
- `SilenceCorrect`: `SilenceInv` adds only that each channel has a length counter, so it
  holds whatever the tables, the speeds and the widths are.
- `SoundTypeCorrect`: `SoundInv` adds to `FetchInv` the ranges of the units (`UnitsOK`),
  that an envelope which has volume counts within a period (lemma `EnvelopeStays`: a reload
  gives it both, a wrap of the counter needs a counter of 0, which one that counts never has
  before a clock),
  and that the frame counter's divider, which is used up by 2 at a time, stays between 1 and
  twice its period (`DividerOK`). That a sweep does not leave its register and that the
  noise channel's shift register is never 0 are among these ranges. `SoundAssumption`
  gives the tables and the widths of the registers.

### The Super Famicom's CPU (`SuperFamicomCPUProofs`)

- `ActiveCorrect`, `IsolatedCorrect`, `NmiCorrect`, `MaskedCorrect`, `AluCorrect`, for any
  number of channels, any tables and transfer lengths, any timing and any program. The
  invariant `CpuInv` says, where an instruction is about to do something, that no byte is
  in the pipe and that what is pending or active has channels or was withdrawn
  (`Resting`); in `dmaRun()`, that the channels before the one it is at are done and none
  is pending (`Running`); that the causes of an NMI not yet used pay for the hold, the
  transition and the pending flag (`Accounted`); that an IRQ which is pending was not masked
  when it was tested, or follows an NMI (`IrqHeld`); and what the ALU has done so far
  (`AluOK`).
- What one step of the CPU does is itself many loops: over the units of time, the bytes of
  a transfer and the channels. They are recursive functions, and what is proved about them
  is proved by induction over their index, through the lemma `SetInduction` of the module
  `Induction`, since the library's induction theorems cannot be cited here. Each loop is
  first shown to exist as a function (`AfterExists`, `MovedExists`, `TurnedExists`), then
  to preserve a relation between the state before and after (`Same`, `Later`, `Follows`,
  `Triggered`).
- `AluCorrect` is the classical argument for an adder that works a digit at a time, with
  the widths left open. `Multiplying` says that the first factor is `q * p + r`, of which
  `r` has been multiplied, and that `rdmpy` is the value it began with plus `r * b`, modulo
  its width (`ModAdd`); `Dividing`, that the dividend is the quotient so far times the
  shifted divisor plus the rest, which is less than that divisor, or the quotient so far
  has only ones. Both hold when a write starts an operation and are kept by every
  `aluEdge()`. A write while the ALU is busy puts another value into `rdmpy`: both then hold
  of what is left, the digits of the factor not yet multiplied (`MultiplyResumes`) and the
  steps and digits of the quotient not yet found (`DivideResumes`), which is what `Resumed`
  records. At the end they are the product, and the quotient and the remainder; a division
  by zero is one whose quotient has only ones.
- `WaitCorrect`: `Spec => []WaitEnds` if no program that uses WAI enables DMA, as none of
  the checked ones does (a transfer takes what time it takes, and the bound would have to
  name it). `WaitInvariant` adds to `CpuInv` that the latch of the vertical blanking is up
  just when the position is past its beginning (`Timed`), that the CPU waits only at the
  cycle that tests for an interrupt before each access, with the lock released
  (`WaitOK`), and how long it has waited: no longer than the last vertical blanking is
  past, unless one began since the last test, and then the transition is up or the hold is
  about to raise it (`Near`). The next test, or the one after it, then ends the wait,
  within a frame and an access of its beginning. A reading of 0x4210 before the wait, or
  an NMI enabled in the middle of the vertical blanking, changes nothing: neither touches
  the latch.
- `CpuAssumption` bounds the positions on a line and the length of an access, and says of a
  program that what it writes has the width of the register.

### H-DMA and its tables (`HdmaProofs`)

`HdmaCorrect`: `Spec => []HdmaFollowsTable`, for every number of channels, every table (its
entries, their repeat flags, direct or indirect, any transfer length) and every program:
whatever accesses, DMA and other channels H-DMA comes between, a channel that was enabled
when the frame began, and since, transfers on just the lines its table says.

- The invariant is `CpuInv /\ HdmaHolds`. `HdmaFollowsTable` counts the transfers
  a channel has made once a line's H-DMA is done, and says nothing of its table's state,
  nor of time: it is far from inductive. `HdmaHolds` has two halves. `OnTable` says where each such
  channel is: at the line that is counted (`Counted`: the lines whose H-DMA is done) of its
  table, in one of its entries with the count, flag and address that entry has left
  (`AtEntry`), or past its end (`Reads`), and its transfers so far are those the table
  says of the lines before. `OnTime` says that the two events of `dmaEdge()`, set-up and
  transfer, come neither twice nor never: how many units may pass until `dmaEdge()` next
  looks for an H-DMA (`ToLook`) and until it has done a pending one (`ToServe`), in each of
  the steps the CPU may be in, and that this is soon enough for the line.
- The argument. *Tables*: the lines at which entries start, and their addresses, are sums
  over the entries; these are shown to exist and to grow (`EntrySums`, by induction over
  the length), so that the entry a channel is in is determined, a count that runs out is
  followed by the next entry (`ReadsLoad`, `ReadsCount`), and a repeat flag by a transfer
  on each line (`ReadsMove`). Counts and addresses wrap at the widths of their registers.
  *Channels*: `hdmaRun()` is two loops, first the transfers and then the counts; each is
  followed over the channels with the same lemmas (`Lined`), as no channel touches
  what another one keeps. *Time*: the loops take no more than `MoveTime` and `CountTime`
  (`TimeSums`), and in so many units neither event fires again. *Steps*: one lemma for
  each action (`NextHdma`).
- `HdmaAssumption` is what it needs of the constants. One unit is 4 clocks. An access takes
  up to 3 units (the code's take 6, 8 or 12 clocks). The set-up position, an access and the
  8 units that a DMA lets pass are done before the transfer position; that position and the
  same delay, before the line ends. A set-up of all channels, and a transfer of all of
  them, fit into a line with a delay at each end. And a channel's memory holds its table,
  as far as a frame reads it. In the program the positions are 12 to 20 and 1104 clocks, the
  line is 1364, 8 channels take at most 8 * 24 clocks to load or
  count and 8 * 4 * 8 to transfer, and an access with what follows it at most 44: every
  inequality holds with a wide margin. The memory is a constant of the channel in the
  model: a program that rewrites its table while it is read is left out.

### The libretro session (`LibretroProofs`)

- `CacheCorrect` and `SessionTypeCorrect`: `Spec => []CacheIsCurrent` and
  `Spec => []SessionTypeOK`, which together are inductive.

### Only model-checked

- The liveness properties (`RunCompletes`, `SaveCompletes`, `EveryThreadRuns`,
  `NestedRunCompletes`, `NestedSaveCompletes`, `EveryReadEnds`), which depend on fairness.
- `ClockAdvances`, which holds only if a frame and the spread of the clocks are short
  against a second: it needs a bound on how long each thread can go without synchronizing.
- `NotAhead` in a system with leads (the Super Famicom), where the SMP is between two peers.
- Every other property of a passing run is stated by a theorem.

## 5. Findings

1. `emulator/scheduler.hpp:44`: `_resume` may be the handle of a deleted device.
   `libco/doc/usage.html:95` does not allow the switch. Whether it crashes depends on
   `malloc`; `DanglingOnlyAfterSave` says it needs a save just before.
2. `processor/wdc65816/instructions-other.cpp:69`: a stopped primary CPU cannot be saved.
3. `README.txt:92-93` lists a hang with light guns that the code does not have.
4. `target-libretro/libretro.cpp:462`: a reset keeps the cached state.
5. `fc/apu/serialization.cpp:6`: the noise channel is not part of a saved state, though it
   has a `serialize()` of its own. What is contradicted is `fc/system/serialization.cpp:70-71`
   (the dry run counts "exactly how many bytes are needed to save state for this cartridge")
   and `nall/serializer.hpp:3,8,11` (a serializer saves and restores "the state of classes",
   and "complex classes must provide" a `serialize()`, as this one does); the frontend then
   reports the state as loaded (`target-nSide-t/program/state.cpp:23`).

Seen on the way and not modelled: `target-libretro/libretro.cpp:498` refuses a buffer that is
larger than needed, where `libretro.h:2146` names only a smaller one as a failure.

## 6. Not modelled, and why

`PROJECT.json` has the list. In short: instruction semantics, pixels and samples are data
no property here tells apart; hiro, ruby, the importers and the editors are I/O; loading
and saving of files is I/O; the other cores are further sets of constants for
`Scheduler`, except for those that need new actions (below). The repository is very large,
and most of its lines are such data, tables, drawing code and generated resources; the
map covers the part that keeps the state above.

## 7. Plan

In order of importance; done items first.

1. Done: `Scheduler`, its properties, `SaveContract`, the Famicom and the Super Famicom,
   the libretro session; `SuperGameBoy`, with the ICD2 and the Game Boy's LCD-off restart;
   `FamicomSound`; DMA, HDMA, interrupts and the ALU of the Super Famicom; the theorems of
   section 4.
2. Threads created while others run: an action for `PlayChoice10` and `FamicomBox`
   resets; the PC10, VS. System (two primary candidates, RDY of `cpuS`) and FamicomBox
   topologies; soft reset and the growing coprocessor list.
3. Topologies whose `runToSave()` leaves threads out: Mega Drive, Master System, PC
   Engine.
4. Controller protocols: gamepad latch and shift, Four Score, Super Multitap; an abstract
   shift register each of them implements.
5. `EpsonRTC` and `SharpRTC` (command states, calendars), flash and EEPROM chips.
6. Mapper interrupt counters; Game Boy timers and MBC.
7. Audio mixing (`Audio::process`); nall's containers as functions against references.
8. The order of calls of a user interface.

Theorems to add: bounds of `clock` that imply `ClockAdvances` from assumptions on the
steps and the lines; `NotAhead` with leads; the invariants of items 2, 4 and 5 as they
are written, and the refinements of item 4.
