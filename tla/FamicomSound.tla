----------------------------- MODULE FamicomSound -----------------------------
(***************************************************************************)
(* The sound unit of a Famicom (fc/apu) and the side of its CPU that it    *)
(* reaches: the RDY line it pulls low to fetch a sample, and its interrupt *)
(* line (fc/cpu).  The CPU's cothread and the APU's alternate: one access  *)
(* of the CPU, one pass of APU::main().                                    *)
(*                                                                         *)
(* What the channels put out is left out, and so are the registers that    *)
(* only shape it (duty, volume, the periods of a pulse and the triangle).  *)
(***************************************************************************)
EXTENDS Integers, FiniteSets

CONSTANTS
  Programs,      \* what a program does: the registers it writes, the bits of 0x4015 it ever
                 \* sets, the addresses it reads, and the write cycles its instructions make
                 \* in a row; one of them is chosen
  RdyDelay,      \* passes of DMC::clock() from RDY low to the byte
  SampleLengths, \* bytes a sample may have, of (lengthLatch << 4) + 1
  DmcPeriods,    \* the period table of the sample channel
  Bits,          \* bits of a byte: the range of uint3 bitCounter
  FramePeriod,   \* FrameCounter::NtscPeriod
  Lengths,       \* lengthCounterTable
  Speeds,        \* the speeds of an envelope, and the periods of a sweep
  ByteWidth,     \* the width of the envelope's decayCounter, a uint8
  VolumeMax,     \* 0x0f
  Divisors,      \* 2^shift, for each shift of a sweep: what it divides the period by
  Timers,        \* pulse periods a program writes
  TimerWidth,    \* the width of pulsePeriod, a uint11
  LinearLengths, \* the linear lengths of the triangle
  LfsrTop,       \* the top bit of the noise channel's shift register, 1 << 14
  ShortTap,      \* the bit of its second tap in short mode, 1 << 6
  NoisePeriods   \* the period table of the noise channel

Channels == {"pulse0", "pulse1", "triangle", "noise"}

ASSUME SoundAssumption ==
  /\ Programs \subseteq [regs : SUBSET STRING, bits : SUBSET (Channels \cup {"dmc"}),
                          reads : SUBSET {"rom", "4015"}, row : Nat]
  /\ {VolumeMax, TimerWidth, LfsrTop} \subseteq Nat \ {0}
  /\ {FramePeriod, ByteWidth, ShortTap} \subseteq Nat \ {0, 1}
  /\ {SampleLengths, DmcPeriods, NoisePeriods, Lengths, Divisors} \subseteq SUBSET (Nat \ {0})
  /\ SampleLengths # {} /\ DmcPeriods # {} /\ NoisePeriods # {}
  /\ Speeds \subseteq 0 .. ByteWidth - 2 /\ Timers \subseteq 0 .. TimerWidth - 1
  /\ LinearLengths \subseteq Nat
  /\ \A p \in DmcPeriods : RdyDelay < Bits * p

\* The 6502 writes at most three times in a row, as it takes an interrupt.
ASSUME FetchAssumption ==
  /\ RdyDelay \in Nat /\ RdyDelay > 1 /\ Bits \in Nat \ {0}
  /\ \A p \in Programs : p.row < RdyDelay

VARIABLES
  turn,      \* the thread that runs, "cpu" or "apu"
  program,   \* the registers this program writes
  cpu,       \* io.rdyLine, rdyAddrValid, apuLine; where the byte in mdr comes from; the
             \* read under way and the writes in a row before it
  enabled,   \* enabledChannels, but for bit 4
  pulse,     \* pulse[0], pulse[1]
  triangle, noise, dmc,
  frame      \* the frame counter

units == << enabled, pulse, triangle, noise, dmc, frame >>
vars  == << turn, program, cpu, units >>

Flag(b)  == IF b THEN 1 ELSE 0
Wrap(x, w) == x % w

-----------------------------------------------------------------------------
(* The units *)

\* Envelope::power(), Sweep::power(false), and the power() of each channel.
EnvelopeOff == [speed |-> 0, loop |-> FALSE, reload |-> FALSE, counter |-> 0, volume |-> 0]
SweepOff    == [divisor |-> 1, decrement |-> FALSE, period |-> 0, counter |-> 1,
                enable |-> FALSE, reload |-> FALSE, timer |-> 0]
PulseOff    == [length |-> 0, env |-> EnvelopeOff, sweep |-> SweepOff]
TriangleOff == [length |-> 0, halt |-> FALSE, linear |-> 0, counter |-> 0, reload |-> FALSE]
NoiseOff    == [length |-> 0, env |-> EnvelopeOff, period |-> CHOOSE p \in NoisePeriods : TRUE,
                counter |-> 1, short |-> FALSE, lfsr |-> 1]
DmcOff      == [length |-> 0, irq |-> FALSE, period |-> CHOOSE p \in DmcPeriods : TRUE,
                counter |-> CHOOSE p \in DmcPeriods : TRUE, irqEnable |-> FALSE,
                loop |-> FALSE, latch |-> CHOOSE n \in SampleLengths : TRUE, delay |-> 0,
                bit |-> 0, full |-> FALSE, fetched |-> TRUE, playing |-> FALSE]
FrameOff    == [irq |-> FALSE, mode |-> 0, counter |-> 0, divider |-> 1]
CpuOff      == [rdy |-> TRUE, address |-> FALSE, line |-> FALSE, mdr |-> "data",
                read |-> "none", writes |-> 0]

\* Mutant: the counter is not started again when the decay is.
EnvelopeClockStale(e) ==
  LET c == Wrap(e.counter - 1, ByteWidth) IN
  IF e.reload
    THEN [e EXCEPT !.reload = FALSE, !.volume = VolumeMax]
    ELSE IF c # 0 THEN [e EXCEPT !.counter = c]
    ELSE [e EXCEPT !.counter = e.speed + 1,
                   !.volume = IF @ > 0 \/ e.loop THEN Wrap(@ - 1, VolumeMax + 1) ELSE @]

\* Envelope::clock(): decayVolume is a uint4 and wraps to its maximum when it loops.
EnvelopeClock(e) ==
  LET c == Wrap(e.counter - 1, ByteWidth) IN
  IF e.reload
    THEN [e EXCEPT !.reload = FALSE, !.volume = VolumeMax, !.counter = e.speed + 1]
    ELSE IF c # 0 THEN [e EXCEPT !.counter = c]
    ELSE [e EXCEPT !.counter = e.speed + 1,
                   !.volume = IF @ > 0 \/ e.loop THEN Wrap(@ - 1, VolumeMax + 1) ELSE @]

\* Sweep::clock() of channel n: the counter is tested first, and reloaded last.
SweepClock(s, n) ==
  LET due   == s.counter = 1
      delta == s.timer \div s.divisor
      moved == IF s.decrement THEN s.timer - delta - Flag(n = 0)
               ELSE IF s.timer + delta < TimerWidth THEN s.timer + delta ELSE s.timer
  IN  [s EXCEPT !.counter = IF due \/ s.reload THEN s.period + 1 ELSE @ - 1,
                !.timer = IF due /\ s.enable /\ s.divisor > 1 /\ s.timer > 8 THEN moved ELSE @,
                !.reload = FALSE]

\* clockLength() of a channel whose length counter is halted by h.
LengthClock(n, h) == IF ~h /\ n > 0 THEN n - 1 ELSE n

TriangleLinearClock(t) ==
  [t EXCEPT !.counter = IF t.reload THEN t.linear ELSE IF @ > 0 THEN @ - 1 ELSE @,
            !.reload = @ /\ t.halt]

\* The bit shifted into the shift register, of LFSR bits 0 and 1, or 0 and 6.
NoiseFeedback(n) == (n.lfsr + n.lfsr \div (IF n.short THEN ShortTap ELSE 2)) % 2

\* Noise::clock()
NoiseClock(n) ==
  IF n.length = 0 THEN n
  ELSE IF n.counter > 1 THEN [n EXCEPT !.counter = @ - 1]
  ELSE [n EXCEPT !.counter = n.period,
                 !.lfsr = (@ \div 2) + NoiseFeedback(n) * LfsrTop]

-----------------------------------------------------------------------------
(* The sample channel.  Each operator gives the channel and the CPU after it. *)

\* DMC::start() and stop()
Start(d) == IF d.length = 0 THEN [d EXCEPT !.length = d.latch] ELSE d

Stop(d, c) == [d |-> [d EXCEPT !.length = 0, !.delay = 0],
               c |-> [c EXCEPT !.rdy = TRUE, !.address = FALSE]]

\* The byte arrives: the CPU's data bus holds it if its last read was at the address.
Arrive(d, c) ==
  LET left == d.length - 1 IN
  [d EXCEPT !.full = TRUE, !.fetched = (c.mdr = "sample"), !.delay = 0,
            !.length = IF left = 0 /\ d.loop THEN d.latch ELSE left,
            !.irq = @ \/ (left = 0 /\ ~d.loop /\ d.irqEnable)]

\* Mutant: RDY stays low once the byte has arrived.
FetchHoldingRdy(d, c) ==
  IF d.delay = 0 THEN [d |-> d, c |-> c]
  ELSE IF d.delay = 1 THEN [d |-> Arrive(d, c), c |-> [c EXCEPT !.address = FALSE]]
  ELSE [d |-> [d EXCEPT !.delay = @ - 1], c |-> [c EXCEPT !.address = @ \/ d.delay = 2]]

\* Mutant: the byte is taken in the pass that puts out its address.
FetchEarly(d, c) ==
  IF d.delay = 0 THEN [d |-> d, c |-> c]
  ELSE IF d.delay = 2 THEN [d |-> Arrive(d, c), c |-> [c EXCEPT !.rdy = TRUE, !.address = FALSE]]
  ELSE [d |-> [d EXCEPT !.delay = @ - 1], c |-> c]

\* DMC::clock(), first part: a fetch under way.
Fetch(d, c) ==
  IF d.delay = 0 THEN [d |-> d, c |-> c]
  ELSE IF d.delay = 1 THEN [d |-> Arrive(d, c), c |-> [c EXCEPT !.rdy = TRUE, !.address = FALSE]]
  ELSE [d |-> [d EXCEPT !.delay = @ - 1], c |-> [c EXCEPT !.address = @ \/ d.delay = 2]]

\* Second part: a bit is put out, and with the last one the buffer is emptied.
PutOut(d) ==
  LET b == (d.bit + 1) % Bits IN
  IF d.counter > 1 THEN [d EXCEPT !.counter = @ - 1]
  ELSE [d EXCEPT !.counter = d.period, !.bit = b,
                 !.playing = IF b = 0 THEN d.full ELSE @,
                 !.full = @ /\ b # 0]

\* Mutant: a full buffer does not keep the next fetch back.
BeginFetchAlways(d, c) ==
  IF d.length > 0 /\ d.delay = 0
    THEN [d |-> [d EXCEPT !.delay = RdyDelay], c |-> [c EXCEPT !.rdy = FALSE]]
    ELSE [d |-> d, c |-> c]

\* Third part: a fetch begins.
BeginFetch(d, c) ==
  IF d.length > 0 /\ ~d.full /\ d.delay = 0
    THEN [d |-> [d EXCEPT !.delay = RdyDelay], c |-> [c EXCEPT !.rdy = FALSE]]
    ELSE [d |-> d, c |-> c]

DmcClock(d, c) == LET f == Fetch(d, c) IN BeginFetch(PutOut(f.d), f.c)

\* Mutant: the interrupt line is what it was.
SetIRQNot(c, f, d) == c

\* APU::setIRQ()
SetIRQ(c, f, d) == [c EXCEPT !.line = f.irq \/ d.irq]

-----------------------------------------------------------------------------
(* The frame counter *)

\* clockFrameCounter(), but for the units it clocks: the counter is a uint2.
FrameClock(f) ==
  LET n == (f.counter + 1) % 4 IN
  [f EXCEPT !.counter = n,
            !.divider = IF n = 0 /\ f.mode >= 2 THEN @ + FramePeriod ELSE @,
            !.irq = @ \/ (n = 0 /\ f.mode = 0)]

\* The units it clocks: the lengths and the sweeps every other time.
Clocked(half) ==
  /\ pulse' = [n \in 0 .. 1 |->
       [pulse[n] EXCEPT !.env = EnvelopeClock(@),
                        !.length = IF half THEN LengthClock(@, pulse[n].env.loop) ELSE @,
                        !.sweep = IF half THEN SweepClock(@, n) ELSE @]]
  /\ triangle' = TriangleLinearClock(
       [triangle EXCEPT !.length = IF half THEN LengthClock(@, triangle.halt) ELSE @])

NoiseClocked(half, n) ==
  [n EXCEPT !.env = EnvelopeClock(@),
            !.length = IF half THEN LengthClock(@, n.env.loop) ELSE @]

\* One pass of APU::main(): the channels, then the frame counter's divider.
ApuMain ==
  /\ turn = "apu"
  /\ turn' = "cpu"
  /\ LET ticked == [frame EXCEPT !.divider = @ - 2]
         due    == ticked.divider <= 0
         f      == FrameClock(ticked)
         half   == f.counter % 2 = 1
         fetch  == DmcClock(dmc, cpu)
         n      == NoiseClock(noise)
     IN  /\ dmc' = fetch.d
         /\ frame' = IF due THEN [f EXCEPT !.divider = @ + FramePeriod] ELSE ticked
         /\ cpu' = IF frame'.irq # frame.irq \/ fetch.d.irq # dmc.irq
                     THEN SetIRQ(fetch.c, frame', fetch.d) ELSE fetch.c
         /\ noise' = IF due THEN NoiseClocked(half, n) ELSE n
         /\ IF due THEN Clocked(half) ELSE UNCHANGED << pulse, triangle >>
  /\ UNCHANGED << program, enabled >>

-----------------------------------------------------------------------------
(* The CPU's accesses *)

\* readIO(): a read of the status at 0x4015 drops the frame counter's interrupt.
ReadIO(addr, c) ==
  IF addr = "4015" THEN frame' = [frame EXCEPT !.irq = FALSE] /\ cpu' = SetIRQ(c, frame', dmc)
                   ELSE cpu' = c /\ UNCHANGED frame

\* A cycle of CPU::read(): while RDY is low it reads what the sample channel asks for, or
\* the address of its own read, and then reads that address again.
CpuRead ==
  /\ turn = "cpu" /\ turn' = "apu"
  /\ \E addr \in IF cpu.read = "none" THEN program.reads ELSE {cpu.read} :
       LET fetching == ~cpu.rdy /\ cpu.address
       IN  ReadIO(IF fetching THEN "rom" ELSE addr,
                  [cpu EXCEPT !.mdr = IF fetching THEN "sample" ELSE "data",
                              !.read = IF cpu.rdy THEN "none" ELSE addr, !.writes = 0])
  /\ UNCHANGED << program, enabled, pulse, triangle, noise, dmc >>

Writes(reg) ==
  /\ turn = "cpu" /\ turn' = "apu"
  /\ reg \in program.regs /\ cpu.read = "none" /\ cpu.writes < program.row
  /\ UNCHANGED program

Written(c) == [c EXCEPT !.mdr = "data", !.writes = @ + 1]

\* A write that does not reach the APU.
WriteOther ==
  /\ Writes("other")
  /\ cpu' = Written(cpu)
  /\ UNCHANGED units

\* 0x4000, 0x4004: the envelope of pulse n.
WritePulseEnvelope(n) ==
  /\ Writes(IF n = 0 THEN "4000" ELSE "4004")
  /\ cpu' = Written(cpu)
  /\ \E s \in Speeds, b \in BOOLEAN :
       pulse' = [pulse EXCEPT ![n].env.speed = s, ![n].env.loop = b]
  /\ UNCHANGED << enabled, triangle, noise, dmc, frame >>

\* 0x4001, 0x4005: its sweep.
WritePulseSweep(n) ==
  /\ Writes(IF n = 0 THEN "4001" ELSE "4005")
  /\ cpu' = Written(cpu)
  /\ \E e, b \in BOOLEAN, p \in Speeds, d \in Divisors :
       pulse' = [pulse EXCEPT ![n].sweep = [@ EXCEPT !.enable = e, !.decrement = b,
                                              !.period = p, !.divisor = d, !.reload = TRUE]]
  /\ UNCHANGED << enabled, triangle, noise, dmc, frame >>

\* Mutant: the channel need not be enabled.
LoadedAlways(c, n) == Lengths

\* The length counter of channel c after a write that loads it.
Loaded(c, n) == IF c \in enabled THEN Lengths ELSE {n}

\* 0x4002, 0x4006: the low bits of its period.
WritePulseTimer(n) ==
  /\ Writes(IF n = 0 THEN "4002" ELSE "4006")
  /\ cpu' = Written(cpu)
  /\ \E t \in Timers : pulse' = [pulse EXCEPT ![n].sweep.timer = t]
  /\ UNCHANGED << enabled, triangle, noise, dmc, frame >>

\* 0x4003, 0x4007: the high bits, and its length.
WritePulseLength(n) ==
  /\ Writes(IF n = 0 THEN "4003" ELSE "4007")
  /\ cpu' = Written(cpu)
  /\ \E t \in Timers, l \in Loaded(IF n = 0 THEN "pulse0" ELSE "pulse1", pulse[n].length) :
       pulse' = [pulse EXCEPT ![n].sweep.timer = t, ![n].env.reload = TRUE, ![n].length = l]
  /\ UNCHANGED << enabled, triangle, noise, dmc, frame >>

\* 0x4008 and 0x400b: the linear and the length counter of the triangle.
WriteTriangleLinear ==
  /\ Writes("4008")
  /\ cpu' = Written(cpu)
  /\ \E n \in LinearLengths, h \in BOOLEAN :
       triangle' = [triangle EXCEPT !.linear = n, !.halt = h]
  /\ UNCHANGED << enabled, pulse, noise, dmc, frame >>

WriteTriangleTimer ==
  /\ Writes("400b")
  /\ cpu' = Written(cpu)
  /\ \E l \in Loaded("triangle", triangle.length) :
       triangle' = [triangle EXCEPT !.reload = TRUE, !.length = l]
  /\ UNCHANGED << enabled, pulse, noise, dmc, frame >>

\* 0x400c, 0x400e and 0x400f: the noise channel.
WriteNoiseEnvelope ==
  /\ Writes("400c")
  /\ cpu' = Written(cpu)
  /\ \E s \in Speeds, b \in BOOLEAN :
       noise' = [noise EXCEPT !.env.speed = s, !.env.loop = b]
  /\ UNCHANGED << enabled, pulse, triangle, dmc, frame >>

WriteNoisePeriod ==
  /\ Writes("400e")
  /\ cpu' = Written(cpu)
  /\ \E p \in NoisePeriods, b \in BOOLEAN :
       noise' = [noise EXCEPT !.period = p, !.short = b]
  /\ UNCHANGED << enabled, pulse, triangle, dmc, frame >>

WriteNoiseLength ==
  /\ Writes("400f")
  /\ cpu' = Written(cpu)
  /\ \E l \in Loaded("noise", noise.length) :
       noise' = [noise EXCEPT !.env.reload = TRUE, !.length = l]
  /\ UNCHANGED << enabled, pulse, triangle, dmc, frame >>

\* 0x4010: the mode of the sample channel; an interrupt it no longer wants is dropped.
WriteDmcMode ==
  /\ Writes("4010")
  /\ \E i, b \in BOOLEAN, p \in DmcPeriods :
       dmc' = [dmc EXCEPT !.irqEnable = i, !.loop = b, !.period = p, !.irq = @ /\ i /\ ~b]
  /\ cpu' = SetIRQ(Written(cpu), frame, dmc')
  /\ UNCHANGED << enabled, pulse, triangle, noise, frame >>

\* 0x4013: the length of the next sample.
WriteDmcLength ==
  /\ Writes("4013")
  /\ cpu' = Written(cpu)
  /\ \E n \in SampleLengths : dmc' = [dmc EXCEPT !.latch = n]
  /\ UNCHANGED << enabled, pulse, triangle, noise, frame >>

\* 0x4015: the channels in on are enabled, the others are silenced.
WriteEnable ==
  /\ Writes("4015")
  /\ \E on \in SUBSET program.bits :
       LET stopped == Stop(dmc, Written(cpu))
           sample  == "dmc" \in on
           d == IF sample THEN Start(dmc) ELSE stopped.d
       IN  /\ enabled' = on \ {"dmc"}
           /\ pulse' = [n \in 0 .. 1 |->
                [pulse[n] EXCEPT !.length = IF (IF n = 0 THEN "pulse0" ELSE "pulse1") \in on
                                              THEN @ ELSE 0]]
           /\ triangle' = [triangle EXCEPT !.length = IF "triangle" \in on THEN @ ELSE 0]
           /\ noise' = [noise EXCEPT !.length = IF "noise" \in on THEN @ ELSE 0]
           /\ dmc' = [d EXCEPT !.irq = FALSE]
           /\ cpu' = SetIRQ(IF sample THEN Written(cpu) ELSE stopped.c, frame, dmc')
  /\ UNCHANGED frame

\* 0x4017: the mode of the frame counter.
WriteFrame ==
  /\ Writes("4017")
  /\ \E m \in 0 .. 3 :
       LET reset == [frame EXCEPT !.mode = m, !.counter = 0]
           f     == IF m >= 2 THEN FrameClock(reset) ELSE reset
       IN  /\ frame' = [f EXCEPT !.irq = @ /\ m % 2 = 0, !.divider = FramePeriod]
           /\ IF m >= 2 THEN Clocked(TRUE) /\ noise' = NoiseClocked(TRUE, noise)
                        ELSE UNCHANGED << pulse, triangle, noise >>
           /\ cpu' = IF m % 2 = 1 THEN SetIRQ(Written(cpu), frame', dmc) ELSE Written(cpu)
  /\ UNCHANGED << enabled, dmc >>

WriteIO ==
  \/ \E n \in 0 .. 1 : WritePulseEnvelope(n) \/ WritePulseSweep(n)
                     \/ WritePulseTimer(n) \/ WritePulseLength(n)
  \/ WriteTriangleLinear \/ WriteTriangleTimer
  \/ WriteNoiseEnvelope \/ WriteNoisePeriod \/ WriteNoiseLength
  \/ WriteDmcMode \/ WriteDmcLength \/ WriteEnable \/ WriteFrame \/ WriteOther

-----------------------------------------------------------------------------
(* The system *)

\* power(reset) of both: a soft reset leaves the sweeps.
Power(reset) ==
  /\ turn = "cpu" /\ cpu.read = "none"
  /\ cpu' = CpuOff
  /\ enabled' = {}
  /\ pulse' = [n \in 0 .. 1 |-> IF reset THEN [PulseOff EXCEPT !.sweep = pulse[n].sweep]
                                         ELSE PulseOff]
  /\ triangle' = TriangleOff /\ noise' = NoiseOff /\ dmc' = DmcOff /\ frame' = FrameOff
  /\ UNCHANGED << turn, program >>

\* System::unserialize() of the state that was copied just before, between two
\* instructions: power() and then what APU::serialize() and CPU::serialize() restore.
Load ==
  /\ turn = "cpu" /\ cpu.read = "none"
  /\ noise' = NoiseOff
  /\ UNCHANGED << turn, program, cpu, enabled, pulse, triangle, dmc, frame >>

Init ==
  /\ turn = "cpu" /\ program \in Programs
  /\ cpu = CpuOff /\ enabled = {}
  /\ pulse = [n \in 0 .. 1 |-> PulseOff]
  /\ triangle = TriangleOff /\ noise = NoiseOff /\ dmc = DmcOff /\ frame = FrameOff

Next == ApuMain \/ CpuRead \/ WriteIO \/ Load \/ \E reset \in BOOLEAN : Power(reset)

Spec == Init /\ [][Next]_vars

\* Both cothreads run on, and a read that has begun is carried on.
FairSpec == Spec /\ WF_vars(ApuMain) /\ WF_vars(CpuRead)

-----------------------------------------------------------------------------
(* Properties *)

\* The decay counter of e is within a period that clock() began, at its speed or at one the
\* program wrote since.
Counting(e) == \E s \in Speeds \cup {0} : e.counter \in 1 .. s + 1

\* power() leaves the decay counter at 0, so that the first clock() wraps it around to its
\* maximum, longer than any period.  The channel has no volume until a period has begun, and
\* the counter of one that has is within a period.
EnvelopeOK(e) ==
  /\ e.speed \in Speeds \cup {0} /\ e.counter \in 0 .. ByteWidth - 1
  /\ e.volume \in 0 .. VolumeMax
  /\ Counting(e) \/ e.volume = 0

\* Every register holds a value of its type.  The counters of a sweep, the noise channel,
\* the sample channel and the frame, which the code tests after a decrement, are never
\* decremented at 0; an envelope's is, but only while the channel has no decay volume.  A
\* sweep never moves a period out of 11 bits, and the shift register of the noise channel
\* never becomes 0, where it would stay.
SoundTypeOK ==
  /\ turn \in {"cpu", "apu"} /\ program \in Programs /\ enabled \subseteq Channels
  /\ cpu \in [rdy : BOOLEAN, address : BOOLEAN, line : BOOLEAN, mdr : {"data", "sample"},
              read : {"none", "rom", "4015"}, writes : 0 .. program.row]
  /\ \A n \in 0 .. 1 : /\ EnvelopeOK(pulse[n].env) /\ pulse[n].length \in Nat
                       /\ pulse[n].sweep.counter > 0
                       /\ pulse[n].sweep.timer \in 0 .. TimerWidth - 1
  /\ triangle.length \in Nat /\ triangle.counter \in Nat
  /\ EnvelopeOK(noise.env) /\ noise.length \in Nat /\ noise.counter > 0
  /\ noise.lfsr \in 1 .. 2 * LfsrTop - 1
  /\ dmc.length \in Nat /\ dmc.delay \in 0 .. RdyDelay /\ dmc.counter > 0
  /\ frame.counter \in 0 .. 3 /\ frame.divider \in 1 .. 2 * FramePeriod

\* The byte the sample channel takes from the CPU's data bus is the one at its address,
\* however many write cycles kept the CPU from reading it when RDY went low.
SampleIsFetched == dmc.full => dmc.fetched

\* The CPU is held exactly while a byte is fetched, and one is fetched only for a sample
\* that has bytes left and a buffer that is empty: no byte is lost, and the count of those
\* that are left never wraps around.
FetchIsNeeded ==
  /\ cpu.rdy <=> dmc.delay = 0
  /\ cpu.address <=> dmc.delay = 1
  /\ dmc.delay > 0 => dmc.length > 0 /\ ~dmc.full

\* The interrupt line of the CPU is the disjunction of the two flags after every access
\* and every pass, and the sample channel's is set only while the program wants it.
InterruptLine ==
  /\ cpu.line <=> frame.irq \/ dmc.irq
  /\ dmc.irq => dmc.irqEnable /\ ~dmc.loop

\* A channel that 0x4015 disabled is silent: nothing loads its length counter.
DisabledIsSilent ==
  /\ \A n \in 0 .. 1 : (IF n = 0 THEN "pulse0" ELSE "pulse1") \notin enabled
                         => pulse[n].length = 0
  /\ "triangle" \notin enabled => triangle.length = 0
  /\ "noise" \notin enabled => noise.length = 0

\* The sample channel never holds the CPU for good: every read ends.
EveryReadEnds == cpu.read # "none" ~> cpu.read = "none"

\* A load of the state that was just saved restores the sound unit: APU::serialize() both
\* saves and restores the state of its class, as the serializer's comment has it.
LoadRestores == [][Load => UNCHANGED << cpu, units >>]_vars

=============================================================================
