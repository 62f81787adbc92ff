-------------------------- MODULE FamicomSoundProofs --------------------------
(***************************************************************************)
(* Theorems about FamicomSound, for every program whose instructions write *)
(* fewer times in a row than RDY is low before the byte is taken, and for  *)
(* every period, length and width.                                         *)
(***************************************************************************)
EXTENDS FamicomSound, TLAPS

DmcType == [length : Nat, irq : BOOLEAN, period : Nat \ {0}, counter : Nat \ {0},
            irqEnable : BOOLEAN, loop : BOOLEAN, latch : Nat \ {0}, delay : 0 .. RdyDelay,
            bit : Nat, full : BOOLEAN, fetched : BOOLEAN, playing : BOOLEAN]
CpuType == [rdy : BOOLEAN, address : BOOLEAN, line : BOOLEAN, mdr : {"data", "sample"},
            read : {"none", "rom", "4015"}, writes : Nat]
FrameType == [irq : BOOLEAN, mode : 0 .. 3, counter : 0 .. 3, divider : Int]

\* FetchIsNeeded of a sample channel d and a CPU c.
FetchOK(d, c) ==
  /\ c.rdy <=> d.delay = 0
  /\ c.address <=> d.delay = 1
  /\ d.delay > 0 => d.length > 0 /\ ~d.full

\* What the sample channel may want of an interrupt.
WantedIrq(d) == d.irq => d.irqEnable /\ ~d.loop

-----------------------------------------------------------------------------
(* One pass of the sample channel, part by part *)

\* A fetch goes on by one pass; the byte arrives with the last, in an empty buffer.
LEMMA FetchFacts ==
  ASSUME NEW d \in DmcType, NEW c \in CpuType, FetchOK(d, c), WantedIrq(d)
  PROVE  LET f == Fetch(d, c) IN
         /\ f.d \in DmcType /\ f.c \in CpuType
         /\ FetchOK(f.d, f.c) /\ WantedIrq(f.d)
         /\ f.c.line = c.line /\ f.c.mdr = c.mdr /\ f.c.read = c.read /\ f.c.writes = c.writes
         /\ d.delay > 0 => f.d.delay = d.delay - 1
         /\ d.delay = 0 => f.d = d
         /\ f.d.full => (IF d.delay = 1 THEN f.d.fetched = (c.mdr = "sample")
                                        ELSE d.full /\ f.d.fetched = d.fetched)
<1>1. CASE d.delay = 0
  BY <1>1 DEF Fetch, FetchOK, WantedIrq, DmcType, CpuType
<1>0. RdyDelay \in Nat /\ RdyDelay > 1
  BY FetchAssumption
<1>2. CASE d.delay = 1
  <2> DEFINE left == d.length - 1
             length == IF left = 0 /\ d.loop THEN d.latch ELSE left
             wanted == d.irq \/ (left = 0 /\ ~d.loop /\ d.irqEnable)
             taken  == (c.mdr = "sample")
             after  == [d EXCEPT !.full = TRUE, !.fetched = taken, !.delay = 0,
                                 !.length = length, !.irq = wanted]
             freed  == [c EXCEPT !.rdy = TRUE, !.address = FALSE]
  <2>1. length \in Nat /\ wanted \in BOOLEAN /\ taken \in BOOLEAN
        /\ (wanted => d.irqEnable /\ ~d.loop)
    BY <1>2 DEF FetchOK, DmcType, WantedIrq
  <2>2. Fetch(d, c) = [d |-> after, c |-> freed]
    BY <1>2 DEF Fetch, Arrive
  <2>3. freed \in CpuType /\ freed.rdy /\ ~freed.address /\ freed.line = c.line
        /\ freed.mdr = c.mdr /\ freed.read = c.read /\ freed.writes = c.writes
    BY DEF CpuType
  <2>4. after \in DmcType
    <3> HIDE DEF length, wanted, taken
    <3>1. 0 \in 0 .. RdyDelay
      BY <1>0
    <3> DEFINE a == [d EXCEPT !.full = TRUE, !.fetched = taken, !.delay = 0]
    <3>2. a \in DmcType
      BY <2>1, <3>1 DEF DmcType
    <3>3. after = [a EXCEPT !.length = length, !.irq = wanted]
      BY DEF DmcType
    <3> HIDE DEF a
    <3>. QED  BY <2>1, <3>2, <3>3 DEF DmcType
  <2>5. /\ after.delay = 0 /\ after.irq = wanted /\ after.irqEnable = d.irqEnable
        /\ after.loop = d.loop /\ after.fetched = taken /\ after.full
    <3> HIDE DEF length, wanted, taken
    <3>. QED  BY <2>1 DEF DmcType
  <2>6. FetchOK(after, freed) /\ WantedIrq(after)
    <3> HIDE DEF after, freed, length, wanted
    <3>. QED  BY <2>1, <2>3, <2>4, <2>5 DEF FetchOK, WantedIrq, DmcType
  <2> HIDE DEF after, freed
  <2>. QED  BY <1>2, <2>2, <2>3, <2>4, <2>5, <2>6
<1>3. CASE d.delay > 1
  <2> DEFINE after == [d EXCEPT !.delay = @ - 1]
             held  == [c EXCEPT !.address = @ \/ d.delay = 2]
  <2>1. Fetch(d, c) = [d |-> after, c |-> held]
    BY <1>3 DEF Fetch, DmcType
  <2>2. after \in DmcType /\ held \in CpuType
    <3>1. d.delay - 1 \in 0 .. RdyDelay
      BY <1>0, <1>3 DEF DmcType
    <3>2. after \in DmcType
      BY <3>1 DEF DmcType
    <3>3. held \in CpuType
      BY DEF CpuType
    <3>. QED  BY <3>2, <3>3
  <2>3. FetchOK(after, held) /\ WantedIrq(after)
    <3>1. /\ after.delay = d.delay - 1 /\ after.full = d.full /\ after.length = d.length
          /\ after.irq = d.irq /\ after.irqEnable = d.irqEnable /\ after.loop = d.loop
      BY DEF DmcType
    <3>2. c.rdy = FALSE /\ c.address = FALSE /\ d.length > 0 /\ ~d.full
      BY <1>3 DEF FetchOK, CpuType, DmcType
    <3>3. held.rdy = FALSE /\ (held.address <=> d.delay = 2)
      BY <3>2 DEF CpuType
    <3>4. d.delay - 1 > 0 /\ (d.delay - 1 = 1 <=> d.delay = 2)
      BY <1>3 DEF DmcType
    <3> HIDE DEF after, held
    <3>. QED  BY <3>1, <3>2, <3>3, <3>4 DEF FetchOK, WantedIrq
  <2>4. /\ held.line = c.line /\ held.mdr = c.mdr /\ held.read = c.read
        /\ held.writes = c.writes
    BY DEF CpuType
  <2>5. after.delay = d.delay - 1 /\ after.full = d.full /\ after.fetched = d.fetched
    BY DEF DmcType
  <2> HIDE DEF after, held
  <2>. QED  BY <1>3, <2>1, <2>2, <2>3, <2>4, <2>5 DEF DmcType
<1>. QED  BY <1>1, <1>2, <1>3 DEF DmcType

\* A bit is put out: only the buffer may be emptied by it.
LEMMA PutOutFacts ==
  ASSUME NEW d \in DmcType
  PROVE  /\ PutOut(d) \in DmcType
         /\ PutOut(d).length = d.length /\ PutOut(d).delay = d.delay
         /\ PutOut(d).irq = d.irq /\ PutOut(d).irqEnable = d.irqEnable
         /\ PutOut(d).loop = d.loop /\ PutOut(d).fetched = d.fetched
         /\ PutOut(d).full => d.full
<1>1. (d.bit + 1) % Bits \in Nat
  BY FetchAssumption DEF DmcType
<1>2. CASE d.counter > 1
  <2>1. PutOut(d) = [d EXCEPT !.counter = @ - 1]
    BY <1>2 DEF PutOut
  <2>2. d.counter - 1 \in Nat \ {0}
    BY <1>2 DEF DmcType
  <2>. QED  BY <2>1, <2>2 DEF DmcType
<1>3. CASE ~(d.counter > 1)
  <2> DEFINE b == (d.bit + 1) % Bits
  <2>1. PutOut(d) = [d EXCEPT !.counter = d.period, !.bit = b,
                              !.playing = IF b = 0 THEN d.full ELSE @,
                              !.full = @ /\ b # 0]
    BY <1>3 DEF PutOut
  <2>2. b \in Nat /\ (IF b = 0 THEN d.full ELSE d.playing) \in BOOLEAN
        /\ (d.full /\ b # 0) \in BOOLEAN
    BY <1>1 DEF DmcType
  <2> HIDE DEF b
  <2>. QED  BY <2>1, <2>2 DEF DmcType
<1>. QED  BY <1>2, <1>3

\* A fetch begins for a sample that has bytes left and an empty buffer.
LEMMA BeginFetchFacts ==
  ASSUME NEW d \in DmcType, NEW c \in CpuType, FetchOK(d, c), WantedIrq(d)
  PROVE  LET f == BeginFetch(d, c) IN
         /\ f.d \in DmcType /\ f.c \in CpuType
         /\ FetchOK(f.d, f.c) /\ WantedIrq(f.d) /\ f.d.irq = d.irq
         /\ f.c.line = c.line /\ f.c.mdr = c.mdr /\ f.c.read = c.read /\ f.c.writes = c.writes
         /\ f.d.delay > 0 => f.d.delay = RdyDelay \/ f.d.delay = d.delay
         /\ f.d.full = d.full /\ f.d.fetched = d.fetched
<1>1. RdyDelay \in Nat /\ RdyDelay > 1
  BY FetchAssumption
<1>2. CASE d.length > 0 /\ ~d.full /\ d.delay = 0
  <2>1. BeginFetch(d, c) = [d |-> [d EXCEPT !.delay = RdyDelay], c |-> [c EXCEPT !.rdy = FALSE]]
    BY <1>2 DEF BeginFetch
  <2>2. /\ [d EXCEPT !.delay = RdyDelay] \in DmcType
        /\ [c EXCEPT !.rdy = FALSE] \in CpuType
    <3>1. [d EXCEPT !.delay = RdyDelay] \in DmcType
      BY <1>1 DEF DmcType
    <3>2. [c EXCEPT !.rdy = FALSE] \in CpuType
      BY DEF CpuType
    <3>. QED  BY <3>1, <3>2
  <2>3. FetchOK([d EXCEPT !.delay = RdyDelay], [c EXCEPT !.rdy = FALSE])
    BY <1>1, <1>2 DEF FetchOK, DmcType, CpuType
  <2>. QED  BY <2>1, <2>2, <2>3 DEF WantedIrq, DmcType, CpuType
<1>3. CASE ~(d.length > 0 /\ ~d.full /\ d.delay = 0)
  BY <1>3 DEF BeginFetch
<1>. QED  BY <1>2, <1>3

\* A whole pass: what the buffer holds after it, and how far a fetch has come.
LEMMA DmcClockFacts ==
  ASSUME NEW d \in DmcType, NEW c \in CpuType, FetchOK(d, c), WantedIrq(d)
  PROVE  LET f == DmcClock(d, c) IN
         /\ f.d \in DmcType /\ f.c \in CpuType
         /\ FetchOK(f.d, f.c) /\ WantedIrq(f.d)
         /\ f.c.line = c.line /\ f.c.mdr = c.mdr /\ f.c.read = c.read /\ f.c.writes = c.writes
         /\ f.d.delay > 0 => f.d.delay = RdyDelay \/ f.d.delay = d.delay - 1
         /\ f.d.full => (IF d.delay = 1 THEN f.d.fetched = (c.mdr = "sample")
                                        ELSE d.full /\ f.d.fetched = d.fetched)
<1> DEFINE f == Fetch(d, c)
           p == PutOut(f.d)
           b == BeginFetch(p, f.c)
<1>1. /\ f.d \in DmcType /\ f.c \in CpuType
      /\ FetchOK(f.d, f.c) /\ WantedIrq(f.d)
      /\ f.c.line = c.line /\ f.c.mdr = c.mdr /\ f.c.read = c.read /\ f.c.writes = c.writes
      /\ d.delay > 0 => f.d.delay = d.delay - 1
      /\ d.delay = 0 => f.d = d
      /\ f.d.full => (IF d.delay = 1 THEN f.d.fetched = (c.mdr = "sample")
                                     ELSE d.full /\ f.d.fetched = d.fetched)
  BY FetchFacts
<1> HIDE DEF f
<1>2. /\ p \in DmcType /\ p.length = f.d.length /\ p.delay = f.d.delay
      /\ p.irq = f.d.irq /\ p.irqEnable = f.d.irqEnable /\ p.loop = f.d.loop
      /\ p.fetched = f.d.fetched /\ (p.full => f.d.full)
  BY <1>1, PutOutFacts
<1> HIDE DEF p
<1>3. FetchOK(p, f.c) /\ WantedIrq(p)
  BY <1>1, <1>2 DEF FetchOK, WantedIrq
<1>4. /\ b.d \in DmcType /\ b.c \in CpuType
      /\ FetchOK(b.d, b.c) /\ WantedIrq(b.d)
      /\ b.c.line = f.c.line /\ b.c.mdr = f.c.mdr /\ b.c.read = f.c.read
      /\ b.c.writes = f.c.writes
      /\ b.d.delay > 0 => b.d.delay = RdyDelay \/ b.d.delay = p.delay
      /\ b.d.full = p.full /\ b.d.fetched = p.fetched
  BY <1>1, <1>2, <1>3, BeginFetchFacts
<1>5. DmcClock(d, c) = b
  BY DEF DmcClock, f, p
<1> HIDE DEF b
<1>6. d.delay \in Nat
  BY DEF DmcType
<1>7. b.d.delay > 0 => b.d.delay = RdyDelay \/ b.d.delay = d.delay - 1
  BY <1>1, <1>2, <1>4, <1>6
<1>8. b.d.full => (IF d.delay = 1 THEN b.d.fetched = (c.mdr = "sample")
                                  ELSE d.full /\ b.d.fetched = d.fetched)
  BY <1>1, <1>2, <1>4
<1>. QED  BY <1>1, <1>4, <1>5, <1>7, <1>8

-----------------------------------------------------------------------------
(* The inductive invariant of the CPU and the sample channel *)

\* How far a fetch has come: either the CPU waits in a read, or it has only written since
\* RDY went low, once per pass; by the pass that takes the byte it reads the sample.
Timely ==
  /\ dmc.delay > 0 => \/ cpu.read # "none"
                      \/ cpu.writes >= RdyDelay - dmc.delay + Flag(turn = "apu")
  /\ dmc.delay = 1 /\ turn = "apu" => cpu.mdr = "sample"

FetchInv ==
  /\ turn \in {"cpu", "apu"} /\ program \in Programs
  /\ cpu \in CpuType /\ dmc \in DmcType /\ frame \in FrameType
  /\ FetchIsNeeded /\ InterruptLine /\ SampleIsFetched /\ Timely

LEMMA FetchInit == Init => FetchInv
<1> SUFFICES ASSUME Init PROVE FetchInv
  OBVIOUS
<1>0. /\ (CHOOSE p \in DmcPeriods : TRUE) \in Nat \ {0}
      /\ (CHOOSE n \in SampleLengths : TRUE) \in Nat \ {0}
      /\ RdyDelay \in Nat /\ RdyDelay > 1
  BY SoundAssumption, FetchAssumption
<1>1. cpu \in CpuType /\ cpu.rdy /\ ~cpu.address /\ ~cpu.line
  BY DEF Init, CpuOff, CpuType
<1>2. dmc \in DmcType /\ dmc.delay = 0 /\ ~dmc.full /\ ~dmc.irq
  BY <1>0 DEF Init, DmcOff, DmcType
<1>3. frame \in FrameType /\ ~frame.irq
  BY DEF Init, FrameOff, FrameType
<1>4. turn = "cpu" /\ program \in Programs
  BY DEF Init
<1>. QED  BY <1>1, <1>2, <1>3, <1>4
          DEF FetchInv, FetchIsNeeded, InterruptLine, SampleIsFetched, Timely

\* The frame counter's registers keep their ranges.
LEMMA FrameClockType ==
  ASSUME NEW f \in FrameType
  PROVE  FrameClock(f) \in FrameType
<1>1. (f.counter + 1) % 4 \in 0 .. 3 /\ FramePeriod \in Nat
  BY SoundAssumption DEF FrameType
<1> DEFINE n == (f.counter + 1) % 4
           v == IF n = 0 /\ f.mode >= 2 THEN f.divider + FramePeriod ELSE f.divider
           i == f.irq \/ (n = 0 /\ f.mode = 0)
<1>2. v \in Int /\ i \in BOOLEAN /\ n \in 0 .. 3
  BY <1>1 DEF FrameType
<1>3. FrameClock(f) = [f EXCEPT !.counter = n, !.divider = v, !.irq = i]
  BY DEF FrameClock
<1> HIDE DEF n, v, i
<1>. QED  BY <1>2, <1>3 DEF FrameType

\* A pass of the APU: the fetch moves, and the interrupt line follows both flags.
LEMMA ApuMainStep == FetchInv /\ ApuMain => FetchInv'
<1> SUFFICES ASSUME FetchInv, ApuMain PROVE FetchInv'
  OBVIOUS
<1> DEFINE ticked == [frame EXCEPT !.divider = @ - 2]
           due    == ticked.divider <= 0
           f      == FrameClock(ticked)
           fetch  == DmcClock(dmc, cpu)
<1>1. /\ turn = "apu" /\ turn' = "cpu" /\ program' = program
      /\ dmc' = fetch.d
      /\ frame' = IF due THEN [f EXCEPT !.divider = @ + FramePeriod] ELSE ticked
      /\ cpu' = IF frame'.irq # frame.irq \/ fetch.d.irq # dmc.irq
                  THEN SetIRQ(fetch.c, frame', fetch.d) ELSE fetch.c
  BY DEF ApuMain
<1>2. FetchOK(dmc, cpu) /\ WantedIrq(dmc) /\ dmc \in DmcType /\ cpu \in CpuType
  BY DEF FetchInv, FetchIsNeeded, InterruptLine, FetchOK, WantedIrq
<1>3. /\ fetch.d \in DmcType /\ fetch.c \in CpuType
      /\ FetchOK(fetch.d, fetch.c) /\ WantedIrq(fetch.d)
      /\ fetch.c.line = cpu.line /\ fetch.c.mdr = cpu.mdr /\ fetch.c.read = cpu.read
      /\ fetch.c.writes = cpu.writes
      /\ fetch.d.delay > 0 => fetch.d.delay = RdyDelay \/ fetch.d.delay = dmc.delay - 1
      /\ fetch.d.full => (IF dmc.delay = 1 THEN fetch.d.fetched = (cpu.mdr = "sample")
                                           ELSE dmc.full /\ fetch.d.fetched = dmc.fetched)
  BY <1>2, DmcClockFacts
<1>4. frame' \in FrameType
  <2>1. ticked \in FrameType /\ FramePeriod \in Nat
    BY SoundAssumption DEF FetchInv, FrameType
  <2>2. f \in FrameType
    BY <2>1, FrameClockType
  <2> HIDE DEF ticked, f, due
  <2>3. [f EXCEPT !.divider = @ + FramePeriod] \in FrameType
    BY <2>1, <2>2 DEF FrameType
  <2>. QED  BY <1>1, <2>1, <2>2, <2>3
<1> HIDE DEF fetch, ticked, f, due
<1>5. /\ cpu' \in CpuType
      /\ cpu'.rdy = fetch.c.rdy /\ cpu'.address = fetch.c.address
      /\ cpu'.mdr = cpu.mdr /\ cpu'.read = cpu.read /\ cpu'.writes = cpu.writes
      /\ cpu'.line = (frame'.irq \/ dmc'.irq)
  <2>1. /\ frame'.irq \in BOOLEAN /\ frame.irq \in BOOLEAN
        /\ dmc'.irq \in BOOLEAN /\ dmc.irq \in BOOLEAN /\ cpu.line \in BOOLEAN
        /\ (cpu.line <=> frame.irq \/ dmc.irq)
    BY <1>1, <1>2, <1>3, <1>4 DEF FetchInv, InterruptLine, DmcType, FrameType, CpuType
  <2>2. CASE frame'.irq # frame.irq \/ fetch.d.irq # dmc.irq
    <3>1. cpu' = [fetch.c EXCEPT !.line = frame'.irq \/ dmc'.irq]
      BY <1>1, <2>2 DEF SetIRQ
    <3>. QED  BY <1>3, <2>1, <3>1 DEF CpuType
  <2>3. CASE ~(frame'.irq # frame.irq \/ fetch.d.irq # dmc.irq)
    <3>1. cpu' = fetch.c /\ frame'.irq = frame.irq /\ dmc'.irq = dmc.irq
      BY <1>1, <2>3
    <3>. QED  BY <1>3, <2>1, <3>1
  <2>. QED  BY <2>2, <2>3
<1>6. FetchIsNeeded'
  BY <1>1, <1>3, <1>5 DEF FetchIsNeeded, FetchOK
<1>7. InterruptLine'
  BY <1>1, <1>3, <1>5 DEF InterruptLine, WantedIrq
<1>8. SampleIsFetched'
  <2>1. dmc.delay = 1 => cpu.mdr = "sample"
    BY <1>1 DEF FetchInv, Timely
  <2>2. dmc.full => dmc.fetched
    BY DEF FetchInv, SampleIsFetched
  <2>. QED  BY <1>1, <1>3, <2>1, <2>2 DEF SampleIsFetched
<1>9. Timely'
  <2>1. /\ dmc.delay > 0 => cpu.read # "none" \/ cpu.writes >= RdyDelay - dmc.delay + 1
        /\ dmc.delay \in Nat /\ cpu.writes \in Nat /\ RdyDelay \in Nat /\ RdyDelay > 1
    BY <1>1, <1>2, FetchAssumption DEF FetchInv, Timely, Flag, DmcType, CpuType
  <2>2. dmc'.delay > 0 => dmc'.delay = RdyDelay \/ dmc'.delay = dmc.delay - 1
    BY <1>1, <1>3
  <2>3. dmc'.delay > 0 => cpu.read # "none" \/ cpu.writes >= RdyDelay - dmc'.delay + 0
    BY <2>1, <2>2
  <2>. QED  BY <1>1, <1>5, <2>3 DEF Timely, Flag
<1>. QED  BY <1>1, <1>3, <1>4, <1>5, <1>6, <1>7, <1>8, <1>9 DEF FetchInv

\* A read: while RDY is low it goes on, and once the address is out it reads the sample.
LEMMA CpuReadStep == FetchInv /\ CpuRead => FetchInv'
<1> SUFFICES ASSUME FetchInv, CpuRead PROVE FetchInv'
  OBVIOUS
<1> DEFINE fetching == ~cpu.rdy /\ cpu.address
<1>1. PICK addr \in IF cpu.read = "none" THEN program.reads ELSE {cpu.read} :
        ReadIO(IF fetching THEN "rom" ELSE addr,
               [cpu EXCEPT !.mdr = IF fetching THEN "sample" ELSE "data",
                           !.read = IF cpu.rdy THEN "none" ELSE addr, !.writes = 0])
  BY DEF CpuRead
<1>2. turn = "cpu" /\ turn' = "apu" /\ program' = program /\ dmc' = dmc
  BY DEF CpuRead
<1>3. addr \in {"rom", "4015"}
  BY <1>1, SoundAssumption DEF FetchInv, CpuType
<1> DEFINE m == IF fetching THEN "sample" ELSE "data"
           r == IF cpu.rdy THEN "none" ELSE addr
           c == [cpu EXCEPT !.mdr = m, !.read = r, !.writes = 0]
<1>4. cpu \in CpuType /\ frame \in FrameType /\ dmc \in DmcType
  BY DEF FetchInv
<1>5. /\ c \in CpuType /\ c.rdy = cpu.rdy /\ c.address = cpu.address /\ c.line = cpu.line
      /\ c.mdr = m /\ c.read = r
  <2>1. m \in {"data", "sample"} /\ r \in {"none", "rom", "4015"}
    BY <1>3
  <2> HIDE DEF m, r, fetching
  <2>. QED  BY <1>4, <2>1 DEF CpuType
<1>6. /\ frame' \in FrameType /\ cpu' \in CpuType
      /\ cpu'.rdy = cpu.rdy /\ cpu'.address = cpu.address
      /\ cpu'.mdr = m /\ cpu'.read = r
      /\ (cpu'.line <=> frame'.irq \/ dmc.irq)
  <2> DEFINE a == IF fetching THEN "rom" ELSE addr
  <2>1. ReadIO(a, c)
    BY <1>1
  <2> HIDE DEF a, c, m, r, fetching
  <2>2. CASE a = "4015"
    <3>1. frame' = [frame EXCEPT !.irq = FALSE] /\ cpu' = [c EXCEPT !.line = frame'.irq \/ dmc.irq]
      BY <2>1, <2>2 DEF ReadIO, SetIRQ
    <3>2. frame' \in FrameType /\ frame'.irq = FALSE /\ dmc.irq \in BOOLEAN
      BY <1>4, <3>1 DEF FrameType, DmcType
    <3>. QED  BY <1>5, <3>1, <3>2 DEF CpuType
  <2>3. CASE a # "4015"
    <3>1. frame' = frame /\ cpu' = c
      BY <2>1, <2>3 DEF ReadIO
    <3>. QED  BY <1>4, <1>5, <3>1 DEF FetchInv, InterruptLine
  <2>. QED  BY <2>2, <2>3
<1>7. FetchIsNeeded'
  BY <1>2, <1>6 DEF FetchInv, FetchIsNeeded
<1>8. InterruptLine' /\ SampleIsFetched'
  BY <1>2, <1>6 DEF FetchInv, InterruptLine, SampleIsFetched
<1>9. Timely'
  <2>1. dmc.delay > 0 => cpu.rdy = FALSE
    BY <1>4 DEF FetchInv, FetchIsNeeded, CpuType, DmcType
  <2>2. dmc.delay > 0 => cpu'.read # "none"
    BY <1>3, <1>6, <2>1
  <2>3. dmc.delay = 1 => cpu'.mdr = "sample"
    BY <1>4, <1>6, <2>1 DEF FetchInv, FetchIsNeeded, CpuType
  <2>. QED  BY <1>2, <2>2, <2>3 DEF Timely
<1>. QED  BY <1>2, <1>4, <1>6, <1>7, <1>8, <1>9 DEF FetchInv

\* The CPU after a write: only the byte on its bus and the count of its writes differ.
LEMMA WrittenFacts ==
  ASSUME NEW c \in CpuType, NEW l \in BOOLEAN
  PROVE  LET w == [Written(c) EXCEPT !.line = l] IN
         /\ Written(c) \in CpuType /\ w \in CpuType
         /\ Written(c).line = c.line /\ w.line = l
         /\ w.rdy = c.rdy /\ w.address = c.address /\ w.read = c.read
         /\ w.writes = c.writes + 1
         /\ Written(c).rdy = c.rdy /\ Written(c).address = c.address
         /\ Written(c).read = c.read /\ Written(c).writes = c.writes + 1
<1>1. Written(c) \in CpuType
  <2>1. c.writes + 1 \in Nat
    BY DEF CpuType
  <2>. QED  BY <2>1 DEF Written, CpuType
<1>2. /\ Written(c).rdy = c.rdy /\ Written(c).address = c.address /\ Written(c).line = c.line
      /\ Written(c).read = c.read /\ Written(c).writes = c.writes + 1
  BY DEF Written, CpuType
<1>. QED  BY <1>1, <1>2 DEF CpuType

\* A write while RDY is low counts: too few fit before the byte is taken.
LEMMA WriteStep ==
  ASSUME FetchInv, turn = "cpu", turn' = "apu", program' = program,
         cpu.read = "none", cpu.writes < program.row,
         cpu' \in CpuType, cpu'.rdy = cpu.rdy, cpu'.address = cpu.address,
         cpu'.writes = cpu.writes + 1,
         dmc' \in DmcType, dmc'.delay = dmc.delay, dmc'.full = dmc.full,
         dmc'.fetched = dmc.fetched, dmc.length > 0 => dmc'.length > 0,
         frame' \in FrameType, InterruptLine'
  PROVE  FetchInv'
<1>1. FetchIsNeeded' /\ SampleIsFetched'
  BY DEF FetchInv, FetchIsNeeded, SampleIsFetched
<1>2. Timely'
  <2>1. program.row \in Nat /\ program.row < RdyDelay /\ RdyDelay \in Nat
    BY SoundAssumption, FetchAssumption DEF FetchInv
  <2>2. cpu.writes \in Nat /\ dmc.delay \in Nat
    BY DEF FetchInv, CpuType, DmcType
  <2>3. dmc.delay > 0 => cpu.writes >= RdyDelay - dmc.delay
    BY <2>1, <2>2 DEF FetchInv, Timely, Flag
  <2>4. dmc.delay # 1
    BY <2>1, <2>2, <2>3
  <2>. QED  BY <2>1, <2>2, <2>3, <2>4 DEF Timely, Flag
<1>. QED  BY <1>1, <1>2 DEF FetchInv

\* A write that leaves the sample channel and the frame counter alone.
LEMMA PlainWriteStep ==
  ASSUME FetchInv, NEW reg, Writes(reg), cpu' = Written(cpu), UNCHANGED << dmc, frame >>
  PROVE  FetchInv'
<1>1. cpu \in CpuType /\ dmc \in DmcType /\ frame \in FrameType /\ InterruptLine
  BY DEF FetchInv
<1>2. /\ cpu' \in CpuType /\ cpu'.rdy = cpu.rdy /\ cpu'.address = cpu.address
      /\ cpu'.line = cpu.line /\ cpu'.writes = cpu.writes + 1
  BY <1>1, WrittenFacts
<1>3. InterruptLine'
  BY <1>1, <1>2 DEF InterruptLine
<1>4. /\ turn = "cpu" /\ turn' = "apu" /\ program' = program
      /\ cpu.read = "none" /\ cpu.writes < program.row
  BY DEF Writes
<1>. QED  BY <1>1, <1>2, <1>3, <1>4, WriteStep

LEMMA WriteDmcModeStep == FetchInv /\ WriteDmcMode => FetchInv'
<1> SUFFICES ASSUME FetchInv, WriteDmcMode PROVE FetchInv'
  OBVIOUS
<1>1. /\ turn = "cpu" /\ turn' = "apu" /\ program' = program
      /\ cpu.read = "none" /\ cpu.writes < program.row /\ frame' = frame
      /\ cpu' = SetIRQ(Written(cpu), frame, dmc')
  BY DEF WriteDmcMode, Writes
<1>2. PICK i \in BOOLEAN, b \in BOOLEAN, q \in DmcPeriods :
        dmc' = [dmc EXCEPT !.irqEnable = i, !.loop = b, !.period = q, !.irq = @ /\ i /\ ~b]
  BY DEF WriteDmcMode
<1>3. cpu \in CpuType /\ dmc \in DmcType /\ frame \in FrameType /\ q \in Nat \ {0}
  BY SoundAssumption DEF FetchInv
<1>4. /\ dmc' \in DmcType /\ dmc'.delay = dmc.delay /\ dmc'.full = dmc.full
      /\ dmc'.fetched = dmc.fetched /\ dmc'.length = dmc.length
      /\ WantedIrq(dmc')
  <2> DEFINE v == dmc.irq /\ i /\ ~b
  <2>1. v \in BOOLEAN /\ (v => i /\ ~b)
    BY <1>3 DEF DmcType
  <2> HIDE DEF v
  <2>. QED  BY <1>2, <1>3, <2>1 DEF DmcType, WantedIrq
<1>5. /\ cpu' \in CpuType /\ cpu'.rdy = cpu.rdy /\ cpu'.address = cpu.address
      /\ cpu'.line = (frame.irq \/ dmc'.irq) /\ cpu'.writes = cpu.writes + 1
  <2> DEFINE l == frame.irq \/ dmc'.irq
  <2>1. l \in BOOLEAN
    BY <1>3, <1>4 DEF FrameType, DmcType
  <2>2. cpu' = [Written(cpu) EXCEPT !.line = l]
    BY <1>1 DEF SetIRQ
  <2> HIDE DEF l
  <2>3. /\ cpu' \in CpuType /\ cpu'.rdy = cpu.rdy /\ cpu'.address = cpu.address
        /\ cpu'.line = l /\ cpu'.writes = cpu.writes + 1
    BY <1>3, <2>1, <2>2, WrittenFacts
  <2>. QED  BY <2>3 DEF l
<1>6. InterruptLine'
  BY <1>1, <1>4, <1>5 DEF InterruptLine, WantedIrq
<1>. QED  BY <1>1, <1>3, <1>4, <1>5, <1>6, WriteStep

LEMMA WriteDmcLengthStep == FetchInv /\ WriteDmcLength => FetchInv'
<1> SUFFICES ASSUME FetchInv, WriteDmcLength PROVE FetchInv'
  OBVIOUS
<1>1. /\ turn = "cpu" /\ turn' = "apu" /\ program' = program
      /\ cpu.read = "none" /\ cpu.writes < program.row /\ frame' = frame
      /\ cpu' = Written(cpu)
  BY DEF WriteDmcLength, Writes
<1>2. PICK n \in SampleLengths : dmc' = [dmc EXCEPT !.latch = n]
  BY DEF WriteDmcLength
<1>3. cpu \in CpuType /\ dmc \in DmcType /\ frame \in FrameType /\ n \in Nat \ {0}
  BY SoundAssumption DEF FetchInv
<1>4. /\ dmc' \in DmcType /\ dmc'.delay = dmc.delay /\ dmc'.full = dmc.full
      /\ dmc'.fetched = dmc.fetched /\ dmc'.length = dmc.length /\ dmc'.irq = dmc.irq
      /\ dmc'.irqEnable = dmc.irqEnable /\ dmc'.loop = dmc.loop
  BY <1>2, <1>3 DEF DmcType
<1>5. /\ cpu' \in CpuType /\ cpu'.rdy = cpu.rdy /\ cpu'.address = cpu.address
      /\ cpu'.line = cpu.line /\ cpu'.writes = cpu.writes + 1
  BY <1>1, <1>3, WrittenFacts
<1>6. InterruptLine'
  BY <1>1, <1>4, <1>5 DEF FetchInv, InterruptLine
<1>. QED  BY <1>1, <1>3, <1>4, <1>5, <1>6, WriteStep

\* A write of 0x4015 lets a fetch go on, or gives it up and frees the CPU.
LEMMA WriteEnableStep == FetchInv /\ WriteEnable => FetchInv'
<1> SUFFICES ASSUME FetchInv, WriteEnable PROVE FetchInv'
  OBVIOUS
<1>1. /\ turn = "cpu" /\ turn' = "apu" /\ program' = program
      /\ cpu.read = "none" /\ cpu.writes < program.row /\ frame' = frame
  BY DEF WriteEnable, Writes
<1>2. PICK on \in SUBSET program.bits :
        /\ dmc' = [IF "dmc" \in on THEN Start(dmc) ELSE Stop(dmc, Written(cpu)).d
                     EXCEPT !.irq = FALSE]
        /\ cpu' = SetIRQ(IF "dmc" \in on THEN Written(cpu) ELSE Stop(dmc, Written(cpu)).c,
                         frame, dmc')
  BY DEF WriteEnable
<1>3. cpu \in CpuType /\ dmc \in DmcType /\ frame \in FrameType
  BY DEF FetchInv
<1> DEFINE l == frame.irq \/ dmc'.irq
<1>4. CASE "dmc" \in on
  <2>1. dmc' = [Start(dmc) EXCEPT !.irq = FALSE] /\ cpu' = [Written(cpu) EXCEPT !.line = l]
    BY <1>2, <1>4 DEF SetIRQ
  <2>2. /\ Start(dmc) \in DmcType /\ Start(dmc).delay = dmc.delay
        /\ Start(dmc).full = dmc.full /\ Start(dmc).fetched = dmc.fetched
        /\ (dmc.length > 0 => Start(dmc).length > 0)
    BY <1>3 DEF Start, DmcType
  <2>3. /\ dmc' \in DmcType /\ dmc'.delay = dmc.delay /\ dmc'.full = dmc.full
        /\ dmc'.fetched = dmc.fetched /\ (dmc.length > 0 => dmc'.length > 0) /\ dmc'.irq = FALSE
    BY <2>1, <2>2 DEF DmcType
  <2>4. l \in BOOLEAN /\ l = frame.irq
    BY <1>3, <2>3 DEF FrameType
  <2> HIDE DEF l
  <2>5. /\ cpu' \in CpuType /\ cpu'.rdy = cpu.rdy /\ cpu'.address = cpu.address
        /\ cpu'.line = l /\ cpu'.writes = cpu.writes + 1
    BY <1>3, <2>1, <2>4, WrittenFacts
  <2>6. InterruptLine'
    BY <1>1, <2>3, <2>4, <2>5 DEF InterruptLine
  <2>. QED  BY <1>1, <1>3, <2>3, <2>5, <2>6, WriteStep
<1>5. CASE ~("dmc" \in on)
  <2>1. /\ dmc' = [[dmc EXCEPT !.length = 0, !.delay = 0] EXCEPT !.irq = FALSE]
        /\ cpu' = [[Written(cpu) EXCEPT !.rdy = TRUE, !.address = FALSE] EXCEPT !.line = l]
    BY <1>2, <1>5 DEF SetIRQ, Stop
  <2>2. 0 \in 0 .. RdyDelay /\ 0 \in Nat
    BY FetchAssumption
  <2>3. /\ dmc' \in DmcType /\ dmc'.delay = 0 /\ dmc'.full = dmc.full
        /\ dmc'.fetched = dmc.fetched /\ dmc'.irq = FALSE
    BY <1>3, <2>1, <2>2 DEF DmcType
  <2>4. l \in BOOLEAN /\ l = frame.irq
    BY <1>3, <2>3 DEF FrameType
  <2>5. Written(cpu) \in CpuType
    BY <1>3, <2>4, WrittenFacts
  <2> HIDE DEF l
  <2>6. cpu' \in CpuType /\ cpu'.rdy = TRUE /\ cpu'.address = FALSE /\ cpu'.line = l
    BY <2>1, <2>4, <2>5 DEF CpuType
  <2>7. FetchIsNeeded' /\ InterruptLine' /\ SampleIsFetched' /\ Timely'
    BY <1>1, <2>3, <2>4, <2>6
       DEF FetchInv, FetchIsNeeded, InterruptLine, SampleIsFetched, Timely
  <2>. QED  BY <1>1, <1>3, <2>3, <2>6, <2>7 DEF FetchInv
<1>. QED  BY <1>4, <1>5

\* A write of 0x4017 raises no interrupt, and drops one only where it sets the line too.
LEMMA WriteFrameStep == FetchInv /\ WriteFrame => FetchInv'
<1> SUFFICES ASSUME FetchInv, WriteFrame PROVE FetchInv'
  OBVIOUS
<1>1. /\ turn = "cpu" /\ turn' = "apu" /\ program' = program /\ dmc' = dmc
      /\ cpu.read = "none" /\ cpu.writes < program.row
  BY DEF WriteFrame, Writes
<1>2. PICK m \in 0 .. 3 :
        LET reset == [frame EXCEPT !.mode = m, !.counter = 0]
            f     == IF m >= 2 THEN FrameClock(reset) ELSE reset
        IN  /\ frame' = [f EXCEPT !.irq = @ /\ m % 2 = 0, !.divider = FramePeriod]
            /\ cpu' = IF m % 2 = 1 THEN SetIRQ(Written(cpu), frame', dmc) ELSE Written(cpu)
  BY DEF WriteFrame
<1>3. cpu \in CpuType /\ dmc \in DmcType /\ frame \in FrameType /\ FramePeriod \in Nat
  BY SoundAssumption DEF FetchInv
<1> DEFINE reset == [frame EXCEPT !.mode = m, !.counter = 0]
           f     == IF m >= 2 THEN FrameClock(reset) ELSE reset
           odd   == m % 2 = 1
           i     == f.irq /\ m % 2 = 0
<1>4. f \in FrameType /\ f.irq = frame.irq
  <2>1. reset \in FrameType /\ reset.counter = 0 /\ reset.irq = frame.irq
    <3> HIDE DEF f, odd, i
    <3>1. m \in 0 .. 3 /\ 0 \in 0 .. 3
      BY <1>2
    <3>2. reset \in FrameType
      BY <1>3, <3>1 DEF FrameType
    <3>3. reset.counter = 0 /\ reset.irq = frame.irq
      BY <1>3 DEF FrameType
    <3>. QED  BY <3>2, <3>3
  <2> HIDE DEF reset
  <2>2. FrameClock(reset) \in FrameType
    BY <2>1, FrameClockType
  <2>3. FrameClock(reset).irq = frame.irq
    BY <2>1 DEF FrameClock, FrameType
  <2>. QED  BY <2>1, <2>2, <2>3
<1>5. m % 2 = 0 <=> ~odd
  OBVIOUS
<1>6. frame' = [f EXCEPT !.irq = i, !.divider = FramePeriod]
  BY <1>2
<1> HIDE DEF f, reset
<1>7. frame' \in FrameType /\ frame'.irq = (frame.irq /\ ~odd)
  <2>1. i = (frame.irq /\ ~odd) /\ i \in BOOLEAN
    BY <1>3, <1>4, <1>5 DEF FrameType
  <2> HIDE DEF i, odd
  <2>2. FramePeriod \in Int /\ i \in BOOLEAN
    BY <1>3, <2>1
  <2>3. [f EXCEPT !.irq = i] \in FrameType
    BY <1>4, <2>2 DEF FrameType
  <2>4. frame' = [[f EXCEPT !.irq = i] EXCEPT !.divider = FramePeriod]
    BY <1>4, <1>6 DEF FrameType
  <2>5. frame' \in FrameType
    BY <2>2, <2>3, <2>4 DEF FrameType
  <2>6. frame'.irq = i
    BY <1>4, <1>6 DEF FrameType
  <2>. QED  BY <2>1, <2>5, <2>6
<1> DEFINE l == frame'.irq \/ dmc.irq
<1>8. cpu' = IF odd THEN [Written(cpu) EXCEPT !.line = l] ELSE Written(cpu)
  BY <1>2 DEF SetIRQ
<1>9. l \in BOOLEAN
  BY <1>3, <1>7 DEF FrameType, DmcType
<1> HIDE DEF l, odd, i
<1>10. /\ cpu' \in CpuType /\ cpu'.rdy = cpu.rdy /\ cpu'.address = cpu.address
       /\ cpu'.line = (IF odd THEN l ELSE cpu.line) /\ cpu'.writes = cpu.writes + 1
  BY <1>3, <1>8, <1>9, WrittenFacts
<1>11. InterruptLine'
  BY <1>1, <1>7, <1>10 DEF FetchInv, InterruptLine, l
<1>. QED  BY <1>1, <1>3, <1>7, <1>10, <1>11, WriteStep

LEMMA PowerStep == FetchInv /\ (\E reset \in BOOLEAN : Power(reset)) => FetchInv'
<1> SUFFICES ASSUME FetchInv, NEW reset \in BOOLEAN, Power(reset) PROVE FetchInv'
  OBVIOUS
<1>1. /\ (CHOOSE p \in DmcPeriods : TRUE) \in Nat \ {0}
      /\ (CHOOSE n \in SampleLengths : TRUE) \in Nat \ {0}
      /\ RdyDelay \in Nat /\ RdyDelay > 1
  BY SoundAssumption, FetchAssumption
<1>2. cpu' \in CpuType /\ cpu'.rdy /\ ~cpu'.address /\ ~cpu'.line
  BY DEF Power, CpuOff, CpuType
<1>3. dmc' \in DmcType /\ dmc'.delay = 0 /\ ~dmc'.full /\ ~dmc'.irq
  BY <1>1 DEF Power, DmcOff, DmcType
<1>4. frame' \in FrameType /\ ~frame'.irq
  BY DEF Power, FrameOff, FrameType
<1>5. turn' = "cpu" /\ program' \in Programs
  BY DEF Power, FetchInv
<1>. QED  BY <1>2, <1>3, <1>4, <1>5
          DEF FetchInv, FetchIsNeeded, InterruptLine, SampleIsFetched, Timely

LEMMA FetchNext == FetchInv /\ [Next]_vars => FetchInv'
<1> SUFFICES ASSUME FetchInv, [Next]_vars PROVE FetchInv'
  OBVIOUS
<1>1. CASE WriteIO
  <2>1. ASSUME NEW n \in 0 .. 1, WritePulseEnvelope(n) \/ WritePulseSweep(n)
                                   \/ WritePulseTimer(n) \/ WritePulseLength(n)
        PROVE  FetchInv'
    BY <2>1, PlainWriteStep
       DEF WritePulseEnvelope, WritePulseSweep, WritePulseTimer, WritePulseLength
  <2>2. CASE WriteTriangleLinear \/ WriteTriangleTimer
    BY <2>2, PlainWriteStep DEF WriteTriangleLinear, WriteTriangleTimer
  <2>3. CASE WriteNoiseEnvelope \/ WriteNoisePeriod \/ WriteNoiseLength
    BY <2>3, PlainWriteStep DEF WriteNoiseEnvelope, WriteNoisePeriod, WriteNoiseLength
  <2>4. CASE WriteOther
    BY <2>4, PlainWriteStep DEF WriteOther, units
  <2>. QED  BY <1>1, <2>1, <2>2, <2>3, <2>4, WriteDmcModeStep, WriteDmcLengthStep,
               WriteEnableStep, WriteFrameStep DEF WriteIO
<1>2. CASE Load \/ UNCHANGED vars
  BY <1>2 DEF Load, vars, units, FetchInv, FetchIsNeeded, InterruptLine, SampleIsFetched,
              Timely
<1>. QED  BY <1>1, <1>2, ApuMainStep, CpuReadStep, PowerStep DEF Next

LEMMA FetchAlways == Spec => []FetchInv
  BY FetchInit, FetchNext, PTL DEF Spec

\* RDY is low exactly while a byte is fetched, and only for a sample with bytes left and an
\* empty buffer (dmc.cpp), for every period, delay and program.
THEOREM FetchCorrect == Spec => []FetchIsNeeded
<1>1. FetchInv => FetchIsNeeded
  BY DEF FetchInv
<1>. QED  BY <1>1, FetchAlways, PTL

\* The interrupt line is the disjunction of the two flags of the APU (apu.cpp), and the
\* sample channel's flag is set only while the program wants it.
THEOREM InterruptCorrect == Spec => []InterruptLine
<1>1. FetchInv => InterruptLine
  BY DEF FetchInv
<1>. QED  BY <1>1, FetchAlways, PTL

\* The byte in the buffer was read at the sample's address: an instruction writes fewer
\* times in a row than the channel waits (dmc.cpp with fc/cpu/memory.cpp).
THEOREM SampleCorrect == Spec => []SampleIsFetched
<1>1. FetchInv => SampleIsFetched
  BY DEF FetchInv
<1>. QED  BY <1>1, FetchAlways, PTL

-----------------------------------------------------------------------------
(* The length counters of the other channels *)

PulseName(n) == IF n = 0 THEN "pulse0" ELSE "pulse1"

\* All these proofs need of the channels' types: each has a length counter.
HasLengths(p, t, n) ==
  /\ DOMAIN p = 0 .. 1 /\ \A i \in 0 .. 1 : "length" \in DOMAIN p[i]
  /\ "length" \in DOMAIN t /\ "length" \in DOMAIN n

\* A channel that is not in on is silent.
PulseSilent(p, on) == \A i \in 0 .. 1 : PulseName(i) \notin on => p[i].length = 0

SilenceInv ==
  /\ HasLengths(pulse, triangle, noise)
  /\ PulseSilent(pulse, enabled)
  /\ "triangle" \notin enabled => triangle.length = 0
  /\ "noise" \notin enabled => noise.length = 0

LEMMA LengthClockZero == \A h : LengthClock(0, h) = 0
  BY DEF LengthClock

\* The frame counter only lowers the length counters.
LEMMA ClockedSilent ==
  ASSUME SilenceInv, NEW half, Clocked(half)
  PROVE  /\ HasLengths(pulse', triangle', noise)
         /\ PulseSilent(pulse', enabled)
         /\ "triangle" \notin enabled => triangle'.length = 0
<1>1. /\ DOMAIN pulse' = 0 .. 1
      /\ \A i \in 0 .. 1 :
           /\ "length" \in DOMAIN pulse'[i]
           /\ pulse[i].length = 0 => pulse'[i].length = 0
  <2>1. /\ DOMAIN pulse' = 0 .. 1
        /\ \A i \in 0 .. 1 :
             pulse'[i] = [pulse[i] EXCEPT
               !.env = EnvelopeClock(pulse[i].env),
               !.length = IF half THEN LengthClock(pulse[i].length, pulse[i].env.loop)
                                  ELSE pulse[i].length,
               !.sweep = IF half THEN SweepClock(pulse[i].sweep, i) ELSE pulse[i].sweep]
    BY DEF Clocked
  <2>2. \A i \in 0 .. 1 : "length" \in DOMAIN pulse[i]
    BY DEF SilenceInv, HasLengths
  <2>3. ASSUME NEW i \in 0 .. 1
        PROVE  /\ "length" \in DOMAIN pulse'[i]
               /\ pulse[i].length = 0 => pulse'[i].length = 0
    <3> DEFINE l == IF half THEN LengthClock(pulse[i].length, pulse[i].env.loop)
                            ELSE pulse[i].length
               e == EnvelopeClock(pulse[i].env)
               s == IF half THEN SweepClock(pulse[i].sweep, i) ELSE pulse[i].sweep
    <3>1. pulse'[i] = [pulse[i] EXCEPT !.env = e, !.length = l, !.sweep = s]
      BY <2>1
    <3>2. pulse[i].length = 0 => l = 0
      BY LengthClockZero
    <3> HIDE DEF l, e, s
    <3>3. "length" \in DOMAIN pulse'[i] /\ pulse'[i].length = l
      BY <2>2, <3>1
    <3>. QED  BY <3>2, <3>3
  <2>. QED  BY <2>1, <2>3
<1>2. "length" \in DOMAIN triangle' /\ (triangle.length = 0 => triangle'.length = 0)
  <2> DEFINE l == IF half THEN LengthClock(triangle.length, triangle.halt)
                          ELSE triangle.length
             t == [triangle EXCEPT !.length = l]
  <2>1. triangle' = TriangleLinearClock(t)
    BY DEF Clocked
  <2>2. triangle.length = 0 => l = 0
    BY LengthClockZero
  <2> HIDE DEF l
  <2>3. "length" \in DOMAIN t /\ t.length = l
    BY DEF SilenceInv, HasLengths
  <2> HIDE DEF t
  <2>. QED  BY <2>1, <2>2, <2>3 DEF TriangleLinearClock
<1>. QED  BY <1>1, <1>2 DEF SilenceInv, HasLengths, PulseSilent

LEMMA NoiseClockSilent ==
  ASSUME NEW n, "length" \in DOMAIN n
  PROVE  "length" \in DOMAIN NoiseClock(n) /\ NoiseClock(n).length = n.length
  BY DEF NoiseClock

LEMMA NoiseClockedSilent ==
  ASSUME NEW n, "length" \in DOMAIN n, NEW half
  PROVE  /\ "length" \in DOMAIN NoiseClocked(half, n)
         /\ n.length = 0 => NoiseClocked(half, n).length = 0
  BY LengthClockZero DEF NoiseClocked

LEMMA SilenceInit == Init => SilenceInv
  BY DEF Init, PulseOff, TriangleOff, NoiseOff, SilenceInv, HasLengths, PulseSilent

LEMMA SilenceApuMain == SilenceInv /\ ApuMain => SilenceInv'
<1> SUFFICES ASSUME SilenceInv, ApuMain PROVE SilenceInv'
  OBVIOUS
<1> DEFINE k == NoiseClock(noise)
<1>1. "length" \in DOMAIN k /\ k.length = noise.length
  BY NoiseClockSilent DEF SilenceInv, HasLengths
<1> HIDE DEF k
<1>2. enabled' = enabled
  BY DEF ApuMain
<1>3. PICK half \in BOOLEAN :
        \/ Clocked(half) /\ noise' = NoiseClocked(half, k)
        \/ UNCHANGED << pulse, triangle >> /\ noise' = k
  BY DEF ApuMain, k
<1>4. CASE Clocked(half) /\ noise' = NoiseClocked(half, k)
  <2>1. /\ "length" \in DOMAIN noise'
        /\ k.length = 0 => noise'.length = 0
    BY <1>1, <1>4, NoiseClockedSilent
  <2>. QED  BY <1>1, <1>2, <1>4, <2>1, ClockedSilent DEF SilenceInv, HasLengths
<1>5. CASE UNCHANGED << pulse, triangle >> /\ noise' = k
  BY <1>1, <1>2, <1>5 DEF SilenceInv, HasLengths
<1>. QED  BY <1>3, <1>4, <1>5

\* Only a write that loads a length counter asks whether its channel is enabled.
LEMMA SilenceWrite == SilenceInv /\ WriteIO => SilenceInv'
<1> SUFFICES ASSUME SilenceInv, WriteIO PROVE SilenceInv'
  OBVIOUS
<1> USE DEF SilenceInv, HasLengths
<1>1. ASSUME NEW n \in 0 .. 1, \/ WritePulseEnvelope(n) \/ WritePulseSweep(n)
                               \/ WritePulseTimer(n)
      PROVE  SilenceInv'
  <2>1. /\ DOMAIN pulse' = 0 .. 1
        /\ \A i \in 0 .. 1 : "length" \in DOMAIN pulse'[i] /\ pulse'[i].length = pulse[i].length
    <3>1. CASE WritePulseEnvelope(n)
      BY <3>1 DEF WritePulseEnvelope
    <3>2. CASE WritePulseSweep(n)
      <4>1. PICK e \in BOOLEAN, b \in BOOLEAN, q \in Speeds, d \in Divisors :
              pulse' = [pulse EXCEPT ![n].sweep = [@ EXCEPT !.enable = e, !.decrement = b,
                                          !.period = q, !.divisor = d, !.reload = TRUE]]
        BY <3>2 DEF WritePulseSweep
      <4>. QED  BY <4>1
    <3>3. CASE WritePulseTimer(n)
      BY <3>3 DEF WritePulseTimer
    <3>. QED  BY <1>1, <3>1, <3>2, <3>3
  <2>2. UNCHANGED << enabled, triangle, noise >>
    BY <1>1 DEF WritePulseEnvelope, WritePulseSweep, WritePulseTimer
  <2>. QED  BY <2>1, <2>2 DEF PulseSilent
<1>2. ASSUME NEW n \in 0 .. 1, WritePulseLength(n) PROVE SilenceInv'
  <2>1. /\ DOMAIN pulse' = 0 .. 1
        /\ \A i \in 0 .. 1 : "length" \in DOMAIN pulse'[i]
        /\ \A i \in 0 .. 1 : pulse'[i].length \in Loaded(PulseName(i), pulse[i].length)
                               \/ pulse'[i].length = pulse[i].length
    BY <1>2 DEF WritePulseLength, PulseName
  <2>2. UNCHANGED << enabled, triangle, noise >>
    BY <1>2 DEF WritePulseLength
  <2>. QED  BY <2>1, <2>2 DEF PulseSilent, Loaded
<1>3. CASE WriteTriangleLinear
  BY <1>3 DEF WriteTriangleLinear, PulseSilent
<1>4. CASE WriteTriangleTimer
  BY <1>4 DEF WriteTriangleTimer, Loaded, PulseSilent
<1>5. CASE WriteNoiseEnvelope
  BY <1>5 DEF WriteNoiseEnvelope, PulseSilent
<1>6. CASE WriteNoisePeriod
  BY <1>6 DEF WriteNoisePeriod, PulseSilent
<1>7. CASE WriteNoiseLength
  BY <1>7 DEF WriteNoiseLength, Loaded, PulseSilent
<1>8. CASE WriteDmcMode \/ WriteDmcLength \/ WriteOther
  BY <1>8 DEF WriteDmcMode, WriteDmcLength, WriteOther, units, PulseSilent
<1>9. CASE WriteEnable
  <2>1. PICK on \in SUBSET program.bits :
          /\ enabled' = on \ {"dmc"}
          /\ pulse' = [i \in 0 .. 1 |->
               [pulse[i] EXCEPT !.length = IF PulseName(i) \in on THEN @ ELSE 0]]
          /\ triangle' = [triangle EXCEPT !.length = IF "triangle" \in on THEN @ ELSE 0]
          /\ noise' = [noise EXCEPT !.length = IF "noise" \in on THEN @ ELSE 0]
    BY <1>9 DEF WriteEnable, PulseName
  <2>. QED  BY <2>1 DEF PulseSilent, PulseName
<1>10. CASE WriteFrame
  <2>1. /\ enabled' = enabled
        /\ \/ Clocked(TRUE) /\ noise' = NoiseClocked(TRUE, noise)
           \/ UNCHANGED << pulse, triangle, noise >>
    BY <1>10 DEF WriteFrame
  <2>2. CASE Clocked(TRUE) /\ noise' = NoiseClocked(TRUE, noise)
    BY <2>1, <2>2, ClockedSilent, NoiseClockedSilent
  <2>3. CASE UNCHANGED << pulse, triangle, noise >>
    BY <2>1, <2>3
  <2>. QED  BY <2>1, <2>2, <2>3
<1>. QED  BY <1>1, <1>2, <1>3, <1>4, <1>5, <1>6, <1>7, <1>8, <1>9, <1>10 DEF WriteIO

LEMMA SilenceNext == SilenceInv /\ [Next]_vars => SilenceInv'
<1> SUFFICES ASSUME SilenceInv, [Next]_vars PROVE SilenceInv'
  OBVIOUS
<1>1. CASE CpuRead \/ UNCHANGED vars
  BY <1>1 DEF CpuRead, vars, units, SilenceInv, HasLengths
<1>2. CASE Load
  BY <1>2 DEF Load, NoiseOff, SilenceInv, HasLengths
<1>3. ASSUME NEW reset \in BOOLEAN, Power(reset) PROVE SilenceInv'
  BY <1>3 DEF Power, PulseOff, TriangleOff, NoiseOff, SilenceInv, HasLengths, PulseSilent
<1>. QED  BY <1>1, <1>2, <1>3, SilenceApuMain, SilenceWrite DEF Next

\* A channel that 0x4015 disabled is silent (writeIO() in apu.cpp): no write loads its
\* length counter, and neither a reset nor a load of a state brings it back.
THEOREM SilenceCorrect == Spec => []DisabledIsSilent
<1>1. SilenceInv => DisabledIsSilent
  BY DEF SilenceInv, PulseSilent, PulseName, DisabledIsSilent
<1>2. Spec => []SilenceInv
  BY SilenceInit, SilenceNext, PTL DEF Spec
<1>. QED  BY <1>1, <1>2, PTL

-----------------------------------------------------------------------------
(* The ranges of the other channels' registers *)

EnvelopeRecord == [speed : Speeds \cup {0}, loop : BOOLEAN, reload : BOOLEAN,
                   counter : 0 .. ByteWidth - 1, volume : 0 .. VolumeMax]
EnvelopeType == {e \in EnvelopeRecord : Counting(e) \/ e.volume = 0}
SweepType == [divisor : Nat \ {0}, decrement : BOOLEAN, period : Nat, counter : Nat \ {0},
              enable : BOOLEAN, reload : BOOLEAN, timer : 0 .. TimerWidth - 1]
PulseType == [length : Nat, env : EnvelopeType, sweep : SweepType]
TriangleType == [length : Nat, halt : BOOLEAN, linear : Nat, counter : Nat, reload : BOOLEAN]
NoiseType == [length : Nat, env : EnvelopeType, period : Nat \ {0}, counter : Nat \ {0},
              short : BOOLEAN, lfsr : 1 .. 2 * LfsrTop - 1]

UnitsOK ==
  /\ pulse \in [0 .. 1 -> PulseType] /\ triangle \in TriangleType /\ noise \in NoiseType

\* The APU is clocked by 2 until its divider is used up, so the pass that renews it finds it
\* at 0 or just below.
DividerOK == frame.divider \in 1 .. 2 * FramePeriod

SoundInv ==
  /\ FetchInv /\ UnitsOK /\ DividerOK
  /\ enabled \subseteq Channels /\ cpu.writes <= program.row

\* A write sets the speed, and so only allows a longer period; a later clock() begins it.
LEMMA EnvelopeWrite ==
  ASSUME NEW e \in EnvelopeType, NEW s \in Speeds \cup {0}, NEW b \in BOOLEAN,
         NEW r \in BOOLEAN
  PROVE  /\ [e EXCEPT !.speed = s, !.loop = b] \in EnvelopeType
         /\ [e EXCEPT !.reload = r] \in EnvelopeType
<1> DEFINE f == [e EXCEPT !.speed = s, !.loop = b]
           g == [e EXCEPT !.reload = r]
<1>1. e \in EnvelopeRecord /\ (Counting(e) \/ e.volume = 0)
  BY DEF EnvelopeType
<1>2. /\ f \in EnvelopeRecord /\ f.counter = e.counter /\ f.volume = e.volume
      /\ g \in EnvelopeRecord /\ g.counter = e.counter /\ g.volume = e.volume
  BY <1>1 DEF EnvelopeRecord
<1>. HIDE DEF f, g
<1>3. f \in EnvelopeType /\ g \in EnvelopeType
  BY <1>1, <1>2 DEF EnvelopeType, Counting
<1>. QED  BY <1>3 DEF f, g

\* The clock that begins a period puts the counter within it; one that does not leaves the
\* volume alone, and a counter within a period there.
LEMMA EnvelopeStays ==
  ASSUME NEW e \in EnvelopeType
  PROVE  EnvelopeClock(e) \in EnvelopeType
<1> DEFINE c == (e.counter - 1) % ByteWidth
           v == IF e.volume > 0 \/ e.loop THEN (e.volume - 1) % (VolumeMax + 1) ELSE e.volume
<1>1. /\ e \in EnvelopeRecord /\ (Counting(e) \/ e.volume = 0)
      /\ e.speed \in Speeds \cup {0} /\ e.counter \in 0 .. ByteWidth - 1
      /\ e.volume \in 0 .. VolumeMax
  BY DEF EnvelopeType, EnvelopeRecord
<1>2. /\ e.speed \in Nat /\ e.speed + 1 \in 0 .. ByteWidth - 1 /\ VolumeMax \in 0 .. VolumeMax
      /\ ByteWidth \in Nat \ {0} /\ VolumeMax + 1 \in Nat \ {0} /\ Speeds \subseteq Nat
  <2>1. ByteWidth \in Nat /\ ByteWidth > 1 /\ VolumeMax \in Nat
    <3>1. ByteWidth \in Nat \ {0, 1} /\ VolumeMax \in Nat \ {0}
      BY SoundAssumption
    <3>. QED  BY <3>1
  <2>2. Speeds \subseteq 0 .. ByteWidth - 2
    BY SoundAssumption
  <2>3. e.speed \in 0 .. ByteWidth - 2
    <3>1. CASE e.speed \in Speeds
      BY <2>2, <3>1
    <3>2. CASE e.speed = 0
      BY <2>1, <3>2
    <3>. QED  BY <1>1, <3>1, <3>2
  <2>4. e.speed \in Nat /\ e.speed + 1 \in 0 .. ByteWidth - 1
    BY <2>1, <2>3
  <2>5. Speeds \subseteq Nat
    BY <2>1, <2>2
  <2>6. VolumeMax \in 0 .. VolumeMax /\ VolumeMax + 1 \in Nat \ {0} /\ ByteWidth \in Nat \ {0}
    BY <2>1
  <2>. QED  BY <2>4, <2>5, <2>6
<1>3. c \in 0 .. ByteWidth - 1
  BY <1>1, <1>2
<1>4. v \in 0 .. VolumeMax
  <2>1. (e.volume - 1) % (VolumeMax + 1) \in 0 .. VolumeMax
    BY <1>1, <1>2
  <2>. QED  BY <1>1, <2>1
<1>5. EnvelopeClock(e) = IF e.reload
        THEN [e EXCEPT !.reload = FALSE, !.volume = VolumeMax, !.counter = e.speed + 1]
        ELSE IF c # 0 THEN [e EXCEPT !.counter = c]
        ELSE [e EXCEPT !.counter = e.speed + 1, !.volume = v]
  BY DEF EnvelopeClock, Wrap
<1>6. ASSUME c # 0, Counting(e)
      PROVE  \E s \in Speeds \cup {0} : c \in 1 .. s + 1
  <2>1. PICK s \in Speeds \cup {0} : e.counter \in 1 .. s + 1
    BY <1>6 DEF Counting
  <2>2. s \in Nat
    BY <1>2
  <2>3. c = e.counter - 1
    BY <1>1, <1>2, <2>1, <2>2
  <2>. HIDE DEF c
  <2>4. c \in 1 .. s + 1
    BY <1>3, <1>6, <2>1, <2>2, <2>3, <1>2
  <2>. QED  BY <2>1, <2>4
<1>. HIDE DEF c, v
<1>7. ASSUME NEW f \in EnvelopeRecord, f.counter = e.speed + 1
      PROVE  f \in EnvelopeType
  <2>1. f.counter \in 1 .. e.speed + 1
    BY <1>2, <1>7
  <2>. QED  BY <1>1, <2>1 DEF EnvelopeType, Counting
<1>8. CASE ~e.reload /\ c # 0
  <2> DEFINE f == [e EXCEPT !.counter = c]
  <2>1. f \in EnvelopeRecord /\ f.counter = c /\ f.volume = e.volume
    BY <1>1, <1>3 DEF EnvelopeRecord
  <2>2. EnvelopeClock(e) = f
    BY <1>5, <1>8
  <2>. HIDE DEF f
  <2>3. f \in EnvelopeType
    BY <1>1, <1>6, <1>8, <2>1 DEF EnvelopeType, Counting
  <2>. QED  BY <2>2, <2>3
<1>9. CASE e.reload
  <2> DEFINE f == [e EXCEPT !.reload = FALSE, !.volume = VolumeMax, !.counter = e.speed + 1]
  <2>1. f \in EnvelopeRecord /\ f.counter = e.speed + 1
    BY <1>1, <1>2 DEF EnvelopeRecord
  <2>. QED  BY <1>5, <1>7, <1>9, <2>1
<1>10. CASE ~e.reload /\ c = 0
  <2> DEFINE f == [e EXCEPT !.counter = e.speed + 1, !.volume = v]
  <2>1. f \in EnvelopeRecord /\ f.counter = e.speed + 1
    BY <1>1, <1>2, <1>4 DEF EnvelopeRecord
  <2>. QED  BY <1>5, <1>7, <1>10, <2>1
<1>. QED  BY <1>8, <1>9, <1>10

LEMMA Quotient ==
  ASSUME NEW a \in Nat, NEW b \in Nat, b > 1
  PROVE  a \div b \in Nat /\ 2 * (a \div b) <= a
OBVIOUS

\* The period stays above 0 as it is lowered, since it is at least 9 and its divisor at
\* least 2, and as it is raised below the width of its register.
LEMMA SweepStays ==
  ASSUME NEW s \in SweepType, NEW n
  PROVE  SweepClock(s, n) \in SweepType
<1> DEFINE delta == s.timer \div s.divisor
           moved == IF s.decrement THEN s.timer - delta - Flag(n = 0)
                    ELSE IF s.timer + delta < TimerWidth THEN s.timer + delta ELSE s.timer
           c == IF s.counter = 1 \/ s.reload THEN s.period + 1 ELSE s.counter - 1
           t == IF s.counter = 1 /\ s.enable /\ s.divisor > 1 /\ s.timer > 8
                  THEN moved ELSE s.timer
<1>1. SweepClock(s, n) = [s EXCEPT !.counter = c, !.timer = t, !.reload = FALSE]
  BY DEF SweepClock
<1>2. c \in Nat \ {0}
  BY DEF SweepType
<1>3. t \in 0 .. TimerWidth - 1
  <2>1. CASE s.divisor > 1 /\ s.timer > 8
    <3>1. /\ s.timer \in Nat /\ s.divisor \in Nat /\ s.timer < TimerWidth
          /\ TimerWidth \in Nat
      BY SoundAssumption DEF SweepType
    <3>2. delta \in Nat /\ 2 * delta <= s.timer
      BY <2>1, <3>1, Quotient
    <3>3. Flag(n = 0) \in {0, 1}
      BY DEF Flag
    <3>4. moved \in 0 .. TimerWidth - 1
      <4>. HIDE DEF delta
      <4>. QED  BY <2>1, <3>1, <3>2, <3>3
    <3>. QED  BY <3>1, <3>4
  <2>2. CASE ~(s.divisor > 1 /\ s.timer > 8)
    BY <2>2 DEF SweepType
  <2>. QED  BY <2>1, <2>2
<1>. HIDE DEF c, t
<1>. QED  BY <1>1, <1>2, <1>3 DEF SweepType

LEMMA LengthStays ==
  ASSUME NEW n \in Nat, NEW h
  PROVE  LengthClock(n, h) \in Nat
BY DEF LengthClock

LEMMA ClockedStays ==
  ASSUME UnitsOK, NEW half, Clocked(half)
  PROVE  pulse' \in [0 .. 1 -> PulseType] /\ triangle' \in TriangleType
<1>1. ASSUME NEW i \in 0 .. 1
      PROVE  pulse'[i] \in PulseType
  <2> DEFINE l == IF half THEN LengthClock(pulse[i].length, pulse[i].env.loop)
                          ELSE pulse[i].length
             e == EnvelopeClock(pulse[i].env)
             s == IF half THEN SweepClock(pulse[i].sweep, i) ELSE pulse[i].sweep
  <2>1. pulse'[i] = [pulse[i] EXCEPT !.env = e, !.length = l, !.sweep = s]
    BY DEF Clocked
  <2>2. pulse[i] \in PulseType
    BY DEF UnitsOK
  <2>3. pulse[i].length \in Nat /\ pulse[i].env \in EnvelopeType /\ pulse[i].sweep \in SweepType
    BY <2>2 DEF PulseType
  <2>4. l \in Nat /\ e \in EnvelopeType /\ s \in SweepType
    BY <2>3, LengthStays, EnvelopeStays, SweepStays
  <2>. HIDE DEF l, e, s
  <2>. QED  BY <2>1, <2>2, <2>4 DEF PulseType
<1>2. pulse' \in [0 .. 1 -> PulseType]
  BY <1>1 DEF Clocked
<1>3. triangle' \in TriangleType
  <2> DEFINE l == IF half THEN LengthClock(triangle.length, triangle.halt) ELSE triangle.length
             t == [triangle EXCEPT !.length = l]
  <2>1. triangle' = TriangleLinearClock(t)
    BY DEF Clocked
  <2>2. triangle \in TriangleType
    BY DEF UnitsOK
  <2>3. l \in Nat
    BY <2>2, LengthStays DEF TriangleType
  <2>. HIDE DEF l
  <2>4. t \in TriangleType
    BY <2>2, <2>3 DEF TriangleType
  <2>. HIDE DEF t
  <2> DEFINE c == IF t.reload THEN t.linear ELSE IF t.counter > 0 THEN t.counter - 1 ELSE t.counter
             b == t.reload /\ t.halt
  <2>5. triangle' = [t EXCEPT !.counter = c, !.reload = b]
    BY <2>1 DEF TriangleLinearClock
  <2>6. c \in Nat /\ b \in BOOLEAN
    BY <2>4 DEF TriangleType
  <2>. HIDE DEF c, b
  <2>. QED  BY <2>4, <2>5, <2>6 DEF TriangleType
<1>. QED  BY <1>2, <1>3

\* The bit shifted in is 1 when the register holds nothing but bit 0.
LEMMA NoiseStays ==
  ASSUME NEW n \in NoiseType
  PROVE  NoiseClock(n) \in NoiseType
<1> DEFINE tap == IF n.short THEN ShortTap ELSE 2
           f == NoiseFeedback(n)
           l == (n.lfsr \div 2) + f * LfsrTop
<1>1. /\ tap \in Nat /\ tap > 1 /\ LfsrTop \in Nat \ {0}
      /\ n.lfsr \in Nat \ {0} /\ n.lfsr < 2 * LfsrTop
  BY SoundAssumption DEF NoiseType
<1> DEFINE k == n.lfsr
           q == k \div tap
<1>2. q \in Nat /\ (k = 1 => q = 0)
  <2>. HIDE DEF tap
  <2>1. q \in Nat /\ 2 * q <= k
    BY <1>1, Quotient
  <2>. HIDE DEF q
  <2>. QED  BY <1>1, <2>1
<1>3. f \in {0, 1} /\ (k = 1 => f = 1)
  <2>1. f = (k + q) % 2 /\ k \in Nat
    BY <1>1 DEF NoiseFeedback
  <2>. HIDE DEF f, q, k
  <2>. QED  BY <1>2, <2>1
<1>4. l \in 1 .. 2 * LfsrTop - 1
  <2>. HIDE DEF f
  <2>1. n.lfsr \div 2 \in Nat /\ n.lfsr \div 2 < LfsrTop /\ (n.lfsr # 1 => n.lfsr \div 2 > 0)
    BY <1>1
  <2>2. f * LfsrTop = IF f = 1 THEN LfsrTop ELSE 0
    BY <1>1, <1>3
  <2>. QED  BY <1>1, <1>3, <2>1, <2>2
<1>5. NoiseClock(n) = IF n.length = 0 THEN n
        ELSE IF n.counter > 1 THEN [n EXCEPT !.counter = n.counter - 1]
        ELSE [n EXCEPT !.counter = n.period, !.lfsr = l]
  BY DEF NoiseClock
<1>. HIDE DEF l
<1>6. CASE n.counter > 1
  <2>1. n.counter - 1 \in Nat \ {0}
    BY <1>6 DEF NoiseType
  <2>2. [n EXCEPT !.counter = n.counter - 1] \in NoiseType
    BY <2>1 DEF NoiseType
  <2>. QED  BY <1>5, <1>6, <2>2
<1>7. [n EXCEPT !.counter = n.period, !.lfsr = l] \in NoiseType
  BY <1>4 DEF NoiseType
<1>. QED  BY <1>5, <1>6, <1>7

LEMMA NoiseClockedStays ==
  ASSUME NEW n \in NoiseType, NEW half
  PROVE  NoiseClocked(half, n) \in NoiseType
<1> DEFINE e == EnvelopeClock(n.env)
           l == IF half THEN LengthClock(n.length, n.env.loop) ELSE n.length
<1>1. e \in EnvelopeType /\ l \in Nat
  BY EnvelopeStays, LengthStays DEF NoiseType
<1>2. NoiseClocked(half, n) = [n EXCEPT !.env = e, !.length = l]
  BY DEF NoiseClocked
<1>. HIDE DEF e, l
<1>. QED  BY <1>1, <1>2 DEF NoiseType

LEMMA UnitsInit ==
  PulseOff \in PulseType /\ TriangleOff \in TriangleType /\ NoiseOff \in NoiseType
<1>1. EnvelopeOff \in EnvelopeType /\ SweepOff \in SweepType
  BY SoundAssumption DEF EnvelopeOff, EnvelopeType, EnvelopeRecord, SweepOff, SweepType
<1>2. (CHOOSE p \in NoisePeriods : TRUE) \in Nat \ {0} /\ 1 \in 1 .. 2 * LfsrTop - 1
  BY SoundAssumption
<1>. QED  BY <1>1, <1>2 DEF PulseOff, PulseType, TriangleOff, TriangleType, NoiseOff, NoiseType

LEMMA UnitsApuMain == UnitsOK /\ ApuMain => UnitsOK'
<1> SUFFICES ASSUME UnitsOK, ApuMain PROVE UnitsOK'
  OBVIOUS
<1> DEFINE k == NoiseClock(noise)
<1>1. k \in NoiseType
  BY NoiseStays DEF UnitsOK
<1>2. PICK half \in BOOLEAN :
        \/ Clocked(half) /\ noise' = NoiseClocked(half, k)
        \/ UNCHANGED << pulse, triangle >> /\ noise' = k
  BY DEF ApuMain
<1>. HIDE DEF k
<1>3. CASE Clocked(half) /\ noise' = NoiseClocked(half, k)
  BY <1>1, <1>3, ClockedStays, NoiseClockedStays DEF UnitsOK
<1>4. CASE UNCHANGED << pulse, triangle >> /\ noise' = k
  BY <1>1, <1>4 DEF UnitsOK
<1>. QED  BY <1>2, <1>3, <1>4

\* What a write to a pulse channel n may put into it.
LEMMA PulseWrite ==
  ASSUME UnitsOK, NEW n \in 0 .. 1,
         \/ WritePulseEnvelope(n) \/ WritePulseSweep(n)
         \/ WritePulseTimer(n) \/ WritePulseLength(n)
  PROVE  UnitsOK'
<1>0. pulse \in [0 .. 1 -> PulseType]
  BY DEF UnitsOK
<1>1. UNCHANGED << triangle, noise >>
  BY DEF WritePulseEnvelope, WritePulseSweep, WritePulseTimer, WritePulseLength
<1>2. ASSUME NEW c \in PulseType, pulse' = [pulse EXCEPT ![n] = c]
      PROVE  UnitsOK'
  BY <1>0, <1>1, <1>2 DEF UnitsOK
<1> DEFINE p == pulse[n]
<1>3. /\ p \in PulseType /\ p.env \in EnvelopeType /\ p.sweep \in SweepType
  BY <1>0 DEF PulseType
<1>4. CASE WritePulseEnvelope(n)
  <2>1. PICK s \in Speeds, b \in BOOLEAN :
          pulse' = [pulse EXCEPT ![n].env.speed = s, ![n].env.loop = b]
    BY <1>4 DEF WritePulseEnvelope
  <2> DEFINE e == [p.env EXCEPT !.speed = s, !.loop = b]
  <2>2. e \in EnvelopeType
    BY <1>3, EnvelopeWrite
  <2>3. pulse' = [pulse EXCEPT ![n] = [p EXCEPT !.env = e]]
    BY <1>0, <2>1 DEF PulseType
  <2>. HIDE DEF e
  <2>4. [p EXCEPT !.env = e] \in PulseType
    BY <1>3, <2>2 DEF PulseType
  <2>. QED  BY <1>2, <2>3, <2>4
<1>5. CASE WritePulseSweep(n)
  <2>1. PICK e \in BOOLEAN, b \in BOOLEAN, q \in Speeds, d \in Divisors :
          pulse' = [pulse EXCEPT ![n].sweep = [@ EXCEPT !.enable = e, !.decrement = b,
                                                 !.period = q, !.divisor = d, !.reload = TRUE]]
    BY <1>5 DEF WritePulseSweep
  <2> DEFINE s == [p.sweep EXCEPT !.enable = e, !.decrement = b, !.period = q,
                                  !.divisor = d, !.reload = TRUE]
  <2>2. s \in SweepType
    <3>1. q \in Nat /\ d \in Nat \ {0}
      BY SoundAssumption
    <3>. QED  BY <1>3, <3>1 DEF SweepType
  <2>3. pulse' = [pulse EXCEPT ![n].sweep = s]
    BY <1>0, <2>1
  <2>. HIDE DEF s
  <2>4. pulse' = [pulse EXCEPT ![n] = [p EXCEPT !.sweep = s]]
    BY <1>0, <2>3
  <2>5. [p EXCEPT !.sweep = s] \in PulseType
    BY <1>3, <2>2 DEF PulseType
  <2>. QED  BY <1>2, <2>4, <2>5
<1>6. CASE WritePulseTimer(n)
  <2>1. PICK t \in Timers : pulse' = [pulse EXCEPT ![n].sweep.timer = t]
    BY <1>6 DEF WritePulseTimer
  <2> DEFINE s == [p.sweep EXCEPT !.timer = t]
  <2>2. s \in SweepType
    <3>1. t \in 0 .. TimerWidth - 1
      BY SoundAssumption
    <3>. QED  BY <1>3, <3>1 DEF SweepType
  <2>3. pulse' = [pulse EXCEPT ![n] = [p EXCEPT !.sweep = s]]
    BY <1>0, <2>1 DEF PulseType
  <2>. HIDE DEF s
  <2>4. [p EXCEPT !.sweep = s] \in PulseType
    BY <1>3, <2>2 DEF PulseType
  <2>. QED  BY <1>2, <2>3, <2>4
<1>7. CASE WritePulseLength(n)
  <2>1. PICK t \in Timers, l \in Loaded(IF n = 0 THEN "pulse0" ELSE "pulse1", pulse[n].length) :
          pulse' = [pulse EXCEPT ![n].sweep.timer = t, ![n].env.reload = TRUE, ![n].length = l]
    BY <1>7 DEF WritePulseLength
  <2> DEFINE s == [p.sweep EXCEPT !.timer = t]
             e == [p.env EXCEPT !.reload = TRUE]
  <2>2. s \in SweepType /\ e \in EnvelopeType
    <3>1. t \in 0 .. TimerWidth - 1
      BY SoundAssumption
    <3>2. s \in SweepType
      BY <1>3, <3>1 DEF SweepType
    <3>3. e \in EnvelopeType
      BY <1>3, EnvelopeWrite
    <3>. QED  BY <3>2, <3>3
  <2>3. l \in Nat
    BY <1>3, SoundAssumption DEF Loaded, PulseType
  <2>4. pulse' = [pulse EXCEPT ![n] = [p EXCEPT !.sweep = s, !.env = e, !.length = l]]
    BY <1>0, <2>1 DEF PulseType
  <2>. HIDE DEF s, e
  <2>5. [p EXCEPT !.sweep = s, !.env = e, !.length = l] \in PulseType
    BY <1>3, <2>2, <2>3 DEF PulseType
  <2>. QED  BY <1>2, <2>4, <2>5
<1>. QED  BY <1>4, <1>5, <1>6, <1>7

LEMMA UnitsWrite == UnitsOK /\ WriteIO => UnitsOK'
<1> SUFFICES ASSUME UnitsOK, WriteIO PROVE UnitsOK'
  OBVIOUS
<1>0. pulse \in [0 .. 1 -> PulseType] /\ triangle \in TriangleType /\ noise \in NoiseType
  BY DEF UnitsOK
<1>1. Lengths \subseteq Nat /\ LinearLengths \subseteq Nat /\ Speeds \subseteq 0 .. ByteWidth - 2
      /\ NoisePeriods \subseteq Nat \ {0}
  BY SoundAssumption
<1>2. CASE WriteTriangleLinear \/ WriteTriangleTimer
  <2>1. UNCHANGED << pulse, noise >>
    BY <1>2 DEF WriteTriangleLinear, WriteTriangleTimer
  <2>2. CASE WriteTriangleLinear
    <3>1. PICK n \in LinearLengths, h \in BOOLEAN :
            triangle' = [triangle EXCEPT !.linear = n, !.halt = h]
      BY <2>2 DEF WriteTriangleLinear
    <3>. QED  BY <1>0, <1>1, <2>1, <3>1 DEF UnitsOK, TriangleType
  <2>3. CASE WriteTriangleTimer
    <3>1. PICK l \in Loaded("triangle", triangle.length) :
            triangle' = [triangle EXCEPT !.reload = TRUE, !.length = l]
      BY <2>3 DEF WriteTriangleTimer
    <3>2. l \in Nat
      BY <1>0, <1>1 DEF Loaded, TriangleType
    <3>. QED  BY <1>0, <2>1, <3>1, <3>2 DEF UnitsOK, TriangleType
  <2>. QED  BY <1>2, <2>2, <2>3
<1>3. CASE WriteNoiseEnvelope \/ WriteNoisePeriod \/ WriteNoiseLength
  <2>1. UNCHANGED << pulse, triangle >>
    BY <1>3 DEF WriteNoiseEnvelope, WriteNoisePeriod, WriteNoiseLength
  <2>2. noise.env \in EnvelopeType
    BY <1>0 DEF NoiseType
  <2>3. CASE WriteNoiseEnvelope
    <3>1. PICK s \in Speeds, b \in BOOLEAN :
            noise' = [noise EXCEPT !.env.speed = s, !.env.loop = b]
      BY <2>3 DEF WriteNoiseEnvelope
    <3> DEFINE e == [noise.env EXCEPT !.speed = s, !.loop = b]
    <3>2. e \in EnvelopeType
      BY <2>2, EnvelopeWrite
    <3>3. noise' = [noise EXCEPT !.env = e]
      BY <1>0, <3>1 DEF NoiseType
    <3>. HIDE DEF e
    <3>. QED  BY <1>0, <2>1, <3>2, <3>3 DEF UnitsOK, NoiseType
  <2>4. CASE WriteNoisePeriod
    <3>1. PICK p \in NoisePeriods, b \in BOOLEAN :
            noise' = [noise EXCEPT !.period = p, !.short = b]
      BY <2>4 DEF WriteNoisePeriod
    <3>2. p \in Nat \ {0}
      BY <1>1
    <3>. QED  BY <1>0, <2>1, <3>1, <3>2 DEF UnitsOK, NoiseType
  <2>5. CASE WriteNoiseLength
    <3>1. PICK l \in Loaded("noise", noise.length) :
            noise' = [noise EXCEPT !.env.reload = TRUE, !.length = l]
      BY <2>5 DEF WriteNoiseLength
    <3> DEFINE e == [noise.env EXCEPT !.reload = TRUE]
    <3>2. e \in EnvelopeType
      BY <2>2, EnvelopeWrite
    <3>3. noise' = [noise EXCEPT !.env = e, !.length = l]
      BY <1>0, <3>1 DEF NoiseType
    <3>4. l \in Nat
      BY <1>0, <1>1 DEF Loaded, NoiseType
    <3>. HIDE DEF e
    <3>. QED  BY <1>0, <2>1, <3>2, <3>3, <3>4 DEF UnitsOK, NoiseType
  <2>. QED  BY <1>3, <2>3, <2>4, <2>5
<1>4. CASE WriteDmcMode \/ WriteDmcLength \/ WriteOther
  BY <1>4 DEF WriteDmcMode, WriteDmcLength, WriteOther, units, UnitsOK
<1>5. CASE WriteEnable
  <2>1. PICK on \in SUBSET program.bits :
          /\ pulse' = [i \in 0 .. 1 |->
               [pulse[i] EXCEPT !.length = IF PulseName(i) \in on THEN @ ELSE 0]]
          /\ triangle' = [triangle EXCEPT !.length = IF "triangle" \in on THEN @ ELSE 0]
          /\ noise' = [noise EXCEPT !.length = IF "noise" \in on THEN @ ELSE 0]
    BY <1>5 DEF WriteEnable, PulseName
  <2>2. triangle' \in TriangleType
    BY <1>0, <2>1 DEF TriangleType
  <2>3. noise' \in NoiseType
    BY <1>0, <2>1 DEF NoiseType
  <2>4. ASSUME NEW i \in 0 .. 1
        PROVE  pulse'[i] \in PulseType
    <3> DEFINE l == IF PulseName(i) \in on THEN pulse[i].length ELSE 0
    <3>1. pulse'[i] = [pulse[i] EXCEPT !.length = l]
      BY <2>1
    <3>2. pulse[i] \in PulseType /\ l \in Nat
      BY <1>0 DEF PulseType
    <3>. HIDE DEF l
    <3>. QED  BY <3>1, <3>2 DEF PulseType
  <2>5. pulse' \in [0 .. 1 -> PulseType]
    BY <2>1, <2>4
  <2>. QED  BY <2>2, <2>3, <2>5 DEF UnitsOK
<1>6. CASE WriteFrame
  <2>1. \/ Clocked(TRUE) /\ noise' = NoiseClocked(TRUE, noise)
        \/ UNCHANGED << pulse, triangle, noise >>
    BY <1>6 DEF WriteFrame
  <2>2. CASE Clocked(TRUE) /\ noise' = NoiseClocked(TRUE, noise)
    BY <1>0, <2>2, ClockedStays, NoiseClockedStays DEF UnitsOK
  <2>3. CASE UNCHANGED << pulse, triangle, noise >>
    BY <2>3 DEF UnitsOK
  <2>. QED  BY <2>1, <2>2, <2>3
<1>. QED  BY <1>2, <1>3, <1>4, <1>5, <1>6, PulseWrite DEF WriteIO

LEMMA UnitsNext == UnitsOK /\ [Next]_vars => UnitsOK'
<1> SUFFICES ASSUME UnitsOK, [Next]_vars PROVE UnitsOK'
  OBVIOUS
<1>1. CASE CpuRead \/ UNCHANGED vars
  BY <1>1 DEF CpuRead, vars, units, UnitsOK
<1>2. CASE Load
  BY <1>2, UnitsInit DEF Load, UnitsOK
<1>3. ASSUME NEW reset \in BOOLEAN, Power(reset) PROVE UnitsOK'
  <2>1. triangle' = TriangleOff /\ noise' = NoiseOff
    BY <1>3 DEF Power
  <2>2. \A n \in 0 .. 1 : [PulseOff EXCEPT !.sweep = pulse[n].sweep] \in PulseType
    BY UnitsInit DEF UnitsOK, PulseType
  <2>3. pulse' \in [0 .. 1 -> PulseType]
    BY <1>3, <2>2, UnitsInit DEF Power
  <2>. QED  BY <2>1, <2>3, UnitsInit DEF UnitsOK
<1>. QED  BY <1>1, <1>2, <1>3, UnitsApuMain, UnitsWrite DEF Next

\* The divider is 1 or 2 when a pass finds it used up, and a period or two are added to it;
\* a write that begins a frame sets it to one.
LEMMA DividerNext == FetchInv /\ DividerOK /\ [Next]_vars => DividerOK'
<1> SUFFICES ASSUME FetchInv, DividerOK, [Next]_vars PROVE DividerOK'
  OBVIOUS
<1>0. frame \in FrameType /\ FramePeriod \in Nat /\ FramePeriod > 1
  BY SoundAssumption DEF FetchInv
<1>1. CASE ApuMain
  <2> DEFINE ticked == [frame EXCEPT !.divider = @ - 2]
             f == FrameClock(ticked)
  <2>1. frame' = IF ticked.divider <= 0 THEN [f EXCEPT !.divider = @ + FramePeriod] ELSE ticked
    BY <1>1 DEF ApuMain
  <2>2. ticked \in FrameType /\ ticked.divider = frame.divider - 2
    BY <1>0 DEF FrameType
  <2>. HIDE DEF ticked
  <2>3. f \in FrameType /\ f.divider \in {ticked.divider, ticked.divider + FramePeriod}
    <3> DEFINE n == (ticked.counter + 1) % 4
               v == IF n = 0 /\ ticked.mode >= 2 THEN ticked.divider + FramePeriod
                                                 ELSE ticked.divider
               i == ticked.irq \/ (n = 0 /\ ticked.mode = 0)
    <3>1. f = [ticked EXCEPT !.counter = n, !.divider = v, !.irq = i]
      BY DEF FrameClock, f
    <3>2. v \in {ticked.divider, ticked.divider + FramePeriod}
      OBVIOUS
    <3>. HIDE DEF n, v, i
    <3>3. f.divider = v
      BY <2>2, <3>1 DEF FrameType
    <3>. QED  BY <2>2, <3>2, <3>3, FrameClockType DEF f
  <2>. HIDE DEF f
  <2>4. CASE ticked.divider <= 0
    <3>1. frame'.divider = f.divider + FramePeriod
      BY <2>1, <2>3, <2>4 DEF FrameType
    <3>. QED  BY <1>0, <2>2, <2>3, <2>4, <3>1 DEF DividerOK
  <2>5. CASE ~(ticked.divider <= 0)
    BY <1>0, <2>1, <2>2, <2>5 DEF DividerOK
  <2>. QED  BY <2>4, <2>5
<1>2. CASE WriteFrame
  <2>1. PICK m \in 0 .. 3 :
          LET reset == [frame EXCEPT !.mode = m, !.counter = 0]
              f     == IF m >= 2 THEN FrameClock(reset) ELSE reset
          IN  frame' = [f EXCEPT !.irq = @ /\ m % 2 = 0, !.divider = FramePeriod]
    BY <1>2 DEF WriteFrame
  <2> DEFINE reset == [frame EXCEPT !.mode = m, !.counter = 0]
             f     == IF m >= 2 THEN FrameClock(reset) ELSE reset
             i     == f.irq /\ m % 2 = 0
  <2>2. frame' = [f EXCEPT !.irq = i, !.divider = FramePeriod]
    BY <2>1
  <2>3. reset \in FrameType
    <3>. HIDE DEF f, i
    <3>1. m \in 0 .. 3 /\ 0 \in 0 .. 3
      BY <2>1
    <3>. QED  BY <1>0, <3>1 DEF FrameType
  <2>. HIDE DEF reset
  <2>4. f \in FrameType
    BY <2>3, FrameClockType
  <2>. HIDE DEF f, i
  <2>5. frame'.divider = FramePeriod
    BY <2>2, <2>4 DEF FrameType
  <2>. QED  BY <1>0, <2>5 DEF DividerOK
<1>3. CASE CpuRead
  <2>1. frame' = [frame EXCEPT !.irq = FALSE] \/ frame' = frame
    BY <1>3 DEF CpuRead, ReadIO
  <2>. QED  BY <1>0, <2>1 DEF DividerOK, FrameType
<1>4. CASE \E reset \in BOOLEAN : Power(reset)
  BY <1>0, <1>4 DEF Power, FrameOff, DividerOK
<1>5. CASE UNCHANGED frame
  BY <1>5 DEF DividerOK
<1>6. WriteIO /\ ~WriteFrame => UNCHANGED frame
  BY DEF WriteIO, WritePulseEnvelope, WritePulseSweep, WritePulseTimer, WritePulseLength,
         WriteTriangleLinear, WriteTriangleTimer, WriteNoiseEnvelope, WriteNoisePeriod,
         WriteNoiseLength, WriteDmcMode, WriteDmcLength, WriteEnable, WriteOther, units
<1>. QED  BY <1>1, <1>2, <1>3, <1>4, <1>5, <1>6 DEF Next, Load, vars, units

\* A write is made only while fewer were made in a row than the program ever makes.
LEMMA WritesNext ==
  FetchInv /\ enabled \subseteq Channels /\ cpu.writes <= program.row /\ [Next]_vars
    => enabled' \subseteq Channels /\ cpu'.writes <= program'.row
<1> SUFFICES ASSUME FetchInv, enabled \subseteq Channels, cpu.writes <= program.row, [Next]_vars
             PROVE  enabled' \subseteq Channels /\ cpu'.writes <= program'.row
  OBVIOUS
<1>0. /\ cpu \in CpuType /\ dmc \in DmcType /\ program \in Programs
      /\ program.row \in Nat /\ cpu.writes \in Nat
      /\ program.bits \subseteq Channels \cup {"dmc"}
  BY SoundAssumption DEF FetchInv, CpuType
<1>1. CASE ApuMain
  <2> DEFINE fetch == DmcClock(dmc, cpu)
  <2>1. /\ program' = program /\ enabled' = enabled
        /\ cpu' = SetIRQ(fetch.c, frame', fetch.d) \/ cpu' = fetch.c
    BY <1>1 DEF ApuMain
  <2>2. fetch.c \in CpuType /\ fetch.c.writes = cpu.writes
    BY <1>0, DmcClockFacts DEF FetchInv, FetchIsNeeded, InterruptLine, FetchOK, WantedIrq
  <2>. HIDE DEF fetch
  <2>3. cpu'.writes = fetch.c.writes
    BY <2>1, <2>2 DEF SetIRQ, CpuType
  <2>. QED  BY <2>1, <2>2, <2>3
<1>2. CASE CpuRead
  <2>1. program' = program /\ enabled' = enabled
    BY <1>2 DEF CpuRead
  <2>2. PICK addr, a :
          ReadIO(a, [cpu EXCEPT !.mdr = IF ~cpu.rdy /\ cpu.address THEN "sample" ELSE "data",
                                !.read = IF cpu.rdy THEN "none" ELSE addr, !.writes = 0])
    BY <1>2 DEF CpuRead
  <2> DEFINE c == [cpu EXCEPT !.mdr = IF ~cpu.rdy /\ cpu.address THEN "sample" ELSE "data",
                              !.read = IF cpu.rdy THEN "none" ELSE addr, !.writes = 0]
  <2>3. cpu' = c \/ cpu' = SetIRQ(c, frame', dmc)
    BY <2>2 DEF ReadIO
  <2>4. "writes" \in DOMAIN c /\ c.writes = 0
    BY <1>0 DEF CpuType
  <2>. HIDE DEF c
  <2>5. cpu'.writes = 0
    BY <2>3, <2>4 DEF SetIRQ
  <2>. QED  BY <1>0, <2>1, <2>5
<1>3. CASE WriteIO
  <2>1. program' = program /\ cpu.writes < program.row
    BY <1>3 DEF WriteIO, Writes, WritePulseEnvelope, WritePulseSweep, WritePulseTimer,
       WritePulseLength, WriteTriangleLinear, WriteTriangleTimer, WriteNoiseEnvelope,
       WriteNoisePeriod, WriteNoiseLength, WriteDmcMode, WriteDmcLength, WriteEnable,
       WriteFrame, WriteOther
  <2> DEFINE w == Written(cpu)
  <2>2. w \in CpuType /\ w.writes = cpu.writes + 1
    BY <1>0, WrittenFacts
  <2>3. \A b : [w EXCEPT !.line = b].writes = w.writes
    <3>. HIDE DEF w
    <3>. QED  BY <2>2 DEF CpuType
  <2>4. cpu'.writes = w.writes /\ enabled' \subseteq Channels
    <3>1. CASE WriteEnable
      <4>1. PICK on \in SUBSET program.bits :
              LET stopped == Stop(dmc, w)
                  sample  == "dmc" \in on
              IN  /\ enabled' = on \ {"dmc"}
                  /\ cpu' = SetIRQ(IF sample THEN w ELSE stopped.c, frame, dmc')
        BY <3>1 DEF WriteEnable
      <4> DEFINE c == Stop(dmc, w).c
      <4>2. cpu' = SetIRQ(w, frame, dmc') \/ cpu' = SetIRQ(c, frame, dmc')
        BY <4>1
      <4>3. c \in CpuType /\ c.writes = w.writes
        <5>1. c = [w EXCEPT !.rdy = TRUE, !.address = FALSE]
          BY DEF Stop
        <5>. HIDE DEF c, w
        <5>. QED  BY <2>2, <5>1 DEF CpuType
      <4>. HIDE DEF c, w
      <4>4. cpu'.writes = w.writes
        BY <2>2, <4>2, <4>3 DEF SetIRQ, CpuType
      <4>. QED  BY <1>0, <4>1, <4>4
    <3>2. CASE ~WriteEnable
      <4>1. enabled' = enabled
        BY <1>3, <3>2 DEF WriteIO, WritePulseEnvelope, WritePulseSweep, WritePulseTimer,
           WritePulseLength, WriteTriangleLinear, WriteTriangleTimer, WriteNoiseEnvelope,
           WriteNoisePeriod, WriteNoiseLength, WriteDmcMode, WriteDmcLength, WriteFrame,
           WriteOther, units
      <4>2. cpu' = w \/ \E b : cpu' = [w EXCEPT !.line = b]
        BY <1>3, <3>2 DEF WriteIO, WritePulseEnvelope, WritePulseSweep, WritePulseTimer,
           WritePulseLength, WriteTriangleLinear, WriteTriangleTimer, WriteNoiseEnvelope,
           WriteNoisePeriod, WriteNoiseLength, WriteDmcMode, WriteDmcLength, WriteFrame,
           WriteOther, SetIRQ
      <4>. QED  BY <2>3, <4>1, <4>2
    <3>. QED  BY <3>1, <3>2
  <2>. HIDE DEF w
  <2>. QED  BY <1>0, <2>1, <2>2, <2>4
<1>4. CASE \E reset \in BOOLEAN : Power(reset)
  BY <1>0, <1>4 DEF Power, CpuOff
<1>5. CASE Load \/ UNCHANGED vars
  BY <1>5 DEF Load, vars, units
<1>. QED  BY <1>1, <1>2, <1>3, <1>4, <1>5 DEF Next

LEMMA SoundInit == Init => SoundInv
<1> SUFFICES ASSUME Init PROVE SoundInv
  OBVIOUS
<1>1. UnitsOK
  BY UnitsInit DEF Init, UnitsOK
<1>2. DividerOK
  BY SoundAssumption DEF Init, FrameOff, DividerOK
<1>3. enabled \subseteq Channels /\ cpu.writes <= program.row
  BY SoundAssumption DEF Init, CpuOff
<1>. QED  BY <1>1, <1>2, <1>3, FetchInit DEF SoundInv

LEMMA SoundNext == SoundInv /\ [Next]_vars => SoundInv'
BY FetchNext, UnitsNext, DividerNext, WritesNext DEF SoundInv

\* The counters of a sweep, the noise channel, the sample channel and the frame are never
\* decremented at 0, an envelope's only while it has no volume; no sweep moves a period out of
\* its register, and the noise channel's shift register never sticks at 0, for every table,
\* speed, divisor and width (sweep.cpp, noise.cpp, envelope.cpp, apu.cpp).
THEOREM SoundTypeCorrect == Spec => []SoundTypeOK
<1>1. SoundInv => SoundTypeOK
  <2>. SUFFICES ASSUME SoundInv PROVE SoundTypeOK
    OBVIOUS
  <2>1. \A n \in 0 .. 1 : /\ EnvelopeOK(pulse[n].env) /\ pulse[n].length \in Nat
                           /\ pulse[n].sweep.counter > 0
                           /\ pulse[n].sweep.timer \in 0 .. TimerWidth - 1
    <3>. SUFFICES ASSUME NEW n \in 0 .. 1
         PROVE  /\ EnvelopeOK(pulse[n].env) /\ pulse[n].length \in Nat
                /\ pulse[n].sweep.counter > 0
                /\ pulse[n].sweep.timer \in 0 .. TimerWidth - 1
      OBVIOUS
    <3>1. /\ pulse[n].env \in EnvelopeType /\ pulse[n].length \in Nat
          /\ pulse[n].sweep \in SweepType
      BY DEF SoundInv, UnitsOK, PulseType
    <3>. QED  BY <3>1 DEF EnvelopeType, EnvelopeRecord, SweepType, EnvelopeOK
  <2>2. triangle.length \in Nat /\ triangle.counter \in Nat
    BY DEF SoundInv, UnitsOK, TriangleType
  <2>3. /\ EnvelopeOK(noise.env) /\ noise.length \in Nat /\ noise.counter > 0
        /\ noise.lfsr \in 1 .. 2 * LfsrTop - 1
    <3>1. /\ noise.env \in EnvelopeType /\ noise.length \in Nat /\ noise.counter \in Nat \ {0}
          /\ noise.lfsr \in 1 .. 2 * LfsrTop - 1
      BY DEF SoundInv, UnitsOK, NoiseType
    <3>. QED  BY <3>1 DEF EnvelopeType, EnvelopeRecord, EnvelopeOK
  <2>4. /\ dmc.length \in Nat /\ dmc.delay \in 0 .. RdyDelay /\ dmc.counter > 0
        /\ frame.counter \in 0 .. 3 /\ frame.divider \in 1 .. 2 * FramePeriod
    BY DEF SoundInv, FetchInv, DmcType, FrameType, DividerOK
  <2>5. cpu \in [rdy : BOOLEAN, address : BOOLEAN, line : BOOLEAN, mdr : {"data", "sample"},
                 read : {"none", "rom", "4015"}, writes : 0 .. program.row]
    <3>1. program.row \in Nat
      BY SoundAssumption DEF SoundInv, FetchInv
    <3>. QED  BY <3>1 DEF SoundInv, FetchInv, CpuType
  <2>. QED  BY <2>1, <2>2, <2>3, <2>4, <2>5 DEF SoundTypeOK, SoundInv, FetchInv
<1>. QED  BY <1>1, SoundInit, SoundNext, PTL DEF Spec

=============================================================================
