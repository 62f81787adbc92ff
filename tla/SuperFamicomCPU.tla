--------------------------- MODULE SuperFamicomCPU ----------------------------
(***************************************************************************)
(* The Super Famicom's CPU around its instructions (sfc/cpu: dma.cpp,      *)
(* timing.cpp, irq.cpp and the registers of io.cpp that reach them): the   *)
(* general and the H-blank DMA that run between two accesses of a program, *)
(* the NMI and IRQ that are tested at its last cycle, and the ALU that     *)
(* moves on with every access.                                             *)
(*                                                                         *)
(* A unit of time is four clocks, one pollInterrupts().  The refresh of    *)
(* the DRAM, which only takes time, and the joypads are left out, as are   *)
(* the other processors; what a DMA moves is left out but for the tables.  *)
(***************************************************************************)
EXTENDS Integers, Sequences

CONSTANTS
  Line,         \* units of a line
  Lines, Vdisp, \* lines of a frame, and those of them that are displayed
  InitPosition, \* hdmaInitPosition
  HdmaPosition, \* hdmaPosition
  Access,       \* units of an access of the CPU, its clockCount
  Channels,     \* how many of the 8 channels there are
  CountHalf,    \* 0x80 of a line counter
  SizeWidth,    \* the width of transferSize, a uint16
  FactorBits,   \* the width of the ALU's factors and divisor, 8
  Programs      \* what a program does; one of them is chosen

Channel == 0 .. Channels - 1
Frame   == Line * Lines

\* Its channels (tables, and where and how they transfer); the values it writes to 0x420b,
\* 0x420c, 0x4200, a channel's transferSize, and the ALU; the registers it reads; whether it
\* waits; the values its instructions give the I flag; the position of its IRQ.
Registers == {"420b", "420c", "4200", "size", "source", "mpy", "div"}

ASSUME CpuAssumption ==
  /\ {Line, Lines, Vdisp, InitPosition, HdmaPosition, Access, Channels, CountHalf, SizeWidth,
      FactorBits} \subseteq Nat \ {0}
  /\ Vdisp < Lines /\ InitPosition < HdmaPosition /\ HdmaPosition < Line
  /\ Access < Line
  /\ Frame % 2 = 0
  /\ \A p \in Programs :
       /\ DOMAIN p.channel = Channel /\ DOMAIN p.writes \subseteq Registers
       /\ p.reads \subseteq {"4210", "4211"}
       /\ \A n \in Channel : p.channel[n].length \in Nat
       /\ \A reg \in DOMAIN p.writes \cap {"420b", "420c"} : p.writes[reg] \subseteq SUBSET Channel
       /\ "size" \in DOMAIN p.writes =>
            p.writes["size"] \subseteq [n : Channel, size : 0 .. SizeWidth - 1]
       /\ "source" \in DOMAIN p.writes => p.writes["source"] \subseteq Channel
       /\ "mpy" \in DOMAIN p.writes =>
            p.writes["mpy"] \subseteq (0 .. 2 ^ FactorBits - 1) \X (0 .. 2 ^ FactorBits - 1)
       /\ "div" \in DOMAIN p.writes =>
            p.writes["div"] \subseteq (0 .. 2 ^ (2 * FactorBits) - 1) \X (0 .. 2 ^ FactorBits - 1)

\* The lines an entry of a table is for, and where it starts: its line, and its address.
EntryLines(b) == IF b % CountHalf = 0 THEN CountHalf ELSE b % CountHalf
EntrySize(c, b) ==
  IF c.indirect THEN 3 ELSE 1 + c.length * (IF b > CountHalf THEN EntryLines(b) ELSE 1)
EntryStart(c) ==
  LET start[i \in 1 .. Len(c.entries) + 1] ==
        IF i = 1 THEN 0 ELSE start[i - 1] + EntryLines(c.entries[i - 1])
  IN  start
EntryAddress(c) ==
  LET address[i \in 1 .. Len(c.entries) + 1] ==
        IF i = 1 THEN 0 ELSE address[i - 1] + EntrySize(c, c.entries[i - 1])
  IN  address

\* The memory of a channel holds its table as far as a frame reads it, and a zero at its end.
HoldsTable(c) ==
  /\ c.width \in Nat \ {0} /\ c.entries \in Seq(1 .. 2 * CountHalf - 1)
  /\ \A i \in 1 .. Len(c.entries) + 1 :
       LET at == (EntryAddress(c)[i] % c.width) + 1 IN
       EntryStart(c)[i] <= Vdisp =>
         /\ at \in DOMAIN c.memory
         /\ c.memory[at] = IF i \in DOMAIN c.entries THEN c.entries[i] ELSE 0

\* The units that the transfers of a program's first k channels take at most, and those their
\* counts take.
MoveTime(p) ==
  LET units[k \in 0 .. Channels] ==
        IF k = 0 THEN 0 ELSE units[k - 1] + 2 * p.channel[k - 1].length
  IN  units
CountTime(p) ==
  LET units[k \in 0 .. Channels] ==
        IF k = 0 THEN 0 ELSE units[k - 1] + (IF p.channel[k - 1].indirect THEN 6 ELSE 2)
  IN  units

\* An access and what a DMA does before it next looks for an H-DMA.
Delay == Access + 8

\* A line is long enough for what is done in it: H-DMA begins its tables before it first
\* transfers, and it is through before it has to transfer again.  An access takes 6, 8 or 12
\* clocks.
ASSUME HdmaAssumption ==
  /\ Access <= 3
  /\ InitPosition + Delay <= HdmaPosition /\ HdmaPosition + Delay <= Line
  /\ \A p \in Programs :
       /\ \A n \in Channel : HoldsTable(p.channel[n])
       /\ InitPosition + Delay + 2 + CountTime(p)[Channels] + Delay <= Line
       /\ 2 + MoveTime(p)[Channels] + CountTime(p)[Channels] + Delay <= Line

VARIABLES
  program,
  step,   \* what comes next: "main", "edge" or "access" of a cycle, "dma"
  cycle,  \* the cycle of the instruction: "vector", "fetch", "middle", "last", "wait", "resume"
  clock,  \* the position in the frame, and which of its two H-DMA events have triggered
  dma,    \* dmaActive, dmaPending, hdmaPending, hdmaMode; the channel dmaRun() is at, and
          \* whether it has moved its bytes
  channel,
  pipe,   \* the byte read and not yet written
  irq,    \* the interrupt unit, with the CPU's I flag (masked) and its wai
  alu,
  ghost   \* what the properties refer to; no action reads it

vars == << program, step, cycle, clock, dma, channel, pipe, irq, alu, ghost >>

Flag(b) == IF b THEN 1 ELSE 0

\* The record the operators below take from one moment to the next.
Now == [clock |-> clock, dma |-> dma, channel |-> channel, pipe |-> pipe, irq |-> irq,
        alu |-> alu, ghost |-> ghost]

Becomes(m) ==
  /\ clock' = m.clock /\ dma' = m.dma /\ channel' = m.channel /\ pipe' = m.pipe
  /\ irq' = m.irq /\ alu' = m.alu /\ ghost' = m.ghost

-----------------------------------------------------------------------------
(* Time and interrupts *)

LineOf(t) == t \div Line
\* The position k units before t.
Before(t, k) == (t + Frame - k) % Frame

\* pollInterrupts(), the NMI: a vblank raises the line, and the transition follows after
\* the hold.
PollNmi(i, t) ==
  LET valid == LineOf(t) >= Vdisp
      edge  == valid /\ ~i.nmiValid
  IN  [i EXCEPT !.nmiTransition = @ \/ (i.nmiHold /\ i.nmiEnabled),
                !.nmiLine = edge \/ (@ /\ (valid \/ ~i.nmiValid)),
                !.nmiHold = edge,
                !.nmiValid = valid]

\* The IRQ: its position is seen 10 clocks late, and not in the last dot of a field.
PollIrq(i, t) ==
  LET at    == Before(t, 2)
      valid == /\ i.virq \/ i.hirq
               /\ i.virq => LineOf(at) = program.vpos
               /\ i.hirq => at % Line = program.hpos + 1
               /\ ~(program.vpos > 0 /\ LineOf(Before(t, 1)) = 0)
      edge  == valid /\ ~i.irqValid
  IN  [i EXCEPT !.irqTransition = @ \/ (i.irqLine /\ (i.virq \/ i.hirq)),
                !.irqLine = @ \/ edge,
                !.irqHold = edge,
                !.irqValid = valid]

\* scanline(): what a line and a frame trigger anew.
Scanline(c) ==
  [c EXCEPT !.init = @ /\ LineOf(c.at) # 0, !.run = @ /\ LineOf(c.at) >= Vdisp]

Tick(m) ==
  LET c == [m.clock EXCEPT !.at = (@ + 1) % Frame]
      i == PollNmi(m.irq, c.at)
  IN  [m EXCEPT !.clock = IF c.at % Line = 0 THEN Scanline(c) ELSE c,
                !.irq = PollIrq(i, c.at),
                !.ghost.causes = IF i.nmiValid /\ ~m.irq.nmiValid
                                   THEN 1 + Flag(i.nmiTransition) + Flag(i.nmiPending) ELSE @,
                !.ghost.waited = IF i.wai /\ i.nmiEnabled
                                   THEN IF @ > Frame + 2 * Access THEN @ ELSE @ + 1 ELSE 0]

\* CPU::step()
Step(m, units) ==
  LET after[u \in 0 .. units] ==
        IF u = 0 THEN [m EXCEPT !.irq.lock = FALSE] ELSE Tick(after[u - 1])
  IN  after[units]

\* Mutant: an IRQ is pending although it is masked.
IrqTestUnmasked(i) == i.irqTransition

\* irqTest()
IrqTest(i) == i.irqTransition /\ ~i.masked

\* Mutant: the transition of the NMI is kept.
LastCycleKeeping(i) ==
  IF i.lock THEN i
  ELSE LET n == i.nmiPending \/ i.nmiTransition
           q == i.irqPending \/ IrqTest(i)
       IN  [i EXCEPT !.nmiPending = n, !.irqPending = q, !.interruptPending = n \/ q,
                     !.wai = @ /\ ~i.nmiTransition /\ ~i.irqTransition,
                     !.irqTransition = FALSE]

\* Mutant: the transition of an NMI is lost on a CPU that waits.
LastCycleWaiting(i) ==
  IF i.lock THEN i
  ELSE LET n == i.nmiPending \/ (i.nmiTransition /\ ~i.wai)
           q == i.irqPending \/ IrqTest(i)
       IN  [i EXCEPT !.nmiPending = n, !.irqPending = q, !.interruptPending = n \/ q,
                     !.wai = @ /\ ~n /\ ~q,
                     !.nmiTransition = FALSE, !.irqTransition = FALSE]

\* lastCycle(): either transition ends a wait, whether the IRQ is masked or not.
LastCycle(i) ==
  IF i.lock THEN i
  ELSE LET n == i.nmiPending \/ i.nmiTransition
           q == i.irqPending \/ IrqTest(i)
       IN  [i EXCEPT !.nmiPending = n, !.irqPending = q, !.interruptPending = n \/ q,
                     !.wai = @ /\ ~i.nmiTransition /\ ~i.irqTransition,
                     !.nmiTransition = FALSE, !.irqTransition = FALSE]

\* nmitimenUpdate()
NmitimenUpdate(i, nmi, v, h) ==
  [i EXCEPT !.nmiEnabled = nmi, !.virq = v, !.hirq = h, !.lock = TRUE,
            !.nmiTransition = @ \/ (nmi /\ ~i.nmiEnabled /\ i.nmiLine),
            !.irqTransition = (@ \/ (v /\ ~h /\ i.irqLine)) /\ (v \/ h),
            !.irqLine = @ /\ (v \/ h)]

\* rdnmi() and timeup()
Rdnmi(i)  == [i EXCEPT !.nmiLine = @ /\ i.nmiHold]
Timeup(i) == [i EXCEPT !.irqLine = @ /\ i.irqHold, !.irqTransition = @ /\ i.irqHold]

-----------------------------------------------------------------------------
(* The ALU *)

\* aluEdge(): a step of a multiplication, or of a division.
AluEdge(m) ==
  LET a == m.alu
      shift == a.shift \div 2
      fits  == a.rdmpy >= shift
  IN  IF a.mpyctr > 0
        THEN [m EXCEPT !.alu.mpyctr = @ - 1,
                       !.alu.rdmpy = IF a.rddiv % 2 = 1
                                       THEN (@ + a.shift) % 2 ^ (2 * FactorBits) ELSE @,
                       !.alu.rddiv = @ \div 2, !.alu.shift = @ * 2]
      ELSE IF a.divctr > 0
        THEN [m EXCEPT !.alu.divctr = @ - 1, !.alu.shift = shift,
                       !.alu.rdmpy = IF fits THEN @ - shift ELSE @,
                       !.alu.rddiv = ((@ * 2) % 2 ^ (2 * FactorBits)) + Flag(fits)]
      ELSE m

Busy(m) == m.alu.mpyctr + m.alu.divctr > 0

\* The operation op that goes on in l from the value v, which a write put into rdmpy: with
\* the digits of its factor that are still to be multiplied, or with the steps that are left
\* of a division and the digits of the quotient that were found.
Resumed(l, op, v) ==
  IF op[1] = "mpy"
    THEN << "mpy", op[2] - (op[2] % 2 ^ (FactorBits - l.mpyctr)), op[3], v >>
    ELSE << "div", l.divctr, op[3], v, l.rddiv % 2 ^ (2 * FactorBits - l.divctr) >>

\* Mutant: a busy ALU returns before its result is cleared.
WriteFactorIgnored(m, a, b) ==
  IF Busy(m)
    THEN [m EXCEPT !.ghost.op = Resumed(m.alu, @, 0)]
    ELSE [m EXCEPT !.alu = [mpyctr |-> FactorBits, divctr |-> 0, shift |-> b, rdmpy |-> 0,
                            rddiv |-> b * 2 ^ FactorBits + a],
                   !.ghost.op = << "mpy", a, b, 0 >>]

\* 0x4203 after 0x4202: while the ALU is busy only its result is cleared.
WriteFactor(m, a, b) ==
  IF Busy(m)
    THEN [m EXCEPT !.alu.rdmpy = 0, !.ghost.op = Resumed(m.alu, @, 0)]
    ELSE [m EXCEPT !.alu = [mpyctr |-> FactorBits, divctr |-> 0, shift |-> b, rdmpy |-> 0,
                            rddiv |-> b * 2 ^ FactorBits + a],
                   !.ghost.op = << "mpy", a, b, 0 >>]

\* 0x4206 after 0x4204 and 0x4205: while it is busy only its result is replaced.
WriteDivisor(m, a, b) ==
  IF Busy(m)
    THEN [m EXCEPT !.alu.rdmpy = a, !.ghost.op = Resumed(m.alu, @, a)]
    ELSE [m EXCEPT !.alu.divctr = 2 * FactorBits, !.alu.rdmpy = a,
                   !.alu.shift = b * 2 ^ (2 * FactorBits),
                   !.ghost.op = << "div", 2 * FactorBits, b, a, 0 >>]

-----------------------------------------------------------------------------
(* DMA: one byte *)

\* dmaStep(): of dmaClocks only the remainder is used that Inactive takes.
DmaStep(m, units) == Step([m EXCEPT !.dma.clocks = (@ + units) % Access], units)

DmaEnabled(m)  == {n \in Channel : m.channel[n].dma}
HdmaEnabled(m) == {n \in Channel : m.channel[n].hdma}
HdmaActive(m, n) == m.channel[n].hdma /\ ~m.channel[n].completed
HdmaActiveChannels(m) == {n \in Channel : HdmaActive(m, n)}
HdmaActiveAfter(m, s) == \E n \in Channel : n > s /\ HdmaActive(m, n)

\* 0x420b and 0x420c, with the set of channels they enable.
WriteDmaEnable(m, on) ==
  [m EXCEPT !.channel = [n \in Channel |-> [@[n] EXCEPT !.dma = n \in on]],
            !.dma.pending = @ \/ on # {},
            !.ghost.withdrawn = @ \/ (m.dma.pending /\ on = {})]

WriteHdmaEnable(m, on) ==
  [m EXCEPT !.channel = [n \in Channel |-> [@[n] EXCEPT !.hdma = n \in on]],
            !.ghost.withdrawn = @ \/ (m.dma.hdmaPending /\ on = {}),
            !.ghost.clean = @ \cap {n \in Channel : m.channel[n].hdma <=> n \in on}]

\* Mutant: a transfer may reach the CPU's own registers.
AnyTarget(target) == TRUE

\* dmaAddressValid() and dmaTransferValid()
TargetValid(target) == target # "420b"

\* dmaWrite(): the byte in the pipe is written, and another takes its place.
DmaWrite(m, valid, target) ==
  LET w == IF m.pipe.valid /\ m.pipe.target = "420b" THEN WriteDmaEnable(m, Channel) ELSE m
  IN  [w EXCEPT !.pipe = [valid |-> valid, target |-> target]]
DmaFlush(m) == DmaWrite(m, FALSE, "none")

\* dmaTransfer() of channel n
DmaTransfer(m, n) ==
  LET target == program.channel[n].target IN DmaWrite(m, TargetValid(target), target)

\* An address of channel n, one byte on: its uint16 wraps at the width of the program.
Next16(n, a) == (a + 1) % program.channel[n].width

\* dmaAddress(): the source moves on unless it is fixed.
DmaAddress(c, n) ==
  IF program.channel[n].fixed THEN c ELSE [c EXCEPT !.source = Next16(n, @)]

-----------------------------------------------------------------------------
(* H-DMA *)

Memory(n, a) ==
  LET table == program.channel[n].memory IN IF a + 1 \in DOMAIN table THEN table[a + 1] ELSE 0

\* Mutant: the counter is reloaded only when its repeat flag is clear, too.
ReloadsUnmasked(line) == line = 0

\* (lineCounter & 0x7f) == 0
Reloads(line) == line % CountHalf = 0

\* hdmaUpdate(), with the units it takes in spent.
HdmaUpdate(m, n) ==
  LET c      == m.channel[n]
      count  == Memory(n, c.address)
      load   == Reloads(c.line)
      whole  == count # 0 \/ HdmaActiveAfter(m, n)
      loaded == [c EXCEPT !.line = count, !.completed = (count = 0),
                          !.transfer = (count # 0), !.address = Next16(n, @)]
      low    == [loaded EXCEPT !.address = Next16(n, @),
                               !.size = (Memory(n, loaded.address) % 2) * 2]
      high   == [low EXCEPT !.address = Next16(n, @),
                            !.size = (@ \div 2) + (Memory(n, low.address) % 2) * 2]
      f      == DmaFlush(m)
  IN  IF ~load THEN [f EXCEPT !.dma.spent = @ + 2]
      ELSE IF ~program.channel[n].indirect
        THEN [f EXCEPT !.dma.spent = @ + 2, !.channel[n] = loaded]
      ELSE [f EXCEPT !.dma.spent = @ + (IF whole THEN 6 ELSE 4),
                     !.channel[n] = IF whole THEN high ELSE low]

\* The bytes of one line of channel n.
HdmaTransfer(m, n) ==
  LET length == program.channel[n].length
      moved[k \in 0 .. length] == IF k = 0 THEN m ELSE DmaTransfer(moved[k - 1], n)
      t == [moved[length] EXCEPT !.dma.spent = @ + 2 * length]
  IN  IF program.channel[n].indirect
        THEN [t EXCEPT !.channel[n].size = (@ + length) % SizeWidth]
        ELSE [t EXCEPT !.channel[n].address = (@ + length) % program.channel[n].width]

\* The clocks of a run, and of the 8 it begins with.
Spending(m) == [m EXCEPT !.dma.spent = 2]
Spend(m)    == DmaStep([m EXCEPT !.dma.spent = 0], m.dma.spent)

\* hdmaRun(), first: the channel transfers if its table says so, and its DMA ends.
Move(m, n) ==
  LET stopped == [m EXCEPT !.channel[n].dma = FALSE] IN
  IF m.channel[n].transfer
    THEN [HdmaTransfer(stopped, n) EXCEPT
            !.ghost.moves[n] = IF n \in m.ghost.clean THEN @ \cup {LineOf(m.clock.at)} ELSE @]
    ELSE stopped

\* And then: it counts its line.
Count(m, n) ==
  LET left == (m.channel[n].line + 2 * CountHalf - 1) % (2 * CountHalf) IN
  HdmaUpdate([m EXCEPT !.channel[n].line = left, !.channel[n].transfer = (left >= CountHalf)], n)

\* hdmaInit(): it begins its table.
Begin(m, n) ==
  HdmaUpdate([m EXCEPT !.channel[n].dma = FALSE, !.channel[n].line = 0,
                       !.channel[n].address = m.channel[n].source,
                       !.ghost.clean = IF m.channel[n].source = 0 THEN @ \cup {n} ELSE @], n)

\* What is done for channel n in a loop over them, or nothing.
Turn(loop, m, n) ==
  CASE loop = "move"  -> IF HdmaActive(m, n) THEN Move(m, n) ELSE m
    [] loop = "count" -> IF HdmaActive(m, n) THEN Count(m, n) ELSE m
    [] loop = "begin" -> IF m.channel[n].hdma THEN Begin(m, n) ELSE m

EachChannel(loop, m) ==
  LET done[k \in 0 .. Channels] == IF k = 0 THEN m ELSE Turn(loop, done[k - 1], k - 1)
  IN  done[Channels]

\* hdmaRun(): every active channel transfers, and then every one counts.
HdmaRun(m) ==
  LET moved == EachChannel("move", Spending(DmaFlush(m)))
  IN  [Spend(EachChannel("count", moved)) EXCEPT !.irq.lock = TRUE]

\* hdmaInitReset()
HdmaInitReset(m) ==
  [m EXCEPT !.channel = [n \in Channel |->
                           [@[n] EXCEPT !.completed = FALSE, !.transfer = FALSE]],
            !.ghost.clean = {}, !.ghost.moves = [n \in Channel |-> {}]]

\* hdmaInit()
HdmaInit(m) ==
  LET set == [m EXCEPT !.channel = [n \in Channel |-> [@[n] EXCEPT !.transfer = TRUE]]]
  IN  [Spend(EachChannel("begin", Spending(DmaFlush(set)))) EXCEPT !.irq.lock = TRUE]

-----------------------------------------------------------------------------
(* dmaEdge(): an H-DMA and a DMA that are pending, and what becomes pending *)

Align(m) == DmaStep(m, 2 - (m.clock.at % 2))

\* Mutant: DMA stays active.
InactiveNever(m) == Step(m, Access - m.dma.clocks)

\* A transfer is over: its clocks are filled up to whole accesses.
Inactive(m) ==
  [Step(m, Access - m.dma.clocks) EXCEPT !.dma.active = FALSE, !.ghost.withdrawn = FALSE]

\* The first part of dmaEdge(), an H-DMA that is pending.
HdmaPart(m) ==
  LET p == [m EXCEPT !.dma.hdmaPending = FALSE]
      a == IF DmaEnabled(p) = {} THEN Align(p) ELSE p
      r == IF p.dma.hdmaMode = "init" THEN HdmaInit(a) ELSE HdmaRun(a)
  IN  IF ~m.dma.active \/ ~m.dma.hdmaPending THEN m
      ELSE IF HdmaEnabled(p) = {} THEN p
      ELSE IF DmaEnabled(r) = {} THEN Inactive(r) ELSE r

Triggers(m) ==
  LET h == m.clock.at % Line
      i == IF m.clock.init \/ h < InitPosition THEN m
           ELSE LET r == HdmaInitReset([m EXCEPT !.clock.init = TRUE]) IN
                IF HdmaEnabled(r) = {} THEN r
                ELSE [r EXCEPT !.dma.hdmaPending = TRUE, !.dma.hdmaMode = "init"]
      r == IF i.clock.run \/ h < HdmaPosition THEN i
           ELSE IF HdmaActiveChannels(i) = {} THEN [i EXCEPT !.clock.run = TRUE]
           ELSE [i EXCEPT !.clock.run = TRUE, !.dma.hdmaPending = TRUE,
                          !.dma.hdmaMode = "run"]
  IN  IF r.dma.active \/ ~(r.dma.pending \/ r.dma.hdmaPending) THEN r
      ELSE [r EXCEPT !.dma.active = TRUE, !.dma.clocks = 0]

\* A dmaEdge() of dmaRun(), in which no further DMA is pending.
NestedEdge(m) == Triggers(HdmaPart(m))

\* The dmaEdge() an access begins with; lastCycle() comes before that of the last access.
Edge ==
  LET tested == cycle \in {"last", "wait"}
      t == [Now EXCEPT !.irq = IF tested THEN LastCycle(@) ELSE @,
                       !.ghost.seen = IF tested THEN irq.masked ELSE @]
  IN
  /\ step = "edge"
  /\ \E h \in {HdmaPart(t)} :
       LET p    == [h EXCEPT !.dma.pending = FALSE]
           runs == dma.active /\ h.dma.pending /\ DmaEnabled(h) # {}
       IN  IF runs
             THEN /\ step' = "dma"
                  /\ \E m \in {DmaStep([Align(p) EXCEPT !.dma.at = 0, !.dma.stage = "next"], 2)} :
                       \E n \in {NestedEdge(DmaFlush(m))} : Becomes(n)
             ELSE /\ step' = "access"
                  /\ \E m \in {Triggers(IF dma.active THEN p ELSE h)} : Becomes(m)
  /\ UNCHANGED << program, cycle >>

\* dmaRun(): a byte of the channel it is at, or of the next that is enabled.
DmaByte(n) ==
  /\ step = "dma"
  /\ \/ dma.stage = "bytes" /\ n = dma.at
     \/ /\ dma.stage = "next" /\ n >= dma.at /\ channel[n].dma
        /\ \A other \in dma.at .. n - 1 : ~channel[other].dma
  /\ LET moved == DmaTransfer(DmaStep([Now EXCEPT !.channel[n] = DmaAddress(@, n)], 2), n) IN
     \E m \in {NestedEdge(moved)} :
       LET left == (m.channel[n].size + SizeWidth - 1) % SizeWidth IN
       IF m.channel[n].dma
         THEN Becomes([m EXCEPT !.channel[n].size = left, !.dma.at = n,
                                !.dma.stage = IF left = 0 THEN "close" ELSE "bytes"])
         ELSE Becomes([m EXCEPT !.dma.at = n, !.dma.stage = "close"])
  /\ UNCHANGED << program, step, cycle >>

\* Its end of a channel.
DmaClose ==
  /\ step = "dma" /\ dma.stage = "close"
  /\ \E m \in {NestedEdge(DmaFlush(DmaStep(Now, 2)))} :
       Becomes([m EXCEPT !.channel[dma.at].dma = FALSE, !.dma.at = @ + 1, !.dma.stage = "next"])
  /\ UNCHANGED << program, step, cycle >>

\* Its return to the dmaEdge() that called it.
DmaReturn ==
  /\ step = "dma" /\ dma.stage = "next"
  /\ \A n \in Channel : n >= dma.at => ~channel[n].dma
  /\ step' = "access"
  /\ \E m \in {Triggers(Inactive(Now))} : Becomes(m)
  /\ UNCHANGED << program, cycle >>

-----------------------------------------------------------------------------
(* The program *)

\* main(): an interrupt that is pending, NMI first, and then an instruction.
Main ==
  /\ step = "main" /\ step' = "edge"
  /\ IF irq.wai THEN cycle' = "wait" /\ UNCHANGED << irq, ghost >>
     ELSE IF ~irq.interruptPending THEN cycle' = "fetch" /\ UNCHANGED << irq, ghost >>
     ELSE /\ cycle' = "vector"
          /\ IF irq.nmiPending
               THEN /\ irq' = [irq EXCEPT !.interruptPending = FALSE, !.masked = TRUE,
                                          !.nmiPending = FALSE]
                    /\ ghost' = [ghost EXCEPT !.causes = @ - 1, !.preempted = irq.irqPending]
               ELSE /\ irq' = [irq EXCEPT !.interruptPending = FALSE, !.masked = TRUE,
                                          !.irqPending = FALSE]
                    /\ ghost' = [ghost EXCEPT !.preempted = FALSE]
  /\ UNCHANGED << program, clock, dma, channel, pipe, alu >>

\* The cycle after an access, and after the last one, the flags of the instruction.
NextCycle ==
  CASE cycle = "vector" -> cycle' = "fetch" /\ step' = "edge"
    [] cycle = "fetch"  -> cycle' \in {"middle", "last"} /\ step' = "edge"
    [] cycle = "middle" -> cycle' = "last" /\ step' = "edge"
    [] cycle = "last"   -> cycle' = "fetch" /\ step' = "main"
    [] cycle = "wait"   -> cycle' = (IF irq.wai THEN "wait" ELSE "resume") /\ step' = "edge"
    [] cycle = "resume" -> cycle' = "fetch" /\ step' = "main"

\* An access to anything else; the last one of an instruction may change the I flag.
Plain ==
  /\ step = "access" /\ NextCycle
  /\ \E m \in {AluEdge(Step(Now, Access))},
        i \in IF cycle = "last" THEN program.flags ELSE {irq.masked} :
       Becomes([m EXCEPT !.irq.masked = i])
  /\ UNCHANGED program

\* WAI, after its fetch.
Wait ==
  /\ step = "access" /\ cycle = "fetch" /\ program.waits
  /\ cycle' = "wait" /\ step' = "edge"
  /\ \E m \in {AluEdge(Step(Now, Access))} :
       Becomes([m EXCEPT !.irq.wai = TRUE])
  /\ UNCHANGED program

Accesses == step = "access" /\ cycle \in {"middle", "last"} /\ NextCycle

\* readCPU(): what the read of a register does to the interrupt unit.
Acknowledged(reg, i) == IF reg = "4210" THEN Rdnmi(i) ELSE Timeup(i)

\* A read of a register, a unit before the end of the access.
ReadCPU(reg) ==
  /\ Accesses /\ reg \in program.reads
  /\ \E m \in {Step(Now, Access - 1)} :
       \E r \in {AluEdge(Step([m EXCEPT !.irq = Acknowledged(reg, @)], 1))} : Becomes(r)
  /\ UNCHANGED program

\* writeCPU() and writeDMA(): what the write of v to a register does.
Written(reg, m, v) ==
  CASE reg = "4200"   -> [m EXCEPT !.irq = NmitimenUpdate(@, v.nmi, v.virq, v.hirq),
                                   !.ghost.causes =
                                     IF v.nmi /\ ~m.irq.nmiEnabled /\ m.irq.nmiLine
                                       THEN IF @ > 2 THEN 3 ELSE @ + 1 ELSE @]
    [] reg = "420b"   -> WriteDmaEnable(m, v)
    [] reg = "420c"   -> WriteHdmaEnable(m, v)
    [] reg = "size"   -> [m EXCEPT !.channel[v.n].size = v.size]
    [] reg = "source" -> [m EXCEPT !.channel[v].source = 0]
    [] reg = "mpy"    -> WriteFactor(m, v[1], v[2])
    [] reg = "div"    -> WriteDivisor(m, v[1], v[2])

\* A write, at its end.
WriteCPU(reg) ==
  /\ Accesses /\ reg \in DOMAIN program.writes
  /\ \E m \in {Step(AluEdge(Now), Access)}, v \in program.writes[reg] :
       \E w \in {Written(reg, m, v)} : Becomes(w)
  /\ UNCHANGED program

Init ==
  /\ program \in Programs /\ step = "main" /\ cycle = "fetch"
  /\ clock = [at |-> 0, init |-> FALSE, run |-> FALSE]
  /\ dma = [active |-> FALSE, pending |-> FALSE, hdmaPending |-> FALSE, hdmaMode |-> "init",
            clocks |-> 0, at |-> 0, stage |-> "next", spent |-> 0]
  /\ channel = [n \in Channel |->
                  [dma |-> FALSE, hdma |-> FALSE, completed |-> FALSE, transfer |-> FALSE,
                   line |-> 2 * CountHalf - 1, address |-> 0, source |-> 0, size |-> SizeWidth - 1]]
  /\ pipe = [valid |-> FALSE, target |-> "none"]
  /\ irq = [nmiEnabled |-> FALSE, virq |-> FALSE, hirq |-> FALSE, nmiValid |-> FALSE,
            nmiLine |-> FALSE, nmiHold |-> FALSE, nmiTransition |-> FALSE, nmiPending |-> FALSE,
            irqValid |-> FALSE, irqLine |-> FALSE, irqHold |-> FALSE, irqTransition |-> FALSE,
            irqPending |-> FALSE, interruptPending |-> FALSE, lock |-> FALSE, masked |-> TRUE,
            wai |-> FALSE]
  /\ alu = [mpyctr |-> 0, divctr |-> 0, shift |-> 0, rdmpy |-> 0, rddiv |-> 0]
  /\ ghost = [causes |-> 0, preempted |-> FALSE, seen |-> TRUE, withdrawn |-> FALSE,
              clean |-> {}, moves |-> [n \in Channel |-> {}], op |-> << "none" >>, waited |-> 0]

Next ==
  \/ Main \/ Edge \/ (\E n \in Channel : DmaByte(n)) \/ DmaClose \/ DmaReturn
  \/ Plain \/ Wait
  \/ (\E reg \in {"4210", "4211"} : ReadCPU(reg)) \/ (\E reg \in Registers : WriteCPU(reg))

Spec == Init /\ [][Next]_vars

-----------------------------------------------------------------------------
(* Properties *)

\* DMA is active between two accesses only for a transfer that is pending, unless the
\* program withdrew the channels of one: no other transfer can begin without the cycle of the
\* CPU that comes before it, and a flag a withdrawal left set lasts until the end of the next.
ActiveIsPending ==
  step \in {"main", "edge", "access"} /\ dma.active =>
    dma.pending \/ dma.hdmaPending \/ ghost.withdrawn

\* dmaRun() is never entered from within, since no transfer reaches 0x420b, and no byte is
\* left in the pipe when the program goes on.
DmaIsolated ==
  /\ step = "dma" => ~dma.pending
  /\ step # "dma" => ~pipe.valid

\* The lines on which the table of channel n says that it transfers: the first of each
\* entry, and all of one whose repeat flag is set.
TransferLines(n) ==
  LET c == program.channel[n]
      start == EntryStart(c)
  IN  UNION { IF c.entries[i] > CountHalf
                THEN start[i] .. start[i] + EntryLines(c.entries[i]) - 1
                ELSE {start[i]} : i \in DOMAIN c.entries }

\* A channel that was enabled when the frame began, and since, has transferred on just the
\* lines its table says, whatever DMA it interrupted on whatever channel.
HdmaFollowsTable ==
  clock.run /\ ~dma.hdmaPending =>
    \A n \in ghost.clean :
      LET v == IF LineOf(clock.at) < Vdisp THEN LineOf(clock.at) ELSE Vdisp - 1 IN
      ghost.moves[n] = TransferLines(n) \cap 0 .. v

\* An NMI is taken at most once for each vblank and each time the program enables it anew
\* while its line is up.
NmiHasCause == ghost.causes >= 0

\* The IRQ is taken while it is masked only if an NMI came before it that was pending with
\* it: the last cycle at which it was tested was not masked.
MaskedIrqAfterNmi ==
  [][irq.irqPending /\ ~irq'.irqPending => ~ghost.seen \/ ghost.preempted]_vars

\* The value x from which an operation goes on is 0 for a product and the dividend for a
\* quotient, unless 0x4203 or 0x4206 was written while the ALU was busy: such a write
\* replaces what the operation has found in rdmpy, and nothing else.
\* rdmpy is x and the product of b and what of the other factor was still to be multiplied,
\* and rddiv is b.
IsProduct(factor, b, x) ==
  alu.rdmpy = (x + factor * b) % 2 ^ (2 * FactorBits) /\ alu.rddiv = b

\* rddiv has the digits found before and those of the quotient of x by b, and rdmpy the
\* remainder; a quotient that does not fit the steps that were left, as that of a division
\* by zero, has only ones.
IsQuotient(left, b, x, found) ==
  \E q \in 0 .. 2 ^ left - 1 :
    /\ alu.rddiv = found * 2 ^ left + q /\ x = q * b + alu.rdmpy
    /\ alu.rdmpy < b \/ q = 2 ^ left - 1

\* What an operation leaves in the ALU's registers is the product, or the quotient and the
\* remainder, whatever was written to them while it was under way.
AluResult ==
  LET op == ghost.op IN
  alu.mpyctr + alu.divctr = 0 =>
    /\ op[1] = "mpy" => IsProduct(op[2], op[3], op[4])
    /\ op[1] = "div" => IsQuotient(op[2], op[3], op[4], op[5])

\* A program that waits with the NMI enabled goes on within a frame, whatever it read and
\* wrote before.
WaitEnds == ghost.waited <= Frame + 2 * Access

=============================================================================
