------------------------ MODULE SuperFamicomCPUProofs -------------------------
(***************************************************************************)
(* Theorems about SuperFamicomCPU, for every length of a line, a frame and *)
(* an access, every number of channels, every table and every program.     *)
(***************************************************************************)
EXTENDS SuperFamicomCPU, Induction, TLAPS

-----------------------------------------------------------------------------
(* The record that goes from one moment to the next *)

Fields == {"clock", "dma", "channel", "pipe", "irq", "alu", "ghost"}
IrqFields == {"nmiEnabled", "virq", "hirq", "nmiValid", "nmiLine", "nmiHold", "nmiTransition",
              "nmiPending", "irqValid", "irqLine", "irqHold", "irqTransition", "irqPending",
              "interruptPending", "lock", "masked", "wai"}
GhostFields == {"causes", "preempted", "seen", "withdrawn", "clean", "moves", "op", "waited"}
DmaFields == {"active", "pending", "hdmaPending", "hdmaMode", "clocks", "at", "stage", "spent"}
ChannelFields == {"dma", "hdma", "completed", "transfer", "line", "address", "source", "size"}

\* The fields there are, and the numbers that time is counted in.
Shape(m) ==
  /\ DOMAIN m = Fields
  /\ DOMAIN m.clock = {"at", "init", "run"} /\ DOMAIN m.dma = DmaFields
  /\ DOMAIN m.irq = IrqFields /\ DOMAIN m.ghost = GhostFields
  /\ DOMAIN m.channel = Channel /\ \A n \in Channel : DOMAIN m.channel[n] = ChannelFields
  /\ m.clock.at \in Nat /\ m.dma.clocks \in 0 .. Access - 1 /\ m.dma.spent \in Nat

\* An NMI that is pending, or about to be, has a cause that was not yet used; and a program
\* that has no WAI never waits.
Accounted(m) ==
  /\ m.ghost.causes \in Int
  /\ m.ghost.causes >= Flag(m.irq.nmiPending) + Flag(m.irq.nmiTransition) + Flag(m.irq.nmiHold)
  /\ ~program.waits => ~m.irq.wai /\ m.ghost.waited = 0

\* What neither time nor a transfer changes of the interrupts, the ALU and the ghosts.
Tested(m) == << m.irq.nmiPending, m.irq.irqPending, m.irq.interruptPending, m.irq.masked,
                m.irq.wai, m.alu, m.ghost.op, m.ghost.preempted, m.ghost.seen,
                m.ghost.withdrawn >>
\* And what time changes neither of the transfers.
Transfers(m) == << m.dma.active, m.dma.pending, m.dma.hdmaPending, m.dma.hdmaMode, m.dma.at,
                   m.dma.stage >>

\* n follows m without more than time, and what a transfer does to the channels and the pipe.
Same(m, n) ==
  /\ Shape(n) /\ Tested(n) = Tested(m) /\ Transfers(n) = Transfers(m)
  /\ Accounted(m) => Accounted(n)

LEMMA SameTransitive ==
  ASSUME NEW l, NEW m, NEW n, Same(l, m), Same(m, n)
  PROVE  Same(l, n)
BY DEF Same

LEMMA SameReflexive == ASSUME NEW m, Shape(m) PROVE Same(m, m)
BY DEF Same

-----------------------------------------------------------------------------
(* Time *)

LEMMA Modulo == \A a \in Int, d \in Nat \ {0} : a % d \in 0 .. d - 1 /\ a % d \in Nat
OBVIOUS

LEMMA FrameIsPositive == Frame \in Nat \ {0}
BY CpuAssumption DEF Frame

LEMMA FlagValue == \A b : Flag(b) \in {0, 1} /\ (b => Flag(b) = 1) /\ (~b => Flag(b) = 0)
BY DEF Flag

LEMMA PollNmiFields ==
  ASSUME NEW i, NEW t, DOMAIN i = IrqFields
  PROVE  /\ DOMAIN PollNmi(i, t) = IrqFields
         /\ \A x \in IrqFields \ {"nmiTransition", "nmiLine", "nmiHold", "nmiValid"} :
              PollNmi(i, t)[x] = i[x]
BY DEF PollNmi

LEMMA PollIrqFields ==
  ASSUME NEW i, NEW t, DOMAIN i = IrqFields
  PROVE  /\ DOMAIN PollIrq(i, t) = IrqFields
         /\ \A x \in IrqFields \ {"irqTransition", "irqLine", "irqHold", "irqValid"} :
              PollIrq(i, t)[x] = i[x]
BY DEF PollIrq

LEMMA PollNmiCauses ==
  ASSUME NEW i, NEW t, DOMAIN i = IrqFields
  PROVE  LET j == PollNmi(i, t) IN
         /\ j.nmiHold <=> (j.nmiValid /\ ~i.nmiValid)
         /\ j.nmiTransition => i.nmiTransition \/ i.nmiHold
BY DEF PollNmi, IrqFields

LEMMA TickFields ==
  ASSUME NEW m, Shape(m)
  PROVE  LET at == (m.clock.at + 1) % Frame
             i  == PollNmi(m.irq, at)
             r  == Tick(m)
         IN  /\ DOMAIN r = Fields /\ r.alu = m.alu
             /\ r.dma = m.dma /\ r.channel = m.channel /\ r.pipe = m.pipe
             /\ DOMAIN r.clock = {"at", "init", "run"} /\ r.clock.at = at
             /\ r.irq = PollIrq(i, at)
             /\ DOMAIN r.ghost = GhostFields
             /\ r.ghost.causes = IF i.nmiValid /\ ~m.irq.nmiValid
                                   THEN 1 + Flag(i.nmiTransition) + Flag(i.nmiPending)
                                   ELSE m.ghost.causes
             /\ r.ghost.waited = IF i.wai /\ i.nmiEnabled
                                   THEN IF m.ghost.waited > Frame + 2 * Access
                                          THEN m.ghost.waited ELSE m.ghost.waited + 1 ELSE 0
             /\ \A x \in GhostFields \ {"causes", "waited"} : r.ghost[x] = m.ghost[x]
<1> DEFINE c == [m.clock EXCEPT !.at = (@ + 1) % Frame]
           d == IF c.at % Line = 0 THEN Scanline(c) ELSE c
           i == PollNmi(m.irq, c.at)
           j == PollIrq(i, c.at)
           causes == IF i.nmiValid /\ ~m.irq.nmiValid
                       THEN 1 + Flag(i.nmiTransition) + Flag(i.nmiPending) ELSE m.ghost.causes
           waited == IF i.wai /\ i.nmiEnabled
                       THEN IF m.ghost.waited > Frame + 2 * Access
                              THEN m.ghost.waited ELSE m.ghost.waited + 1 ELSE 0
           g == [m.ghost EXCEPT !.causes = causes, !.waited = waited]
<1>1. c.at = (m.clock.at + 1) % Frame /\ DOMAIN c = {"at", "init", "run"}
  BY DEF Shape
<1>2. d.at = c.at /\ DOMAIN d = {"at", "init", "run"}
  BY <1>1 DEF Scanline
<1>3. /\ DOMAIN g = GhostFields /\ g.causes = causes /\ g.waited = waited
      /\ \A x \in GhostFields \ {"causes", "waited"} : g[x] = m.ghost[x]
  <2>. HIDE DEF causes, waited
  <2>. QED  BY DEF Shape, GhostFields
<1>4. Tick(m) = [m EXCEPT !.clock = d, !.irq = j, !.ghost = g]
  <2>. Tick(m) = [m EXCEPT !.clock = d, !.irq = j, !.ghost.causes = causes, !.ghost.waited = waited]
    BY DEF Tick, Shape
  <2>. HIDE DEF d, i, j, causes, waited
  <2>. QED  BY DEF Shape, Fields, GhostFields
<1>. HIDE DEF c, d, j, g
<1>5. /\ DOMAIN Tick(m) = Fields /\ Tick(m).clock = d /\ Tick(m).irq = j /\ Tick(m).ghost = g
      /\ Tick(m).dma = m.dma /\ Tick(m).channel = m.channel /\ Tick(m).pipe = m.pipe
      /\ Tick(m).alu = m.alu
  BY <1>4 DEF Shape, Fields
<1>. QED  BY <1>1, <1>2, <1>3, <1>5 DEF j

LEMMA TickSame ==
  ASSUME NEW m, Shape(m)
  PROVE  Same(m, Tick(m)) /\ Tick(m).channel = m.channel /\ Tick(m).pipe = m.pipe
<1> DEFINE at == (m.clock.at + 1) % Frame
           i  == PollNmi(m.irq, at)
           r  == Tick(m)
<1>1. DOMAIN i = IrqFields /\ DOMAIN r.irq = IrqFields
  BY TickFields, PollNmiFields, PollIrqFields DEF Shape
<1>2. \A x \in {"nmiPending", "irqPending", "interruptPending", "masked", "wai"} :
        r.irq[x] = i[x] /\ i[x] = m.irq[x]
  <2>1. \A x \in IrqFields \ {"nmiTransition", "nmiLine", "nmiHold", "nmiValid"} :
          i[x] = m.irq[x]
    BY PollNmiFields DEF Shape
  <2>2. r.irq = PollIrq(i, at)
    BY TickFields
  <2>3. \A x \in IrqFields \ {"irqTransition", "irqLine", "irqHold", "irqValid"} :
          r.irq[x] = i[x]
    BY <1>1, <2>2, PollIrqFields
  <2>. HIDE DEF i, r
  <2>. QED  BY <2>1, <2>3 DEF IrqFields
<1>3. r.irq.nmiTransition = i.nmiTransition /\ r.irq.nmiHold = i.nmiHold
  BY <1>1, TickFields, PollIrqFields DEF IrqFields
<1>4. Shape(r)
  <2>1. at \in Nat
    BY FrameIsPositive, Modulo DEF Shape
  <2>. QED  BY <2>1, <1>1, TickFields DEF Shape
<1>5. Tested(r) = Tested(m) /\ Transfers(r) = Transfers(m)
  <2>1. /\ r.irq.nmiPending = m.irq.nmiPending /\ r.irq.irqPending = m.irq.irqPending
        /\ r.irq.interruptPending = m.irq.interruptPending /\ r.irq.masked = m.irq.masked
        /\ r.irq.wai = m.irq.wai
    BY <1>2
  <2>2. r.alu = m.alu /\ r.dma = m.dma
    BY TickFields
  <2>3. /\ r.ghost.op = m.ghost.op /\ r.ghost.preempted = m.ghost.preempted
        /\ r.ghost.seen = m.ghost.seen /\ r.ghost.withdrawn = m.ghost.withdrawn
    BY TickFields DEF GhostFields
  <2>. HIDE DEF r
  <2>. QED  BY <2>1, <2>2, <2>3 DEF Tested, Transfers
<1>6. ASSUME Accounted(m) PROVE Accounted(r)
  <2>1. /\ i.nmiHold <=> (i.nmiValid /\ ~m.irq.nmiValid)
        /\ i.nmiTransition => m.irq.nmiTransition \/ m.irq.nmiHold
    BY PollNmiCauses DEF Shape
  <2>2. r.ghost.causes = IF i.nmiValid /\ ~m.irq.nmiValid
                           THEN 1 + Flag(i.nmiTransition) + Flag(i.nmiPending)
                           ELSE m.ghost.causes
    BY TickFields
  <2>3. ~i.wai => r.ghost.waited = 0
    BY TickFields
  <2>. HIDE DEF i, r
  <2>. QED  BY <1>2, <1>3, <1>6, <2>1, <2>2, <2>3, FlagValue DEF Accounted
<1>. QED  BY <1>4, <1>5, <1>6, TickFields DEF Same

\* The moments of a Step(), which begins by releasing the lock of the interrupts.
Unlocked(m) == [m EXCEPT !.irq.lock = FALSE]
After(m, units) ==
  CHOOSE f : f = [u \in 0 .. units |-> IF u = 0 THEN Unlocked(m)
                                       ELSE Tick(f[u - 1])]

LEMMA AfterExists ==
  ASSUME NEW m, NEW units \in Nat
  PROVE  /\ Step(m, units) = After(m, units)[units]
         /\ After(m, units)[0] = Unlocked(m)
         /\ \A u \in 1 .. units : After(m, units)[u] = Tick(After(m, units)[u - 1])
<1> DEFINE start == Unlocked(m)
           Is(k, f) == f = [u \in 0 .. k |-> IF u = 0 THEN start ELSE Tick(f[u - 1])]
           S == {k \in Nat : \E f : Is(k, f)}
<1>. HIDE DEF start
<1>1. 0 \in S
  <2>1. Is(0, [u \in 0 .. 0 |-> start])
    OBVIOUS
  <2>. QED  BY <2>1
<1>2. ASSUME NEW k \in S PROVE k + 1 \in S
  <2>1. PICK g : Is(k, g)
    OBVIOUS
  <2> DEFINE next == [u \in 0 .. k + 1 |-> IF u = k + 1 THEN Tick(g[k]) ELSE g[u]]
  <2>2. ASSUME NEW u \in 0 .. k + 1
        PROVE  next[u] = IF u = 0 THEN start ELSE Tick(next[u - 1])
    <3>1. CASE u = 0
      BY <3>1, <2>1
    <3>2. CASE u \in 1 .. k
      <4>1. next[u] = g[u] /\ next[u - 1] = g[u - 1]
        BY <3>2
      <4>. HIDE DEF next
      <4>. QED  BY <3>2, <4>1, <2>1
    <3>3. CASE u = k + 1
      <4>1. next[u] = Tick(g[k]) /\ next[u - 1] = g[k] /\ u # 0
        BY <3>3
      <4>. HIDE DEF next
      <4>. QED  BY <4>1
    <3>. QED  BY <3>1, <3>2, <3>3
  <2>3. Is(k + 1, next)
    BY <2>2
  <2>4. k + 1 \in Nat
    OBVIOUS
  <2>. HIDE DEF next, Is
  <2>. QED  BY <2>3, <2>4
<1>3. \E f : Is(units, f)
  BY <1>1, <1>2, SetInduction
<1>4. Is(units, After(m, units))
  BY <1>3 DEF After, start
<1>5. Step(m, units) = After(m, units)[units]
  BY DEF Step, After, Unlocked
<1>6. \A u \in 0 .. units :
        After(m, units)[u] = IF u = 0 THEN start ELSE Tick(After(m, units)[u - 1])
  BY <1>4
<1>. QED
  <2>1. 0 \in 0 .. units /\ \A u \in 1 .. units : u \in 0 .. units /\ u # 0
    OBVIOUS
  <2>. QED  BY <1>5, <1>6, <2>1 DEF start

\* Time goes on, and with it nothing but the interrupts' lines.
Later(m, n) == Same(m, n) /\ n.channel = m.channel /\ n.pipe = m.pipe

LEMMA LaterTransitive ==
  ASSUME NEW l, NEW m, NEW n, Later(l, m), Later(m, n)
  PROVE  Later(l, n)
BY SameTransitive DEF Later

LEMMA LockLater ==
  ASSUME NEW m, Shape(m), NEW b
  PROVE  Later(m, [m EXCEPT !.irq.lock = b])
<1> DEFINE r == [m EXCEPT !.irq.lock = b]
<1>1. /\ DOMAIN r = Fields /\ DOMAIN r.irq = IrqFields /\ r.alu = m.alu
      /\ r.clock = m.clock /\ r.dma = m.dma /\ r.channel = m.channel /\ r.pipe = m.pipe
      /\ r.ghost = m.ghost
  BY DEF Shape, Fields, IrqFields
<1>2. \A x \in IrqFields \ {"lock"} : r.irq[x] = m.irq[x]
  BY DEF Shape, Fields, IrqFields
<1>. HIDE DEF r
<1>3. Shape(r)
  BY <1>1 DEF Shape
<1>4. Tested(r) = Tested(m) /\ Transfers(r) = Transfers(m)
  BY <1>1, <1>2 DEF Tested, Transfers, IrqFields
<1>5. Accounted(m) => Accounted(r)
  BY <1>1, <1>2 DEF Accounted, IrqFields
<1>. QED  BY <1>1, <1>3, <1>4, <1>5 DEF Later, Same, r

LEMMA StepLater ==
  ASSUME NEW m, Shape(m), NEW units \in Nat
  PROVE  Later(m, Step(m, units))
<1> DEFINE S == {k \in Nat : k <= units => Later(m, After(m, units)[k])}
<1>0. /\ Step(m, units) = After(m, units)[units]
      /\ After(m, units)[0] = Unlocked(m)
      /\ \A u \in 1 .. units : After(m, units)[u] = Tick(After(m, units)[u - 1])
  BY AfterExists
<1>1. 0 \in S
  BY <1>0, LockLater DEF Unlocked
<1>2. ASSUME NEW k \in S PROVE k + 1 \in S
  <2>1. SUFFICES ASSUME k + 1 <= units PROVE Later(m, After(m, units)[k + 1])
    OBVIOUS
  <2>2. Later(m, After(m, units)[k])
    BY <2>1
  <2>3. After(m, units)[k + 1] = Tick(After(m, units)[k])
    <3>1. k + 1 \in 1 .. units /\ k + 1 - 1 = k
      BY <2>1
    <3>. QED  BY <3>1, <1>0
  <2>4. Later(After(m, units)[k], Tick(After(m, units)[k]))
    BY <2>2, TickSame DEF Later, Same
  <2>. QED  BY <2>2, <2>3, <2>4, LaterTransitive
<1>3. units \in S
  BY <1>1, <1>2, SetInduction
<1>. QED  BY <1>0, <1>3

LEMMA CountersLater ==
  ASSUME NEW m, Shape(m), NEW x \in {"clocks", "spent"}, NEW k \in Nat,
         x = "clocks" => k \in 0 .. Access - 1
  PROVE  /\ Later(m, [m EXCEPT !.dma[x] = k])
         /\ [m EXCEPT !.dma[x] = k].clock = m.clock
<1> DEFINE r == [m EXCEPT !.dma[x] = k]
<1>1. /\ DOMAIN r = Fields /\ DOMAIN r.dma = DmaFields /\ r.alu = m.alu
      /\ r.clock = m.clock /\ r.irq = m.irq /\ r.channel = m.channel /\ r.pipe = m.pipe
      /\ r.ghost = m.ghost
  BY DEF Shape, Fields, DmaFields
<1>2. r.dma[x] = k /\ \A y \in DmaFields \ {x} : r.dma[y] = m.dma[y]
  BY DEF Shape, Fields, DmaFields
<1>. HIDE DEF r
<1>3. Shape(r)
  BY <1>1, <1>2 DEF Shape, DmaFields
<1>4. Tested(r) = Tested(m) /\ Transfers(r) = Transfers(m)
  BY <1>1, <1>2 DEF Tested, Transfers, DmaFields
<1>5. Accounted(m) => Accounted(r)
  BY <1>1 DEF Accounted
<1>. QED  BY <1>1, <1>3, <1>4, <1>5 DEF Later, Same, r

LEMMA DmaStepLater ==
  ASSUME NEW m, Shape(m), NEW units \in Nat
  PROVE  Later(m, DmaStep(m, units))
<1> DEFINE k == (m.dma.clocks + units) % Access
           n == [m EXCEPT !.dma.clocks = k]
<1>1. k \in 0 .. Access - 1 /\ k \in Nat
  <2>1. Access \in Nat \ {0}
    BY CpuAssumption
  <2>2. m.dma.clocks + units \in Int
    BY <2>1 DEF Shape
  <2>. QED  BY <2>1, <2>2, Modulo
<1>2. DmaStep(m, units) = Step(n, units)
  BY DEF DmaStep
<1>. HIDE DEF k
<1>3. Later(m, n)
  BY <1>1, CountersLater
<1>4. Later(n, Step(n, units))
  BY <1>3, StepLater DEF Later, Same
<1>. QED  BY <1>2, <1>3, <1>4, LaterTransitive

\* A transfer's clocks pass once it is over.
LEMMA SpendLater ==
  ASSUME NEW m, Shape(m)
  PROVE  Later(m, Spend(m)) /\ Later(m, Spending(m))
<1> DEFINE n == [m EXCEPT !.dma.spent = 0]
<1>1. Later(m, n) /\ Later(m, Spending(m))
  BY CountersLater DEF Spending
<1>2. m.dma.spent \in Nat
  BY DEF Shape
<1>3. Later(n, DmaStep(n, m.dma.spent))
  BY <1>1, <1>2, DmaStepLater DEF Later, Same
<1>. QED  BY <1>1, <1>3, LaterTransitive DEF Spend

LEMMA AlignLater ==
  ASSUME NEW m, Shape(m)
  PROVE  Later(m, Align(m))
<1>1. m.clock.at % 2 \in 0 .. 1
  BY DEF Shape
<1>. QED  BY <1>1, DmaStepLater DEF Align

-----------------------------------------------------------------------------
(* Channels and the pipe *)

\* No byte on its way reaches 0x420b.
PipeValid(m) == m.pipe.valid => m.pipe.target # "420b"

LEMMA SetChannel ==
  ASSUME NEW m, Shape(m), NEW n \in Channel, NEW c, DOMAIN c = ChannelFields
  PROVE  LET r == [m EXCEPT !.channel[n] = c] IN
         /\ Same(m, r) /\ r.pipe = m.pipe /\ r.clock = m.clock /\ r.dma = m.dma
         /\ r.channel[n] = c /\ \A k \in Channel \ {n} : r.channel[k] = m.channel[k]
<1> DEFINE r == [m EXCEPT !.channel[n] = c]
<1>1. /\ DOMAIN r = Fields /\ r.clock = m.clock /\ r.dma = m.dma /\ r.irq = m.irq /\ r.alu = m.alu
      /\ r.pipe = m.pipe /\ r.ghost = m.ghost /\ r.channel = [m.channel EXCEPT ![n] = c]
  BY DEF Shape, Fields
<1>. HIDE DEF r
<1>2. /\ DOMAIN r.channel = Channel /\ r.channel[n] = c
      /\ \A k \in Channel \ {n} : r.channel[k] = m.channel[k]
  BY <1>1 DEF Shape
<1>3. Shape(r)
  BY <1>1, <1>2 DEF Shape
<1>4. Same(m, r)
  BY <1>1, <1>3 DEF Same, Tested, Transfers, Accounted
<1>. QED  BY <1>1, <1>2, <1>4 DEF r

LEMMA DmaWriteSame ==
  ASSUME NEW m, Shape(m), PipeValid(m), NEW valid, NEW target
  PROVE  LET r == DmaWrite(m, valid, target) IN
         /\ Same(m, r) /\ r.channel = m.channel
         /\ r.pipe.valid = valid /\ r.pipe.target = target
<1> DEFINE p == [valid |-> valid, target |-> target]
           r == [m EXCEPT !.pipe = p]
<1>1. DmaWrite(m, valid, target) = r
  BY DEF DmaWrite, PipeValid
<1>. HIDE DEF p
<1>2. /\ DOMAIN r = Fields /\ r.clock = m.clock /\ r.dma = m.dma /\ r.irq = m.irq /\ r.alu = m.alu
      /\ r.channel = m.channel /\ r.ghost = m.ghost /\ r.pipe = p
  BY DEF Shape, Fields
<1>. HIDE DEF r
<1>3. Shape(r)
  BY <1>2 DEF Shape
<1>4. Same(m, r)
  BY <1>2, <1>3 DEF Same, Tested, Transfers, Accounted
<1>. QED  BY <1>1, <1>2, <1>4 DEF p

LEMMA DmaFlushSame ==
  ASSUME NEW m, Shape(m), PipeValid(m)
  PROVE  /\ Same(m, DmaFlush(m)) /\ DmaFlush(m).channel = m.channel
         /\ ~DmaFlush(m).pipe.valid
<1> DEFINE valid == FALSE
           r     == DmaWrite(m, valid, "none")
<1>. DmaFlush(m) = r
  BY DEF DmaFlush
<1>. HIDE DEF valid
<1>1. r.pipe.valid = valid /\ Same(m, r) /\ r.channel = m.channel
  BY DmaWriteSame
<1>. QED  BY <1>1 DEF valid

LEMMA DmaTransferSame ==
  ASSUME NEW m, Shape(m), PipeValid(m), NEW n
  PROVE  /\ Same(m, DmaTransfer(m, n)) /\ DmaTransfer(m, n).channel = m.channel
         /\ PipeValid(DmaTransfer(m, n))
<1> DEFINE target == program.channel[n].target
           valid  == TargetValid(target)
           r      == DmaWrite(m, valid, target)
<1>. DmaTransfer(m, n) = r
  BY DEF DmaTransfer
<1>. HIDE DEF target, valid
<1>1. r.pipe.valid = valid /\ r.pipe.target = target /\ Same(m, r) /\ r.channel = m.channel
  BY DmaWriteSame
<1>2. valid => target # "420b"
  BY DEF valid, TargetValid
<1>. HIDE DEF r
<1>3. PipeValid(r)
  BY <1>1, <1>2 DEF PipeValid
<1>. QED  BY <1>1, <1>3

\* The bytes of a transfer of H-DMA.
Moved(m, n, length) ==
  CHOOSE f : f = [k \in 0 .. length |-> IF k = 0 THEN m ELSE DmaTransfer(f[k - 1], n)]

LEMMA MovedExists ==
  ASSUME NEW m, NEW n, NEW length \in Nat
  PROVE  /\ Moved(m, n, length)[0] = m
         /\ \A k \in 1 .. length :
              Moved(m, n, length)[k] = DmaTransfer(Moved(m, n, length)[k - 1], n)
<1> DEFINE Is(l, f) == f = [k \in 0 .. l |-> IF k = 0 THEN m ELSE DmaTransfer(f[k - 1], n)]
           S == {l \in Nat : \E f : Is(l, f)}
<1>1. 0 \in S
  <2>1. Is(0, [k \in 0 .. 0 |-> m])
    OBVIOUS
  <2>. QED  BY <2>1
<1>2. ASSUME NEW l \in S PROVE l + 1 \in S
  <2>1. PICK g : Is(l, g)
    OBVIOUS
  <2> DEFINE next == [k \in 0 .. l + 1 |-> IF k = l + 1 THEN DmaTransfer(g[l], n) ELSE g[k]]
  <2>2. ASSUME NEW k \in 0 .. l + 1
        PROVE  next[k] = IF k = 0 THEN m ELSE DmaTransfer(next[k - 1], n)
    <3>1. CASE k = 0
      BY <3>1, <2>1
    <3>2. CASE k \in 1 .. l
      <4>1. next[k] = g[k] /\ next[k - 1] = g[k - 1]
        BY <3>2
      <4>. HIDE DEF next
      <4>. QED  BY <3>2, <4>1, <2>1
    <3>3. CASE k = l + 1
      <4>1. next[k] = DmaTransfer(g[l], n) /\ next[k - 1] = g[l] /\ k # 0
        BY <3>3
      <4>. HIDE DEF next
      <4>. QED  BY <4>1
    <3>. QED  BY <3>1, <3>2, <3>3
  <2>3. Is(l + 1, next)
    BY <2>2
  <2>4. l + 1 \in Nat
    OBVIOUS
  <2>. HIDE DEF next, Is
  <2>. QED  BY <2>3, <2>4
<1>3. \E f : Is(length, f)
  BY <1>1, <1>2, SetInduction
<1>4. Is(length, Moved(m, n, length))
  BY <1>3 DEF Moved
<1>5. \A k \in 0 .. length :
        Moved(m, n, length)[k] = IF k = 0 THEN m ELSE DmaTransfer(Moved(m, n, length)[k - 1], n)
  BY <1>4
<1>6. 0 \in 0 .. length /\ \A k \in 1 .. length : k \in 0 .. length /\ k # 0
  OBVIOUS
<1>. QED  BY <1>5, <1>6

LEMMA MovedSame ==
  ASSUME NEW m, Shape(m), PipeValid(m), NEW n, NEW length \in Nat
  PROVE  LET r == Moved(m, n, length)[length] IN
         Same(m, r) /\ r.channel = m.channel /\ PipeValid(r)
<1> DEFINE f == Moved(m, n, length)
           Good(r) == Same(m, r) /\ r.channel = m.channel /\ PipeValid(r)
           S == {k \in Nat : k <= length => Good(f[k])}
<1>0. /\ f[0] = m
      /\ \A k \in 1 .. length : f[k] = DmaTransfer(f[k - 1], n)
  BY MovedExists
<1>. HIDE DEF f
<1>1. 0 \in S
  BY <1>0, SameReflexive
<1>2. ASSUME NEW k \in S PROVE k + 1 \in S
  <2>1. SUFFICES ASSUME k + 1 <= length PROVE Good(f[k + 1])
    OBVIOUS
  <2>2. Good(f[k])
    BY <2>1
  <2>3. f[k + 1] = DmaTransfer(f[k], n)
    <3>1. k + 1 \in 1 .. length /\ k + 1 - 1 = k
      BY <2>1
    <3>. QED  BY <3>1, <1>0
  <2>4. Shape(f[k])
    BY <2>2 DEF Same
  <2>. QED  BY <2>2, <2>3, <2>4, DmaTransferSame, SameTransitive
<1>3. length \in S
  BY <1>1, <1>2, SetInduction
<1>. QED  BY <1>3 DEF f

-----------------------------------------------------------------------------
(* H-DMA *)

\* Of the channels but n's nothing has changed, and of n the flags in F have not.
Apart(m, r, n, F) ==
  /\ \A k \in Channel \ {n} : r.channel[k] = m.channel[k]
  /\ \A x \in F : r.channel[n][x] = m.channel[n][x]

\* Clocks are spent, and then channel n has become c.
Spent(m, units, n, c) == [m EXCEPT !.dma.spent = @ + units, !.channel[n] = c]

LEMMA SpentSame ==
  ASSUME NEW m, Shape(m), NEW n \in Channel, NEW units \in Nat, NEW c, DOMAIN c = ChannelFields
  PROVE  LET r == Spent(m, units, n, c) IN
         /\ Same(m, r) /\ r.pipe = m.pipe /\ r.channel[n] = c
         /\ \A k \in Channel \ {n} : r.channel[k] = m.channel[k]
<1> DEFINE s == m.dma.spent + units
           x == "spent"
           t == [m EXCEPT !.dma[x] = s]
           q == [t EXCEPT !.channel[n] = c]
<1>1. s \in Nat
  BY DEF Shape
<1>2. Spent(m, units, n, c) = q
  BY DEF Shape, Fields, Spent
<1>3. Later(m, t)
  <2>. HIDE DEF s
  <2>. QED  BY <1>1, CountersLater
<1>. HIDE DEF t
<1>4. /\ Same(t, q) /\ q.pipe = t.pipe /\ q.channel[n] = c
      /\ \A k \in Channel \ {n} : q.channel[k] = t.channel[k]
  BY <1>3, SetChannel DEF Later, Same
<1>. HIDE DEF q
<1>. QED  BY <1>2, <1>3, <1>4, SameTransitive DEF Later

LEMMA HdmaUpdateSame ==
  ASSUME NEW m, Shape(m), PipeValid(m), NEW n \in Channel
  PROVE  LET r == HdmaUpdate(m, n) IN
         Same(m, r) /\ ~r.pipe.valid /\ Apart(m, r, n, {"dma", "hdma"})
<1> DEFINE c      == m.channel[n]
           count  == Memory(n, c.address)
           whole  == count # 0 \/ HdmaActiveAfter(m, n)
           loaded == [c EXCEPT !.line = count, !.completed = (count = 0),
                               !.transfer = (count # 0), !.address = Next16(n, @)]
           low    == [loaded EXCEPT !.address = Next16(n, @),
                                    !.size = (Memory(n, loaded.address) % 2) * 2]
           high   == [low EXCEPT !.address = Next16(n, @),
                                 !.size = (@ \div 2) + (Memory(n, low.address) % 2) * 2]
           f      == DmaFlush(m)
           r      == HdmaUpdate(m, n)
           Like(d) == DOMAIN d = ChannelFields /\ d.dma = c.dma /\ d.hdma = c.hdma
           Done == Same(m, r) /\ ~r.pipe.valid /\ Apart(m, r, n, {"dma", "hdma"})
<1>. SUFFICES Done
  OBVIOUS
<1>0. r = IF ~Reloads(c.line) THEN [f EXCEPT !.dma.spent = @ + 2]
          ELSE IF ~program.channel[n].indirect
            THEN [f EXCEPT !.dma.spent = @ + 2, !.channel[n] = loaded]
          ELSE [f EXCEPT !.dma.spent = @ + (IF whole THEN 6 ELSE 4),
                         !.channel[n] = IF whole THEN high ELSE low]
  BY DEF HdmaUpdate
<1>. HIDE DEF r
<1>1. Same(m, f) /\ f.channel = m.channel /\ ~f.pipe.valid /\ Shape(f)
  BY DmaFlushSame DEF Same
<1>2. Like(c) /\ Like(loaded) /\ Like(low) /\ Like(high)
  <2>1. Like(c)
    BY DEF Shape
  <2>. HIDE DEF count, c
  <2>2. Like(loaded)
    BY <2>1 DEF ChannelFields
  <2>. HIDE DEF loaded
  <2>3. Like(low)
    BY <2>2 DEF ChannelFields
  <2>. HIDE DEF low
  <2>4. Like(high)
    BY <2>3 DEF ChannelFields
  <2>. QED  BY <2>1, <2>2, <2>3, <2>4
<1>. HIDE DEF f, count, loaded, low, high, whole, Like
<1>3. CASE ~Reloads(c.line)
  <2> DEFINE x == "spent"
             s == f.dma.spent + 2
  <2>1. r = [f EXCEPT !.dma[x] = s]
    BY <1>0, <1>3
  <2>2. s \in Nat
    BY <1>1 DEF Shape
  <2>. HIDE DEF s
  <2>3. Later(f, r)
    BY <1>1, <2>1, <2>2, CountersLater
  <2>. QED  BY <1>1, <2>3, SameTransitive DEF Later, Apart
<1>4. CASE Reloads(c.line)
  <2>1. PICK d, units :
           units \in Nat /\ Like(d) /\ r = Spent(f, units, n, d)
    <3>1. CASE ~program.channel[n].indirect
      BY <1>0, <1>2, <1>4, <3>1 DEF Spent
    <3>2. CASE program.channel[n].indirect /\ whole
      BY <1>0, <1>2, <1>4, <3>2 DEF Spent
    <3>3. CASE program.channel[n].indirect /\ ~whole
      BY <1>0, <1>2, <1>4, <3>3 DEF Spent
    <3>. QED  BY <3>1, <3>2, <3>3
  <2>2. /\ Same(f, r) /\ r.pipe = f.pipe /\ r.channel[n] = d
        /\ \A k \in Channel \ {n} : r.channel[k] = f.channel[k]
    <3>1. Shape(f) /\ units \in Nat /\ DOMAIN d = ChannelFields
      BY <2>1, <1>1 DEF Like
    <3>. QED  BY <2>1, <3>1, SpentSame
  <2>. QED  BY <1>1, <2>1, <2>2, SameTransitive DEF Apart, Like
<1>. QED  BY <1>3, <1>4

LEMMA HdmaTransferSame ==
  ASSUME program \in Programs, NEW m, Shape(m), PipeValid(m), NEW n \in Channel
  PROVE  LET r == HdmaTransfer(m, n) IN
         Same(m, r) /\ PipeValid(r) /\ Apart(m, r, n, {"dma", "hdma", "completed"})
<1> DEFINE length == program.channel[n].length
           t == Moved(m, n, length)[length]
           r == HdmaTransfer(m, n)
           c == t.channel[n]
           F == {"dma", "hdma", "completed"}
           Done == Same(m, r) /\ PipeValid(r) /\ Apart(m, r, n, F)
<1>. SUFFICES Done
  OBVIOUS
<1>0. LET e == [t EXCEPT !.dma.spent = @ + 2 * length] IN
      r = IF program.channel[n].indirect
            THEN [e EXCEPT !.channel[n].size = (@ + length) % SizeWidth]
            ELSE [e EXCEPT !.channel[n].address = (@ + length) % program.channel[n].width]
  BY DEF HdmaTransfer, Moved
<1>. HIDE DEF r
<1>1. length \in Nat
  BY CpuAssumption
<1>2. Same(m, t) /\ t.channel = m.channel /\ PipeValid(t) /\ Shape(t)
  <2>. HIDE DEF length
  <2>. QED  BY <1>1, MovedSame DEF Same
<1>3. PICK d : /\ DOMAIN d = ChannelFields /\ \A x \in F : d[x] = c[x]
               /\ r = Spent(t, 2 * length, n, d)
  <2> DEFINE size == [c EXCEPT !.size = (@ + length) % SizeWidth]
             address == [c EXCEPT !.address = (@ + length) % program.channel[n].width]
  <2>1. DOMAIN c = ChannelFields
    BY <1>2 DEF Shape
  <2>2. /\ DOMAIN size = ChannelFields /\ \A x \in F : size[x] = c[x]
        /\ DOMAIN address = ChannelFields /\ \A x \in F : address[x] = c[x]
    <3>. HIDE DEF c
    <3>. QED  BY <2>1 DEF ChannelFields
  <2>. HIDE DEF t
  <2>3. r = [t EXCEPT !.dma.spent = @ + 2 * length,
                      !.channel[n] = IF program.channel[n].indirect THEN size ELSE address]
    BY <1>0, <1>2 DEF Shape, Fields
  <2>. HIDE DEF size, address
  <2>. QED  BY <2>2, <2>3 DEF Spent
<1>. HIDE DEF t, length
<1>4. /\ Same(t, r) /\ r.pipe = t.pipe /\ r.channel[n] = d
      /\ \A k \in Channel \ {n} : r.channel[k] = t.channel[k]
  <2> DEFINE units == 2 * length
  <2>1. units \in Nat
    BY <1>1
  <2>. HIDE DEF units
  <2>2. r = Spent(t, units, n, d)
    BY <1>3 DEF units
  <2>3. Shape(t) /\ DOMAIN d = ChannelFields
    BY <1>2, <1>3
  <2>. QED  BY <2>1, <2>2, <2>3, SpentSame
<1>. QED  BY <1>2, <1>3, <1>4, SameTransitive DEF Apart, PipeValid

LEMMA GhostSame ==
  ASSUME NEW m, Shape(m), NEW x \in {"clean", "moves"}, NEW v
  PROVE  LET r == [m EXCEPT !.ghost[x] = v] IN
         Same(m, r) /\ r.channel = m.channel /\ r.pipe = m.pipe
<1> DEFINE r == [m EXCEPT !.ghost[x] = v]
<1>1. /\ DOMAIN r = Fields /\ r.clock = m.clock /\ r.dma = m.dma /\ r.irq = m.irq /\ r.alu = m.alu
      /\ r.pipe = m.pipe /\ r.channel = m.channel /\ r.ghost = [m.ghost EXCEPT ![x] = v]
  BY DEF Shape, Fields
<1>. HIDE DEF r
<1>2. DOMAIN r.ghost = GhostFields /\ \A y \in GhostFields \ {x} : r.ghost[y] = m.ghost[y]
  BY <1>1 DEF Shape, GhostFields
<1>3. Shape(r)
  BY <1>1, <1>2 DEF Shape
<1>4. Same(m, r)
  BY <1>1, <1>2, <1>3 DEF Same, Tested, Transfers, Accounted, GhostFields
<1>. QED  BY <1>1, <1>4 DEF r

LEMMA MoveSame ==
  ASSUME program \in Programs, NEW m, Shape(m), PipeValid(m), NEW n \in Channel
  PROVE  LET r == Move(m, n) IN
         /\ Same(m, r) /\ PipeValid(r) /\ Apart(m, r, n, {"hdma", "completed"})
         /\ ~r.channel[n].dma
<1> DEFINE c == [m.channel[n] EXCEPT !.dma = FALSE]
           stopped == [m EXCEPT !.channel[n] = c]
           t == HdmaTransfer(stopped, n)
           x == "moves"
           v == [t.ghost.moves EXCEPT
                   ![n] = IF n \in m.ghost.clean THEN @ \cup {LineOf(m.clock.at)} ELSE @]
           F == {"hdma", "completed"}
<1>1. /\ DOMAIN c = ChannelFields /\ c.dma = FALSE /\ \A y \in F : c[y] = m.channel[n][y]
      /\ c.transfer = m.channel[n].transfer
  BY DEF Shape, ChannelFields
<1>2. Move(m, n) = IF m.channel[n].transfer THEN [t EXCEPT !.ghost[x] = v] ELSE stopped
  BY DEF Move
<1>. HIDE DEF c, v
<1>3. /\ Same(m, stopped) /\ stopped.pipe = m.pipe /\ stopped.channel[n] = c
      /\ \A k \in Channel \ {n} : stopped.channel[k] = m.channel[k]
  BY <1>1, SetChannel
<1>. HIDE DEF stopped
<1>4. Shape(stopped) /\ PipeValid(stopped)
  BY <1>3 DEF Same, PipeValid
<1>5. Same(stopped, t) /\ PipeValid(t) /\ Apart(stopped, t, n, {"dma", "hdma", "completed"})
  BY <1>4, HdmaTransferSame
<1>. HIDE DEF t
<1>6. CASE m.channel[n].transfer
  <2> DEFINE r == [t EXCEPT !.ghost[x] = v]
  <2>1. Same(t, r) /\ r.channel = t.channel /\ r.pipe = t.pipe
    BY <1>5, GhostSame DEF Same
  <2>. HIDE DEF r
  <2>2. Same(m, r)
    BY <1>3, <1>5, <2>1, SameTransitive
  <2>3. PipeValid(r)
    BY <1>5, <2>1 DEF PipeValid
  <2>4. Apart(m, r, n, F)
    BY <1>1, <1>3, <1>5, <2>1 DEF Apart
  <2>5. ~r.channel[n].dma
    BY <1>1, <1>3, <1>5, <2>1 DEF Apart
  <2>6. Move(m, n) = r
    BY <1>2, <1>6 DEF r
  <2>. QED  BY <1>6, <2>2, <2>3, <2>4, <2>5, <2>6
<1>7. CASE ~m.channel[n].transfer
  <2>1. Move(m, n) = stopped
    BY <1>2, <1>7
  <2>. QED  BY <2>1, <1>1, <1>3, <1>4 DEF Apart
<1>. QED  BY <1>6, <1>7

LEMMA CountSame ==
  ASSUME NEW m, Shape(m), PipeValid(m), NEW n \in Channel
  PROVE  LET r == Count(m, n) IN
         Same(m, r) /\ ~r.pipe.valid /\ Apart(m, r, n, {"dma", "hdma"})
<1> DEFINE left == (m.channel[n].line + 2 * CountHalf - 1) % (2 * CountHalf)
           c == [m.channel[n] EXCEPT !.line = left, !.transfer = (left >= CountHalf)]
           counted == [m EXCEPT !.channel[n] = c]
<1>1. DOMAIN c = ChannelFields /\ c.dma = m.channel[n].dma /\ c.hdma = m.channel[n].hdma
  <2>. HIDE DEF left
  <2>. QED  BY DEF Shape, ChannelFields
<1>2. Count(m, n) = HdmaUpdate(counted, n)
  <2>1. counted = [m EXCEPT !.channel[n].line = left, !.channel[n].transfer = (left >= CountHalf)]
    <3>. HIDE DEF left
    <3>. QED  BY DEF Shape, Fields, ChannelFields
  <2>. QED  BY <2>1 DEF Count
<1>. HIDE DEF c
<1>3. /\ Same(m, counted) /\ counted.pipe = m.pipe /\ counted.channel[n] = c
      /\ \A k \in Channel \ {n} : counted.channel[k] = m.channel[k]
  BY <1>1, SetChannel
<1>. HIDE DEF counted
<1>4. Shape(counted) /\ PipeValid(counted)
  BY <1>3 DEF Same, PipeValid
<1> DEFINE r == HdmaUpdate(counted, n)
<1>5. Same(counted, r) /\ ~r.pipe.valid /\ Apart(counted, r, n, {"dma", "hdma"})
  BY <1>4, HdmaUpdateSame
<1>. HIDE DEF r
<1>6. Same(m, r) /\ Apart(m, r, n, {"dma", "hdma"})
  BY <1>1, <1>3, <1>5, SameTransitive DEF Apart
<1>. QED  BY <1>2, <1>5, <1>6 DEF r

LEMMA BeginSame ==
  ASSUME NEW m, Shape(m), PipeValid(m), NEW n \in Channel
  PROVE  LET r == Begin(m, n) IN
         Same(m, r) /\ ~r.pipe.valid /\ Apart(m, r, n, {"hdma"}) /\ ~r.channel[n].dma
<1> DEFINE c == [m.channel[n] EXCEPT !.dma = FALSE, !.line = 0, !.address = m.channel[n].source]
           x == "clean"
           v == IF m.channel[n].source = 0 THEN m.ghost.clean \cup {n} ELSE m.ghost.clean
           set == [m EXCEPT !.channel[n] = c]
           begun == [set EXCEPT !.ghost[x] = v]
<1>1. DOMAIN c = ChannelFields /\ c.dma = FALSE /\ c.hdma = m.channel[n].hdma
  BY DEF Shape, ChannelFields
<1>2. Begin(m, n) = HdmaUpdate(begun, n)
  <2>1. begun = [m EXCEPT !.channel[n].dma = FALSE, !.channel[n].line = 0,
                          !.channel[n].address = m.channel[n].source, !.ghost.clean = v]
    <3>. HIDE DEF v
    <3>. QED  BY DEF Shape, Fields, ChannelFields
  <2>2. v = IF m.channel[n].source = 0 THEN m.ghost.clean \cup {n} ELSE m.ghost.clean
    OBVIOUS
  <2>. HIDE DEF begun
  <2>. QED  BY <2>1, <2>2 DEF Begin, Shape, Fields
<1>. HIDE DEF c, v
<1>3. /\ Same(m, set) /\ set.pipe = m.pipe /\ set.channel[n] = c
      /\ \A k \in Channel \ {n} : set.channel[k] = m.channel[k]
  BY <1>1, SetChannel
<1>. HIDE DEF set
<1>4. Same(set, begun) /\ begun.channel = set.channel /\ begun.pipe = set.pipe
  BY <1>3, GhostSame DEF Same
<1>. HIDE DEF begun
<1>5. Shape(begun) /\ PipeValid(begun)
  BY <1>3, <1>4 DEF Same, PipeValid
<1> DEFINE r == HdmaUpdate(begun, n)
<1>6. Same(begun, r) /\ ~r.pipe.valid /\ Apart(begun, r, n, {"dma", "hdma"})
  BY <1>5, HdmaUpdateSame
<1>. HIDE DEF r
<1>7. Same(m, r)
  BY <1>3, <1>4, <1>6, SameTransitive
<1>8. Apart(m, r, n, {"hdma"}) /\ ~r.channel[n].dma
  BY <1>1, <1>3, <1>4, <1>6 DEF Apart
<1>. QED  BY <1>2, <1>6, <1>7, <1>8 DEF r

\* A loop over the channels from m has come to r, and to channel k.
Progress(loop, m, r, k) ==
  /\ Same(m, r) /\ PipeValid(r)
  /\ \A n \in Channel : /\ r.channel[n].hdma = m.channel[n].hdma
                        /\ r.channel[n].dma => m.channel[n].dma
  /\ loop = "move" =>
       /\ \A n \in Channel : r.channel[n].completed = m.channel[n].completed
       /\ r.pipe.valid => m.pipe.valid \/ \E n \in Channel : HdmaActive(m, n)
  /\ loop = "count" =>
       /\ \A n \in Channel : n >= k => r.channel[n] = m.channel[n]
       /\ r.pipe.valid => m.pipe.valid
       /\ (\E n \in Channel : n < k /\ HdmaActive(m, n)) => ~r.pipe.valid
  /\ loop = "begin" => (r.pipe.valid => m.pipe.valid)

LEMMA TurnProgress ==
  ASSUME program \in Programs, NEW loop \in {"move", "count", "begin"},
         NEW m, NEW l, NEW k \in Channel, Progress(loop, m, l, k)
  PROVE  Progress(loop, m, Turn(loop, l, k), k + 1)
<1> DEFINE r == Turn(loop, l, k)
<1>. SUFFICES Progress(loop, m, r, k + 1)
  OBVIOUS
<1>0. Shape(l) /\ PipeValid(l) /\ k \in Nat
  BY DEF Progress, Same, Channel
<1>1. CASE loop = "move" /\ HdmaActive(l, k)
  <2>1. r = Move(l, k)
    BY <1>1 DEF Turn
  <2>2. /\ Same(l, r) /\ PipeValid(r) /\ Apart(l, r, k, {"hdma", "completed"})
        /\ ~r.channel[k].dma
    BY <1>0, <2>1, MoveSame
  <2>. HIDE DEF r
  <2>3. Same(m, r)
    BY <2>2, SameTransitive DEF Progress
  <2>4. HdmaActive(m, k)
    BY <1>1 DEF Progress, HdmaActive
  <2>5. ASSUME NEW n \in Channel
        PROVE  r.channel[n].hdma = m.channel[n].hdma /\ (r.channel[n].dma => m.channel[n].dma)
    <3>1. CASE n = k
      BY <2>2, <3>1 DEF Progress, Apart
    <3>2. CASE n # k
      BY <2>2, <3>2 DEF Progress, Apart
    <3>. QED  BY <3>1, <3>2
  <2>6. \A n \in Channel : r.channel[n].completed = m.channel[n].completed
    BY <1>1, <2>2 DEF Progress, Apart
  <2>. QED  BY <1>1, <2>2, <2>3, <2>4, <2>5, <2>6 DEF Progress
<1>2. CASE loop = "count" /\ HdmaActive(l, k)
  <2>1. r = Count(l, k)
    BY <1>2 DEF Turn
  <2>2. Same(l, r) /\ ~r.pipe.valid /\ Apart(l, r, k, {"dma", "hdma"})
    BY <1>0, <2>1, CountSame
  <2>. HIDE DEF r
  <2>3. Same(m, r) /\ PipeValid(r)
    BY <2>2, SameTransitive DEF Progress, PipeValid
  <2>4. \A n \in Channel : n >= k + 1 => r.channel[n] = m.channel[n]
    <3>1. \A n \in Channel : n >= k + 1 => n # k /\ n >= k
      BY <1>0 DEF Channel
    <3>. QED  BY <1>2, <2>2, <3>1 DEF Progress, Apart
  <2>5. ASSUME NEW n \in Channel
        PROVE  r.channel[n].hdma = m.channel[n].hdma /\ (r.channel[n].dma => m.channel[n].dma)
    <3>1. CASE n = k
      BY <2>2, <3>1 DEF Progress, Apart
    <3>2. CASE n # k
      BY <2>2, <3>2 DEF Progress, Apart
    <3>. QED  BY <3>1, <3>2
  <2>. QED  BY <1>2, <2>2, <2>3, <2>4, <2>5 DEF Progress
<1>3. CASE loop = "begin" /\ l.channel[k].hdma
  <2>1. r = Begin(l, k)
    BY <1>3 DEF Turn
  <2>2. Same(l, r) /\ ~r.pipe.valid /\ Apart(l, r, k, {"hdma"}) /\ ~r.channel[k].dma
    BY <1>0, <2>1, BeginSame
  <2>. HIDE DEF r
  <2>3. Same(m, r) /\ PipeValid(r)
    BY <2>2, SameTransitive DEF Progress, PipeValid
  <2>4. ASSUME NEW n \in Channel
        PROVE  r.channel[n].hdma = m.channel[n].hdma /\ (r.channel[n].dma => m.channel[n].dma)
    <3>1. CASE n = k
      BY <2>2, <3>1 DEF Progress, Apart
    <3>2. CASE n # k
      BY <2>2, <3>2 DEF Progress, Apart
    <3>. QED  BY <3>1, <3>2
  <2>. QED  BY <1>3, <2>2, <2>3, <2>4 DEF Progress
<1>4. CASE /\ ~(loop \in {"move", "count"} /\ HdmaActive(l, k))
           /\ ~(loop = "begin" /\ l.channel[k].hdma)
  <2>1. r = l
    BY <1>4 DEF Turn
  <2>2. ASSUME loop = "count" PROVE ~HdmaActive(m, k)
    BY <1>0, <1>4, <2>2 DEF Progress, HdmaActive
  <2>3. \A n \in Channel : (n >= k + 1 => n >= k) /\ (n < k + 1 => n < k \/ n = k)
    BY <1>0 DEF Channel
  <2>. QED  BY <2>1, <2>2, <2>3 DEF Progress
<1>. QED  BY <1>1, <1>2, <1>3, <1>4

\* The moments of a loop.
Turned(loop, m) ==
  CHOOSE f : f = [k \in 0 .. Channels |-> IF k = 0 THEN m ELSE Turn(loop, f[k - 1], k - 1)]

LEMMA TurnedExists ==
  ASSUME NEW loop, NEW m
  PROVE  /\ EachChannel(loop, m) = Turned(loop, m)[Channels]
         /\ Turned(loop, m)[0] = m
         /\ \A k \in 1 .. Channels :
              Turned(loop, m)[k] = Turn(loop, Turned(loop, m)[k - 1], k - 1)
<1> DEFINE Is(l, f) == f = [k \in 0 .. l |-> IF k = 0 THEN m ELSE Turn(loop, f[k - 1], k - 1)]
           S == {l \in Nat : \E f : Is(l, f)}
<1>1. 0 \in S
  <2>1. Is(0, [k \in 0 .. 0 |-> m])
    OBVIOUS
  <2>. QED  BY <2>1
<1>2. ASSUME NEW l \in S PROVE l + 1 \in S
  <2>1. PICK g : Is(l, g)
    OBVIOUS
  <2> DEFINE next == [k \in 0 .. l + 1 |-> IF k = l + 1 THEN Turn(loop, g[l], l) ELSE g[k]]
  <2>2. ASSUME NEW k \in 0 .. l + 1
        PROVE  next[k] = IF k = 0 THEN m ELSE Turn(loop, next[k - 1], k - 1)
    <3>1. CASE k = 0
      BY <3>1, <2>1
    <3>2. CASE k \in 1 .. l
      <4>1. next[k] = g[k] /\ next[k - 1] = g[k - 1]
        BY <3>2
      <4>. HIDE DEF next
      <4>. QED  BY <3>2, <4>1, <2>1
    <3>3. CASE k = l + 1
      <4>1. next[k] = Turn(loop, g[l], l) /\ next[k - 1] = g[l] /\ k # 0 /\ k - 1 = l
        BY <3>3
      <4>. HIDE DEF next
      <4>. QED  BY <4>1
    <3>. QED  BY <3>1, <3>2, <3>3
  <2>3. Is(l + 1, next)
    BY <2>2
  <2>4. l + 1 \in Nat
    OBVIOUS
  <2>. HIDE DEF next, Is
  <2>. QED  BY <2>3, <2>4
<1>3. Channels \in Nat
  BY CpuAssumption
<1>4. \E f : Is(Channels, f)
  BY <1>1, <1>2, <1>3, SetInduction
<1>5. Is(Channels, Turned(loop, m))
  BY <1>4 DEF Turned
<1>6. EachChannel(loop, m) = Turned(loop, m)[Channels]
  BY DEF EachChannel, Turned
<1>7. \A k \in 0 .. Channels :
        Turned(loop, m)[k] = IF k = 0 THEN m ELSE Turn(loop, Turned(loop, m)[k - 1], k - 1)
  BY <1>5
<1>8. 0 \in 0 .. Channels /\ \A k \in 1 .. Channels : k \in 0 .. Channels /\ k # 0
  BY <1>3
<1>. QED  BY <1>6, <1>7, <1>8

LEMMA EachChannelProgress ==
  ASSUME program \in Programs, NEW loop \in {"move", "count", "begin"}, NEW m, Shape(m),
         PipeValid(m)
  PROVE  Progress(loop, m, EachChannel(loop, m), Channels)
<1> DEFINE f == Turned(loop, m)
           S == {k \in Nat : k <= Channels => Progress(loop, m, f[k], k)}
<1>0. /\ EachChannel(loop, m) = f[Channels] /\ f[0] = m
      /\ \A k \in 1 .. Channels : f[k] = Turn(loop, f[k - 1], k - 1)
  BY TurnedExists
<1>. HIDE DEF f
<1>1. 0 \in S
  <2>1. \A n \in Channel : ~(n < 0)
    BY DEF Channel
  <2>. QED  BY <1>0, <2>1, SameReflexive DEF Progress
<1>2. ASSUME NEW k \in S PROVE k + 1 \in S
  <2>1. SUFFICES ASSUME k + 1 <= Channels PROVE Progress(loop, m, f[k + 1], k + 1)
    OBVIOUS
  <2>2. Channels \in Nat
    BY CpuAssumption
  <2>3. Progress(loop, m, f[k], k)
    BY <2>1, <2>2
  <2>4. k + 1 \in 1 .. Channels /\ k + 1 - 1 = k /\ k \in Channel
    BY <2>1, <2>2 DEF Channel
  <2>5. f[k + 1] = Turn(loop, f[k], k)
    BY <2>4, <1>0
  <2>. QED  BY <2>3, <2>4, <2>5, TurnProgress
<1>3. Channels \in S
  BY <1>1, <1>2, CpuAssumption, SetInduction
<1>. QED  BY <1>0, <1>3

\* H-DMA enables and disables no H-DMA, and it only ends DMA.
FlagsKept(m, r) ==
  \A n \in Channel : /\ r.channel[n].hdma = m.channel[n].hdma
                     /\ r.channel[n].dma => m.channel[n].dma

LEMMA FlagsKeptTransitive ==
  ASSUME NEW l, NEW m, NEW n, FlagsKept(l, m), FlagsKept(m, n)
  PROVE  FlagsKept(l, n)
BY DEF FlagsKept

LEMMA SetChannels ==
  ASSUME NEW m, Shape(m), NEW c, DOMAIN c = Channel, \A n \in Channel : DOMAIN c[n] = ChannelFields
  PROVE  LET r == [m EXCEPT !.channel = c] IN
         Same(m, r) /\ r.channel = c /\ r.pipe = m.pipe
<1> DEFINE r == [m EXCEPT !.channel = c]
<1>1. /\ DOMAIN r = Fields /\ r.clock = m.clock /\ r.dma = m.dma /\ r.irq = m.irq /\ r.alu = m.alu
      /\ r.pipe = m.pipe /\ r.ghost = m.ghost /\ r.channel = c
  BY DEF Shape, Fields
<1>. HIDE DEF r
<1>2. Shape(r)
  BY <1>1 DEF Shape
<1>3. Same(m, r)
  BY <1>1, <1>2 DEF Same, Tested, Transfers, Accounted
<1>. QED  BY <1>1, <1>3 DEF r

LEMMA HdmaRunKept ==
  ASSUME program \in Programs, NEW m, Shape(m), PipeValid(m)
  PROVE  LET r == HdmaRun(m) IN Same(m, r) /\ FlagsKept(m, r) /\ ~r.pipe.valid
<1> DEFINE f == DmaFlush(m)
           g == Spending(f)
           moved == EachChannel("move", g)
           counted == EachChannel("count", moved)
           spent == Spend(counted)
           locked == TRUE
           r == [spent EXCEPT !.irq.lock = locked]
<1>1. HdmaRun(m) = r
  BY DEF HdmaRun
<1>2. Same(m, f) /\ f.channel = m.channel /\ ~f.pipe.valid
  BY DmaFlushSame
<1>. HIDE DEF f
<1>3. Later(f, g)
  BY <1>2, SpendLater DEF Same
<1>. HIDE DEF g
<1>4. Shape(g) /\ PipeValid(g) /\ ~g.pipe.valid
  BY <1>2, <1>3 DEF Later, Same, PipeValid
<1>5. Progress("move", g, moved, Channels)
  BY <1>4, EachChannelProgress
<1>. HIDE DEF moved
<1>6. Shape(moved) /\ PipeValid(moved)
  BY <1>5 DEF Progress, Same
<1>7. Progress("count", moved, counted, Channels)
  BY <1>6, EachChannelProgress
<1>. HIDE DEF counted
<1>8. ~counted.pipe.valid
  <2>1. ASSUME NEW n \in Channel, HdmaActive(g, n)
        PROVE  HdmaActive(moved, n) /\ n < Channels
    <3>1. Channels \in Nat
      BY CpuAssumption
    <3>2. n < Channels
      BY <3>1 DEF Channel
    <3>. QED  BY <1>5, <2>1, <3>2 DEF Progress, HdmaActive
  <2>. QED  BY <1>4, <1>5, <1>7, <2>1 DEF Progress
<1>9. Later(counted, spent)
  BY <1>7, SpendLater DEF Progress, Same
<1>. HIDE DEF spent, locked
<1>10. Later(spent, r)
  BY <1>9, LockLater DEF Later, Same
<1>. HIDE DEF r
<1>11. Same(m, r)
  <2>1. Same(m, g) /\ Same(g, moved) /\ Same(moved, counted) /\ Same(counted, r)
    BY <1>2, <1>3, <1>5, <1>7, <1>9, <1>10, SameTransitive DEF Later, Progress
  <2>2. Same(m, moved)
    BY <2>1, SameTransitive
  <2>3. Same(m, counted)
    BY <2>1, <2>2, SameTransitive
  <2>. QED  BY <2>1, <2>3, SameTransitive
<1>12. FlagsKept(m, r)
  <2>1. FlagsKept(m, moved) /\ FlagsKept(moved, counted) /\ FlagsKept(counted, r)
    BY <1>2, <1>3, <1>5, <1>7, <1>9, <1>10 DEF Later, Progress, FlagsKept
  <2>. QED  BY <2>1, FlagsKeptTransitive
<1>13. ~r.pipe.valid
  BY <1>8, <1>9, <1>10 DEF Later
<1>. QED  BY <1>1, <1>11, <1>12, <1>13

LEMMA HdmaInitKept ==
  ASSUME program \in Programs, NEW m, Shape(m), PipeValid(m)
  PROVE  LET r == HdmaInit(m) IN Same(m, r) /\ FlagsKept(m, r) /\ ~r.pipe.valid
<1> DEFINE c == [n \in Channel |-> [m.channel[n] EXCEPT !.transfer = TRUE]]
           set == [m EXCEPT !.channel = c]
           f == DmaFlush(set)
           g == Spending(f)
           begun == EachChannel("begin", g)
           spent == Spend(begun)
           locked == TRUE
           r == [spent EXCEPT !.irq.lock = locked]
<1>1. HdmaInit(m) = r
  BY DEF HdmaInit
<1>2. DOMAIN c = Channel /\ \A n \in Channel : DOMAIN c[n] = ChannelFields
  BY DEF Shape
<1>3. \A n \in Channel : c[n].hdma = m.channel[n].hdma /\ c[n].dma = m.channel[n].dma
  BY DEF Shape, ChannelFields
<1>. HIDE DEF c
<1>4. Same(m, set) /\ set.channel = c /\ set.pipe = m.pipe
  BY <1>2, SetChannels
<1>. HIDE DEF set
<1>5. Same(set, f) /\ f.channel = set.channel /\ ~f.pipe.valid
  BY <1>4, DmaFlushSame DEF Same, PipeValid
<1>. HIDE DEF f
<1>6. Later(f, g)
  BY <1>5, SpendLater DEF Same
<1>. HIDE DEF g
<1>7. Shape(g) /\ PipeValid(g) /\ ~g.pipe.valid
  BY <1>5, <1>6 DEF Later, Same, PipeValid
<1>8. Progress("begin", g, begun, Channels)
  BY <1>7, EachChannelProgress
<1>. HIDE DEF begun
<1>9. Later(begun, spent)
  BY <1>8, SpendLater DEF Progress, Same
<1>. HIDE DEF spent, locked
<1>10. Later(spent, r)
  BY <1>9, LockLater DEF Later, Same
<1>. HIDE DEF r
<1>11. Same(m, r)
  <2>1. Same(m, f) /\ Same(f, g) /\ Same(g, begun) /\ Same(begun, r)
    BY <1>4, <1>5, <1>6, <1>8, <1>9, <1>10, SameTransitive DEF Later, Progress
  <2>2. Same(m, g)
    BY <2>1, SameTransitive
  <2>3. Same(m, begun)
    BY <2>1, <2>2, SameTransitive
  <2>. QED  BY <2>1, <2>3, SameTransitive
<1>12. FlagsKept(m, r)
  <2>1. FlagsKept(m, g) /\ FlagsKept(g, begun) /\ FlagsKept(begun, r)
    BY <1>3, <1>4, <1>5, <1>6, <1>8, <1>9, <1>10 DEF Later, Progress, FlagsKept
  <2>. QED  BY <2>1, FlagsKeptTransitive
<1>13. ~r.pipe.valid
  BY <1>7, <1>8, <1>9, <1>10 DEF Later, Progress
<1>. QED  BY <1>1, <1>11, <1>12, <1>13

LEMMA HdmaInitResetKept ==
  ASSUME NEW m, Shape(m)
  PROVE  LET r == HdmaInitReset(m) IN Same(m, r) /\ FlagsKept(m, r) /\ FlagsKept(r, m)
                                      /\ r.pipe = m.pipe
<1> DEFINE c == [n \in Channel |-> [m.channel[n] EXCEPT !.completed = FALSE, !.transfer = FALSE]]
           x == "clean"
           y == "moves"
           none == {}
           no == [n \in Channel |-> {}]
           set == [m EXCEPT !.channel = c]
           clean == [set EXCEPT !.ghost[x] = none]
           r == [clean EXCEPT !.ghost[y] = no]
<1>1. DOMAIN c = Channel /\ \A n \in Channel : DOMAIN c[n] = ChannelFields
  BY DEF Shape
<1>2. \A n \in Channel : c[n].hdma = m.channel[n].hdma /\ c[n].dma = m.channel[n].dma
  BY DEF Shape, ChannelFields
<1>3. HdmaInitReset(m) = r
  <2>1. HdmaInitReset(m) = [m EXCEPT !.channel = c, !.ghost.clean = none, !.ghost.moves = no]
    BY DEF HdmaInitReset
  <2>. HIDE DEF c, none, no
  <2>. QED  BY <2>1 DEF Shape, Fields, GhostFields
<1>. HIDE DEF c, none, no
<1>4. Same(m, set) /\ set.channel = c /\ set.pipe = m.pipe
  BY <1>1, SetChannels
<1>. HIDE DEF set
<1>5. Same(set, clean) /\ clean.channel = set.channel /\ clean.pipe = set.pipe
  BY <1>4, GhostSame DEF Same
<1>. HIDE DEF clean
<1>6. Same(clean, r) /\ r.channel = clean.channel /\ r.pipe = clean.pipe
  BY <1>5, GhostSame DEF Same
<1>. HIDE DEF r
<1>7. Same(m, r)
  BY <1>4, <1>5, <1>6, SameTransitive
<1>. QED  BY <1>2, <1>3, <1>4, <1>5, <1>6, <1>7 DEF FlagsKept

-----------------------------------------------------------------------------
(* dmaEdge() *)

Interrupts(m) == << m.irq.nmiPending, m.irq.irqPending, m.irq.interruptPending, m.irq.masked,
                    m.irq.wai, m.alu, m.ghost.op, m.ghost.preempted, m.ghost.seen >>

\* r follows m in a dmaEdge(): what may also have changed is whether DMA is active, and which
\* H-DMA is pending.
Follows(m, r) ==
  /\ Shape(r) /\ Interrupts(r) = Interrupts(m) /\ FlagsKept(m, r)
  /\ Accounted(m) => Accounted(r)
  /\ r.dma.pending = m.dma.pending /\ r.dma.at = m.dma.at /\ r.dma.stage = m.dma.stage
  /\ PipeValid(m) => PipeValid(r)
  /\ ~m.pipe.valid => ~r.pipe.valid

LEMMA FollowsTransitive ==
  ASSUME NEW l, NEW m, NEW n, Follows(l, m), Follows(m, n)
  PROVE  Follows(l, n)
BY FlagsKeptTransitive DEF Follows

LEMMA SameFollows ==
  ASSUME NEW m, NEW r, Same(m, r), FlagsKept(m, r), PipeValid(m) => PipeValid(r),
         ~m.pipe.valid => ~r.pipe.valid
  PROVE  Follows(m, r)
BY DEF Same, Follows, Tested, Interrupts, Transfers

LEMMA LaterFollows ==
  ASSUME NEW m, NEW r, Later(m, r)
  PROVE  /\ Follows(m, r) /\ r.channel = m.channel /\ r.pipe = m.pipe
         /\ r.dma.active = m.dma.active /\ r.dma.hdmaPending = m.dma.hdmaPending
         /\ r.ghost.withdrawn = m.ghost.withdrawn
BY SameFollows DEF Later, Same, FlagsKept, PipeValid, Transfers, Tested

\* The flags of DMA change, and the ghost that tells of a channel withdrawn.
LEMMA SetDma ==
  ASSUME NEW m, Shape(m), NEW d, DOMAIN d = DmaFields, d.clocks \in 0 .. Access - 1,
         d.spent \in Nat
  PROVE  LET r == [m EXCEPT !.dma = d] IN
         /\ Shape(r) /\ r.dma = d /\ r.channel = m.channel /\ r.pipe = m.pipe
         /\ r.clock = m.clock /\ r.irq = m.irq /\ r.alu = m.alu /\ r.ghost = m.ghost
         /\ Interrupts(r) = Interrupts(m) /\ (Accounted(m) => Accounted(r))
<1> DEFINE r == [m EXCEPT !.dma = d]
<1>1. /\ DOMAIN r = Fields /\ r.alu = m.alu /\ r.clock = m.clock /\ r.irq = m.irq
      /\ r.channel = m.channel
      /\ r.pipe = m.pipe /\ r.ghost = m.ghost /\ r.dma = d
  BY DEF Shape, Fields
<1>. HIDE DEF r
<1>2. Shape(r)
  BY <1>1 DEF Shape
<1>. QED  BY <1>1, <1>2 DEF r, Interrupts, Accounted

Withdrawn(m, v) == [m EXCEPT !.ghost.withdrawn = v]

LEMMA SetWithdrawn ==
  ASSUME NEW m, Shape(m), NEW v
  PROVE  LET r == Withdrawn(m, v) IN
         /\ Shape(r) /\ r.dma = m.dma /\ r.channel = m.channel /\ r.pipe = m.pipe
         /\ r.clock = m.clock /\ r.irq = m.irq /\ r.ghost.withdrawn = v
         /\ Interrupts(r) = Interrupts(m) /\ (Accounted(m) => Accounted(r))
<1> DEFINE r == [m EXCEPT !.ghost.withdrawn = v]
<1>1. /\ DOMAIN r = Fields /\ r.clock = m.clock /\ r.irq = m.irq /\ r.channel = m.channel
      /\ r.pipe = m.pipe /\ r.dma = m.dma /\ r.ghost = [m.ghost EXCEPT !.withdrawn = v]
  BY DEF Shape, Fields
<1>. HIDE DEF r
<1>2. /\ DOMAIN r.ghost = GhostFields /\ r.ghost.withdrawn = v
      /\ \A x \in GhostFields \ {"withdrawn"} : r.ghost[x] = m.ghost[x]
  BY <1>1 DEF Shape, GhostFields
<1>3. Shape(r)
  BY <1>1, <1>2 DEF Shape
<1>. QED  BY <1>1, <1>2, <1>3 DEF r, Interrupts, Accounted, GhostFields, Withdrawn

LEMMA InactiveFollows ==
  ASSUME NEW m, Shape(m)
  PROVE  LET r == Inactive(m) IN
         /\ Follows(m, r) /\ r.channel = m.channel /\ r.pipe = m.pipe
         /\ ~r.dma.active /\ r.dma.hdmaPending = m.dma.hdmaPending /\ ~r.ghost.withdrawn
<1> DEFINE s == Step(m, Access - m.dma.clocks)
           d == [s.dma EXCEPT !.active = FALSE]
           e == [s EXCEPT !.dma = d]
           v == FALSE
           r == Withdrawn(e, v)
<1>1. Inactive(m) = r
  <2>1. Inactive(m) = [s EXCEPT !.dma.active = FALSE, !.ghost.withdrawn = FALSE]
    BY DEF Inactive
  <2>. HIDE DEF s
  <2>. QED  BY <2>1 DEF Withdrawn
<1>2. Access - m.dma.clocks \in Nat
  BY CpuAssumption DEF Shape
<1>3. Later(m, s)
  BY <1>2, StepLater
<1>. HIDE DEF s
<1>4. Shape(s)
  BY <1>3 DEF Later, Same
<1>5. /\ DOMAIN d = DmaFields /\ d.active = FALSE
      /\ \A x \in DmaFields \ {"active"} : d[x] = s.dma[x]
  BY <1>4 DEF Shape, DmaFields
<1>. HIDE DEF d
<1>6. d.clocks \in 0 .. Access - 1 /\ d.spent \in Nat
  BY <1>4, <1>5 DEF Shape, DmaFields
<1>7. /\ Shape(e) /\ e.dma = d /\ e.channel = s.channel /\ e.pipe = s.pipe
      /\ Interrupts(e) = Interrupts(s) /\ (Accounted(s) => Accounted(e))
  BY <1>4, <1>5, <1>6, SetDma
<1>. HIDE DEF e, v
<1>8. /\ Shape(r) /\ r.dma = d /\ r.channel = s.channel /\ r.pipe = s.pipe
      /\ r.ghost.withdrawn = v
      /\ Interrupts(r) = Interrupts(s) /\ (Accounted(s) => Accounted(r))
  <2>1. /\ Shape(r) /\ r.dma = e.dma /\ r.channel = e.channel /\ r.pipe = e.pipe
        /\ r.ghost.withdrawn = v
        /\ Interrupts(r) = Interrupts(e) /\ (Accounted(e) => Accounted(r))
    BY <1>7, SetWithdrawn
  <2>. HIDE DEF r
  <2>. QED  BY <1>7, <2>1
<1>. HIDE DEF r
<1>9. Follows(s, r)
  BY <1>5, <1>8 DEF Follows, FlagsKept, PipeValid, DmaFields
<1>10. Follows(m, r) /\ r.channel = m.channel /\ r.pipe = m.pipe
  BY <1>3, <1>8, <1>9, LaterFollows, FollowsTransitive
<1>11. r.dma.hdmaPending = m.dma.hdmaPending
  <2>1. s.dma.hdmaPending = m.dma.hdmaPending
    BY <1>3, LaterFollows
  <2>2. d.hdmaPending = s.dma.hdmaPending
    BY <1>5 DEF DmaFields
  <2>. QED  BY <1>8, <2>1, <2>2
<1>. QED  BY <1>1, <1>5, <1>8, <1>10, <1>11 DEF v

LEMMA HdmaPartFollows ==
  ASSUME program \in Programs, NEW m, Shape(m), PipeValid(m)
  PROVE  LET r == HdmaPart(m) IN
         /\ Follows(m, r)
         /\ ~m.dma.active \/ ~m.dma.hdmaPending => r = m
         /\ m.dma.active /\ m.dma.hdmaPending =>
              /\ ~r.dma.hdmaPending
              /\ HdmaEnabled(m) = {} => /\ DmaEnabled(r) = DmaEnabled(m)
                                        /\ r.ghost.withdrawn = m.ghost.withdrawn
              /\ HdmaEnabled(m) # {} /\ DmaEnabled(r) = {} => ~r.dma.active
<1> DEFINE d == [m.dma EXCEPT !.hdmaPending = FALSE]
           p == [m EXCEPT !.dma = d]
           a == IF DmaEnabled(p) = {} THEN Align(p) ELSE p
           q == IF p.dma.hdmaMode = "init" THEN HdmaInit(a) ELSE HdmaRun(a)
           r == HdmaPart(m)
           Result(l) ==
             /\ Follows(m, l) /\ ~l.dma.hdmaPending
             /\ HdmaEnabled(m) = {} => /\ DmaEnabled(l) = DmaEnabled(m)
                                       /\ l.ghost.withdrawn = m.ghost.withdrawn
             /\ HdmaEnabled(m) # {} /\ DmaEnabled(l) = {} => ~l.dma.active
<1>1. r = IF ~m.dma.active \/ ~m.dma.hdmaPending THEN m
          ELSE IF HdmaEnabled(p) = {} THEN p
          ELSE IF DmaEnabled(q) = {} THEN Inactive(q) ELSE q
  BY DEF HdmaPart
<1>. HIDE DEF r
<1>2. CASE ~m.dma.active \/ ~m.dma.hdmaPending
  <2>1. r = m
    BY <1>1, <1>2
  <2>2. Follows(m, m)
    BY SameReflexive, SameFollows DEF FlagsKept
  <2>. QED  BY <1>2, <2>1, <2>2 DEF r
<1>3. CASE m.dma.active /\ m.dma.hdmaPending
  <2>1. /\ DOMAIN d = DmaFields /\ d.hdmaPending = FALSE
        /\ \A x \in DmaFields \ {"hdmaPending"} : d[x] = m.dma[x]
    BY DEF Shape, DmaFields
  <2>. HIDE DEF d
  <2>2. d.clocks \in 0 .. Access - 1 /\ d.spent \in Nat
    BY <2>1 DEF Shape, DmaFields
  <2>3. /\ Shape(p) /\ p.dma = d /\ p.channel = m.channel /\ p.pipe = m.pipe
        /\ p.ghost = m.ghost /\ Interrupts(p) = Interrupts(m) /\ (Accounted(m) => Accounted(p))
    BY <2>1, <2>2, SetDma
  <2>. HIDE DEF p
  <2>4. Follows(m, p)
    BY <2>1, <2>3 DEF Follows, FlagsKept, PipeValid, DmaFields
  <2>5. HdmaEnabled(p) = HdmaEnabled(m) /\ DmaEnabled(p) = DmaEnabled(m)
    BY <2>3 DEF HdmaEnabled, DmaEnabled
  <2>6. CASE HdmaEnabled(m) = {}
    <3>1. r = p
      BY <1>1, <1>3, <2>5, <2>6
    <3>2. Result(p)
      BY <2>1, <2>3, <2>4, <2>5, <2>6
    <3>. QED  BY <1>3, <3>1, <3>2 DEF r
  <2>7. CASE HdmaEnabled(m) # {}
    <3>1. Later(p, a) \/ a = p
      BY <2>3, AlignLater
    <3>. HIDE DEF a
    <3>2. /\ Shape(a) /\ PipeValid(a) /\ Follows(p, a) /\ a.dma.hdmaPending = d.hdmaPending
      <4>1. Follows(p, p)
        BY <2>3, SameReflexive, SameFollows DEF FlagsKept
      <4>2. CASE Later(p, a)
        BY <2>3, <2>4, <4>2, LaterFollows DEF Later, Same, PipeValid
      <4>3. CASE a = p
        BY <2>3, <2>4, <4>1, <4>3 DEF PipeValid
      <4>. QED  BY <3>1, <4>2, <4>3
    <3>3. Same(a, q) /\ FlagsKept(a, q) /\ ~q.pipe.valid
      <4>1. CASE p.dma.hdmaMode = "init"
        BY <3>2, <4>1, HdmaInitKept
      <4>2. CASE p.dma.hdmaMode # "init"
        BY <3>2, <4>2, HdmaRunKept
      <4>. QED  BY <4>1, <4>2
    <3>. HIDE DEF q
    <3>4. Follows(m, q) /\ q.dma.hdmaPending = d.hdmaPending /\ Shape(q)
      <4>1. Follows(a, q)
        BY <3>3, SameFollows DEF PipeValid
      <4>2. Follows(p, q)
        BY <4>1, <3>2, FollowsTransitive
      <4>3. q.dma.hdmaPending = a.dma.hdmaPending /\ Shape(q)
        BY <3>3 DEF Same, Transfers
      <4>. QED  BY <4>2, <4>3, <3>2, <2>4, FollowsTransitive
    <3>5. CASE DmaEnabled(q) = {}
      <4> DEFINE i == Inactive(q)
      <4>1. r = i
        BY <1>1, <1>3, <2>5, <2>7, <3>5
      <4>2. Follows(q, i) /\ ~i.dma.active /\ i.dma.hdmaPending = q.dma.hdmaPending
        BY <3>4, InactiveFollows
      <4>. HIDE DEF i
      <4>3. Follows(m, i)
        BY <3>4, <4>2, FollowsTransitive
      <4>4. Result(i)
        BY <2>1, <2>7, <3>4, <4>2, <4>3
      <4>. QED  BY <1>3, <4>1, <4>4 DEF r
    <3>6. CASE DmaEnabled(q) # {}
      <4>1. r = q
        BY <1>1, <1>3, <2>5, <2>7, <3>6
      <4>2. Result(q)
        BY <2>1, <2>7, <3>4, <3>6
      <4>. QED  BY <1>3, <4>1, <4>2 DEF r
    <3>. QED  BY <3>5, <3>6
  <2>. QED  BY <2>6, <2>7
<1>. QED  BY <1>2, <1>3

\* r follows m where an H-DMA is triggered, or not.
Triggered(m, r) ==
  /\ Follows(m, r) /\ FlagsKept(r, m) /\ r.pipe = m.pipe
  /\ r.ghost.withdrawn = m.ghost.withdrawn /\ r.dma.active = m.dma.active
  /\ r.dma.hdmaPending => m.dma.hdmaPending \/ HdmaEnabled(m) # {}

LEMMA EnabledKept ==
  ASSUME NEW m, NEW r, FlagsKept(m, r)
  PROVE  /\ HdmaEnabled(r) = HdmaEnabled(m) /\ DmaEnabled(r) \subseteq DmaEnabled(m)
         /\ FlagsKept(r, m) => DmaEnabled(r) = DmaEnabled(m)
BY DEF FlagsKept, HdmaEnabled, DmaEnabled

LEMMA TriggeredTransitive ==
  ASSUME NEW l, NEW m, NEW r, Triggered(l, m), Triggered(m, r)
  PROVE  Triggered(l, r)
<1>1. HdmaEnabled(m) = HdmaEnabled(l)
  BY EnabledKept DEF Triggered, Follows
<1>2. Follows(l, r) /\ FlagsKept(r, l)
  BY FollowsTransitive, FlagsKeptTransitive DEF Triggered
<1>. QED  BY <1>1, <1>2 DEF Triggered

LEMMA TriggeredReflexive == ASSUME NEW m, Shape(m) PROVE Triggered(m, m)
<1>1. Follows(m, m) /\ FlagsKept(m, m)
  BY SameReflexive, SameFollows DEF FlagsKept
<1>. QED  BY <1>1 DEF Triggered

LEMMA SetClock ==
  ASSUME NEW m, Shape(m), NEW c, DOMAIN c = {"at", "init", "run"}, c.at \in Nat
  PROVE  Triggered(m, [m EXCEPT !.clock = c])
<1> DEFINE r == [m EXCEPT !.clock = c]
<1>1. /\ DOMAIN r = Fields /\ r.dma = m.dma /\ r.irq = m.irq /\ r.channel = m.channel
      /\ r.alu = m.alu
      /\ r.pipe = m.pipe /\ r.ghost = m.ghost /\ r.clock = c
  BY DEF Shape, Fields
<1>. HIDE DEF r
<1>2. Shape(r)
  BY <1>1 DEF Shape
<1>3. Same(m, r) /\ FlagsKept(m, r) /\ FlagsKept(r, m)
  BY <1>1, <1>2 DEF Same, Tested, Transfers, Accounted, FlagsKept
<1>4. Follows(m, r)
  BY <1>1, <1>3, SameFollows DEF PipeValid
<1>. QED  BY <1>1, <1>3, <1>4 DEF Triggered, r

\* The flags of an H-DMA that is triggered, and of a DMA that becomes active.
LEMMA SetPending ==
  ASSUME NEW m, Shape(m), NEW mode
  PROVE  LET r == [m EXCEPT !.dma.hdmaPending = TRUE, !.dma.hdmaMode = mode] IN
         HdmaEnabled(m) # {} => Triggered(m, r)
<1> DEFINE d == [m.dma EXCEPT !.hdmaPending = TRUE, !.hdmaMode = mode]
           r == [m EXCEPT !.dma = d]
<1>1. [m EXCEPT !.dma.hdmaPending = TRUE, !.dma.hdmaMode = mode] = r
  BY DEF Shape, Fields, DmaFields
<1>2. /\ DOMAIN d = DmaFields /\ \A x \in DmaFields \ {"hdmaPending", "hdmaMode"} : d[x] = m.dma[x]
  BY DEF Shape, DmaFields
<1>. HIDE DEF d
<1>3. d.clocks \in 0 .. Access - 1 /\ d.spent \in Nat
  BY <1>2 DEF Shape, DmaFields
<1>4. /\ Shape(r) /\ r.dma = d /\ r.channel = m.channel /\ r.pipe = m.pipe
      /\ r.ghost = m.ghost /\ Interrupts(r) = Interrupts(m) /\ (Accounted(m) => Accounted(r))
  BY <1>2, <1>3, SetDma
<1>. HIDE DEF r
<1>5. FlagsKept(m, r) /\ FlagsKept(r, m)
  BY <1>4 DEF FlagsKept
<1>6. Follows(m, r)
  BY <1>2, <1>4, <1>5 DEF Follows, PipeValid, DmaFields
<1>7. ASSUME HdmaEnabled(m) # {} PROVE Triggered(m, r)
  BY <1>2, <1>4, <1>5, <1>6, <1>7 DEF Triggered, DmaFields
<1>. QED  BY <1>1, <1>7

LEMMA SetActive ==
  ASSUME NEW m, Shape(m)
  PROVE  LET r == [m EXCEPT !.dma.active = TRUE, !.dma.clocks = 0] IN
         /\ Follows(m, r) /\ FlagsKept(r, m) /\ r.pipe = m.pipe
         /\ r.ghost.withdrawn = m.ghost.withdrawn /\ r.dma.hdmaPending = m.dma.hdmaPending
<1> DEFINE d == [m.dma EXCEPT !.active = TRUE, !.clocks = 0]
           r == [m EXCEPT !.dma = d]
<1>1. [m EXCEPT !.dma.active = TRUE, !.dma.clocks = 0] = r
  BY DEF Shape, Fields, DmaFields
<1>2. /\ DOMAIN d = DmaFields /\ d.clocks = 0
      /\ \A x \in DmaFields \ {"active", "clocks"} : d[x] = m.dma[x]
  BY DEF Shape, DmaFields
<1>. HIDE DEF d
<1>3. d.clocks \in 0 .. Access - 1 /\ d.spent \in Nat
  BY <1>2, CpuAssumption DEF Shape, DmaFields
<1>4. /\ Shape(r) /\ r.dma = d /\ r.channel = m.channel /\ r.pipe = m.pipe
      /\ r.ghost = m.ghost /\ Interrupts(r) = Interrupts(m) /\ (Accounted(m) => Accounted(r))
  BY <1>2, <1>3, SetDma
<1>. HIDE DEF r
<1>5. FlagsKept(m, r) /\ FlagsKept(r, m)
  BY <1>4 DEF FlagsKept
<1>6. Follows(m, r)
  BY <1>2, <1>4, <1>5 DEF Follows, PipeValid, DmaFields
<1>. QED  BY <1>1, <1>2, <1>4, <1>5, <1>6 DEF DmaFields

\* The two triggers of a line.
TriggerInit(m) ==
  IF m.clock.init \/ m.clock.at % Line < InitPosition THEN m
  ELSE LET r == HdmaInitReset([m EXCEPT !.clock.init = TRUE]) IN
       IF HdmaEnabled(r) = {} THEN r
       ELSE [r EXCEPT !.dma.hdmaPending = TRUE, !.dma.hdmaMode = "init"]
TriggerRun(m, h) ==
  IF m.clock.run \/ h < HdmaPosition THEN m
  ELSE IF HdmaActiveChannels(m) = {} THEN [m EXCEPT !.clock.run = TRUE]
  ELSE [m EXCEPT !.clock.run = TRUE, !.dma.hdmaPending = TRUE, !.dma.hdmaMode = "run"]

LEMMA TriggerInitTriggered ==
  ASSUME NEW m, Shape(m)
  PROVE  Triggered(m, TriggerInit(m))
<1> DEFINE c == [m.clock EXCEPT !.init = TRUE]
           n == [m EXCEPT !.clock = c]
           r == HdmaInitReset(n)
           mode == "init"
           p == [r EXCEPT !.dma.hdmaPending = TRUE, !.dma.hdmaMode = mode]
<1>1. TriggerInit(m) = IF m.clock.init \/ m.clock.at % Line < InitPosition THEN m
                       ELSE IF HdmaEnabled(r) = {} THEN r ELSE p
  BY DEF TriggerInit
<1>2. DOMAIN c = {"at", "init", "run"} /\ c.at \in Nat
  BY DEF Shape
<1>. HIDE DEF c
<1>3. Triggered(m, n)
  BY <1>2, SetClock
<1>. HIDE DEF n
<1>4. Triggered(n, r)
  <2>1. Same(n, r) /\ FlagsKept(n, r) /\ FlagsKept(r, n) /\ r.pipe = n.pipe
    BY <1>3, HdmaInitResetKept DEF Triggered, Follows
  <2>. HIDE DEF r
  <2>2. Follows(n, r)
    BY <2>1, SameFollows DEF PipeValid
  <2>. QED  BY <2>1, <2>2 DEF Triggered, Same, Transfers, Tested
<1>. HIDE DEF r
<1>5. HdmaEnabled(r) # {} => Triggered(r, p)
  BY <1>4, SetPending DEF Triggered, Follows
<1>. HIDE DEF p
<1>. QED  BY <1>1, <1>3, <1>4, <1>5, TriggeredTransitive, TriggeredReflexive

LEMMA TriggerRunTriggered ==
  ASSUME NEW m, Shape(m), NEW h
  PROVE  Triggered(m, TriggerRun(m, h))
<1> DEFINE c == [m.clock EXCEPT !.run = TRUE]
           n == [m EXCEPT !.clock = c]
           mode == "run"
           p == [n EXCEPT !.dma.hdmaPending = TRUE, !.dma.hdmaMode = mode]
<1>1. TriggerRun(m, h) = IF m.clock.run \/ h < HdmaPosition THEN m
                         ELSE IF HdmaActiveChannels(m) = {} THEN n ELSE p
  BY DEF TriggerRun, Shape, Fields
<1>2. DOMAIN c = {"at", "init", "run"} /\ c.at \in Nat
  BY DEF Shape
<1>. HIDE DEF c
<1>3. Triggered(m, n)
  BY <1>2, SetClock
<1>4. HdmaActiveChannels(m) # {} => HdmaEnabled(n) # {}
  <2>1. HdmaEnabled(n) = HdmaEnabled(m)
    BY <1>3, EnabledKept DEF Triggered, Follows
  <2>. QED  BY <2>1 DEF HdmaActiveChannels, HdmaActive, HdmaEnabled
<1>. HIDE DEF n
<1>5. HdmaEnabled(n) # {} => Triggered(n, p)
  BY <1>3, SetPending DEF Triggered, Follows
<1>. HIDE DEF p
<1>. QED  BY <1>1, <1>3, <1>4, <1>5, TriggeredTransitive, TriggeredReflexive

LEMMA TriggersFollow ==
  ASSUME NEW m, Shape(m)
  PROVE  LET r == Triggers(m) IN
         /\ Follows(m, r) /\ FlagsKept(r, m) /\ r.pipe = m.pipe
         /\ r.ghost.withdrawn = m.ghost.withdrawn
         /\ r.dma.hdmaPending => m.dma.hdmaPending \/ HdmaEnabled(m) # {}
         /\ r.dma.active => m.dma.active \/ r.dma.pending \/ r.dma.hdmaPending
<1> DEFINE h == m.clock.at % Line
           i == TriggerInit(m)
           r == TriggerRun(i, h)
           a == [r EXCEPT !.dma.active = TRUE, !.dma.clocks = 0]
           t == Triggers(m)
<1>1. t = IF r.dma.active \/ ~(r.dma.pending \/ r.dma.hdmaPending) THEN r ELSE a
  BY DEF Triggers, TriggerInit, TriggerRun
<1>. HIDE DEF t, h
<1>2. Triggered(m, i)
  BY TriggerInitTriggered
<1>. HIDE DEF i
<1>3. Triggered(i, r)
  BY <1>2, TriggerRunTriggered DEF Triggered, Follows
<1>. HIDE DEF r
<1>4. Triggered(m, r) /\ Shape(r)
  BY <1>2, <1>3, TriggeredTransitive DEF Triggered, Follows
<1>5. /\ Follows(r, a) /\ FlagsKept(a, r) /\ a.pipe = r.pipe
      /\ a.ghost.withdrawn = r.ghost.withdrawn /\ a.dma.hdmaPending = r.dma.hdmaPending
  BY <1>4, SetActive
<1>. HIDE DEF a
<1>6. CASE r.dma.active \/ ~(r.dma.pending \/ r.dma.hdmaPending)
  <2>1. t = r
    BY <1>1, <1>6
  <2>. QED  BY <1>4, <2>1 DEF Triggered, t
<1>7. CASE ~(r.dma.active \/ ~(r.dma.pending \/ r.dma.hdmaPending))
  <2>1. t = a
    BY <1>1, <1>7
  <2>2. Follows(m, a) /\ FlagsKept(a, m)
    BY <1>4, <1>5, FollowsTransitive, FlagsKeptTransitive DEF Triggered
  <2>3. a.dma.pending = r.dma.pending
    BY <1>5 DEF Follows
  <2>. QED  BY <1>4, <1>5, <1>7, <2>1, <2>2, <2>3 DEF Triggered, t
<1>. QED  BY <1>6, <1>7

-----------------------------------------------------------------------------
(* The ALU *)

Half  == 2 ^ FactorBits
Whole == 2 ^ (2 * FactorBits)

AluRegisters == [mpyctr : Nat, divctr : Nat, shift : Nat, rdmpy : Nat, rddiv : 0 .. Whole - 1]

\* A multiplication of a by b under way, from x: a is q * p + r, of which r has been
\* multiplied and q is still in rddiv, below b.
Multiplying(l, a, b, x) ==
  /\ l.divctr = 0 /\ l.mpyctr \in 0 .. FactorBits
  /\ \E p, q, r \in Nat :
       /\ p * 2 ^ l.mpyctr = Half /\ q < 2 ^ l.mpyctr /\ r < p /\ a = q * p + r
       /\ l.rdmpy = (x + r * b) % Whole /\ l.shift = b * p /\ l.rddiv = b * 2 ^ l.mpyctr + q

\* A division by b under way, from x: q is the quotient of x by the divisor as it is shifted,
\* or has only ones, and follows the digits found before, below what was in rddiv.
Dividing(l, left, b, x, found) ==
  /\ l.mpyctr = 0 /\ l.divctr \in 0 .. 2 * FactorBits
  /\ \E p, u, h, d, q \in Nat :
       /\ p * 2 ^ l.divctr = Whole /\ u * 2 ^ l.divctr = 2 ^ left
       /\ h < 2 ^ l.divctr /\ d < p /\ q < u /\ d = found * u + q
       /\ l.rddiv = h * p + d /\ l.shift = b * 2 ^ l.divctr
       /\ x = q * l.shift + l.rdmpy
       /\ l.rdmpy < l.shift \/ q = u - 1

AluHolds(l, op) ==
  /\ l \in AluRegisters
  /\ \/ op[1] = "none" /\ l.mpyctr = 0 /\ l.divctr = 0
     \/ \E a, b, x \in Nat : op = << "mpy", a, b, x >> /\ Multiplying(l, a, b, x)
     \/ \E left, b, x, found \in Nat :
          op = << "div", left, b, x, found >> /\ Dividing(l, left, b, x, found)

LEMMA Widths ==
  /\ Half \in Nat \ {0} /\ Whole \in Nat \ {0} /\ Whole = Half * Half
  /\ FactorBits \in Nat /\ 2 * FactorBits \in Nat
<1>1. FactorBits \in Nat /\ 2 * FactorBits = FactorBits + FactorBits
  BY CpuAssumption
<1>2. 2 ^ (FactorBits + FactorBits) = 2 ^ FactorBits * 2 ^ FactorBits
  BY <1>1, PowerSum
<1>3. 2 * FactorBits \in Nat
  BY <1>1
<1>. QED  BY <1>1, <1>2, <1>3, PowersOfTwo DEF Half, Whole

\* What aluEdge() makes of the registers.
AluStep(l) ==
  LET shift == l.shift \div 2
      fits  == l.rdmpy >= shift
  IN  IF l.mpyctr > 0
        THEN [mpyctr |-> l.mpyctr - 1, divctr |-> l.divctr, shift |-> l.shift * 2,
              rdmpy |-> IF l.rddiv % 2 = 1 THEN (l.rdmpy + l.shift) % Whole ELSE l.rdmpy,
              rddiv |-> l.rddiv \div 2]
      ELSE IF l.divctr > 0
        THEN [mpyctr |-> l.mpyctr, divctr |-> l.divctr - 1, shift |-> shift,
              rdmpy |-> IF fits THEN l.rdmpy - shift ELSE l.rdmpy,
              rddiv |-> ((l.rddiv * 2) % Whole) + Flag(fits)]
      ELSE l

\* An even number modulo an even number is even.
LEMMA EvenRemainder ==
  ASSUME NEW x \in Nat, NEW w \in Nat \ {0}
  PROVE  (x * 2) % (w * 2) = (x % w) * 2
<1> DEFINE v == w * 2
           y == x * 2
<1>1. PICK q \in Int : \E r \in 0 .. w - 1 : q = x \div w /\ r = x % w /\ x = w * q + r
  BY Division
<1>2. PICK r \in 0 .. w - 1 : r = x % w /\ x = w * q + r
  BY <1>1
<1>3. v \in Nat \ {0} /\ y \in Int
  OBVIOUS
<1>4. r * 2 \in 0 .. v - 1 /\ v * q + r * 2 = y
  BY <1>2
<1>. HIDE DEF v, y
<1>5. PICK p \in Int : \E s \in 0 .. v - 1 : p = y \div v /\ s = y % v /\ y = v * p + s
  BY <1>3, Division
<1>6. PICK s \in 0 .. v - 1 : s = y % v /\ y = v * p + s
  BY <1>5
<1> DEFINE t == r * 2
<1>7. t \in 0 .. v - 1 /\ v * q + t = v * p + s
  BY <1>4, <1>6
<1>. HIDE DEF t
<1>8. t = s
  BY <1>3, <1>7, Remainder
<1>. QED  BY <1>2, <1>6, <1>8 DEF t, v, y

LEMMA MultiplyStep ==
  ASSUME NEW l \in AluRegisters, NEW a \in Nat, NEW b \in Nat, NEW x \in Nat,
         Multiplying(l, a, b, x)
  PROVE  Multiplying(AluStep(l), a, b, x)
<1>1. CASE l.mpyctr = 0
  <2>1. AluStep(l) = l
    BY <1>1 DEF AluStep, Multiplying
  <2>. QED  BY <2>1
<1>2. CASE l.mpyctr > 0
  <2> DEFINE k == l.mpyctr - 1
             w == 2 ^ k
             n == AluStep(l)
  <2>1. k \in Nat /\ l.mpyctr = k + 1
    BY <1>2 DEF AluRegisters
  <2>2. w \in Nat \ {0} /\ 2 ^ l.mpyctr = 2 * w
    BY <2>1, PowersOfTwo
  <2>. HIDE DEF k, w
  <2>3. PICK p \in Nat, q \in Nat, r \in Nat :
          /\ p * 2 ^ l.mpyctr = Half /\ q < 2 ^ l.mpyctr /\ r < p /\ a = q * p + r
          /\ l.rdmpy = (x + r * b) % Whole /\ l.shift = b * p /\ l.rddiv = b * 2 ^ l.mpyctr + q
    BY DEF Multiplying
  <2>4. PICK h \in Nat, e \in {0, 1} : q = 2 * h + e
    <3>1. q = 2 * (q \div 2) + (q % 2) /\ q \div 2 \in Nat /\ q % 2 \in {0, 1}
      OBVIOUS
    <3>. QED  BY <3>1
  <2>5. PICK c \in Nat : c = b * w
    BY <2>2
  <2>6. l.rddiv = 2 * (c + h) + e
    <3>1. b * (2 * w) = 2 * c
      BY <2>2, <2>5
    <3>. QED  BY <2>2, <2>3, <2>4, <3>1
  <2>7. l.rddiv \div 2 = c + h /\ (l.rddiv % 2 = 1 <=> e = 1)
    BY <2>6
  <2>8. PICK t \in Nat : t = r + e * p
    OBVIOUS
  <2>9. t < p * 2 /\ a = h * (p * 2) + t /\ h < w
    <3>1. h < w
      BY <2>2, <2>3, <2>4
    <3>2. q * p = h * (p * 2) + e * p
      BY <2>4
    <3>. QED  BY <2>3, <2>4, <2>8, <3>1, <3>2
  <2>10. (p * 2) * w = Half
    <3>1. p * (2 * w) = (p * 2) * w
      BY <2>2
    <3>. QED  BY <2>2, <2>3, <3>1
  <2>11. l.shift * 2 = b * (p * 2)
    BY <2>3
  <2>12. (x + t * b) % Whole = IF e = 1 THEN (l.rdmpy + l.shift) % Whole ELSE l.rdmpy
    <3>1. (r + p) * b = r * b + b * p /\ r * b \in Nat /\ b * p \in Nat
      OBVIOUS
    <3>2. CASE e = 1
      <4>1. t = r + p
        BY <2>8, <3>2
      <4>2. x + t * b = (x + r * b) + b * p
        BY <3>1, <4>1
      <4>3. (((x + r * b) % Whole) + b * p) % Whole = ((x + r * b) + b * p) % Whole
        <5> DEFINE y == x + r * b
                   z == b * p
        <5>1. y \in Nat /\ z \in Nat
          BY <3>1
        <5>. HIDE DEF y, z
        <5>2. y \in Int /\ z \in Int /\ Whole \in Nat \ {0}
          BY <5>1, Widths
        <5>3. ((y % Whole) + z) % Whole = (y + z) % Whole
          BY <5>2, ModAdd
        <5>. QED  BY <5>3 DEF y, z
      <4>. QED  BY <2>3, <3>2, <4>2, <4>3
    <3>3. CASE e = 0
      <4>1. t = r
        BY <2>8, <3>3
      <4>. QED  BY <2>3, <3>3, <4>1
    <3>. QED  BY <3>2, <3>3
  <2>13. /\ n.mpyctr = k /\ n.divctr = 0 /\ n.shift = l.shift * 2
         /\ n.rdmpy = IF l.rddiv % 2 = 1 THEN (l.rdmpy + l.shift) % Whole ELSE l.rdmpy
         /\ n.rddiv = l.rddiv \div 2
    BY <1>2 DEF AluStep, k, Multiplying
  <2>. HIDE DEF n
  <2>14. /\ p * 2 \in Nat /\ (p * 2) * 2 ^ n.mpyctr = Half /\ h < 2 ^ n.mpyctr /\ t < p * 2
         /\ a = h * (p * 2) + t /\ n.rdmpy = (x + t * b) % Whole /\ n.shift = b * (p * 2)
         /\ n.rddiv = b * 2 ^ n.mpyctr + h
    BY <2>5, <2>7, <2>9, <2>10, <2>11, <2>12, <2>13 DEF w
  <2>15. n.mpyctr \in 0 .. FactorBits
    BY <1>2, <2>1, <2>13, Widths DEF Multiplying
  <2>16. Multiplying(n, a, b, x)
    BY <2>13, <2>14, <2>15 DEF Multiplying
  <2>. QED  BY <2>16 DEF n
<1>. QED  BY <1>1, <1>2 DEF AluRegisters

LEMMA DivideStep ==
  ASSUME NEW l \in AluRegisters, NEW left \in Nat, NEW b \in Nat, NEW x \in Nat,
         NEW found \in Nat, Dividing(l, left, b, x, found)
  PROVE  Dividing(AluStep(l), left, b, x, found)
<1>1. CASE l.divctr = 0
  <2>1. AluStep(l) = l
    BY <1>1 DEF AluStep, Dividing
  <2>. QED  BY <2>1
<1>2. CASE l.divctr > 0
  <2> DEFINE k == l.divctr - 1
             w == 2 ^ k
             n == AluStep(l)
             half == l.shift \div 2
             fits == l.rdmpy >= half
  <2>1. k \in Nat /\ l.divctr = k + 1
    BY <1>2 DEF AluRegisters
  <2>2. w \in Nat \ {0} /\ 2 ^ l.divctr = 2 * w
    BY <2>1, PowersOfTwo
  <2>3. PICK p \in Nat, u \in Nat, h \in Nat, d \in Nat, q \in Nat :
          /\ p * 2 ^ l.divctr = Whole /\ u * 2 ^ l.divctr = 2 ^ left
          /\ h < 2 ^ l.divctr /\ d < p /\ q < u /\ d = found * u + q
          /\ l.rddiv = h * p + d /\ l.shift = b * 2 ^ l.divctr
          /\ x = q * l.shift + l.rdmpy
          /\ l.rdmpy < l.shift \/ q = u - 1
    BY DEF Dividing
  <2>4. /\ n.mpyctr = 0 /\ n.divctr = k /\ n.shift = half
        /\ fits => n.rdmpy = l.rdmpy - half
        /\ ~fits => n.rdmpy = l.rdmpy
    BY <1>2 DEF AluStep, Dividing, k
  <2>14. n.rddiv = ((l.rddiv * 2) % Whole) + Flag(fits)
    BY <1>2 DEF AluStep, Dividing
  <2>. HIDE DEF k, w, n
  <2>5. half = b * w
    <3>1. PICK c \in Nat : c = b * w
      BY <2>2
    <3>2. b * (2 * w) = 2 * c
      BY <2>2, <3>1
    <3>. QED  BY <2>2, <2>3, <3>1, <3>2
  <2>. HIDE DEF half
  <2>6. half \in Nat /\ l.shift = 2 * half /\ l.rdmpy \in Nat /\ l.rddiv \in Nat
    <3>1. b * (2 * w) = 2 * (b * w) /\ b * w \in Nat
      BY <2>2
    <3>. QED  BY <2>2, <2>3, <2>5, <3>1 DEF AluRegisters
  <2>7. PICK f \in {0, 1} : f = Flag(fits) /\ (f = 1 <=> fits)
    BY DEF Flag
  <2>. HIDE DEF fits
  <2>8. \E g \in Nat : g < w /\ n.rddiv = g * (p * 2) + (2 * d + f)
    <3>1. p \in Nat \ {0} /\ p * (2 * w) = Whole
      BY <2>2, <2>3, Widths
    <3>0. PICK c \in Int : \E t \in 0 .. w - 1 : c = h \div w /\ t = h % w /\ h = w * c + t
      <4>1. h \in Int /\ w \in Nat \ {0}
        BY <2>2
      <4>. QED  BY <4>1, Division
    <3>2. PICK g0 \in 0 .. w - 1 : g0 = h % w /\ h = w * c + g0
      BY <3>0
    <3>3. PICK v \in Nat : v = p * w
      BY <2>2
    <3>4. v * 2 = Whole /\ v \in Nat \ {0}
      <4>1. p * (2 * w) = (p * w) * 2
        BY <2>2
      <4>. QED  BY <3>1, <3>3, <4>1, Widths
    <3>5. (l.rddiv * 2) % Whole = (l.rddiv % v) * 2
      BY <2>6, <3>4, EvenRemainder
    <3>6. l.rddiv % v = g0 * p + d
      <4> DEFINE z == l.rddiv
                 t == g0 * p + d
      <4>0. PICK y \in Int : \E s \in 0 .. v - 1 : y = z \div v /\ s = z % v /\ z = v * y + s
        <5>1. z \in Int /\ v \in Nat \ {0}
          BY <2>6, <3>4
        <5>. HIDE DEF z
        <5>. QED  BY <5>1, Division
      <4>1. PICK s \in 0 .. v - 1 : s = z % v /\ z = v * y + s
        BY <4>0
      <4>2. h * p = v * c + g0 * p
        <5>1. (w * c + g0) * p = (p * w) * c + g0 * p
          BY <2>2
        <5>. QED  BY <3>2, <3>3, <5>1
      <4>3. g0 * p + d \in 0 .. v - 1
        <5>1. g0 <= w - 1
          OBVIOUS
        <5>2. g0 * p <= (w - 1) * p
          BY <2>2, <5>1
        <5>3. (w - 1) * p = v - p
          BY <2>2, <3>3
        <5>. QED  BY <2>3, <5>2, <5>3
      <4>4. v * c + t = v * y + s
        BY <2>3, <4>1, <4>2
      <4>5. t \in 0 .. v - 1
        BY <4>3
      <4>. HIDE DEF t, z
      <4>6. t = s
        BY <3>4, <4>4, <4>5, Remainder
      <4>. QED  BY <4>1, <4>6 DEF t, z
    <3>7. (g0 * p + d) * 2 = g0 * (p * 2) + 2 * d
      OBVIOUS
    <3>8. n.rddiv = g0 * (p * 2) + (2 * d + f)
      BY <2>14, <2>7, <3>5, <3>6, <3>7
    <3>. QED  BY <2>2, <3>8
  <2>9. PICK g \in Nat : g < w /\ n.rddiv = g * (p * 2) + (2 * d + f)
    BY <2>8
  <2>10. /\ (p * 2) * w = Whole /\ 2 * d + f < p * 2 /\ 2 * d + f \in Nat
         /\ (u * 2) * w = 2 ^ left /\ 2 * q + f < u * 2 /\ 2 * q + f \in Nat
    <3>1. p * (2 * w) = (p * 2) * w /\ u * (2 * w) = (u * 2) * w
      BY <2>2
    <3>. QED  BY <2>2, <2>3, <3>1
  <2>11. 2 * d + f = found * (u * 2) + (2 * q + f)
    <3>1. 2 * (found * u + q) + f = found * (u * 2) + (2 * q + f)
      OBVIOUS
    <3>. QED  BY <2>3, <3>1
  <2>12. x = (2 * q + f) * n.shift + n.rdmpy /\ (n.rdmpy < n.shift \/ 2 * q + f = u * 2 - 1)
    <3>1. x = q * (2 * half) + l.rdmpy /\ (l.rdmpy < 2 * half \/ q = u - 1)
      BY <2>3, <2>6
    <3>2. q * (2 * half) = (2 * q) * half /\ (2 * q + 1) * half = (2 * q) * half + half
      BY <2>6
    <3>3. CASE fits
      <4>1. l.rdmpy >= half /\ f = 1 /\ n.rdmpy = l.rdmpy - half /\ n.shift = half
        BY <2>4, <2>7, <3>3 DEF fits
      <4>. QED  BY <2>6, <3>1, <3>2, <4>1
    <3>4. CASE ~fits
      <4>1. l.rdmpy < half /\ f = 0 /\ n.rdmpy = l.rdmpy /\ n.shift = half
        BY <2>4, <2>6, <2>7, <3>4 DEF fits
      <4>. QED  BY <2>6, <3>1, <3>2, <4>1
    <3>. QED  BY <3>3, <3>4
  <2>13. Dividing(n, left, b, x, found)
    <3> DEFINE pp == p * 2
               uu == u * 2
               qq == 2 * q + f
               dd == 2 * d + f
    <3>1. pp \in Nat /\ uu \in Nat /\ qq \in Nat /\ dd \in Nat
      BY <2>10
    <3>2. /\ pp * 2 ^ n.divctr = Whole /\ uu * 2 ^ n.divctr = 2 ^ left /\ g < 2 ^ n.divctr
          /\ dd < pp /\ qq < uu /\ dd = found * uu + qq
          /\ n.rddiv = g * pp + dd /\ n.shift = b * 2 ^ n.divctr /\ n.mpyctr = 0
          /\ x = qq * n.shift + n.rdmpy
          /\ n.rdmpy < n.shift \/ qq = uu - 1
      BY <2>4, <2>5, <2>9, <2>10, <2>11, <2>12 DEF w
    <3>3. n.divctr \in 0 .. 2 * FactorBits
      BY <1>2, <2>1, <2>4, Widths DEF Dividing
    <3>. HIDE DEF pp, uu, qq, dd
    <3>. QED  BY <3>1, <3>2, <3>3 DEF Dividing
  <2>. QED  BY <2>13 DEF n
<1>. QED  BY <1>1, <1>2 DEF AluRegisters

LEMMA AluStepHolds ==
  ASSUME NEW l, NEW op, AluHolds(l, op)
  PROVE  AluHolds(AluStep(l), op)
<1>1. l \in AluRegisters
  BY DEF AluHolds
<1>2. AluStep(l) \in AluRegisters
  <2>1. CASE l.mpyctr > 0
    <3>1. /\ l.mpyctr - 1 \in Nat /\ l.shift * 2 \in Nat
          /\ (l.rdmpy + l.shift) % Whole \in Nat /\ l.rddiv \div 2 \in 0 .. Whole - 1
      BY <1>1, <2>1, Widths DEF AluRegisters
    <3>. QED  BY <1>1, <2>1, <3>1 DEF AluStep, AluRegisters
  <2>2. CASE ~(l.mpyctr > 0) /\ l.divctr > 0
    <3> DEFINE shift == l.shift \div 2
               fits == l.rdmpy >= shift
               d == ((l.rddiv * 2) % Whole) + Flag(fits)
               r == IF fits THEN l.rdmpy - shift ELSE l.rdmpy
    <3>1. shift \in Nat /\ r \in Nat /\ l.divctr - 1 \in Nat
      BY <1>1, <2>2 DEF AluRegisters
    <3>2. d \in 0 .. Whole - 1
      <4>1. PICK v \in Nat \ {0} : Whole = v * 2
        <5>1. PICK k \in Nat : 2 * FactorBits = k + 1
          BY CpuAssumption
        <5>2. 2 ^ (k + 1) = 2 * 2 ^ k /\ 2 ^ k \in Nat \ {0}
          BY PowersOfTwo
        <5>. QED  BY <5>1, <5>2 DEF Whole
      <4>2. l.rddiv \in Nat
        BY <1>1 DEF AluRegisters
      <4>3. (l.rddiv * 2) % Whole = (l.rddiv % v) * 2
        BY <4>1, <4>2, EvenRemainder
      <4>4. l.rddiv % v \in 0 .. v - 1
        BY <4>2
      <4>5. Flag(fits) \in {0, 1}
        BY DEF Flag
      <4>. QED  BY <4>1, <4>3, <4>4, <4>5
    <3>3. AluStep(l) = [mpyctr |-> l.mpyctr, divctr |-> l.divctr - 1, shift |-> shift, rdmpy |-> r,
                        rddiv |-> d]
      BY <2>2 DEF AluStep
    <3>. HIDE DEF shift, r, d
    <3>4. l.mpyctr \in Nat
      BY <1>1 DEF AluRegisters
    <3>. QED  BY <3>1, <3>2, <3>3, <3>4 DEF AluRegisters
  <2>3. CASE ~(l.mpyctr > 0) /\ ~(l.divctr > 0)
    BY <1>1, <2>3 DEF AluStep
  <2>. QED  BY <2>1, <2>2, <2>3
<1>3. CASE op[1] = "none" /\ l.mpyctr = 0 /\ l.divctr = 0
  BY <1>1, <1>3 DEF AluHolds, AluStep
<1>4. CASE \E a, b, x \in Nat : op = << "mpy", a, b, x >> /\ Multiplying(l, a, b, x)
  BY <1>1, <1>2, <1>4, MultiplyStep DEF AluHolds
<1>5. CASE \E left, b, x, found \in Nat :
             op = << "div", left, b, x, found >> /\ Dividing(l, left, b, x, found)
  BY <1>1, <1>2, <1>5, DivideStep DEF AluHolds
<1>. QED  BY <1>3, <1>4, <1>5 DEF AluHolds

\* An operation that begins.
LEMMA MultiplyStarts ==
  ASSUME NEW l, NEW a \in 0 .. Half - 1, NEW b \in 0 .. Half - 1,
         l = [mpyctr |-> FactorBits, divctr |-> 0, shift |-> b, rdmpy |-> 0,
              rddiv |-> b * Half + a]
  PROVE  AluHolds(l, << "mpy", a, b, 0 >>)
<1>1. b * Half + a \in 0 .. Whole - 1
  <2>1. b * Half <= (Half - 1) * Half
    BY Widths
  <2>. QED  BY <2>1, Widths
<1>2. l \in AluRegisters
  BY <1>1, Widths DEF AluRegisters
<1>3. Multiplying(l, a, b, 0)
  <2> DEFINE p == 1
             r == 0
  <2>0. (0 + r * b) % Whole = 0
    BY Widths
  <2>1. /\ p \in Nat /\ r \in Nat /\ a \in Nat /\ b \in Nat
        /\ p * 2 ^ l.mpyctr = Half /\ a < 2 ^ l.mpyctr /\ r < p /\ a = a * p + r
        /\ l.shift = b * p /\ l.rddiv = b * 2 ^ l.mpyctr + a
    BY Widths DEF Half
  <2>2. l.divctr = 0 /\ l.rdmpy = 0 /\ l.mpyctr \in 0 .. FactorBits
    BY Widths
  <2>. HIDE DEF p, r
  <2>. QED  BY <2>0, <2>1, <2>2 DEF Multiplying
<1>4. a \in Nat /\ b \in Nat
  OBVIOUS
<1>. QED  BY <1>2, <1>3, <1>4 DEF AluHolds

LEMMA DivideStarts ==
  ASSUME NEW l \in AluRegisters, NEW a \in 0 .. Whole - 1, NEW b \in Nat,
         l.mpyctr = 0, l.divctr = 2 * FactorBits, l.shift = b * Whole, l.rdmpy = a
  PROVE  AluHolds(l, << "div", 2 * FactorBits, b, a, 0 >>)
<1> DEFINE left == 2 * FactorBits
<1>1. left \in Nat /\ a \in Nat /\ b * Whole \in Nat /\ 2 ^ left = Whole
  BY Widths DEF Whole
<1>2. Dividing(l, left, b, a, 0)
  <2> DEFINE p == 1
             q == 0
             h == l.rddiv
  <2>1. /\ p \in Nat /\ q \in Nat /\ h \in Nat
        /\ p * 2 ^ l.divctr = Whole /\ p * 2 ^ l.divctr = 2 ^ left
        /\ h < 2 ^ l.divctr /\ q < p /\ q = 0 * p + q
        /\ l.rddiv = h * p + q /\ l.shift = b * 2 ^ l.divctr
        /\ a = q * l.shift + l.rdmpy /\ q = p - 1
    BY <1>1, Widths DEF AluRegisters
  <2>2. l.mpyctr = 0 /\ l.divctr \in 0 .. 2 * FactorBits
    BY Widths
  <2>. HIDE DEF p, q, h, left
  <2>. QED  BY <2>1, <2>2 DEF Dividing
<1>. HIDE DEF left
<1>3. AluHolds(l, << "div", left, b, a, 0 >>)
  BY <1>1, <1>2 DEF AluHolds
<1>. QED  BY <1>3 DEF left

\* One that goes on from the value a write put into rdmpy.
LEMMA MultiplyResumes ==
  ASSUME NEW l \in AluRegisters, NEW a \in Nat, NEW b \in Nat, NEW x \in Nat,
         Multiplying(l, a, b, x), NEW v \in 0 .. Whole - 1
  PROVE  LET rest == a - (a % 2 ^ (FactorBits - l.mpyctr)) IN
         rest \in Nat /\ Multiplying([l EXCEPT !.rdmpy = v], rest, b, v)
<1> DEFINE k == l.mpyctr
           w == 2 ^ k
           t == 2 ^ (FactorBits - k)
           n == [l EXCEPT !.rdmpy = v]
<1>1. PICK p \in Nat, q \in Nat, r \in Nat :
        /\ p * w = Half /\ q < w /\ r < p /\ a = q * p + r
        /\ l.shift = b * p /\ l.rddiv = b * w + q
  BY DEF Multiplying
<1>2. k \in Nat /\ FactorBits - k \in Nat /\ (FactorBits - k) + k = FactorBits
  BY Widths DEF Multiplying
<1>3. w \in Nat \ {0} /\ t \in Nat \ {0} /\ t * w = Half
  <2> DEFINE i == FactorBits - k
  <2>1. k \in Nat /\ i \in Nat /\ i + k = FactorBits
    BY <1>2
  <2>. HIDE DEF k, i
  <2>2. 2 ^ k \in Nat \ {0} /\ 2 ^ i \in Nat \ {0}
    BY <2>1, PowersOfTwo
  <2>3. 2 ^ (i + k) = 2 ^ i * 2 ^ k
    BY <2>1, PowerSum
  <2>4. 2 ^ i * 2 ^ k = Half
    BY <2>1, <2>3 DEF Half
  <2>. QED  BY <2>2, <2>4 DEF w, t, i
<1>4. n \in AluRegisters /\ n.mpyctr = k /\ n.divctr = 0 /\ n.shift = l.shift
      /\ n.rddiv = l.rddiv /\ n.rdmpy = v /\ k \in 0 .. FactorBits
  BY Widths DEF AluRegisters, Multiplying
<1>. HIDE DEF k, w, t, n
<1>5. p = t
  <2>1. 0 \in 0 .. w - 1 /\ w * p + 0 = w * t + 0
    BY <1>1, <1>3
  <2>2. p \in Int /\ t \in Int
    BY <1>3
  <2>. QED  BY <1>3, <2>1, <2>2, Remainder
<1>6. a % p = r
  <2>1. p \in Nat \ {0} /\ a \in Int /\ q \in Int /\ r \in 0 .. p - 1
    BY <1>3, <1>5, <1>1
  <2>2. PICK c \in Int : a % p \in 0 .. p - 1 /\ a = p * c + (a % p)
    BY <2>1, Division
  <2> DEFINE s == a % p
  <2>3. s \in 0 .. p - 1 /\ p * q + r = p * c + s
    BY <1>1, <2>2
  <2>. HIDE DEF s
  <2>4. r = s
    BY <2>1, <2>3, Remainder
  <2>. QED  BY <2>4 DEF s
<1> DEFINE rest == a - (a % t)
<1>7. rest = q * p /\ rest \in Nat
  BY <1>1, <1>5, <1>6
<1>8. v = (v + 0 * b) % Whole
  BY Widths
<1>9. 0 < p /\ rest = q * p + 0
  BY <1>3, <1>5, <1>7
<1>. HIDE DEF rest
<1>10. Multiplying(n, rest, b, v)
  <2> DEFINE z == 0
  <2>1. z \in Nat /\ z < p /\ rest = q * p + z /\ n.rdmpy = (v + z * b) % Whole
    BY <1>4, <1>8, <1>9
  <2>2. p * 2 ^ n.mpyctr = Half /\ q < 2 ^ n.mpyctr /\ n.rddiv = b * 2 ^ n.mpyctr + q
    BY <1>1, <1>4 DEF w
  <2>. HIDE DEF z
  <2>. QED  BY <1>1, <1>4, <2>1, <2>2 DEF Multiplying
<1>. QED  BY <1>7, <1>10 DEF rest, t, k, n

LEMMA DivideResumes ==
  ASSUME NEW l \in AluRegisters, NEW left \in Nat, NEW b \in Nat, NEW x \in Nat,
         NEW found \in Nat, Dividing(l, left, b, x, found), NEW v \in 0 .. Whole - 1
  PROVE  LET digits == l.rddiv % 2 ^ (2 * FactorBits - l.divctr) IN
         digits \in Nat /\ Dividing([l EXCEPT !.rdmpy = v], l.divctr, b, v, digits)
<1> DEFINE k == l.divctr
           w == 2 ^ k
           bits == 2 * FactorBits
           t == 2 ^ (bits - k)
           n == [l EXCEPT !.rdmpy = v]
<1>1. PICK p \in Nat, h \in Nat, d \in Nat :
        /\ p * w = Whole /\ h < w /\ d < p /\ l.rddiv = h * p + d /\ l.shift = b * w
  BY DEF Dividing
<1>2. k \in Nat /\ bits - k \in Nat /\ (bits - k) + k = bits
  BY Widths DEF Dividing
<1>3. w \in Nat \ {0} /\ t \in Nat \ {0} /\ t * w = Whole
  <2> DEFINE i == bits - k
  <2>1. k \in Nat /\ i \in Nat /\ i + k = bits
    BY <1>2
  <2>. HIDE DEF k, i, bits
  <2>2. 2 ^ k \in Nat \ {0} /\ 2 ^ i \in Nat \ {0}
    BY <2>1, PowersOfTwo
  <2>3. 2 ^ (i + k) = 2 ^ i * 2 ^ k
    BY <2>1, PowerSum
  <2>4. 2 ^ i * 2 ^ k = Whole
    BY <2>1, <2>3 DEF Whole, bits
  <2>. QED  BY <2>2, <2>4 DEF w, t, i
<1>4. n \in AluRegisters /\ n.divctr = k /\ n.mpyctr = 0 /\ n.shift = l.shift
      /\ n.rddiv = l.rddiv /\ n.rdmpy = v /\ k \in 0 .. 2 * FactorBits
  BY Widths DEF AluRegisters, Dividing
<1>. HIDE DEF k, w, t, n, bits
<1>5. p = t
  <2>1. 0 \in 0 .. w - 1 /\ w * p + 0 = w * t + 0
    BY <1>1, <1>3
  <2>2. p \in Int /\ t \in Int
    BY <1>3
  <2>. QED  BY <1>3, <2>1, <2>2, Remainder
<1> DEFINE y == l.rddiv
<1>6. y % p = d
  <2>1. p \in Nat \ {0} /\ y \in Int /\ h \in Int /\ d \in 0 .. p - 1 /\ y = h * p + d
    BY <1>3, <1>5, <1>1 DEF AluRegisters
  <2>. HIDE DEF y
  <2>2. PICK c \in Int : y % p \in 0 .. p - 1 /\ y = p * c + (y % p)
    BY <2>1, Division
  <2> DEFINE s == y % p
  <2>3. s \in 0 .. p - 1 /\ p * h + d = p * c + s
    BY <2>1, <2>2
  <2>. HIDE DEF s
  <2>4. d = s
    BY <2>1, <2>3, Remainder
  <2>. QED  BY <2>4 DEF s
<1>7. Dividing(n, k, b, v, d)
  <2> DEFINE u == 1
             q == 0
  <2>1. /\ u \in Nat /\ q \in Nat /\ u * w = w /\ q < u /\ d = d * u + q
        /\ n.rdmpy = q * n.shift + n.rdmpy /\ q = u - 1
    BY <1>1, <1>3, <1>4 DEF AluRegisters
  <2>2. /\ p * 2 ^ n.divctr = Whole /\ u * 2 ^ n.divctr = 2 ^ k
        /\ h < 2 ^ n.divctr /\ n.rddiv = h * p + d /\ n.shift = b * 2 ^ n.divctr
    BY <1>1, <1>4, <2>1 DEF w
  <2>. HIDE DEF u, q
  <2>. QED  BY <1>1, <1>4, <2>1, <2>2 DEF Dividing
<1>. QED  BY <1>5, <1>6, <1>7 DEF t, k, n, y, bits

LEMMA AluResumes ==
  ASSUME NEW l, NEW op, AluHolds(l, op), l.mpyctr + l.divctr > 0, NEW v \in 0 .. Whole - 1
  PROVE  AluHolds([l EXCEPT !.rdmpy = v], Resumed(l, op, v))
<1> DEFINE n == [l EXCEPT !.rdmpy = v]
<1>1. l \in AluRegisters /\ n \in AluRegisters /\ v \in Nat /\ l.divctr \in Nat
  BY Widths DEF AluHolds, AluRegisters
<1>. HIDE DEF n
<1>2. CASE \E a, b, x \in Nat : op = << "mpy", a, b, x >> /\ Multiplying(l, a, b, x)
  <2>1. PICK a \in Nat, b \in Nat, x \in Nat :
          op = << "mpy", a, b, x >> /\ Multiplying(l, a, b, x)
    BY <1>2
  <2> DEFINE rest == a - (a % 2 ^ (FactorBits - l.mpyctr))
  <2>2. rest \in Nat /\ Multiplying(n, rest, b, v)
    BY <1>1, <2>1, MultiplyResumes DEF n
  <2>3. Resumed(l, op, v) = << "mpy", rest, b, v >>
    BY <2>1 DEF Resumed
  <2>. HIDE DEF rest
  <2>4. AluHolds(n, << "mpy", rest, b, v >>)
    BY <1>1, <2>2 DEF AluHolds
  <2>. QED  BY <2>3, <2>4 DEF n
<1>3. CASE \E left, b, x, found \in Nat :
             op = << "div", left, b, x, found >> /\ Dividing(l, left, b, x, found)
  <2>1. PICK left \in Nat, b \in Nat, x \in Nat, found \in Nat :
          op = << "div", left, b, x, found >> /\ Dividing(l, left, b, x, found)
    BY <1>3
  <2> DEFINE digits == l.rddiv % 2 ^ (2 * FactorBits - l.divctr)
  <2>2. digits \in Nat /\ Dividing(n, l.divctr, b, v, digits)
    BY <1>1, <2>1, DivideResumes DEF n
  <2>3. Resumed(l, op, v) = << "div", l.divctr, b, v, digits >>
    BY <2>1 DEF Resumed
  <2>. HIDE DEF digits
  <2>4. AluHolds(n, << "div", l.divctr, b, v, digits >>)
    BY <1>1, <2>2 DEF AluHolds
  <2>. QED  BY <2>3, <2>4 DEF n
<1>. QED  BY <1>2, <1>3 DEF AluHolds

\* And one that has ended.
LEMMA AluEnds ==
  ASSUME AluHolds(alu, ghost.op), alu.mpyctr + alu.divctr = 0
  PROVE  LET op == ghost.op IN
         /\ op[1] = "mpy" => IsProduct(op[2], op[3], op[4])
         /\ op[1] = "div" => IsQuotient(op[2], op[3], op[4], op[5])
<1> DEFINE op == ghost.op
<1>1. alu \in AluRegisters /\ alu.mpyctr = 0 /\ alu.divctr = 0 /\ 2 ^ 0 = 1
  BY PowersOfTwo DEF AluHolds, AluRegisters
<1>2. CASE \E a, b, x \in Nat : op = << "mpy", a, b, x >> /\ Multiplying(alu, a, b, x)
  <2>1. PICK a \in Nat, b \in Nat, x \in Nat :
          op = << "mpy", a, b, x >> /\ Multiplying(alu, a, b, x)
    BY <1>2
  <2>2. PICK p \in Nat, q \in Nat, r \in Nat :
          /\ q < 1 /\ a = q * p + r
          /\ alu.rdmpy = (x + r * b) % Whole /\ alu.rddiv = b * 1 + q
    BY <1>1, <2>1 DEF Multiplying
  <2>3. q = 0 /\ a = r /\ alu.rddiv = b
    BY <2>2
  <2>4. IsProduct(a, b, x)
    BY <2>2, <2>3 DEF IsProduct, Whole
  <2>. QED  BY <2>1, <2>4
<1>3. CASE \E left, b, x, found \in Nat :
             op = << "div", left, b, x, found >> /\ Dividing(alu, left, b, x, found)
  <2>1. PICK left \in Nat, b \in Nat, x \in Nat, found \in Nat :
          op = << "div", left, b, x, found >> /\ Dividing(alu, left, b, x, found)
    BY <1>3
  <2> DEFINE one == 2 ^ alu.divctr
  <2>2. one = 1
    BY <1>1
  <2> DEFINE Holds(p, u, h, d, q) ==
          /\ p * one = Whole /\ u * one = 2 ^ left
          /\ h < one /\ d < p /\ q < u /\ d = found * u + q
          /\ alu.rddiv = h * p + d /\ alu.shift = b * one
          /\ x = q * alu.shift + alu.rdmpy
          /\ alu.rdmpy < alu.shift \/ q = u - 1
  <2>3. \E p, u, h, d, q \in Nat : Holds(p, u, h, d, q)
    BY <2>1 DEF Dividing
  <2>. HIDE DEF one, Holds
  <2>4. PICK p \in Nat, u \in Nat, h \in Nat, d \in Nat, q \in Nat : Holds(p, u, h, d, q)
    BY <2>3
  <2>5. /\ u * one = 2 ^ left /\ h < one /\ q < u /\ d = found * u + q
        /\ alu.rddiv = h * p + d /\ alu.shift = b * one
        /\ x = q * alu.shift + alu.rdmpy
        /\ alu.rdmpy < alu.shift \/ q = u - 1
    BY <2>4 DEF Holds
  <2>6. u = 2 ^ left /\ h = 0 /\ alu.shift = b /\ alu.rddiv = found * u + q
    <3>1. 2 ^ left \in Nat
      BY PowersOfTwo
    <3>2. u * 1 = 2 ^ left /\ h < 1 /\ alu.shift = b * 1
      BY <2>2, <2>5
    <3>3. h = 0 /\ u = 2 ^ left /\ alu.shift = b
      BY <3>1, <3>2
    <3>. QED  BY <2>5, <3>3
  <2>7. /\ q \in 0 .. 2 ^ left - 1 /\ alu.rddiv = found * 2 ^ left + q
        /\ x = q * b + alu.rdmpy /\ (alu.rdmpy < b \/ q = 2 ^ left - 1)
    BY <2>5, <2>6
  <2>8. IsQuotient(left, b, x, found)
    BY <2>7 DEF IsQuotient
  <2>. QED  BY <2>1, <2>8
<1>4. CASE op[1] = "none"
  BY <1>4
<1>. QED  BY <1>2, <1>3, <1>4 DEF AluHolds

-----------------------------------------------------------------------------
(* The invariant *)

\* Between two accesses without DMA: the pipe is empty, and what is pending or active has
\* channels, unless the program withdrew them.
Resting(m) ==
  /\ ~m.pipe.valid
  /\ DmaEnabled(m) # {} => m.dma.pending
  /\ m.dma.pending => DmaEnabled(m) # {} \/ m.ghost.withdrawn
  /\ m.dma.hdmaPending => HdmaEnabled(m) # {} \/ m.ghost.withdrawn
  /\ m.dma.active => m.dma.pending \/ m.dma.hdmaPending \/ m.ghost.withdrawn

\* In dmaRun(): the channels before the one it is at are done, and no DMA is pending.
Running(m) ==
  /\ PipeValid(m) /\ ~m.dma.pending
  /\ m.dma.at \in Nat /\ \A n \in Channel : n < m.dma.at => ~m.channel[n].dma
  /\ m.dma.stage = "next" => ~m.pipe.valid
  /\ m.dma.stage # "next" => m.dma.at \in Channel
  /\ m.dma.hdmaPending => HdmaEnabled(m) # {}

\* At step s and cycle c the last cycle of the instruction is past.
Past(s, c) == s = "main" \/ c = "resume" \/ (c \in {"last", "wait"} /\ s \in {"dma", "access"})

Cycles == {"vector", "fetch", "middle", "last", "wait", "resume"}

\* An IRQ that is pending comes after an NMI, or was not masked when it was tested and is
\* the next thing that is taken.
IrqHeld(m, s, c) ==
  m.irq.irqPending =>
    \/ m.ghost.preempted
    \/ ~m.ghost.seen /\ ~m.irq.wai /\ m.irq.interruptPending /\ Past(s, c)

\* The ALU is where the operation under way has brought it.
AluOK(m) == AluHolds(m.alu, m.ghost.op)

CpuInv ==
  /\ program \in Programs /\ Shape(Now) /\ Accounted(Now) /\ AluOK(Now)
  /\ step \in {"main", "edge", "access", "dma"} /\ cycle \in Cycles
  /\ IF step = "dma" THEN Running(Now) ELSE Resting(Now)
  /\ IrqHeld(Now, step, cycle)

LEMMA NowFields ==
  /\ Now.clock = clock /\ Now.dma = dma /\ Now.channel = channel /\ Now.pipe = pipe
  /\ Now.irq = irq /\ Now.alu = alu /\ Now.ghost = ghost
BY DEF Now

\* The invariant after a step that leaves m.
LEMMA InvAfter ==
  ASSUME program \in Programs, program' = program, NEW m, Shape(m), Becomes(m), Accounted(m),
         AluOK(m), step' \in {"main", "edge", "access", "dma"}, cycle' \in Cycles,
         IF step' = "dma" THEN Running(m) ELSE Resting(m), IrqHeld(m, step', cycle')
  PROVE  CpuInv'
<1>1. /\ Now'.clock = m.clock /\ Now'.dma = m.dma /\ Now'.channel = m.channel
      /\ Now'.pipe = m.pipe /\ Now'.irq = m.irq /\ Now'.ghost = m.ghost /\ Now'.alu = m.alu
      /\ DOMAIN Now' = Fields
  BY DEF Becomes, Now, Fields
<1>2. Shape(Now)' /\ Accounted(Now)' /\ AluOK(Now)'
  BY <1>1 DEF Shape, Accounted, AluOK
<1>3. (IF step = "dma" THEN Running(Now) ELSE Resting(Now))'
  BY <1>1 DEF Running, Resting, HdmaEnabled, DmaEnabled, PipeValid
<1>4. IrqHeld(Now, step, cycle)'
  BY <1>1 DEF IrqHeld, Past
<1>. QED  BY <1>2, <1>3, <1>4 DEF CpuInv

LEMMA InitInv == Init => CpuInv
<1>. SUFFICES ASSUME Init PROVE CpuInv
  OBVIOUS
<1>1. /\ DOMAIN Now = Fields /\ DOMAIN clock = {"at", "init", "run"} /\ DOMAIN dma = DmaFields
      /\ DOMAIN irq = IrqFields /\ DOMAIN ghost = GhostFields /\ DOMAIN channel = Channel
  BY DEF Init, Now, Fields, DmaFields, IrqFields, GhostFields
<1>2. \A n \in Channel : DOMAIN channel[n] = ChannelFields
  BY DEF Init, ChannelFields
<1>3. clock.at \in Nat /\ dma.clocks \in 0 .. Access - 1 /\ dma.spent \in Nat
  BY CpuAssumption DEF Init
<1>4. Shape(Now)
  BY <1>1, <1>2, <1>3, NowFields DEF Shape
<1>5. Accounted(Now)
  <2>1. ~Now.irq.nmiPending /\ ~Now.irq.nmiTransition /\ ~Now.irq.nmiHold /\ Now.ghost.causes = 0
        /\ ~Now.irq.wai /\ Now.ghost.waited = 0
    BY NowFields DEF Init
  <2>. QED  BY <2>1, FlagValue DEF Accounted
<1>6. Resting(Now) /\ IrqHeld(Now, step, cycle)
  BY NowFields DEF Init, Resting, IrqHeld, DmaEnabled
<1>7. program \in Programs /\ step = "main" /\ cycle \in Cycles
  BY DEF Init, Cycles
<1>8. AluOK(Now)
  <2>1. /\ alu = [mpyctr |-> 0, divctr |-> 0, shift |-> 0, rdmpy |-> 0, rddiv |-> 0]
        /\ ghost.op = << "none" >>
    BY DEF Init
  <2>2. alu \in AluRegisters
    BY <2>1, Widths DEF AluRegisters
  <2>. QED  BY <2>1, <2>2, NowFields DEF AluOK, AluHolds
<1>. QED  BY <1>4, <1>5, <1>6, <1>7, <1>8 DEF CpuInv

-----------------------------------------------------------------------------
(* The actions *)

LEMMA MainInv == CpuInv /\ Main => CpuInv'
<1>. SUFFICES ASSUME CpuInv, Main PROVE CpuInv'
  OBVIOUS
<1> DEFINE m == [Now EXCEPT !.irq = irq', !.ghost = ghost']
<1>0. /\ program \in Programs /\ Shape(Now) /\ Accounted(Now) /\ Resting(Now) /\ AluOK(Now)
      /\ IrqHeld(Now, "main", cycle) /\ step' = "edge" /\ program' = program
      /\ cycle' \in Cycles
  BY DEF CpuInv, Main, Cycles
<1>1. /\ DOMAIN m = Fields /\ m.clock = clock /\ m.dma = dma /\ m.channel = channel
      /\ m.pipe = pipe /\ m.irq = irq' /\ m.ghost = ghost' /\ m.alu = alu
  BY <1>0, NowFields DEF Shape, Fields
<1>2. Becomes(m)
  BY <1>1 DEF Main, Becomes, Now
<1>. HIDE DEF m
<1>3. DOMAIN irq = IrqFields /\ DOMAIN ghost = GhostFields
  BY <1>0, NowFields DEF Shape
<1>4. CASE irq' = irq /\ ghost' = ghost /\ (irq.wai \/ ~irq.interruptPending)
  <2>1. Shape(m) /\ Accounted(m) /\ Resting(m) /\ AluOK(m)
    BY <1>0, <1>1, <1>4, NowFields DEF Shape, Accounted, Resting, AluOK, HdmaEnabled, DmaEnabled
  <2>2. IrqHeld(m, "edge", cycle')
    BY <1>0, <1>1, <1>4, NowFields DEF IrqHeld
  <2>. QED  BY <1>0, <1>2, <2>1, <2>2, InvAfter
<1>5. CASE ~irq.wai /\ irq.interruptPending
  <2>1. /\ DOMAIN irq' = IrqFields /\ DOMAIN ghost' = GhostFields
        /\ irq'.nmiTransition = irq.nmiTransition /\ irq'.nmiHold = irq.nmiHold
        /\ ghost'.withdrawn = ghost.withdrawn /\ ghost'.op = ghost.op
        /\ irq'.wai = irq.wai /\ ghost'.waited = ghost.waited
    BY <1>3, <1>5 DEF Main, IrqFields, GhostFields
  <2>2. IF irq.nmiPending
          THEN ~irq'.nmiPending /\ ghost'.causes = ghost.causes - 1
               /\ ghost'.preempted = irq.irqPending
               /\ irq'.irqPending = irq.irqPending
          ELSE irq'.nmiPending = irq.nmiPending /\ ghost'.causes = ghost.causes /\ ~irq'.irqPending
    BY <1>3, <1>5 DEF Main, IrqFields, GhostFields
  <2>3. Shape(m)
    BY <1>0, <1>1, <2>1, NowFields DEF Shape
  <2>4. Accounted(m)
    BY <1>0, <1>1, <2>1, <2>2, NowFields, FlagValue DEF Accounted
  <2>5. Resting(m)
    BY <1>0, <1>1, <2>1, NowFields DEF Resting, HdmaEnabled, DmaEnabled
  <2>6. IrqHeld(m, "edge", cycle')
    BY <1>1, <2>2 DEF IrqHeld
  <2>7. AluOK(m)
    BY <1>0, <1>1, <2>1, NowFields DEF AluOK
  <2>. QED  BY <1>0, <1>2, <2>3, <2>4, <2>5, <2>6, <2>7, InvAfter
<1>. QED  BY <1>4, <1>5 DEF Main

\* What lastCycle() makes of the transitions.
LEMMA LastCycleFields ==
  ASSUME NEW i, DOMAIN i = IrqFields
  PROVE  LET j == LastCycle(i) IN
         /\ DOMAIN j = IrqFields /\ (i.lock => j = i) /\ j.nmiHold = i.nmiHold
         /\ j.wai => i.wai
         /\ ~i.lock =>
              /\ j.nmiPending <=> i.nmiPending \/ i.nmiTransition
              /\ j.irqPending <=> i.irqPending \/ (i.irqTransition /\ ~i.masked)
              /\ j.interruptPending <=> j.nmiPending \/ j.irqPending
              /\ ~j.nmiTransition
              /\ j.wai => ~i.nmiTransition /\ ~i.irqTransition
<1> DEFINE j == LastCycle(i)
<1>1. CASE i.lock
  BY <1>1 DEF LastCycle
<1>2. CASE ~i.lock
  <2> DEFINE n == i.nmiPending \/ i.nmiTransition
             q == i.irqPending \/ IrqTest(i)
             o == n \/ q
             w == i.wai /\ ~i.nmiTransition /\ ~i.irqTransition
             none == FALSE
  <2>1. j = [i EXCEPT !.nmiPending = n, !.irqPending = q, !.interruptPending = o, !.wai = w,
                      !.nmiTransition = none, !.irqTransition = none]
    BY <1>2 DEF LastCycle
  <2>. HIDE DEF n, q, o, w, none, j
  <2>2. /\ DOMAIN j = IrqFields /\ j.nmiPending = n /\ j.irqPending = q
        /\ j.interruptPending = o /\ j.wai = w /\ j.nmiTransition = none
        /\ j.nmiHold = i.nmiHold
    BY <2>1 DEF IrqFields
  <2>3. q <=> i.irqPending \/ (i.irqTransition /\ ~i.masked)
    BY DEF q, IrqTest
  <2>4. (n <=> i.nmiPending \/ i.nmiTransition) /\ (o <=> n \/ q) /\ ~none
        /\ (w => i.wai /\ ~i.nmiTransition /\ ~i.irqTransition)
    BY DEF n, o, w, none
  <2>. QED  BY <1>2, <2>2, <2>3, <2>4 DEF j
<1>. QED  BY <1>1, <1>2

\* The cycle in which an Edge comes.
EdgeStart ==
  LET tested == cycle \in {"last", "wait"} IN
  [Now EXCEPT !.irq = IF tested THEN LastCycle(@) ELSE @,
              !.ghost.seen = IF tested THEN irq.masked ELSE @]

LEMMA EdgeStartFacts ==
  ASSUME CpuInv, step = "edge"
  PROVE  LET t == EdgeStart IN
         /\ Shape(t) /\ Accounted(t) /\ Resting(t) /\ AluOK(t)
         /\ t.dma = dma /\ t.channel = channel
         /\ \A s \in {"access", "dma"} : IrqHeld(t, s, cycle)
         /\ irq.irqPending => t.irq.irqPending
<1> DEFINE t == EdgeStart
           tested == cycle \in {"last", "wait"}
           i == IF tested THEN LastCycle(irq) ELSE irq
           seen == IF tested THEN irq.masked ELSE ghost.seen
           g == [ghost EXCEPT !.seen = seen]
<1>0. Shape(Now) /\ Accounted(Now) /\ Resting(Now) /\ AluOK(Now) /\ IrqHeld(Now, "edge", cycle)
  BY DEF CpuInv
<1>1. DOMAIN irq = IrqFields /\ DOMAIN ghost = GhostFields
  BY <1>0, NowFields DEF Shape
<1>2. /\ DOMAIN g = GhostFields /\ g.seen = seen
      /\ \A x \in GhostFields \ {"seen"} : g[x] = ghost[x]
  <2>. HIDE DEF seen
  <2>. QED  BY <1>1 DEF GhostFields
<1>3. t = [Now EXCEPT !.irq = i, !.ghost = g]
  BY NowFields DEF EdgeStart, Now
<1>. HIDE DEF i, g, t
<1>4. /\ DOMAIN t = Fields /\ t.clock = clock /\ t.dma = dma /\ t.channel = channel
      /\ t.pipe = pipe /\ t.irq = i /\ t.ghost = g /\ t.alu = alu
  BY <1>0, <1>3, NowFields DEF Shape, Fields
<1>5. /\ DOMAIN i = IrqFields /\ i.nmiHold = irq.nmiHold
  BY <1>1, LastCycleFields DEF i
<1>6. Shape(t)
  BY <1>0, <1>2, <1>4, <1>5, NowFields DEF Shape
<1>7. Accounted(t)
  <2>1. g.causes = ghost.causes /\ g.waited = ghost.waited /\ (i.wai => irq.wai)
    BY <1>1, <1>2, LastCycleFields DEF GhostFields, i
  <2>2. CASE i = irq
    BY <1>0, <1>4, <2>1, <2>2, NowFields DEF Accounted
  <2>3. CASE tested /\ ~irq.lock
    <3>1. (i.nmiPending <=> irq.nmiPending \/ irq.nmiTransition) /\ ~i.nmiTransition
      BY <1>1, <2>3, LastCycleFields DEF i
    <3>. QED  BY <1>0, <1>4, <1>5, <2>1, <3>1, NowFields, FlagValue DEF Accounted
  <2>4. ~tested \/ irq.lock => i = irq
    BY <1>1, LastCycleFields DEF i
  <2>. QED  BY <2>2, <2>3, <2>4
<1>8. Resting(t)
  <2>1. g.withdrawn = ghost.withdrawn
    BY <1>2 DEF GhostFields
  <2>. QED  BY <1>0, <1>4, <2>1, NowFields DEF Resting, DmaEnabled, HdmaEnabled
<1>9. ASSUME NEW s \in {"access", "dma"} PROVE IrqHeld(t, s, cycle)
  <2>1. g.preempted = ghost.preempted
    BY <1>2 DEF GhostFields
  <2>2. CASE ~tested
    <3>1. i = irq /\ g.seen = ghost.seen
      BY <1>2, <2>2 DEF i, seen
    <3>. QED  BY <1>0, <1>4, <2>1, <2>2, <3>1, NowFields DEF IrqHeld, Past
  <2>3. CASE tested
    <3>1. irq.irqPending => ghost.preempted
      BY <1>0, <2>3, NowFields DEF IrqHeld, Past
    <3>2. CASE irq.lock
      <4>1. i = irq
        BY <1>1, <3>2, LastCycleFields DEF i
      <4>. QED  BY <1>4, <2>1, <3>1, <4>1 DEF IrqHeld
    <3>3. CASE ~irq.lock
      <4>1. /\ i.irqPending <=> irq.irqPending \/ (irq.irqTransition /\ ~irq.masked)
            /\ i.interruptPending <=> i.nmiPending \/ i.irqPending
            /\ i.wai => ~irq.irqTransition
        BY <1>1, <2>3, <3>3, LastCycleFields DEF i
      <4>2. g.seen = irq.masked
        BY <1>2, <2>3 DEF seen
      <4>3. Past(s, cycle)
        BY <2>3 DEF Past
      <4>. QED  BY <1>4, <2>1, <3>1, <4>1, <4>2, <4>3 DEF IrqHeld
    <3>. QED  BY <3>2, <3>3
  <2>. QED  BY <2>2, <2>3
<1>10. irq.irqPending => i.irqPending
  BY <1>1, LastCycleFields DEF i
<1>11. AluOK(t)
  <2>1. g.op = ghost.op
    BY <1>2 DEF GhostFields
  <2>. QED  BY <1>0, <1>4, <2>1, NowFields DEF AluOK
<1>. QED  BY <1>4, <1>6, <1>7, <1>8, <1>9, <1>10, <1>11 DEF t

LEMMA FollowsHeld ==
  ASSUME NEW m, NEW r, Follows(m, r)
  PROVE  /\ Accounted(m) => Accounted(r)
         /\ AluOK(m) => AluOK(r)
         /\ \A s, c : IrqHeld(m, s, c) => IrqHeld(r, s, c)
         /\ m.irq.irqPending => r.irq.irqPending
BY DEF Follows, Interrupts, IrqHeld, AluOK

LEMMA NestedEdgeFollows ==
  ASSUME program \in Programs, NEW m, Shape(m), PipeValid(m),
         m.dma.hdmaPending => HdmaEnabled(m) # {}
  PROVE  LET r == NestedEdge(m) IN
         Follows(m, r) /\ (r.dma.hdmaPending => HdmaEnabled(r) # {})
<1> DEFINE h == HdmaPart(m)
           r == Triggers(h)
<1>1. Follows(m, h) /\ (h.dma.hdmaPending => HdmaEnabled(m) # {})
  BY HdmaPartFollows
<1>. HIDE DEF h
<1>2. Follows(h, r) /\ (r.dma.hdmaPending => h.dma.hdmaPending \/ HdmaEnabled(h) # {})
  BY <1>1, TriggersFollow DEF Follows
<1>. HIDE DEF r
<1>3. Follows(m, r) /\ HdmaEnabled(h) = HdmaEnabled(m) /\ HdmaEnabled(r) = HdmaEnabled(m)
  BY <1>1, <1>2, FollowsTransitive, EnabledKept DEF Follows
<1>. QED  BY <1>1, <1>2, <1>3 DEF NestedEdge, r, h

LEMMA RunningFollows ==
  ASSUME NEW m, NEW r, Follows(m, r), Running(m), r.dma.hdmaPending => HdmaEnabled(r) # {}
  PROVE  Running(r)
BY DEF Follows, FlagsKept, Running

\* Where a DMA is.
At(m, k, stage) == [m EXCEPT !.dma.at = k, !.dma.stage = stage]

LEMMA SetAt ==
  ASSUME NEW m, Shape(m), NEW k, NEW stage
  PROVE  LET r == At(m, k, stage) IN
         /\ Shape(r) /\ r.channel = m.channel /\ r.pipe = m.pipe
         /\ r.dma.at = k /\ r.dma.stage = stage
         /\ r.dma.pending = m.dma.pending /\ r.dma.hdmaPending = m.dma.hdmaPending
         /\ r.irq = m.irq /\ r.alu = m.alu /\ r.ghost = m.ghost
<1> DEFINE d == [m.dma EXCEPT !.at = k, !.stage = stage]
           r == [m EXCEPT !.dma = d]
<1>1. At(m, k, stage) = r
  BY DEF Shape, Fields, DmaFields, At
<1>2. /\ DOMAIN d = DmaFields /\ d.at = k /\ d.stage = stage
      /\ \A x \in DmaFields \ {"at", "stage"} : d[x] = m.dma[x]
  BY DEF Shape, DmaFields
<1>. HIDE DEF d
<1>3. d.clocks \in 0 .. Access - 1 /\ d.spent \in Nat
  BY <1>2 DEF Shape, DmaFields
<1>4. /\ Shape(r) /\ r.dma = d /\ r.channel = m.channel /\ r.pipe = m.pipe
      /\ r.irq = m.irq /\ r.alu = m.alu /\ r.ghost = m.ghost
  BY <1>2, <1>3, SetDma
<1>. HIDE DEF r
<1>. QED  BY <1>1, <1>2, <1>4 DEF DmaFields

LEMMA ClearPending ==
  ASSUME NEW m, Shape(m)
  PROVE  LET r == [m EXCEPT !.dma.pending = FALSE] IN
         /\ Shape(r) /\ r.channel = m.channel /\ r.pipe = m.pipe
         /\ ~r.dma.pending /\ r.dma.active = m.dma.active
         /\ r.dma.hdmaPending = m.dma.hdmaPending /\ r.irq = m.irq /\ r.alu = m.alu
         /\ r.ghost = m.ghost
<1> DEFINE d == [m.dma EXCEPT !.pending = FALSE]
           r == [m EXCEPT !.dma = d]
<1>1. /\ DOMAIN d = DmaFields /\ d.pending = FALSE
      /\ \A x \in DmaFields \ {"pending"} : d[x] = m.dma[x]
  BY DEF Shape, DmaFields
<1>. HIDE DEF d
<1>2. d.clocks \in 0 .. Access - 1 /\ d.spent \in Nat
  BY <1>1 DEF Shape, DmaFields
<1>3. /\ Shape(r) /\ r.dma = d /\ r.channel = m.channel /\ r.pipe = m.pipe
      /\ r.irq = m.irq /\ r.alu = m.alu /\ r.ghost = m.ghost
  BY <1>1, <1>2, SetDma
<1>. HIDE DEF r
<1>4. /\ ~r.dma.pending /\ r.dma.active = m.dma.active
      /\ r.dma.hdmaPending = m.dma.hdmaPending
  BY <1>1, <1>3 DEF DmaFields
<1>. QED  BY <1>3, <1>4 DEF r, d

LEMMA EdgeInv ==
  ASSUME CpuInv, Edge
  PROVE  CpuInv' /\ (irq.irqPending => irq'.irqPending)
<1> DEFINE t == EdgeStart
           h == HdmaPart(t)
           p == [h EXCEPT !.dma.pending = FALSE]
           q == At(Align(p), 0, "next")
           s == DmaStep(q, 2)
           f == DmaFlush(s)
           n == NestedEdge(f)
           x == IF dma.active THEN p ELSE h
           m == Triggers(x)
           runs == dma.active /\ h.dma.pending /\ DmaEnabled(h) # {}
<1>1. /\ step = "edge" /\ program' = program /\ cycle' = cycle
      /\ IF runs THEN step' = "dma" /\ Becomes(n) ELSE step' = "access" /\ Becomes(m)
  BY DEF Edge, EdgeStart, At
<1>2. /\ Shape(t) /\ Accounted(t) /\ Resting(t) /\ AluOK(t) /\ t.dma = dma /\ t.channel = channel
      /\ IrqHeld(t, "access", cycle) /\ IrqHeld(t, "dma", cycle)
      /\ irq.irqPending => t.irq.irqPending
  BY <1>1, EdgeStartFacts
<1>3. program \in Programs /\ cycle' \in Cycles
  BY <1>1 DEF CpuInv
<1>. HIDE DEF t
<1>4. /\ Follows(t, h)
      /\ ~dma.active \/ ~dma.hdmaPending => h = t
      /\ dma.active /\ dma.hdmaPending =>
           /\ ~h.dma.hdmaPending
           /\ HdmaEnabled(t) = {} => /\ DmaEnabled(h) = DmaEnabled(t)
                                     /\ h.ghost.withdrawn = t.ghost.withdrawn
           /\ HdmaEnabled(t) # {} /\ DmaEnabled(h) = {} => ~h.dma.active
  BY <1>2, <1>3, HdmaPartFollows DEF Resting, PipeValid
<1>. HIDE DEF h
<1>5. /\ Shape(h) /\ ~h.pipe.valid /\ h.dma.pending = dma.pending
      /\ Accounted(h) /\ AluOK(h) /\ IrqHeld(h, "access", cycle) /\ IrqHeld(h, "dma", cycle)
      /\ irq.irqPending => h.irq.irqPending
  BY <1>2, <1>4, FollowsHeld DEF Follows, Resting
<1>6. /\ HdmaEnabled(h) = HdmaEnabled(t) /\ DmaEnabled(h) \subseteq DmaEnabled(t)
  BY <1>4, EnabledKept DEF Follows
<1>7. /\ Shape(p) /\ p.channel = h.channel /\ p.pipe = h.pipe /\ ~p.dma.pending
      /\ p.dma.active = h.dma.active /\ p.dma.hdmaPending = h.dma.hdmaPending
      /\ p.irq = h.irq /\ p.alu = h.alu /\ p.ghost = h.ghost
  BY <1>5, ClearPending
<1>8. Accounted(p) /\ AluOK(p) /\ IrqHeld(p, "access", cycle) /\ IrqHeld(p, "dma", cycle)
  BY <1>5, <1>7 DEF Accounted, AluOK, IrqHeld
<1>9. DmaEnabled(p) = DmaEnabled(h) /\ HdmaEnabled(p) = HdmaEnabled(h)
  BY <1>7 DEF DmaEnabled, HdmaEnabled
<1>. HIDE DEF p
<1>10. CASE runs
  <2>1. ~h.dma.hdmaPending
    BY <1>2, <1>4, <1>10
  <2>2. Later(p, Align(p))
    BY <1>7, AlignLater
  <2>3. /\ Shape(q) /\ q.channel = p.channel /\ q.pipe = p.pipe
        /\ q.dma.at = 0 /\ q.dma.stage = "next" /\ ~q.dma.pending /\ ~q.dma.hdmaPending
        /\ q.irq = Align(p).irq /\ q.alu = Align(p).alu /\ q.ghost = Align(p).ghost
    <3>1. Align(p).dma.pending = p.dma.pending /\ Align(p).dma.hdmaPending = p.dma.hdmaPending
      BY <2>2 DEF Later, Same, Transfers
    <3>. QED  BY <2>1, <2>2, <1>7, <3>1, SetAt DEF Later, Same
  <2>. HIDE DEF q
  <2>4. Accounted(q) /\ AluOK(q) /\ IrqHeld(q, "dma", cycle) /\ (irq.irqPending => q.irq.irqPending)
    <3>1. Accounted(Align(p)) /\ AluOK(Align(p)) /\ IrqHeld(Align(p), "dma", cycle)
      BY <1>8, <2>2, LaterFollows, FollowsHeld
    <3>2. irq.irqPending => Align(p).irq.irqPending
      BY <1>5, <1>7, <2>2, LaterFollows, FollowsHeld
    <3>. QED  BY <2>3, <3>1, <3>2 DEF Accounted, AluOK, IrqHeld
  <2>5. Running(q)
    <3>1. \A k \in Channel : ~(k < 0)
      BY DEF Channel
    <3>. QED  BY <2>3, <3>1, <1>5, <1>7 DEF Running, PipeValid
  <2>6. Later(q, s)
    BY <2>3, DmaStepLater
  <2>. HIDE DEF s
  <2>7. Shape(s) /\ PipeValid(s) /\ Follows(q, s)
    BY <2>5, <2>6, LaterFollows DEF Later, Same, Running, PipeValid
  <2>8. Follows(s, f)
    <3>1. Same(s, f) /\ f.channel = s.channel /\ ~f.pipe.valid
      BY <2>7, DmaFlushSame
    <3>. HIDE DEF f
    <3>. QED  BY <3>1, SameFollows DEF FlagsKept, PipeValid
  <2>9. ~f.dma.hdmaPending
    <3>1. Same(s, f)
      BY <2>7, DmaFlushSame
    <3>. HIDE DEF f
    <3>. QED  BY <3>1, <2>3, <2>6 DEF Later, Same, Transfers
  <2>. HIDE DEF f
  <2>10. Shape(f) /\ PipeValid(f)
    BY <2>7, <2>8 DEF Follows
  <2>11. Follows(f, n) /\ (n.dma.hdmaPending => HdmaEnabled(n) # {})
    BY <2>9, <2>10, <1>3, NestedEdgeFollows
  <2>. HIDE DEF n
  <2>12. Follows(q, n)
    BY <2>7, <2>8, <2>11, FollowsTransitive
  <2>13. Running(n) /\ Accounted(n) /\ AluOK(n) /\ IrqHeld(n, "dma", cycle) /\ Shape(n)
    BY <2>4, <2>5, <2>11, <2>12, RunningFollows, FollowsHeld DEF Follows
  <2>14. step' = "dma" /\ Becomes(n)
    BY <1>1, <1>10
  <2>15. CpuInv'
    <3>1. step' = "dma" /\ cycle' = cycle /\ program' = program
      BY <1>1, <2>14
    <3>. QED  BY <1>3, <2>13, <2>14, <3>1, InvAfter
  <2>16. irq.irqPending => n.irq.irqPending
    BY <2>4, <2>12, FollowsHeld
  <2>. QED  BY <2>14, <2>15, <2>16 DEF Becomes
<1>11. CASE ~runs
  <2>1. /\ Shape(x) /\ Accounted(x) /\ AluOK(x) /\ IrqHeld(x, "access", cycle) /\ ~x.pipe.valid
        /\ x.channel = h.channel /\ x.dma.hdmaPending = h.dma.hdmaPending
        /\ x.dma.active = h.dma.active /\ x.ghost.withdrawn = h.ghost.withdrawn
        /\ irq.irqPending => x.irq.irqPending
    BY <1>5, <1>7, <1>8
  <2>2. /\ dma.active => ~x.dma.pending
        /\ ~dma.active => x.dma.pending = dma.pending
    BY <1>5, <1>7
  <2>. HIDE DEF x
  <2>3. DmaEnabled(x) = DmaEnabled(h) /\ HdmaEnabled(x) = HdmaEnabled(h)
    BY <2>1 DEF DmaEnabled, HdmaEnabled
  <2>4. Resting(x)
    <3>1. CASE ~dma.active
      BY <1>2, <1>4, <2>1, <2>2, <2>3, <3>1 DEF Resting
    <3>2. CASE dma.active
      <4>1. DmaEnabled(x) = {}
        BY <1>2, <1>5, <1>6, <1>11, <2>3, <3>2 DEF Resting
      <4>2. ~x.dma.hdmaPending
        BY <1>2, <1>4, <2>1, <3>2
      <4>3. x.dma.active => x.ghost.withdrawn
        <5>1. dma.pending => DmaEnabled(t) # {} \/ t.ghost.withdrawn
          BY <1>2 DEF Resting
        <5>2. CASE ~dma.hdmaPending
          <6>1. DmaEnabled(t) = {}
            BY <1>2, <1>4, <2>3, <4>1, <5>2
          <6>. QED  BY <1>2, <1>4, <2>1, <3>2, <5>1, <5>2, <6>1 DEF Resting
        <5>3. CASE dma.hdmaPending /\ HdmaEnabled(t) = {}
          BY <1>2, <1>4, <2>1, <3>2, <5>3 DEF Resting
        <5>4. CASE dma.hdmaPending /\ HdmaEnabled(t) # {}
          BY <1>4, <2>1, <2>3, <3>2, <4>1, <5>4
        <5>. QED  BY <5>2, <5>3, <5>4
      <4>. QED  BY <2>1, <2>2, <3>2, <4>1, <4>2, <4>3 DEF Resting
    <3>. QED  BY <3>1, <3>2
  <2>5. /\ Follows(x, m) /\ FlagsKept(m, x) /\ m.pipe = x.pipe
        /\ m.ghost.withdrawn = x.ghost.withdrawn
        /\ m.dma.hdmaPending => x.dma.hdmaPending \/ HdmaEnabled(x) # {}
        /\ m.dma.active => x.dma.active \/ m.dma.pending \/ m.dma.hdmaPending
    BY <2>1, TriggersFollow
  <2>. HIDE DEF m
  <2>6. Resting(m)
    <3>1. /\ DmaEnabled(m) = DmaEnabled(x) /\ HdmaEnabled(m) = HdmaEnabled(x)
          /\ m.dma.pending = x.dma.pending
      BY <2>5, EnabledKept DEF Follows
    <3>2. m.dma.active => m.dma.pending \/ m.dma.hdmaPending \/ m.ghost.withdrawn
      <4>1. CASE dma.active
        <5>1. ~x.dma.hdmaPending
          BY <1>2, <1>4, <2>1, <4>1
        <5>. QED  BY <2>4, <2>5, <3>1, <5>1 DEF Resting
      <4>2. CASE ~dma.active
        <5>1. ~x.dma.active
          BY <1>2, <1>4, <2>1, <4>2
        <5>. QED  BY <2>5, <5>1
      <4>. QED  BY <4>1, <4>2
    <3>. QED  BY <2>4, <2>5, <3>1, <3>2 DEF Resting
  <2>7. /\ Accounted(m) /\ AluOK(m) /\ IrqHeld(m, "access", cycle) /\ Shape(m)
        /\ irq.irqPending => m.irq.irqPending
    BY <2>1, <2>5, FollowsHeld DEF Follows
  <2>8. step' = "access" /\ Becomes(m)
    BY <1>1, <1>11
  <2>9. CpuInv'
    BY <1>1, <1>3, <2>6, <2>7, <2>8, InvAfter
  <2>. QED  BY <2>7, <2>8, <2>9 DEF Becomes
<1>. QED  BY <1>10, <1>11

\* The other fields a step of dmaRun() sets leave the interrupts as they are.
LEMMA SetAtHeld ==
  ASSUME NEW m, NEW r, r.irq = m.irq, r.alu = m.alu, r.ghost = m.ghost, Accounted(m), AluOK(m),
         NEW s, NEW c, IrqHeld(m, s, c)
  PROVE  Accounted(r) /\ AluOK(r) /\ IrqHeld(r, s, c)
BY DEF Accounted, AluOK, IrqHeld

LEMMA DmaAddressFields ==
  ASSUME NEW c, DOMAIN c = ChannelFields, NEW n
  PROVE  LET d == DmaAddress(c, n) IN
         DOMAIN d = ChannelFields /\ d.dma = c.dma /\ d.hdma = c.hdma
BY DEF DmaAddress, ChannelFields

LEMMA NowFollows ==
  ASSUME CpuInv, step = "dma"
  PROVE  /\ program \in Programs /\ Shape(Now) /\ Running(Now) /\ Accounted(Now) /\ AluOK(Now)
         /\ IrqHeld(Now, "dma", cycle) /\ PipeValid(Now) /\ cycle \in Cycles
BY DEF CpuInv, Running

LEMMA DmaByteInv ==
  ASSUME CpuInv, NEW n \in Channel, DmaByte(n)
  PROVE  CpuInv' /\ (irq.irqPending => irq'.irqPending)
<1> DEFINE c == DmaAddress(channel[n], n)
           a == [Now EXCEPT !.channel[n] = c]
           s == DmaStep(a, 2)
           moved == DmaTransfer(s, n)
           m == NestedEdge(moved)
           left == (m.channel[n].size + SizeWidth - 1) % SizeWidth
           stage == IF left = 0 THEN "close" ELSE "bytes"
           e == [m.channel[n] EXCEPT !.size = left]
           k == [m EXCEPT !.channel[n] = e]
           Final(r) ==
             /\ Shape(r) /\ r.pipe = m.pipe /\ FlagsKept(m, r) /\ FlagsKept(r, m)
             /\ r.dma.at = n /\ r.dma.stage # "next" /\ r.dma.pending = m.dma.pending
             /\ r.dma.hdmaPending = m.dma.hdmaPending
             /\ r.irq = m.irq /\ r.alu = m.alu /\ r.ghost = m.ghost
<1>0. /\ program \in Programs /\ Shape(Now) /\ Running(Now) /\ Accounted(Now) /\ AluOK(Now)
      /\ IrqHeld(Now, "dma", cycle) /\ PipeValid(Now) /\ cycle \in Cycles
  BY NowFollows DEF DmaByte
<1>1. /\ step' = "dma" /\ cycle' = cycle /\ program' = program
      /\ IF m.channel[n].dma
            THEN Becomes([m EXCEPT !.channel[n].size = left, !.dma.at = n,
                                   !.dma.stage = IF left = 0 THEN "close" ELSE "bytes"])
            ELSE Becomes([m EXCEPT !.dma.at = n, !.dma.stage = "close"])
  BY NowFields DEF DmaByte
<1>2. DOMAIN c = ChannelFields /\ c.dma = channel[n].dma /\ c.hdma = channel[n].hdma
  BY <1>0, NowFields, DmaAddressFields DEF Shape
<1>. HIDE DEF c
<1>3. Follows(Now, a) /\ Shape(a) /\ PipeValid(a) /\ a.dma = dma
  <2>1. /\ Same(Now, a) /\ a.pipe = pipe /\ a.channel[n] = c /\ a.dma = dma
        /\ \A l \in Channel \ {n} : a.channel[l] = channel[l]
    BY <1>0, <1>2, NowFields, SetChannel
  <2>. HIDE DEF a
  <2>2. FlagsKept(Now, a)
    BY <1>2, <2>1, NowFields DEF FlagsKept
  <2>. QED  BY <1>0, <2>1, <2>2, NowFields, SameFollows DEF Same, PipeValid
<1>. HIDE DEF a
<1>4. Later(a, s)
  BY <1>3, DmaStepLater
<1>. HIDE DEF s
<1>5. Follows(a, s) /\ Shape(s) /\ PipeValid(s) /\ s.dma.hdmaPending = dma.hdmaPending
  BY <1>3, <1>4, LaterFollows DEF Follows
<1>6. Same(s, moved) /\ moved.channel = s.channel /\ PipeValid(moved)
  BY <1>5, DmaTransferSame
<1>. HIDE DEF moved
<1>7. /\ Shape(moved) /\ moved.dma.hdmaPending = dma.hdmaPending
      /\ HdmaEnabled(moved) = HdmaEnabled(Now)
  <2>1. HdmaEnabled(moved) = HdmaEnabled(s) /\ HdmaEnabled(s) = HdmaEnabled(a)
        /\ HdmaEnabled(a) = HdmaEnabled(Now)
    BY <1>3, <1>5, <1>6, EnabledKept DEF Follows, HdmaEnabled
  <2>. QED  BY <1>5, <1>6, <2>1 DEF Same, Transfers
<1>8. Follows(moved, m) /\ (m.dma.hdmaPending => HdmaEnabled(m) # {})
  BY <1>0, <1>6, <1>7, NowFields, NestedEdgeFollows DEF Running
<1>. HIDE DEF m
<1>9. /\ Shape(m) /\ FlagsKept(Now, m) /\ PipeValid(m) /\ ~m.dma.pending /\ Accounted(m) /\ AluOK(m)
      /\ IrqHeld(m, "dma", cycle) /\ (irq.irqPending => m.irq.irqPending)
  <2>1. /\ Interrupts(moved) = Interrupts(Now) /\ FlagsKept(Now, moved) /\ Accounted(moved)
        /\ ~moved.dma.pending
    <3>1. Follows(Now, s)
      BY <1>3, <1>5, FollowsTransitive
    <3>2. /\ Interrupts(moved) = Interrupts(s) /\ FlagsKept(s, moved)
          /\ moved.dma.pending = s.dma.pending /\ (Accounted(s) => Accounted(moved))
      BY <1>6 DEF Same, Tested, Interrupts, Transfers, FlagsKept
    <3>. QED  BY <1>0, <3>1, <3>2, FlagsKeptTransitive DEF Follows, Running
  <2>2. IrqHeld(moved, "dma", cycle) /\ AluOK(moved) /\ (irq.irqPending => moved.irq.irqPending)
    BY <1>0, <2>1, NowFields DEF Interrupts, IrqHeld, AluOK
  <2>. QED  BY <1>6, <1>8, <2>1, <2>2, FollowsHeld, FlagsKeptTransitive DEF Follows
<1>10. DOMAIN e = ChannelFields /\ e.dma = m.channel[n].dma /\ e.hdma = m.channel[n].hdma
  <2>. HIDE DEF left
  <2>. QED  BY <1>9 DEF Shape, ChannelFields
<1>11. PICK r : Becomes(r) /\ Final(r)
  <2>1. CASE m.channel[n].dma
    <3>1. At(k, n, stage) = [m EXCEPT !.channel[n].size = left, !.dma.at = n, !.dma.stage = stage]
      <4>. HIDE DEF left, stage
      <4>. QED  BY <1>9 DEF At, Shape, Fields, ChannelFields
    <3>2. Becomes(At(k, n, stage))
      BY <1>1, <2>1, <3>1
    <3>. HIDE DEF e
    <3>3. /\ Same(m, k) /\ k.pipe = m.pipe /\ k.dma = m.dma
          /\ k.channel[n] = e /\ \A l \in Channel \ {n} : k.channel[l] = m.channel[l]
      BY <1>9, <1>10, SetChannel
    <3>4. k.irq = m.irq /\ k.alu = m.alu /\ k.ghost = m.ghost
      BY <1>9 DEF Shape, Fields
    <3>5. FlagsKept(m, k) /\ FlagsKept(k, m)
      BY <1>10, <3>3 DEF FlagsKept
    <3>. HIDE DEF k
    <3>6. stage # "next"
      OBVIOUS
    <3>. HIDE DEF stage
    <3> DEFINE r == At(k, n, stage)
    <3>7. /\ Shape(r) /\ r.channel = k.channel /\ r.pipe = k.pipe
          /\ r.dma.at = n /\ r.dma.stage = stage
          /\ r.dma.pending = k.dma.pending /\ r.dma.hdmaPending = k.dma.hdmaPending
          /\ r.irq = k.irq /\ r.alu = k.alu /\ r.ghost = k.ghost
      BY <3>3, SetAt DEF Same
    <3>. HIDE DEF r
    <3>8. Final(r)
      BY <3>3, <3>4, <3>5, <3>6, <3>7 DEF FlagsKept
    <3>9. Becomes(r)
      BY <3>2 DEF r
    <3>. QED  BY <3>8, <3>9
  <2>2. CASE ~m.channel[n].dma
    <3> DEFINE r == At(m, n, "close")
    <3>1. Becomes(r)
      BY <1>1, <2>2 DEF At
    <3>2. /\ Shape(r) /\ r.channel = m.channel /\ r.pipe = m.pipe
          /\ r.dma.at = n /\ r.dma.stage = "close"
          /\ r.dma.pending = m.dma.pending /\ r.dma.hdmaPending = m.dma.hdmaPending
          /\ r.irq = m.irq /\ r.alu = m.alu /\ r.ghost = m.ghost
      BY <1>9, SetAt
    <3>. HIDE DEF r
    <3>3. Final(r)
      BY <3>2 DEF FlagsKept
    <3>. QED  BY <3>1, <3>3
  <2>. QED  BY <2>1, <2>2
<1>12. Running(r)
  <2>1. FlagsKept(Now, r) /\ HdmaEnabled(r) = HdmaEnabled(m)
    BY <1>9, <1>11, FlagsKeptTransitive, EnabledKept
  <2>2. ASSUME NEW l \in Channel, l < n PROVE ~channel[l].dma
    <3>1. l \in Nat /\ n \in Nat /\ dma.at \in Nat
      BY <1>0, NowFields DEF Running, Channel
    <3>2. CASE l < dma.at
      BY <1>0, <3>2, NowFields DEF Running
    <3>3. CASE l \in dma.at .. n - 1
      BY <2>2, <3>1, <3>3 DEF DmaByte
    <3>. QED  BY <2>2, <3>1, <3>2, <3>3
  <2>3. \A l \in Channel : l < n => ~r.channel[l].dma
    BY <2>1, <2>2, NowFields DEF FlagsKept
  <2>4. n \in Nat
    BY DEF Channel
  <2>. QED  BY <1>8, <1>9, <1>11, <2>1, <2>3, <2>4 DEF Running, PipeValid
<1>13. Accounted(r) /\ AluOK(r) /\ IrqHeld(r, "dma", cycle) /\ (irq.irqPending => r.irq.irqPending)
  BY <1>9, <1>11, SetAtHeld
<1>14. CpuInv'
  BY <1>0, <1>1, <1>11, <1>12, <1>13, InvAfter
<1>. QED  BY <1>11, <1>13, <1>14 DEF Becomes

LEMMA DmaCloseInv ==
  ASSUME CpuInv, DmaClose
  PROVE  CpuInv' /\ (irq.irqPending => irq'.irqPending)
<1> DEFINE n == dma.at
           s == DmaStep(Now, 2)
           f == DmaFlush(s)
           m == NestedEdge(f)
           e == [m.channel[n] EXCEPT !.dma = FALSE]
           k == [m EXCEPT !.channel[n] = e]
           r == At(k, n + 1, "next")
<1>0. /\ program \in Programs /\ Shape(Now) /\ Running(Now) /\ Accounted(Now) /\ AluOK(Now)
      /\ IrqHeld(Now, "dma", cycle) /\ PipeValid(Now) /\ cycle \in Cycles /\ n \in Channel
  <2>1. step = "dma" /\ dma.stage = "close"
    BY DEF DmaClose
  <2>. QED  BY <2>1, NowFollows, NowFields DEF Running
<1>1. /\ step' = "dma" /\ cycle' = cycle /\ program' = program
      /\ Becomes([m EXCEPT !.channel[n].dma = FALSE, !.dma.at = @ + 1, !.dma.stage = "next"])
  BY DEF DmaClose
<1>2. Later(Now, s)
  BY <1>0, DmaStepLater
<1>. HIDE DEF s
<1>3. Follows(Now, s) /\ Shape(s) /\ PipeValid(s) /\ s.dma.hdmaPending = dma.hdmaPending
  BY <1>0, <1>2, LaterFollows, NowFields DEF Follows
<1>4. Same(s, f) /\ f.channel = s.channel /\ ~f.pipe.valid
  BY <1>3, DmaFlushSame
<1>. HIDE DEF f
<1>5. Follows(Now, f) /\ Shape(f) /\ PipeValid(f)
  <2>1. Follows(s, f)
    BY <1>4, SameFollows DEF FlagsKept, PipeValid
  <2>. QED  BY <1>3, <2>1, FollowsTransitive DEF Follows
<1>6. f.dma.hdmaPending => HdmaEnabled(f) # {}
  <2>1. f.dma.hdmaPending = dma.hdmaPending
    BY <1>3, <1>4 DEF Same, Transfers
  <2>2. HdmaEnabled(f) = HdmaEnabled(Now)
    BY <1>5, EnabledKept DEF Follows
  <2>. QED  BY <1>0, <2>1, <2>2, NowFields DEF Running
<1>7. Follows(f, m) /\ (m.dma.hdmaPending => HdmaEnabled(m) # {})
  BY <1>0, <1>5, <1>6, NestedEdgeFollows
<1>. HIDE DEF m
<1>8. Follows(Now, m) /\ Shape(m) /\ ~m.pipe.valid /\ m.dma.at = n /\ n \in Nat
  BY <1>0, <1>4, <1>5, <1>7, FollowsTransitive, NowFields DEF Follows, Channel
<1>9. /\ Running(m) /\ Accounted(m) /\ AluOK(m) /\ IrqHeld(m, "dma", cycle)
      /\ irq.irqPending => m.irq.irqPending
  BY <1>0, <1>7, <1>8, RunningFollows, FollowsHeld, NowFields
<1>10. DOMAIN e = ChannelFields /\ ~e.dma /\ e.hdma = m.channel[n].hdma
  BY <1>0, <1>8 DEF Shape, ChannelFields
<1>11. Becomes(r)
  <2>1. r = [m EXCEPT !.channel[n].dma = FALSE, !.dma.at = @ + 1, !.dma.stage = "next"]
    BY <1>0, <1>8 DEF At, Shape, Fields, ChannelFields
  <2>. HIDE DEF r
  <2>. QED  BY <1>1, <2>1
<1>. HIDE DEF e
<1>12. /\ Same(m, k) /\ k.pipe = m.pipe /\ k.dma = m.dma
       /\ k.channel[n] = e /\ \A l \in Channel \ {n} : k.channel[l] = m.channel[l]
  BY <1>0, <1>8, <1>10, SetChannel
<1>13. k.irq = m.irq /\ k.alu = m.alu /\ k.ghost = m.ghost
  BY <1>8 DEF Shape, Fields
<1>14. FlagsKept(m, k) /\ ~k.channel[n].dma
  BY <1>10, <1>12 DEF FlagsKept
<1>. HIDE DEF k
<1>15. /\ Shape(r) /\ r.channel = k.channel /\ r.pipe = k.pipe
       /\ r.dma.at = n + 1 /\ r.dma.stage = "next"
       /\ r.dma.pending = k.dma.pending /\ r.dma.hdmaPending = k.dma.hdmaPending
       /\ r.irq = k.irq /\ r.alu = k.alu /\ r.ghost = k.ghost
  BY <1>12, SetAt DEF Same
<1>. HIDE DEF r
<1>16. Running(r)
  <2>1. ASSUME NEW l \in Channel, l < n + 1 PROVE ~r.channel[l].dma
    <3>1. l < n \/ l = n
      BY <1>8, <2>1 DEF Channel
    <3>. QED  BY <1>8, <1>9, <1>14, <1>15, <3>1 DEF FlagsKept, Running
  <2>2. HdmaEnabled(r) = HdmaEnabled(m)
    <3>1. FlagsKept(m, r)
      BY <1>14, <1>15 DEF FlagsKept
    <3>. QED  BY <3>1, EnabledKept
  <2>3. n + 1 \in Nat
    BY <1>8
  <2>. QED  BY <1>7, <1>8, <1>9, <1>12, <1>15, <2>1, <2>2, <2>3 DEF Running, PipeValid
<1>17. Accounted(r) /\ AluOK(r) /\ IrqHeld(r, "dma", cycle) /\ (irq.irqPending => r.irq.irqPending)
  BY <1>9, <1>13, <1>15, SetAtHeld
<1>18. CpuInv'
  BY <1>0, <1>1, <1>11, <1>15, <1>16, <1>17, InvAfter
<1>. QED  BY <1>11, <1>17, <1>18 DEF Becomes

LEMMA DmaReturnInv ==
  ASSUME CpuInv, DmaReturn
  PROVE  CpuInv' /\ (irq.irqPending => irq'.irqPending)
<1> DEFINE i == Inactive(Now)
           r == Triggers(i)
<1>0. /\ program \in Programs /\ Shape(Now) /\ Running(Now) /\ Accounted(Now) /\ AluOK(Now)
      /\ IrqHeld(Now, "dma", cycle) /\ PipeValid(Now) /\ cycle \in Cycles /\ ~pipe.valid
  BY NowFollows, NowFields DEF DmaReturn, Running
<1>1. step' = "access" /\ cycle' = cycle /\ program' = program /\ Becomes(r)
  BY DEF DmaReturn
<1>2. DmaEnabled(Now) = {}
  <2>1. ASSUME NEW n \in Channel PROVE ~channel[n].dma
    <3>1. n \in Nat /\ dma.at \in Nat
      BY <1>0, NowFields DEF Running, Channel
    <3>2. CASE n >= dma.at
      BY <3>2 DEF DmaReturn
    <3>3. CASE n < dma.at
      BY <1>0, <3>3, NowFields DEF Running
    <3>. QED  BY <3>1, <3>2, <3>3
  <2>. QED  BY <2>1, NowFields DEF DmaEnabled
<1>3. /\ Follows(Now, i) /\ i.channel = channel /\ i.pipe = pipe
      /\ ~i.dma.active /\ i.dma.hdmaPending = dma.hdmaPending /\ ~i.ghost.withdrawn
  BY <1>0, InactiveFollows, NowFields
<1>. HIDE DEF i
<1>4. /\ Follows(i, r) /\ FlagsKept(r, i) /\ r.pipe = i.pipe
      /\ r.ghost.withdrawn = i.ghost.withdrawn
      /\ r.dma.hdmaPending => i.dma.hdmaPending \/ HdmaEnabled(i) # {}
      /\ r.dma.active => i.dma.active \/ r.dma.pending \/ r.dma.hdmaPending
  BY <1>3, TriggersFollow DEF Follows
<1>. HIDE DEF r
<1>5. /\ Follows(Now, r) /\ HdmaEnabled(i) = HdmaEnabled(Now) /\ HdmaEnabled(r) = HdmaEnabled(Now)
      /\ DmaEnabled(r) = {}
  BY <1>2, <1>3, <1>4, FollowsTransitive, EnabledKept DEF Follows
<1>6. Resting(r)
  BY <1>0, <1>3, <1>4, <1>5, NowFields DEF Resting, Running, Follows
<1>7. /\ Shape(r) /\ Accounted(r) /\ AluOK(r) /\ IrqHeld(r, "dma", cycle)
      /\ irq.irqPending => r.irq.irqPending
  BY <1>0, <1>5, FollowsHeld, NowFields DEF Follows
<1>8. IrqHeld(r, "access", cycle)
  BY <1>7 DEF IrqHeld, Past
<1>9. CpuInv'
  BY <1>0, <1>1, <1>6, <1>7, <1>8, InvAfter
<1>. QED  BY <1>1, <1>7, <1>9 DEF Becomes

LEMMA AluEdgeFields ==
  ASSUME NEW m, Shape(m), m.alu \in AluRegisters
  PROVE  LET r == AluEdge(m) IN
         /\ DOMAIN r = Fields /\ r.clock = m.clock /\ r.dma = m.dma /\ r.channel = m.channel
         /\ r.pipe = m.pipe /\ r.irq = m.irq /\ r.ghost = m.ghost /\ r.alu = AluStep(m.alu)
<1> DEFINE l == m.alu
           r == AluEdge(m)
           half == l.shift \div 2
           fits == l.rdmpy >= half
<1>1. CASE l.mpyctr > 0
  <2> DEFINE a == l.mpyctr - 1
             b == IF l.rddiv % 2 = 1 THEN (l.rdmpy + l.shift) % Whole ELSE l.rdmpy
             c == l.rddiv \div 2
             d == l.shift * 2
  <2>1. r = [m EXCEPT !.alu.mpyctr = a, !.alu.rdmpy = b, !.alu.rddiv = c, !.alu.shift = d]
    BY <1>1 DEF AluEdge, AluRegisters, Shape, Fields, Whole
  <2>2. AluStep(l) = [mpyctr |-> a, divctr |-> l.divctr, shift |-> d, rdmpy |-> b, rddiv |-> c]
    BY <1>1 DEF AluStep
  <2>. HIDE DEF a, b, c, d, r
  <2>. QED  BY <2>1, <2>2, ZenonT(40) DEF Shape, Fields, AluRegisters, r
<1>2. CASE ~(l.mpyctr > 0) /\ l.divctr > 0
  <2> DEFINE a == l.divctr - 1
             b == IF fits THEN l.rdmpy - half ELSE l.rdmpy
             c == ((l.rddiv * 2) % Whole) + Flag(fits)
  <2>1. r = [m EXCEPT !.alu.divctr = a, !.alu.shift = half, !.alu.rdmpy = b, !.alu.rddiv = c]
    BY <1>2 DEF AluEdge, AluRegisters, Shape, Fields, Whole
  <2>2. AluStep(l) = [mpyctr |-> l.mpyctr, divctr |-> a, shift |-> half, rdmpy |-> b,
                      rddiv |-> c]
    BY <1>2 DEF AluStep
  <2>. HIDE DEF a, b, c, half, r
  <2>. QED  BY <2>1, <2>2, ZenonT(40) DEF Shape, Fields, AluRegisters, r
<1>3. CASE ~(l.mpyctr > 0) /\ ~(l.divctr > 0)
  BY <1>3 DEF AluEdge, AluStep, Shape
<1>. QED  BY <1>1, <1>2, <1>3

LEMMA LaterRests ==
  ASSUME NEW m, NEW r, Later(m, r)
  PROVE  /\ Shape(r) /\ (Accounted(m) => Accounted(r)) /\ (Resting(m) => Resting(r))
         /\ (AluOK(m) => AluOK(r)) /\ \A s, c : IrqHeld(m, s, c) => IrqHeld(r, s, c)
         /\ (m.irq.irqPending => r.irq.irqPending) /\ r.irq.wai = m.irq.wai
         /\ r.ghost.preempted = m.ghost.preempted
<1>1. Resting(m) => Resting(r)
  BY DEF Later, Same, Transfers, Tested, Resting, DmaEnabled, HdmaEnabled
<1>. QED  BY <1>1 DEF Later, Same, Tested, IrqHeld, AluOK

\* A state in which the program goes on at the same step.
Goes(m) == Shape(m) /\ Accounted(m) /\ AluOK(m) /\ Resting(m) /\ IrqHeld(m, "access", cycle)

LEMMA AccessStart ==
  ASSUME CpuInv, step = "access"
  PROVE  program \in Programs /\ cycle \in Cycles /\ Goes(Now)
BY DEF CpuInv, Goes

LEMMA LaterGoes ==
  ASSUME NEW m, NEW r, Goes(m), Later(m, r)
  PROVE  Goes(r) /\ (m.irq.irqPending => r.irq.irqPending) /\ r.irq.wai = m.irq.wai
BY LaterRests DEF Goes

LEMMA AluEdgeGoes ==
  ASSUME NEW m, Goes(m)
  PROVE  Goes(AluEdge(m)) /\ AluEdge(m).irq = m.irq
<1> DEFINE r == AluEdge(m)
<1>1. /\ DOMAIN r = Fields /\ r.clock = m.clock /\ r.dma = m.dma /\ r.channel = m.channel
      /\ r.pipe = m.pipe /\ r.irq = m.irq /\ r.ghost = m.ghost /\ r.alu = AluStep(m.alu)
  BY AluEdgeFields DEF Goes, AluOK, AluHolds
<1>. HIDE DEF r
<1>2. Shape(r) /\ Accounted(r) /\ Resting(r) /\ IrqHeld(r, "access", cycle)
  BY <1>1 DEF Goes, Shape, Accounted, Resting, DmaEnabled, HdmaEnabled, IrqHeld
<1>3. AluOK(r)
  BY <1>1, AluStepHolds DEF Goes, AluOK
<1>. QED  BY <1>1, <1>2, <1>3 DEF Goes, r

\* The cycle after an access keeps an IRQ that is held.
LEMMA NextCycleHeld ==
  ASSUME cycle \in Cycles, NextCycle, NEW m, IrqHeld(m, "access", cycle), m.irq.wai = irq.wai
  PROVE  step' \in {"main", "edge"} /\ cycle' \in Cycles /\ IrqHeld(m, step', cycle')
<1>1. CASE cycle \in {"vector", "fetch", "middle"}
  <2>1. step' = "edge" /\ cycle' \in Cycles /\ ~Past("access", cycle)
    BY <1>1 DEF NextCycle, Cycles, Past
  <2>. QED  BY <2>1 DEF IrqHeld
<1>2. CASE cycle \in {"last", "resume"}
  <2>1. step' = "main" /\ cycle' \in Cycles
    BY <1>2 DEF NextCycle, Cycles
  <2>. QED  BY <2>1 DEF IrqHeld, Past
<1>3. CASE cycle = "wait"
  <2>1. /\ step' = "edge" /\ cycle' \in Cycles
        /\ ~irq.wai => cycle' = "resume"
    BY <1>3 DEF NextCycle, Cycles
  <2>. QED  BY <2>1 DEF IrqHeld, Past
<1>. QED  BY <1>1, <1>2, <1>3 DEF Cycles

WithIrq(m, i) == [m EXCEPT !.irq = i]

LEMMA SetIrq ==
  ASSUME NEW m, Shape(m), Resting(m), NEW i, DOMAIN i = IrqFields
  PROVE  LET r == WithIrq(m, i) IN
         /\ Shape(r) /\ Resting(r) /\ r.irq = i /\ r.ghost = m.ghost /\ r.dma = m.dma
         /\ r.channel = m.channel /\ r.pipe = m.pipe /\ (AluOK(m) => AluOK(r))
<1> DEFINE r == WithIrq(m, i)
<1>1. /\ DOMAIN r = Fields /\ r.clock = m.clock /\ r.dma = m.dma /\ r.channel = m.channel
      /\ r.pipe = m.pipe /\ r.irq = i /\ r.ghost = m.ghost /\ r.alu = m.alu
  BY DEF WithIrq, Shape, Fields
<1>. HIDE DEF r
<1>2. Shape(r)
  BY <1>1 DEF Shape
<1>3. Resting(r)
  BY <1>1 DEF Resting, DmaEnabled, HdmaEnabled
<1>. QED  BY <1>1, <1>2, <1>3 DEF r, AluOK

LEMMA PlainInv ==
  ASSUME CpuInv, Plain
  PROVE  CpuInv' /\ (irq.irqPending => irq'.irqPending)
<1> DEFINE s == Step(Now, Access)
           m == AluEdge(s)
<1>0. program \in Programs /\ cycle \in Cycles /\ Goes(Now) /\ program' = program /\ NextCycle
  BY AccessStart DEF Plain
<1>1. PICK k : Becomes([m EXCEPT !.irq.masked = k])
  BY DEF Plain
<1>2. Later(Now, s)
  BY <1>0, CpuAssumption, StepLater DEF Goes
<1>. HIDE DEF s, m
<1>3. Goes(m) /\ (irq.irqPending => m.irq.irqPending) /\ m.irq.wai = irq.wai
  <2>1. Goes(s) /\ (irq.irqPending => s.irq.irqPending) /\ s.irq.wai = irq.wai
    BY <1>0, <1>2, LaterGoes, NowFields
  <2>. QED  BY <2>1, AluEdgeGoes DEF m
<1> DEFINE i == [m.irq EXCEPT !.masked = k]
           r == WithIrq(m, i)
<1>4. /\ DOMAIN i = IrqFields /\ \A x \in IrqFields \ {"masked"} : i[x] = m.irq[x]
  BY <1>3 DEF Goes, Shape, IrqFields
<1>5. Becomes(r)
  BY <1>1 DEF WithIrq
<1>. HIDE DEF i
<1>6. Shape(r) /\ Resting(r) /\ AluOK(r) /\ r.irq = i /\ r.ghost = m.ghost
  BY <1>3, <1>4, SetIrq DEF Goes
<1>. HIDE DEF r
<1>7. Accounted(r) /\ IrqHeld(r, "access", cycle) /\ r.irq.wai = irq.wai
  BY <1>3, <1>4, <1>6 DEF Goes, Accounted, IrqHeld, IrqFields
<1>8. step' \in {"main", "edge"} /\ cycle' \in Cycles /\ IrqHeld(r, step', cycle')
  BY <1>0, <1>7, NextCycleHeld
<1>9. CpuInv'
  BY <1>0, <1>5, <1>6, <1>7, <1>8, InvAfter
<1>10. irq.irqPending => r.irq.irqPending
  BY <1>3, <1>4, <1>6 DEF IrqFields
<1>. QED  BY <1>5, <1>9, <1>10 DEF Becomes

LEMMA WaitInv ==
  ASSUME CpuInv, Wait
  PROVE  CpuInv' /\ (irq.irqPending => irq'.irqPending)
<1> DEFINE s == Step(Now, Access)
           m == AluEdge(s)
           i == [m.irq EXCEPT !.wai = TRUE]
           r == WithIrq(m, i)
<1>0. /\ program \in Programs /\ cycle = "fetch" /\ Goes(Now) /\ program' = program
      /\ step' = "edge" /\ cycle' = "wait" /\ cycle' \in Cycles /\ program.waits
  BY AccessStart DEF Wait, Cycles
<1>1. Becomes(r)
  BY DEF Wait, WithIrq
<1>2. Later(Now, s)
  BY <1>0, CpuAssumption, StepLater DEF Goes
<1>. HIDE DEF s, m
<1>3. Goes(m) /\ (irq.irqPending => m.irq.irqPending)
  <2>1. Goes(s) /\ (irq.irqPending => s.irq.irqPending)
    BY <1>0, <1>2, LaterGoes, NowFields
  <2>. QED  BY <2>1, AluEdgeGoes DEF m
<1>4. /\ DOMAIN i = IrqFields /\ \A x \in IrqFields \ {"wai"} : i[x] = m.irq[x]
  BY <1>3 DEF Goes, Shape, IrqFields
<1>. HIDE DEF i
<1>5. Shape(r) /\ Resting(r) /\ AluOK(r) /\ r.irq = i /\ r.ghost = m.ghost
  BY <1>3, <1>4, SetIrq DEF Goes
<1>. HIDE DEF r
<1>6. Accounted(r) /\ (irq.irqPending => r.irq.irqPending)
  BY <1>0, <1>3, <1>4, <1>5 DEF Goes, Accounted, IrqFields
<1>7. IrqHeld(r, step', cycle')
  <2>1. m.irq.irqPending => m.ghost.preempted
    BY <1>0, <1>3 DEF Goes, IrqHeld, Past
  <2>. QED  BY <1>4, <1>5, <2>1 DEF IrqHeld, IrqFields
<1>8. CpuInv'
  BY <1>0, <1>1, <1>5, <1>6, <1>7, InvAfter
<1>. QED  BY <1>1, <1>6, <1>8 DEF Becomes

LEMMA AcknowledgedFields ==
  ASSUME NEW reg, NEW i, DOMAIN i = IrqFields
  PROVE  LET j == Acknowledged(reg, i) IN
         /\ DOMAIN j = IrqFields
         /\ \A x \in IrqFields \ {"nmiLine", "irqLine", "irqTransition"} : j[x] = i[x]
BY DEF Acknowledged, Rdnmi, Timeup

LEMMA ReadCPUInv ==
  ASSUME CpuInv, NEW reg, ReadCPU(reg)
  PROVE  CpuInv' /\ (irq.irqPending => irq'.irqPending)
<1> DEFINE s == Step(Now, Access - 1)
           i == Acknowledged(reg, s.irq)
           a == WithIrq(s, i)
           o == Step(a, 1)
           r == AluEdge(o)
<1>0. program \in Programs /\ cycle \in Cycles /\ Goes(Now) /\ program' = program /\ NextCycle
  BY AccessStart DEF ReadCPU, Accesses
<1>1. Becomes(r)
  BY DEF ReadCPU, WithIrq
<1>2. Later(Now, s)
  <2>1. Access - 1 \in Nat
    BY CpuAssumption
  <2>. QED  BY <1>0, <2>1, StepLater DEF Goes
<1>. HIDE DEF s
<1>3. Goes(s) /\ (irq.irqPending => s.irq.irqPending) /\ s.irq.wai = irq.wai
  BY <1>0, <1>2, LaterGoes, NowFields
<1>4. /\ DOMAIN i = IrqFields
      /\ \A x \in IrqFields \ {"nmiLine", "irqLine", "irqTransition"} : i[x] = s.irq[x]
  BY <1>3, AcknowledgedFields DEF Goes, Shape
<1>. HIDE DEF i
<1>5. Shape(a) /\ Resting(a) /\ AluOK(a) /\ a.irq = i /\ a.ghost = s.ghost
  BY <1>3, <1>4, SetIrq DEF Goes
<1>. HIDE DEF a
<1>6. Goes(a) /\ (irq.irqPending => a.irq.irqPending) /\ a.irq.wai = irq.wai
  BY <1>3, <1>4, <1>5 DEF Goes, Accounted, IrqHeld, IrqFields
<1>7. Later(a, o)
  BY <1>5, StepLater
<1>. HIDE DEF o
<1>8. Goes(o) /\ (irq.irqPending => o.irq.irqPending) /\ o.irq.wai = irq.wai
  BY <1>6, <1>7, LaterGoes
<1>9. Goes(r) /\ (irq.irqPending => r.irq.irqPending) /\ r.irq.wai = irq.wai
  BY <1>8, AluEdgeGoes
<1>. HIDE DEF r
<1>10. step' \in {"main", "edge"} /\ cycle' \in Cycles /\ IrqHeld(r, step', cycle')
  BY <1>0, <1>9, NextCycleHeld DEF Goes
<1>11. CpuInv'
  BY <1>0, <1>1, <1>9, <1>10, InvAfter DEF Goes
<1>. QED  BY <1>1, <1>9, <1>11 DEF Becomes

LEMMA NmitimenFields ==
  ASSUME NEW i, DOMAIN i = IrqFields, NEW nmi, NEW v, NEW h
  PROVE  LET j == NmitimenUpdate(i, nmi, v, h) IN
         /\ DOMAIN j = IrqFields
         /\ \A x \in {"nmiPending", "nmiHold", "irqPending", "interruptPending", "masked", "wai"} :
              j[x] = i[x]
         /\ j.nmiTransition <=> i.nmiTransition \/ (nmi /\ ~i.nmiEnabled /\ i.nmiLine)
<1> DEFINE j == NmitimenUpdate(i, nmi, v, h)
           lock == TRUE
           n == i.nmiTransition \/ (nmi /\ ~i.nmiEnabled /\ i.nmiLine)
           q == (i.irqTransition \/ (v /\ ~h /\ i.irqLine)) /\ (v \/ h)
           l == i.irqLine /\ (v \/ h)
<1>1. j = [i EXCEPT !.nmiEnabled = nmi, !.virq = v, !.hirq = h, !.lock = lock,
                    !.nmiTransition = n, !.irqTransition = q, !.irqLine = l]
  BY DEF NmitimenUpdate
<1>. HIDE DEF lock, n, q, l, j
<1>2. /\ DOMAIN j = IrqFields /\ j.nmiTransition = n
      /\ \A x \in {"nmiPending", "nmiHold", "irqPending", "interruptPending", "masked", "wai"} :
           j[x] = i[x]
  BY <1>1 DEF IrqFields
<1>. QED  BY <1>2 DEF j, n

\* Registers of the channels, of the ALU, and of the interrupts.
LEMMA ChannelWritten ==
  ASSUME NEW m, Goes(m), NEW n \in Channel, NEW x \in {"size", "source"}, NEW k
  PROVE  LET r == [m EXCEPT !.channel[n][x] = k] IN
         Goes(r) /\ r.irq = m.irq
<1> DEFINE c == [m.channel[n] EXCEPT ![x] = k]
           r == [m EXCEPT !.channel[n] = c]
<1>1. DOMAIN c = ChannelFields /\ c.dma = m.channel[n].dma /\ c.hdma = m.channel[n].hdma
  BY DEF Goes, Shape, ChannelFields
<1>2. [m EXCEPT !.channel[n][x] = k] = r
  BY DEF Goes, Shape
<1>. HIDE DEF c
<1>3. /\ Same(m, r) /\ r.pipe = m.pipe /\ r.dma = m.dma
      /\ r.channel[n] = c /\ \A l \in Channel \ {n} : r.channel[l] = m.channel[l]
  BY <1>1, SetChannel DEF Goes
<1>4. r.irq = m.irq /\ r.ghost = m.ghost
  BY DEF Goes, Shape, Fields
<1>. HIDE DEF r
<1>5. DmaEnabled(r) = DmaEnabled(m) /\ HdmaEnabled(r) = HdmaEnabled(m)
  BY <1>1, <1>3 DEF DmaEnabled, HdmaEnabled
<1>6. Goes(r)
  BY <1>3, <1>4, <1>5 DEF Goes, Same, Tested, Resting, IrqHeld, AluOK
<1>. QED  BY <1>2, <1>4, <1>6

Operates(m, l, op) == [m EXCEPT !.alu = l, !.ghost.op = op]

LEMMA OperationSet ==
  ASSUME NEW m, Goes(m), NEW l, NEW op, AluHolds(l, op)
  PROVE  Goes(Operates(m, l, op)) /\ Operates(m, l, op).irq = m.irq
<1> DEFINE r == Operates(m, l, op)
<1>1. /\ DOMAIN r = Fields /\ r.clock = m.clock /\ r.dma = m.dma /\ r.channel = m.channel
      /\ r.pipe = m.pipe /\ r.irq = m.irq /\ r.alu = l /\ r.ghost = [m.ghost EXCEPT !.op = op]
  BY DEF Operates, Goes, Shape, Fields
<1>. HIDE DEF r
<1>2. /\ DOMAIN r.ghost = GhostFields /\ r.ghost.op = op
      /\ \A x \in GhostFields \ {"op"} : r.ghost[x] = m.ghost[x]
  BY <1>1 DEF Goes, Shape, GhostFields
<1>3. r.ghost.causes = m.ghost.causes /\ r.ghost.withdrawn = m.ghost.withdrawn
      /\ r.ghost.preempted = m.ghost.preempted /\ r.ghost.seen = m.ghost.seen
      /\ r.ghost.waited = m.ghost.waited
  BY <1>2 DEF GhostFields
<1>4. Shape(r) /\ AluOK(r)
  BY <1>1, <1>2 DEF Goes, Shape, AluOK
<1>5. Resting(r)
  BY <1>1, <1>3 DEF Goes, Resting, DmaEnabled, HdmaEnabled
<1>. QED  BY <1>1, <1>3, <1>4, <1>5 DEF Goes, Accounted, IrqHeld, r

LEMMA FactorWritten ==
  ASSUME NEW m, Goes(m), NEW a \in 0 .. Half - 1, NEW b \in 0 .. Half - 1
  PROVE  Goes(WriteFactor(m, a, b)) /\ WriteFactor(m, a, b).irq = m.irq
<1> DEFINE r == WriteFactor(m, a, b)
<1>0. Shape(m) /\ m.alu \in AluRegisters
  BY DEF Goes, AluOK, AluHolds
<1>1. CASE Busy(m)
  <2> DEFINE l == [m.alu EXCEPT !.rdmpy = 0]
             op == Resumed(m.alu, m.ghost.op, 0)
  <2>1. r = Operates(m, l, op)
    <3>1. r = [m EXCEPT !.alu.rdmpy = 0, !.ghost.op = op]
      BY <1>1 DEF WriteFactor
    <3>. HIDE DEF op, r
    <3>. QED  BY <1>0, <3>1 DEF Operates, Shape, Fields
  <2>2. AluHolds(l, op)
    <3>1. 0 \in 0 .. Whole - 1
      BY Widths
    <3>. QED  BY <1>1, <3>1, AluResumes DEF Goes, AluOK, Busy
  <2>. HIDE DEF l, op
  <2>. QED  BY <2>1, <2>2, OperationSet
<1>2. CASE ~Busy(m)
  <2> DEFINE l == [mpyctr |-> FactorBits, divctr |-> 0, shift |-> b, rdmpy |-> 0,
                   rddiv |-> b * Half + a]
             op == << "mpy", a, b, 0 >>
  <2>1. r = Operates(m, l, op)
    BY <1>2 DEF WriteFactor, Operates, Half
  <2>2. AluHolds(l, op)
    BY MultiplyStarts
  <2>. HIDE DEF l, op
  <2>. QED  BY <2>1, <2>2, OperationSet
<1>. QED  BY <1>1, <1>2

LEMMA DivisorWritten ==
  ASSUME NEW m, Goes(m), NEW a \in 0 .. Whole - 1, NEW b \in Nat
  PROVE  Goes(WriteDivisor(m, a, b)) /\ WriteDivisor(m, a, b).irq = m.irq
<1> DEFINE r == WriteDivisor(m, a, b)
<1>0. Shape(m) /\ m.alu \in AluRegisters /\ a \in Nat
  BY Widths DEF Goes, AluOK, AluHolds
<1>1. CASE Busy(m)
  <2> DEFINE l == [m.alu EXCEPT !.rdmpy = a]
             op == Resumed(m.alu, m.ghost.op, a)
  <2>1. r = Operates(m, l, op)
    <3>1. r = [m EXCEPT !.alu.rdmpy = a, !.ghost.op = op]
      BY <1>1 DEF WriteDivisor
    <3>. HIDE DEF op, r
    <3>. QED  BY <1>0, <3>1 DEF Operates, Shape, Fields
  <2>2. AluHolds(l, op)
    BY <1>1, AluResumes DEF Goes, AluOK, Busy
  <2>. HIDE DEF l, op
  <2>. QED  BY <2>1, <2>2, OperationSet
<1>2. CASE ~Busy(m)
  <2> DEFINE shift == b * Whole
             bits == 2 * FactorBits
             l == [m.alu EXCEPT !.divctr = bits, !.rdmpy = a, !.shift = shift]
             op == << "div", bits, b, a, 0 >>
  <2>1. r = Operates(m, l, op)
    <3>1. r = [m EXCEPT !.alu.divctr = bits, !.alu.rdmpy = a, !.alu.shift = shift,
                        !.ghost.op = op]
      BY <1>2 DEF WriteDivisor, Whole
    <3>. HIDE DEF shift, bits, op, r
    <3>. QED  BY <1>0, <3>1 DEF Operates, Shape, Fields
  <2>2. shift \in Nat /\ bits \in Nat /\ m.alu.mpyctr = 0
    BY <1>0, <1>2, Widths DEF AluRegisters, Busy
  <2>3. /\ l \in AluRegisters /\ l.mpyctr = 0 /\ l.divctr = bits /\ l.shift = shift
        /\ l.rdmpy = a
    <3>. HIDE DEF shift, bits
    <3>. QED  BY <1>0, <2>2 DEF AluRegisters
  <2>. HIDE DEF l
  <2>4. AluHolds(l, op)
    BY <2>3, DivideStarts
  <2>. HIDE DEF op
  <2>. QED  BY <2>1, <2>4, OperationSet
<1>. QED  BY <1>1, <1>2

\* A write to 0x420b or to 0x420c leaves m with the channels c, the flags d, and the ghost
\* that tells whether it withdrew the ones of a transfer that was pending.
LEMMA EnableWritten ==
  ASSUME NEW m, Goes(m), NEW r, DOMAIN r = Fields, r.clock = m.clock, r.pipe = m.pipe,
         r.irq = m.irq, r.alu = m.alu, DOMAIN r.channel = Channel,
         \A n \in Channel : DOMAIN r.channel[n] = ChannelFields,
         DOMAIN r.dma = DmaFields, \A x \in DmaFields \ {"pending"} : r.dma[x] = m.dma[x],
         DOMAIN r.ghost = GhostFields,
         \A x \in GhostFields \ {"withdrawn", "clean"} : r.ghost[x] = m.ghost[x],
         DmaEnabled(r) # {} => r.dma.pending,
         r.dma.pending => DmaEnabled(r) # {} \/ r.ghost.withdrawn,
         m.dma.hdmaPending => HdmaEnabled(r) # {} \/ r.ghost.withdrawn,
         m.dma.pending => r.dma.pending, m.ghost.withdrawn => r.ghost.withdrawn
  PROVE  Goes(r)
<1>1. Shape(r)
  BY DEF Goes, Shape, DmaFields
<1>2. r.ghost.causes = m.ghost.causes /\ r.ghost.preempted = m.ghost.preempted
      /\ r.ghost.seen = m.ghost.seen /\ r.ghost.op = m.ghost.op
      /\ r.ghost.waited = m.ghost.waited
  BY DEF GhostFields
<1>3. r.dma.active = m.dma.active /\ r.dma.hdmaPending = m.dma.hdmaPending
  BY DEF DmaFields
<1>4. Resting(r)
  BY <1>3 DEF Goes, Resting
<1>. QED  BY <1>1, <1>2, <1>4 DEF Goes, Accounted, IrqHeld, AluOK

LEMMA DmaEnableWritten ==
  ASSUME NEW m, Goes(m), NEW on \in SUBSET Channel
  PROVE  Goes(WriteDmaEnable(m, on)) /\ WriteDmaEnable(m, on).irq = m.irq
<1> DEFINE r == WriteDmaEnable(m, on)
           c == [n \in Channel |-> [m.channel[n] EXCEPT !.dma = n \in on]]
           p == m.dma.pending \/ on # {}
           w == m.ghost.withdrawn \/ (m.dma.pending /\ on = {})
<1>0. Shape(m)
  BY DEF Goes
<1>1. r = [m EXCEPT !.channel = c, !.dma.pending = p, !.ghost.withdrawn = w]
  BY DEF WriteDmaEnable
<1>2. /\ DOMAIN c = Channel
      /\ \A n \in Channel : /\ DOMAIN c[n] = ChannelFields
                            /\ c[n].dma <=> n \in on
                            /\ c[n].hdma = m.channel[n].hdma
  BY <1>0 DEF Shape, ChannelFields
<1>3. (p <=> m.dma.pending \/ on # {}) /\ (w <=> m.ghost.withdrawn \/ (m.dma.pending /\ on = {}))
  OBVIOUS
<1>. HIDE DEF c, p, w, r
<1>4. /\ DOMAIN r = Fields /\ r.clock = m.clock /\ r.pipe = m.pipe /\ r.irq = m.irq
      /\ r.alu = m.alu /\ r.channel = c /\ r.dma = [m.dma EXCEPT !.pending = p]
      /\ r.ghost = [m.ghost EXCEPT !.withdrawn = w]
  BY <1>0, <1>1 DEF Shape, Fields
<1>5. /\ DOMAIN r.dma = DmaFields /\ \A x \in DmaFields \ {"pending"} : r.dma[x] = m.dma[x]
      /\ r.dma.pending = p
  BY <1>0, <1>4 DEF Shape, DmaFields
<1>6. /\ DOMAIN r.ghost = GhostFields /\ r.ghost.withdrawn = w
      /\ \A x \in GhostFields \ {"withdrawn", "clean"} : r.ghost[x] = m.ghost[x]
  BY <1>0, <1>4 DEF Shape, GhostFields
<1>7. DmaEnabled(r) = on /\ HdmaEnabled(r) = HdmaEnabled(m)
  <2>1. \A n \in Channel : r.channel[n].dma <=> n \in on
    BY <1>2, <1>4
  <2>2. \A n \in Channel : r.channel[n].hdma <=> m.channel[n].hdma
    BY <1>2, <1>4
  <2>. HIDE <1>2, <1>4
  <2>. QED  BY <2>1, <2>2 DEF DmaEnabled, HdmaEnabled
<1>8. m.dma.hdmaPending => HdmaEnabled(m) # {} \/ m.ghost.withdrawn
  BY DEF Goes, Resting
<1>9. /\ DmaEnabled(r) # {} => r.dma.pending
      /\ r.dma.pending => DmaEnabled(r) # {} \/ r.ghost.withdrawn
      /\ m.dma.hdmaPending => HdmaEnabled(r) # {} \/ r.ghost.withdrawn
      /\ m.dma.pending => r.dma.pending
      /\ m.ghost.withdrawn => r.ghost.withdrawn
  <2>1. m.dma.pending => DmaEnabled(m) # {} \/ m.ghost.withdrawn
    BY DEF Goes, Resting
  <2>. QED  BY <1>3, <1>5, <1>6, <1>7, <1>8, <2>1
<1>10. Goes(r)
  <2>1. DOMAIN r.channel = Channel /\ \A n \in Channel : DOMAIN r.channel[n] = ChannelFields
    BY <1>2, <1>4
  <2>2. /\ DOMAIN r = Fields /\ r.clock = m.clock /\ r.pipe = m.pipe /\ r.irq = m.irq
        /\ r.alu = m.alu
    BY <1>4
  <2>3. DOMAIN r.dma = DmaFields /\ \A x \in DmaFields \ {"pending"} : r.dma[x] = m.dma[x]
    BY <1>5
  <2>4. /\ DOMAIN r.ghost = GhostFields
        /\ \A x \in GhostFields \ {"withdrawn", "clean"} : r.ghost[x] = m.ghost[x]
    BY <1>6
  <2>. QED  BY <1>9, <2>1, <2>2, <2>3, <2>4, EnableWritten
<1>. QED  BY <1>4, <1>10 DEF r

LEMMA HdmaEnableWritten ==
  ASSUME NEW m, Goes(m), NEW on \in SUBSET Channel
  PROVE  Goes(WriteHdmaEnable(m, on)) /\ WriteHdmaEnable(m, on).irq = m.irq
<1> DEFINE r == WriteHdmaEnable(m, on)
           c == [n \in Channel |-> [m.channel[n] EXCEPT !.hdma = n \in on]]
           w == m.ghost.withdrawn \/ (m.dma.hdmaPending /\ on = {})
           k == m.ghost.clean \cap {n \in Channel : m.channel[n].hdma <=> n \in on}
<1>0. Shape(m)
  BY DEF Goes
<1>1. r = [m EXCEPT !.channel = c, !.ghost.withdrawn = w, !.ghost.clean = k]
  BY DEF WriteHdmaEnable
<1>2. /\ DOMAIN c = Channel
      /\ \A n \in Channel : /\ DOMAIN c[n] = ChannelFields
                            /\ c[n].hdma <=> n \in on
                            /\ c[n].dma = m.channel[n].dma
  BY <1>0 DEF Shape, ChannelFields
<1>3. w <=> m.ghost.withdrawn \/ (m.dma.hdmaPending /\ on = {})
  OBVIOUS
<1>. HIDE DEF c, k, w, r
<1>4. /\ DOMAIN r = Fields /\ r.clock = m.clock /\ r.pipe = m.pipe /\ r.irq = m.irq
      /\ r.alu = m.alu /\ r.channel = c /\ r.dma = m.dma
      /\ r.ghost = [m.ghost EXCEPT !.withdrawn = w, !.clean = k]
  BY <1>0, <1>1 DEF Shape, Fields
<1>5. /\ DOMAIN r.dma = DmaFields /\ r.dma = m.dma
  BY <1>0, <1>4 DEF Shape
<1>6. /\ DOMAIN r.ghost = GhostFields /\ r.ghost.withdrawn = w
      /\ \A x \in GhostFields \ {"withdrawn", "clean"} : r.ghost[x] = m.ghost[x]
  BY <1>0, <1>4 DEF Shape, GhostFields
<1>7. HdmaEnabled(r) = on /\ DmaEnabled(r) = DmaEnabled(m)
  <2>1. \A n \in Channel : r.channel[n].hdma <=> n \in on
    BY <1>2, <1>4
  <2>2. \A n \in Channel : r.channel[n].dma <=> m.channel[n].dma
    BY <1>2, <1>4
  <2>. HIDE <1>2, <1>4
  <2>. QED  BY <2>1, <2>2 DEF DmaEnabled, HdmaEnabled
<1>8. /\ DmaEnabled(m) # {} => m.dma.pending
      /\ m.dma.pending => DmaEnabled(m) # {} \/ m.ghost.withdrawn
  BY DEF Goes, Resting
<1>9. Goes(r)
  <2>1. DOMAIN r.channel = Channel /\ \A n \in Channel : DOMAIN r.channel[n] = ChannelFields
    BY <1>2, <1>4
  <2>2. /\ DmaEnabled(r) # {} => r.dma.pending
        /\ r.dma.pending => DmaEnabled(r) # {} \/ r.ghost.withdrawn
        /\ m.dma.hdmaPending => HdmaEnabled(r) # {} \/ r.ghost.withdrawn
        /\ m.ghost.withdrawn => r.ghost.withdrawn
    BY <1>3, <1>5, <1>6, <1>7, <1>8
  <2>. QED  BY <1>4, <1>5, <1>6, <2>1, <2>2, EnableWritten
<1>. QED  BY <1>4, <1>9 DEF r

LEMMA NmitimenWritten ==
  ASSUME NEW m, Goes(m), NEW v
  PROVE  LET r == Written("4200", m, v) IN
         /\ Goes(r) /\ r.irq.irqPending = m.irq.irqPending /\ r.irq.wai = m.irq.wai
<1> DEFINE r == Written("4200", m, v)
           i == NmitimenUpdate(m.irq, v.nmi, v.virq, v.hirq)
           again == v.nmi /\ ~m.irq.nmiEnabled /\ m.irq.nmiLine
           k == IF again THEN IF m.ghost.causes > 2 THEN 3 ELSE m.ghost.causes + 1
                ELSE m.ghost.causes
           g == [m.ghost EXCEPT !.causes = k]
<1>0. Shape(m) /\ Accounted(m)
  BY DEF Goes
<1>1. r = [m EXCEPT !.irq = i, !.ghost = g]
  BY <1>0 DEF Written, Shape, Fields
<1>2. /\ DOMAIN i = IrqFields
      /\ \A x \in {"nmiPending", "nmiHold", "irqPending", "interruptPending", "masked", "wai"} :
           i[x] = m.irq[x]
      /\ i.nmiTransition <=> m.irq.nmiTransition \/ again
  BY <1>0, NmitimenFields DEF Shape
<1>3. /\ DOMAIN g = GhostFields /\ g.causes = k
      /\ \A x \in GhostFields \ {"causes"} : g[x] = m.ghost[x]
  <2>. HIDE DEF k
  <2>. QED  BY <1>0 DEF Shape, GhostFields
<1>4. /\ k \in Int
      /\ k >= Flag(i.nmiPending) + Flag(i.nmiTransition) + Flag(i.nmiHold)
  <2>. HIDE DEF i, again
  <2>. QED  BY <1>0, <1>2, FlagValue DEF Accounted
<1>. HIDE DEF r, i, k, g
<1>5. /\ DOMAIN r = Fields /\ r.clock = m.clock /\ r.dma = m.dma /\ r.channel = m.channel
      /\ r.pipe = m.pipe /\ r.irq = i /\ r.ghost = g /\ r.alu = m.alu
  BY <1>0, <1>1 DEF Shape, Fields
<1>6. Shape(r) /\ Accounted(r) /\ AluOK(r)
  <2>1. g.op = m.ghost.op /\ g.waited = m.ghost.waited
    BY <1>3 DEF GhostFields
  <2>. QED  BY <1>0, <1>2, <1>3, <1>4, <1>5, <2>1 DEF Goes, Shape, Accounted, AluOK
<1>7. Resting(r)
  <2>1. g.withdrawn = m.ghost.withdrawn
    BY <1>3 DEF GhostFields
  <2>. QED  BY <1>5, <2>1 DEF Goes, Resting, DmaEnabled, HdmaEnabled
<1>8. IrqHeld(r, "access", cycle)
  <2>1. g.preempted = m.ghost.preempted /\ g.seen = m.ghost.seen
    BY <1>3 DEF GhostFields
  <2>. QED  BY <1>2, <1>5, <2>1 DEF Goes, IrqHeld
<1>. QED  BY <1>2, <1>5, <1>6, <1>7, <1>8 DEF Goes, r

LEMMA WriteCPUInv ==
  ASSUME CpuInv, NEW reg \in Registers, WriteCPU(reg)
  PROVE  CpuInv' /\ (irq.irqPending => irq'.irqPending)
<1> DEFINE a == AluEdge(Now)
           m == Step(a, Access)
<1>0. /\ program \in Programs /\ cycle \in Cycles /\ Goes(Now) /\ program' = program /\ NextCycle
      /\ reg \in DOMAIN program.writes
  BY AccessStart DEF WriteCPU, Accesses
<1>1. PICK v \in program.writes[reg] : Becomes(Written(reg, m, v))
  BY DEF WriteCPU
<1>2. Goes(a) /\ a.irq = irq
  BY <1>0, AluEdgeGoes, NowFields
<1>. HIDE DEF a
<1>3. Later(a, m)
  BY <1>2, CpuAssumption, StepLater DEF Goes
<1>. HIDE DEF m
<1>4. Goes(m) /\ (irq.irqPending => m.irq.irqPending) /\ m.irq.wai = irq.wai
  BY <1>2, <1>3, LaterGoes
<1> DEFINE r == Written(reg, m, v)
<1>5. Goes(r) /\ r.irq.irqPending = m.irq.irqPending /\ r.irq.wai = m.irq.wai
  <2>1. CASE reg = "4200"
    BY <1>4, <2>1, NmitimenWritten
  <2>2. CASE reg = "420b"
    <3>1. v \in SUBSET Channel
      BY <1>0, <2>2, CpuAssumption
    <3>2. r = WriteDmaEnable(m, v)
      BY <2>2 DEF Written
    <3>. QED  BY <1>4, <3>1, <3>2, DmaEnableWritten
  <2>3. CASE reg = "420c"
    <3>1. v \in SUBSET Channel
      BY <1>0, <2>3, CpuAssumption
    <3>2. r = WriteHdmaEnable(m, v)
      BY <2>3 DEF Written
    <3>. QED  BY <1>4, <3>1, <3>2, HdmaEnableWritten
  <2>4. CASE reg = "size"
    <3> DEFINE x == "size"
               n == v.n
               k == v.size
    <3>1. n \in Channel
      BY <1>0, <2>4, CpuAssumption
    <3>2. r = [m EXCEPT !.channel[n][x] = k]
      BY <2>4 DEF Written
    <3>. HIDE DEF n, k, r
    <3>. QED  BY <1>4, <3>1, <3>2, ChannelWritten
  <2>5. CASE reg = "source"
    <3> DEFINE x == "source"
    <3>1. v \in Channel
      BY <1>0, <2>5, CpuAssumption
    <3>2. r = [m EXCEPT !.channel[v][x] = 0]
      BY <2>5 DEF Written
    <3>. HIDE DEF r
    <3>. QED  BY <1>4, <3>1, <3>2, ChannelWritten
  <2>6. CASE reg = "mpy"
    <3>1. r = WriteFactor(m, v[1], v[2])
      BY <2>6 DEF Written
    <3>2. v[1] \in 0 .. Half - 1 /\ v[2] \in 0 .. Half - 1
      BY <1>0, <2>6, CpuAssumption DEF Half
    <3>. HIDE DEF r
    <3>. QED  BY <1>4, <3>1, <3>2, FactorWritten
  <2>7. CASE reg = "div"
    <3>1. r = WriteDivisor(m, v[1], v[2])
      BY <2>7 DEF Written
    <3>2. v[1] \in 0 .. Whole - 1 /\ v[2] \in 0 .. Half - 1
      BY <1>0, <2>7, CpuAssumption DEF Half, Whole
    <3>3. v[2] \in Nat
      BY <3>2, Widths
    <3>. HIDE DEF r
    <3>. QED  BY <1>4, <3>1, <3>2, <3>3, DivisorWritten
  <2>. QED  BY <2>1, <2>2, <2>3, <2>4, <2>5, <2>6, <2>7 DEF Registers
<1>. HIDE DEF r
<1>6. step' \in {"main", "edge"} /\ cycle' \in Cycles /\ IrqHeld(r, step', cycle')
  BY <1>0, <1>4, <1>5, NextCycleHeld DEF Goes
<1>7. Becomes(r)
  BY <1>1 DEF r
<1>8. CpuInv'
  BY <1>0, <1>5, <1>6, <1>7, InvAfter DEF Goes
<1>. QED  BY <1>4, <1>5, <1>7, <1>8 DEF Becomes

-----------------------------------------------------------------------------
(* A wait *)

\* Where vblank begins in a frame, and how long ago it last began at position t.
Vblank   == Line * Vdisp
Since(t) == IF t >= Vblank THEN t - Vblank ELSE t + Frame - Vblank

\* A wait of which k units have passed since its last test is no longer than vblank is past,
\* or vblank began in these units and has raised the transition, or is about to.
Near(m, k) ==
  \/ m.ghost.waited <= Since(m.clock.at)
  \/ /\ m.ghost.waited <= Frame + Since(m.clock.at) /\ Since(m.clock.at) <= k
     /\ m.irq.nmiTransition \/ (Since(m.clock.at) = 0 /\ m.irq.nmiHold)

Timed(m) ==
  /\ m.clock.at \in 0 .. Frame - 1 /\ (m.irq.nmiValid <=> m.clock.at >= Vblank)
  /\ m.ghost.waited \in 0 .. Frame + Access

\* A wait for an NMI that is enabled.
Expects(m) == m.irq.wai /\ m.irq.nmiEnabled

LEMMA FrameBounds ==
  /\ Vblank \in Nat \ {0} /\ Frame \in Nat \ {0} /\ Access \in Nat \ {0}
  /\ Vblank < Frame /\ Access < Frame
<1>1. /\ Line \in Nat \ {0} /\ Lines \in Nat \ {0} /\ Vdisp \in Nat \ {0} /\ Access \in Nat \ {0}
      /\ Vdisp < Lines /\ Access < Line
  BY CpuAssumption
<1>2. Line * Vdisp \in Nat \ {0} /\ Line * Lines \in Nat \ {0}
  BY <1>1
<1>3. Lines - Vdisp >= 1 /\ Lines - Vdisp \in Int /\ Line * (Lines - Vdisp) >= Line
  BY <1>1
<1>4. Line * (Lines - Vdisp) = Line * Lines - Line * Vdisp
  BY <1>1
<1>. QED  BY <1>1, <1>2, <1>3, <1>4 DEF Vblank, Frame

LEMMA VblankBegins == \A t \in Nat : LineOf(t) >= Vdisp <=> t >= Vblank
<1>. SUFFICES ASSUME NEW t \in Nat PROVE LineOf(t) >= Vdisp <=> t >= Vblank
  OBVIOUS
<1>1. Line \in Nat \ {0} /\ Vdisp \in Nat
  BY CpuAssumption
<1>2. PICK q \in Int : \E r \in 0 .. Line - 1 : q = t \div Line /\ r = t % Line /\ t = Line * q + r
  BY <1>1, Division
<1>3. PICK r \in 0 .. Line - 1 : t = Line * q + r
  BY <1>2
<1>4. LineOf(t) = q
  BY <1>2 DEF LineOf
<1>5. Line * q = Line * Vdisp + Line * (q - Vdisp)
  BY <1>1
<1>6. CASE q >= Vdisp
  <2>1. Line * (q - Vdisp) >= 0
    BY <1>1, <1>6
  <2>. QED  BY <1>1, <1>3, <1>4, <1>5, <1>6, <2>1 DEF Vblank
<1>7. CASE ~(q >= Vdisp)
  <2>1. Vdisp - q >= 1 /\ Line * (Vdisp - q) >= Line
    BY <1>1, <1>7
  <2>2. Line * q + Line * (Vdisp - q) = Line * Vdisp
    BY <1>1
  <2>. QED  BY <1>1, <1>3, <1>4, <1>7, <2>1, <2>2 DEF Vblank
<1>. QED  BY <1>6, <1>7

LEMMA NextPosition ==
  ASSUME NEW at \in 0 .. Frame - 1
  PROVE  (at + 1) % Frame = IF at = Frame - 1 THEN 0 ELSE at + 1
<1>1. Frame \in Nat \ {0}
  BY FrameBounds
<1> DEFINE x == at + 1
<1>2. x \in Int
  BY <1>1
<1>3. x = Frame * 0 + x /\ (at = Frame - 1 => x = Frame * 1 + 0)
  BY <1>1
<1>. HIDE DEF x
<1>4. PICK q \in Int : \E r \in 0 .. Frame - 1 :
        q = x \div Frame /\ r = x % Frame /\ x = Frame * q + r
  BY <1>1, <1>2, Division
<1>5. PICK r \in 0 .. Frame - 1 : r = x % Frame /\ x = Frame * q + r
  BY <1>4
<1>6. CASE at = Frame - 1
  <2>1. 0 \in 0 .. Frame - 1 /\ Frame * q + r = Frame * 1 + 0
    BY <1>1, <1>3, <1>5, <1>6
  <2>2. r = 0
    BY <1>1, <2>1, Remainder
  <2>. QED  BY <1>5, <1>6, <2>2 DEF x
<1>7. CASE at # Frame - 1
  <2>1. x \in 0 .. Frame - 1 /\ Frame * q + r = Frame * 0 + x
    BY <1>1, <1>3, <1>5, <1>7 DEF x
  <2>2. r = x
    BY <1>1, <2>1, Remainder
  <2>. QED  BY <1>5, <1>7, <2>2 DEF x
<1>. QED  BY <1>6, <1>7

LEMMA PollNmiTimed ==
  ASSUME NEW i, NEW t, DOMAIN i = IrqFields
  PROVE  LET j == PollNmi(i, t) IN
         /\ j.nmiValid <=> LineOf(t) >= Vdisp
         /\ j.nmiHold <=> j.nmiValid /\ ~i.nmiValid
         /\ j.nmiTransition <=> i.nmiTransition \/ (i.nmiHold /\ i.nmiEnabled)
         /\ j.nmiEnabled = i.nmiEnabled /\ j.wai = i.wai /\ j.lock = i.lock
BY DEF PollNmi, IrqFields

\* A unit passes.
LEMMA TickTimed ==
  ASSUME NEW m, Shape(m), Timed(m), NEW k \in Nat, k < Access, Expects(m) => Near(m, k)
  PROVE  LET r == Tick(m) IN
         /\ Timed(r) /\ (Expects(r) <=> Expects(m)) /\ r.irq.lock = m.irq.lock
         /\ r.irq.wai = m.irq.wai /\ r.irq.nmiEnabled = m.irq.nmiEnabled
         /\ Expects(r) => Near(r, k + 1)
         /\ ~Expects(r) => r.ghost.waited = 0
<1> DEFINE r  == Tick(m)
           t  == m.clock.at
           at == (t + 1) % Frame
           i  == PollNmi(m.irq, at)
           w  == m.ghost.waited
<1>1. t \in 0 .. Frame - 1 /\ w \in 0 .. Frame + Access /\ (m.irq.nmiValid <=> t >= Vblank)
  BY DEF Timed
<1>2. at = (IF t = Frame - 1 THEN 0 ELSE t + 1) /\ at \in 0 .. Frame - 1
  <2>1. at = IF t = Frame - 1 THEN 0 ELSE t + 1
    BY <1>1, NextPosition
  <2>. HIDE DEF at
  <2>. QED  BY <1>1, <2>1, FrameBounds
<1>3. r.clock.at = at
  BY TickFields
<1>. HIDE DEF at
<1>4. /\ i.nmiValid <=> at >= Vblank
      /\ i.nmiHold <=> i.nmiValid /\ ~m.irq.nmiValid
      /\ i.nmiTransition <=> m.irq.nmiTransition \/ (m.irq.nmiHold /\ m.irq.nmiEnabled)
      /\ i.nmiEnabled = m.irq.nmiEnabled /\ i.wai = m.irq.wai /\ i.lock = m.irq.lock
      /\ DOMAIN i = IrqFields
  <2>1. at \in Nat
    BY <1>2
  <2>2. LineOf(at) >= Vdisp <=> at >= Vblank
    BY <2>1, VblankBegins
  <2>. QED  BY <2>2, PollNmiTimed, PollNmiFields DEF Shape
<1>5. r.irq = PollIrq(i, at)
  BY TickFields DEF at
<1>6. r.ghost.waited = IF i.wai /\ i.nmiEnabled
                         THEN IF w > Frame + 2 * Access THEN w ELSE w + 1 ELSE 0
  BY TickFields DEF at
<1>. HIDE DEF i
<1>7. /\ r.irq.nmiValid = i.nmiValid /\ r.irq.nmiHold = i.nmiHold
      /\ r.irq.nmiTransition = i.nmiTransition /\ r.irq.nmiEnabled = i.nmiEnabled
      /\ r.irq.wai = i.wai /\ r.irq.lock = i.lock
  BY <1>4, <1>5, PollIrqFields DEF IrqFields
<1>. HIDE DEF r
<1>8. CASE ~Expects(m)
  BY <1>2, <1>3, <1>4, <1>6, <1>7, <1>8, FrameBounds DEF Expects, Timed, r
<1>9. CASE Expects(m)
  <2>1. r.ghost.waited = w + 1
    BY <1>1, <1>4, <1>6, <1>9, FrameBounds DEF Expects
  <2>2. Near(r, k + 1)
    <3>1. CASE w <= Since(t)
      <4>1. CASE at = Vblank
        BY <1>1, <1>2, <1>3, <1>4, <1>7, <2>1, <3>1, <4>1, FrameBounds DEF Near, Since
      <4>2. CASE at # Vblank
        BY <1>1, <1>2, <1>3, <2>1, <3>1, <4>2, FrameBounds DEF Near, Since
      <4>. QED  BY <4>1, <4>2
    <3>2. CASE /\ w <= Frame + Since(t) /\ Since(t) <= k
               /\ m.irq.nmiTransition \/ (Since(t) = 0 /\ m.irq.nmiHold)
      <4>1. i.nmiTransition
        BY <1>4, <1>9, <3>2 DEF Expects
      <4>2. Since(at) = Since(t) + 1
        BY <1>1, <1>2, <3>2, FrameBounds DEF Since
      <4>3. Since(t) \in Nat
        BY <1>1, FrameBounds DEF Since
      <4>. QED  BY <1>1, <1>3, <1>7, <2>1, <3>2, <4>1, <4>2, <4>3, FrameBounds DEF Near
    <3>. QED  BY <1>9, <3>1, <3>2 DEF Near
  <2>3. r.ghost.waited \in 0 .. Frame + Access
    <3>1. Since(at) \in 0 .. Frame - 1
      BY <1>2, FrameBounds DEF Since
    <3>. QED  BY <1>1, <1>3, <2>1, <2>2, <3>1, FrameBounds DEF Near
  <2>. QED  BY <1>2, <1>3, <1>4, <1>7, <1>9, <2>2, <2>3 DEF Expects, Timed, r
<1>. QED  BY <1>8, <1>9

\* An access.
LEMMA StepTimed ==
  ASSUME NEW m, Shape(m), Timed(m), NEW units \in Nat, units <= Access, Expects(m) => Near(m, 0)
  PROVE  LET r == Step(m, units) IN
         /\ Timed(r) /\ ~r.irq.lock /\ r.irq.nmiEnabled = m.irq.nmiEnabled
         /\ Expects(r) => Near(r, units)
         /\ ~Expects(m) /\ units > 0 => r.ghost.waited = 0
<1> DEFINE f == After(m, units)
           Holds(k) == /\ Shape(f[k]) /\ Timed(f[k]) /\ ~f[k].irq.lock
                       /\ f[k].irq.nmiEnabled = m.irq.nmiEnabled
                       /\ Expects(f[k]) <=> Expects(m)
                       /\ Expects(f[k]) => Near(f[k], k)
                       /\ ~Expects(m) /\ k > 0 => f[k].ghost.waited = 0
           S == {k \in Nat : k <= units => Holds(k)}
<1>1. /\ Step(m, units) = f[units] /\ f[0] = Unlocked(m)
      /\ \A u \in 1 .. units : f[u] = Tick(f[u - 1])
  BY AfterExists
<1>2. 0 \in S
  <2> DEFINE lock == FALSE
             r == [m EXCEPT !.irq.lock = lock]
  <2>1. Shape(r)
    <3>. HIDE DEF lock
    <3>. QED  BY LockLater DEF Later, Same
  <2>2. /\ r.clock = m.clock /\ r.ghost = m.ghost /\ ~r.irq.lock
        /\ \A x \in IrqFields \ {"lock"} : r.irq[x] = m.irq[x]
    BY DEF Shape, Fields, IrqFields
  <2>3. f[0] = r
    BY <1>1 DEF Unlocked
  <2>. HIDE DEF r, f
  <2>4. /\ f[0].irq.nmiValid = m.irq.nmiValid /\ f[0].irq.nmiHold = m.irq.nmiHold
        /\ f[0].irq.nmiTransition = m.irq.nmiTransition
        /\ f[0].irq.nmiEnabled = m.irq.nmiEnabled /\ f[0].irq.wai = m.irq.wai
    BY <2>2, <2>3 DEF IrqFields
  <2>5. Timed(f[0]) /\ (Expects(f[0]) <=> Expects(m)) /\ (Expects(f[0]) => Near(f[0], 0))
    BY <2>2, <2>3, <2>4 DEF Timed, Expects, Near
  <2>6. Holds(0)
    BY <2>1, <2>2, <2>3, <2>4, <2>5
  <2>. QED  BY <2>6
<1>. HIDE DEF f
<1>3. ASSUME NEW k \in S PROVE k + 1 \in S
  <2>1. SUFFICES ASSUME k + 1 <= units PROVE Holds(k + 1)
    OBVIOUS
  <2>2. Holds(k) /\ k \in Nat /\ k < Access
    BY <2>1, FrameBounds
  <2>3. f[k + 1] = Tick(f[k])
    <3>1. k + 1 \in 1 .. units /\ k + 1 - 1 = k
      BY <2>1, <2>2
    <3>. QED  BY <1>1, <3>1
  <2>4. Shape(f[k + 1])
    BY <2>2, <2>3, TickSame DEF Same
  <2> DEFINE n == f[k]
             r == f[k + 1]
  <2>. HIDE DEF n
  <2>5. /\ Timed(Tick(n)) /\ (Expects(Tick(n)) <=> Expects(n)) /\ Tick(n).irq.lock = n.irq.lock
        /\ Tick(n).irq.nmiEnabled = n.irq.nmiEnabled
        /\ Expects(Tick(n)) => Near(Tick(n), k + 1)
        /\ ~Expects(Tick(n)) => Tick(n).ghost.waited = 0
    <3>1. Shape(n) /\ Timed(n) /\ (Expects(n) => Near(n, k))
      BY <2>2 DEF n
    <3>. QED  BY <2>2, <3>1, TickTimed
  <2>. QED  BY <2>2, <2>3, <2>4, <2>5 DEF n
<1>4. units \in S
  BY <1>2, <1>3, SetInduction
<1>5. Holds(units)
  BY <1>4
<1>. QED  BY <1>1, <1>5

\* No DMA and no H-DMA is enabled, pending or active.
Quiet(m) ==
  /\ ~m.dma.active /\ ~m.dma.pending /\ ~m.dma.hdmaPending
  /\ DmaEnabled(m) = {} /\ HdmaEnabled(m) = {}

\* A wait at step s and cycle c: each access is followed by a test, and nothing else.
WaitOK(m, s, c) ==
  /\ s # "dma" /\ Quiet(m) /\ Timed(m)
  /\ m.irq.wai => c = "wait" /\ ~m.irq.lock /\ s \in {"edge", "access"}
  /\ Expects(m) => Near(m, IF s = "edge" THEN Access ELSE 0)

WaitInvariant == CpuInv /\ (program.waits => WaitOK(Now, step, cycle))

\* What a wait is told by.
Timing(m) == << m.clock.at, m.irq, m.ghost.waited >>

LEMMA TimingKept ==
  ASSUME NEW m, NEW r, Timing(r) = Timing(m)
  PROVE  /\ Timed(m) => Timed(r)
         /\ Expects(r) <=> Expects(m)
         /\ \A k : Near(m, k) => Near(r, k)
BY DEF Timing, Timed, Expects, Near

LEMMA LaterQuiet ==
  ASSUME NEW m, NEW r, Later(m, r), Quiet(m)
  PROVE  Quiet(r) /\ r.irq.wai = m.irq.wai
BY DEF Later, Same, Tested, Transfers, Quiet, DmaEnabled, HdmaEnabled

LEMMA AluEdgeTimed ==
  ASSUME NEW m, Shape(m), AluOK(m)
  PROVE  LET r == AluEdge(m) IN
         /\ Shape(r) /\ Timing(r) = Timing(m) /\ r.irq = m.irq /\ (Quiet(m) => Quiet(r))
<1> DEFINE r == AluEdge(m)
<1>1. /\ DOMAIN r = Fields /\ r.clock = m.clock /\ r.dma = m.dma /\ r.channel = m.channel
      /\ r.irq = m.irq /\ r.ghost = m.ghost
  BY AluEdgeFields DEF AluOK, AluHolds
<1>. HIDE DEF r
<1>2. Shape(r) /\ Timing(r) = Timing(m)
  BY <1>1 DEF Shape, Timing
<1>3. Quiet(m) => Quiet(r)
  BY <1>1 DEF Quiet, DmaEnabled, HdmaEnabled
<1>. QED  BY <1>1, <1>2, <1>3 DEF r

LEMMA HdmaInitResetTimed ==
  ASSUME NEW m, Shape(m)
  PROVE  Timing(HdmaInitReset(m)) = Timing(m)
<1> DEFINE c    == [n \in Channel |-> [m.channel[n] EXCEPT !.completed = FALSE, !.transfer = FALSE]]
           none == {}
           no   == [n \in Channel |-> {}]
           g    == [m.ghost EXCEPT !.clean = none, !.moves = no]
           r    == HdmaInitReset(m)
<1>1. r = [m EXCEPT !.channel = c, !.ghost.clean = none, !.ghost.moves = no]
  BY DEF HdmaInitReset
<1>. HIDE DEF c, none, no, r
<1>2. r = [m EXCEPT !.channel = c, !.ghost = g]
  BY <1>1 DEF Shape, Fields, GhostFields
<1>3. g.waited = m.ghost.waited
  BY DEF Shape, GhostFields
<1>. HIDE DEF g
<1>4. r.clock = m.clock /\ r.irq = m.irq /\ r.ghost = g
  BY <1>2 DEF Shape, Fields
<1>. QED  BY <1>3, <1>4 DEF Timing, r

\* A flag of the clock, or of the transfers, tells nothing of a wait.
LEMMA SetTimed ==
  ASSUME NEW m, Shape(m), NEW c, DOMAIN c = {"at", "init", "run"}, c.at = m.clock.at, NEW d
  PROVE  /\ Timing([m EXCEPT !.clock = c]) = Timing(m)
         /\ Timing([m EXCEPT !.dma = d]) = Timing(m)
BY DEF Timing, Shape, Fields

Requested(m, mode) == [m EXCEPT !.dma.hdmaPending = TRUE, !.dma.hdmaMode = mode]
Activated(m)       == [m EXCEPT !.dma.active = TRUE, !.dma.clocks = 0]

LEMMA RequestTimed ==
  ASSUME NEW m, Shape(m), NEW mode
  PROVE  Timing(Requested(m, mode)) = Timing(m) /\ Timing(Activated(m)) = Timing(m)
<1> DEFINE d == [m.dma EXCEPT !.hdmaPending = TRUE, !.hdmaMode = mode]
           e == [m.dma EXCEPT !.active = TRUE, !.clocks = 0]
<1>1. Requested(m, mode) = [m EXCEPT !.dma = d] /\ Activated(m) = [m EXCEPT !.dma = e]
  BY DEF Requested, Activated, Shape, Fields, DmaFields
<1>. HIDE DEF d, e
<1>2. DOMAIN m.clock = {"at", "init", "run"} /\ m.clock.at = m.clock.at
  BY DEF Shape
<1>3. Timing([m EXCEPT !.dma = d]) = Timing(m) /\ Timing([m EXCEPT !.dma = e]) = Timing(m)
  BY <1>2, SetTimed
<1>. QED  BY <1>1, <1>3

LEMMA TriggersTimed ==
  ASSUME NEW m, Shape(m)
  PROVE  Timing(Triggers(m)) = Timing(m)
<1> DEFINE c == [m.clock EXCEPT !.init = TRUE]
           n == [m EXCEPT !.clock = c]
           z == HdmaInitReset(n)
           mode == "init"
           y == Requested(z, mode)
           h == m.clock.at % Line
           i == TriggerInit(m)
           r == TriggerRun(i, h)
<1>1. Triggers(m) = IF r.dma.active \/ ~(r.dma.pending \/ r.dma.hdmaPending) THEN r
                    ELSE Activated(r)
  BY DEF Triggers, TriggerInit, TriggerRun, Activated
<1>2. Shape(i) /\ Timing(i) = Timing(m)
  <2>1. i = IF m.clock.init \/ m.clock.at % Line < InitPosition THEN m
            ELSE IF HdmaEnabled(z) = {} THEN z ELSE y
    BY DEF TriggerInit, Requested
  <2>2. DOMAIN c = {"at", "init", "run"} /\ c.at = m.clock.at /\ c.at \in Nat
    BY DEF Shape
  <2>. HIDE DEF c
  <2>3. Shape(n) /\ Timing(n) = Timing(m)
    BY <2>2, SetClock, SetTimed DEF Triggered, Follows
  <2>. HIDE DEF n
  <2>4. Shape(z) /\ Timing(z) = Timing(n)
    BY <2>3, HdmaInitResetTimed, HdmaInitResetKept DEF Same
  <2>. HIDE DEF z
  <2>5. Timing(y) = Timing(z)
    BY <2>4, RequestTimed
  <2>6. Shape(i)
    BY TriggerInitTriggered DEF Triggered, Follows
  <2>. HIDE DEF y, i
  <2>. QED  BY <2>1, <2>3, <2>4, <2>5, <2>6
<1>. HIDE DEF i, h
<1>3. Shape(r) /\ Timing(r) = Timing(i)
  <2> DEFINE k == [i.clock EXCEPT !.run = TRUE]
             o == [i EXCEPT !.clock = k]
             run == "run"
             p == Requested(o, run)
  <2>1. r = IF i.clock.run \/ h < HdmaPosition THEN i
            ELSE IF HdmaActiveChannels(i) = {} THEN o ELSE p
    BY <1>2 DEF TriggerRun, Requested, Shape, Fields
  <2>2. DOMAIN k = {"at", "init", "run"} /\ k.at = i.clock.at /\ k.at \in Nat
    BY <1>2 DEF Shape
  <2>. HIDE DEF k
  <2>3. Shape(o) /\ Timing(o) = Timing(i)
    BY <1>2, <2>2, SetClock, SetTimed DEF Triggered, Follows
  <2>. HIDE DEF o
  <2>4. Timing(p) = Timing(o)
    BY <2>3, RequestTimed
  <2>5. Shape(r)
    BY <1>2, TriggerRunTriggered DEF Triggered, Follows
  <2>. HIDE DEF p, r
  <2>. QED  BY <2>1, <2>3, <2>4, <2>5
<1>. HIDE DEF r
<1>4. Timing(Activated(r)) = Timing(r)
  BY <1>3, RequestTimed
<1>. QED  BY <1>1, <1>2, <1>3, <1>4

LEMMA TriggersQuiet ==
  ASSUME NEW m, Shape(m), Quiet(m)
  PROVE  Quiet(Triggers(m))
<1> DEFINE r == Triggers(m)
<1>1. /\ FlagsKept(m, r) /\ FlagsKept(r, m) /\ r.dma.pending = m.dma.pending
      /\ r.dma.hdmaPending => m.dma.hdmaPending \/ HdmaEnabled(m) # {}
      /\ r.dma.active => m.dma.active \/ r.dma.pending \/ r.dma.hdmaPending
  BY TriggersFollow DEF Follows
<1>. HIDE DEF r
<1>2. DmaEnabled(r) = DmaEnabled(m) /\ HdmaEnabled(r) = HdmaEnabled(m)
  BY <1>1, EnabledKept
<1>. QED  BY <1>1, <1>2 DEF Quiet, r

\* The invariant after a step that leaves m.
LEMMA WaitAfter ==
  ASSUME NEW m, Becomes(m), WaitOK(m, step', cycle')
  PROVE  WaitOK(Now, step, cycle)'
<1>1. /\ Now'.clock = m.clock /\ Now'.dma = m.dma /\ Now'.channel = m.channel
      /\ Now'.irq = m.irq /\ Now'.ghost = m.ghost
  BY DEF Becomes, Now
<1>2. Quiet(Now)' /\ Timed(Now)' /\ (Expects(Now)' <=> Expects(m))
  BY <1>1 DEF WaitOK, Quiet, Timed, Expects, DmaEnabled, HdmaEnabled
<1>3. \A k : Near(m, k) => Near(Now', k)
  BY <1>1 DEF Near
<1>. QED  BY <1>1, <1>2, <1>3 DEF WaitOK, Expects

\* Between two tests of a program that does not wait, there is nothing to be near of.
LEMMA AwakeOK ==
  ASSUME NEW m, Quiet(m), Timed(m), ~m.irq.wai, step' # "dma"
  PROVE  WaitOK(m, step', cycle')
BY DEF WaitOK, Expects

LEMMA MainWait ==
  ASSUME CpuInv, WaitOK(Now, step, cycle), Main
  PROVE  WaitOK(Now, step, cycle)'
<1> DEFINE m == [Now EXCEPT !.irq = irq', !.ghost = ghost']
<1>0. Shape(Now)
  BY DEF CpuInv
<1>1. /\ m.clock = clock /\ m.dma = dma /\ m.channel = channel /\ m.irq = irq'
      /\ m.ghost = ghost' /\ m.pipe = pipe /\ m.alu = alu
  BY DEF Now
<1>2. Becomes(m) /\ step' = "edge" /\ step = "main"
  BY <1>1 DEF Main, Becomes
<1>. HIDE DEF m
<1>3. ~irq.wai
  BY <1>2, NowFields DEF WaitOK
<1>4. irq'.nmiValid = irq.nmiValid /\ ~irq'.wai /\ ghost'.waited = ghost.waited
  <2>1. DOMAIN irq = IrqFields /\ DOMAIN ghost = GhostFields
    BY <1>0, NowFields DEF Shape
  <2>. QED  BY <1>3, <2>1 DEF Main, IrqFields, GhostFields
<1>5. Quiet(m) /\ Timed(m)
  BY <1>1, <1>4, NowFields DEF WaitOK, Quiet, Timed, DmaEnabled, HdmaEnabled
<1>. QED  BY <1>1, <1>2, <1>4, <1>5, AwakeOK, WaitAfter

LEMMA LastCycleKeeps ==
  ASSUME NEW i, DOMAIN i = IrqFields
  PROVE  LET j == LastCycle(i) IN
         \A x \in {"nmiValid", "nmiEnabled", "lock"} : j[x] = i[x]
BY DEF LastCycle, IrqFields

\* lastCycle() lets no transition of the NMI pass that a wait has seen.
LEMMA EdgeStartTimed ==
  ASSUME CpuInv, step = "edge", WaitOK(Now, step, cycle)
  PROVE  LET t == EdgeStart IN
         /\ Quiet(t) /\ Timed(t)
         /\ t.irq.wai => cycle = "wait" /\ ~t.irq.lock
         /\ Expects(t) => Near(t, 0)
<1> DEFINE t == EdgeStart
           tested == cycle \in {"last", "wait"}
           i == IF tested THEN LastCycle(irq) ELSE irq
           seen == IF tested THEN irq.masked ELSE ghost.seen
           g == [ghost EXCEPT !.seen = seen]
<1>0. Shape(Now)
  BY DEF CpuInv
<1>1. DOMAIN irq = IrqFields /\ DOMAIN ghost = GhostFields
  BY <1>0, NowFields DEF Shape
<1>2. g.waited = ghost.waited
  <2>. HIDE DEF seen
  <2>. QED  BY <1>1 DEF GhostFields
<1>3. t = [Now EXCEPT !.irq = i, !.ghost = g]
  BY NowFields DEF EdgeStart, Now
<1>. HIDE DEF i, g, t
<1>4. t.clock = clock /\ t.dma = dma /\ t.channel = channel /\ t.irq = i /\ t.ghost = g
  BY <1>0, <1>3, NowFields DEF Shape, Fields
<1>5. /\ i.nmiValid = irq.nmiValid /\ i.nmiHold = irq.nmiHold /\ i.nmiEnabled = irq.nmiEnabled
      /\ i.lock = irq.lock /\ (i.wai => irq.wai)
      /\ tested /\ ~irq.lock /\ i.wai => ~irq.nmiTransition
  <2>1. CASE ~tested
    BY <2>1 DEF i
  <2>2. CASE tested
    BY <1>1, <2>2, LastCycleFields, LastCycleKeeps DEF i
  <2>. QED  BY <2>1, <2>2
<1>6. Quiet(t)
  BY <1>4, NowFields DEF WaitOK, Quiet, DmaEnabled, HdmaEnabled
<1>7. Timed(t)
  BY <1>2, <1>4, <1>5, NowFields DEF WaitOK, Timed
<1>8. t.irq.wai => cycle = "wait" /\ ~t.irq.lock
  BY <1>4, <1>5, NowFields DEF WaitOK
<1>9. ASSUME Expects(t) PROVE Near(t, 0)
  <2>1. Expects(Now) /\ cycle = "wait" /\ ~irq.lock
    BY <1>4, <1>5, <1>9, NowFields DEF WaitOK, Expects
  <2>2. ~irq.nmiTransition
    BY <1>4, <1>5, <1>9, <2>1 DEF Expects
  <2>3. Near(Now, Access)
    BY <2>1 DEF WaitOK
  <2>. QED  BY <1>2, <1>4, <1>5, <2>2, <2>3, NowFields DEF Near
<1>. QED  BY <1>6, <1>7, <1>8, <1>9 DEF t

LEMMA EdgeWait ==
  ASSUME CpuInv, WaitOK(Now, step, cycle), Edge
  PROVE  WaitOK(Now, step, cycle)'
<1> DEFINE t == EdgeStart
           m == Triggers(t)
<1>0. step = "edge" /\ cycle' = cycle
  BY DEF Edge
<1>1. Shape(t) /\ t.dma = dma
  BY <1>0, EdgeStartFacts
<1>2. /\ Quiet(t) /\ Timed(t) /\ (t.irq.wai => cycle = "wait" /\ ~t.irq.lock)
      /\ Expects(t) => Near(t, 0)
  BY <1>0, EdgeStartTimed
<1>3. ~dma.active
  BY NowFields DEF WaitOK, Quiet
<1>4. step' = "access" /\ Becomes(m)
  <2>1. HdmaPart(t) = t
    BY <1>1, <1>3 DEF HdmaPart
  <2>. QED  BY <1>3, <2>1 DEF Edge, EdgeStart
<1>. HIDE DEF t
<1>5. Timing(m) = Timing(t) /\ Quiet(m)
  BY <1>1, <1>2, TriggersTimed, TriggersQuiet
<1>. HIDE DEF m
<1>6. WaitOK(m, step', cycle')
  <2>1. m.irq = t.irq
    BY <1>5 DEF Timing
  <2>. QED  BY <1>0, <1>2, <1>4, <1>5, <2>1, TimingKept DEF WaitOK
<1>. QED  BY <1>4, <1>6, WaitAfter

\* An access of a program at its cycle.
LEMMA NowTimed ==
  ASSUME CpuInv, WaitOK(Now, step, cycle), step = "access"
  PROVE  /\ Shape(Now) /\ AluOK(Now) /\ Quiet(Now) /\ Timed(Now) /\ Access \in Nat \ {0}
         /\ irq.wai => cycle = "wait"
         /\ Expects(Now) => Near(Now, 0)
BY FrameBounds, NowFields DEF CpuInv, WaitOK

LEMMA StepQuiet ==
  ASSUME NEW m, Shape(m), Quiet(m), NEW units \in Nat
  PROVE  LET r == Step(m, units) IN
         Shape(r) /\ Quiet(r) /\ r.irq.wai = m.irq.wai /\ (AluOK(m) => AluOK(r))
<1>1. Later(m, Step(m, units))
  BY StepLater
<1>. QED  BY <1>1, LaterQuiet, LaterRests

LEMMA PlainWait ==
  ASSUME CpuInv, WaitOK(Now, step, cycle), Plain
  PROVE  WaitOK(Now, step, cycle)'
<1> DEFINE s == Step(Now, Access)
           m == AluEdge(s)
<1>0. step = "access" /\ NextCycle
  BY DEF Plain
<1>1. PICK k : Becomes([m EXCEPT !.irq.masked = k])
  BY DEF Plain
<1>2. /\ Shape(Now) /\ AluOK(Now) /\ Quiet(Now) /\ Timed(Now) /\ Access \in Nat \ {0}
      /\ irq.wai => cycle = "wait"
      /\ Expects(Now) => Near(Now, 0)
  BY <1>0, NowTimed
<1>3. /\ Shape(s) /\ Quiet(s) /\ s.irq.wai = irq.wai /\ AluOK(s)
      /\ Timed(s) /\ ~s.irq.lock /\ (Expects(s) => Near(s, Access))
  <2>1. Access \in Nat /\ Access <= Access
    BY <1>2
  <2>2. Shape(s) /\ Quiet(s) /\ s.irq.wai = irq.wai /\ AluOK(s)
    BY <1>2, <2>1, StepQuiet, NowFields
  <2>3. Timed(s) /\ ~s.irq.lock /\ (Expects(s) => Near(s, Access))
    BY <1>2, <2>1, StepTimed
  <2>. QED  BY <2>2, <2>3
<1>. HIDE DEF s
<1>4. Shape(m) /\ Timing(m) = Timing(s) /\ m.irq = s.irq /\ Quiet(m)
  BY <1>3, AluEdgeTimed
<1>. HIDE DEF m
<1> DEFINE i == [m.irq EXCEPT !.masked = k]
           r == WithIrq(m, i)
<1>5. Becomes(r)
  BY <1>1 DEF WithIrq
<1>6. /\ i.nmiValid = s.irq.nmiValid /\ i.nmiHold = s.irq.nmiHold /\ i.wai = s.irq.wai
      /\ i.nmiTransition = s.irq.nmiTransition /\ i.nmiEnabled = s.irq.nmiEnabled
      /\ i.lock = s.irq.lock
  BY <1>4 DEF Shape, IrqFields
<1>. HIDE DEF i
<1>7. r.clock = m.clock /\ r.dma = m.dma /\ r.channel = m.channel /\ r.ghost = m.ghost /\ r.irq = i
  BY <1>4 DEF WithIrq, Shape, Fields
<1>. HIDE DEF r
<1>8. Quiet(r) /\ Timed(r) /\ (Expects(r) <=> Expects(s)) /\ (Expects(r) => Near(r, Access))
  <2>1. Quiet(r)
    BY <1>4, <1>7 DEF Quiet, DmaEnabled, HdmaEnabled
  <2>2. r.clock.at = s.clock.at /\ r.ghost.waited = s.ghost.waited
    BY <1>4, <1>7 DEF Timing
  <2>. QED  BY <1>3, <1>6, <1>7, <2>1, <2>2 DEF Timed, Expects, Near
<1>9. CASE irq.wai
  <2>1. step' = "edge" /\ cycle' = "wait"
    BY <1>0, <1>2, <1>9 DEF NextCycle
  <2>. QED  BY <1>3, <1>5, <1>6, <1>7, <1>8, <2>1, WaitAfter DEF WaitOK
<1>10. CASE ~irq.wai
  <2>1. step' # "dma"
    BY <1>0, AccessStart, NextCycleHeld DEF NextCycle, Cycles
  <2>. QED  BY <1>3, <1>5, <1>6, <1>7, <1>8, <1>10, <2>1, AwakeOK, WaitAfter
<1>. QED  BY <1>9, <1>10

LEMMA WaitWait ==
  ASSUME CpuInv, WaitOK(Now, step, cycle), Wait
  PROVE  WaitOK(Now, step, cycle)'
<1> DEFINE s == Step(Now, Access)
           m == AluEdge(s)
           i == [m.irq EXCEPT !.wai = TRUE]
           r == WithIrq(m, i)
<1>0. step = "access" /\ cycle = "fetch" /\ step' = "edge" /\ cycle' = "wait"
  BY DEF Wait
<1>1. Becomes(r)
  BY DEF Wait, WithIrq
<1>2. /\ Shape(Now) /\ AluOK(Now) /\ Quiet(Now) /\ Timed(Now) /\ Access \in Nat \ {0}
      /\ ~irq.wai /\ ~Expects(Now)
  BY <1>0, NowTimed, NowFields DEF Expects
<1>3. /\ Shape(s) /\ Quiet(s) /\ AluOK(s) /\ Timed(s) /\ ~s.irq.lock /\ s.ghost.waited = 0
  <2>1. Access \in Nat /\ Access <= Access /\ Access > 0
    BY <1>2
  <2>2. Shape(s) /\ Quiet(s) /\ AluOK(s)
    BY <1>2, <2>1, StepQuiet
  <2>3. Timed(s) /\ ~s.irq.lock /\ s.ghost.waited = 0
    BY <1>2, <2>1, StepTimed
  <2>. QED  BY <2>2, <2>3
<1>. HIDE DEF s
<1>4. Shape(m) /\ Timing(m) = Timing(s) /\ m.irq = s.irq /\ Quiet(m)
  BY <1>3, AluEdgeTimed
<1>. HIDE DEF m
<1>5. i.nmiValid = s.irq.nmiValid /\ i.lock = s.irq.lock /\ i.wai
  BY <1>4 DEF Shape, IrqFields
<1>. HIDE DEF i
<1>6. r.clock = m.clock /\ r.dma = m.dma /\ r.channel = m.channel /\ r.ghost = m.ghost /\ r.irq = i
  BY <1>4 DEF WithIrq, Shape, Fields
<1>. HIDE DEF r
<1>7. Quiet(r)
  BY <1>4, <1>6 DEF Quiet, DmaEnabled, HdmaEnabled
<1>8. r.clock.at = s.clock.at /\ r.ghost.waited = 0
  BY <1>3, <1>4, <1>6 DEF Timing
<1>9. Timed(r)
  BY <1>3, <1>5, <1>6, <1>8 DEF Timed
<1>10. Near(r, Access)
  <2>1. Since(r.clock.at) >= 0
    BY <1>9, FrameBounds DEF Timed, Since
  <2>. QED  BY <1>8, <2>1 DEF Near
<1>11. WaitOK(r, step', cycle')
  BY <1>0, <1>3, <1>5, <1>6, <1>7, <1>9, <1>10 DEF WaitOK
<1>. QED  BY <1>1, <1>11, WaitAfter

\* A read or a write comes at a cycle at which the program does not wait.
LEMMA AccessAwake ==
  ASSUME CpuInv, WaitOK(Now, step, cycle), Accesses
  PROVE  /\ Shape(Now) /\ AluOK(Now) /\ Quiet(Now) /\ Timed(Now) /\ Access \in Nat \ {0}
         /\ ~irq.wai /\ ~Expects(Now) /\ step' # "dma"
<1>1. step = "access" /\ cycle \in {"middle", "last"} /\ NextCycle
  BY DEF Accesses
<1>2. step' # "dma"
  BY <1>1 DEF NextCycle
<1>. QED  BY <1>1, <1>2, NowTimed, NowFields DEF Expects

LEMMA ReadWait ==
  ASSUME CpuInv, WaitOK(Now, step, cycle), NEW reg, ReadCPU(reg)
  PROVE  WaitOK(Now, step, cycle)'
<1> DEFINE s == Step(Now, Access - 1)
           i == Acknowledged(reg, s.irq)
           a == WithIrq(s, i)
           o == Step(a, 1)
           r == AluEdge(o)
<1>0. /\ Shape(Now) /\ AluOK(Now) /\ Quiet(Now) /\ Timed(Now) /\ Access \in Nat \ {0}
      /\ ~irq.wai /\ ~Expects(Now) /\ step' # "dma"
  BY AccessAwake DEF ReadCPU
<1>1. Becomes(r)
  BY DEF ReadCPU, WithIrq
<1>2. Shape(s) /\ Quiet(s) /\ ~s.irq.wai /\ AluOK(s) /\ Timed(s)
  <2>1. Access - 1 \in Nat /\ Access - 1 <= Access
    BY <1>0
  <2>2. Shape(s) /\ Quiet(s) /\ s.irq.wai = irq.wai /\ AluOK(s)
    BY <1>0, <2>1, StepQuiet, NowFields
  <2>3. Timed(s)
    BY <1>0, <2>1, StepTimed
  <2>. QED  BY <1>0, <2>2, <2>3
<1>. HIDE DEF s
<1>3. DOMAIN i = IrqFields /\ i.nmiValid = s.irq.nmiValid /\ i.wai = s.irq.wai
  <2>1. /\ DOMAIN i = IrqFields
        /\ \A x \in IrqFields \ {"nmiLine", "irqLine", "irqTransition"} : i[x] = s.irq[x]
    BY <1>2, AcknowledgedFields DEF Shape
  <2>. HIDE DEF i
  <2>. QED  BY <2>1 DEF IrqFields
<1>. HIDE DEF i
<1>4. /\ DOMAIN a = Fields /\ a.clock = s.clock /\ a.dma = s.dma /\ a.channel = s.channel
      /\ a.pipe = s.pipe /\ a.irq = i /\ a.ghost = s.ghost /\ a.alu = s.alu
  BY <1>2 DEF WithIrq, Shape, Fields
<1>. HIDE DEF a
<1>5. Shape(a) /\ Quiet(a) /\ AluOK(a) /\ Timed(a) /\ ~a.irq.wai /\ ~Expects(a)
  BY <1>2, <1>3, <1>4 DEF Shape, Quiet, DmaEnabled, HdmaEnabled, AluOK, Timed, Expects
<1>6. Shape(o) /\ Quiet(o) /\ ~o.irq.wai /\ AluOK(o) /\ Timed(o)
  <2>1. 1 \in Nat /\ 1 <= Access
    BY <1>0
  <2>2. Shape(o) /\ Quiet(o) /\ o.irq.wai = a.irq.wai /\ AluOK(o)
    BY <1>5, <2>1, StepQuiet
  <2>3. Timed(o)
    BY <1>5, <2>1, StepTimed
  <2>. QED  BY <1>5, <2>2, <2>3
<1>. HIDE DEF o
<1>7. Quiet(r) /\ Timed(r) /\ ~r.irq.wai
  BY <1>6, AluEdgeTimed, TimingKept
<1>. HIDE DEF r
<1>. QED  BY <1>0, <1>1, <1>7, AwakeOK, WaitAfter

\* The state of the tables of H-DMA has not changed from m to r.
TableFields == {"hdma", "completed", "transfer", "line", "address"}
TablesKept(m, r) ==
  /\ r.ghost.clean = m.ghost.clean /\ r.ghost.moves = m.ghost.moves
  /\ \A n \in Channel : \A x \in TableFields : r.channel[n][x] = m.channel[n][x]

\* What a write that enables no DMA leaves alone.
Kept(m, r) ==
  /\ r.clock = m.clock /\ r.dma = m.dma /\ r.irq.wai = m.irq.wai
  /\ r.irq.nmiValid = m.irq.nmiValid /\ r.ghost.waited = m.ghost.waited
  /\ TablesKept(m, r) /\ \A n \in Channel : r.channel[n].dma = m.channel[n].dma

LEMMA NmitimenKeeps ==
  ASSUME NEW m, Shape(m), NEW v
  PROVE  Kept(m, Written("4200", m, v))
<1> DEFINE r == Written("4200", m, v)
           i == NmitimenUpdate(m.irq, v.nmi, v.virq, v.hirq)
           k == IF v.nmi /\ ~m.irq.nmiEnabled /\ m.irq.nmiLine
                  THEN IF m.ghost.causes > 2 THEN 3 ELSE m.ghost.causes + 1
                ELSE m.ghost.causes
           g == [m.ghost EXCEPT !.causes = k]
<1>1. r = [m EXCEPT !.irq = i, !.ghost = g]
  BY DEF Written, Shape, Fields
<1>2. i.wai = m.irq.wai /\ i.nmiValid = m.irq.nmiValid
  <2>1. DOMAIN m.irq = IrqFields
    BY DEF Shape
  <2>. QED  BY <2>1 DEF NmitimenUpdate, IrqFields
<1>3. g.waited = m.ghost.waited /\ g.clean = m.ghost.clean /\ g.moves = m.ghost.moves
  <2>. HIDE DEF k
  <2>. QED  BY DEF Shape, GhostFields
<1>. HIDE DEF r, i, g
<1>4. r.clock = m.clock /\ r.dma = m.dma /\ r.channel = m.channel /\ r.irq = i /\ r.ghost = g
  BY <1>1 DEF Shape, Fields
<1>. QED  BY <1>2, <1>3, <1>4 DEF Kept, TablesKept, r

LEMMA ChannelKeeps ==
  ASSUME NEW m, Shape(m), NEW n \in Channel, NEW x \in {"size", "source"}, NEW k
  PROVE  Kept(m, [m EXCEPT !.channel[n][x] = k])
<1> DEFINE c == [m.channel[n] EXCEPT ![x] = k]
           r == [m EXCEPT !.channel[n] = c]
<1>1. c.dma = m.channel[n].dma /\ \A y \in TableFields : c[y] = m.channel[n][y]
  BY DEF Shape, ChannelFields, TableFields
<1>2. [m EXCEPT !.channel[n][x] = k] = r
  BY DEF Shape
<1>. HIDE DEF c
<1>3. /\ r.clock = m.clock /\ r.dma = m.dma /\ r.irq = m.irq /\ r.ghost = m.ghost
      /\ r.channel = [m.channel EXCEPT ![n] = c]
  BY DEF Shape, Fields
<1>. HIDE DEF r
<1>4. \A l \in Channel : r.channel[l] = IF l = n THEN c ELSE m.channel[l]
  BY <1>3 DEF Shape
<1>5. Kept(m, r)
  BY <1>1, <1>3, <1>4 DEF Kept, TablesKept
<1>. QED  BY <1>2, <1>5

LEMMA OperatesKeeps ==
  ASSUME NEW m, Shape(m), NEW l, NEW op
  PROVE  Kept(m, Operates(m, l, op))
<1> DEFINE r == Operates(m, l, op)
<1>1. /\ r.clock = m.clock /\ r.dma = m.dma /\ r.channel = m.channel /\ r.irq = m.irq
      /\ r.ghost = [m.ghost EXCEPT !.op = op]
  BY DEF Operates, Shape, Fields
<1>. HIDE DEF r
<1>2. /\ r.ghost.waited = m.ghost.waited /\ r.ghost.clean = m.ghost.clean
      /\ r.ghost.moves = m.ghost.moves
  BY <1>1 DEF Shape, GhostFields
<1>. QED  BY <1>1, <1>2 DEF Kept, TablesKept, r

LEMMA FactorKeeps ==
  ASSUME NEW m, Shape(m), m.alu \in AluRegisters, NEW a, NEW b
  PROVE  Kept(m, WriteFactor(m, a, b))
<1>1. CASE Busy(m)
  <2> DEFINE l  == [m.alu EXCEPT !.rdmpy = 0]
             op == Resumed(m.alu, m.ghost.op, 0)
  <2>1. WriteFactor(m, a, b) = Operates(m, l, op)
    <3>1. WriteFactor(m, a, b) = [m EXCEPT !.alu.rdmpy = 0, !.ghost.op = op]
      BY <1>1 DEF WriteFactor
    <3>. HIDE DEF op
    <3>. QED  BY <3>1 DEF Operates, Shape, Fields
  <2>. QED  BY <2>1, OperatesKeeps
<1>2. CASE ~Busy(m)
  <2> DEFINE l  == [mpyctr |-> FactorBits, divctr |-> 0, shift |-> b, rdmpy |-> 0,
                    rddiv |-> b * 2 ^ FactorBits + a]
             op == << "mpy", a, b, 0 >>
  <2>1. WriteFactor(m, a, b) = Operates(m, l, op)
    BY <1>2 DEF WriteFactor, Operates
  <2>. HIDE DEF l, op
  <2>. QED  BY <2>1, OperatesKeeps
<1>. QED  BY <1>1, <1>2

LEMMA DivisorKeeps ==
  ASSUME NEW m, Shape(m), m.alu \in AluRegisters, NEW a, NEW b
  PROVE  Kept(m, WriteDivisor(m, a, b))
<1>1. CASE Busy(m)
  <2> DEFINE l  == [m.alu EXCEPT !.rdmpy = a]
             op == Resumed(m.alu, m.ghost.op, a)
  <2>1. WriteDivisor(m, a, b) = Operates(m, l, op)
    <3>1. WriteDivisor(m, a, b) = [m EXCEPT !.alu.rdmpy = a, !.ghost.op = op]
      BY <1>1 DEF WriteDivisor
    <3>. HIDE DEF op
    <3>. QED  BY <3>1 DEF Operates, Shape, Fields
  <2>. QED  BY <2>1, OperatesKeeps
<1>2. CASE ~Busy(m)
  <2> DEFINE shift == b * 2 ^ (2 * FactorBits)
             bits  == 2 * FactorBits
             l     == [m.alu EXCEPT !.divctr = bits, !.rdmpy = a, !.shift = shift]
             op    == << "div", bits, b, a, 0 >>
  <2>1. WriteDivisor(m, a, b) = [m EXCEPT !.alu.divctr = bits, !.alu.rdmpy = a,
                                          !.alu.shift = shift, !.ghost.op = op]
    BY <1>2 DEF WriteDivisor
  <2>. HIDE DEF shift, bits, op
  <2>2. WriteDivisor(m, a, b) = Operates(m, l, op)
    BY <2>1 DEF Operates, Shape, Fields
  <2>. HIDE DEF l
  <2>. QED  BY <2>2, OperatesKeeps
<1>. QED  BY <1>1, <1>2

LEMMA WriteWait ==
  ASSUME CpuInv, WaitOK(Now, step, cycle), NEW reg \in Registers \ {"420b", "420c"}, WriteCPU(reg)
  PROVE  WaitOK(Now, step, cycle)'
<1> DEFINE a == AluEdge(Now)
           m == Step(a, Access)
<1>0. /\ Shape(Now) /\ AluOK(Now) /\ Quiet(Now) /\ Timed(Now) /\ Access \in Nat \ {0}
      /\ ~irq.wai /\ ~Expects(Now) /\ step' # "dma"
  BY AccessAwake DEF WriteCPU
<1>1. PICK v \in program.writes[reg] : Becomes(Written(reg, m, v))
  BY DEF WriteCPU
<1>2. program \in Programs /\ reg \in DOMAIN program.writes
  BY DEF CpuInv, WriteCPU
<1>3. Shape(a) /\ Quiet(a) /\ Timed(a) /\ ~a.irq.wai /\ ~Expects(a) /\ AluOK(a)
  <2>1. Shape(a) /\ Timing(a) = Timing(Now) /\ a.irq = irq /\ Quiet(a)
    BY <1>0, AluEdgeTimed, NowFields
  <2>2. AluOK(a)
    <3>1. a.ghost = ghost /\ a.alu = AluStep(alu)
      BY <1>0, AluEdgeFields, NowFields DEF AluOK, AluHolds
    <3>. HIDE DEF a
    <3>. QED  BY <1>0, <3>1, AluStepHolds, NowFields DEF AluOK
  <2>. HIDE DEF a
  <2>. QED  BY <1>0, <2>1, <2>2, TimingKept
<1>. HIDE DEF a
<1>4. Shape(m) /\ Quiet(m) /\ Timed(m) /\ ~m.irq.wai /\ m.alu \in AluRegisters
  <2>1. Access \in Nat /\ Access <= Access
    BY <1>0
  <2>2. Shape(m) /\ Quiet(m) /\ m.irq.wai = a.irq.wai /\ AluOK(m)
    BY <1>3, <2>1, StepQuiet
  <2>3. Timed(m)
    BY <1>3, <2>1, StepTimed
  <2>. QED  BY <1>3, <2>2, <2>3 DEF AluOK, AluHolds
<1>. HIDE DEF m
<1> DEFINE r == Written(reg, m, v)
<1>5. Kept(m, r)
  <2>1. CASE reg = "4200"
    BY <1>4, <2>1, NmitimenKeeps
  <2>2. CASE reg = "size"
    <3> DEFINE x == "size"
               n == v.n
               k == v.size
    <3>1. n \in Channel
      BY <1>1, <1>2, <2>2, CpuAssumption
    <3>2. r = [m EXCEPT !.channel[n][x] = k]
      BY <2>2 DEF Written
    <3>. HIDE DEF n, k, r
    <3>. QED  BY <1>4, <3>1, <3>2, ChannelKeeps
  <2>3. CASE reg = "source"
    <3> DEFINE x == "source"
    <3>1. v \in Channel
      BY <1>1, <1>2, <2>3, CpuAssumption
    <3>2. r = [m EXCEPT !.channel[v][x] = 0]
      BY <2>3 DEF Written
    <3>. HIDE DEF r
    <3>. QED  BY <1>4, <3>1, <3>2, ChannelKeeps
  <2>4. CASE reg = "mpy"
    BY <1>4, <2>4, FactorKeeps DEF Written
  <2>5. CASE reg = "div"
    BY <1>4, <2>5, DivisorKeeps DEF Written
  <2>. QED  BY <2>1, <2>2, <2>3, <2>4, <2>5 DEF Registers
<1>. HIDE DEF r
<1>6. Quiet(r) /\ Timed(r) /\ ~r.irq.wai
  <2>1. DmaEnabled(r) = DmaEnabled(m) /\ HdmaEnabled(r) = HdmaEnabled(m)
    BY <1>5 DEF Kept, TablesKept, TableFields, DmaEnabled, HdmaEnabled
  <2>. QED  BY <1>4, <1>5, <2>1 DEF Kept, Quiet, Timed
<1>7. Becomes(r)
  BY <1>1 DEF r
<1>. QED  BY <1>0, <1>6, <1>7, AwakeOK, WaitAfter

-----------------------------------------------------------------------------
(* The theorems *)

LEMMA NextInv == CpuInv /\ [Next]_vars => CpuInv'
<1>. SUFFICES ASSUME CpuInv, [Next]_vars PROVE CpuInv'
  OBVIOUS
<1>1. CASE Main
  BY <1>1, MainInv
<1>2. CASE Edge
  BY <1>2, EdgeInv
<1>3. CASE \E n \in Channel : DmaByte(n)
  BY <1>3, DmaByteInv
<1>4. CASE DmaClose
  BY <1>4, DmaCloseInv
<1>5. CASE DmaReturn
  BY <1>5, DmaReturnInv
<1>6. CASE Plain
  BY <1>6, PlainInv
<1>7. CASE Wait
  BY <1>7, WaitInv
<1>8. CASE \E reg \in {"4210", "4211"} : ReadCPU(reg)
  BY <1>8, ReadCPUInv
<1>9. CASE \E reg \in Registers : WriteCPU(reg)
  BY <1>9, WriteCPUInv
<1>10. CASE UNCHANGED vars
  BY <1>10 DEF vars, CpuInv, Now, Shape, Accounted, AluOK, Running, Resting, IrqHeld, Past,
       DmaEnabled, HdmaEnabled, PipeValid
<1>. QED  BY <1>1, <1>2, <1>3, <1>4, <1>5, <1>6, <1>7, <1>8, <1>9, <1>10 DEF Next

LEMMA CpuInvariant == Spec => []CpuInv
BY InitInv, NextInv, PTL DEF Spec

\* Whatever the program writes to 0x420b and 0x420c, and when, and whatever H-DMA interrupts
\* and ends, no transfer begins or goes on without a cycle of the CPU before it: after
\* dmaEdge(), DMA is active only for what is still pending or was withdrawn.
THEOREM ActiveCorrect == Spec => []ActiveIsPending
<1>1. CpuInv => ActiveIsPending
  BY NowFields DEF CpuInv, ActiveIsPending, Resting
<1>. QED  BY <1>1, CpuInvariant, PTL

\* No transfer, to whatever target and on whatever channel, enables DMA while dmaRun() is in
\* its loop, and dmaEdge() leaves no byte in the pipe.
THEOREM IsolatedCorrect == Spec => []DmaIsolated
<1>1. CpuInv => DmaIsolated
  BY NowFields DEF CpuInv, DmaIsolated, Running, Resting
<1>. QED  BY <1>1, CpuInvariant, PTL

\* No vblank, and no time the NMI is enabled while its line is up, is taken twice, whatever
\* reads and writes come between the line, the transition and the vector.
THEOREM NmiCorrect == Spec => []NmiHasCause
<1>1. CpuInv => NmiHasCause
  BY NowFields, FlagValue DEF CpuInv, NmiHasCause, Accounted
<1>. QED  BY <1>1, CpuInvariant, PTL

\* Whatever the widths of the registers: once the ALU has stopped, its registers hold the
\* product of what was written, or the quotient and the remainder, with those the hardware
\* gives for a division by zero, and what is written while it is busy does not disturb the
\* steps that are left (timing.cpp, io.cpp).
THEOREM AluCorrect == Spec => []AluResult
<1>1. CpuInv => AluResult
  <2>. SUFFICES ASSUME CpuInv, alu.mpyctr + alu.divctr = 0
                PROVE  LET op == ghost.op IN
                       /\ op[1] = "mpy" => IsProduct(op[2], op[3], op[4])
                       /\ op[1] = "div" => IsQuotient(op[2], op[3], op[4], op[5])
    BY DEF AluResult
  <2>1. AluHolds(alu, ghost.op)
    BY NowFields DEF CpuInv, AluOK
  <2>. QED  BY <2>1, AluEnds
<1>. QED  BY <1>1, CpuInvariant, PTL

\* An IRQ is never taken that was masked at the last cycle at which it was tested, unless an
\* NMI that was pending with it came first.
THEOREM MaskedCorrect == Spec => MaskedIrqAfterNmi
<1> DEFINE Taken == irq.irqPending /\ ~irq'.irqPending => ~ghost.seen \/ ghost.preempted
<1>1. CpuInv /\ [Next]_vars => [Taken]_vars
  <2>. SUFFICES ASSUME CpuInv, [Next]_vars PROVE Taken \/ UNCHANGED vars
    OBVIOUS
  <2>1. CASE Main
    BY NowFields DEF CpuInv, IrqHeld
  <2>2. CASE ~Main /\ ~UNCHANGED vars
    <3>1. irq.irqPending => irq'.irqPending
      BY <2>2, EdgeInv, DmaByteInv, DmaCloseInv, DmaReturnInv, PlainInv, WaitInv, ReadCPUInv,
         WriteCPUInv DEF Next
    <3>. QED  BY <3>1
  <2>. QED  BY <2>1, <2>2
<1>. QED  BY <1>1, CpuInvariant, PTL DEF Spec, MaskedIrqAfterNmi

\* For every frame, access and program that uses WAI and enables no DMA: wherever in a frame
\* the wait begins, and whatever was read and written before, the next vblank whose NMI is
\* enabled ends it.
THEOREM WaitCorrect ==
  ASSUME \A p \in Programs : p.waits => DOMAIN p.writes \cap {"420b", "420c"} = {}
  PROVE  Spec => []WaitEnds
<1>1. Init => WaitInvariant
  <2>. SUFFICES ASSUME Init PROVE WaitInvariant
    OBVIOUS
  <2>1. clock.at = 0 /\ ghost.waited = 0 /\ ~irq.nmiValid /\ ~irq.wai
    BY DEF Init
  <2>2. Timed(Now)
    BY <2>1, NowFields, FrameBounds DEF Timed
  <2>3. Quiet(Now)
    BY NowFields DEF Init, Quiet, DmaEnabled, HdmaEnabled
  <2>4. step # "dma"
    BY DEF Init
  <2>. QED  BY <2>1, <2>2, <2>3, <2>4, InitInv, NowFields DEF WaitInvariant, WaitOK, Expects
<1>2. WaitInvariant /\ [Next]_vars => WaitInvariant'
  <2>. SUFFICES ASSUME WaitInvariant, [Next]_vars PROVE WaitInvariant'
    OBVIOUS
  <2>1. CpuInv /\ CpuInv' /\ program' = program
    <3>1. CpuInv /\ CpuInv'
      BY NextInv DEF WaitInvariant
    <3>2. CASE \E n \in Channel : DmaByte(n)
      BY <3>1, <3>2 DEF DmaByte
    <3>3. CASE \E reg \in {"4210", "4211"} : ReadCPU(reg)
      BY <3>1, <3>3 DEF ReadCPU
    <3>4. CASE \E reg \in Registers : WriteCPU(reg)
      BY <3>1, <3>4 DEF WriteCPU
    <3>5. CASE Main \/ Edge \/ DmaClose \/ DmaReturn
      BY <3>1, <3>5 DEF Main, Edge, DmaClose, DmaReturn
    <3>6. CASE Plain \/ Wait \/ UNCHANGED vars
      BY <3>1, <3>6 DEF Plain, Wait, vars
    <3>. QED  BY <3>1, <3>2, <3>3, <3>4, <3>5, <3>6 DEF Next
  <2>2. SUFFICES ASSUME program.waits PROVE WaitOK(Now, step, cycle)'
    BY <2>1 DEF WaitInvariant
  <2>3. WaitOK(Now, step, cycle) /\ step # "dma"
    BY <2>2 DEF WaitInvariant, WaitOK
  <2>4. CASE Main
    BY <2>1, <2>3, <2>4, MainWait
  <2>5. CASE Edge
    BY <2>1, <2>3, <2>5, EdgeWait
  <2>6. CASE (\E n \in Channel : DmaByte(n)) \/ DmaClose \/ DmaReturn
    <3>1. CASE \E n \in Channel : DmaByte(n)
      BY <2>3, <3>1 DEF DmaByte
    <3>2. CASE DmaClose \/ DmaReturn
      BY <2>3, <3>2 DEF DmaClose, DmaReturn
    <3>. QED  BY <2>6, <3>1, <3>2
  <2>7. CASE Plain
    BY <2>1, <2>3, <2>7, PlainWait
  <2>8. CASE Wait
    BY <2>1, <2>3, <2>8, WaitWait
  <2>9. CASE \E reg \in {"4210", "4211"} : ReadCPU(reg)
    BY <2>1, <2>3, <2>9, ReadWait
  <2>10. CASE \E reg \in Registers : WriteCPU(reg)
    <3>1. PICK reg \in Registers : WriteCPU(reg)
      BY <2>10
    <3>2. program \in Programs /\ reg \in DOMAIN program.writes
      BY <2>1, <3>1 DEF CpuInv, WriteCPU
    <3>3. reg \notin {"420b", "420c"}
      BY <2>2, <3>2
    <3>. QED  BY <2>1, <2>3, <3>1, <3>3, WriteWait
  <2>11. CASE UNCHANGED vars
    BY <2>3, <2>11 DEF vars, Now, WaitOK, Quiet, Timed, Expects, Near, DmaEnabled, HdmaEnabled
  <2>. QED  BY <2>4, <2>5, <2>6, <2>7, <2>8, <2>9, <2>10, <2>11 DEF Next
<1>3. WaitInvariant => WaitEnds
  <2>. SUFFICES ASSUME WaitInvariant PROVE WaitEnds
    OBVIOUS
  <2>1. CASE program.waits
    BY <2>1, NowFields, FrameBounds DEF WaitInvariant, WaitOK, Timed, WaitEnds
  <2>2. CASE ~program.waits
    BY <2>2, NowFields, FrameBounds DEF WaitInvariant, CpuInv, Accounted, WaitEnds
  <2>. QED  BY <2>1, <2>2
<1>. QED  BY <1>1, <1>2, <1>3, PTL DEF Spec

=============================================================================
