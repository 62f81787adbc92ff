-------------------------- MODULE MCSuperFamicomCPU ---------------------------
(* Values for the constants of SuperFamicomCPU. *)
EXTENDS SuperFamicomCPU, TLC

\* A table in memory: each count, its address if it is indirect, and the data of the lines
\* it transfers on, all of them bytes that would be counts of 3 lines.
Data(k) == [i \in 1 .. k |-> 3]
Entry(b, length, indirect) ==
  << b >> \o Data(IF indirect THEN 2
                  ELSE length * (IF b > CountHalf THEN EntryLines(b) ELSE 1))
Table(entries, length, indirect) ==
  LET upTo[i \in 0 .. Len(entries)] ==
        IF i = 0 THEN << >> ELSE upTo[i - 1] \o Entry(entries[i], length, indirect)
  IN  upTo[Len(entries)] \o << 0 >>

Chan(entries, length, indirect, target, fixed, width) ==
  [entries |-> entries, length |-> length, indirect |-> indirect, target |-> target,
   fixed |-> fixed, width |-> width, memory |-> Table(entries, length, indirect)]

Two(a, b) == (0 :> a) @@ (1 :> b)
Direct  == Chan(<< 2, 5, 1 >>, 2, FALSE, "bbus", TRUE, 16)
Long    == Chan(<< 4 >>, 1, FALSE, "memory", TRUE, 4)
Repeat  == Chan(<< 5, 1, 2 >>, 1, TRUE, "bbus", TRUE, 8)
Moving  == Chan(<< 6 >>, 1, FALSE, "bbus", FALSE, 4)
Own     == Chan(<< 3, 1 >>, 1, FALSE, "420b", TRUE, 4)

Program(channels, writes, reads, waits, flags) ==
  [channel |-> channels, writes |-> writes, reads |-> reads, waits |-> waits, flags |-> flags,
   vpos |-> 2, hpos |-> 4]

Enables == SUBSET {0, 1}
Nmitimen == [nmi : BOOLEAN, virq : BOOLEAN, hirq : BOOLEAN]

\* H-DMA on both channels while DMA runs on either.
HdmaProgram ==
  Program(Two(Direct, Repeat), ("420b" :> {{0}, {1}}) @@ ("420c" :> {{0, 1}}), {}, FALSE, {TRUE})
\* H-DMA on one and DMA on the other, each enabled and disabled at any time.
WithdrawProgram ==
  Program(Two(Long, Direct), ("420b" :> {{}, {1}}) @@ ("420c" :> {{}, {0}}), {}, FALSE, {TRUE})
\* A channel whose DMA moves the address its table starts at.
MovingProgram ==
  Program(Two(Long, Moving),
          ("420b" :> {{1}}) @@ ("420c" :> {{1}}) @@ ("source" :> {1}), {}, FALSE, {TRUE})
\* DMA of any size, to a register of the CPU.
SizeProgram ==
  Program(Two(Direct, Own), ("420b" :> Enables) @@ ("size" :> [n : {1}, size : {0, 2}]),
          {}, FALSE, {TRUE})
\* The interrupts, with and without WAI.
InterruptProgram ==
  Program(Two(Direct, Long), "4200" :> Nmitimen, {"4210", "4211"}, FALSE, BOOLEAN)
WaitProgram ==
  Program(Two(Direct, Long), "4200" :> {v \in Nmitimen : ~v.virq}, {"4210"}, TRUE, {FALSE})
\* Multiplications and divisions, begun at any time, also while one is under way.
AluProgram ==
  Program(Two(Direct, Long),
          ("mpy" :> {5, 7} \X {0, 7}) @@ ("div" :> {29, 63} \X {0, 5}),
          {}, FALSE, {TRUE})

CpuPrograms == {HdmaProgram, WithdrawProgram, MovingProgram, SizeProgram, InterruptProgram, WaitProgram, AluProgram}
=============================================================================
