---------------------------- MODULE MCSuperFamicom ----------------------------
(* Values for the constants of SuperFamicom: a second of 63 units, of which *)
(* the SMP may run 20 ahead of the CPU.                                      *)
EXTENDS SuperFamicom

SfcSecond  == 63
SfcLead    == SfcLeadOf(20)
SfcScalars == [t \in SfcThreads |-> CASE t \in {"ppu", "sa1"} -> {8} [] t = "port" -> {SfcSecond}
                                      [] OTHER -> {16}]
\* A block transfer of the CPU is longer than a frame.
SfcBodies  == [t \in SfcThreads |-> CASE t = "cpu" -> {3} [] t = "ppu" -> {2} [] OTHER -> {1}]
NoDmc      == [a \in {} |-> "cpu"]
=============================================================================
