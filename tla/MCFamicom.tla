------------------------------- MODULE MCFamicom -------------------------------
(* Values for the constants of Famicom: a second of 63 units, a light gun in  *)
(* the first port, and devices without a clock of their own in the others.    *)
EXTENDS Famicom

TwoDevices   == << "port1", "port2" >>
ThreeDevices == TwoDevices \o << "expansion" >>

FcSecond == 63

\* rate() is 12 for the CPU and the APU and 4 for the PPU; the light gun is clocked like
\* the CPU, and an idle device steps one second at a time.
FcScalars == [t \in FcThreads |-> CASE t = "ppu" -> {4} [] t = "port1" -> {12}
                                     [] t \in FcPorts \ {"port1"} -> {FcSecond} [] OTHER -> {12}]

\* An instruction takes one or two steps here, and a scanline two, each a third as long.
FcBodies  == [t \in FcThreads |-> CASE t = "cpu" -> {1, 2} [] t = "ppu" -> {2} [] OTHER -> {1}]

\* Where ports are replaced an instruction takes one step: the picture unit is then in the
\* middle of a line at every other instruction.
FcBody    == [FcBodies EXCEPT !["cpu"] = {1}]

NoDmc   == [a \in {} |-> "cpu"]
NoSwaps == {}

\* One port, the two ports a Four Score takes, and the expansion port.
FcSwaps == {<< "port1" >>, << "port1", "port2" >>}
AllSwaps == FcSwaps \cup {<< "expansion" >>}
=============================================================================
