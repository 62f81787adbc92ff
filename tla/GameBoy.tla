-------------------------------- MODULE GameBoy --------------------------------
(***************************************************************************)
(* The threads of a Game Boy, as gb/system/system.cpp puts them together.  *)
(* The picture unit and the sound unit synchronize with the CPU after each *)
(* of their steps, and the CPU with both after each clock.                 *)
(***************************************************************************)
GbThreads == {"gbcpu", "gbppu", "gbapu"}

\* CPU::step(), PPU::step() and APU::main().
GbPeers == [t \in GbThreads |-> IF t = "gbcpu" THEN << "gbppu", "gbapu" >> ELSE << "gbcpu" >>]

GbLead == [t \in GbThreads |-> [u \in GbThreads |-> 0]]

\* System::power(), which is also the order of System::runToSave().
GbPower == << "gbcpu", "gbppu", "gbapu" >>
GbSave  == << "gbcpu", "gbppu", "gbapu" >>
=============================================================================
