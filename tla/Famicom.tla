-------------------------------- MODULE Famicom --------------------------------
(***************************************************************************)
(* The threads of a Famicom, as fc/system/system.cpp puts them together.   *)
(* A step of a thread is one call of its step() function, and a second of  *)
(* its clock is the constant Second.                                       *)
(***************************************************************************)
EXTENDS SchedulerProps

CONSTANT Devices    \* CPU::peripherals: the devices of the controller ports, then of the expansion port

FcPorts   == {Devices[i] : i \in DOMAIN Devices}
FcThreads == {"cpu", "apu", "ppu", "cartridge"} \cup FcPorts

\* CPU::step() synchronizes with everything, and everything with the CPU.
FcPeers == [t \in FcThreads |-> IF t = "cpu" THEN Devices \o << "apu", "ppu", "cartridge" >>
                                              ELSE << "cpu" >>]

\* Thread::synchronize() of this core compares the clocks and no more.
FcLead == [t \in FcThreads |-> [u \in FcThreads |-> 0]]

\* System::power(): the cartridge's board first, the devices last.
FcPower == << "cartridge", "cpu", "apu", "ppu" >> \o Devices

\* System::runToSave() of a system that is no VS. System.
FcSave == << "cpu", "apu", "ppu", "cartridge" >> \o Devices

\* DMC::clock() holds the CPU while it fetches a sample byte.
FcDmc == [a \in {"apu"} |-> "cpu"]

\* README.txt:92: saving a state while a light gun is connected makes the emulator hang.
\* The light guns are the devices that step with a clock of their own.
LightGunHangs == (\E t \in FcPorts : scalar[t] # Second) => phase # "saved"
=============================================================================
