------------------------------ MODULE SuperFamicom ------------------------------
(***************************************************************************)
(* The threads of a Super Famicom with an SA-1 and one of its controllers, *)
(* as sfc/system/system.cpp puts them together.  The CPU synchronizes with *)
(* the chips once a scanline and when it accesses them: a step of it here  *)
(* is what it does between two of those points.                            *)
(***************************************************************************)
EXTENDS SchedulerProps

SfcThreads == {"cpu", "smp", "dsp", "ppu", "sa1", "port"}
SfcPorts   == {"port"}

\* CPU::step() and CPU::scanline(); SMP::step(); the DSP, the PPU, the SA-1 and the device.
SfcPeers == [t \in SfcThreads |->
               CASE t = "cpu" -> << "port", "smp", "ppu", "sa1" >>
                 [] t = "smp" -> << "dsp", "cpu" >>
                 [] t = "dsp" -> << "smp" >>
                 [] OTHER -> << "cpu" >>]

\* SMP::step() lets the SMP run a part of a second ahead of the CPU.
SfcLeadOf(ahead) == [t \in SfcThreads |-> [u \in SfcThreads |->
                       IF t = "smp" /\ u = "cpu" THEN ahead ELSE 0]]

\* System::power(), and the devices it connects last.
SfcPower == << "cpu", "smp", "dsp", "ppu", "sa1", "port" >>

\* System::runToSave().
SfcSave  == << "cpu", "smp", "ppu", "dsp", "sa1", "port" >>
=============================================================================
