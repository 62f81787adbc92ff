---------------------------- MODULE MCSuperGameBoy ----------------------------
(* Values for the constants of SuperGameBoy: the CPU, the PPU and the ICD2 of *)
(* the Super Famicom, and the three threads of the Game Boy.                  *)
EXTENDS SuperGameBoy

SgbThreads   == {"cpu", "ppu", "icd2"}
SgbPeers     == [t \in SgbThreads |-> IF t = "cpu" THEN << "ppu", "icd2" >> ELSE << "cpu" >>]
SgbLead      == [t \in SgbThreads |-> [u \in SgbThreads |-> 0]]
SgbPower     == << "cpu", "ppu", "icd2" >>
SgbScalars   == [t \in SgbThreads |-> {1}]
SgbBodies    == [t \in SgbThreads |-> {1}]
SgbDmc       == [a \in {} |-> "cpu"]
SgbGbScalars == [t \in GbThreads |-> IF t = "gbapu" THEN {2} ELSE {1}]
SgbGbBodies  == [t \in GbThreads |-> IF t = "gbcpu" THEN {2} ELSE {1}]
=============================================================================
