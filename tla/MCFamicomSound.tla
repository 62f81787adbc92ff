---------------------------- MODULE MCFamicomSound ----------------------------
(* Values for the constants of FamicomSound.  The programs write the registers *)
(* of one unit each, and those the units share; the 6502's longest rows of     *)
(* writes, the three of BRK, are left to the one whose reads they could delay. *)
EXTENDS FamicomSound

Program(regs, bits, reads, row) == [regs |-> regs, bits |-> bits, reads |-> reads, row |-> row]

SoundPrograms ==
  { Program({"4010", "4013", "4015", "other"}, {"dmc"}, {"rom"}, 3),
    Program({"4010", "4015", "4017"}, {"dmc"}, {"rom", "4015"}, 1),
    Program({"4000", "4003", "4015"}, {"pulse0"}, {"rom"}, 1),
    Program({"4001", "4002"}, {}, {"rom"}, 1),
    Program({"4005", "4006"}, {}, {"rom"}, 1),
    Program({"4007", "4015", "4017"}, {"pulse1"}, {"rom"}, 1),
    Program({"4008", "400b", "4015"}, {"triangle"}, {"rom"}, 1),
    Program({"400c", "400e", "400f", "4015"}, {"noise"}, {"rom"}, 1) }

NoiseProgram == { Program({"400c", "400e", "400f", "4015"}, {"noise"}, {"rom"}, 1) }
=============================================================================
