-------------------------- MODULE SuperGameBoyProofs --------------------------
(***************************************************************************)
(* What the ICD2 charges for the clocks of the Game Boy, for every width   *)
(* of the count and every length of a step: the order in which steps,      *)
(* frames, saves, loads and resets come does not matter.                   *)
(***************************************************************************)
EXTENDS SuperGameBoy, Induction, TLAPS

-----------------------------------------------------------------------------
(* The count *)

ChargeInv == executed \in Nat /\ owed \in Nat /\ ClocksCharged

Counts == << executed, owed, uncharged >>

LEMMA ChargeKept == ChargeInv /\ UNCHANGED Counts => ChargeInv'
  BY DEF ChargeInv, Counts, ClocksCharged

\* A clock of the Game Boy's CPU is one more to charge.
LEMMA ChargeClock == ChargeInv /\ GbCpuClock => ChargeInv'
<1> SUFFICES ASSUME ChargeInv, GbCpuClock PROVE ChargeInv'
  OBVIOUS
<1>1. owed' = owed + 1 /\ uncharged' = (uncharged + 1) % CountWidth /\ executed' = executed
  BY DEF GbCpuClock
<1>2. executed \in Nat /\ owed \in Nat /\ uncharged = (executed + owed) % CountWidth
      /\ CountWidth \in Nat \ {0}
  BY CountsAssumption DEF ChargeInv, ClocksCharged
<1>3. PICK sum \in Int : sum = executed + owed
  BY <1>2
<1>4. ((sum % CountWidth) + 1) % CountWidth = (sum + 1) % CountWidth
  <2>1. 1 \in Int
    OBVIOUS
  <2>. QED  BY <1>2, <2>1, ModAdd, Zenon
<1>5. executed' + owed' = sum + 1
  BY <1>1, <1>2, <1>3
<1>. QED  BY <1>5, <1>1, <1>2, <1>3, <1>4 DEF ChargeInv, ClocksCharged

\* The end of CPU::step() moves them to the count the ICD2 reads.
LEMMA ChargeStepEnds == ChargeInv /\ GbCpuStepEnds => ChargeInv'
<1> SUFFICES ASSUME ChargeInv, GbCpuStepEnds PROVE ChargeInv'
  OBVIOUS
<1>1. owed' = 0 /\ uncharged' = uncharged /\ executed' = (executed + owed) % CountWidth
  BY DEF GbCpuStepEnds
<1>2. executed \in Nat /\ owed \in Nat /\ uncharged = (executed + owed) % CountWidth
      /\ CountWidth \in Nat \ {0}
  BY CountsAssumption DEF ChargeInv, ClocksCharged
<1>3. PICK sum \in Int : sum = executed + owed
  BY <1>2
<1>4. ((sum % CountWidth) + 0) % CountWidth = (sum + 0) % CountWidth
  <2>1. 0 \in Int
    OBVIOUS
  <2>. QED  BY <1>2, <2>1, ModAdd, Zenon
<1>5. executed' \in Nat /\ executed' = sum % CountWidth /\ sum + 0 = sum
  BY <1>1, <1>2, <1>3
<1>6. executed' % CountWidth = sum % CountWidth
  BY <1>4, <1>5
<1>7. executed' + owed' = executed'
  BY <1>1, <1>5
<1>. QED  BY <1>5, <1>6, <1>7, <1>1, <1>2, <1>3, <1>4 DEF ChargeInv, ClocksCharged

\* The ICD2 charges what is counted, and the step under way is still to come.
LEMMA ChargeCharges == ChargeInv /\ IcdCharges => ChargeInv'
<1> SUFFICES ASSUME ChargeInv, IcdCharges PROVE ChargeInv'
  OBVIOUS
<1>1. owed' = owed /\ uncharged' = (uncharged - executed) % CountWidth /\ executed' = 0
  BY DEF IcdCharges, gExtra
<1>2. executed \in Nat /\ owed \in Nat /\ uncharged = (executed + owed) % CountWidth
      /\ CountWidth \in Nat \ {0}
  BY CountsAssumption DEF ChargeInv, ClocksCharged
<1>3. -executed \in Int /\ executed + owed \in Int
  BY <1>2
<1>4. (uncharged + (-executed)) % CountWidth = ((executed + owed) + (-executed)) % CountWidth
  BY <1>2, <1>3, ModAdd
<1>5. uncharged \in Int
  BY <1>2, <1>3
<1>6. uncharged + (-executed) = uncharged - executed
      /\ (executed + owed) + (-executed) = 0 + owed
  BY <1>2, <1>5
<1>. QED  BY <1>1, <1>2, <1>4, <1>6 DEF ChargeInv, ClocksCharged

\* A power cycle of the Game Boy, and of its CPU with it, starts both counts again.
LEMMA ChargePower == GbPower_ => ChargeInv'
<1> SUFFICES ASSUME GbPower_ PROVE ChargeInv'
  OBVIOUS
<1>1. executed' = 0 /\ owed' = 0 /\ uncharged' = 0
  BY DEF GbPower_
<1>2. (0 + 0) % CountWidth = 0
  BY CountsAssumption
<1>. QED  BY <1>1, <1>2 DEF ChargeInv, ClocksCharged

LEMMA ChargeNext == ChargeInv /\ [NestedNext]_nvars => ChargeInv'
<1> SUFFICES ASSUME ChargeInv, [NestedNext]_nvars PROVE ChargeInv'
  OBVIOUS
<1>1. CASE GbCode
  <2>1. CASE GbCpuOther \/ GbPpuBegin \/ GbPpuBlankEnds \/ GbPpuOther \/ GbApu
    <3>1. UNCHANGED Counts
      BY <2>1 DEF GbCpuOther, GbPpuBegin, GbPpuBlankEnds, GbPpuOther, GbApu, gExtra, Counts
    <3>. QED  BY <3>1, ChargeKept
  <2>. QED  BY <1>1, <2>1, ChargeClock, ChargeStepEnds DEF GbCode
<1>2. CASE IcdCode
  <2>1. CASE IcdSaves \/ GbSaveProceeds \/ IcdParks \/ IcdRuns
    <3>1. UNCHANGED Counts
      BY <2>1 DEF IcdSaves, GbSaveProceeds, IcdParks, IcdRuns, gExtra, Counts
    <3>. QED  BY <3>1, ChargeKept
  <2>2. CASE IcdPasses \/ IcdIdles \/ IcdSynchronizes
    <3>1. UNCHANGED Counts
      BY <2>2 DEF IcdPasses, IcdIdles, IcdSynchronizes, gameboy, gExtra, Counts
    <3>. QED  BY <3>1, ChargeKept
  <2>. QED  BY <1>2, <2>1, <2>2, ChargeCharges DEF IcdCode
<1>3. CASE SfcCode \/ SfcCall \/ UNCHANGED nvars
  <2>1. UNCHANGED Counts
    BY <1>3 DEF SfcCode, SfcCall, nvars, gameboy, gExtra, Counts
  <2>. QED  BY <2>1, ChargeKept
<1>4. CASE WriteLCDC \/ GbInterrupt
  <2>1. UNCHANGED Counts
    BY <1>4 DEF WriteLCDC, GbInterrupt, gExtra, Counts
  <2>. QED  BY <2>1, ChargeKept
<1>5. CASE WriteControl
  <2>1. CASE ~running /\ running'
    BY <1>5, <2>1, ChargePower DEF WriteControl
  <2>2. CASE ~(~running /\ running')
    <3>1. UNCHANGED Counts
      BY <1>5, <2>2 DEF WriteControl, gameboy, gExtra, Counts
    <3>. QED  BY <3>1, ChargeKept
  <2>. QED  BY <2>1, <2>2
<1>6. CASE NestedPower
  BY <1>6, ChargePower DEF NestedPower
<1>7. CASE NestedUnserialize
  <2>1. UNCHANGED Counts
    BY <1>7 DEF NestedUnserialize, RestoreGameBoy, gExtra, Counts
  <2>. QED  BY <2>1, ChargeKept
<1>. QED  BY <1>1, <1>2, <1>3, <1>4, <1>5, <1>6, <1>7 DEF NestedNext, NestedProceed

\* Every clock the Game Boy executes is charged to the ICD2's clock once (icd2.cpp), though
\* its steps are cut by frames and by saves, and its state is loaded and reset: the count
\* is a uint and wraps, and so does the clock.
THEOREM ChargesCorrect == NestedSpec => []ClocksCharged
<1>1. NestedInit => ChargeInv
  <2>1. (0 + 0) % CountWidth = 0
    BY CountsAssumption
  <2>. QED  BY <2>1 DEF NestedInit, ChargeInv, ClocksCharged
<1>2. ChargeInv => ClocksCharged
  BY DEF ChargeInv
<1>. QED  BY <1>1, <1>2, ChargeNext, PTL DEF NestedSpec
=============================================================================
