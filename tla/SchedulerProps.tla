---------------------------- MODULE SchedulerProps ----------------------------
(* The correctness properties of the scheduler. *)
EXTENDS Scheduler

Phases == {"idle", "run", "synchronize", "await", "saved"}
Points == {"top", "main", "step", "peer", "scanline"}

\* Every variable but pc holds a value of the type its declaration in the code gives it.
ValuesOK ==
  /\ active \in Threads \cup {Host, Nowhere}
  /\ mode \in {"Run", "SynchronizeMaster", "SynchronizeSlave"}
  /\ event \in {"Step", "Frame", "Synchronize"}
  /\ resume \in Threads \X Gens /\ master \in Threads \X Gens
  /\ gen \in [Threads -> Gens]
  /\ clock \in [Threads -> Nat] /\ scalar \in [Threads -> Nat]
  /\ work \in [Threads -> Nat]
  /\ peer \in [Threads -> Nat] /\ \A t \in Threads : peer[t] \in DOMAIN Peers[t]
  /\ line \in [Threads -> Nat]
  /\ stopped \in [Threads -> BOOLEAN] /\ stall \in [Threads -> Nat]
  /\ phase \in Phases /\ turn \in DOMAIN SaveOrder /\ saves \in 0 .. MaxSaves
  /\ fresh \in BOOLEAN

\* So does pc, whose values are the places of a cothread's loop.
TypeOK == ValuesOK /\ pc \in [Threads -> Points]

\* Thread t holds no state on its stack: it is at the top of its loop.
AtTop(t) == pc[t] \in {"top", "main"}

\* The stacks of the cothreads are not part of a saved state, so when
\* System::serialize() copies the threads, each of them that runToSave()
\* synchronizes is at the top of its loop, where power() puts a new cothread.
SafePoint == phase = "saved" => \A i \in DOMAIN SaveOrder : AtTop(SaveOrder[i])

\* While a thread other than the primary one is synchronized, no other thread
\* moves: the ones that were synchronized before it stay at the top of their loops.
OthersFrozen ==
  [][mode = "SynchronizeSlave" /\ phase = "await"
       => \A t \in Threads : t # SaveOrder[turn] => pc'[t] = pc[t] /\ work'[t] = work[t]]_vars

\* The primary thread and a thread that synchronizes with it step only while they are at
\* most their lead ahead of each other (append() adds less than one unit per thread), so
\* what one reads from the other is not out of date.  Not so for the thread the scheduler
\* was entered through, and for a thread synchronized alone.
NotAhead ==
  \A t \in Threads :
    active = t /\ pc[t] = "step" /\ ~synchronizing /\ ~fresh
      => \A i \in DOMAIN Peers[t] :
           LET u == Peers[t][i]
           IN  Master \in {t, u} => clock[t] < clock[u] + Lead[t][u] + Cardinality(Threads)

\* exit() subtracts the smallest clock often enough that no clock wraps around, except
\* that of a device which steps a whole second at a time.
ClockAdvances ==
  [][\A t \in Threads :
       active = t /\ pc[t] = "step" /\ scalar[t] # Second => clock'[t] > clock[t]]_vars

\* run() returns at the end of a frame and for no other reason: the events that
\* runToSave() waits for are never mistaken for one.
RunEndsWithFrame == phase = "run" /\ active = Host => event = "Frame"

\* Control never goes to a cothread that was deleted (libco/doc/usage.html).
SwitchIsValid == active # Nowhere

\* The handle enter() switches to can be a deleted one only between a save and the next run.
DanglingOnlyAfterSave == phase = "idle" /\ ~Valid(resume) => event = "Synchronize"

\* Every call of run() returns.
RunCompletes == phase = "run" ~> phase = "idle"

\* Every call of runToSave() reaches a state that can be saved.
SaveCompletes == phase = "synchronize" ~> phase = "saved"

\* No thread is starved, however the saves are interleaved with the runs.
EveryThreadRuns == \A t \in Threads \ Ports : []<>(active = t)

-----------------------------------------------------------------------------
(* The scheduler implements the contract of run() and runToSave(). *)

Saved == {SaveOrder[i] : i \in DOMAIN SaveOrder}

CallMade == IF phase = "idle" THEN "none" ELSE IF phase = "run" THEN "run" ELSE "save"
Busy     == {t \in Saved : ~AtTop(t)}
Parked   == IF phase = "saved" THEN Saved
            ELSE {SaveOrder[i] : i \in 1 .. IF phase \in {"synchronize", "await"} THEN turn - 1 ELSE 0}

Contract == INSTANCE SaveContract WITH call <- CallMade, busy <- Busy, parked <- Parked

\* Whatever the threads do, run() and runToSave() keep what SaveContract promises: the
\* system moves as a whole until the primary thread is parked, then thread by thread,
\* and the state is copied when all are parked.
KeepsContract == Contract!Spec

=============================================================================
