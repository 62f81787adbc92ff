------------------------------ MODULE Scheduler ------------------------------
(***************************************************************************)
(* The cooperative scheduler every nSide core runs on                      *)
(* (nSide/emulator/scheduler.hpp, thread.hpp), together with the loops its *)
(* cothreads execute and the calls the program thread makes: run a frame,  *)
(* run to a point where the state can be saved, replace the device in a    *)
(* controller port, power cycle.                                           *)
(*                                                                         *)
(* Exactly one cothread runs at a time.  A cothread leaves the processor   *)
(* only at a co_switch, so its continuation is one of few points: pc.      *)
(* The system that is emulated (which threads, who waits for whom, in what *)
(* order they are saved) is a parameter.                                   *)
(***************************************************************************)
EXTENDS Integers, Sequences, FiniteSets

CONSTANTS
  Threads,        \* the Thread objects in Scheduler::_threads
  Host,           \* the program thread (Scheduler::_host)
  Nowhere,        \* where control is after a co_switch to a handle that is not valid
  Master,         \* the Thread given to Scheduler::primary()
  Peers,          \* thread -> the threads it synchronizes with after each step, in order
  Lead,           \* thread -> peer -> how far it may run ahead before it synchronizes
  PowerOrder,     \* the order in which System::power() creates the threads
  SaveOrder,      \* the order in which System::runToSave() synchronizes them
  Scalars,        \* thread -> the clock increments a step of it may have
  Bodies,         \* thread -> the numbers of steps one pass of main() may take
  FrameThreads,   \* the picture units, whose scanline() ends a frame
  FrameFirst,     \* those of them that call scanline() first in main(), not last
  Lines, Vblank,  \* scanlines per frame, and the one at which the frame ends
  Stoppers,       \* processors with an instruction that never ends until reset
  Polite,         \* those of them whose stopped loop tests synchronizing()
  Dmc,            \* sample fetcher -> the processor whose RDY line it drives
  DmaDelay,       \* passes of the sample fetcher a fetch takes
  Ports,          \* the threads that are devices in controller ports
  Swaps,          \* the sequences of ports one connect() call may replace
  Second,         \* Thread::Second: the clock of one emulated second
  Gens,           \* generations of a port's handle: bounds the addresses malloc returns
  MaxSaves        \* bound on the saves made without a run in between

Width == 2 * Second + 2    \* _clock is a uintmax, and Second is (uintmax)-1 >> 1

ASSUME ThreadsAssumption ==
  /\ IsFiniteSet(Threads)
  /\ Host \notin Threads /\ Nowhere \notin Threads /\ Host # Nowhere
  /\ Master \in Threads /\ Master \notin Ports
  /\ FrameThreads \subseteq Threads /\ FrameFirst \subseteq FrameThreads
  /\ Ports \subseteq Threads \ FrameThreads
  /\ Peers \in [Threads -> Seq(Threads)]
  /\ \A t \in Threads : Peers[t] # << >>
  /\ Swaps \subseteq Seq(Ports)
  /\ PowerOrder \in Seq(Threads)
  /\ \A t \in Threads : \E i \in DOMAIN PowerOrder : PowerOrder[i] = t

\* System::runToSave() synchronizes the primary thread first, and once.
ASSUME SaveOrderAssumption ==
  /\ SaveOrder \in Seq(Threads) /\ SaveOrder # << >>
  /\ \A i \in DOMAIN SaveOrder : SaveOrder[i] = Master <=> i = 1

ASSUME NumbersAssumption ==
  /\ Second \in Nat /\ Lines \in Nat \ {0} /\ Vblank \in Nat
  /\ DmaDelay \in Nat \ {0} /\ MaxSaves \in Nat
  /\ Scalars \in [Threads -> SUBSET Nat]
  /\ Bodies \in [Threads -> SUBSET (Nat \ {0})]
  /\ \A t \in Threads : Lead[t] \in [Threads -> Nat]
  /\ Gens \subseteq Nat /\ 0 \in Gens
  /\ DOMAIN Dmc \subseteq Threads /\ \A a \in DOMAIN Dmc : Dmc[a] \in Threads

VARIABLES
  active,   \* co_active()
  mode, event, resume, master,    \* Scheduler::_mode, _event, _resume, _master
  gen,      \* thread -> which of the handles it has owned is its _handle
  clock,    \* thread -> Thread::_clock
  scalar,   \* thread -> Thread::_scalar times the clocks of a step
  pc,       \* thread -> where its cothread continues
  work,     \* thread -> steps left in this pass of main()
  peer,     \* thread -> the peer it synchronizes with next
  line,     \* thread -> vcounter() of a picture unit
  stopped,  \* thread -> it executes its stop instruction
  stall,    \* thread -> passes of the sample fetcher until its RDY line rises
  phase,    \* where the program thread is
  turn,     \* the index in SaveOrder that runToSave() has reached
  saves,    \* saves since the last run
  fresh     \* history: nothing has been resumed since the scheduler was entered

sched == << mode, event, resume, master >>
cpu   == << stopped, stall >>
host  == << phase, turn, saves >>
vars  == << active, sched, gen, clock, scalar, pc, work, peer, line, cpu, host, fresh >>

-----------------------------------------------------------------------------
(* libco and the handles.  A handle is the thread that owned it and the    *)
(* generation of its allocation.                                           *)

Handle(t) == << t, gen[t] >>
Valid(h)  == gen[h[1]] = h[2]

\* co_switch(): a handle that was deleted takes control out of the model.
Switch(h) == active' = IF Valid(h) THEN h[1] ELSE Nowhere

(* Scheduler *)

Enter(m, h) == mode' = m /\ Switch(h) /\ fresh' = TRUE

\* Mutant: exit() subtracts nothing.
NotNormalized == clock

Normalized ==
  LET minimum == CHOOSE m \in {clock[t] : t \in Threads} : \A t \in Threads : m <= clock[t]
  IN  [t \in Threads |-> clock[t] - minimum]

Exit(t, e) ==
  /\ clock' = Normalized
  /\ event' = e
  /\ resume' = Handle(t)
  /\ active' = Host

\* Mutant: a thread gives its state up in either mode.
AnySyncMode(t) == IF mode = "SynchronizeMaster" THEN "SynchronizeMaster" ELSE "SynchronizeSlave"

\* Mutant: only the primary thread ever gives its state up.
MasterSyncMode(t) == "SynchronizeMaster"

\* Scheduler::synchronize(): the mode in which thread t gives its state up at the top of its loop.
SyncMode(t) == IF Handle(t) = master THEN "SynchronizeMaster" ELSE "SynchronizeSlave"

\* Mutant: resume() does not test the mode.
NeverSynchronizing == FALSE

synchronizing == mode = "SynchronizeSlave"

-----------------------------------------------------------------------------
(* The loop of a cothread:                                                 *)
(*   while(true) { scheduler.synchronize(); main(); }                      *)

\* Mutant: the mode is not tested.
ParkAlways(t) ==
  /\ active = t /\ pc[t] = "top"
  /\ Exit(t, "Synchronize")
  /\ pc' = [pc EXCEPT ![t] = "main"]
  /\ UNCHANGED << mode, master, gen, scalar, work, peer, line, cpu, host, fresh >>

\* The top of the loop, when the program thread waits for this thread.
Park(t) ==
  /\ active = t /\ pc[t] = "top" /\ mode = SyncMode(t)
  /\ Exit(t, "Synchronize")
  /\ pc' = [pc EXCEPT ![t] = "main"]
  /\ UNCHANGED << mode, master, gen, scalar, work, peer, line, cpu, host, fresh >>

\* The top of the loop, when it does not.
Pass(t) ==
  /\ active = t /\ pc[t] = "top" /\ mode # SyncMode(t)
  /\ pc' = [pc EXCEPT ![t] = "main"]
  /\ UNCHANGED << active, sched, gen, clock, scalar, work, peer, line, cpu, host, fresh >>

\* Mutant: the delay counter is decremented at zero too.
FetchSampleUnguarded(t) ==
  IF t \notin DOMAIN Dmc THEN UNCHANGED stall
  ELSE stall' = [stall EXCEPT ![Dmc[t]] = @ - 1]

\* A sample fetcher may pull RDY low, and lets it rise DmaDelay passes later.
FetchSample(t) ==
  IF t \notin DOMAIN Dmc THEN UNCHANGED stall
  ELSE LET c == Dmc[t] IN
       \E n \in IF stall[c] > 0 THEN {stall[c] - 1} ELSE {0, DmaDelay} :
         stall' = [stall EXCEPT ![c] = n]

\* main() begins; a processor may meet its stop instruction, and stays in it.
Begin(t) ==
  /\ active = t /\ pc[t] = "main"
  /\ pc' = [pc EXCEPT ![t] = IF t \in FrameFirst THEN "scanline" ELSE "step"]
  /\ \E n \in Bodies[t] : work' = [work EXCEPT ![t] = n]
  /\ \E s \in IF t \in Stoppers THEN {stopped[t], TRUE} ELSE {stopped[t]} :
       stopped' = [stopped EXCEPT ![t] = s]
  /\ FetchSample(t)
  /\ UNCHANGED << active, sched, gen, clock, scalar, peer, line, host, fresh >>

\* Mutant: no stopped loop tests synchronizing().
SpinningDeaf(t) == stall[t] > 0 \/ stopped[t]

\* The thread executes a loop that another thread, or nobody, ends.
Spinning(t) ==
  \/ stall[t] > 0
  \/ stopped[t] /\ ~(t \in Polite /\ synchronizing)

Step(t) ==
  /\ active = t /\ pc[t] = "step"
  /\ clock' = [clock EXCEPT ![t] = (@ + scalar[t]) % Width]
  /\ work' = [work EXCEPT ![t] = IF Spinning(t) THEN @ ELSE @ - 1]
  /\ pc' = [pc EXCEPT ![t] = "peer"]
  /\ peer' = [peer EXCEPT ![t] = 1]
  /\ UNCHANGED << active, sched, gen, scalar, line, cpu, host, fresh >>

\* Mutant: the clocks are compared the wrong way round.
DueReversed(t, u) == clock[t] < clock[u]

\* Thread::synchronize(u) resumes u when t is not behind it.
Due(t, u) == clock[t] >= clock[u]

\* Mutant: a thread with a lead is never forced to synchronize.
NeverForced(t, u) == Lead[t][u] = 0

\* A thread with a lead synchronizes when it accesses the peer, and is forced to when
\* the unsigned difference of the clocks exceeds the lead.
Forced(t, u) == Lead[t][u] = 0 \/ (clock[t] - clock[u]) % Width > Lead[t][u]

AfterBody(t) == IF t \in FrameThreads \ FrameFirst THEN "scanline" ELSE "top"

\* Mutant: the last peer of a longer list is skipped.
SynchronizeAllButLast(t) ==
  /\ active = t /\ pc[t] = "peer"
  /\ LET u == Peers[t][peer[t]]
         last == peer[t] >= Len(Peers[t]) - 1
     IN  /\ peer' = [peer EXCEPT ![t] = IF last THEN 1 ELSE @ + 1]
         /\ pc' = [pc EXCEPT ![t] = IF ~last THEN "peer"
                                    ELSE IF work[t] > 0 THEN "step" ELSE AfterBody(t)]
         /\ \E calls \in {TRUE, Forced(t, u)} :
              IF calls /\ Due(t, u) /\ ~synchronizing
                THEN Switch(Handle(u)) /\ fresh' = FALSE
                ELSE UNCHANGED << active, fresh >>
  /\ UNCHANGED << sched, gen, clock, scalar, work, line, cpu, host >>

\* The next synchronize() of the list; resume() does nothing while a thread is synchronized alone.
Synchronize(t) ==
  /\ active = t /\ pc[t] = "peer"
  /\ LET u == Peers[t][peer[t]]
         last == peer[t] = Len(Peers[t])
     IN  /\ peer' = [peer EXCEPT ![t] = IF last THEN 1 ELSE @ + 1]
         /\ pc' = [pc EXCEPT ![t] = IF ~last THEN "peer"
                                    ELSE IF work[t] > 0 THEN "step" ELSE AfterBody(t)]
         /\ \E calls \in {TRUE, Forced(t, u)} :
              IF calls /\ Due(t, u) /\ ~synchronizing
                THEN Switch(Handle(u)) /\ fresh' = FALSE
                ELSE UNCHANGED << active, fresh >>
  /\ UNCHANGED << sched, gen, clock, scalar, work, line, cpu, host >>

\* Mutant: the frame ends at a line that is never reached.
ScanlinePastEnd(t) ==
  /\ active = t /\ pc[t] = "scanline"
  /\ line' = [line EXCEPT ![t] = (@ + 1) % Lines]
  /\ pc' = [pc EXCEPT ![t] = IF t \in FrameFirst THEN "step" ELSE "top"]
  /\ IF line'[t] = Lines THEN Exit(t, "Frame") ELSE UNCHANGED << clock, event, resume, active >>
  /\ UNCHANGED << mode, master, gen, scalar, work, peer, cpu, host, fresh >>

\* scanline() of a picture unit: vertical blanking ends the frame.
Scanline(t) ==
  /\ active = t /\ pc[t] = "scanline"
  /\ line' = [line EXCEPT ![t] = (@ + 1) % Lines]
  /\ pc' = [pc EXCEPT ![t] = IF t \in FrameFirst THEN "step" ELSE "top"]
  /\ IF line'[t] = Vblank THEN Exit(t, "Frame") ELSE UNCHANGED << clock, event, resume, active >>
  /\ UNCHANGED << mode, master, gen, scalar, work, peer, cpu, host, fresh >>

ThreadStep(t) ==
  Park(t) \/ Pass(t) \/ Begin(t) \/ Step(t) \/ Synchronize(t) \/ Scanline(t)

-----------------------------------------------------------------------------
(* The program thread *)

\* System::run()
Run ==
  /\ active = Host /\ phase = "idle"
  /\ Enter("Run", resume)
  /\ phase' = "run" /\ saves' = 0
  /\ UNCHANGED << event, resume, master, gen, clock, scalar, pc, work, peer, line, cpu, turn >>

RunReturns ==
  /\ active = Host /\ phase = "run"
  /\ phase' = "idle"
  /\ UNCHANGED << active, sched, gen, clock, scalar, pc, work, peer, line, cpu, turn, saves, fresh >>

\* Interface::serialize() calls System::runToSave().
Save ==
  /\ active = Host /\ phase = "idle" /\ saves < MaxSaves
  /\ phase' = "synchronize" /\ turn' = 1 /\ saves' = saves + 1
  /\ UNCHANGED << active, sched, gen, clock, scalar, pc, work, peer, line, cpu, fresh >>

\* Scheduler::synchronize(thread) for the thread whose turn it is.
SynchronizeThread ==
  /\ active = Host /\ phase = "synchronize"
  /\ LET t == SaveOrder[turn] IN
     IF Handle(t) = master
       THEN Enter("SynchronizeMaster", resume) /\ UNCHANGED resume
       ELSE Enter("SynchronizeSlave", Handle(t)) /\ resume' = Handle(t)
  /\ phase' = "await"
  /\ UNCHANGED << event, master, gen, clock, scalar, pc, work, peer, line, cpu, turn, saves >>

\* Its loop: any other event enters the scheduler again.
Reenter ==
  /\ active = Host /\ phase = "await" /\ event # "Synchronize"
  /\ Enter(mode, resume)
  /\ UNCHANGED << event, resume, master, gen, clock, scalar, pc, work, peer, line, cpu, host >>

\* Mutant: the last thread is not synchronized.
SynchronizedEarly ==
  /\ active = Host /\ phase = "await" /\ event = "Synchronize"
  /\ IF turn >= Len(SaveOrder) - 1
       THEN phase' = "saved" /\ UNCHANGED turn
       ELSE phase' = "synchronize" /\ turn' = turn + 1
  /\ UNCHANGED << active, sched, gen, clock, scalar, pc, work, peer, line, cpu, saves, fresh >>

\* Mutant: any event is taken for the one waited for.
SynchronizedByAny ==
  /\ active = Host /\ phase = "await"
  /\ IF turn = Len(SaveOrder)
       THEN phase' = "saved" /\ UNCHANGED turn
       ELSE phase' = "synchronize" /\ turn' = turn + 1
  /\ UNCHANGED << active, sched, gen, clock, scalar, pc, work, peer, line, cpu, saves, fresh >>

\* The event it waited for.
Synchronized ==
  /\ active = Host /\ phase = "await" /\ event = "Synchronize"
  /\ IF turn = Len(SaveOrder)
       THEN phase' = "saved" /\ UNCHANGED turn
       ELSE phase' = "synchronize" /\ turn' = turn + 1
  /\ UNCHANGED << active, sched, gen, clock, scalar, pc, work, peer, line, cpu, saves, fresh >>

\* System::serialize() copies the state of the threads.
Serialize ==
  /\ active = Host /\ phase = "saved"
  /\ phase' = "idle"
  /\ UNCHANGED << active, sched, gen, clock, scalar, pc, work, peer, line, cpu, turn, saves, fresh >>

\* A device whose constructor creates its thread again starts at 0: append() refuses it then.
BiasOf(t, s, bias) == IF t \in Ports /\ s # Second THEN 0 ELSE bias

\* ControllerPort::connect(): delete the device of each port in ps, and create another one.
Connect(ps) ==
  /\ active = Host /\ phase = "idle"
  /\ LET P == {ps[i] : i \in DOMAIN ps} IN
     \E s \in [P -> UNION {Scalars[t] : t \in P}], g \in [P -> Gens] :
       /\ \A t \in P : s[t] \in Scalars[t]
       /\ gen' = [t \in Threads |-> IF t \in P THEN g[t] ELSE gen[t]]
       /\ scalar' = [t \in Threads |-> IF t \in P THEN s[t] ELSE scalar[t]]
       /\ clock' = [t \in Threads |-> IF t \in P THEN BiasOf(t, s[t], Cardinality(Threads) - 1)
                                                 ELSE clock[t]]
       /\ pc' = [t \in Threads |-> IF t \in P THEN "top" ELSE pc[t]]
       /\ work' = [t \in Threads |-> IF t \in P THEN 0 ELSE work[t]]
       /\ peer' = [t \in Threads |-> IF t \in P THEN 1 ELSE peer[t]]
  /\ UNCHANGED << active, sched, line, cpu, host, fresh >>

\* The value of _clock after System::power() created thread t with scalar s.
PowerClock(t, s) == BiasOf(t, s, (CHOOSE i \in DOMAIN PowerOrder : PowerOrder[i] = t) - 1)

\* Mutant: primary() assigns _master only.
CreateKeepingResume ==
  /\ \E g \in Gens :
       /\ gen' = [t \in Threads |-> g]
       /\ UNCHANGED resume /\ master' = << Master, g >>
  /\ scalar' \in [Threads -> UNION {Scalars[t] : t \in Threads}]
  /\ \A t \in Threads : scalar'[t] \in Scalars[t]
  /\ pc' = [t \in Threads |-> "top"]
  /\ work' = [t \in Threads |-> 0]
  /\ peer' = [t \in Threads |-> 1]

\* Every thread is created again, at the address it had or at another, and the
\* scheduler is given its primary thread.
Create ==
  /\ \E g \in Gens :
       /\ gen' = [t \in Threads |-> g]
       /\ resume' = << Master, g >> /\ master' = << Master, g >>
  /\ scalar' \in [Threads -> UNION {Scalars[t] : t \in Threads}]
  /\ \A t \in Threads : scalar'[t] \in Scalars[t]
  /\ pc' = [t \in Threads |-> "top"]
  /\ work' = [t \in Threads |-> 0]
  /\ peer' = [t \in Threads |-> 1]

\* System::power()
Power ==
  /\ active = Host /\ phase = "idle"
  /\ Create
  /\ clock' = [t \in Threads |-> PowerClock(t, scalar'[t])]
  /\ line' = [t \in Threads |-> 0]
  /\ stopped' = [t \in Threads |-> FALSE]
  /\ stall' = [t \in Threads |-> 0]
  /\ UNCHANGED << active, mode, event, host, fresh >>

\* System::unserialize() of the state that was copied: power(), and then the clocks and
\* the registers of every thread but the devices, whose ports copy nothing.  (Loading it
\* later makes no difference to the threads.)
Unserialize ==
  /\ active = Host /\ phase = "saved"
  /\ phase' = "idle"
  /\ Create
  /\ \A t \in Threads \ Ports : scalar'[t] = scalar[t]
  /\ clock' = [t \in Threads |-> IF t \in Ports THEN PowerClock(t, scalar'[t]) ELSE clock[t]]
  /\ UNCHANGED << active, mode, event, line, cpu, turn, saves, fresh >>

-----------------------------------------------------------------------------

\* A system that was loaded and powered.
Init ==
  /\ active = Host /\ mode = "Run" /\ event = "Step"
  /\ resume = << Master, 0 >> /\ master = << Master, 0 >>
  /\ gen = [t \in Threads |-> 0]
  /\ scalar \in [Threads -> UNION {Scalars[t] : t \in Threads}]
  /\ \A t \in Threads : scalar[t] \in Scalars[t]
  /\ clock = [t \in Threads |-> PowerClock(t, scalar[t])]
  /\ pc = [t \in Threads |-> "top"]
  /\ work = [t \in Threads |-> 0]
  /\ peer = [t \in Threads |-> 1]
  /\ line = [t \in Threads |-> 0]
  /\ stopped = [t \in Threads |-> FALSE]
  /\ stall = [t \in Threads |-> 0]
  /\ phase = "idle" /\ turn = 1 /\ saves = 0
  /\ fresh = TRUE

\* What goes on by itself once the program thread has made a call.
Proceed ==
  \/ \E t \in Threads : ThreadStep(t)
  \/ RunReturns \/ SynchronizeThread \/ Reenter \/ Synchronized \/ Serialize

Next == Proceed \/ Run \/ Save \/ Unserialize \/ Power \/ \E ps \in Swaps : Connect(ps)

Spec == Init /\ [][Next]_vars

\* A call that was made goes on, and the frontend's main loop keeps calling run().
FairSpec == Spec /\ WF_vars(Proceed) /\ WF_vars(Run)

=============================================================================
