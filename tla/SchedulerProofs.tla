---------------------------- MODULE SchedulerProofs ----------------------------
(***************************************************************************)
(* Theorems about Scheduler, for every set of threads, every graph of      *)
(* synchronization, every order of power-on and of saving, and every clock.*)
(***************************************************************************)
EXTENDS SchedulerProps, Induction, TLAPS, FiniteSetTheorems

-----------------------------------------------------------------------------
(* Numbers *)

\* Scheduler::exit() subtracts a clock that is the least there is.
LEMMA NormalizedBy ==
  ASSUME clock \in [Threads -> Nat]
  PROVE  \E u \in Threads : /\ \A t \in Threads : clock[u] <= clock[t]
                            /\ Normalized = [t \in Threads |-> clock[t] - clock[u]]
<1> DEFINE C == {clock[t] : t \in Threads}
<1>1. C \in SUBSET Nat /\ C # {}
  <2>1. clock[Master] \in C
    BY ThreadsAssumption DEF ThreadsAssumption
  <2>. QED  BY <2>1
<1>2. \E m \in C : \A n \in C : m <= n
  <2>. HIDE DEF C
  <2>. QED  BY <1>1, Least
<1>3. PICK m \in C : /\ \A t \in Threads : m <= clock[t]
                     /\ m = CHOOSE k \in C : \A t \in Threads : k <= clock[t]
  <2>1. \E k \in C : \A t \in Threads : k <= clock[t]
    BY <1>2
  <2>. QED  BY <2>1
<1>4. Normalized = [t \in Threads |-> clock[t] - m]
  BY <1>3 DEF Normalized
<1>. QED  BY <1>3, <1>4

\* The clocks stay natural numbers when the least is subtracted from each of them, and so
\* does none of them wrap below zero in Scheduler::exit().
LEMMA NormalizedType ==
  ASSUME clock \in [Threads -> Nat]
  PROVE  Normalized \in [Threads -> Nat]
<1>1. PICK u \in Threads : /\ \A t \in Threads : clock[u] <= clock[t]
                           /\ Normalized = [t \in Threads |-> clock[t] - clock[u]]
  BY NormalizedBy
<1>. QED  BY <1>1

\* The width of a clock is not zero.
LEMMA WidthType == Width \in Nat \ {0}
BY NumbersAssumption DEF Width, NumbersAssumption

\* A remainder by the width is a clock.
LEMMA WrapType ==
  ASSUME NEW n \in Nat, NEW w \in Nat \ {0}
  PROVE  n % w \in Nat
OBVIOUS

\* A thread that was created has the bias append() gives it, or none.
LEMMA PowerClockType ==
  ASSUME NEW t \in Threads, NEW s
  PROVE  PowerClock(t, s) \in Nat
<1> DEFINE i == CHOOSE j \in DOMAIN PowerOrder : PowerOrder[j] = t
<1>1. i \in DOMAIN PowerOrder
  BY ThreadsAssumption DEF ThreadsAssumption
<1>2. DOMAIN PowerOrder = 1 .. Len(PowerOrder) /\ Len(PowerOrder) \in Nat
  BY ThreadsAssumption DEF ThreadsAssumption
<1>3. i - 1 \in Nat
  <2>. HIDE DEF i
  <2>. QED  BY <1>1, <1>2
<1>. QED  BY <1>3 DEF PowerClock, BiasOf

\* So has the device that replaces another.
LEMMA CardinalityType == Cardinality(Threads) - 1 \in Nat
<1>1. IsFiniteSet(Threads) /\ Threads # {}
  BY ThreadsAssumption DEF ThreadsAssumption
<1>2. Cardinality(Threads) \in Nat
  BY <1>1, FS_CardinalityType
<1>3. Cardinality(Threads) # 0
  BY <1>1, FS_EmptySet
<1>. QED  BY <1>2, <1>3

-----------------------------------------------------------------------------
(* Types *)

\* A thread that is about to step, or to draw the rest of a line, has steps left.
WorkLeft ==
  \A t \in Threads : pc[t] = "step" \/ (pc[t] = "scanline" /\ t \in FrameFirst) => work[t] # 0

\* The places are left open, so that it holds in a system that adds some too.
TypeInv == ValuesOK /\ pc = [v \in Threads |-> pc[v]] /\ WorkLeft

\* The handle a thread has now is one that can be switched to.
LEMMA HandleType ==
  ASSUME ValuesOK, NEW t \in Threads
  PROVE  Handle(t) \in Threads \X Gens /\ Valid(Handle(t))
BY DEF ValuesOK, Handle, Valid

\* A switch gives the processor to a thread, or takes control out of the model.
LEMMA SwitchType ==
  ASSUME NEW h \in Threads \X Gens, Switch(h)
  PROVE  active' \in Threads \cup {Host, Nowhere}
BY DEF Switch

\* Scheduler::exit() gives it to the program thread.
LEMMA ExitType ==
  ASSUME ValuesOK, NEW t \in Threads, NEW e, Exit(t, e)
  PROVE  /\ clock' \in [Threads -> Nat]
         /\ event' = e /\ resume' = Handle(t) /\ resume' \in Threads \X Gens
         /\ active' = Host
<1>1. clock \in [Threads -> Nat]
  BY DEF ValuesOK
<1>2. Normalized \in [Threads -> Nat]
  BY <1>1, NormalizedType
<1>3. Handle(t) \in Threads \X Gens
  BY HandleType
<1>. QED  BY <1>2, <1>3 DEF Exit

LEMMA ParkType ==
  ASSUME TypeInv, NEW t \in Threads, Park(t)
  PROVE  TypeInv'
<1>1. Exit(t, "Synchronize")
  BY DEF Park
<1>2. /\ clock' \in [Threads -> Nat] /\ event' = "Synchronize"
      /\ resume' \in Threads \X Gens /\ active' = Host
  BY <1>1, ExitType DEF TypeInv
<1>3. /\ pc' = [pc EXCEPT ![t] = "main"]
      /\ UNCHANGED << mode, master, gen, scalar, work, peer, line, stopped, stall, phase, turn, saves, fresh >>
  BY DEF Park, cpu, host
<1>. QED  BY <1>2, <1>3 DEF TypeInv, ValuesOK, WorkLeft

LEMMA PassType ==
  ASSUME TypeInv, NEW t \in Threads, Pass(t)
  PROVE  TypeInv'
BY DEF TypeInv, ValuesOK, WorkLeft, Pass, sched, cpu, host

LEMMA FetchSampleType ==
  ASSUME ValuesOK, NEW t \in Threads, FetchSample(t)
  PROVE  stall' \in [Threads -> Nat]
<1>1. stall \in [Threads -> Nat] /\ DmaDelay \in Nat
  BY NumbersAssumption DEF ValuesOK, NumbersAssumption
<1>2. CASE t \notin DOMAIN Dmc
  BY <1>1, <1>2 DEF FetchSample
<1>3. CASE t \in DOMAIN Dmc
  <2> DEFINE c == Dmc[t]
  <2>1. c \in Threads
    BY <1>3, NumbersAssumption DEF NumbersAssumption
  <2>2. PICK n \in IF stall[c] > 0 THEN {stall[c] - 1} ELSE {0, DmaDelay} :
          stall' = [stall EXCEPT ![c] = n]
    BY <1>3 DEF FetchSample
  <2>3. n \in Nat
    BY <1>1, <2>1, <2>2
  <2>. QED  BY <1>1, <2>2, <2>3
<1>. QED  BY <1>2, <1>3

LEMMA BeginType ==
  ASSUME TypeInv, NEW t \in Threads, Begin(t)
  PROVE  TypeInv'
<1>1. stall' \in [Threads -> Nat]
  BY FetchSampleType DEF TypeInv, Begin
<1>2. PICK n \in Bodies[t] : work' = [work EXCEPT ![t] = n]
  BY DEF Begin
<1>3. n \in Nat \ {0}
  BY <1>2, NumbersAssumption DEF NumbersAssumption
<1>4. stopped' \in [Threads -> BOOLEAN]
  <2>1. PICK s \in IF t \in Stoppers THEN {stopped[t], TRUE} ELSE {stopped[t]} :
          stopped' = [stopped EXCEPT ![t] = s]
    BY DEF Begin
  <2>2. s \in BOOLEAN
    BY <2>1 DEF TypeInv, ValuesOK
  <2>. QED  BY <2>1, <2>2 DEF TypeInv, ValuesOK
<1>5. /\ pc' = [pc EXCEPT ![t] = IF t \in FrameFirst THEN "scanline" ELSE "step"]
      /\ UNCHANGED << active, mode, event, resume, master, gen, clock, scalar, peer, line,
                      phase, turn, saves, fresh >>
  BY DEF Begin, sched, host
<1>. QED  BY <1>1, <1>2, <1>3, <1>4, <1>5 DEF TypeInv, ValuesOK, WorkLeft

LEMMA StepType ==
  ASSUME TypeInv, NEW t \in Threads, Step(t)
  PROVE  TypeInv'
<1>1. clock' \in [Threads -> Nat]
  <2>1. clock \in [Threads -> Nat] /\ clock[t] + scalar[t] \in Nat
    BY DEF TypeInv, ValuesOK
  <2>2. (clock[t] + scalar[t]) % Width \in Nat
    BY <2>1, WidthType, WrapType
  <2>. QED  BY <2>1, <2>2 DEF Step
<1>2. work' \in [Threads -> Nat]
  <2>1. /\ pc[t] = "step"
        /\ work' = [work EXCEPT ![t] = IF Spinning(t) THEN @ ELSE @ - 1]
    BY DEF Step
  <2>2. work \in [Threads -> Nat] /\ work[t] # 0
    <3>1. work \in [Threads -> Nat]
      BY DEF TypeInv, ValuesOK
    <3>2. WorkLeft
      BY DEF TypeInv
    <3>3. work[t] # 0
      BY <2>1, <3>2 DEF WorkLeft
    <3>. QED  BY <3>1, <3>3
  <2>. QED  BY <2>1, <2>2
<1>3. /\ pc' = [pc EXCEPT ![t] = "peer"] /\ peer' = [peer EXCEPT ![t] = 1]
      /\ UNCHANGED << active, mode, event, resume, master, gen, scalar, line, stopped, stall,
                      phase, turn, saves, fresh >>
  BY DEF Step, sched, cpu, host
<1>4. 1 \in DOMAIN Peers[t]
  BY ThreadsAssumption DEF ThreadsAssumption
<1>5. peer' \in [Threads -> Nat] /\ \A u \in Threads : peer'[u] \in DOMAIN Peers[u]
  BY <1>3, <1>4 DEF TypeInv, ValuesOK
<1>6. WorkLeft'
  BY <1>3 DEF TypeInv, ValuesOK, WorkLeft, Step
<1>. QED  BY <1>1, <1>2, <1>3, <1>5, <1>6 DEF TypeInv, ValuesOK

LEMMA SynchronizeType ==
  ASSUME TypeInv, NEW t \in Threads, Synchronize(t)
  PROVE  TypeInv'
<1> DEFINE u == Peers[t][peer[t]]
           last == peer[t] = Len(Peers[t])
<1>1. Peers[t] \in Seq(Threads) /\ peer[t] \in DOMAIN Peers[t] /\ Peers[t] # << >>
  BY ThreadsAssumption DEF ThreadsAssumption, TypeInv, ValuesOK
<1>2. u \in Threads /\ 1 \in DOMAIN Peers[t]
  BY <1>1
<1>3. ~last => peer[t] + 1 \in DOMAIN Peers[t]
  BY <1>1
<1>4. active' \in Threads \cup {Host, Nowhere} /\ fresh' \in BOOLEAN
  <2>1. \/ Switch(Handle(u)) /\ fresh' = FALSE
        \/ UNCHANGED << active, fresh >>
    BY DEF Synchronize
  <2>2. CASE Switch(Handle(u)) /\ fresh' = FALSE
    BY <1>2, <2>2, HandleType, SwitchType DEF TypeInv
  <2>3. CASE UNCHANGED << active, fresh >>
    BY <2>3 DEF TypeInv, ValuesOK
  <2>. QED  BY <2>1, <2>2, <2>3
<1>5. /\ peer' = [peer EXCEPT ![t] = IF last THEN 1 ELSE @ + 1]
      /\ pc' = [pc EXCEPT ![t] = IF ~last THEN "peer" ELSE IF work[t] > 0 THEN "step" ELSE AfterBody(t)]
      /\ UNCHANGED << mode, event, resume, master, gen, clock, scalar, work, line, stopped, stall,
                      phase, turn, saves >>
  BY DEF Synchronize, sched, cpu, host
<1>6. peer' \in [Threads -> Nat] /\ \A v \in Threads : peer'[v] \in DOMAIN Peers[v]
  <2>0. DOMAIN Peers[t] \subseteq Nat
    BY <1>1
  <2>. HIDE DEF u, last
  <2>1. peer \in [Threads -> Nat] /\ \A v \in Threads : peer[v] \in DOMAIN Peers[v]
    BY DEF TypeInv, ValuesOK
  <2>2. PICK n \in DOMAIN Peers[t] : peer' = [peer EXCEPT ![t] = n]
    BY <1>2, <1>3, <1>5
  <2>. QED  BY <2>0, <2>1, <2>2
<1>7. pc' = [v \in Threads |-> pc'[v]] /\ WorkLeft'
  <2>. HIDE DEF u, last
  <2>. QED  BY <1>5 DEF TypeInv, ValuesOK, WorkLeft, AfterBody
<1>. QED  BY <1>4, <1>5, <1>6, <1>7 DEF TypeInv, ValuesOK

LEMMA ScanlineType ==
  ASSUME TypeInv, NEW t \in Threads, Scanline(t)
  PROVE  TypeInv'
<1>1. line' \in [Threads -> Nat]
  <2>1. line \in [Threads -> Nat] /\ Lines \in Nat \ {0}
    BY NumbersAssumption DEF NumbersAssumption, TypeInv, ValuesOK
  <2>2. (line[t] + 1) % Lines \in Nat
    BY <2>1, WrapType
  <2>. QED  BY <2>1, <2>2 DEF Scanline
<1>2. /\ clock' \in [Threads -> Nat] /\ event' \in {"Step", "Frame", "Synchronize"}
      /\ resume' \in Threads \X Gens /\ active' \in Threads \cup {Host, Nowhere}
  <2>1. Exit(t, "Frame") \/ UNCHANGED << clock, event, resume, active >>
    BY DEF Scanline
  <2>2. CASE Exit(t, "Frame")
    BY <2>2, ExitType DEF TypeInv
  <2>3. CASE UNCHANGED << clock, event, resume, active >>
    BY <2>3 DEF TypeInv, ValuesOK
  <2>. QED  BY <2>1, <2>2, <2>3
<1>3. /\ pc' = [pc EXCEPT ![t] = IF t \in FrameFirst THEN "step" ELSE "top"]
      /\ pc[t] = "scanline"
      /\ UNCHANGED << mode, master, gen, scalar, work, peer, stopped, stall, phase, turn, saves, fresh >>
  BY DEF Scanline, cpu, host
<1>4. pc' = [v \in Threads |-> pc'[v]] /\ WorkLeft'
  BY <1>3 DEF TypeInv, ValuesOK, WorkLeft
<1>. QED  BY <1>1, <1>2, <1>3, <1>4 DEF TypeInv, ValuesOK

\* Scheduler::enter() gives the processor to the thread with the handle, whatever the mode.
LEMMA EnterType ==
  ASSUME NEW m \in {"Run", "SynchronizeMaster", "SynchronizeSlave"}, NEW h \in Threads \X Gens, Enter(m, h)
  PROVE  /\ active' \in Threads \cup {Nowhere} /\ fresh' = TRUE /\ mode' = m
BY DEF Enter, Switch

LEMMA SynchronizeThreadType ==
  ASSUME TypeInv, SynchronizeThread
  PROVE  TypeInv'
<1> DEFINE t == SaveOrder[turn]
<1>1. t \in Threads
  BY SaveOrderAssumption DEF SaveOrderAssumption, TypeInv, ValuesOK
<1>2. /\ active' \in Threads \cup {Nowhere} /\ fresh' = TRUE
      /\ mode' \in {"SynchronizeMaster", "SynchronizeSlave"} /\ resume' \in Threads \X Gens
  <2>1. \/ Enter("SynchronizeMaster", resume) /\ UNCHANGED resume
        \/ Enter("SynchronizeSlave", Handle(t)) /\ resume' = Handle(t)
    BY DEF SynchronizeThread
  <2>2. resume \in Threads \X Gens /\ Handle(t) \in Threads \X Gens
    BY <1>1, HandleType DEF TypeInv, ValuesOK
  <2>. QED  BY <2>1, <2>2, EnterType
<1>3. /\ phase' = "await"
      /\ UNCHANGED << event, master, gen, clock, scalar, pc, work, peer, line, stopped, stall, turn, saves >>
  BY DEF SynchronizeThread, cpu
<1>. QED  BY <1>2, <1>3 DEF TypeInv, ValuesOK, WorkLeft, Phases

LEMMA ConnectType ==
  ASSUME TypeInv, NEW ps \in Swaps, Connect(ps)
  PROVE  TypeInv'
<1> DEFINE P == {ps[i] : i \in DOMAIN ps}
<1>1. P \subseteq Threads
  <2>1. ps \in Seq(Ports) /\ Ports \subseteq Threads
    BY ThreadsAssumption DEF ThreadsAssumption
  <2>. QED  BY <2>1
<1>2. PICK s \in [P -> UNION {Scalars[t] : t \in P}], g \in [P -> Gens] :
        /\ \A t \in P : s[t] \in Scalars[t]
        /\ gen' = [t \in Threads |-> IF t \in P THEN g[t] ELSE gen[t]]
        /\ scalar' = [t \in Threads |-> IF t \in P THEN s[t] ELSE scalar[t]]
        /\ clock' = [t \in Threads |-> IF t \in P THEN BiasOf(t, s[t], Cardinality(Threads) - 1)
                                                  ELSE clock[t]]
        /\ pc' = [t \in Threads |-> IF t \in P THEN "top" ELSE pc[t]]
        /\ work' = [t \in Threads |-> IF t \in P THEN 0 ELSE work[t]]
        /\ peer' = [t \in Threads |-> IF t \in P THEN 1 ELSE peer[t]]
  BY DEF Connect
<1>. HIDE DEF P
<1>3. gen' \in [Threads -> Gens] /\ scalar' \in [Threads -> Nat]
  <2>1. \A t \in P : s[t] \in Nat
    BY <1>1, <1>2, NumbersAssumption DEF NumbersAssumption
  <2>. QED  BY <1>2, <2>1 DEF TypeInv, ValuesOK
<1>4. clock' \in [Threads -> Nat]
  <2>1. \A t \in P : BiasOf(t, s[t], Cardinality(Threads) - 1) \in Nat
    BY CardinalityType DEF BiasOf
  <2>. QED  BY <1>2, <2>1 DEF TypeInv, ValuesOK
<1>5. pc' = [v \in Threads |-> pc'[v]] /\ work' \in [Threads -> Nat] /\ WorkLeft'
  BY <1>2 DEF TypeInv, ValuesOK, WorkLeft
<1>6. peer' \in [Threads -> Nat] /\ \A t \in Threads : peer'[t] \in DOMAIN Peers[t]
  <2>1. \A t \in Threads : 1 \in DOMAIN Peers[t]
    BY ThreadsAssumption DEF ThreadsAssumption
  <2>. QED  BY <1>2, <2>1 DEF TypeInv, ValuesOK
<1>7. UNCHANGED << active, mode, event, resume, master, line, stopped, stall, phase, turn, saves, fresh >>
  BY DEF Connect, sched, cpu, host
<1>. QED  BY <1>3, <1>4, <1>5, <1>6, <1>7 DEF TypeInv, ValuesOK

LEMMA CreateType ==
  ASSUME Create
  PROVE  /\ gen' \in [Threads -> Gens]
         /\ resume' \in Threads \X Gens /\ master' \in Threads \X Gens
         /\ scalar' \in [Threads -> Nat] /\ pc' = [v \in Threads |-> pc'[v]] /\ work' \in [Threads -> Nat]
         /\ peer' \in [Threads -> Nat] /\ \A t \in Threads : peer'[t] \in DOMAIN Peers[t]
         /\ \A t \in Threads : pc'[t] = "top"
<1>1. PICK g \in Gens :
        /\ gen' = [t \in Threads |-> g]
        /\ resume' = << Master, g >> /\ master' = << Master, g >>
  BY DEF Create
<1>2. scalar' \in [Threads -> Nat]
  <2>1. /\ scalar' \in [Threads -> UNION {Scalars[t] : t \in Threads}]
        /\ \A t \in Threads : scalar'[t] \in Scalars[t]
    BY DEF Create
  <2>2. \A t \in Threads : scalar'[t] \in Nat
    BY <2>1, NumbersAssumption DEF NumbersAssumption
  <2>. QED  BY <2>1, <2>2
<1>3. /\ pc' = [t \in Threads |-> "top"] /\ work' = [t \in Threads |-> 0]
      /\ peer' = [t \in Threads |-> 1]
  BY DEF Create
<1>4. \A t \in Threads : 1 \in DOMAIN Peers[t]
  BY ThreadsAssumption DEF ThreadsAssumption
<1>. QED  BY <1>1, <1>2, <1>3, <1>4, ThreadsAssumption DEF ThreadsAssumption

LEMMA PowerType ==
  ASSUME TypeInv, Power
  PROVE  TypeInv'
<1>1. Create /\ clock' = [t \in Threads |-> PowerClock(t, scalar'[t])]
  BY DEF Power
<1>2. clock' \in [Threads -> Nat]
  BY <1>1, PowerClockType
<1>3. /\ line' = [t \in Threads |-> 0] /\ stopped' = [t \in Threads |-> FALSE]
      /\ stall' = [t \in Threads |-> 0]
      /\ UNCHANGED << active, mode, event, phase, turn, saves, fresh >>
  BY DEF Power, host
<1>. QED  BY <1>1, <1>2, <1>3, CreateType DEF TypeInv, ValuesOK, WorkLeft

LEMMA UnserializeType ==
  ASSUME TypeInv, Unserialize
  PROVE  TypeInv'
<1>1. /\ Create
      /\ clock' = [t \in Threads |-> IF t \in Ports THEN PowerClock(t, scalar'[t]) ELSE clock[t]]
  BY DEF Unserialize
<1>2. clock' \in [Threads -> Nat]
  BY <1>1, PowerClockType DEF TypeInv, ValuesOK
<1>3. phase' = "idle" /\ UNCHANGED << active, mode, event, line, stopped, stall, turn, saves, fresh >>
  BY DEF Unserialize, cpu
<1>. QED  BY <1>1, <1>2, <1>3, CreateType DEF TypeInv, ValuesOK, WorkLeft, Phases

\* The steps of the program thread that touch no thread.
LEMMA HostType ==
  ASSUME TypeInv, Run \/ RunReturns \/ Save \/ Reenter \/ Synchronized \/ Serialize
  PROVE  TypeInv'
<1>1. mode \in {"Run", "SynchronizeMaster", "SynchronizeSlave"} /\ resume \in Threads \X Gens
  BY DEF TypeInv, ValuesOK
<1>2. CASE Run
  <2>1. active' \in Threads \cup {Nowhere} /\ fresh' = TRUE /\ mode' = "Run"
    BY <1>1, <1>2, EnterType DEF Run
  <2>. QED  BY <1>2, <2>1, NumbersAssumption
            DEF Run, TypeInv, ValuesOK, WorkLeft, Phases, cpu, NumbersAssumption
<1>3. CASE RunReturns
  BY <1>3 DEF RunReturns, TypeInv, ValuesOK, WorkLeft, Phases, sched, cpu
<1>4. CASE Save
  <2>1. 1 \in DOMAIN SaveOrder
    BY SaveOrderAssumption DEF SaveOrderAssumption
  <2>2. saves < MaxSaves /\ saves \in 0 .. MaxSaves /\ MaxSaves \in Nat
    BY <1>4, NumbersAssumption DEF Save, TypeInv, ValuesOK, NumbersAssumption
  <2>3. saves + 1 \in 0 .. MaxSaves
    BY <2>2
  <2>. QED  BY <1>4, <2>1, <2>3 DEF Save, TypeInv, ValuesOK, WorkLeft, Phases, sched, cpu
<1>5. CASE Reenter
  <2>1. active' \in Threads \cup {Nowhere} /\ fresh' = TRUE /\ mode' = mode
    BY <1>1, <1>5, EnterType DEF Reenter
  <2>. QED  BY <1>5, <2>1 DEF Reenter, TypeInv, ValuesOK, WorkLeft, cpu, host
<1>6. CASE Synchronized
  <2>1. DOMAIN SaveOrder = 1 .. Len(SaveOrder) /\ Len(SaveOrder) \in Nat
    BY SaveOrderAssumption DEF SaveOrderAssumption
  <2>2. turn \in DOMAIN SaveOrder
    BY DEF TypeInv, ValuesOK
  <2>3. turn # Len(SaveOrder) => turn + 1 \in DOMAIN SaveOrder
    BY <2>1, <2>2
  <2>. QED  BY <1>6, <2>3 DEF Synchronized, TypeInv, ValuesOK, WorkLeft, Phases, sched, cpu
<1>7. CASE Serialize
  BY <1>7 DEF Serialize, TypeInv, ValuesOK, WorkLeft, Phases, sched, cpu
<1>. QED  BY <1>2, <1>3, <1>4, <1>5, <1>6, <1>7

LEMMA InitType == Init => TypeInv
<1> SUFFICES ASSUME Init
             PROVE  TypeInv
  OBVIOUS
<1>1. \A t \in Threads : scalar[t] \in Nat
  BY NumbersAssumption DEF Init, NumbersAssumption
<1>2. clock \in [Threads -> Nat] /\ scalar \in [Threads -> Nat]
  BY <1>1, PowerClockType DEF Init
<1>3. \A t \in Threads : 1 \in DOMAIN Peers[t]
  BY ThreadsAssumption DEF ThreadsAssumption
<1>4. 1 \in DOMAIN SaveOrder
  BY SaveOrderAssumption DEF SaveOrderAssumption
<1>5. Master \in Threads /\ 0 \in Gens /\ MaxSaves \in Nat
  BY ThreadsAssumption, NumbersAssumption DEF ThreadsAssumption, NumbersAssumption
<1>. QED  BY <1>2, <1>3, <1>4, <1>5 DEF Init, TypeInv, ValuesOK, WorkLeft, Phases

LEMMA StutterType == TypeInv /\ UNCHANGED vars => TypeInv'
BY DEF TypeInv, ValuesOK, WorkLeft, vars, sched, cpu, host

\* Every step of the scheduler, of a thread and of the program thread keeps the types.
LEMMA NextType == TypeInv /\ [Next]_vars => TypeInv'
<1> SUFFICES ASSUME TypeInv, [Next]_vars
             PROVE  TypeInv'
  OBVIOUS
<1>1. ASSUME NEW t \in Threads, ThreadStep(t)
      PROVE  TypeInv'
  BY <1>1, ParkType, PassType, BeginType, StepType, SynchronizeType, ScanlineType DEF ThreadStep
<1>2. CASE Proceed
  BY <1>1, <1>2, HostType, SynchronizeThreadType DEF Proceed
<1>3. CASE Run \/ Save
  BY <1>3, HostType
<1>4. CASE Unserialize \/ Power \/ \E ps \in Swaps : Connect(ps)
  BY <1>4, UnserializeType, PowerType, ConnectType
<1>5. CASE UNCHANGED vars
  BY <1>5, StutterType
<1>. QED  BY <1>2, <1>3, <1>4, <1>5 DEF Next

\* A cothread leaves the places of its loop for no other.
LEMMA NextPoints == pc \in [Threads -> Points] /\ [Next]_vars => pc' \in [Threads -> Points]
<1> SUFFICES ASSUME pc \in [Threads -> Points], [Next]_vars
             PROVE  pc' \in [Threads -> Points]
  OBVIOUS
<1>1. ASSUME NEW t \in Threads, ThreadStep(t)
      PROVE  pc' \in [Threads -> Points]
  <2>1. \/ UNCHANGED pc
        \/ \E p \in Points : pc' = [pc EXCEPT ![t] = p]
    BY <1>1 DEF ThreadStep, Park, Pass, Begin, Step, Synchronize, Scanline, AfterBody, Points
  <2>. QED  BY <2>1
<1>2. CASE \/ RunReturns \/ SynchronizeThread \/ Reenter \/ Synchronized \/ Serialize
           \/ Run \/ Save \/ UNCHANGED vars
  BY <1>2 DEF RunReturns, SynchronizeThread, Reenter, Synchronized, Serialize, Run, Save, vars
<1>3. CASE Unserialize \/ Power
  BY <1>3 DEF Unserialize, Power, Create, Points
<1>4. ASSUME NEW ps \in Swaps, Connect(ps)
      PROVE  pc' \in [Threads -> Points]
  <2>1. \E P : pc' = [t \in Threads |-> IF t \in P THEN "top" ELSE pc[t]]
    BY <1>4 DEF Connect
  <2>. QED  BY <2>1 DEF Points
<1>. QED  BY <1>1, <1>2, <1>3, <1>4 DEF Next, Proceed

\* In every reachable state of every system each variable of the scheduler and of its
\* threads has a value of its type: no counter underflows, and no index leaves its list.
THEOREM TypeCorrect == Spec => []TypeOK
<1> DEFINE Inv == TypeInv /\ pc \in [Threads -> Points]
<1>1. Init => Inv
  BY InitType DEF Init, Points
<1>2. Inv /\ [Next]_vars => Inv'
  BY NextType, NextPoints
<1>3. Inv => TypeOK
  BY DEF TypeInv, TypeOK
<1>. QED  BY <1>1, <1>2, <1>3, PTL DEF Spec

-----------------------------------------------------------------------------
(* Saving a state *)

\* The primary thread is the one the scheduler takes for it, whatever connect() frees.
MasterIsPrimary == master = Handle(Master)

\* Between the calls of enter() the program thread runs.
HostRuns == phase \in {"idle", "synchronize", "saved"} => active = Host

\* run() enters the scheduler in one mode, and runToSave() in two: while a thread other
\* than the primary one is synchronized it alone runs, and is resumed.
ModeOfCall ==
  /\ phase = "run" => mode = "Run"
  /\ phase = "await" /\ turn = 1 => mode = "SynchronizeMaster"
  /\ phase = "await" /\ turn # 1 => /\ mode = "SynchronizeSlave"
                                  /\ active \in {SaveOrder[turn], Host}
                                  /\ resume = Handle(SaveOrder[turn])

\* The event that is waited for is raised at the top of the loop of the right thread.
ParkedAtTop == phase = "await" /\ active = Host /\ event = "Synchronize" => AtTop(SaveOrder[turn])

\* The threads that were synchronized stay at the top of their loops.
EarlierAtTop ==
  phase \in {"synchronize", "await"} =>
    \A i \in DOMAIN SaveOrder :
      i < turn => AtTop(SaveOrder[i]) \/ (phase = "await" /\ SaveOrder[i] = SaveOrder[turn])

SaveInv ==
  /\ TypeInv /\ MasterIsPrimary /\ HostRuns /\ ModeOfCall
  /\ ParkedAtTop /\ EarlierAtTop /\ SafePoint

\* A thread runs while it is active, and changes no place but its own.
LEMMA ThreadStepFacts ==
  ASSUME TypeInv, NEW t \in Threads, ThreadStep(t)
  PROVE  /\ active = t
         /\ UNCHANGED << mode, master, gen, phase, turn, saves >>
         /\ \A u \in Threads : u # t => pc'[u] = pc[u] /\ work'[u] = work[u]
<1>0. pc = [v \in Threads |-> pc[v]] /\ work \in [Threads -> Nat]
  BY DEF TypeInv, ValuesOK
<1>1. CASE Park(t)
  BY <1>0, <1>1 DEF Park, host
<1>2. CASE Pass(t)
  BY <1>0, <1>2 DEF Pass, sched, host
<1>3. CASE Begin(t)
  <2>1. \E n \in Bodies[t] : work' = [work EXCEPT ![t] = n]
    BY <1>3 DEF Begin
  <2>. QED  BY <1>0, <1>3, <2>1 DEF Begin, sched, host
<1>4. CASE Step(t)
  BY <1>0, <1>4 DEF Step, sched, host
<1>5. CASE Synchronize(t)
  <2>1. UNCHANGED << mode, master, gen, work, phase, turn, saves >> /\ active = t
    BY <1>5 DEF Synchronize, sched, host
  <2>2. \E p \in Points : pc' = [pc EXCEPT ![t] = p]
    BY <1>5 DEF Synchronize, AfterBody, Points
  <2>. QED  BY <1>0, <2>1, <2>2
<1>6. CASE Scanline(t)
  BY <1>0, <1>6 DEF Scanline, host
<1>. QED  BY <1>1, <1>2, <1>3, <1>4, <1>5, <1>6 DEF ThreadStep

\* Only the top of the loop and the end of a frame give the processor to the program thread,
\* and a thread that is synchronized alone gives it to no other.
LEMMA ThreadSwitch ==
  ASSUME TypeInv, NEW t \in Threads, ThreadStep(t)
  PROVE  \/ Park(t) /\ Exit(t, "Synchronize")
         \/ pc[t] = "scanline" /\ Exit(t, "Frame")
         \/ /\ active' # Host /\ UNCHANGED << event, resume >>
            /\ mode = "SynchronizeSlave" => active' = t
<1>1. t # Host /\ Nowhere # Host /\ active = t
  BY ThreadsAssumption, ThreadStepFacts DEF ThreadsAssumption
<1>2. CASE Park(t)
  BY <1>2 DEF Park
<1>3. CASE Pass(t) \/ Begin(t) \/ Step(t)
  BY <1>1, <1>3 DEF Pass, Begin, Step, sched
<1>4. CASE Synchronize(t)
  <2> DEFINE u == Peers[t][peer[t]]
  <2>1. UNCHANGED << event, resume >>
    BY <1>4 DEF Synchronize, sched
  <2>2. \/ Switch(Handle(u)) /\ ~synchronizing
        \/ active' = active
    BY <1>4 DEF Synchronize
  <2>3. u \in Threads
    <3>1. Peers[t] \in Seq(Threads)
      BY ThreadsAssumption DEF ThreadsAssumption
    <3>2. peer[t] \in DOMAIN Peers[t]
      BY DEF TypeInv, ValuesOK
    <3>. QED  BY <3>1, <3>2
  <2>4. Switch(Handle(u)) => active' # Host
    BY <1>1, <2>3, ThreadsAssumption DEF Switch, Handle, ThreadsAssumption
  <2>. HIDE DEF u
  <2>. QED  BY <1>1, <2>1, <2>2, <2>4 DEF synchronizing
<1>5. CASE Scanline(t)
  <2>1. Exit(t, "Frame") \/ UNCHANGED << clock, event, resume, active >>
    BY <1>5 DEF Scanline
  <2>2. pc[t] = "scanline"
    BY <1>5 DEF Scanline
  <2>. QED  BY <1>1, <2>1, <2>2
<1>. QED  BY <1>2, <1>3, <1>4, <1>5 DEF ThreadStep

LEMMA ThreadSave ==
  ASSUME SaveInv, NEW t \in Threads, ThreadStep(t)
  PROVE  SaveInv'
<1>1. TypeInv'
  BY ParkType, PassType, BeginType, StepType, SynchronizeType, ScanlineType DEF SaveInv, ThreadStep
<1>2. /\ active = t
      /\ UNCHANGED << mode, master, gen, phase, turn, saves >>
      /\ \A u \in Threads : u # t => pc'[u] = pc[u] /\ work'[u] = work[u]
  BY ThreadStepFacts DEF SaveInv
<1>3. phase \in {"run", "await"}
  <2>1. t # Host /\ phase \in Phases /\ HostRuns
    BY ThreadsAssumption DEF ThreadsAssumption, SaveInv, TypeInv, ValuesOK
  <2>. QED  BY <1>2, <2>1 DEF HostRuns, Phases
<1>4. \/ Park(t) /\ Exit(t, "Synchronize")
      \/ pc[t] = "scanline" /\ Exit(t, "Frame")
      \/ /\ active' # Host /\ UNCHANGED << event, resume >>
         /\ mode = "SynchronizeSlave" => active' = t
  BY ThreadSwitch DEF SaveInv
<1>5. turn \in DOMAIN SaveOrder /\ \A i \in DOMAIN SaveOrder : SaveOrder[i] \in Threads
  <2>1. turn \in DOMAIN SaveOrder
    BY DEF SaveInv, TypeInv, ValuesOK
  <2>2. SaveOrder \in Seq(Threads)
    BY SaveOrderAssumption DEF SaveOrderAssumption
  <2>. QED  BY <2>1, <2>2
<1>6. ASSUME phase = "await", turn # 1
      PROVE  t = SaveOrder[turn] /\ mode = "SynchronizeSlave" /\ resume = Handle(t)
  <2>1. t # Host
    BY ThreadsAssumption DEF ThreadsAssumption
  <2>. QED  BY <1>2, <1>6, <2>1 DEF SaveInv, ModeOfCall
<1>7. MasterIsPrimary'
  BY <1>2 DEF SaveInv, MasterIsPrimary, Handle
<1>8. HostRuns' /\ SafePoint'
  BY <1>2, <1>3 DEF HostRuns, SafePoint
<1>9. ModeOfCall'
  <2>1. ASSUME phase = "await", turn # 1
        PROVE  active' \in {t, Host} /\ resume' = Handle(t)
    BY <1>4, <1>6, <2>1 DEF Exit
  <2>2. Handle(t)' = Handle(t)
    BY <1>2 DEF Handle
  <2>. QED  BY <1>2, <1>6, <2>1, <2>2 DEF SaveInv, ModeOfCall, Handle
<1>10. ASSUME Park(t), phase = "await"
       PROVE  t = SaveOrder[turn] /\ pc'[t] = "main"
  <2>1. pc'[t] = "main"
    BY <1>10 DEF Park, SaveInv, TypeInv, ValuesOK
  <2>2. CASE turn = 1
    <3>1. mode = "SynchronizeMaster" /\ mode = SyncMode(t)
      BY <1>10, <2>2 DEF Park, SaveInv, ModeOfCall
    <3>2. Handle(t) = Handle(Master)
      BY <3>1 DEF SyncMode, SaveInv, MasterIsPrimary
    <3>3. SaveOrder[1] = Master
      BY <1>5, <2>2, SaveOrderAssumption DEF SaveOrderAssumption
    <3>. QED  BY <2>1, <2>2, <3>2, <3>3 DEF Handle
  <2>. QED  BY <1>6, <1>10, <2>1, <2>2
<1>11. ParkedAtTop'
  <2>. SUFFICES ASSUME phase' = "await", active' = Host, event' = "Synchronize"
                PROVE  AtTop(SaveOrder[turn])'
    BY DEF ParkedAtTop
  <2>1. Park(t)
    BY <1>4 DEF Exit
  <2>2. turn' = turn /\ phase = "await"
    BY <1>2
  <2>. QED  BY <1>10, <2>1, <2>2 DEF AtTop
<1>12. EarlierAtTop'
  <2>. SUFFICES ASSUME phase' \in {"synchronize", "await"}, NEW i \in DOMAIN SaveOrder, i < turn'
                PROVE  AtTop(SaveOrder[i])' \/ (phase' = "await" /\ SaveOrder[i] = SaveOrder[turn'])
    BY DEF EarlierAtTop
  <2>1. phase = "await" /\ phase' = "await" /\ turn' = turn
    BY <1>2, <1>3
  <2>2. DOMAIN SaveOrder = 1 .. Len(SaveOrder) /\ Len(SaveOrder) \in Nat
    BY SaveOrderAssumption DEF SaveOrderAssumption
  <2>3. turn # 1
    <3>1. i < turn /\ i \in 1 .. Len(SaveOrder)
      BY <2>1, <2>2
    <3>. QED  BY <3>1, <2>2
  <2>4. t = SaveOrder[turn]
    BY <1>6, <2>1, <2>3
  <2>5. SaveOrder[i] # t => AtTop(SaveOrder[i])
    BY <2>1, <2>4 DEF SaveInv, EarlierAtTop
  <2>6. SaveOrder[i] # t => pc'[SaveOrder[i]] = pc[SaveOrder[i]]
    BY <1>2, <1>5
  <2>. QED  BY <2>1, <2>4, <2>5, <2>6 DEF AtTop
<1>. QED  BY <1>1, <1>7, <1>8, <1>9, <1>11, <1>12 DEF SaveInv

\* The place that runToSave() has reached is one of its list.
LEMMA TurnType ==
  ASSUME TypeInv
  PROVE  /\ turn \in DOMAIN SaveOrder /\ 1 \in DOMAIN SaveOrder /\ SaveOrder[1] = Master
         /\ DOMAIN SaveOrder = 1 .. Len(SaveOrder) /\ Len(SaveOrder) \in Nat
         /\ \A i \in DOMAIN SaveOrder : SaveOrder[i] \in Threads
<1>1. turn \in DOMAIN SaveOrder
  BY DEF TypeInv, ValuesOK
<1>2. SaveOrder \in Seq(Threads) /\ 1 \in DOMAIN SaveOrder
  BY SaveOrderAssumption DEF SaveOrderAssumption
<1>3. SaveOrder[1] = Master
  BY <1>2, SaveOrderAssumption DEF SaveOrderAssumption
<1>. QED  BY <1>1, <1>2, <1>3

\* run() enters the scheduler; it returns when the frame is complete.
LEMMA RunSave ==
  ASSUME SaveInv, Run \/ RunReturns
  PROVE  SaveInv'
<1>1. TypeInv'
  BY HostType DEF SaveInv
<1>2. CASE Run
  <2>1. /\ phase' = "run" /\ mode' = "Run" /\ active' # Host
        /\ UNCHANGED << resume, master, gen, pc, turn >>
    <3>1. resume \in Threads \X Gens /\ Enter("Run", resume)
      BY <1>2 DEF Run, SaveInv, TypeInv, ValuesOK
    <3>2. active' # Host /\ mode' = "Run"
      BY <3>1, EnterType, ThreadsAssumption DEF ThreadsAssumption
    <3>. QED  BY <1>2, <3>2 DEF Run
  <2>. QED  BY <1>1, <2>1 DEF SaveInv, MasterIsPrimary, Handle, HostRuns, ModeOfCall, ParkedAtTop,
                              EarlierAtTop, SafePoint
<1>3. CASE RunReturns
  <2>1. phase' = "idle" /\ active' = Host /\ UNCHANGED << master, gen >>
    BY <1>3 DEF RunReturns, sched
  <2>. QED  BY <1>1, <2>1 DEF SaveInv, MasterIsPrimary, Handle, HostRuns, ModeOfCall, ParkedAtTop,
                              EarlierAtTop, SafePoint
<1>. QED  BY <1>2, <1>3

\* runToSave() begins with the primary thread, before which there is no other.
LEMMA SaveSave ==
  ASSUME SaveInv, Save
  PROVE  SaveInv'
<1>1. TypeInv'
  BY HostType DEF SaveInv
<1>2. phase' = "synchronize" /\ turn' = 1 /\ active' = Host /\ UNCHANGED << master, gen >>
  BY DEF Save, sched
<1>3. \A i \in DOMAIN SaveOrder : ~ (i < 1)
  BY TurnType DEF SaveInv
<1>. QED  BY <1>1, <1>2, <1>3 DEF SaveInv, MasterIsPrimary, Handle, HostRuns, ModeOfCall, ParkedAtTop,
                                  EarlierAtTop, SafePoint

\* It enters the scheduler in the mode of the thread whose turn it is; a thread other than
\* the primary one is resumed itself.
LEMMA SynchronizeThreadSave ==
  ASSUME SaveInv, SynchronizeThread
  PROVE  SaveInv'
<1> DEFINE t == SaveOrder[turn]
<1>1. TypeInv'
  BY SynchronizeThreadType DEF SaveInv
<1>2. /\ t \in Threads /\ turn \in DOMAIN SaveOrder
      /\ \A i \in DOMAIN SaveOrder : SaveOrder[i] \in Threads
  BY TurnType DEF SaveInv
<1>3. /\ phase' = "await" /\ phase = "synchronize"
      /\ UNCHANGED << master, gen, pc, turn >>
  BY DEF SynchronizeThread
<1>4. Handle(t) = master <=> turn = 1
  BY <1>2, SaveOrderAssumption DEF SaveInv, MasterIsPrimary, Handle, SaveOrderAssumption
<1>5. EarlierAtTop'
  BY <1>3 DEF SaveInv, EarlierAtTop, AtTop
<1>6. CASE turn = 1
  <2>1. Enter("SynchronizeMaster", resume) /\ resume \in Threads \X Gens
    BY <1>4, <1>6 DEF SynchronizeThread, SaveInv, TypeInv, ValuesOK
  <2>2. mode' = "SynchronizeMaster" /\ active' # Host
    BY <2>1, EnterType, ThreadsAssumption DEF ThreadsAssumption
  <2>. QED  BY <1>1, <1>3, <1>6, <1>5, <2>2 DEF SaveInv, MasterIsPrimary, Handle, HostRuns,
                                               ModeOfCall, ParkedAtTop, SafePoint
<1>7. CASE turn # 1
  <2>1. Enter("SynchronizeSlave", Handle(t)) /\ resume' = Handle(t)
    BY <1>4, <1>7 DEF SynchronizeThread
  <2>2. mode' = "SynchronizeSlave" /\ active' = t
    <3>1. Valid(Handle(t)) /\ Handle(t)[1] = t
      BY DEF Valid, Handle
    <3>. QED  BY <2>1, <3>1 DEF Enter, Switch
  <2>3. active' # Host
    BY <1>2, <2>2, ThreadsAssumption DEF ThreadsAssumption
  <2>4. ModeOfCall'
    <3>1. resume' = Handle(SaveOrder[turn])'
      BY <1>3, <2>1 DEF Handle
    <3>2. active' = SaveOrder[turn]'
      BY <1>3, <2>2
    <3>. QED  BY <1>3, <1>7, <2>2, <3>1, <3>2 DEF ModeOfCall
  <2>. HIDE DEF t
  <2>. QED  BY <1>1, <1>3, <1>5, <2>2, <2>3, <2>4 DEF SaveInv, MasterIsPrimary, Handle, HostRuns,
                                                ParkedAtTop, SafePoint
<1>. QED  BY <1>6, <1>7

\* Another event: the scheduler is entered again, through the thread it left.
LEMMA ReenterSave ==
  ASSUME SaveInv, Reenter
  PROVE  SaveInv'
<1>1. TypeInv'
  BY HostType DEF SaveInv
<1>2. /\ phase = "await" /\ Enter(mode, resume)
      /\ UNCHANGED << event, resume, master, gen, pc, phase, turn >>
  BY DEF Reenter, host
<1>3. mode' = mode /\ active' # Host
  <2>1. resume \in Threads \X Gens /\ mode \in {"Run", "SynchronizeMaster", "SynchronizeSlave"}
    BY DEF SaveInv, TypeInv, ValuesOK
  <2>. QED  BY <1>2, <2>1, EnterType, ThreadsAssumption DEF ThreadsAssumption
<1>4. ModeOfCall'
  <2>1. turn # 1 => active' = SaveOrder[turn]
    <3>1. turn # 1 => resume = Handle(SaveOrder[turn])
      BY <1>2 DEF SaveInv, ModeOfCall
    <3>. QED  BY <1>2, <3>1 DEF Enter, Switch, Valid, Handle
  <2>. QED  BY <1>2, <1>3, <2>1 DEF SaveInv, ModeOfCall, Handle
<1>. QED  BY <1>1, <1>2, <1>3, <1>4 DEF SaveInv, MasterIsPrimary, Handle, HostRuns, ParkedAtTop,
                                        EarlierAtTop, AtTop, SafePoint

\* The event that is waited for: the thread is at the top of its loop, like the ones before it.
LEMMA SynchronizedSave ==
  ASSUME SaveInv, Synchronized
  PROVE  SaveInv'
<1>1. TypeInv'
  BY HostType DEF SaveInv
<1>2. /\ phase = "await" /\ active = Host /\ event = "Synchronize"
      /\ UNCHANGED << active, mode, event, resume, master, gen, pc >>
  BY DEF Synchronized, sched
<1>3. AtTop(SaveOrder[turn])
  BY <1>2 DEF SaveInv, ParkedAtTop
<1>4. \A i \in DOMAIN SaveOrder : i < turn => AtTop(SaveOrder[i])
  BY <1>2, <1>3 DEF SaveInv, EarlierAtTop
<1>5. /\ turn \in DOMAIN SaveOrder /\ DOMAIN SaveOrder = 1 .. Len(SaveOrder)
      /\ Len(SaveOrder) \in Nat
  BY TurnType DEF SaveInv
<1>6. \A i \in DOMAIN SaveOrder : i < turn + 1 => AtTop(SaveOrder[i])
  <2>. SUFFICES ASSUME NEW i \in DOMAIN SaveOrder, i < turn + 1
                PROVE  i < turn \/ i = turn
    BY <1>3, <1>4
  <2>. QED  BY <1>5
<1>7. CASE turn = Len(SaveOrder)
  <2>1. phase' = "saved" /\ turn' = turn
    BY <1>7 DEF Synchronized
  <2>2. \A i \in DOMAIN SaveOrder : i < turn + 1
    BY <1>5, <1>7
  <2>. QED  BY <1>1, <1>2, <1>6, <2>1, <2>2
            DEF SaveInv, MasterIsPrimary, Handle, HostRuns, ModeOfCall, ParkedAtTop, EarlierAtTop,
                AtTop, SafePoint
<1>8. CASE turn # Len(SaveOrder)
  <2>1. phase' = "synchronize" /\ turn' = turn + 1
    BY <1>8 DEF Synchronized
  <2>. QED  BY <1>1, <1>2, <1>6, <2>1
            DEF SaveInv, MasterIsPrimary, Handle, HostRuns, ModeOfCall, ParkedAtTop, EarlierAtTop,
                AtTop, SafePoint
<1>. QED  BY <1>7, <1>8

\* Between the calls the devices in the ports can be replaced, but not the primary thread.
LEMMA IdleSave ==
  ASSUME SaveInv, Serialize \/ Unserialize \/ Power \/ \E ps \in Swaps : Connect(ps)
  PROVE  SaveInv'
<1>1. TypeInv'
  BY HostType, UnserializeType, PowerType, ConnectType DEF SaveInv
<1>2. active' = Host /\ phase' = "idle"
  BY DEF Serialize, Unserialize, Power, Connect, sched, host
<1>3. master' = Handle(Master)'
  <2>1. Master \in Threads
    BY ThreadsAssumption DEF ThreadsAssumption
  <2>2. CASE Serialize
    BY <2>2 DEF Serialize, sched, SaveInv, MasterIsPrimary, Handle
  <2>3. CASE Unserialize \/ Power
    BY <2>1, <2>3 DEF Unserialize, Power, Create, Handle
  <2>4. ASSUME NEW ps \in Swaps, Connect(ps)
        PROVE  master' = Handle(Master)'
    <3> DEFINE P == {ps[i] : i \in DOMAIN ps}
    <3>1. Master \notin P
      <4>1. ps \in Seq(Ports) /\ Master \notin Ports
        BY ThreadsAssumption DEF ThreadsAssumption
      <4>. QED  BY <4>1
    <3>2. master' = master /\ gen'[Master] = gen[Master]
      <4>1. \E g : gen' = [t \in Threads |-> IF t \in P THEN g[t] ELSE gen[t]]
        BY <2>4 DEF Connect
      <4>2. master' = master
        BY <2>4 DEF Connect, sched
      <4>. HIDE DEF P
      <4>. QED  BY <2>1, <3>1, <4>1, <4>2
    <3>. QED  BY <3>2 DEF SaveInv, MasterIsPrimary, Handle
  <2>. QED  BY <2>2, <2>3, <2>4
<1>. QED  BY <1>1, <1>2, <1>3 DEF SaveInv, MasterIsPrimary, HostRuns, ModeOfCall, ParkedAtTop,
                                  EarlierAtTop, SafePoint

LEMMA InitSave == Init => SaveInv
<1> SUFFICES ASSUME Init
             PROVE  SaveInv
  OBVIOUS
<1>1. TypeInv
  BY InitType
<1>2. Master \in Threads
  BY ThreadsAssumption DEF ThreadsAssumption
<1>. QED  BY <1>1, <1>2 DEF Init, SaveInv, MasterIsPrimary, Handle, HostRuns, ModeOfCall, ParkedAtTop,
                            EarlierAtTop, SafePoint

\* The strengthened invariant is inductive.
LEMMA NextSave == SaveInv /\ [Next]_vars => SaveInv'
<1> SUFFICES ASSUME SaveInv, [Next]_vars
             PROVE  SaveInv'
  OBVIOUS
<1>1. CASE Proceed
  BY <1>1, ThreadSave, RunSave, SynchronizeThreadSave, ReenterSave, SynchronizedSave, IdleSave DEF Proceed
<1>2. CASE Run \/ Save
  BY <1>2, RunSave, SaveSave
<1>3. CASE Unserialize \/ Power \/ \E ps \in Swaps : Connect(ps)
  BY <1>3, IdleSave
<1>4. CASE UNCHANGED vars
  <2>1. TypeInv'
    BY <1>4, StutterType DEF SaveInv
  <2>. QED  BY <1>4, <2>1 DEF vars, sched, host, SaveInv, MasterIsPrimary, Handle, HostRuns, ModeOfCall,
                              ParkedAtTop, EarlierAtTop, AtTop, SafePoint
<1>. QED  BY <1>1, <1>2, <1>3, <1>4 DEF Next

\* Whenever System::serialize() copies a system, each of its threads is at the top of its
\* loop, whatever the system, and whatever was replaced or loaded before.
THEOREM SafePointCorrect == Spec => []SafePoint
<1>1. SaveInv => SafePoint
  BY DEF SaveInv
<1>. QED  BY <1>1, InitSave, NextSave, PTL DEF Spec

\* System::run() returns at the end of a frame, and for no other reason.
THEOREM RunCorrect == Spec => []RunEndsWithFrame
<1>1. Spec => []SaveInv
  BY InitSave, NextSave, PTL DEF Spec
<1>2. Init => RunEndsWithFrame
  BY DEF Init, RunEndsWithFrame
<1>3. SaveInv /\ RunEndsWithFrame /\ [Next]_vars => RunEndsWithFrame'
  <2> SUFFICES ASSUME SaveInv, RunEndsWithFrame, [Next]_vars, phase' = "run", active' = Host
               PROVE  event' = "Frame"
    BY DEF RunEndsWithFrame
  <2>1. ASSUME NEW t \in Threads, ThreadStep(t)
        PROVE  event' = "Frame"
    <3>1. phase = "run" /\ mode = "Run"
      BY <2>1, ThreadStepFacts DEF SaveInv, ModeOfCall
    <3>2. ~ Park(t)
      BY <3>1 DEF Park, SyncMode
    <3>. QED  BY <2>1, <3>2, ThreadSwitch DEF SaveInv, Exit
  <2>2. CASE Run
    <3>1. resume \in Threads \X Gens /\ Enter("Run", resume)
      BY <2>2 DEF Run, SaveInv, TypeInv, ValuesOK
    <3>. QED  BY <3>1, EnterType, ThreadsAssumption DEF ThreadsAssumption
  <2>3. ~ (\/ RunReturns \/ SynchronizeThread \/ Reenter \/ Synchronized \/ Serialize
          \/ Save \/ Unserialize \/ Power \/ \E ps \in Swaps : Connect(ps))
    BY DEF RunReturns, SynchronizeThread, Reenter, Synchronized, Serialize, Save, Unserialize,
           Power, Connect, host
  <2>4. CASE UNCHANGED vars
    BY <2>4 DEF vars, sched, host, RunEndsWithFrame
  <2>. QED  BY <2>1, <2>2, <2>3, <2>4 DEF Next, Proceed
<1>. QED  BY <1>1, <1>2, <1>3, PTL DEF Spec

\* While a thread other than the primary one is synchronized no other moves.
THEOREM OthersFrozenCorrect == Spec => OthersFrozen
<1> DEFINE A == mode = "SynchronizeSlave" /\ phase = "await"
                  => \A t \in Threads : t # SaveOrder[turn] => pc'[t] = pc[t] /\ work'[t] = work[t]
<1>1. SaveInv /\ [Next]_vars => [A]_vars
  <2> SUFFICES ASSUME SaveInv, Next, mode = "SynchronizeSlave", phase = "await",
                      NEW t \in Threads, t # SaveOrder[turn]
               PROVE  pc'[t] = pc[t] /\ work'[t] = work[t]
    OBVIOUS
  <2>1. turn # 1 /\ active \in {SaveOrder[turn], Host}
    BY DEF SaveInv, ModeOfCall
  <2>2. ASSUME NEW u \in Threads, ThreadStep(u)
        PROVE  pc'[t] = pc[t] /\ work'[t] = work[t]
    <3>1. active = u
      BY <2>2, ThreadStepFacts DEF SaveInv
    <3>2. u = SaveOrder[turn]
      BY <2>1, <3>1, ThreadsAssumption DEF ThreadsAssumption
    <3>. QED  BY <2>2, <3>2, ThreadStepFacts DEF SaveInv
  <2>3. CASE Reenter \/ Synchronized
    BY <2>3 DEF Reenter, Synchronized
  <2>4. ~ (\/ RunReturns \/ SynchronizeThread \/ Serialize \/ Run \/ Save
          \/ Unserialize \/ Power \/ \E ps \in Swaps : Connect(ps))
    BY DEF RunReturns, SynchronizeThread, Serialize, Run, Save, Unserialize, Power, Connect
  <2>. QED  BY <2>2, <2>3, <2>4 DEF Next, Proceed
<1>2. Spec => []SaveInv
  BY InitSave, NextSave, PTL DEF Spec
<1>3. Spec => [][A]_vars
  <2>. HIDE DEF A
  <2>. QED  BY <1>1, <1>2, PTL DEF Spec
<1>. QED  BY <1>3 DEF OthersFrozen

-----------------------------------------------------------------------------
(* The handle enter() switches to *)

\* Only a picture unit calls scanline().
PictureUnits == \A t \in Threads : pc[t] = "scanline" => t \in FrameThreads

\* Unless the last event is that of a save, the handle is one no connect() deletes.
ResumeLives == phase \in {"idle", "run"} /\ event # "Synchronize" => Valid(resume) /\ resume[1] \notin Ports

\* A save ends with that event.
SavedByEvent == phase = "saved" => event = "Synchronize"

DanglingInv == SaveInv /\ PictureUnits /\ ResumeLives /\ SavedByEvent

LEMMA InitDangling == Init => DanglingInv
<1> SUFFICES ASSUME Init
             PROVE  DanglingInv
  OBVIOUS
<1>1. SaveInv
  BY InitSave
<1>2. Master \in Threads /\ Master \notin Ports
  BY ThreadsAssumption DEF ThreadsAssumption
<1>3. PictureUnits
  BY DEF Init, PictureUnits
<1>4. ResumeLives
  BY <1>2 DEF Init, ResumeLives, Valid
<1>. QED  BY <1>1, <1>3, <1>4 DEF Init, DanglingInv, SavedByEvent

LEMMA ThreadDangling ==
  ASSUME DanglingInv, NEW t \in Threads, ThreadStep(t)
  PROVE  DanglingInv'
<1>1. SaveInv' /\ SaveInv /\ TypeInv
  BY ThreadSave DEF DanglingInv, SaveInv
<1>2. /\ active = t
      /\ UNCHANGED << gen, phase >>
      /\ \A u \in Threads : u # t => pc'[u] = pc[u]
  BY <1>1, ThreadStepFacts
<1>3. PictureUnits'
  <2>1. pc'[t] = "scanline" => t \in FrameThreads
    <3>1. pc = [v \in Threads |-> pc[v]] /\ FrameFirst \subseteq FrameThreads
      BY <1>1, ThreadsAssumption DEF TypeInv, ValuesOK, ThreadsAssumption
    <3>2. CASE Park(t) \/ Pass(t) \/ Step(t)
      BY <3>1, <3>2 DEF Park, Pass, Step
    <3>3. CASE Begin(t)
      BY <3>1, <3>3 DEF Begin
    <3>4. CASE Synchronize(t)
      <4>1. pc'[t] \in {"peer", "step", AfterBody(t)}
        BY <3>1, <3>4 DEF Synchronize
      <4>. QED  BY <4>1 DEF AfterBody
    <3>5. CASE Scanline(t)
      BY <3>1, <3>5 DEF Scanline
    <3>. QED  BY <3>2, <3>3, <3>4, <3>5 DEF ThreadStep
  <2>. QED  BY <1>2, <2>1 DEF DanglingInv, PictureUnits
<1>4. \/ Exit(t, "Synchronize")
      \/ pc[t] = "scanline" /\ Exit(t, "Frame")
      \/ UNCHANGED << event, resume >>
  BY <1>1, ThreadSwitch
<1>5. ResumeLives'
  <2>1. CASE Exit(t, "Synchronize")
    BY <2>1 DEF Exit, ResumeLives
  <2>2. CASE pc[t] = "scanline" /\ Exit(t, "Frame")
    <3>1. t \notin Ports
      BY <2>2, ThreadsAssumption DEF DanglingInv, PictureUnits, ThreadsAssumption
    <3>2. Valid(resume)' /\ resume'[1] = t
      BY <1>2, <2>2 DEF Exit, Handle, Valid
    <3>. QED  BY <3>1, <3>2 DEF ResumeLives
  <2>3. CASE UNCHANGED << event, resume >>
    BY <1>2, <2>3 DEF DanglingInv, ResumeLives, Valid
  <2>. QED  BY <1>4, <2>1, <2>2, <2>3
<1>6. SavedByEvent'
  <2>1. phase # "saved"
    <3>1. active # Host /\ HostRuns
      BY <1>1, <1>2, ThreadsAssumption DEF ThreadsAssumption, SaveInv
    <3>. QED  BY <3>1 DEF HostRuns
  <2>. QED  BY <1>2, <2>1 DEF SavedByEvent
<1>. QED  BY <1>1, <1>3, <1>5, <1>6 DEF DanglingInv

\* Of the program thread's steps only connect() deletes a handle, and never the one that
\* a frame ended with.
LEMMA HostDangling ==
  ASSUME DanglingInv,
         \/ RunReturns \/ SynchronizeThread \/ Reenter \/ Synchronized \/ Serialize
         \/ Run \/ Save \/ Unserialize \/ Power \/ \E ps \in Swaps : Connect(ps)
  PROVE  DanglingInv'
<1>1. SaveInv'
  BY NextSave DEF DanglingInv, Next, Proceed
<1>2. Master \in Threads /\ Master \notin Ports /\ Ports \subseteq Threads
  BY ThreadsAssumption DEF ThreadsAssumption
<1>3. CASE Run \/ RunReturns \/ Save \/ SynchronizeThread \/ Reenter \/ Synchronized \/ Serialize
  <2>1. UNCHANGED << pc, gen, event >>
    BY <1>3 DEF Run, RunReturns, Save, SynchronizeThread, Reenter, Synchronized, Serialize, sched
  <2>2. PictureUnits'
    BY <2>1 DEF DanglingInv, PictureUnits
  <2>3. SavedByEvent'
    BY <1>3, <2>1 DEF Run, RunReturns, Save, SynchronizeThread, Reenter, Synchronized, Serialize,
                      SavedByEvent, host
  <2>4. ResumeLives'
    <3>1. phase' \in {"idle", "run"} => UNCHANGED resume /\ phase \in {"idle", "run", "saved"}
      BY <1>3 DEF Run, RunReturns, Save, SynchronizeThread, Reenter, Synchronized, Serialize, sched, host
    <3>. QED  BY <2>1, <3>1 DEF DanglingInv, ResumeLives, SavedByEvent, Valid
  <2>. QED  BY <1>1, <2>2, <2>3, <2>4 DEF DanglingInv
<1>4. CASE Unserialize \/ Power
  <2>1. /\ phase' = "idle" /\ pc' = [t \in Threads |-> "top"]
        /\ Valid(resume)' /\ resume'[1] = Master
    <3>1. Create /\ phase' = "idle"
      BY <1>4 DEF Unserialize, Power, host
    <3>. QED  BY <1>2, <3>1 DEF Create, Valid
  <2>. QED  BY <1>1, <1>2, <2>1 DEF DanglingInv, PictureUnits, ResumeLives, SavedByEvent
<1>5. ASSUME NEW ps \in Swaps, Connect(ps)
      PROVE  DanglingInv'
  <2> DEFINE P == {ps[i] : i \in DOMAIN ps}
  <2>1. P \subseteq Ports
    <3>1. ps \in Seq(Ports)
      BY ThreadsAssumption DEF ThreadsAssumption
    <3>. QED  BY <3>1
  <2>2. /\ UNCHANGED << resume, event, phase >>
        /\ phase = "idle"
        /\ \E g : gen' = [t \in Threads |-> IF t \in P THEN g[t] ELSE gen[t]]
        /\ pc' = [t \in Threads |-> IF t \in P THEN "top" ELSE pc[t]]
    BY <1>5 DEF Connect, sched, host
  <2>. HIDE DEF P
  <2>3. resume \in Threads \X Gens
    BY DEF DanglingInv, SaveInv, TypeInv, ValuesOK
  <2>4. ResumeLives'
    <3>1. resume[1] \notin Ports => gen'[resume[1]] = gen[resume[1]]
      BY <2>1, <2>2, <2>3
    <3>. QED  BY <2>2, <3>1 DEF DanglingInv, ResumeLives, Valid
  <2>. QED  BY <1>1, <2>2, <2>4 DEF DanglingInv, PictureUnits, SavedByEvent
<1>. QED  BY <1>3, <1>4, <1>5

\* The handle that run() switches to is deleted by connect() in one case only: a save came
\* before it, and no run since.
THEOREM DanglingCorrect == Spec => []DanglingOnlyAfterSave
<1>1. DanglingInv => DanglingOnlyAfterSave
  BY DEF DanglingInv, ResumeLives, DanglingOnlyAfterSave
<1>2. DanglingInv /\ [Next]_vars => DanglingInv'
  <2> SUFFICES ASSUME DanglingInv, [Next]_vars
               PROVE  DanglingInv'
    OBVIOUS
  <2>1. CASE Next
    BY <2>1, ThreadDangling, HostDangling DEF Next, Proceed
  <2>2. CASE UNCHANGED vars
    <3>1. SaveInv'
      BY <2>2, NextSave DEF DanglingInv
    <3>2. UNCHANGED << pc, gen, phase, event, resume >>
      BY <2>2 DEF vars, sched, host
    <3>. QED  BY <3>1, <3>2 DEF DanglingInv, PictureUnits, ResumeLives, SavedByEvent, Valid
  <2>. QED  BY <2>1, <2>2
<1>. QED  BY <1>1, <1>2, InitDangling, PTL DEF Spec

-----------------------------------------------------------------------------
(* The switches of a system whose devices stay *)

\* While the program thread runs the handle it will switch to is one that lives.
HandleLives == active = Host => Valid(resume)

\* Of a thread's switches each goes to a thread that lives, and leaves a handle that does.
LEMMA ThreadSwitchValid ==
  ASSUME TypeInv, HandleLives, SwitchIsValid, NEW t \in Threads, ThreadStep(t)
  PROVE  HandleLives' /\ SwitchIsValid'
<1>1. t # Host /\ Nowhere # Host /\ Nowhere \notin Threads /\ active = t /\ UNCHANGED gen
  BY ThreadsAssumption, ThreadStepFacts DEF ThreadsAssumption
<1>2. ASSUME NEW e, Exit(t, e)
      PROVE  HandleLives' /\ SwitchIsValid'
  BY <1>1, <1>2 DEF Exit, HandleLives, SwitchIsValid, Valid, Handle
<1>3. active' # Host => HandleLives'
  BY DEF HandleLives
<1>4. CASE Park(t)
  BY <1>2, <1>4 DEF Park
<1>5. CASE Pass(t) \/ Begin(t) \/ Step(t)
  BY <1>1, <1>3, <1>5 DEF Pass, Begin, Step, SwitchIsValid
<1>6. CASE Synchronize(t)
  <2> DEFINE u == Peers[t][peer[t]]
  <2>1. u \in Threads
    <3>1. Peers[t] \in Seq(Threads)
      BY ThreadsAssumption DEF ThreadsAssumption
    <3>2. peer[t] \in DOMAIN Peers[t]
      BY DEF TypeInv, ValuesOK
    <3>. QED  BY <3>1, <3>2
  <2>2. Switch(Handle(u)) => active' = u
    BY DEF Switch, Handle, Valid
  <2>3. Switch(Handle(u)) \/ active' = active
    BY <1>6 DEF Synchronize
  <2>4. Host \notin Threads
    BY ThreadsAssumption DEF ThreadsAssumption
  <2>. HIDE DEF u
  <2>5. active' \in {u, t}
    BY <1>1, <2>2, <2>3
  <2>. QED  BY <1>1, <1>3, <2>1, <2>4, <2>5 DEF SwitchIsValid
<1>7. CASE Scanline(t)
  <2>1. Exit(t, "Frame") \/ UNCHANGED active
    BY <1>7 DEF Scanline
  <2>. QED  BY <1>1, <1>2, <1>3, <2>1 DEF SwitchIsValid
<1>. QED  BY <1>4, <1>5, <1>6, <1>7 DEF ThreadStep

\* So does each switch of the program thread's, as long as it deletes no device.
LEMMA HostSwitchValid ==
  ASSUME TypeInv, HandleLives, SwitchIsValid,
         \/ RunReturns \/ SynchronizeThread \/ Reenter \/ Synchronized \/ Serialize
         \/ Run \/ Save \/ Unserialize \/ Power
  PROVE  HandleLives' /\ SwitchIsValid'
<1>1. Nowhere # Host /\ Nowhere \notin Threads /\ Host \notin Threads /\ Master \in Threads
  BY ThreadsAssumption DEF ThreadsAssumption
<1>2. active = Host /\ Valid(resume)
  BY DEF HandleLives, RunReturns, SynchronizeThread, Reenter, Synchronized, Serialize, Run, Save,
         Unserialize, Power
<1>3. ASSUME NEW m, NEW h \in Threads \X Gens, Valid(h), Enter(m, h)
      PROVE  active' \in Threads
  BY <1>3 DEF Enter, Switch
<1>4. active' \in Threads => HandleLives' /\ SwitchIsValid'
  BY <1>1 DEF HandleLives, SwitchIsValid
<1>5. resume \in Threads \X Gens
  BY DEF TypeInv, ValuesOK
<1>6. CASE Run \/ Reenter
  BY <1>2, <1>3, <1>4, <1>5, <1>6 DEF Run, Reenter
<1>7. CASE SynchronizeThread
  <2> DEFINE t == SaveOrder[turn]
  <2>1. Enter("SynchronizeMaster", resume) \/ Enter("SynchronizeSlave", Handle(t))
    BY <1>7 DEF SynchronizeThread
  <2>2. Handle(t) \in Threads \X Gens /\ Valid(Handle(t))
    BY TurnType, HandleType DEF TypeInv
  <2>. HIDE DEF t
  <2>. QED  BY <1>2, <1>3, <1>4, <1>5, <2>1, <2>2
<1>8. CASE RunReturns \/ Save \/ Synchronized \/ Serialize
  BY <1>1, <1>2, <1>8 DEF RunReturns, Save, Synchronized, Serialize, sched, HandleLives, SwitchIsValid, Valid
<1>9. CASE Unserialize \/ Power
  <2>1. Create /\ active' = active
    BY <1>9 DEF Unserialize, Power
  <2>2. Valid(resume)'
    BY <1>1, <2>1 DEF Create, Valid
  <2>. QED  BY <1>1, <1>2, <2>1, <2>2 DEF HandleLives, SwitchIsValid
<1>. QED  BY <1>6, <1>7, <1>8, <1>9

\* Control never goes to a cothread that was deleted in a system whose devices are not
\* replaced: power(), a save and a load, whatever they do to the handles, are not enough.
THEOREM SwitchCorrect ==
  ASSUME Swaps = {}
  PROVE  Spec => []SwitchIsValid
<1> DEFINE Inv == TypeInv /\ HandleLives /\ SwitchIsValid
<1>1. Init => Inv
  <2>1. Nowhere # Host /\ Master \in Threads
    BY ThreadsAssumption DEF ThreadsAssumption
  <2>. QED  BY <2>1, InitType DEF Init, HandleLives, SwitchIsValid, Valid
<1>2. Inv /\ [Next]_vars => Inv'
  <2> SUFFICES ASSUME Inv, [Next]_vars
               PROVE  Inv'
    OBVIOUS
  <2>1. TypeInv'
    BY NextType
  <2>2. CASE Next
    BY <2>1, <2>2, ThreadSwitchValid, HostSwitchValid DEF Next, Proceed
  <2>3. CASE UNCHANGED vars
    BY <2>1, <2>3 DEF vars, sched, HandleLives, SwitchIsValid, Valid
  <2>. QED  BY <2>2, <2>3
<1>3. Inv => SwitchIsValid
  OBVIOUS
<1>. QED  BY <1>1, <1>2, <1>3, PTL DEF Spec

-----------------------------------------------------------------------------
(* How far a thread is ahead of another *)

\* A system whose threads synchronize with the primary thread, and it with them, without a
\* lead: the Famicom's and the Game Boy's.
Star ==
  /\ \A t \in Threads \ {Master} :
       Peers[t] = << Master >> /\ \E i \in DOMAIN Peers[Master] : Peers[Master][i] = t
  /\ \A i \in DOMAIN Peers[Master] : Peers[Master][i] # Master
  /\ \A t, u \in Threads : Lead[t][u] = 0

\* Each thread is created once, so append() adds less than one unit per thread.
CreatedOnce == Len(PowerOrder) = Cardinality(Threads)

\* The thread that is inside the scheduler, or was there last.
Current == IF active = Host THEN resume[1] ELSE active

\* The primary thread is near each peer it has synchronized with since its step, except the
\* one that runs and has not come back.
MasterNear ==
  \A i \in DOMAIN Peers[Master] :
    pc[Master] # "peer" \/ i < peer[Master] =>
      \/ clock[Master] < clock[Peers[Master][i]] + Cardinality(Threads)
      \/ Current = Peers[Master][i]

\* A peer that was resumed is near the primary thread until its own next step.
PeerNear ==
  \A t \in Threads \ {Master} :
    active = t /\ ~fresh /\ ~synchronizing /\ pc[t] # "peer"
      => clock[t] < clock[Master] + Cardinality(Threads)

\* When the primary thread was synchronized its clock was near the least, which exit()
\* subtracts; it does not move while the others are synchronized one by one.
MasterLow ==
  synchronizing \/ (active = Host /\ event = "Synchronize") => clock[Master] < Cardinality(Threads)

\* Past the first thread of runToSave() the last event was that of a save.
ParkedByEvent == phase = "saved" \/ (phase = "synchronize" /\ turn # 1) => event = "Synchronize"

NearInv ==
  /\ SaveInv /\ HandleLives /\ SwitchIsValid
  /\ ParkedByEvent /\ MasterNear /\ PeerNear /\ MasterLow

LEMMA Sized == Cardinality(Threads) \in Nat /\ Cardinality(Threads) > 0
BY CardinalityType, ThreadsAssumption, FS_CardinalityType DEF ThreadsAssumption

\* The clocks append() gives to the threads differ by less than their number.
LEMMA PowerClockLow ==
  ASSUME CreatedOnce, NEW t \in Threads, NEW s
  PROVE  PowerClock(t, s) \in Nat /\ PowerClock(t, s) < Cardinality(Threads)
<1> DEFINE i == CHOOSE j \in DOMAIN PowerOrder : PowerOrder[j] = t
<1>1. i \in DOMAIN PowerOrder
  BY ThreadsAssumption DEF ThreadsAssumption
<1>2. DOMAIN PowerOrder = 1 .. Cardinality(Threads)
  BY ThreadsAssumption DEF ThreadsAssumption, CreatedOnce
<1>3. i - 1 < Cardinality(Threads)
  <2>. HIDE DEF i
  <2>. QED  BY <1>1, <1>2, Sized
<1>. QED  BY <1>3, Sized, PowerClockType DEF PowerClock, BiasOf

\* A clock that is near the least of all is near each.
LEMMA LowIsNear ==
  ASSUME NEW c \in [Threads -> Nat], c[Master] < Cardinality(Threads)
  PROVE  \A i \in DOMAIN Peers[Master] : c[Master] < c[Peers[Master][i]] + Cardinality(Threads)
<1>1. Master \in Threads /\ \A i \in DOMAIN Peers[Master] : Peers[Master][i] \in Threads
  BY ThreadsAssumption DEF ThreadsAssumption
<1>2. ASSUME NEW n \in Nat, NEW m \in Nat, m < Cardinality(Threads)
      PROVE  m < n + Cardinality(Threads)
  BY <1>2, Sized
<1>. QED  BY <1>1, <1>2

\* What exit() leaves of the clocks: the same differences, and one clock at zero.
LEMMA ExitClocks ==
  ASSUME TypeInv, NEW t \in Threads, NEW e, Exit(t, e)
  PROVE  /\ \A u, v \in Threads : clock[u] < clock[v] + Cardinality(Threads)
                                  => clock'[u] < clock'[v] + Cardinality(Threads)
         /\ \A u \in Threads : clock'[u] <= clock[u]
         /\ \E u \in Threads : clock'[u] = 0
<1>1. clock \in [Threads -> Nat]
  BY DEF TypeInv, ValuesOK
<1>2. PICK w \in Threads : /\ \A v \in Threads : clock[w] <= clock[v]
                           /\ clock' = [v \in Threads |-> clock[v] - clock[w]]
  BY <1>1, NormalizedBy DEF Exit
<1>. QED  BY <1>1, <1>2, Sized

\* What is known of the thread that runs.
LEMMA RunningFacts ==
  ASSUME NearInv, NEW t \in Threads, ThreadStep(t)
  PROVE  /\ TypeInv /\ clock \in [Threads -> Nat] /\ pc = [v \in Threads |-> pc[v]]
         /\ active = t /\ t # Host /\ Current = t /\ Master \in Threads
         /\ UNCHANGED << mode, gen, phase, turn >>
         /\ \A u \in Threads : u # t => pc'[u] = pc[u]
         /\ synchronizing => t # Master
         /\ ParkedByEvent'
<1>1. /\ TypeInv /\ clock \in [Threads -> Nat] /\ pc = [v \in Threads |-> pc[v]]
      /\ phase \in Phases
  BY DEF NearInv, SaveInv, TypeInv, ValuesOK
<1>2. t # Host /\ Master \in Threads
  BY ThreadsAssumption DEF ThreadsAssumption
<1>3. /\ active = t
      /\ UNCHANGED << mode, gen, phase, turn >>
      /\ \A u \in Threads : u # t => pc'[u] = pc[u]
  BY <1>1, ThreadStepFacts
<1>4. phase \in {"run", "await"}
  BY <1>1, <1>2, <1>3 DEF NearInv, SaveInv, HostRuns, Phases
<1>5. synchronizing => t # Master
  <2>. SUFFICES ASSUME mode = "SynchronizeSlave"
                PROVE  t # Master
    BY DEF synchronizing
  <2>1. phase = "await" /\ turn # 1 /\ active = SaveOrder[turn]
    BY <1>2, <1>3, <1>4 DEF NearInv, SaveInv, ModeOfCall
  <2>2. SaveOrder[turn] # Master
    BY <1>1, <2>1, TurnType, SaveOrderAssumption DEF SaveOrderAssumption
  <2>. QED  BY <1>3, <2>1, <2>2
<1>. QED  BY <1>1, <1>2, <1>3, <1>4, <1>5 DEF Current, ParkedByEvent

\* The thread that runs leaves the scheduler.
LEMMA ExitNear ==
  ASSUME Star, NearInv, NEW t \in Threads, ThreadStep(t), NEW e, Exit(t, e),
         pc[t] # "peer", pc'[t] # "peer", UNCHANGED peer,
         e = "Synchronize" /\ ~synchronizing => t = Master
  PROVE  MasterNear' /\ PeerNear' /\ MasterLow'
<1>1. /\ TypeInv /\ clock \in [Threads -> Nat] /\ Current = t /\ Master \in Threads
      /\ UNCHANGED mode /\ \A u \in Threads : u # t => pc'[u] = pc[u]
  BY RunningFacts
<1>2. active' = Host /\ resume' = Handle(t) /\ event' = e
  BY DEF Exit
<1>3. Current' = t
  BY <1>2 DEF Current, Handle
<1>4. pc'[Master] # "peer" <=> pc[Master] # "peer"
  BY <1>1
<1>5. \A i \in DOMAIN Peers[Master] : Peers[Master][i] \in Threads
  BY ThreadsAssumption DEF ThreadsAssumption
<1>6. MasterNear'
  <2>. SUFFICES ASSUME NEW i \in DOMAIN Peers[Master], pc'[Master] # "peer" \/ i < peer'[Master],
                       Current' # Peers[Master][i]
                PROVE  clock'[Master] < clock'[Peers[Master][i]] + Cardinality(Threads)
    BY DEF MasterNear
  <2>1. clock[Master] < clock[Peers[Master][i]] + Cardinality(Threads)
    BY <1>1, <1>3, <1>4 DEF NearInv, MasterNear
  <2>. QED  BY <1>1, <1>5, <2>1, ExitClocks
<1>7. PeerNear'
  BY <1>2, ThreadsAssumption DEF PeerNear, ThreadsAssumption
<1>8. MasterLow'
  <2>1. CASE synchronizing
    <3>1. clock'[Master] <= clock[Master] /\ clock[Master] < Cardinality(Threads)
      BY <1>1, <2>1, ExitClocks DEF NearInv, MasterLow
    <3>2. clock' \in [Threads -> Nat]
      BY <1>1, ExitType DEF TypeInv
    <3>. QED  BY <1>1, <3>1, <3>2, Sized DEF MasterLow
  <2>2. CASE ~synchronizing /\ e = "Synchronize"
    <3>1. t = Master
      BY <2>2
    <3>2. \A u \in Threads : clock[Master] < clock[u] + Cardinality(Threads)
      <4>. SUFFICES ASSUME NEW u \in Threads \ {Master}
                    PROVE  clock[Master] < clock[u] + Cardinality(Threads)
        BY <1>1, Sized
      <4>1. PICK i \in DOMAIN Peers[Master] : Peers[Master][i] = u
        BY DEF Star
      <4>. QED  BY <1>1, <3>1, <4>1 DEF NearInv, MasterNear
    <3>3. PICK u \in Threads : clock'[u] = 0
      BY <1>1, ExitClocks
    <3>4. clock'[Master] < clock'[u] + Cardinality(Threads)
      BY <1>1, <3>2, ExitClocks
    <3>5. clock'[Master] < Cardinality(Threads)
      BY <3>3, <3>4, Sized
    <3>. QED  BY <3>5 DEF MasterLow
  <2>3. CASE ~synchronizing /\ e # "Synchronize"
    BY <1>1, <1>2, <2>3 DEF MasterLow, synchronizing
  <2>. QED  BY <2>1, <2>2, <2>3
<1>. QED  BY <1>6, <1>7, <1>8

\* The thread that runs moves on in its loop without stepping.
LEMMA MoveNear ==
  ASSUME NearInv, NEW t \in Threads, ThreadStep(t), pc[t] # "peer", pc'[t] # "peer",
         UNCHANGED << active, event, clock, peer, fresh, resume >>
  PROVE  MasterNear' /\ PeerNear' /\ MasterLow'
<1>1. /\ Current = t /\ Master \in Threads /\ active = t
      /\ UNCHANGED mode /\ \A u \in Threads : u # t => pc'[u] = pc[u]
  BY RunningFacts
<1>2. pc'[Master] # "peer" <=> pc[Master] # "peer"
  BY <1>1
<1>3. Current' = Current
  BY DEF Current
<1>4. MasterNear'
  BY <1>2, <1>3 DEF NearInv, MasterNear
<1>5. PeerNear'
  BY <1>1 DEF NearInv, PeerNear, synchronizing
<1>6. MasterLow'
  BY <1>1 DEF NearInv, MasterLow, synchronizing
<1>. QED  BY <1>4, <1>5, <1>6

\* A step is judged when the thread synchronizes: no clock but its own has moved.
LEMMA StepNear ==
  ASSUME NearInv, NEW t \in Threads, Step(t)
  PROVE  MasterNear' /\ PeerNear' /\ MasterLow'
<1>1. /\ TypeInv /\ clock \in [Threads -> Nat] /\ pc = [v \in Threads |-> pc[v]]
      /\ active = t /\ t # Host /\ Current = t /\ Master \in Threads
      /\ UNCHANGED mode
      /\ synchronizing => t # Master
  BY RunningFacts DEF ThreadStep
<1>2. /\ pc' = [pc EXCEPT ![t] = "peer"] /\ peer' = [peer EXCEPT ![t] = 1]
      /\ UNCHANGED << active, event, resume, fresh >>
      /\ \E n : clock' = [clock EXCEPT ![t] = n]
  BY DEF Step, sched
<1>3. /\ Current' = t /\ pc'[t] = "peer"
      /\ \A u \in Threads : u # t => clock'[u] = clock[u] /\ pc'[u] = pc[u] /\ peer'[u] = peer[u]
  <2>1. peer \in [Threads -> Nat]
    BY <1>1 DEF TypeInv, ValuesOK
  <2>. QED  BY <1>1, <1>2, <2>1 DEF Current
<1>4. MasterNear'
  <2>1. CASE t = Master
    <3>1. \A i \in DOMAIN Peers[Master] : ~ (i < 1)
      <4>1. DOMAIN Peers[Master] = 1 .. Len(Peers[Master])
        BY <1>1, ThreadsAssumption DEF ThreadsAssumption
      <4>. QED  BY <4>1
    <3>2. peer'[Master] = 1
      BY <1>1, <1>2, <2>1 DEF TypeInv, ValuesOK
    <3>. QED  BY <1>3, <2>1, <3>1, <3>2 DEF MasterNear
  <2>2. CASE t # Master
    <3>. SUFFICES ASSUME NEW i \in DOMAIN Peers[Master], pc'[Master] # "peer" \/ i < peer'[Master],
                         Current' # Peers[Master][i]
                  PROVE  clock'[Master] < clock'[Peers[Master][i]] + Cardinality(Threads)
      BY DEF MasterNear
    <3>1. clock[Master] < clock[Peers[Master][i]] + Cardinality(Threads)
      BY <1>1, <1>3, <2>2 DEF NearInv, MasterNear
    <3>2. Peers[Master][i] \in Threads
      BY <1>1, ThreadsAssumption DEF ThreadsAssumption
    <3>. QED  BY <1>1, <1>3, <2>2, <3>1, <3>2
  <2>. QED  BY <2>1, <2>2
<1>5. PeerNear'
  BY <1>1, <1>2, <1>3 DEF PeerNear
<1>6. MasterLow'
  BY <1>1, <1>2, <1>3 DEF NearInv, MasterLow, synchronizing
<1>. QED  BY <1>4, <1>5, <1>6

\* A thread that is not behind its peer hands over to it; one that is behind stays.
LEMMA SynchronizeFacts ==
  ASSUME Star, NearInv, NEW t \in Threads, Synchronize(t)
  PROVE  LET u == Peers[t][peer[t]]
         IN  /\ u \in Threads /\ UNCHANGED << mode, event, resume, clock >>
             /\ \/ active' = u /\ fresh' = FALSE /\ clock[t] >= clock[u] /\ ~synchronizing
                \/ /\ UNCHANGED << active, fresh >>
                   /\ synchronizing \/ clock[t] < clock[u]
<1> DEFINE u == Peers[t][peer[t]]
<1>1. u \in Threads /\ clock \in [Threads -> Nat]
  <2>1. peer[t] \in DOMAIN Peers[t] /\ clock \in [Threads -> Nat]
    BY DEF NearInv, SaveInv, TypeInv, ValuesOK
  <2>2. Peers[t] \in Seq(Threads)
    BY ThreadsAssumption DEF ThreadsAssumption
  <2>. QED  BY <2>1, <2>2
<1>2. /\ UNCHANGED << mode, event, resume, clock >>
      /\ \E calls \in {TRUE, Forced(t, u)} :
              IF calls /\ Due(t, u) /\ ~synchronizing
                THEN Switch(Handle(u)) /\ fresh' = FALSE
                ELSE UNCHANGED << active, fresh >>
  BY DEF Synchronize, sched
<1>. HIDE DEF u
<1>3. Forced(t, u)
  BY <1>1 DEF Star, Forced
<1>4. Switch(Handle(u)) => active' = u
  BY DEF Switch, Valid, Handle
<1>5. IF Due(t, u) /\ ~synchronizing THEN Switch(Handle(u)) /\ fresh' = FALSE
                                     ELSE UNCHANGED << active, fresh >>
  BY <1>2, <1>3
<1>6. Due(t, u) <=> ~ (clock[t] < clock[u])
  BY <1>1 DEF Due
<1>7. \/ active' = u /\ fresh' = FALSE /\ clock[t] >= clock[u] /\ ~synchronizing
      \/ /\ UNCHANGED << active, fresh >>
         /\ synchronizing \/ clock[t] < clock[u]
  BY <1>4, <1>5, <1>6 DEF Due
<1>8. /\ u \in Threads /\ UNCHANGED << mode, event, resume, clock >>
      /\ \/ active' = u /\ fresh' = FALSE /\ clock[t] >= clock[u] /\ ~synchronizing
         \/ /\ UNCHANGED << active, fresh >>
            /\ synchronizing \/ clock[t] < clock[u]
  BY <1>1, <1>2, <1>7
<1>. QED  BY <1>8 DEF u

\* A peer that synchronizes with the primary thread.
LEMMA PeerSynchronizes ==
  ASSUME Star, NearInv, NEW t \in Threads \ {Master}, Synchronize(t)
  PROVE  MasterNear' /\ PeerNear' /\ MasterLow'
<1>1. /\ TypeInv /\ clock \in [Threads -> Nat] /\ pc = [v \in Threads |-> pc[v]]
      /\ active = t /\ t # Host /\ Current = t /\ Master \in Threads
      /\ \A u \in Threads : u # t => pc'[u] = pc[u]
  BY RunningFacts DEF ThreadStep
<1>2. peer[t] = 1 /\ Peers[t][peer[t]] = Master
  <2>1. peer[t] \in DOMAIN Peers[t] /\ Peers[t] = << Master >>
    BY <1>1 DEF Star, TypeInv, ValuesOK
  <2>. QED  BY <2>1
<1>3. /\ UNCHANGED << mode, event, resume, clock >>
      /\ \/ active' = Master /\ fresh' = FALSE /\ clock[t] >= clock[Master] /\ ~synchronizing
         \/ /\ UNCHANGED << active, fresh >>
            /\ synchronizing \/ clock[t] < clock[Master]
  BY <1>2, SynchronizeFacts
<1>4. pc'[Master] = pc[Master] /\ peer'[Master] = peer[Master]
  <2>1. peer \in [Threads -> Nat]
    BY <1>1 DEF TypeInv, ValuesOK
  <2>2. \E n : peer' = [peer EXCEPT ![t] = n]
    BY DEF Synchronize
  <2>. QED  BY <1>1, <2>1, <2>2
<1>5. Master # Host /\ active' \in {t, Master}
  BY <1>1, <1>3, ThreadsAssumption DEF ThreadsAssumption
<1>6. Current' = active'
  BY <1>1, <1>5 DEF Current
<1>7. MasterNear'
  <2>. SUFFICES ASSUME NEW i \in DOMAIN Peers[Master], pc[Master] # "peer" \/ i < peer[Master],
                       active' # Peers[Master][i]
                PROVE  clock[Master] < clock[Peers[Master][i]] + Cardinality(Threads)
    BY <1>3, <1>4, <1>6 DEF MasterNear
  <2>1. CASE Peers[Master][i] = t
    <3>1. clock[t] >= clock[Master]
      BY <1>1, <1>3, <2>1
    <3>. QED  BY <1>1, <2>1, <3>1, Sized
  <2>2. CASE Peers[Master][i] # t
    BY <1>1, <2>2 DEF NearInv, MasterNear
  <2>. QED  BY <2>1, <2>2
<1>8. PeerNear'
  <2>. SUFFICES ASSUME active' = t, ~synchronizing
                PROVE  clock[t] < clock[Master] + Cardinality(Threads)
    BY <1>3, <1>5 DEF PeerNear, synchronizing
  <2>1. clock[t] < clock[Master]
    BY <1>3
  <2>. QED  BY <1>1, <2>1, Sized
<1>9. MasterLow'
  BY <1>1, <1>3, <1>5 DEF NearInv, MasterLow, synchronizing
<1>. QED  BY <1>7, <1>8, <1>9

\* The primary thread, when it synchronizes with the next of its peers.
LEMMA MasterSynchronizes ==
  ASSUME Star, NearInv, Synchronize(Master)
  PROVE  MasterNear' /\ PeerNear' /\ MasterLow'
<1> DEFINE j == peer[Master]
           u == Peers[Master][j]
<1>0. Master \in Threads
  BY ThreadsAssumption DEF ThreadsAssumption
<1>1. /\ TypeInv /\ clock \in [Threads -> Nat] /\ pc = [v \in Threads |-> pc[v]]
      /\ active = Master /\ Master # Host /\ Current = Master
      /\ ~synchronizing
  BY <1>0, RunningFacts DEF ThreadStep
<1>2. /\ u \in Threads /\ UNCHANGED << mode, event, resume, clock >>
      /\ \/ active' = u /\ fresh' = FALSE /\ clock[Master] >= clock[u]
         \/ UNCHANGED << active, fresh >> /\ clock[Master] < clock[u]
  BY <1>0, <1>1, SynchronizeFacts
<1>3. /\ j \in DOMAIN Peers[Master] /\ DOMAIN Peers[Master] = 1 .. Len(Peers[Master])
      /\ Len(Peers[Master]) \in Nat
  BY <1>0, <1>1, ThreadsAssumption DEF TypeInv, ValuesOK, ThreadsAssumption
<1>4. \A i \in DOMAIN Peers[Master] : pc'[Master] # "peer" \/ i < peer'[Master] => i <= j
  <2>1. peer \in [Threads -> Nat]
    BY <1>1 DEF TypeInv, ValuesOK
  <2>2. IF j = Len(Peers[Master]) THEN peer'[Master] = 1 ELSE peer'[Master] = j + 1 /\ pc'[Master] = "peer"
    BY <1>0, <1>1, <2>1 DEF Synchronize
  <2>. HIDE DEF j
  <2>. QED  BY <1>3, <2>2
<1>5. Host # u /\ u # Master
  BY <1>2, <1>3, ThreadsAssumption DEF Star, ThreadsAssumption
<1>6. Current' = active' /\ pc[Master] = "peer"
  BY <1>1, <1>2, <1>5 DEF Current, Synchronize
<1>7. MasterNear'
  <2>. SUFFICES ASSUME NEW i \in DOMAIN Peers[Master], i <= j, active' # Peers[Master][i]
                PROVE  clock[Master] < clock[Peers[Master][i]] + Cardinality(Threads)
    BY <1>2, <1>4, <1>6 DEF MasterNear
  <2>1. CASE i = j
    <3>1. clock[Master] < clock[u]
      BY <1>2, <2>1
    <3>. HIDE DEF j
    <3>. QED  BY <1>0, <1>1, <1>2, <2>1, <3>1, Sized
  <2>2. CASE i # j
    <3>1. i < j
      <4>. HIDE DEF j
      <4>. QED  BY <1>3, <2>2
    <3>2. Peers[Master][i] # Master
      BY DEF Star
    <3>. QED  BY <1>1, <3>1, <3>2 DEF NearInv, MasterNear
  <2>. QED  BY <2>1, <2>2
<1>8. PeerNear'
  <2>. SUFFICES ASSUME NEW t \in Threads \ {Master}, active' = t
                PROVE  clock[t] < clock[Master] + Cardinality(Threads)
    BY <1>2 DEF PeerNear
  <2>1. t = u /\ clock[Master] >= clock[u]
    BY <1>1, <1>2
  <2>. HIDE DEF u
  <2>. QED  BY <1>0, <1>1, <2>1, Sized
<1>9. MasterLow'
  BY <1>1, <1>2, <1>5 DEF MasterLow, synchronizing
<1>. QED  BY <1>7, <1>8, <1>9

\* Every step of a thread keeps the threads near.
LEMMA ThreadNear ==
  ASSUME Star, NearInv, NEW t \in Threads, ThreadStep(t)
  PROVE  NearInv'
<1>1. SaveInv' /\ HandleLives' /\ SwitchIsValid'
  BY ThreadSave, ThreadSwitchValid DEF NearInv, SaveInv
<1>2. /\ TypeInv /\ pc = [v \in Threads |-> pc[v]] /\ ParkedByEvent'
      /\ UNCHANGED mode
  BY RunningFacts
<1>3. CASE Park(t)
  <2>1. /\ Exit(t, "Synchronize") /\ pc[t] # "peer" /\ pc'[t] # "peer" /\ UNCHANGED peer
        /\ mode = SyncMode(t)
    BY <1>2, <1>3 DEF Park
  <2>2. ~synchronizing => t = Master
    BY <2>1 DEF synchronizing, SyncMode, Handle, NearInv, SaveInv, MasterIsPrimary
  <2>. QED  BY <1>1, <1>2, <2>1, <2>2, ExitNear DEF NearInv
<1>4. CASE Pass(t) \/ Begin(t)
  <2>1. /\ pc[t] # "peer" /\ pc'[t] # "peer"
        /\ UNCHANGED << active, event, clock, peer, fresh, resume >>
    BY <1>2, <1>4 DEF Pass, Begin, sched
  <2>. QED  BY <1>1, <1>2, <2>1, MoveNear DEF NearInv
<1>5. CASE Step(t)
  BY <1>1, <1>2, <1>5, StepNear DEF NearInv
<1>6. CASE Synchronize(t)
  BY <1>1, <1>2, <1>6, PeerSynchronizes, MasterSynchronizes DEF NearInv
<1>7. CASE Scanline(t)
  <2>1. /\ pc[t] # "peer" /\ pc'[t] # "peer" /\ UNCHANGED << peer, fresh >>
        /\ Exit(t, "Frame") \/ UNCHANGED << clock, event, resume, active >>
    BY <1>2, <1>7 DEF Scanline
  <2>2. MasterNear' /\ PeerNear' /\ MasterLow'
    BY <2>1, ExitNear, MoveNear
  <2>. QED  BY <1>1, <1>2, <2>2 DEF NearInv
<1>. QED  BY <1>3, <1>4, <1>5, <1>6, <1>7 DEF ThreadStep

\* So does every step of the program thread: power() and a load give clocks that are near.
LEMMA HostNear ==
  ASSUME CreatedOnce, NearInv,
         \/ RunReturns \/ SynchronizeThread \/ Reenter \/ Synchronized \/ Serialize
         \/ Run \/ Save \/ Unserialize \/ Power
  PROVE  NearInv'
<1>1. SaveInv' /\ HandleLives' /\ SwitchIsValid'
  <2>1. SaveInv'
    BY NextSave DEF NearInv, Next, Proceed
  <2>. QED  BY <2>1, HostSwitchValid DEF NearInv, SaveInv
<1>2. /\ TypeInv /\ clock \in [Threads -> Nat] /\ Master \in Threads /\ Host \notin Threads
      /\ active' \in Threads \cup {Host, Nowhere} /\ resume \in Threads \X Gens
      /\ clock' \in [Threads -> Nat] /\ UNCHANGED event
  <2>1. UNCHANGED event
    BY DEF RunReturns, SynchronizeThread, Reenter, Synchronized, Serialize, Run, Save, Unserialize,
           Power, sched
  <2>. QED  BY <1>1, <2>1, ThreadsAssumption DEF ThreadsAssumption, NearInv, SaveInv, TypeInv, ValuesOK
<1>3. active = Host /\ Valid(resume)
  BY DEF NearInv, HandleLives, RunReturns, SynchronizeThread, Reenter, Synchronized, Serialize, Run, Save,
         Unserialize, Power
<1>4. ParkedByEvent'
  <2>1. CASE Run \/ RunReturns \/ Reenter \/ SynchronizeThread \/ Serialize \/ Unserialize \/ Power
    <3>1. phase' \in {"run", "idle", "await"}
      BY <2>1 DEF Run, RunReturns, Reenter, SynchronizeThread, Serialize, Unserialize, Power, host
    <3>. QED  BY <3>1 DEF ParkedByEvent
  <2>2. CASE Save
    BY <2>2 DEF Save, ParkedByEvent
  <2>3. CASE Synchronized
    BY <1>2, <2>3 DEF Synchronized, ParkedByEvent
  <2>. QED  BY <2>1, <2>2, <2>3
<1>5. ASSUME NEW m, Enter(m, resume)
      PROVE  active' = resume[1] /\ active' # Host /\ fresh' = TRUE /\ mode' = m
  BY <1>2, <1>3, <1>5 DEF Enter, Switch
<1>6. CASE Run \/ Reenter \/ (SynchronizeThread /\ turn = 1)
  <2>1. /\ UNCHANGED << resume, clock, pc, peer >>
        /\ Enter("Run", resume) \/ Enter("SynchronizeMaster", resume)
           \/ Enter(mode, resume)
    <3>1. turn = 1 => Handle(SaveOrder[turn]) = master
      BY <1>2, TurnType DEF NearInv, SaveInv, MasterIsPrimary
    <3>. QED  BY <1>6, <3>1 DEF Run, Reenter, SynchronizeThread
  <2>2. /\ active' = resume[1] /\ active' # Host /\ fresh' = TRUE
        /\ mode' \in {"Run", "SynchronizeMaster", mode}
    BY <1>5, <2>1
  <2>3. Current' = Current
    BY <1>3, <2>2 DEF Current
  <2>4. MasterNear'
    BY <2>1, <2>3 DEF NearInv, MasterNear
  <2>5. PeerNear' /\ MasterLow'
    BY <1>2, <2>1, <2>2 DEF NearInv, MasterLow, PeerNear, synchronizing
  <2>. QED  BY <1>1, <1>4, <2>4, <2>5 DEF NearInv
<1>7. CASE SynchronizeThread /\ turn # 1
  <2>1. clock[Master] < Cardinality(Threads) /\ UNCHANGED clock /\ active' # Host
    <3>1. phase = "synchronize" /\ UNCHANGED clock /\ phase' = "await"
      BY <1>7 DEF SynchronizeThread
    <3>2. Handle(SaveOrder[turn]) # master
      BY <1>2, <1>7, TurnType, SaveOrderAssumption
      DEF NearInv, SaveInv, MasterIsPrimary, Handle, SaveOrderAssumption
    <3>3. Enter("SynchronizeSlave", Handle(SaveOrder[turn]))
      BY <1>7, <3>2 DEF SynchronizeThread
    <3>4. active' = SaveOrder[turn]
      BY <3>3 DEF Enter, Switch, Valid, Handle
    <3>5. SaveOrder[turn] # Host
      BY <1>2, TurnType
    <3>. QED  BY <1>3, <1>7, <3>1, <3>4, <3>5 DEF NearInv, ParkedByEvent, MasterLow
  <2>2. fresh' = TRUE
    BY <1>7 DEF SynchronizeThread, Enter
  <2>3. MasterNear'
    <3>1. clock'[Master] < Cardinality(Threads)
      BY <2>1
    <3>. QED  BY <1>2, <3>1, LowIsNear DEF MasterNear
  <2>4. PeerNear' /\ MasterLow'
    BY <2>1, <2>2 DEF MasterLow, PeerNear
  <2>. QED  BY <1>1, <1>4, <2>3, <2>4 DEF NearInv
<1>8. CASE RunReturns \/ Save \/ Synchronized \/ Serialize
  <2>1. UNCHANGED << active, mode, resume, clock, pc, peer, fresh >>
    BY <1>8 DEF RunReturns, Save, Synchronized, Serialize, sched
  <2>2. MasterNear' /\ PeerNear' /\ MasterLow'
    BY <1>2, <2>1 DEF NearInv, MasterNear, PeerNear, MasterLow, Current, synchronizing
  <2>. QED  BY <1>1, <1>4, <2>2 DEF NearInv
<1>9. CASE Unserialize \/ Power
  <2>1. clock'[Master] < Cardinality(Threads)
    <3>1. CASE Power
      BY <1>2, <3>1, PowerClockLow DEF Power
    <3>2. CASE Unserialize
      <4>1. clock'[Master] = clock[Master]
        BY <1>2, <3>2, ThreadsAssumption DEF Unserialize, ThreadsAssumption
      <4>2. event = "Synchronize"
        BY <3>2 DEF Unserialize, NearInv, ParkedByEvent
      <4>. QED  BY <1>3, <4>1, <4>2 DEF NearInv, MasterLow
    <3>. QED  BY <1>9, <3>1, <3>2
  <2>2. active' = Host
    BY <1>3, <1>9 DEF Unserialize, Power
  <2>3. MasterNear'
    BY <1>2, <2>1, LowIsNear DEF MasterNear
  <2>4. PeerNear' /\ MasterLow'
    BY <1>2, <2>1, <2>2 DEF MasterLow, PeerNear
  <2>. QED  BY <1>1, <1>4, <2>3, <2>4 DEF NearInv
<1>. QED  BY <1>6, <1>7, <1>8, <1>9

\* In a system like the Famicom or the Game Boy, with its devices left in place, neither
\* the primary thread nor a thread that synchronizes with it steps while it is ahead of the
\* other by more than the bias of append(): not after a save, a load or a power cycle
\* either, and though clocks wrap.
THEOREM NotAheadCorrect ==
  ASSUME Star, CreatedOnce, Swaps = {}
  PROVE  Spec => []NotAhead
<1>1. Init => NearInv
  <2> SUFFICES ASSUME Init
               PROVE  NearInv
    OBVIOUS
  <2>1. SaveInv /\ clock \in [Threads -> Nat] /\ Master \in Threads /\ Nowhere # Host /\ Host \notin Threads
    BY InitSave, ThreadsAssumption DEF SaveInv, TypeInv, ValuesOK, ThreadsAssumption
  <2>2. clock[Master] < Cardinality(Threads)
    BY <2>1, PowerClockLow DEF Init
  <2>3. MasterNear
    BY <2>1, <2>2, LowIsNear DEF MasterNear
  <2>4. MasterLow
    BY <2>2 DEF MasterLow
  <2>. QED  BY <2>1, <2>3, <2>4 DEF Init, NearInv, HandleLives, SwitchIsValid, Valid, ParkedByEvent, PeerNear
<1>2. NearInv /\ [Next]_vars => NearInv'
  <2> SUFFICES ASSUME NearInv, [Next]_vars
               PROVE  NearInv'
    OBVIOUS
  <2>1. CASE Next
    BY <2>1, ThreadNear, HostNear DEF Next, Proceed
  <2>2. CASE UNCHANGED vars
    <3>1. SaveInv'
      BY NextSave DEF NearInv
    <3>2. UNCHANGED << active, mode, event, resume, gen, clock, pc, peer, phase, turn, fresh >>
      BY <2>2 DEF vars, sched, host
    <3>. QED  BY <3>1, <3>2 DEF NearInv, HandleLives, SwitchIsValid, Valid, ParkedByEvent, PeerNear,
                               MasterNear, MasterLow, Current, synchronizing
  <2>. QED  BY <2>1, <2>2
<1>3. NearInv => NotAhead
  <2> SUFFICES ASSUME NearInv, NEW t \in Threads, active = t, pc[t] = "step", ~synchronizing, ~fresh,
                      NEW i \in DOMAIN Peers[t], Master \in {t, Peers[t][i]}
               PROVE  clock[t] < clock[Peers[t][i]] + Lead[t][Peers[t][i]] + Cardinality(Threads)
    BY DEF NotAhead
  <2>1. /\ clock \in [Threads -> Nat] /\ Peers[t][i] \in Threads /\ t # Host
        /\ Lead[t][Peers[t][i]] = 0
    <3>1. Peers[t][i] \in Threads /\ t # Host
      BY ThreadsAssumption DEF ThreadsAssumption
    <3>. QED  BY <3>1 DEF NearInv, SaveInv, TypeInv, ValuesOK, Star
  <2>2. clock[t] < clock[Peers[t][i]] + Cardinality(Threads)
    <3>1. CASE t = Master
      <4>1. Peers[t][i] # t /\ Current = t
        BY <2>1, <3>1 DEF Star, Current
      <4>. QED  BY <3>1, <4>1 DEF NearInv, MasterNear
    <3>2. CASE t # Master
      BY <3>2 DEF NearInv, PeerNear
    <3>. QED  BY <3>1, <3>2
  <2>. QED  BY <2>1, <2>2, Sized
<1>. QED  BY <1>1, <1>2, <1>3, PTL DEF Spec

-----------------------------------------------------------------------------
(* The contract: Scheduler implements SaveContract *)

\* What the program thread has called, in each of its phases.
LEMMA CallFacts ==
  ASSUME TypeInv
  PROVE  /\ CallMade = "none" <=> phase = "idle"
         /\ CallMade = "run" <=> phase = "run"
         /\ CallMade = "save" <=> phase \in {"synchronize", "await", "saved"}
         /\ phase \in {"idle", "run"} => Parked = {}
         /\ phase \in {"synchronize", "await"} => Parked = {SaveOrder[i] : i \in 1 .. turn - 1}
         /\ phase = "saved" => Parked = Saved
<1>1. phase \in {"idle", "run", "synchronize", "await", "saved"}
  BY DEF TypeInv, ValuesOK, Phases
<1>. QED  BY <1>1 DEF CallMade, Parked

\* Before the second thread's turn none is parked.
LEMMA FirstTurn ==
  ASSUME TypeInv, phase \in {"synchronize", "await"}, turn = 1
  PROVE  Parked = {}
<1>1. 1 .. turn - 1 = {}
  OBVIOUS
<1>. QED  BY <1>1, CallFacts

\* A thread that runs while the system moves as a whole, and one that runs alone.
LEMMA ThreadKeeps ==
  ASSUME SaveInv, TypeInv', NEW t \in Threads, ThreadStep(t),
         \A i, j \in DOMAIN SaveOrder : SaveOrder[i] = SaveOrder[j] => i = j
  PROVE  Contract!RunTogether \/ \E u \in Saved : Contract!RunAlone(u)
<1>1. /\ active = t
      /\ UNCHANGED << mode, master, gen, phase, turn, saves >>
      /\ \A u \in Threads : u # t => pc'[u] = pc[u]
  BY ThreadStepFacts DEF SaveInv
<1>2. phase \in {"run", "await"}
  <2>1. t # Host /\ phase \in Phases /\ HostRuns
    BY ThreadsAssumption DEF ThreadsAssumption, SaveInv, TypeInv, ValuesOK
  <2>. QED  BY <1>1, <2>1 DEF HostRuns, Phases
<1>3. UNCHANGED << CallMade, Parked >> /\ CallMade \in {"run", "save"}
  <2>1. UNCHANGED << CallMade, Parked >>
    BY <1>1 DEF CallMade, Parked
  <2>. QED  BY <1>2, <2>1, CallFacts DEF SaveInv
<1>4. Busy' \in SUBSET Saved
  BY DEF Busy
<1>5. CASE phase = "run" \/ turn = 1
  <2>1. Parked = {}
    BY <1>2, <1>5, CallFacts, FirstTurn DEF SaveInv
  <2>. QED  BY <1>3, <1>4, <2>1 DEF Contract!RunTogether
<1>6. CASE phase = "await" /\ turn # 1
  <2>1. /\ turn \in DOMAIN SaveOrder
        /\ DOMAIN SaveOrder = 1 .. Len(SaveOrder) /\ Len(SaveOrder) \in Nat
        /\ \A i \in DOMAIN SaveOrder : SaveOrder[i] \in Threads
    BY TurnType DEF SaveInv
  <2>2. t = SaveOrder[turn]
    BY <1>1, <1>6, ThreadsAssumption DEF SaveInv, ModeOfCall, ThreadsAssumption
  <2>3. t \in Saved /\ Saved \subseteq Threads
    BY <2>1, <2>2 DEF Saved
  <2>4. Parked = {SaveOrder[i] : i \in 1 .. turn - 1}
    BY <1>6, CallFacts DEF SaveInv
  <2>5. Parked # {} /\ t \notin Parked
    <3>1. 1 \in 1 .. turn - 1
      BY <1>6, <2>1
    <3>2. \A i \in 1 .. turn - 1 : i \in DOMAIN SaveOrder /\ i # turn
      BY <2>1
    <3>. QED  BY <2>1, <2>2, <2>4, <3>1, <3>2
  <2>6. Busy' \in {Busy \cup {t}, Busy \ {t}}
    <3>1. \A u \in Saved : u # t => (u \in Busy' <=> u \in Busy)
      BY <1>1, <2>3 DEF Busy, AtTop
    <3>2. Busy \subseteq Saved /\ Busy' \subseteq Saved
      BY DEF Busy
    <3>3. t \in Busy' => Busy' = Busy \cup {t}
      BY <2>3, <3>1, <3>2
    <3>4. t \notin Busy' => Busy' = Busy \ {t}
      BY <2>3, <3>1, <3>2
    <3>. QED  BY <3>3, <3>4
  <2>7. CallMade = "save"
    BY <1>6, CallFacts DEF SaveInv
  <2>. QED  BY <1>3, <2>3, <2>5, <2>6, <2>7 DEF Contract!RunAlone
<1>. QED  BY <1>2, <1>5, <1>6

\* The program thread's calls and returns, and what it does to the scheduler in between.
LEMMA CallKeeps ==
  ASSUME SaveInv, TypeInv', Run \/ RunReturns \/ Save \/ SynchronizeThread \/ Reenter
  PROVE  [Contract!Next]_Contract!vars
<1>1. UNCHANGED Busy
  <2>1. UNCHANGED pc
    BY DEF Run, RunReturns, Save, SynchronizeThread, Reenter
  <2>. QED  BY <2>1 DEF Busy, AtTop
<1>2. CASE Run
  <2>1. phase = "idle" /\ phase' = "run"
    BY <1>2 DEF Run
  <2>2. CallMade = "none" /\ CallMade' = "run" /\ Parked' = {}
    BY <2>1 DEF CallMade, Parked
  <2>. QED  BY <1>1, <2>2 DEF Contract!Next, Contract!Call
<1>3. CASE Save
  <2>1. phase = "idle" /\ phase' = "synchronize" /\ turn' = 1
    BY <1>3 DEF Save
  <2>2. CallMade = "none" /\ CallMade' = "save"
    BY <2>1 DEF CallMade
  <2>3. Parked' = {}
    <3>1. 1 .. 1 - 1 = {}
      OBVIOUS
    <3>2. Parked' = {SaveOrder[i] : i \in 1 .. 1 - 1}
      BY <2>1 DEF Parked
    <3>. QED  BY <3>1, <3>2
  <2>. QED  BY <1>1, <2>2, <2>3 DEF Contract!Next, Contract!Call
<1>4. CASE RunReturns
  <2>1. phase = "run" /\ phase' = "idle"
    BY <1>4 DEF RunReturns
  <2>2. CallMade = "run" /\ CallMade' = "none" /\ Parked' = Parked
    BY <2>1 DEF CallMade, Parked
  <2>. QED  BY <1>1, <2>2 DEF Contract!Next, Contract!ReturnFrame
<1>5. CASE SynchronizeThread \/ Reenter
  <2>1. phase \in {"synchronize", "await"} /\ phase' = "await" /\ turn' = turn
    BY <1>5 DEF SynchronizeThread, Reenter, host
  <2>2. UNCHANGED << CallMade, Parked >>
    BY <2>1 DEF CallMade, Parked
  <2>. QED  BY <1>1, <2>2 DEF Contract!vars
<1>. QED  BY <1>2, <1>3, <1>4, <1>5

\* A thread is parked at the top of its loop.
LEMMA SynchronizedKeeps ==
  ASSUME SaveInv, Synchronized,
         \A i, j \in DOMAIN SaveOrder : SaveOrder[i] = SaveOrder[j] => i = j
  PROVE  \E t \in Saved : Contract!ParkThread(t)
<1> DEFINE t == SaveOrder[turn]
<1>1. /\ turn \in DOMAIN SaveOrder
      /\ DOMAIN SaveOrder = 1 .. Len(SaveOrder) /\ Len(SaveOrder) \in Nat
  BY TurnType DEF SaveInv
<1>2. /\ phase = "await" /\ active = Host /\ event = "Synchronize" /\ UNCHANGED pc
  BY DEF Synchronized
<1>3. t \in Saved /\ t \notin Busy
  BY <1>1, <1>2 DEF Saved, Busy, SaveInv, ParkedAtTop
<1>4. Parked = {SaveOrder[i] : i \in 1 .. turn - 1}
  BY <1>2, CallFacts DEF SaveInv
<1>5. t \notin Parked
  <2>1. \A i \in 1 .. turn - 1 : i \in DOMAIN SaveOrder /\ i # turn
    BY <1>1
  <2>. QED  BY <1>1, <1>4, <2>1
<1>6. Parked \cup {t} = {SaveOrder[i] : i \in 1 .. turn}
  <2>1. 1 .. turn = 1 .. turn - 1 \cup {turn}
    BY <1>1
  <2>. QED  BY <1>4, <2>1
<1>7. CallMade = "save" /\ CallMade' = "save" /\ Parked' = Parked \cup {t}
  <2>1. CASE turn = Len(SaveOrder)
    <3>1. phase' = "saved"
      BY <2>1 DEF Synchronized
    <3>2. Saved = {SaveOrder[i] : i \in 1 .. turn}
      BY <1>1, <2>1 DEF Saved
    <3>3. Parked' = Saved
      BY <3>1 DEF Parked
    <3>. QED  BY <1>2, <1>6, <3>1, <3>2, <3>3 DEF CallMade
  <2>2. CASE turn # Len(SaveOrder)
    <3>1. phase' = "synchronize" /\ turn' = turn + 1
      BY <2>2 DEF Synchronized
    <3>2. Parked' = {SaveOrder[i] : i \in 1 .. turn' - 1}
      BY <3>1 DEF Parked
    <3>3. turn' - 1 = turn
      BY <1>1, <3>1
    <3>. QED  BY <1>2, <1>6, <3>1, <3>2, <3>3 DEF CallMade
  <2>. QED  BY <2>1, <2>2
<1>8. UNCHANGED Busy
  BY <1>2 DEF Busy, AtTop
<1>. HIDE DEF t
<1>. QED  BY <1>3, <1>5, <1>7, <1>8 DEF Contract!ParkThread

\* The state is copied, or loaded, when all threads are parked.
LEMMA CommitKeeps ==
  ASSUME SaveInv, Serialize \/ Unserialize
  PROVE  Contract!Commit
<1>1. phase = "saved" /\ phase' = "idle"
  BY DEF Serialize, Unserialize
<1>2. CallMade = "save" /\ CallMade' = "none" /\ Parked = Saved /\ Parked' = {}
  BY <1>1 DEF CallMade, Parked
<1>3. Busy = {}
  BY <1>1 DEF SaveInv, SafePoint, Busy, Saved
<1>4. Busy' = {}
  <2>1. UNCHANGED pc \/ pc' = [t \in Threads |-> "top"]
    BY DEF Serialize, Unserialize, Create
  <2>2. Saved \subseteq Threads
    BY TurnType DEF Saved, SaveInv
  <2>. QED  BY <1>3, <2>1, <2>2 DEF Busy, AtTop
<1>. QED  BY <1>2, <1>3, <1>4 DEF Contract!Commit

\* Between calls threads are created again, by a power cycle or by connect().
LEMMA RecreateKeeps ==
  ASSUME SaveInv, Power \/ \E ps \in Swaps : Connect(ps)
  PROVE  Contract!Recreate
<1>1. phase = "idle" /\ phase' = "idle"
  BY DEF Power, Connect, host
<1>2. CallMade = "none" /\ CallMade' = "none" /\ Parked' = Parked
  BY <1>1 DEF CallMade, Parked
<1>3. \A t \in Threads : pc'[t] \in {"top", pc[t]}
  <2>1. CASE Power
    BY <2>1 DEF Power, Create
  <2>2. ASSUME NEW ps \in Swaps, Connect(ps)
        PROVE  \A t \in Threads : pc'[t] \in {"top", pc[t]}
    <3> DEFINE P == {ps[i] : i \in DOMAIN ps}
    <3>1. pc' = [t \in Threads |-> IF t \in P THEN "top" ELSE pc[t]]
      BY <2>2 DEF Connect
    <3>. HIDE DEF P
    <3>. QED  BY <3>1
  <2>. QED  BY <2>1, <2>2
<1>4. Busy' \in SUBSET Busy
  <2>1. Saved \subseteq Threads
    BY TurnType DEF Saved, SaveInv
  <2>. QED  BY <1>3, <2>1 DEF Busy, AtTop
<1>. QED  BY <1>2, <1>4 DEF Contract!Recreate

\* run() and runToSave() keep the contract, whatever the threads are, how they synchronize
\* and in which order they are saved, if none of them is saved twice.
THEOREM ContractKept ==
  ASSUME \A i, j \in DOMAIN SaveOrder : SaveOrder[i] = SaveOrder[j] => i = j
  PROVE  Spec => KeepsContract
<1>1. Init => Contract!Init
  <2> SUFFICES ASSUME Init
               PROVE  Contract!Init
    OBVIOUS
  <2>1. CallMade = "none" /\ Parked = {}
    BY DEF Init, CallMade, Parked
  <2>2. Busy = {}
    <3>1. TypeInv
      BY InitType
    <3>2. Saved \subseteq Threads
      BY <3>1, TurnType DEF Saved
    <3>. QED  BY <3>2 DEF Init, Busy, AtTop
  <2>. QED  BY <2>1, <2>2 DEF Contract!Init
<1>2. SaveInv /\ [Next]_vars => [Contract!Next]_Contract!vars
  <2> SUFFICES ASSUME SaveInv, [Next]_vars
               PROVE  [Contract!Next]_Contract!vars
    OBVIOUS
  <2>1. TypeInv'
    BY NextSave DEF SaveInv
  <2>2. ASSUME NEW t \in Threads, ThreadStep(t)
        PROVE  Contract!Next
    BY <2>1, <2>2, ThreadKeeps DEF Contract!Next
  <2>3. CASE Run \/ RunReturns \/ Save \/ SynchronizeThread \/ Reenter
    BY <2>1, <2>3, CallKeeps
  <2>4. CASE Synchronized
    BY <2>4, SynchronizedKeeps DEF Contract!Next
  <2>5. CASE Serialize \/ Unserialize
    BY <2>5, CommitKeeps DEF Contract!Next
  <2>6. CASE Power \/ \E ps \in Swaps : Connect(ps)
    BY <2>6, RecreateKeeps DEF Contract!Next
  <2>7. CASE UNCHANGED vars
    <3>1. UNCHANGED << phase, turn, pc >>
      BY <2>7 DEF vars, host
    <3>. QED  BY <3>1 DEF Contract!vars, CallMade, Busy, Parked, AtTop
  <2>. QED  BY <2>2, <2>3, <2>4, <2>5, <2>6, <2>7 DEF Next, Proceed
<1>3. Spec => Contract!Spec
  BY <1>1, <1>2, InitSave, NextSave, PTL DEF Spec, Contract!Spec
<1>. QED  BY <1>3 DEF KeepsContract

=============================================================================
