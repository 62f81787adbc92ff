----------------------------- MODULE SaveContract -----------------------------
(***************************************************************************)
(* What System::run() and System::runToSave() promise the program thread,  *)
(* whatever the threads are and whenever they switch.  A thread is busy    *)
(* when a part of its state is on its stack, and parked once runToSave()   *)
(* has had it give that state up.                                          *)
(***************************************************************************)
CONSTANT Saved      \* the threads whose state is saved
VARIABLES call,     \* the call the program thread has made
          busy, parked
vars == << call, busy, parked >>

Init == call = "none" /\ busy = {} /\ parked = {}

Call(c) == call = "none" /\ call' = c /\ parked' = {} /\ UNCHANGED busy

\* Until the first thread is parked the system runs as a whole.
RunTogether ==
  /\ call \in {"run", "save"} /\ parked = {}
  /\ busy' \in SUBSET Saved
  /\ UNCHANGED << call, parked >>

\* From then on one thread that is not parked moves at a time.
RunAlone(t) ==
  /\ call = "save" /\ parked # {} /\ t \notin parked
  /\ busy' \in {busy \cup {t}, busy \ {t}}
  /\ UNCHANGED << call, parked >>

ParkThread(t) ==
  /\ call = "save" /\ t \notin parked /\ t \notin busy
  /\ parked' = parked \cup {t}
  /\ UNCHANGED << call, busy >>

\* The state is copied when every thread is parked, and none is busy.
Commit ==
  /\ call = "save" /\ parked = Saved /\ busy = {}
  /\ call' = "none" /\ parked' = {} /\ UNCHANGED busy

ReturnFrame == call = "run" /\ call' = "none" /\ UNCHANGED << busy, parked >>

\* Between calls a thread can only be created again, at the top of its loop.
Recreate == call = "none" /\ busy' \in SUBSET busy /\ UNCHANGED << call, parked >>

Next ==
  \/ Call("run") \/ Call("save") \/ RunTogether \/ ReturnFrame \/ Commit \/ Recreate
  \/ \E t \in Saved : RunAlone(t) \/ ParkThread(t)

Spec == Init /\ [][Next]_vars
=============================================================================
