---------------------------- MODULE LibretroSession ----------------------------
(***************************************************************************)
(* The calls of the libretro core (nSide/target-libretro/libretro.cpp)     *)
(* that make, drop or use the state it keeps in Program::cached_serialize, *)
(* so that a frontend that asks for the size of a state and then for the   *)
(* state makes the emulator run to a safe point once.                      *)
(*                                                                         *)
(* retro_set_controller_port_device() is left out: the ports copy nothing  *)
(* into a state, so it changes none of what is kept here.                  *)
(***************************************************************************)
CONSTANTS
  States,     \* what emulator->serialize() may copy
  Nothing     \* the frontend has no state yet

ASSUME StatesAssumption == Nothing \notin States

VARIABLES
  loaded,     \* a game is loaded
  now,        \* the state of the emulator
  cached,     \* Program::cached_serialize
  hasCached,  \* Program::has_cached_serialize
  data,       \* the state the frontend was last given
  answered,   \* the last call was a retro_serialize() that returned true
  reset       \* history: retro_reset() was called since the state was cached

vars == << loaded, now, cached, hasCached, data, answered, reset >>

\* A call other than retro_serialize() on a game that is loaded.
Call == loaded /\ answered' = FALSE /\ UNCHANGED loaded

\* A call of the emulator leaves it in any state.
Emulate == now' \in States

\* A game is loaded from the start, then powered; where the call fails nothing is kept.
retro_load_game ==
  /\ ~loaded /\ loaded' = TRUE
  /\ Emulate
  /\ hasCached' = FALSE /\ reset' = FALSE /\ answered' = FALSE
  /\ UNCHANGED << cached, data >>

\* The cached state is kept until the next game is loaded.
retro_unload_game ==
  /\ loaded /\ loaded' = FALSE
  /\ answered' = FALSE
  /\ UNCHANGED << now, cached, hasCached, data, reset >>

\* The emulator is reset; the cached state is not dropped.
retro_reset ==
  /\ Call /\ Emulate
  /\ reset' = hasCached
  /\ UNCHANGED << cached, hasCached, data >>

\* Mutant: a frame does not drop the cached state.
RunKeepingCache == Call /\ Emulate /\ UNCHANGED << cached, hasCached, data, reset >>

retro_run ==
  /\ Call /\ Emulate
  /\ hasCached' = FALSE /\ reset' = FALSE
  /\ UNCHANGED << cached, data >>

\* emulator->serialize() runs the emulator to a safe point, unless a state is cached.
Cache ==
  IF hasCached THEN UNCHANGED << now, cached, hasCached, reset >>
  ELSE now' \in States /\ cached' = now' /\ hasCached' = TRUE /\ reset' = FALSE

retro_serialize_size == Call /\ Cache /\ UNCHANGED data

\* It fails when the frontend's buffer has another size, and caches the state all the same.
retro_serialize(fits) ==
  /\ loaded /\ Cache
  /\ answered' = fits
  /\ data' = IF fits THEN cached' ELSE data
  /\ UNCHANGED loaded

\* Mutant: the signature and the version of the data are not tested.
UnserializeAny(accepted) ==
  /\ Call
  /\ now' = IF accepted THEN data ELSE now
  /\ hasCached' = FALSE /\ reset' = FALSE
  /\ UNCHANGED << cached, data >>

\* Data of another version or another core is refused, and leaves the emulator as it was.
retro_unserialize(accepted) ==
  /\ Call
  /\ accepted => data # Nothing
  /\ now' = IF accepted THEN data ELSE now
  /\ hasCached' = FALSE /\ reset' = FALSE
  /\ UNCHANGED << cached, data >>

\* retro_cheat_reset() and retro_cheat_set() do no more.
retro_cheat_set ==
  /\ Call
  /\ hasCached' = FALSE /\ reset' = FALSE
  /\ UNCHANGED << now, cached, data >>

Init ==
  /\ loaded = FALSE /\ hasCached = FALSE /\ answered = FALSE /\ reset = FALSE
  /\ now \in States /\ cached \in States
  /\ data = Nothing

Next ==
  \/ retro_load_game \/ retro_unload_game \/ retro_reset \/ retro_run
  \/ retro_serialize_size \/ retro_cheat_set
  \/ \E ok \in BOOLEAN : retro_serialize(ok) \/ retro_unserialize(ok)

Spec == Init /\ [][Next]_vars

-----------------------------------------------------------------------------

\* Every variable has a value of its type.
SessionTypeOK ==
  /\ loaded \in BOOLEAN /\ hasCached \in BOOLEAN /\ answered \in BOOLEAN /\ reset \in BOOLEAN
  /\ now \in States /\ cached \in States /\ data \in States \cup {Nothing}

\* Whatever calls a frontend makes, the cached state is that of the emulator, unless the
\* game was reset or unloaded since it was cached: no other call forgets to drop it.
CacheIsCurrent == loaded /\ hasCached /\ ~reset => cached = now

\* libretro.h:2146: retro_serialize() serializes the internal state, so what it gives the
\* frontend is the state the emulator is in.
SerializesInternalState == answered => data = now
=============================================================================
