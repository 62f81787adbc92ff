----------------------------- MODULE LibretroProofs -----------------------------
(* Theorems about LibretroSession, for every set of states. *)
EXTENDS LibretroSession, TLAPS

SessionInv == SessionTypeOK /\ CacheIsCurrent

\* A state is cached when it is not yet, and is then the emulator's; one that was cached
\* before is left as it is.
LEMMA CacheFacts ==
  ASSUME SessionTypeOK, Cache
  PROVE  /\ now' \in States /\ cached' \in States /\ hasCached' = TRUE /\ reset' \in BOOLEAN
         /\ CacheIsCurrent /\ loaded => (~reset' => cached' = now')
<1>1. CASE hasCached
  BY <1>1 DEF Cache, SessionTypeOK, CacheIsCurrent
<1>2. CASE ~hasCached
  BY <1>2 DEF Cache, SessionTypeOK
<1>. QED  BY <1>1, <1>2

\* Every call keeps the cached state current, or drops it, or is a reset.
LEMMA CallKeepsCache == SessionInv /\ [Next]_vars => SessionInv'
<1> SUFFICES ASSUME SessionInv, [Next]_vars
             PROVE  SessionInv'
  OBVIOUS
<1>1. CASE retro_load_game \/ retro_unload_game
  BY <1>1 DEF retro_load_game, retro_unload_game, Emulate, SessionInv, SessionTypeOK, CacheIsCurrent
<1>2. CASE retro_reset
  BY <1>2 DEF retro_reset, Call, Emulate, SessionInv, SessionTypeOK, CacheIsCurrent
<1>3. CASE retro_run \/ retro_cheat_set
  BY <1>3 DEF retro_run, retro_cheat_set, Call, Emulate, SessionInv, SessionTypeOK, CacheIsCurrent
<1>4. CASE retro_serialize_size
  BY <1>4, CacheFacts DEF retro_serialize_size, Call, SessionInv, SessionTypeOK, CacheIsCurrent
<1>5. ASSUME NEW fits \in BOOLEAN, retro_serialize(fits)
      PROVE  SessionInv'
  BY <1>5, CacheFacts DEF retro_serialize, SessionInv, SessionTypeOK, CacheIsCurrent
<1>6. ASSUME NEW accepted \in BOOLEAN, retro_unserialize(accepted)
      PROVE  SessionInv'
  BY <1>6 DEF retro_unserialize, Call, SessionInv, SessionTypeOK, CacheIsCurrent
<1>7. CASE UNCHANGED vars
  BY <1>7 DEF vars, SessionInv, SessionTypeOK, CacheIsCurrent
<1>. QED  BY <1>1, <1>2, <1>3, <1>4, <1>5, <1>6, <1>7 DEF Next

LEMMA SessionAlways == Spec => []SessionInv
<1>1. Init => SessionInv
  BY DEF Init, SessionInv, SessionTypeOK, CacheIsCurrent
<1>. QED  BY <1>1, CallKeepsCache, PTL DEF Spec

\* What the core keeps and what it gives the frontend are always states of the emulator.
THEOREM SessionTypeCorrect == Spec => []SessionTypeOK
<1>1. SessionInv => SessionTypeOK
  BY DEF SessionInv
<1>. QED  BY <1>1, SessionAlways, PTL

\* The cached state is the emulator's unless the game was reset since, whatever the
\* frontend calls, and in whatever order: retro_reset() alone forgets to drop it.
THEOREM CacheCorrect == Spec => []CacheIsCurrent
<1>1. SessionInv => CacheIsCurrent
  BY DEF SessionInv
<1>. QED  BY <1>1, SessionAlways, PTL
=============================================================================
