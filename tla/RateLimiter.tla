---------------------------- MODULE RateLimiter -----------------------------
(***************************************************************************)
(* SlidingWindowLimiter (server.mjs): the one limiter behind the machine   *)
(* endpoints, token minting and session bootstrap.  A handler asks before  *)
(* it reads the state it protects; the windows live in memory only, and    *)
(* when there are too many keys the idle ones are dropped.                 *)
(***************************************************************************)
EXTENDS Naturals, Sequences, FiniteSets

CONSTANTS LimiterKeys, WindowLimit, WindowLength,
          LongestWindow,   \* one hour: what the purge goes by
          MaxWindows,      \* keys before a purge
          MaxLimiterNow    \* bound: the clock

ASSUME LimiterAssumption ==
  /\ {WindowLimit, WindowLength, LongestWindow, MaxWindows, MaxLimiterNow} \subseteq Nat
  /\ WindowLimit > 0 /\ WindowLength <= LongestWindow

VARIABLES rlNow,
          rlWindows,   \* the entries of each key; absent keys are empty
          rlAdmitted   \* when each key was let through, for good

rlVars == <<rlNow, rlWindows, rlAdmitted>>

RlInit ==
  /\ rlNow = 1
  /\ rlWindows = [k \in LimiterKeys |-> <<>>]
  /\ rlAdmitted = [k \in LimiterKeys |-> <<>>]

(* Mutant: the whole window restarts once it is full.                      *)
YoungUnlessFull(entries) ==
  IF Len(entries) >= WindowLimit THEN <<>> ELSE entries

(* Entries as old as the window leave from the front, up to the first that *)
(* is younger.                                                             *)
Young(entries) ==
  LET shifted == CHOOSE n \in 0 .. Len(entries) :
                   /\ \A i \in 1 .. n : entries[i] + WindowLength <= rlNow
                   /\ n < Len(entries) => entries[n + 1] + WindowLength > rlNow
  IN SubSeq(entries, shifted + 1, Len(entries))

(* The keys that are purged with these windows.                            *)
Purged(windows) ==
  IF Cardinality({k \in LimiterKeys : windows[k] # <<>>}) <= MaxWindows THEN {}
  ELSE {k \in LimiterKeys : windows[k] # <<>> /\
          windows[k][Len(windows[k])] + LongestWindow <= rlNow}

(* allow: the entry is made, then the purge looks at all keys.             *)
Allow(k) ==
  LET young == Young(rlWindows[k])
      full  == Len(young) >= WindowLimit
      noted == [rlWindows EXCEPT ![k] = IF full THEN young ELSE Append(young, rlNow)]
  IN /\ rlWindows' = IF full THEN noted
                     ELSE [q \in LimiterKeys |-> IF q \in Purged(noted) THEN <<>> ELSE noted[q]]
     /\ rlAdmitted' = IF full THEN rlAdmitted
                      ELSE [rlAdmitted EXCEPT ![k] = Append(@, rlNow)]
     /\ UNCHANGED rlNow

LimiterTick ==
  /\ rlNow < MaxLimiterNow /\ rlNow' = rlNow + 1
  /\ UNCHANGED <<rlWindows, rlAdmitted>>

RlNext == (\E k \in LimiterKeys : Allow(k)) \/ LimiterTick

RlSpec == RlInit /\ [][RlNext]_rlVars

-----------------------------------------------------------------------------
(* In any stretch as long as the window a key is let through at most       *)
(* WindowLimit times, whatever other keys did and were purged.             *)
AdmittedBounded ==
  \A k \in LimiterKeys, t \in 1 .. rlNow :
    Cardinality({i \in DOMAIN rlAdmitted[k] :
                   rlAdmitted[k][i] >= t /\ rlAdmitted[k][i] < t + WindowLength}) <= WindowLimit
=============================================================================
