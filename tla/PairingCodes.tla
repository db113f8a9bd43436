---------------------------- MODULE PairingCodes ----------------------------
(***************************************************************************)
(* Operator pairing codes (pairing-code.mjs) and the lockout that bounds   *)
(* how often an address may guess one.                                     *)
(*                                                                         *)
(* A code is six random digits, so two live records may carry the same     *)
(* code; the pairing token of a record is unique.  Records are numbered in *)
(* the order they are generated and their token is that number.  Each one  *)
(* has a timer of its own, which fires some time after it is due.          *)
(***************************************************************************)
EXTENDS Naturals, Sequences, FiniteSets

CONSTANTS Codes,
          CodeTTL,        \* 5 minutes
          Grace,          \* the timer is due one second after the TTL
          MaxFailed,      \* failed attempts before an address is locked
          LockFor,        \* 15 minutes
          MaxPairingNow,  \* bound: the clock
          MaxRecords      \* bound: codes generated

ASSUME PairingAssumption ==
  /\ {CodeTTL, Grace, MaxFailed, LockFor,
      MaxPairingNow, MaxRecords} \subseteq Nat \ {0}

None == 0

VARIABLES pcNow,
          pcRecords,   \* every record generated: code, expiry, timer pending
          pcCodes,     \* the map from a code to its record
          pcTokens,    \* the records the token map still holds
          pcGranted,   \* sessions bootstrapped with each record
          pcAddress,   \* ipAttempts of one client address, or None
          pcFailures   \* when that address failed since its last success

pcMaps == <<pcRecords, pcCodes, pcTokens, pcGranted>>
pcVars == <<pcNow, pcRecords, pcCodes, pcTokens, pcGranted, pcAddress, pcFailures>>

NoAttempts == [failed |-> 0, locked |-> 0, last |-> 0]

PcInit ==
  /\ pcNow = 1 /\ pcRecords = <<>> /\ pcTokens = {} /\ pcGranted = <<>>
  /\ pcCodes = [c \in Codes |-> None]
  /\ pcAddress = NoAttempts /\ pcFailures = <<>>

-----------------------------------------------------------------------------
(* generateCode: the newer record of a code takes its place in the map.    *)
GenerateCode(c) ==
  /\ Len(pcRecords) < MaxRecords
  /\ LET g == Len(pcRecords) + 1
     IN /\ pcRecords' = Append(pcRecords, [code |-> c, expires |-> pcNow + CodeTTL, timer |-> TRUE])
        /\ pcCodes' = [pcCodes EXCEPT ![c] = g]
        /\ pcTokens' = pcTokens \cup {g}
        /\ pcGranted' = Append(pcGranted, 0)
  /\ UNCHANGED <<pcNow, pcAddress, pcFailures>>

(* Mutant: the timer is set for the TTL in a smaller unit.                 *)
RecordTimerEarly(g) ==
  /\ pcRecords[g].timer
  /\ pcRecords' = [pcRecords EXCEPT ![g].timer = FALSE]
  /\ pcCodes' = [pcCodes EXCEPT ![pcRecords[g].code] = None]
  /\ pcTokens' = pcTokens \ {g}
  /\ UNCHANGED <<pcNow, pcGranted, pcAddress, pcFailures>>

(* The timer of a record deletes its code, whichever record holds it by    *)
(* then, and its token.                                                    *)
RecordTimer(g) ==
  /\ pcRecords[g].timer /\ pcNow >= pcRecords[g].expires + Grace
  /\ pcRecords' = [pcRecords EXCEPT ![g].timer = FALSE]
  /\ pcCodes' = [pcCodes EXCEPT ![pcRecords[g].code] = None]
  /\ pcTokens' = pcTokens \ {g}
  /\ UNCHANGED <<pcNow, pcGranted, pcAddress, pcFailures>>

(* Mutant: only the name the record was found by is destroyed.             *)
DestroyCode(g) ==
  /\ pcCodes' = [pcCodes EXCEPT ![pcRecords[g].code] = None]
  /\ UNCHANGED pcTokens

(* Destroyed on first access: under the code, whichever record it leads to *)
(* now, and under the token.                                               *)
Destroy(g) ==
  /\ pcCodes' = [pcCodes EXCEPT ![pcRecords[g].code] = None]
  /\ pcTokens' = pcTokens \ {g}

-----------------------------------------------------------------------------
(* The lockout of an address.                                              *)

Locked == pcAddress.locked > pcNow

(* checkIpLockout forgets a lock that is over and attempts long past.      *)
Checked(a) ==
  IF pcNow > a.last + LockFor \/ (a.locked # 0 /\ a.locked <= pcNow)
  THEN NoAttempts ELSE a

(* Mutant: the lock starts one failure late.                               *)
FailedOffByOne(a) ==
  LET base  == IF a = NoAttempts THEN [a EXCEPT !.last = pcNow] ELSE a
      count == (IF pcNow > base.last + LockFor /\ base.locked = 0 THEN 0 ELSE base.failed) + 1
  IN [failed |-> count, last |-> pcNow,
      locked |-> IF count > MaxFailed THEN pcNow + LockFor ELSE base.locked]

(* recordFailure.                                                          *)
Failed(a) ==
  LET base  == IF a = NoAttempts THEN [a EXCEPT !.last = pcNow] ELSE a
      count == (IF pcNow > base.last + LockFor /\ base.locked = 0 THEN 0 ELSE base.failed) + 1
  IN [failed |-> count, last |-> pcNow,
      locked |-> IF count >= MaxFailed THEN pcNow + LockFor ELSE base.locked]

(* verifyCode of something that names no record.                           *)
VerifyUnknown ==
  /\ ~Locked
  /\ pcAddress' = Failed(Checked(pcAddress))
  /\ pcFailures' = Append(pcFailures, pcNow)
  /\ UNCHANGED <<pcNow, pcRecords, pcCodes, pcTokens, pcGranted>>

(* verifyCode of a record found by its code or by its token: it is gone    *)
(* before its expiry is looked at; a success bootstraps a session and      *)
(* clears the address.                                                     *)
VerifyRecord(g) ==
  /\ ~Locked
  /\ pcCodes[pcRecords[g].code] = g \/ g \in pcTokens
  /\ Destroy(g)
  /\ IF pcNow > pcRecords[g].expires
     THEN /\ pcAddress' = Failed(Checked(pcAddress))
          /\ pcFailures' = Append(pcFailures, pcNow)
          /\ UNCHANGED pcGranted
     ELSE /\ pcAddress' = NoAttempts /\ pcFailures' = <<>>
          /\ pcGranted' = [pcGranted EXCEPT ![g] = @ + 1]
  /\ UNCHANGED <<pcNow, pcRecords>>

-----------------------------------------------------------------------------
PairingTick ==
  /\ pcNow < MaxPairingNow /\ pcNow' = pcNow + 1
  /\ UNCHANGED <<pcMaps, pcAddress, pcFailures>>

PcNext ==
  \/ \E c \in Codes : GenerateCode(c)
  \/ \E g \in DOMAIN pcRecords : RecordTimer(g) \/ VerifyRecord(g)
  \/ VerifyUnknown \/ PairingTick

PcSpec == PcInit /\ [][PcNext]_pcVars

-----------------------------------------------------------------------------
(* The maps lead to records that exist and carry that code.                *)
PcTypeOK ==
  /\ pcNow \in 1 .. MaxPairingNow
  /\ pcRecords \in Seq([code: Codes, expires: Nat, timer: BOOLEAN])
  /\ pcGranted \in Seq(Nat) /\ Len(pcGranted) = Len(pcRecords)
  /\ pcTokens \subseteq DOMAIN pcRecords
  /\ \A c \in Codes : pcCodes[c] # None =>
       pcCodes[c] \in DOMAIN pcRecords /\ pcRecords[pcCodes[c]].code = c
  /\ pcAddress \in [failed: 0 .. MaxFailed, locked: Nat, last: Nat]

(* A record opens one session at most, by whichever of its two names it is *)
(* presented, also when another record carries the same code (RFC-0016:    *)
(* anti-replay single-use destruction).                                    *)
RecordOpensOneSession == \A g \in DOMAIN pcGranted : pcGranted[g] <= 1

(* A record nobody has presented can be presented by its token until it    *)
(* expires: no timer and no record of the same code takes it away.         *)
UnusedTokenStands ==
  \A g \in DOMAIN pcRecords :
    (pcGranted[g] = 0 /\ pcNow <= pcRecords[g].expires) => g \in pcTokens

(* Guesses are bounded: without a success between them an address has at   *)
(* most MaxFailed attempts looked at in any stretch as long as the lock.   *)
GuessesBounded ==
  \A t \in 1 .. pcNow :
    Cardinality({i \in DOMAIN pcFailures : pcFailures[i] >= t /\ pcFailures[i] < t + LockFor})
      <= MaxFailed

(* The invariant of the pairing code manager: records, their two names,    *)
(* their timers and the attempts of an address stay in step, so that a     *)
(* record is good for one session, until it expires, and guesses are few.  *)
PairingSound ==
  PcTypeOK /\ RecordOpensOneSession /\ UnusedTokenStands /\ GuessesBounded
=============================================================================
