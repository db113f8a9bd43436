----------------------------- MODULE MachineAuth -----------------------------
(***************************************************************************)
(* Replay protection of the signed machine API of the Hub: the time stamp  *)
(* window of authenticateMachine, the durable nonce reservation            *)
(* (seen_nonces) and its retention.  A signed request may be delivered     *)
(* late, any number of times and in any order.  The reservation is a       *)
(* transaction of its own, committed before the business transaction: the  *)
(* Hub may deny the request (rate limit, body) or crash in between.        *)
(* A request stands for its (node, nonce) pair: clients draw a fresh nonce *)
(* for every request they sign.                                            *)
(***************************************************************************)
EXTENDS Integers

CONSTANTS
    Requests,     \* signed requests
    NoRequest,    \* no handler is running
    Skew,         \* SIGNATURE_SKEW_SECONDS
    Retention,    \* NONCE_RETENTION_MS
    MaxTime       \* bound of the clocks

(* 24 hours of retention against a window of 30 seconds to either side.    *)
ASSUME RetentionAssumption ==
    /\ NoRequest \notin Requests
    /\ Skew \in Nat
    /\ Retention \in Nat
    /\ MaxTime \in Nat
    /\ Retention > 2 * Skew

VARIABLES
    now,        \* the Hub's clock
    stamp,      \* X-Orbit-Timestamp of every signed request, by the node's clock
    seen,       \* seen_nonces.created_at, or Never
    handling,   \* the request between its reservation and its effect
    admitted,   \* how often a request passed authentication
    applied     \* how often it took effect

vars == <<now, stamp, seen, handling, admitted, applied>>

Never == -1

TypeOK ==
    /\ now \in Nat
    /\ stamp \in [Requests -> Nat \cup {Never}]
    /\ seen \in [Requests -> Nat \cup {Never}]
    /\ handling \in Requests \cup {NoRequest}
    /\ admitted \in [Requests -> Nat]
    /\ applied \in [Requests -> Nat]

Init ==
    /\ now = 0
    /\ stamp = [r \in Requests |-> Never]
    /\ seen = [r \in Requests |-> Never]
    /\ handling = NoRequest
    /\ admitted = [r \in Requests |-> 0]
    /\ applied = [r \in Requests |-> 0]

(* The node signs with whatever its own clock says.                        *)
SignRequest(r, ts) ==
    /\ stamp[r] = Never
    /\ stamp' = [stamp EXCEPT ![r] = ts]
    /\ UNCHANGED <<now, seen, handling, admitted, applied>>

InSkew(ts) == now - ts <= Skew /\ ts - now <= Skew

(* Mutant: an existing reservation is overwritten instead of refused. *)
ReserveNonceUpsert(r) == seen' = [seen EXCEPT ![r] = now]

ReserveNonce(r) == seen[r] = Never /\ seen' = [seen EXCEPT ![r] = now]

AuthenticateMachine(r) ==
    /\ handling = NoRequest
    /\ stamp[r] # Never
    /\ InSkew(stamp[r])
    /\ ReserveNonce(r)
    /\ handling' = r
    /\ admitted' = [admitted EXCEPT ![r] = @ + 1]
    /\ UNCHANGED <<now, stamp, applied>>

(* heartbeatAuthenticated, uploadReportAuthenticated or                    *)
(* rotateCredentialAuthenticated commits.                                  *)
Apply(r) ==
    /\ handling = r
    /\ applied' = [applied EXCEPT ![r] = @ + 1]
    /\ handling' = NoRequest
    /\ UNCHANGED <<now, stamp, seen, admitted>>

(* The rate limiter or the business transaction refuses the request, or    *)
(* the Hub process dies: the reservation stays.                            *)
DenyOrCrash ==
    /\ handling # NoRequest
    /\ handling' = NoRequest
    /\ UNCHANGED <<now, stamp, seen, admitted, applied>>

(* Mutant: reservations are kept for the skew only. *)
PurgeNoncesEarly ==
    /\ handling = NoRequest
    /\ seen' = [r \in Requests |-> IF seen[r] # Never /\ seen[r] <= now - Skew THEN Never ELSE seen[r]]
    /\ UNCHANGED <<now, stamp, handling, admitted, applied>>

PurgeNonces ==
    /\ handling = NoRequest
    /\ seen' = [r \in Requests |-> IF seen[r] # Never /\ seen[r] <= now - Retention THEN Never ELSE seen[r]]
    /\ UNCHANGED <<now, stamp, handling, admitted, applied>>

Tick ==
    /\ now < MaxTime
    /\ now' = now + 1
    /\ UNCHANGED <<stamp, seen, handling, admitted, applied>>

Next ==
    \/ \E r \in Requests, ts \in 0 .. MaxTime : SignRequest(r, ts)
    \/ \E r \in Requests : AuthenticateMachine(r) \/ Apply(r)
    \/ DenyOrCrash
    \/ PurgeNonces
    \/ Tick

Spec == Init /\ [][Next]_vars

-----------------------------------------------------------------------------
(* Properties *)

(* A signed request takes effect at most once, however often and however   *)
(* late it is delivered, also around purges of the reservation, and a      *)
(* request that was denied or lost in a crash after its reservation never  *)
(* takes effect later.                                                     *)
AtMostOnce == \A r \in Requests : applied[r] <= 1 /\ admitted[r] <= 1

(* Why: while a reservation stands it blocks the request; it was made      *)
(* inside the window of the time stamp, so when it is purged the window    *)
(* has closed for good.                                                    *)
ReservationOutlivesWindow ==
    \A r \in Requests :
        /\ seen[r] # Never => admitted[r] = 1 /\ seen[r] <= now /\ stamp[r] - seen[r] <= Skew
        /\ (admitted[r] # 0 /\ seen[r] = Never) => now - stamp[r] > Skew
        /\ admitted[r] # 0 => stamp[r] # Never
        /\ applied[r] + (IF handling = r THEN 1 ELSE 0) <= admitted[r]
=============================================================================
