------------------------------ MODULE RouteAuth ------------------------------
(***************************************************************************)
(* Authentication of a routed request at the node (route-auth.mjs): the    *)
(* Hub signs each request it passes on with a time stamp and a fresh       *)
(* nonce, and the node remembers the nonces it has accepted, in memory and *)
(* for a retention period.  A request may arrive late, more than once and  *)
(* with anything else on the same nonce.                                   *)
(*                                                                         *)
(* Each nonce is one the Hub draws for one request; a request on it that   *)
(* the Hub has not signed is foreign, and its time stamp is what its       *)
(* sender likes.                                                           *)
(***************************************************************************)
EXTENDS Integers, FiniteSets

CONSTANTS RouteNonces,
          RouteSkew,      \* ROUTE_SKEW_MS
          RouteRetention, \* retentionMs of the cache
          MaxRouteNow     \* bound: the node's clock

(* 60 seconds of retention, 30 seconds of skew to either side.             *)
ASSUME RouteAuthAssumption ==
  RouteSkew \in Nat /\ RouteRetention \in Nat /\ MaxRouteNow \in Nat
  /\ RouteRetention >= 2 * RouteSkew

VARIABLES raNow,      \* the node's clock
          raSigned,   \* time stamps of the signed requests, by nonce
          raCache,    \* seenAt of the nonces in the cache
          raKey,      \* the Hub route key: its state and the end of its overlap
          raAccepted  \* how often the signed request was accepted since the node started

raVars == <<raNow, raSigned, raCache, raKey, raAccepted>>

Unsigned  == -1
NotCached == -1
NoOverlap == -1

RaInit ==
  /\ raNow = 0
  /\ raSigned = [n \in RouteNonces |-> Unsigned]
  /\ raCache = [n \in RouteNonces |-> NotCached]
  /\ raKey = [state |-> "provisioned", overlapUntil |-> NoOverlap]
  /\ raAccepted = [n \in RouteNonces |-> 0]

-----------------------------------------------------------------------------
(* Mutant: a nonce is forgotten when its retention is up, not after it.    *)
PurgedAtCutoff(cache) ==
  [n \in RouteNonces |-> IF cache[n] <= raNow - RouteRetention THEN NotCached ELSE cache[n]]

(* The cache without what is older than the retention.  The clock does not *)
(* go back, so the order of insertion is the order of time.                *)
PurgedNonces(cache) ==
  [n \in RouteNonces |-> IF cache[n] < raNow - RouteRetention THEN NotCached ELSE cache[n]]

(* checkAndReserve.                                                        *)
Reserved(n) == [PurgedNonces(raCache) EXCEPT ![n] = raNow]
KnownNonce(n) == PurgedNonces(raCache)[n] # NotCached

RouteFresh(ts) == raNow - ts <= RouteSkew /\ ts - raNow <= RouteSkew

KeyServes ==
  /\ raKey.state \in {"active", "rotating"}
  /\ raKey.overlapUntil # NoOverlap => raNow < raKey.overlapUntil

(* The Hub signs for one node and one authority; its clock is its own.     *)
SignRouteRequest(n) ==
  /\ raSigned[n] = Unsigned
  /\ \E ts \in 0 .. MaxRouteNow : raSigned' = [raSigned EXCEPT ![n] = ts]
  /\ UNCHANGED <<raNow, raCache, raKey, raAccepted>>

(* Mutant: the nonce is reserved before the signature is looked at.        *)
RejectForeignReserving(n, ts) ==
  /\ RouteFresh(ts) /\ KeyServes
  /\ raCache' = Reserved(n)
  /\ UNCHANGED <<raNow, raSigned, raKey, raAccepted>>

(* A foreign request fails at its time stamp, its key or its signature,    *)
(* before the cache is asked: nothing changes.                             *)
RejectForeign(n, ts) ==
  /\ RouteFresh(ts) /\ KeyServes
  /\ UNCHANGED raVars

(* The signed request, once more or for the first time.                    *)
VerifyRouteRequest(n) ==
  /\ raSigned[n] # Unsigned
  /\ RouteFresh(raSigned[n]) /\ KeyServes
  /\ IF KnownNonce(n)
     THEN raCache' = PurgedNonces(raCache) /\ UNCHANGED raAccepted
     ELSE /\ raCache' = Reserved(n)
          /\ raAccepted' = [raAccepted EXCEPT ![n] = @ + 1]
  /\ UNCHANGED <<raNow, raSigned, raKey>>

(* The key set of the node as heartbeats push it.                          *)
RouteKeyChanges ==
  /\ raKey' \in [state: {"provisioned", "active", "rotating", "revoked"},
                 overlapUntil: {NoOverlap, raNow + 1}]
  /\ raKey'.overlapUntil # NoOverlap <=> raKey'.state = "rotating"
  /\ UNCHANGED <<raNow, raSigned, raCache, raAccepted>>

(* The cache is memory of the process.                                     *)
NodeRestarts ==
  /\ raCache' = [n \in RouteNonces |-> NotCached]
  /\ raAccepted' = [n \in RouteNonces |-> 0]
  /\ UNCHANGED <<raNow, raSigned, raKey>>

RouteTick ==
  /\ raNow < MaxRouteNow
  /\ raNow' = raNow + 1
  /\ UNCHANGED <<raSigned, raCache, raKey, raAccepted>>

RaNext ==
  \/ \E n \in RouteNonces : SignRouteRequest(n) \/ VerifyRouteRequest(n)
  \/ \E n \in RouteNonces, ts \in 0 .. MaxRouteNow : RejectForeign(n, ts)
  \/ RouteKeyChanges \/ NodeRestarts \/ RouteTick

RaSpec == RaInit /\ [][RaNext]_raVars

-----------------------------------------------------------------------------
(* Between two starts of the node a signed request is accepted once: the   *)
(* window in which it is fresh, twice the skew when it comes from the      *)
(* future, closes no later than the cache forgets its nonce.               *)
RouteAcceptedOnce == \A n \in RouteNonces : raAccepted[n] <= 1

(* What the Hub has not signed leaves no trace in the cache: it neither    *)
(* fills it nor uses up the nonce of a request that is still to come.      *)
CacheIsAuthentic ==
  \A n \in RouteNonces : raCache[n] # NotCached => raAccepted[n] = 1

(* The invariant of the nonce cache, checkAndReserve: no replay passes,    *)
(* and no foreign request spends a nonce.                                  *)
RouteReplaysRefused == RouteAcceptedOnce /\ CacheIsAuthentic
=============================================================================
