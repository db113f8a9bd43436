---------------------------- MODULE ServicesProofs ----------------------------
(***************************************************************************)
(* Proofs about the Hub's services, for every value of their limits: who   *)
(* is let in (machine requests, routed requests, the rate limiter, pairing *)
(* codes, operator sessions) and what the operator's tools do beside a     *)
(* running Hub (backup and restore, upgrade runners that share a directory *)
(* and a compose project).                                                 *)
(***************************************************************************)
EXTENDS MachineAuth, RouteAuth, RateLimiter, PairingCodes, OperatorSessions,
        UpgradeRunner, BackupRestore, Instants, FiniteSetTheorems, TLAPS

-----------------------------------------------------------------------------
(* Machine requests *)

(* The inductive invariant.                                                *)
Inv == TypeOK /\ AtMostOnce /\ ReservationOutlivesWindow

(* Every step of the Hub keeps the invariant.                              *)
LEMMA InvStep == Inv /\ [Next]_vars => Inv'
<1> SUFFICES ASSUME Inv, [Next]_vars PROVE Inv'
  OBVIOUS
<1> USE RetentionAssumption DEF Inv, TypeOK, AtMostOnce, ReservationOutlivesWindow, Never
<1>1. ASSUME NEW r \in Requests, NEW ts \in 0 .. MaxTime, SignRequest(r, ts) PROVE Inv'
  BY <1>1 DEF SignRequest
<1>2. ASSUME NEW r \in Requests, AuthenticateMachine(r) PROVE Inv'
  <2>1. admitted[r] = 0
    BY <1>2 DEF AuthenticateMachine, ReserveNonce, InSkew
  <2> QED
    BY <1>2, <2>1 DEF AuthenticateMachine, ReserveNonce, InSkew
<1>3. ASSUME NEW r \in Requests, Apply(r) PROVE Inv'
  BY <1>3 DEF Apply
<1>4. CASE DenyOrCrash
  BY <1>4 DEF DenyOrCrash
<1>5. CASE PurgeNonces
  BY <1>5 DEF PurgeNonces
<1>6. CASE Tick
  BY <1>6 DEF Tick
<1>7. CASE UNCHANGED vars
  BY <1>7 DEF vars
<1> QED
  BY <1>1, <1>2, <1>3, <1>4, <1>5, <1>6, <1>7 DEF Next

(* A signed machine request takes effect at most once, for every number of *)
(* requests and deliveries, whenever the retention exceeds the window.     *)
THEOREM AtMostOnceCorrect == Spec => []AtMostOnce
<1>1. Init => Inv
  BY RetentionAssumption DEF Init, Inv, TypeOK, AtMostOnce, ReservationOutlivesWindow, Never
<1>2. Inv => AtMostOnce
  BY DEF Inv
<1> QED
  BY <1>1, <1>2, InvStep, PTL DEF Spec

-----------------------------------------------------------------------------
(* Routed requests *)

RaTypeOK ==
  /\ raNow \in Nat
  /\ raSigned \in [RouteNonces -> Int]
  /\ raCache \in [RouteNonces -> Int]
  /\ raAccepted \in [RouteNonces -> Nat]

(* A nonce in the cache was put there at a time when its request was       *)
(* fresh.                                                                  *)
CachedWhenFresh ==
  \A n \in RouteNonces : raCache[n] # NotCached =>
    raCache[n] <= raNow /\ raSigned[n] <= raCache[n] + RouteSkew

(* A request that was accepted and whose nonce the cache has forgotten is  *)
(* too old to be accepted again.                                           *)
ForgottenIsStale ==
  \A n \in RouteNonces :
    raAccepted[n] = 1 /\ raCache[n] = NotCached => raNow > raSigned[n] + RouteSkew

(* The inductive invariant of the nonce cache.                             *)
RaInv == RaTypeOK /\ RouteReplaysRefused /\ CachedWhenFresh /\ ForgottenIsStale
         /\ \A n \in RouteNonces : raAccepted[n] = 1 => raSigned[n] # Unsigned

(* A routed request, a restart and the clock keep it.                      *)
LEMMA RaInvStep == RaInv /\ [RaNext]_raVars => RaInv'
<1> SUFFICES ASSUME RaInv, [RaNext]_raVars PROVE RaInv'
  OBVIOUS
<1> USE RouteAuthAssumption DEF RaInv, RaTypeOK, RouteReplaysRefused, RouteAcceptedOnce,
        CacheIsAuthentic, CachedWhenFresh, ForgottenIsStale, NotCached, Unsigned
<1>1. ASSUME NEW n \in RouteNonces, SignRouteRequest(n) PROVE RaInv'
  BY <1>1 DEF SignRouteRequest
<1>2. ASSUME NEW n \in RouteNonces, VerifyRouteRequest(n) PROVE RaInv'
  <2> DEFINE purged == PurgedNonces(raCache)
  <2>1. purged \in [RouteNonces -> Int]
    BY DEF PurgedNonces
  <2>2. \A q \in RouteNonces :
          \/ purged[q] = raCache[q]
          \/ purged[q] = NotCached /\ raCache[q] # NotCached /\ raCache[q] < raNow - RouteRetention
    BY DEF PurgedNonces
  <2>3. \A q \in RouteNonces :
          raAccepted[q] = 1 /\ purged[q] = NotCached => raNow > raSigned[q] + RouteSkew
    BY <2>2
  <2>4. CASE KnownNonce(n)
    <3>1. raCache' = purged /\ UNCHANGED <<raNow, raSigned, raKey, raAccepted>>
      BY <1>2, <2>4 DEF VerifyRouteRequest
    <3> HIDE DEF purged
    <3> QED
      BY <2>1, <2>2, <2>3, <3>1
  <2>5. CASE ~KnownNonce(n)
    <3>1. /\ raCache' = [purged EXCEPT ![n] = raNow]
          /\ raAccepted' = [raAccepted EXCEPT ![n] = @ + 1]
          /\ UNCHANGED <<raNow, raSigned, raKey>>
      BY <1>2, <2>5 DEF VerifyRouteRequest, Reserved
    <3>2. purged[n] = NotCached
      BY <2>5 DEF KnownNonce
    <3>3. raSigned[n] # Unsigned /\ raNow <= raSigned[n] + RouteSkew /\ raSigned[n] <= raNow + RouteSkew
      BY <1>2 DEF VerifyRouteRequest, RouteFresh
    <3> HIDE DEF purged
    <3>4. raAccepted[n] = 0
      BY <2>3, <3>2, <3>3
    <3> QED
      BY <2>1, <2>2, <2>3, <3>1, <3>3, <3>4
  <2> QED
    BY <2>4, <2>5
<1>3. ASSUME NEW n \in RouteNonces, NEW ts \in 0 .. MaxRouteNow, RejectForeign(n, ts) PROVE RaInv'
  BY <1>3 DEF RejectForeign, raVars
<1>4. CASE RouteKeyChanges
  BY <1>4 DEF RouteKeyChanges
<1>5. CASE NodeRestarts
  BY <1>5 DEF NodeRestarts
<1>6. CASE RouteTick
  BY <1>6 DEF RouteTick
<1>7. CASE UNCHANGED raVars
  BY <1>7 DEF raVars
<1> QED
  BY <1>1, <1>2, <1>3, <1>4, <1>5, <1>6, <1>7 DEF RaNext

(* Between two starts of the node no replay of a routed request passes and *)
(* no foreign one spends a nonce, whatever the clock, the number of        *)
(* requests and a retention of at least twice the skew.                    *)
THEOREM RouteReplaysRefusedCorrect == RaSpec => []RouteReplaysRefused
<1>1. RaInit => RaInv
  BY RouteAuthAssumption DEF RaInit, RaInv, RaTypeOK, RouteReplaysRefused, RouteAcceptedOnce,
     CacheIsAuthentic, CachedWhenFresh, ForgottenIsStale, NotCached, Unsigned
<1>2. RaInv => RouteReplaysRefused
  BY DEF RaInv
<1> QED
  BY <1>1, <1>2, RaInvStep, PTL DEF RaSpec
-----------------------------------------------------------------------------
(* The rate limiter *)

(* The entries a key keeps are the latest of its admissions.               *)
KeepsLatest(kept, all) ==
  /\ Len(kept) <= Len(all)
  /\ \A i \in 1 .. Len(kept) : kept[i] = all[Len(all) - Len(kept) + i]

(* What it no longer keeps is older than the window.                       *)
DroppedIsOld(kept, all) ==
  \A i \in 1 .. Len(all) - Len(kept) : all[i] + WindowLength <= rlNow

(* The inductive invariant of the limiter.                                 *)
RlInv ==
  /\ rlNow \in Nat
  /\ rlWindows \in [LimiterKeys -> Seq(Nat)] /\ rlAdmitted \in [LimiterKeys -> Seq(Nat)]
  /\ \A k \in LimiterKeys :
       /\ KeepsLatest(rlWindows[k], rlAdmitted[k])
       /\ DroppedIsOld(rlWindows[k], rlAdmitted[k])
       /\ Ordered(rlAdmitted[k]) /\ Spaced(rlAdmitted[k], WindowLimit, WindowLength)
       /\ \A i \in 1 .. Len(rlAdmitted[k]) : rlAdmitted[k][i] <= rlNow

(* What is left of a key's entries when the old ones are shifted out, or   *)
(* all of them because the last is old, keeps the two facts about them.    *)
LEMMA YoungKeepsLatest ==
    ASSUME RlInv, NEW k \in LimiterKeys
    PROVE  LET young == Young(rlWindows[k])
           IN /\ young \in Seq(Nat)
              /\ KeepsLatest(young, rlAdmitted[k]) /\ DroppedIsOld(young, rlAdmitted[k])
              /\ \A i \in 1 .. Len(young) : young[i] + WindowLength > rlNow
<1> DEFINE w == rlWindows[k]
           a == rlAdmitted[k]
           ends == {n \in 0 .. Len(w) : n < Len(w) => w[n + 1] + WindowLength > rlNow}
           Shifted(n) == /\ \A i \in 1 .. n : w[i] + WindowLength <= rlNow
                         /\ n < Len(w) => w[n + 1] + WindowLength > rlNow
<1>1. w \in Seq(Nat) /\ a \in Seq(Nat) /\ rlNow \in Nat /\ WindowLength \in Nat
  BY LimiterAssumption DEF RlInv
<1>2. KeepsLatest(w, a) /\ DroppedIsOld(w, a) /\ Ordered(a)
  BY DEF RlInv
<1> HIDE DEF w, a
<1>3. Len(w) \in ends /\ ends \subseteq Nat
  BY <1>1
<1>4. PICK least \in ends : \A n \in ends : least <= n
  <2> HIDE DEF ends
  <2> QED
    BY <1>3, LeastNatural
<1>5. Shifted(least) /\ least \in 0 .. Len(w)
  <2>1. ASSUME NEW i \in 1 .. least PROVE w[i] + WindowLength <= rlNow
    <3>1. least \in 0 .. Len(w)
      BY <1>4
    <3>2. i - 1 \in 0 .. Len(w) /\ i - 1 < least
      BY <1>1, <2>1, <3>1
    <3>3. i - 1 \notin ends
      <4> HIDE DEF ends
      <4> QED
        BY <1>4, <3>1, <3>2
    <3>4. ~(i - 1 < Len(w) => w[i - 1 + 1] + WindowLength > rlNow)
      BY <3>2, <3>3
    <3>5. i - 1 + 1 = i /\ w[i] \in Nat
      BY <1>1, <2>1, <3>1
    <3> QED
      BY <1>1, <3>4, <3>5
  <2> QED
    BY <1>4, <2>1
<1>6. DEFINE n == CHOOSE m \in 0 .. Len(w) : Shifted(m)
<1>7. n \in 0 .. Len(w) /\ Shifted(n)
  BY <1>5
<1>8. Young(w) = SubSeq(w, n + 1, Len(w))
  BY DEF Young
<1> HIDE DEF n
<1>9. /\ Young(w) \in Seq(Nat) /\ Len(Young(w)) = Len(w) - n
      /\ \A i \in 1 .. Len(w) - n : Young(w)[i] = w[n + i]
  BY <1>1, <1>7, <1>8
<1>10. KeepsLatest(Young(w), a)
  <2>1. Len(Young(w)) <= Len(a)
    BY <1>1, <1>2, <1>7, <1>9 DEF KeepsLatest
  <2>2. ASSUME NEW i \in 1 .. Len(Young(w)) PROVE Young(w)[i] = a[Len(a) - Len(Young(w)) + i]
    <3>1. n + i \in 1 .. Len(w) /\ i \in 1 .. Len(w) - n
      BY <1>1, <1>7, <1>9, <2>2
    <3>2. Young(w)[i] = w[n + i] /\ w[n + i] = a[Len(a) - Len(w) + (n + i)]
      BY <1>2, <1>9, <3>1 DEF KeepsLatest
    <3>3. Len(a) - Len(w) + (n + i) = Len(a) - Len(Young(w)) + i
      BY <1>1, <1>7, <1>9, <3>1
    <3> QED
      BY <3>2, <3>3
  <2> QED
    BY <2>1, <2>2 DEF KeepsLatest
<1>11. DroppedIsOld(Young(w), a)
  <2> SUFFICES ASSUME NEW i \in 1 .. Len(a) - (Len(w) - n)
               PROVE  a[i] + WindowLength <= rlNow
    BY <1>9 DEF DroppedIsOld
  <2>1. CASE i <= Len(a) - Len(w)
    BY <1>2, <2>1 DEF DroppedIsOld
  <2>2. CASE i > Len(a) - Len(w)
    <3>1. i - (Len(a) - Len(w)) \in 1 .. n /\ i - (Len(a) - Len(w)) \in 1 .. Len(w)
      BY <1>1, <1>2, <1>7, <2>2 DEF KeepsLatest
    <3>2. w[i - (Len(a) - Len(w))] = a[i]
      BY <1>1, <1>2, <3>1 DEF KeepsLatest
    <3> QED
      BY <1>7, <3>1, <3>2
  <2> QED
    BY <1>1, <2>1, <2>2
<1>12. ASSUME NEW i \in 1 .. Len(Young(w)) PROVE Young(w)[i] + WindowLength > rlNow
  <2>1. n < Len(w) /\ i \in 1 .. Len(w) - n
    BY <1>1, <1>7, <1>9
  <2>2. Young(w)[i] = a[Len(a) - Len(Young(w)) + i] /\ Young(w)[1] = a[Len(a) - Len(Young(w)) + 1]
    BY <1>1, <1>9, <1>10, <2>1 DEF KeepsLatest
  <2>3. Young(w)[1] <= Young(w)[i]
    <3>1. Len(Young(w)) <= Len(a) /\ i <= Len(Young(w)) /\ 1 <= i /\ i \in Nat
      BY <1>1, <1>9, <1>10, <2>1 DEF KeepsLatest
    <3>2. Len(a) - Len(Young(w)) + 1 \in 1 .. Len(a) /\ Len(a) - Len(Young(w)) + i \in 1 .. Len(a)
      BY <1>1, <1>9, <3>1
    <3> QED
      BY <1>1, <1>2, <1>9, <2>2, <3>1, <3>2 DEF Ordered
  <2>4. Young(w)[1] = w[n + 1] /\ w[n + 1] + WindowLength > rlNow
    BY <1>7, <1>9, <2>1
  <2> QED
    BY <1>1, <1>9, <2>1, <2>3, <2>4
<1> QED
  BY <1>9, <1>10, <1>11, <1>12 DEF w, a

(* An admission appended to what is kept and to all there were keeps the   *)
(* facts about them, if less than the limit is kept.                       *)
LEMMA AppendKeepsFacts ==
    ASSUME NEW young \in Seq(Nat), NEW a \in Seq(Nat), rlNow \in Nat, Len(young) < WindowLimit,
           KeepsLatest(young, a), DroppedIsOld(young, a), Ordered(a),
           Spaced(a, WindowLimit, WindowLength), \A i \in 1 .. Len(a) : a[i] <= rlNow
    PROVE  LET b == Append(a, rlNow)
               w == Append(young, rlNow)
           IN /\ b \in Seq(Nat) /\ w \in Seq(Nat)
              /\ KeepsLatest(w, b) /\ DroppedIsOld(w, b)
              /\ Ordered(b) /\ Spaced(b, WindowLimit, WindowLength)
              /\ \A i \in 1 .. Len(b) : b[i] <= rlNow
<1> DEFINE b == Append(a, rlNow)
           w == Append(young, rlNow)
           la == Len(a)
           ly == Len(young)
<1>1. /\ b \in Seq(Nat) /\ Len(b) = la + 1 /\ b[la + 1] = rlNow
      /\ \A i \in 1 .. la : b[i] = a[i]
      /\ w \in Seq(Nat) /\ Len(w) = ly + 1 /\ w[ly + 1] = rlNow
      /\ \A i \in 1 .. ly : w[i] = young[i]
  OBVIOUS
<1>2. /\ la \in Nat /\ ly \in Nat /\ ly <= la /\ ly < WindowLimit
      /\ \A i \in 1 .. ly : young[i] = a[la - ly + i]
      /\ \A i \in 1 .. la - ly : a[i] + WindowLength <= rlNow
      /\ \A i, j \in 1 .. la : i <= j => a[i] <= a[j]
      /\ \A i \in 1 .. la - WindowLimit : a[i] + WindowLength <= a[i + WindowLimit]
      /\ \A i \in 1 .. la : a[i] <= rlNow
      /\ \A i \in 1 .. la : a[i] \in Nat
  BY DEF KeepsLatest, DroppedIsOld, Ordered, Spaced
<1>3. WindowLimit \in Nat /\ WindowLength \in Nat /\ rlNow \in Nat
  BY LimiterAssumption
<1> HIDE DEF b, w, la, ly
<1>4. KeepsLatest(w, b)
  <2>1. ASSUME NEW i \in 1 .. ly + 1 PROVE w[i] = b[(la + 1) - (ly + 1) + i]
    <3>1. CASE i = ly + 1
      BY <1>1, <1>2, <3>1
    <3>2. CASE i \in 1 .. ly
      <4>1. la - ly + i \in 1 .. la /\ (la + 1) - (ly + 1) + i = la - ly + i
        BY <1>2, <3>2
      <4> QED
        BY <1>1, <1>2, <3>2, <4>1
    <3> QED
      BY <1>2, <3>1, <3>2
  <2> QED
    BY <1>1, <1>2, <2>1 DEF KeepsLatest
<1>5. DroppedIsOld(w, b)
  <2>1. ASSUME NEW i \in 1 .. (la + 1) - (ly + 1) PROVE b[i] + WindowLength <= rlNow
    <3>1. i \in 1 .. la - ly /\ i \in 1 .. la
      BY <1>2
    <3> QED
      BY <1>1, <1>2, <3>1
  <2> QED
    BY <1>1, <2>1 DEF DroppedIsOld
<1>6. ASSUME NEW i \in 1 .. la + 1 PROVE b[i] <= rlNow /\ b[i] \in Nat
  <2>1. CASE i = la + 1
    BY <1>1, <1>3, <2>1
  <2>2. CASE i \in 1 .. la
    BY <1>1, <1>2, <2>2
  <2> QED
    BY <1>2, <2>1, <2>2
<1>7. Ordered(b)
  <2>1. ASSUME NEW i \in 1 .. la + 1, NEW j \in 1 .. la + 1, i <= j PROVE b[i] <= b[j]
    <3>1. CASE j = la + 1
      BY <1>1, <1>6, <3>1
    <3>2. CASE j \in 1 .. la
      <4>1. i \in 1 .. la
        BY <1>2, <2>1, <3>2
      <4> QED
        BY <1>1, <1>2, <2>1, <3>2, <4>1
    <3> QED
      BY <1>2, <3>1, <3>2
  <2> QED
    BY <1>1, <2>1 DEF Ordered
<1>8. Spaced(b, WindowLimit, WindowLength)
  <2>1. ASSUME NEW i \in 1 .. la + 1 - WindowLimit PROVE b[i] + WindowLength <= b[i + WindowLimit]
    <3>1. CASE i \in 1 .. la - WindowLimit
      <4>1. i \in 1 .. la /\ i + WindowLimit \in 1 .. la
        BY <1>2, <1>3, <3>1
      <4> QED
        BY <1>1, <1>2, <3>1, <4>1
    <3>2. CASE i = la + 1 - WindowLimit
      <4>1. i \in 1 .. la - ly /\ i \in 1 .. la /\ i + WindowLimit = la + 1
        BY <1>2, <1>3, <2>1, <3>2
      <4> QED
        BY <1>1, <1>2, <4>1
    <3> QED
      BY <1>2, <1>3, <3>1, <3>2
  <2>2. Len(b) - WindowLimit = la + 1 - WindowLimit
    BY <1>1, <1>2, <1>3
  <2> QED
    BY <2>1, <2>2 DEF Spaced
<1> QED
  BY <1>1, <1>4, <1>5, <1>6, <1>7, <1>8 DEF b, w

(* Admission of a key keeps the limiter's invariant, with the purge of     *)
(* every key that comes with it.                                           *)
LEMMA AllowKeepsInv ==
    ASSUME RlInv, NEW k \in LimiterKeys, Allow(k)
    PROVE  RlInv'
<1> DEFINE young == Young(rlWindows[k])
           full  == Len(young) >= WindowLimit
           noted == [rlWindows EXCEPT ![k] = IF full THEN young ELSE Append(young, rlNow)]
           all   == [rlAdmitted EXCEPT ![k] = Append(@, rlNow)]
<1>1. /\ young \in Seq(Nat)
      /\ KeepsLatest(young, rlAdmitted[k]) /\ DroppedIsOld(young, rlAdmitted[k])
      /\ \A i \in 1 .. Len(young) : young[i] + WindowLength > rlNow
  BY YoungKeepsLatest
<1>2. /\ rlWindows' = IF full THEN noted
                      ELSE [q \in LimiterKeys |-> IF q \in Purged(noted) THEN <<>> ELSE noted[q]]
      /\ rlAdmitted' = IF full THEN rlAdmitted ELSE all
      /\ rlNow' = rlNow
  BY DEF Allow
<1>3. {WindowLimit, WindowLength, LongestWindow} \subseteq Nat /\ WindowLimit > 0
      /\ WindowLength <= LongestWindow /\ rlNow \in Nat
  BY LimiterAssumption DEF RlInv
<1>4. rlWindows \in [LimiterKeys -> Seq(Nat)] /\ rlAdmitted \in [LimiterKeys -> Seq(Nat)]
  BY DEF RlInv
<1> HIDE DEF young
<1>5. CASE full
  BY <1>1, <1>2, <1>4, <1>5 DEF RlInv, DroppedIsOld
<1>6. CASE ~full
  <2> DEFINE a == rlAdmitted[k]
             b == Append(a, rlNow)
             w == Append(young, rlNow)
  <2>1. a \in Seq(Nat) /\ Len(young) < WindowLimit /\ Ordered(a)
        /\ Spaced(a, WindowLimit, WindowLength) /\ \A i \in 1 .. Len(a) : a[i] <= rlNow
    BY <1>1, <1>3, <1>4, <1>6 DEF RlInv
  <2>2. /\ b \in Seq(Nat) /\ w \in Seq(Nat)
        /\ KeepsLatest(w, b) /\ DroppedIsOld(w, b)
        /\ Ordered(b) /\ Spaced(b, WindowLimit, WindowLength)
        /\ \A i \in 1 .. Len(b) : b[i] <= rlNow
    BY <1>1, <1>3, <2>1, AppendKeepsFacts
  <2> HIDE DEF a, b, w
  <2>7. noted \in [LimiterKeys -> Seq(Nat)] /\ noted[k] = w
        /\ all \in [LimiterKeys -> Seq(Nat)] /\ all[k] = b
        /\ \A q \in LimiterKeys : q # k => noted[q] = rlWindows[q] /\ all[q] = rlAdmitted[q]
    BY <1>4, <1>6, <2>2 DEF a, b, w
  <2> HIDE DEF noted, all
  <2>8. ASSUME NEW q \in LimiterKeys
        PROVE  /\ KeepsLatest(noted[q], all[q]) /\ DroppedIsOld(noted[q], all[q])
               /\ Ordered(all[q]) /\ Spaced(all[q], WindowLimit, WindowLength)
               /\ \A i \in 1 .. Len(all[q]) : all[q][i] <= rlNow
    BY <2>2, <2>7 DEF RlInv
  <2>9. ASSUME NEW q \in Purged(noted)
        PROVE  /\ q \in LimiterKeys
               /\ KeepsLatest(<<>>, all[q]) /\ DroppedIsOld(<<>>, all[q])
    <3>1. q \in LimiterKeys /\ noted[q] # <<>> /\ noted[q][Len(noted[q])] + LongestWindow <= rlNow
      BY <2>9 DEF Purged
    <3> DEFINE n == noted[q]
               c == all[q]
    <3>2. n \in Seq(Nat) /\ c \in Seq(Nat) /\ Len(n) \in 1 .. Len(c)
          /\ n[Len(n)] = c[Len(c)] /\ Ordered(c)
      <4>1. n \in Seq(Nat) /\ c \in Seq(Nat) /\ KeepsLatest(n, c) /\ Ordered(c)
        BY <2>7, <2>8, <3>1
      <4>2. Len(n) \in 1 .. Len(c)
        BY <3>1, <4>1 DEF KeepsLatest
      <4>3. n[Len(n)] = c[Len(c)]
        <5>1. n[Len(n)] = c[Len(c) - Len(n) + Len(n)] /\ Len(c) - Len(n) + Len(n) = Len(c)
          <6> HIDE DEF n, c
          <6> QED
            BY <4>1, <4>2 DEF KeepsLatest
        <5> QED
          BY <5>1
      <4> QED
        BY <4>1, <4>2, <4>3
    <3>3. c[Len(c)] + LongestWindow <= rlNow
      BY <3>1, <3>2
    <3> HIDE DEF n, c
    <3>4. ASSUME NEW i \in 1 .. Len(c) PROVE c[i] + WindowLength <= rlNow
      <4>1. c[i] <= c[Len(c)] /\ c[i] \in Nat /\ c[Len(c)] \in Nat
        BY <3>2 DEF Ordered
      <4> QED
        BY <1>3, <3>3, <4>1
    <3>5. KeepsLatest(<<>>, c) /\ DroppedIsOld(<<>>, c)
      BY <3>2, <3>4 DEF KeepsLatest, DroppedIsOld
    <3> QED
      BY <3>1, <3>5 DEF c
  <2>10. rlWindows' = [q \in LimiterKeys |-> IF q \in Purged(noted) THEN <<>> ELSE noted[q]]
         /\ rlAdmitted' = all
    BY <1>2, <1>6
  <2>11. rlWindows' \in [LimiterKeys -> Seq(Nat)]
    BY <2>7, <2>10
  <2>12. ASSUME NEW q \in LimiterKeys
         PROVE  /\ KeepsLatest(rlWindows'[q], rlAdmitted'[q])
                /\ DroppedIsOld(rlWindows'[q], rlAdmitted'[q])
    BY <2>8, <2>9, <2>10
  <2> QED
    BY <1>2, <1>3, <2>7, <2>8, <2>10, <2>11, <2>12 DEF RlInv, DroppedIsOld
<1> QED
  BY <1>5, <1>6

LEMMA RlInvStep == RlInv /\ [RlNext]_rlVars => RlInv'
<1> SUFFICES ASSUME RlInv, [RlNext]_rlVars PROVE RlInv'
  OBVIOUS
<1>1. ASSUME NEW k \in LimiterKeys, Allow(k) PROVE RlInv'
  BY <1>1, AllowKeepsInv
<1>2. CASE LimiterTick
  <2>1. rlNow' = rlNow + 1 /\ rlNow \in Nat /\ UNCHANGED <<rlWindows, rlAdmitted>>
    BY <1>2 DEF LimiterTick, RlInv
  <2>2. \A k \in LimiterKeys : \A i \in 1 .. Len(rlAdmitted[k]) : rlAdmitted[k][i] \in Nat
    BY DEF RlInv
  <2>3. \A k \in LimiterKeys : Len(rlAdmitted[k]) - Len(rlWindows[k]) <= Len(rlAdmitted[k])
    BY DEF RlInv
  <2>4. WindowLength \in Nat
    BY LimiterAssumption
  <2>5. \A k \in LimiterKeys : DroppedIsOld(rlWindows[k], rlAdmitted[k])'
    BY <2>1, <2>2, <2>3, <2>4 DEF RlInv, DroppedIsOld
  <2> QED
    BY <2>1, <2>2, <2>5 DEF RlInv
<1>3. CASE UNCHANGED rlVars
  BY <1>3 DEF rlVars, RlInv, DroppedIsOld
<1> QED
  BY <1>1, <1>2, <1>3 DEF RlNext

(* In no stretch as long as the window is a key let through more often     *)
(* than the limit says, whatever limit, window and number of keys, and     *)
(* although the purge forgets whole keys.                                  *)
THEOREM AdmittedBoundedCorrect == RlSpec => []AdmittedBounded
<1>1. RlInit => RlInv
  BY LimiterAssumption DEF RlInit, RlInv, KeepsLatest, DroppedIsOld, Ordered, Spaced
<1>2. RlInv => AdmittedBounded
  <2> SUFFICES ASSUME RlInv, NEW k \in LimiterKeys, NEW t \in 1 .. rlNow
               PROVE  Cardinality({i \in DOMAIN rlAdmitted[k] :
                        rlAdmitted[k][i] >= t /\ rlAdmitted[k][i] < t + WindowLength}) <= WindowLimit
    BY DEF AdmittedBounded
  <2>1. rlAdmitted[k] \in Seq(Nat) /\ Ordered(rlAdmitted[k]) /\ t \in Nat
        /\ Spaced(rlAdmitted[k], WindowLimit, WindowLength)
    BY DEF RlInv
  <2>2. WindowLimit \in Nat /\ WindowLimit > 0 /\ WindowLength \in Nat
    BY LimiterAssumption
  <2> QED
    BY <2>1, <2>2, SpacedIsBounded
<1> QED
  BY <1>1, <1>2, RlInvStep, PTL DEF RlSpec

-----------------------------------------------------------------------------
(* Pairing codes *)

(* The failures of an address, and the attempts it is charged with, which  *)
(* are the latest of them: earlier ones are older than the lock by then.   *)
StreakIsLatest(a, f) ==
  /\ a.failed <= Len(f)
  /\ a.failed = 0 => a = NoAttempts /\ Len(f) = 0
  /\ a.failed > 0 => a.last = f[Len(f)]
  /\ a.failed < MaxFailed => a.locked = 0
  /\ a.failed = MaxFailed => a.locked = a.last + LockFor
  /\ \A i, j \in 1 .. Len(f) :
       i + a.failed <= Len(f) /\ j + a.failed > Len(f) => f[i] + LockFor <= f[j]

AttemptsInv ==
  /\ pcNow \in Nat /\ pcFailures \in Seq(Nat)
  /\ pcAddress \in [failed: 0 .. MaxFailed, locked: Nat, last: Nat]
  /\ StreakIsLatest(pcAddress, pcFailures)
  /\ Ordered(pcFailures) /\ Spaced(pcFailures, MaxFailed, LockFor)
  /\ \A i \in 1 .. Len(pcFailures) : pcFailures[i] <= pcNow

(* A failed attempt that is looked at keeps this, whether it adds to a     *)
(* streak or begins one.                                                   *)
LEMMA FailureKeepsAttempts ==
    ASSUME AttemptsInv, ~Locked, pcNow' = pcNow,
           pcAddress' = Failed(Checked(pcAddress)), pcFailures' = Append(pcFailures, pcNow)
    PROVE  AttemptsInv'
<1> DEFINE f == pcFailures
           l == Len(f)
           g == Append(f, pcNow)
           a == pcAddress
           c == Checked(a)
           b == Failed(c)
<1>1. LockFor \in Nat /\ LockFor > 0 /\ MaxFailed \in Nat /\ MaxFailed > 0
      /\ pcNow \in Nat /\ f \in Seq(Nat) /\ l \in Nat
  BY PairingAssumption DEF AttemptsInv
<1>2. /\ a \in [failed: 0 .. MaxFailed, locked: Nat, last: Nat] /\ a.locked <= pcNow
      /\ StreakIsLatest(a, f)
      /\ \A i \in 1 .. l : f[i] <= pcNow /\ f[i] \in Nat
      /\ \A i, j \in 1 .. l : i <= j => f[i] <= f[j]
      /\ \A i \in 1 .. l - MaxFailed : f[i] + LockFor <= f[i + MaxFailed]
  BY DEF AttemptsInv, Locked, Ordered, Spaced
<1>3. /\ g \in Seq(Nat) /\ Len(g) = l + 1 /\ g[l + 1] = pcNow
      /\ \A i \in 1 .. l : g[i] = f[i]
  BY <1>1
<1>4. /\ a.failed \in 0 .. l /\ a.last \in Nat /\ a.locked \in Nat
      /\ a.failed > 0 => a.last = f[l]
  BY <1>1, <1>2 DEF StreakIsLatest
(* A streak that is over is older than the lock, one that goes on is not   *)
(* full.                                                                   *)
<1>5. \/ c = NoAttempts /\ \A i \in 1 .. l : f[i] + LockFor <= pcNow
      \/ c = a /\ a.failed \in 0 .. MaxFailed - 1 /\ a.locked = 0 /\ pcNow <= a.last + LockFor
  <2>1. CASE pcNow > a.last + LockFor \/ (a.locked # 0 /\ a.locked <= pcNow)
    <3>1. c = NoAttempts
      BY <2>1 DEF Checked
    <3>2. CASE a.failed = 0
      BY <1>1, <1>2, <3>1, <3>2 DEF StreakIsLatest
    <3>3. CASE a.failed > 0
      <4>1. a.last + LockFor <= pcNow
        BY <1>1, <1>2, <1>4, <2>1 DEF StreakIsLatest
      <4>2. \A i \in 1 .. l : f[i] <= f[l]
        BY <1>1, <1>2
      <4>3. l \in 1 .. l /\ a.last = f[l]
        BY <1>1, <1>4, <3>3
      <4> QED
        BY <1>1, <1>2, <3>1, <4>1, <4>2, <4>3
    <3> QED
      BY <1>4, <3>2, <3>3
  <2>2. CASE ~(pcNow > a.last + LockFor \/ (a.locked # 0 /\ a.locked <= pcNow))
    <3>1. c = a /\ a.locked = 0 /\ pcNow <= a.last + LockFor
      BY <1>1, <1>2, <1>4, <2>2 DEF Checked
    <3>2. a.failed # MaxFailed
      <4>1. a.last + LockFor # 0 /\ LockFor > 0
        BY <1>1, <1>4
      <4> QED
        BY <1>2, <3>1, <4>1 DEF StreakIsLatest
    <3> QED
      BY <1>1, <1>2, <3>1, <3>2
  <2> QED
    BY <2>1, <2>2
<1> HIDE DEF f, l, g, a, c
<1>6. /\ b \in [failed: 0 .. MaxFailed, locked: Nat, last: Nat]
      /\ b.last = pcNow
      /\ b.failed = MaxFailed => b.locked = pcNow + LockFor
      /\ b.failed < MaxFailed => b.locked = 0
      /\ \/ b.failed = 1 /\ \A i \in 1 .. l : f[i] + LockFor <= pcNow
         \/ b.failed = a.failed + 1 /\ a.failed \in 1 .. MaxFailed - 1
  <2>1. CASE c = NoAttempts
    <3>1. b = [failed |-> 1, last |-> pcNow, locked |-> IF 1 >= MaxFailed THEN pcNow + LockFor ELSE 0]
      BY <1>1, <2>1 DEF Failed, NoAttempts
    <3>2. \A i \in 1 .. l : f[i] + LockFor <= pcNow
      <4>1. CASE \A i \in 1 .. l : f[i] + LockFor <= pcNow
        BY <4>1
      <4>2. CASE c = a
        <5>1. a.failed = 0
          BY <2>1, <4>2 DEF NoAttempts
        <5> QED
          BY <1>2, <5>1 DEF StreakIsLatest, f, l
      <4> QED
        BY <1>5, <4>1, <4>2
    <3> QED
      BY <1>1, <3>1, <3>2
  <2>2. CASE c # NoAttempts
    <3>1. c = a /\ a.failed \in 0 .. MaxFailed - 1 /\ a.locked = 0 /\ pcNow <= a.last + LockFor
      BY <1>5, <2>2
    <3>2. a.failed # 0
      BY <1>2, <2>2, <3>1 DEF StreakIsLatest
    <3>3. b = [failed |-> a.failed + 1, last |-> pcNow,
               locked |-> IF a.failed + 1 >= MaxFailed THEN pcNow + LockFor ELSE 0]
      BY <1>1, <1>4, <2>2, <3>1 DEF Failed
    <3> QED
      BY <1>1, <3>1, <3>2, <3>3
  <2> QED
    BY <2>1, <2>2
<1> HIDE DEF b
<1>7. b.failed \in 1 .. MaxFailed /\ b.failed <= l + 1
  BY <1>1, <1>4, <1>6
<1>8. ASSUME NEW i \in 1 .. l + 1, NEW j \in 1 .. l + 1,
             i + b.failed <= l + 1, j + b.failed > l + 1
      PROVE  g[i] + LockFor <= g[j]
  <2>1. i \in 1 .. l /\ g[i] = f[i] /\ f[i] \in Nat
    BY <1>1, <1>2, <1>3, <1>7, <1>8
  <2>2. CASE b.failed = 1 /\ \A m \in 1 .. l : f[m] + LockFor <= pcNow
    <3>1. j = l + 1
      BY <1>1, <1>8, <2>2
    <3> QED
      BY <1>3, <2>1, <2>2, <3>1
  <2>3. CASE b.failed = a.failed + 1 /\ a.failed \in 1 .. MaxFailed - 1
    <3>1. a.failed \in Nat /\ a.failed > 0 /\ a.failed <= l /\ i + a.failed <= l
      BY <1>1, <1>4, <1>8, <2>1, <2>3
    <3>2. CASE j = l + 1
      <4>1. l \in 1 .. l /\ l + a.failed > l
        BY <1>1, <3>1
      <4>2. f[i] + LockFor <= f[l] /\ f[l] <= pcNow /\ f[l] \in Nat
        BY <1>2, <2>1, <3>1, <4>1 DEF StreakIsLatest, l
      <4> QED
        BY <1>1, <1>3, <2>1, <3>2, <4>2
    <3>3. CASE j \in 1 .. l
      <4>1. j + a.failed > l
        BY <1>1, <1>8, <2>3, <3>1, <3>3
      <4>2. f[i] + LockFor <= f[j]
        BY <1>2, <2>1, <3>1, <3>3, <4>1 DEF StreakIsLatest, l
      <4> QED
        BY <1>3, <2>1, <3>3, <4>2
    <3> QED
      BY <1>1, <3>2, <3>3
  <2> QED
    BY <1>6, <2>2, <2>3
<1>9. StreakIsLatest(b, g)
  BY <1>1, <1>3, <1>6, <1>7, <1>8 DEF StreakIsLatest
<1>10. \A i \in 1 .. l + 1 : g[i] <= pcNow
  BY <1>1, <1>2, <1>3
<1>11. Ordered(g)
  <2>1. ASSUME NEW i \in 1 .. l + 1, NEW j \in 1 .. l + 1, i <= j PROVE g[i] <= g[j]
    <3>1. CASE j = l + 1
      BY <1>3, <1>10, <3>1
    <3>2. CASE j \in 1 .. l
      <4>1. i \in 1 .. l
        BY <1>1, <2>1, <3>2
      <4> QED
        BY <1>2, <1>3, <2>1, <3>2, <4>1
    <3> QED
      BY <1>1, <3>1, <3>2
  <2> QED
    BY <1>3, <2>1 DEF Ordered
<1>12. Spaced(g, MaxFailed, LockFor)
  <2>1. ASSUME NEW i \in 1 .. (l + 1) - MaxFailed PROVE g[i] + LockFor <= g[i + MaxFailed]
    <3>1. CASE i \in 1 .. l - MaxFailed
      <4>1. i \in 1 .. l /\ i + MaxFailed \in 1 .. l
        BY <1>1, <3>1
      <4> QED
        BY <1>2, <1>3, <3>1, <4>1
    <3>2. CASE i = (l + 1) - MaxFailed
      <4>1. i \in 1 .. l + 1 /\ i + b.failed <= l + 1 /\ i + MaxFailed = l + 1
        BY <1>1, <1>7, <2>1, <3>2
      <4>2. l + 1 \in 1 .. l + 1 /\ (l + 1) + b.failed > l + 1
        BY <1>1, <1>7
      <4> QED
        BY <1>8, <4>1, <4>2
    <3> QED
      BY <1>1, <3>1, <3>2
  <2>2. Len(g) - MaxFailed = (l + 1) - MaxFailed
    BY <1>1, <1>3
  <2> QED
    BY <2>1, <2>2 DEF Spaced
<1> QED
  BY <1>1, <1>3, <1>6, <1>9, <1>10, <1>11, <1>12 DEF AttemptsInv, a, b, c, f, g

(* The records and their two names: a record that opened a session is no   *)
(* longer in the token map, one that is not in the token map is not found  *)
(* by its code either, and one that left it unused has expired.            *)
RecordsInv ==
  /\ pcNow \in 1 .. MaxPairingNow
  /\ pcRecords \in Seq([code: Codes, expires: Nat, timer: BOOLEAN])
  /\ pcGranted \in Seq(Nat) /\ Len(pcGranted) = Len(pcRecords)
  /\ pcTokens \subseteq 1 .. Len(pcRecords)
  /\ pcCodes \in [Codes -> 0 .. Len(pcRecords)]
  /\ \A c \in Codes : pcCodes[c] # 0 => pcRecords[pcCodes[c]].code = c
  /\ \A g \in 1 .. Len(pcRecords) :
       /\ pcGranted[g] = 0 \/ (pcGranted[g] = 1 /\ g \notin pcTokens)
       /\ pcCodes[pcRecords[g].code] = g => g \in pcTokens
       /\ (pcGranted[g] = 0 /\ pcNow <= pcRecords[g].expires) => g \in pcTokens

LEMMA RecordsAreTyped ==
    ASSUME RecordsInv
    PROVE  /\ pcNow \in Nat /\ Len(pcRecords) \in Nat
           /\ pcRecords \in Seq([code: Codes, expires: Nat, timer: BOOLEAN])
           /\ \A g \in 1 .. Len(pcRecords) :
                /\ pcRecords[g] \in [code: Codes, expires: Nat, timer: BOOLEAN]
                /\ pcRecords[g].code \in Codes /\ pcRecords[g].expires \in Nat
                /\ pcGranted[g] \in Nat
                /\ pcCodes[pcRecords[g].code] \in 0 .. Len(pcRecords)
<1>1. /\ pcRecords \in Seq([code: Codes, expires: Nat, timer: BOOLEAN])
      /\ pcGranted \in Seq(Nat) /\ Len(pcGranted) = Len(pcRecords) /\ pcNow \in 1 .. MaxPairingNow
      /\ pcCodes \in [Codes -> 0 .. Len(pcRecords)] /\ MaxPairingNow \in Nat
  BY PairingAssumption DEF RecordsInv
<1>2. \A g \in 1 .. Len(pcRecords) : pcRecords[g] \in [code: Codes, expires: Nat, timer: BOOLEAN]
  <2> DEFINE Record == [code: Codes, expires: Nat, timer: BOOLEAN]
  <2>1. pcRecords \in Seq(Record)
    BY <1>1
  <2> SUFFICES \A g \in 1 .. Len(pcRecords) : pcRecords[g] \in Record
    OBVIOUS
  <2> HIDE DEF Record
  <2> QED
    BY <2>1
<1> QED
  BY <1>1, <1>2

LEMMA GenerateKeepsRecords ==
    ASSUME RecordsInv, NEW c \in Codes, GenerateCode(c) PROVE RecordsInv'
<1> DEFINE n == Len(pcRecords)
           record == [code |-> c, expires |-> pcNow + CodeTTL, timer |-> TRUE]
<1>1. CodeTTL \in Nat /\ pcNow \in Nat /\ n \in Nat /\ Len(pcGranted) = n
  BY PairingAssumption, RecordsAreTyped DEF RecordsInv
<1>2. /\ pcNow' = pcNow /\ pcTokens' = pcTokens \cup {n + 1}
      /\ pcRecords' = Append(pcRecords, record) /\ pcGranted' = Append(pcGranted, 0)
      /\ pcCodes' = [pcCodes EXCEPT ![c] = n + 1]
  BY DEF GenerateCode
<1>3. record \in [code: Codes, expires: Nat, timer: BOOLEAN]
  BY <1>1
<1>4. /\ pcRecords' \in Seq([code: Codes, expires: Nat, timer: BOOLEAN])
      /\ Len(pcRecords') = n + 1 /\ pcRecords'[n + 1] = record
      /\ \A g \in 1 .. n : pcRecords'[g] = pcRecords[g]
  <2> HIDE DEF record
  <2> QED
    BY <1>1, <1>2, <1>3 DEF RecordsInv
<1>5. /\ pcGranted' \in Seq(Nat) /\ Len(pcGranted') = n + 1 /\ pcGranted'[n + 1] = 0
      /\ \A g \in 1 .. n : pcGranted'[g] = pcGranted[g]
  BY <1>1, <1>2 DEF RecordsInv
<1>6. pcCodes' \in [Codes -> 0 .. n + 1] /\ pcCodes'[c] = n + 1
      /\ \A d \in Codes \ {c} : pcCodes'[d] = pcCodes[d] /\ pcCodes[d] \in 0 .. n
  BY <1>1, <1>2 DEF RecordsInv
<1>7. \A d \in Codes : pcCodes'[d] # 0 => pcRecords'[pcCodes'[d]].code = d
  <2>1. ASSUME NEW d \in Codes \ {c}, pcCodes'[d] # 0 PROVE pcRecords'[pcCodes'[d]].code = d
    <3>1. pcCodes'[d] \in 1 .. n /\ pcRecords[pcCodes'[d]].code = d
      BY <1>1, <1>6, <2>1 DEF RecordsInv
    <3> QED
      BY <1>4, <3>1
  <2> QED
    BY <1>4, <1>6, <2>1
<1>8. ASSUME NEW g \in 1 .. n + 1
      PROVE  /\ pcGranted'[g] = 0 \/ (pcGranted'[g] = 1 /\ g \notin pcTokens')
             /\ pcCodes'[pcRecords'[g].code] = g => g \in pcTokens'
             /\ (pcGranted'[g] = 0 /\ pcNow' <= pcRecords'[g].expires) => g \in pcTokens'
  <2>1. CASE g = n + 1
    BY <1>2, <1>5, <2>1
  <2>2. CASE g \in 1 .. n
    <3>1. pcRecords[g].code \in Codes /\ g # n + 1
      BY <1>1, <2>2, RecordsAreTyped
    <3>2. pcCodes'[pcRecords[g].code] = g => pcCodes[pcRecords[g].code] = g
      BY <1>6, <3>1
    <3> QED
      BY <1>2, <1>4, <1>5, <2>2, <3>1, <3>2 DEF RecordsInv
  <2> QED
    BY <1>1, <2>1, <2>2
<1>9. pcNow' \in 1 .. MaxPairingNow /\ pcTokens' \subseteq 1 .. n + 1
  <2>1. pcNow \in 1 .. MaxPairingNow /\ pcTokens \subseteq 1 .. n
    BY DEF RecordsInv
  <2> HIDE DEF n
  <2> QED
    BY <1>1, <1>2, <2>1
<1> HIDE DEF n, record
<1> QED
  BY <1>4, <1>5, <1>6, <1>7, <1>8, <1>9 DEF RecordsInv

(* Destroying a record under both names, with the session it may open.     *)
LEMMA DestroyKeepsRecords ==
    ASSUME RecordsInv, NEW g \in 1 .. Len(pcRecords), Destroy(g), pcNow' = pcNow,
           pcRecords' = pcRecords,
           \/ pcGranted' = pcGranted /\ pcNow > pcRecords[g].expires
           \/ /\ pcGranted' = [pcGranted EXCEPT ![g] = @ + 1]
              /\ pcCodes[pcRecords[g].code] = g \/ g \in pcTokens
    PROVE  RecordsInv'
<1>1. pcRecords[g] \in [code: Codes, expires: Nat, timer: BOOLEAN] /\ pcNow \in Nat
  BY RecordsAreTyped
<1>2. /\ pcTokens' = pcTokens \ {g}
      /\ pcCodes' = [pcCodes EXCEPT ![pcRecords[g].code] = 0]
  BY DEF Destroy, None
<1>3. /\ pcCodes' \in [Codes -> 0 .. Len(pcRecords)]
      /\ \A c \in Codes : pcCodes'[c] = 0 \/ pcCodes'[c] = pcCodes[c]
      /\ pcCodes'[pcRecords[g].code] = 0
  BY <1>1, <1>2 DEF RecordsInv
<1>4. /\ pcGranted' \in Seq(Nat) /\ Len(pcGranted') = Len(pcRecords)
      /\ \A i \in 1 .. Len(pcRecords) : i # g => pcGranted'[i] = pcGranted[i]
  <2>1. /\ pcGranted \in Seq(Nat) /\ Len(pcGranted) = Len(pcRecords)
        /\ pcGranted' = pcGranted \/ pcGranted' = [pcGranted EXCEPT ![g] = @ + 1]
    BY DEF RecordsInv
  <2> QED
    BY <2>1
<1>5. \/ pcGranted'[g] = pcGranted[g] /\ pcNow > pcRecords[g].expires
      \/ pcGranted'[g] = 1
  <2>1. CASE pcGranted' = pcGranted /\ pcNow > pcRecords[g].expires
    BY <2>1
  <2>2. CASE /\ pcGranted' = [pcGranted EXCEPT ![g] = @ + 1]
             /\ pcCodes[pcRecords[g].code] = g \/ g \in pcTokens
    <3>1. pcGranted[g] = 0 /\ pcGranted \in Seq(Nat) /\ Len(pcGranted) = Len(pcRecords)
      BY <2>2 DEF RecordsInv
    <3> QED
      BY <2>2, <3>1
  <2> QED
    BY <2>1, <2>2
<1>6. ASSUME NEW i \in 1 .. Len(pcRecords)
      PROVE  /\ pcGranted'[i] = 0 \/ (pcGranted'[i] = 1 /\ i \notin pcTokens')
             /\ pcCodes'[pcRecords'[i].code] = i => i \in pcTokens'
             /\ (pcGranted'[i] = 0 /\ pcNow' <= pcRecords'[i].expires) => i \in pcTokens'
  <2>1. pcRecords[i].code \in Codes
    BY RecordsAreTyped
  <2>2. CASE i = g
    <3>1. ~(pcNow <= pcRecords[g].expires) \/ pcGranted'[g] = 1
      BY <1>1, <1>5
    <3> QED
      BY <1>2, <1>3, <1>5, <2>2, <3>1 DEF RecordsInv
  <2>3. CASE i # g
    <3>1. /\ pcGranted[i] = 0 \/ (pcGranted[i] = 1 /\ i \notin pcTokens)
          /\ pcCodes[pcRecords[i].code] = i => i \in pcTokens
          /\ (pcGranted[i] = 0 /\ pcNow <= pcRecords[i].expires) => i \in pcTokens
      BY DEF RecordsInv
    <3>2. pcCodes'[pcRecords[i].code] = i => pcCodes[pcRecords[i].code] = i
      BY <1>3, <2>1
    <3> QED
      BY <1>2, <1>4, <2>3, <3>1, <3>2
  <2> QED
    BY <2>2, <2>3
<1> QED
  BY <1>2, <1>3, <1>4, <1>6 DEF RecordsInv

(* A timer fires on a record that expired before.                          *)
LEMMA TimerKeepsRecords ==
    ASSUME RecordsInv, NEW g \in 1 .. Len(pcRecords), RecordTimer(g) PROVE RecordsInv'
<1> DEFINE n == Len(pcRecords)
<1>1. /\ pcRecords[g] \in [code: Codes, expires: Nat, timer: BOOLEAN] /\ pcNow \in Nat
      /\ Grace \in Nat /\ Grace > 0
  BY PairingAssumption, RecordsAreTyped
<1>2. /\ pcTokens' = pcTokens \ {g} /\ pcNow' = pcNow /\ pcGranted' = pcGranted
      /\ pcCodes' = [pcCodes EXCEPT ![pcRecords[g].code] = 0]
      /\ pcRecords' = [pcRecords EXCEPT ![g].timer = FALSE]
      /\ pcNow >= pcRecords[g].expires + Grace
  BY DEF RecordTimer, None
<1>3. ~(pcNow <= pcRecords[g].expires)
  BY <1>1, <1>2
<1>4. /\ pcCodes' \in [Codes -> 0 .. n]
      /\ \A c \in Codes : pcCodes'[c] = 0 \/ pcCodes'[c] = pcCodes[c]
      /\ pcCodes'[pcRecords[g].code] = 0
  BY <1>1, <1>2 DEF RecordsInv
<1>5. /\ pcRecords' \in Seq([code: Codes, expires: Nat, timer: BOOLEAN]) /\ Len(pcRecords') = n
      /\ \A i \in 1 .. n : /\ pcRecords'[i].code = pcRecords[i].code
                           /\ pcRecords'[i].expires = pcRecords[i].expires
  <2>1. /\ pcRecords \in Seq([code: Codes, expires: Nat, timer: BOOLEAN])
        /\ \A i \in 1 .. n : pcRecords[i] \in [code: Codes, expires: Nat, timer: BOOLEAN]
    BY RecordsAreTyped
  <2> DEFINE fired == [pcRecords[g] EXCEPT !.timer = FALSE]
  <2>2. fired \in [code: Codes, expires: Nat, timer: BOOLEAN]
        /\ fired.code = pcRecords[g].code /\ fired.expires = pcRecords[g].expires
    BY <1>1
  <2>3. pcRecords' = [pcRecords EXCEPT ![g] = fired]
    BY <1>2
  <2> HIDE DEF fired
  <2>4. /\ pcRecords' \in Seq([code: Codes, expires: Nat, timer: BOOLEAN]) /\ Len(pcRecords') = n
        /\ pcRecords'[g] = fired /\ \A i \in 1 .. n : i # g => pcRecords'[i] = pcRecords[i]
    BY <2>1, <2>2, <2>3
  <2> QED
    BY <2>2, <2>4
<1>6. ASSUME NEW c \in Codes, pcCodes'[c] # 0 PROVE pcRecords'[pcCodes'[c]].code = c
  <2>1. pcCodes'[c] = pcCodes[c] /\ pcCodes[c] \in 1 .. n
    BY <1>4, <1>6 DEF RecordsInv
  <2> QED
    BY <1>5, <1>6, <2>1 DEF RecordsInv
<1>7. ASSUME NEW i \in 1 .. n
      PROVE  /\ pcGranted'[i] = 0 \/ (pcGranted'[i] = 1 /\ i \notin pcTokens')
             /\ pcCodes'[pcRecords'[i].code] = i => i \in pcTokens'
             /\ (pcGranted'[i] = 0 /\ pcNow' <= pcRecords'[i].expires) => i \in pcTokens'
  <2>1. pcRecords[i].code \in Codes
    BY RecordsAreTyped
  <2>2. CASE i = g
    BY <1>2, <1>3, <1>4, <1>5, <2>2 DEF RecordsInv
  <2>3. CASE i # g
    BY <1>2, <1>4, <1>5, <2>1, <2>3 DEF RecordsInv
  <2> QED
    BY <2>2, <2>3
<1> QED
  BY <1>2, <1>4, <1>5, <1>6, <1>7 DEF RecordsInv

PcInv == RecordsInv /\ AttemptsInv

(* Two addresses' worth of steps: each keeps the records and the attempts. *)
LEMMA PcInvStep == PcInv /\ [PcNext]_pcVars => PcInv'
<1> SUFFICES ASSUME RecordsInv, AttemptsInv, [PcNext]_pcVars PROVE RecordsInv' /\ AttemptsInv'
  BY DEF PcInv
<1>1. ASSUME UNCHANGED <<pcNow, pcAddress, pcFailures>> PROVE AttemptsInv'
  BY <1>1 DEF AttemptsInv
<1>2. ASSUME UNCHANGED <<pcNow, pcRecords, pcCodes, pcTokens, pcGranted>> PROVE RecordsInv'
  BY <1>2 DEF RecordsInv
<1>3. ASSUME NEW c \in Codes, GenerateCode(c) PROVE RecordsInv' /\ AttemptsInv'
  BY <1>1, <1>3, GenerateKeepsRecords DEF GenerateCode
<1>4. DOMAIN pcRecords = 1 .. Len(pcRecords)
  BY DEF RecordsInv
<1>5. ASSUME NEW g \in DOMAIN pcRecords, RecordTimer(g) PROVE RecordsInv' /\ AttemptsInv'
  BY <1>1, <1>4, <1>5, TimerKeepsRecords DEF RecordTimer
<1>6. ASSUME NEW g \in DOMAIN pcRecords, VerifyRecord(g) PROVE RecordsInv' /\ AttemptsInv'
  <2>1. RecordsInv'
    BY <1>4, <1>6, DestroyKeepsRecords DEF VerifyRecord
  <2>2. CASE pcNow > pcRecords[g].expires
    BY <1>6, <2>1, <2>2, FailureKeepsAttempts DEF VerifyRecord
  <2>3. CASE ~(pcNow > pcRecords[g].expires)
    <3>1. pcAddress' = NoAttempts /\ pcFailures' = <<>> /\ pcNow' = pcNow
      BY <1>6, <2>3 DEF VerifyRecord
    <3>2. MaxFailed \in Nat /\ MaxFailed > 0
      BY PairingAssumption
    <3> QED
      BY <2>1, <3>1, <3>2 DEF AttemptsInv, NoAttempts, StreakIsLatest, Ordered, Spaced
  <2> QED
    BY <2>2, <2>3
<1>7. CASE VerifyUnknown
  BY <1>2, <1>7, FailureKeepsAttempts DEF VerifyUnknown
<1>8. CASE PairingTick
  <2>1. /\ pcNow' = pcNow + 1 /\ pcNow' \in 1 .. MaxPairingNow
        /\ UNCHANGED <<pcRecords, pcCodes, pcTokens, pcGranted, pcAddress, pcFailures>>
    BY <1>8, PairingAssumption DEF PairingTick, pcMaps, RecordsInv
  <2>2. RecordsInv'
    <3>1. \A g \in 1 .. Len(pcRecords) : pcNow + 1 <= pcRecords[g].expires => pcNow <= pcRecords[g].expires
      BY RecordsAreTyped
    <3> QED
      BY <2>1, <3>1 DEF RecordsInv
  <2>3. AttemptsInv'
    <3>1. \A i \in 1 .. Len(pcFailures) : pcFailures[i] <= pcNow + 1
      BY DEF AttemptsInv
    <3> QED
      BY <2>1, <3>1 DEF AttemptsInv
  <2> QED
    BY <2>2, <2>3
<1>9. CASE UNCHANGED pcVars
  BY <1>1, <1>2, <1>9 DEF pcVars
<1> QED
  BY <1>3, <1>5, <1>6, <1>7, <1>8, <1>9 DEF PcNext

(* A record opens one session, stands until it expires, and guesses at     *)
(* codes are few, for every number of codes, records and attempts.         *)
THEOREM PairingSoundCorrect == PcSpec => []PairingSound
<1>1. PcInit => PcInv
  <2> SUFFICES ASSUME PcInit PROVE RecordsInv /\ AttemptsInv
    BY DEF PcInv
  <2>1. 1 \in 1 .. MaxPairingNow /\ MaxFailed \in Nat /\ MaxFailed > 0
    BY PairingAssumption
  <2> QED
    BY <2>1 DEF PcInit, RecordsInv, AttemptsInv, None, NoAttempts, StreakIsLatest, Ordered, Spaced
<1>2. PcInv => PairingSound
  <2> SUFFICES ASSUME RecordsInv, AttemptsInv PROVE PairingSound
    BY DEF PcInv
  <2>1. PcTypeOK
    BY DEF RecordsInv, AttemptsInv, PcTypeOK, None
  <2>2. RecordOpensOneSession /\ UnusedTokenStands
    BY DEF RecordsInv, RecordOpensOneSession, UnusedTokenStands
  <2>3. GuessesBounded
    <3> SUFFICES ASSUME NEW t \in 1 .. pcNow
                 PROVE  Cardinality({i \in DOMAIN pcFailures :
                          pcFailures[i] >= t /\ pcFailures[i] < t + LockFor}) <= MaxFailed
      BY DEF GuessesBounded
    <3>1. MaxFailed \in Nat /\ MaxFailed > 0 /\ LockFor \in Nat
      BY PairingAssumption
    <3>2. pcFailures \in Seq(Nat) /\ Ordered(pcFailures) /\ t \in Nat
          /\ Spaced(pcFailures, MaxFailed, LockFor)
      BY DEF AttemptsInv
    <3> QED
      BY <3>1, <3>2, SpacedIsBounded
  <2> QED
    BY <2>1, <2>2, <2>3 DEF PairingSound
<1> QED
  BY <1>1, <1>2, PcInvStep, PTL DEF PcSpec

-----------------------------------------------------------------------------
(* Operator sessions *)

Session == [principal: Principals, created: Nat, expires: Nat, idle: Nat,
            revoked: BOOLEAN, audited: BOOLEAN]

(* The hard limit of a session is the one it was given.                    *)
LimitIsFixed(s) == s.expires = s.created + SessionTTL

(* An audit row is there for a session that is marked, and none is marked  *)
(* that was logged out or that could still be used.                        *)
AuditIsEarned(s, rows) ==
  /\ rows = IF s.audited THEN 1 ELSE 0
  /\ s.audited => ~s.revoked /\ (s.expires <= osNow \/ s.idle <= osNow)

(* The inductive invariant; sessions are numbered without a gap.           *)
OsInv ==
  /\ osNow \in Nat
  /\ \E m \in Nat : osSessions \in [1 .. m -> Session] /\ osExpired \in [1 .. m -> Nat]
  /\ \A id \in DOMAIN osSessions :
       LimitIsFixed(osSessions[id]) /\ AuditIsEarned(osSessions[id], osExpired[id])

(* Every step keeps the invariant and revives no session.                  *)
NoneRevived ==
  \A id \in SessionIds : ~ValidSession(osSessions[id]) => ~ValidSession(osSessions[id])'

LEMMA BootstrapKeepsSessions ==
    ASSUME OsInv, NEW p \in Principals, BootstrapSession(p) PROVE OsInv' /\ NoneRevived
<1>1. PICK m \in Nat : osSessions \in [1 .. m -> Session] /\ osExpired \in [1 .. m -> Nat]
  BY DEF OsInv
<1>2. DOMAIN osSessions = 1 .. m /\ Cardinality(1 .. m) = m
  <2>1. Cardinality(1 .. m) = m
    BY FS_Interval
  <2> QED
    BY <1>1, <2>1
<1>3. osNow \in Nat /\ SessionTTL \in Nat /\ SessionIdle \in Nat
  BY SessionAssumption DEF OsInv
<1> DEFINE session == [principal |-> p, created |-> osNow, expires |-> osNow + SessionTTL,
                       idle |-> osNow + SessionIdle, revoked |-> FALSE, audited |-> FALSE]
<1>4. session \in Session /\ LimitIsFixed(session) /\ ~session.audited
  BY <1>3 DEF Session, LimitIsFixed
<1>5. /\ osNow' = osNow
      /\ osSessions' = [i \in 1 .. m \cup {m + 1} |-> IF i # m + 1 THEN osSessions[i] ELSE session]
      /\ osExpired' = [i \in 1 .. m \cup {m + 1} |-> IF i = m + 1 THEN 0 ELSE osExpired[i]]
  BY <1>2 DEF BootstrapSession, SessionIds
<1> HIDE DEF session
<1>6. 1 .. m \cup {m + 1} = 1 .. m + 1 /\ m + 1 \in Nat /\ m + 1 \notin 1 .. m
  OBVIOUS
<1>7. /\ osSessions' \in [1 .. m + 1 -> Session] /\ osExpired' \in [1 .. m + 1 -> Nat]
      /\ osSessions'[m + 1] = session /\ osExpired'[m + 1] = 0
      /\ \A i \in 1 .. m : osSessions'[i] = osSessions[i] /\ osExpired'[i] = osExpired[i]
  BY <1>1, <1>4, <1>5, <1>6
<1>8. ASSUME NEW i \in 1 .. m + 1
      PROVE  LimitIsFixed(osSessions'[i]) /\ AuditIsEarned(osSessions'[i], osExpired'[i])
  <2>1. CASE i = m + 1
    BY <1>4, <1>7, <2>1 DEF AuditIsEarned
  <2>2. CASE i \in 1 .. m
    BY <1>2, <1>7, <2>2 DEF OsInv
  <2> QED
    BY <1>6, <2>1, <2>2
<1>9. OsInv'
  <2>1. DOMAIN osSessions' = 1 .. m + 1
    BY <1>7
  <2> QED
    BY <1>3, <1>5, <1>6, <1>7, <1>8, <2>1 DEF OsInv, AuditIsEarned
<1>10. NoneRevived
  BY <1>2, <1>5, <1>7 DEF NoneRevived, SessionIds, ValidSession
<1> QED
  BY <1>9, <1>10

(* A request or a logout changes one session that can be used.             *)
LEMMA UseKeepsSessions ==
    ASSUME OsInv, NEW id \in SessionIds, NEW s, ValidSession(osSessions[id]),
           s = Slid(osSessions[id]) \/ s = [Slid(osSessions[id]) EXCEPT !.revoked = TRUE],
           osSessions' = [osSessions EXCEPT ![id] = s], UNCHANGED <<osNow, osExpired>>
    PROVE  OsInv' /\ NoneRevived
<1>1. PICK m \in Nat : osSessions \in [1 .. m -> Session] /\ osExpired \in [1 .. m -> Nat]
  BY DEF OsInv
<1>2. id \in 1 .. m /\ osSessions[id] \in Session
  BY <1>1 DEF SessionIds
<1>3. osNow \in Nat /\ SessionIdle \in Nat
  BY SessionAssumption DEF OsInv
<1>4. /\ s \in Session /\ s.expires = osSessions[id].expires /\ s.created = osSessions[id].created
      /\ s.audited = osSessions[id].audited
  <2> DEFINE was == osSessions[id]
             slid == [was EXCEPT !.idle = osNow + SessionIdle]
             out == [slid EXCEPT !.revoked = TRUE]
  <2>1. s = slid \/ s = out
    BY DEF Slid
  <2>2. was \in Session /\ osNow + SessionIdle \in Nat
    BY <1>2, <1>3
  <2> HIDE DEF was
  <2>3. slid \in Session /\ slid.expires = was.expires /\ slid.created = was.created
        /\ slid.audited = was.audited
    BY <2>2 DEF Session
  <2> HIDE DEF slid
  <2>4. out \in Session /\ out.expires = slid.expires /\ out.created = slid.created
        /\ out.audited = slid.audited
    BY <2>3 DEF Session
  <2> HIDE DEF out
  <2> QED
    BY <2>1, <2>3, <2>4 DEF was
<1>5. /\ LimitIsFixed(osSessions[id]) /\ AuditIsEarned(osSessions[id], osExpired[id])
  BY DEF OsInv, SessionIds
<1>6. ~osSessions[id].audited
  BY <1>2, <1>3, <1>5 DEF AuditIsEarned, ValidSession, Session
<1>7. LimitIsFixed(s) /\ AuditIsEarned(s, osExpired[id])
  BY <1>4, <1>5, <1>6 DEF LimitIsFixed, AuditIsEarned
<1>8. osSessions' \in [1 .. m -> Session] /\ osSessions'[id] = s
      /\ \A i \in 1 .. m : i # id => osSessions'[i] = osSessions[i]
  BY <1>1, <1>2, <1>4
<1>9. OsInv'
  BY <1>1, <1>3, <1>7, <1>8 DEF OsInv, AuditIsEarned
<1>10. NoneRevived
  BY <1>1, <1>8 DEF NoneRevived, SessionIds, ValidSession
<1> QED
  BY <1>9, <1>10

LEMMA SweepKeepsSessions == ASSUME OsInv, SessionSweep PROVE OsInv' /\ NoneRevived
<1>1. PICK m \in Nat : osSessions \in [1 .. m -> Session] /\ osExpired \in [1 .. m -> Nat]
  BY DEF OsInv
<1>2. osNow' = osNow /\ osNow \in Nat /\ DOMAIN osSessions = 1 .. m
  BY <1>1 DEF SessionSweep, OsInv
<1>3. /\ osSessions' = [i \in 1 .. m |->
            IF Expirable(osSessions[i]) THEN [osSessions[i] EXCEPT !.audited = TRUE] ELSE osSessions[i]]
      /\ osExpired' = [i \in 1 .. m |-> osExpired[i] + (IF Expirable(osSessions[i]) THEN 1 ELSE 0)]
  BY <1>2 DEF SessionSweep, SessionIds
<1>4. ASSUME NEW i \in 1 .. m
      PROVE  /\ osSessions'[i] \in Session /\ osExpired'[i] \in Nat
             /\ LimitIsFixed(osSessions'[i]) /\ AuditIsEarned(osSessions'[i], osExpired'[i])
             /\ ValidSession(osSessions'[i]) => ValidSession(osSessions[i])
  <2>1. /\ osSessions[i] \in Session /\ osExpired[i] \in Nat
        /\ LimitIsFixed(osSessions[i]) /\ AuditIsEarned(osSessions[i], osExpired[i])
    BY <1>1, <1>2 DEF OsInv
  <2>2. CASE Expirable(osSessions[i])
    <3>1. /\ osSessions'[i] = [osSessions[i] EXCEPT !.audited = TRUE]
          /\ osExpired'[i] = osExpired[i] + 1
      BY <1>3, <2>2
    <3> DEFINE was == osSessions[i]
               marked == [was EXCEPT !.audited = TRUE]
    <3>2. was \in Session
      BY <2>1
    <3> HIDE DEF was
    <3>3. /\ marked \in Session /\ marked.audited /\ marked.created = was.created
          /\ marked.expires = was.expires /\ marked.idle = was.idle /\ marked.revoked = was.revoked
      BY <3>2 DEF Session
    <3> HIDE DEF marked
    <3>4. /\ osSessions'[i] = marked /\ LimitIsFixed(was) /\ AuditIsEarned(was, osExpired[i])
          /\ Expirable(was) /\ osExpired[i] \in Nat
      BY <2>1, <2>2, <3>1 DEF was, marked
    <3>5. osExpired'[i] = 1
      BY <3>1, <3>4 DEF AuditIsEarned, Expirable
    <3>6. LimitIsFixed(marked) /\ AuditIsEarned(marked, 1) /\ (ValidSession(marked) => ValidSession(was))
      BY <3>3, <3>4 DEF LimitIsFixed, AuditIsEarned, Expirable, ValidSession
    <3> QED
      BY <3>3, <3>4, <3>5, <3>6 DEF was
  <2>3. CASE ~Expirable(osSessions[i])
    BY <1>3, <2>1, <2>3
  <2> QED
    BY <2>2, <2>3
<1>5. osSessions' \in [1 .. m -> Session] /\ osExpired' \in [1 .. m -> Nat]
  BY <1>3, <1>4
<1>6. DOMAIN osSessions' = 1 .. m
  BY <1>5
<1>7. OsInv'
  BY <1>2, <1>4, <1>5, <1>6 DEF OsInv, AuditIsEarned
<1>8. NoneRevived
  BY <1>2, <1>4 DEF NoneRevived, SessionIds, ValidSession
<1> QED
  BY <1>7, <1>8

LEMMA OsInvStep == OsInv /\ [OsNext]_osVars => OsInv' /\ (osVars' = osVars \/ NoneRevived)
<1> SUFFICES ASSUME OsInv, [OsNext]_osVars PROVE OsInv' /\ (osVars' = osVars \/ NoneRevived)
  OBVIOUS
<1>1. ASSUME NEW p \in Principals, BootstrapSession(p) PROVE OsInv' /\ NoneRevived
  BY <1>1, BootstrapKeepsSessions
<1>2. ASSUME NEW p \in Principals, NEW id \in SessionIds, ManagementRequest(p, id)
      PROVE  OsInv' /\ NoneRevived
  <2>1. osSessions' = [osSessions EXCEPT ![id] = Slid(osSessions[id])]
        /\ ValidSession(osSessions[id]) /\ UNCHANGED <<osNow, osExpired>>
    BY <1>2 DEF ManagementRequest
  <2> QED
    BY <2>1, UseKeepsSessions
<1>3. ASSUME NEW p \in Principals, NEW id \in SessionIds, Logout(p, id)
      PROVE  OsInv' /\ NoneRevived
  <2>1. osSessions' = [osSessions EXCEPT ![id] = [Slid(osSessions[id]) EXCEPT !.revoked = TRUE]]
        /\ ValidSession(osSessions[id]) /\ UNCHANGED <<osNow, osExpired>>
    BY <1>3 DEF Logout
  <2> QED
    BY <2>1, UseKeepsSessions
<1>4. CASE SessionSweep
  BY <1>4, SweepKeepsSessions
<1>5. CASE SessionTick
  <2>1. osNow' = osNow + 1 /\ osNow \in Nat /\ UNCHANGED <<osSessions, osExpired>>
    BY <1>5 DEF SessionTick, OsInv
  <2>2. PICK m \in Nat : osSessions \in [1 .. m -> Session] /\ osExpired \in [1 .. m -> Nat]
    BY DEF OsInv
  <2>3. \A id \in DOMAIN osSessions : osSessions[id].expires \in Nat /\ osSessions[id].idle \in Nat
    BY <2>2 DEF Session
  <2>4. \A id \in DOMAIN osSessions :
          AuditIsEarned(osSessions[id], osExpired[id]) => AuditIsEarned(osSessions[id], osExpired[id])'
    BY <2>1, <2>3 DEF AuditIsEarned
  <2>5. OsInv'
    BY <2>1, <2>2, <2>4 DEF OsInv
  <2>6. NoneRevived
    BY <2>1, <2>3 DEF NoneRevived, SessionIds, ValidSession
  <2> QED
    BY <2>5, <2>6
<1>6. CASE UNCHANGED osVars
  BY <1>6 DEF osVars, OsInv, AuditIsEarned
<1> QED
  BY <1>1, <1>2, <1>3, <1>4, <1>5, <1>6 DEF OsNext

(* No session outlives its hard limit or comes back, and each expiry is    *)
(* audited once, for every number of principals, sessions and requests.    *)
THEOREM SessionsEndCorrect == OsSpec => SessionsEnd
<1>1. OsInit => OsInv
  <2> SUFFICES ASSUME OsInit PROVE OsInv
    OBVIOUS
  <2>1. osSessions \in [1 .. 0 -> Session] /\ osExpired \in [1 .. 0 -> Nat] /\ 0 \in Nat
    BY DEF OsInit
  <2> QED
    BY <2>1 DEF OsInit, OsInv
<1>2. OsInv => HardLimitHolds /\ ExpiryAuditedOnce
  <2> SUFFICES ASSUME OsInv, NEW id \in SessionIds
               PROVE  /\ ValidSession(osSessions[id]) => osNow < osSessions[id].created + SessionTTL
                      /\ osExpired[id] = (IF osSessions[id].audited THEN 1 ELSE 0)
                      /\ osSessions[id].audited => ~osSessions[id].revoked /\ ~ValidSession(osSessions[id])
    BY DEF HardLimitHolds, ExpiryAuditedOnce
  <2>1. PICK m \in Nat : osSessions \in [1 .. m -> Session]
    BY DEF OsInv
  <2>2. osSessions[id] \in Session /\ osNow \in Nat
    BY <2>1 DEF OsInv, SessionIds
  <2>3. osSessions[id].expires \in Nat /\ osSessions[id].idle \in Nat
    BY <2>2 DEF Session
  <2>4. LimitIsFixed(osSessions[id]) /\ AuditIsEarned(osSessions[id], osExpired[id])
    BY DEF OsInv, SessionIds
  <2> QED
    BY <2>2, <2>3, <2>4 DEF LimitIsFixed, AuditIsEarned, ValidSession
<1>3. OsInv /\ [OsNext]_osVars => [NoneRevived]_osVars
  BY OsInvStep
<1>4. OsSpec => [](HardLimitHolds /\ ExpiryAuditedOnce)
  BY <1>1, <1>2, OsInvStep, PTL DEF OsSpec
<1>5. OsSpec => EndedStaysEnded
  <2>1. OsInv /\ [OsNext]_osVars
          => [\A id \in SessionIds : ~ValidSession(osSessions[id]) => ~ValidSession(osSessions[id])']_osVars
    BY <1>3 DEF NoneRevived
  <2> QED
    BY <1>1, <2>1, OsInvStep, PTL DEF OsSpec, EndedStaysEnded
<1> QED
  BY <1>4, <1>5 DEF SessionsEnd

-----------------------------------------------------------------------------
(* Backup and restore *)

Files == [main: Int, wal: Int]

Stages == {"idle", "vacuum", "rename", "after", "moveMain", "moveWal", "publish", "check",
           "restored", "failed", "killed"}

BrTypes ==
  /\ brHub \in BOOLEAN /\ brDb \in Files /\ brCommits \in Nat
  /\ brImage \in Int /\ brPartial \in Int /\ brStage \in Int /\ brKept \in Files
  /\ brJob \in [pc: Stages, seen: Int, was: Files]

BackingUp  == brJob.pc \in {"vacuum", "rename", "after"}
InRestore  == brJob.pc \in {"moveMain", "moveWal", "publish", "check",
                            "restored", "failed", "killed"}

(* No file holds a state that was not committed.                           *)
OnlyCommitted ==
  /\ brImage <= brCommits /\ brPartial <= brCommits /\ brStage <= brCommits
  /\ brDb.main <= brCommits /\ brDb.wal <= brCommits
  /\ brKept.main <= brCommits /\ brKept.wal <= brCommits
  /\ brJob.was.main <= brCommits /\ brJob.was.wal <= brCommits

(* Backups run beside the Hub, which only goes forward meanwhile.          *)
BackupFollows ==
  BackingUp => brHub /\ brJob.seen <= Content(brDb) /\ ImageIsAState

(* Where the old files, the new image and the old log are at each stage of *)
(* a restore, with the Hub stopped.                                        *)
Same(a, b) == a.main = b.main /\ a.wal = b.wal

RestoreFollows ==
  /\ InRestore => ~brHub
  /\ brJob.pc \in {"moveMain", "moveWal", "publish"} => brStage = brJob.seen
  /\ brJob.pc \in {"moveMain", "moveWal"} => brKept.wal = Absent
  /\ At("moveMain") => Same(brDb, brJob.was)
  /\ At("moveWal") => 
       brDb.main = Absent /\ brDb.wal = brJob.was.wal /\ brKept.main = brJob.was.main
  /\ At("publish") =>
       brDb.main = Absent /\ brDb.wal = Absent /\ Same(brKept, brJob.was)
  /\ brJob.pc \in {"check", "restored"} =>
       brDb.main = brJob.seen /\ brDb.wal = Absent /\ Same(brKept, brJob.was)

(* The inductive invariant.                                                *)
BrInv == BrTypes /\ OnlyCommitted /\ BackupFollows /\ RestoreFollows /\ NothingIsLost

(* What is known of the job in the next state.                             *)
NextJob(pc, state, was) ==
  /\ brJob' \in [pc: Stages, seen: Int, was: Files]
  /\ brJob'.pc = pc /\ brJob'.seen = state
  /\ brJob'.was \in Files /\ Same(brJob'.was, was)

LEMMA GoesKeepsJob ==
    ASSUME BrTypes, NEW to \in Stages, BrGoes(to)
    PROVE  NextJob(to, brJob.seen, brJob.was)
  BY DEF BrTypes, BrGoes, NextJob, Same

LEMMA JobStarts ==
    ASSUME NEW pc \in Stages, NEW state \in Int, NEW was \in Files,
           brJob' = [pc |-> pc, seen |-> state, was |-> was]
    PROVE  NextJob(pc, state, was)
  BY DEF NextJob, Same

LEMMA JobEnds == ASSUME brJob' = NoJob PROVE NextJob("idle", -1, NoFiles)
<1>1. NoFiles \in Files /\ -1 \in Int /\ "idle" \in Stages
  BY DEF NoFiles, Files, Absent, Stages
<1>2. brJob' = [pc |-> "idle", seen |-> -1, was |-> NoFiles]
  BY DEF NoJob, Absent
<1> QED
  BY <1>1, <1>2, JobStarts

LEMMA FilesAreTyped ==
    ASSUME BrTypes
    PROVE  /\ brDb.main \in Int /\ brDb.wal \in Int /\ brKept.main \in Int /\ brKept.wal \in Int
           /\ brJob.was.main \in Int /\ brJob.was.wal \in Int /\ brJob.seen \in Int
           /\ brJob.was \in Files /\ brCommits \in Nat
           /\ Content(brDb) = (IF brDb.wal # -1 THEN brDb.wal ELSE brDb.main) /\ Content(brDb) \in Int
  BY DEF BrTypes, Files, Content, Absent


LEMMA HubKeepsBackups ==
    ASSUME BrInv,
           HubCommits \/ HubCheckpoints \/ HubStops \/ HubRestarts
    PROVE  BrInv'
<1> USE FilesAreTyped
<1> USE DEF BrInv, BrTypes, OnlyCommitted, BackupFollows, RestoreFollows, NothingIsLost,
            ImageIsAState, BackingUp, InRestore, Restoring, At, Absent, NoFiles, Same, Files, Stages
<1>1. CASE HubCommits
  <2>1. brHub /\ brDb'.main = brDb.main /\ brDb'.wal = brCommits + 1 /\ brDb' \in Files
    BY <1>1 DEF HubCommits
  <2>2. brCommits' = brCommits + 1
    BY <1>1 DEF HubCommits
  <2>3. UNCHANGED <<brHub, brImage, brPartial, brStage, brKept, brJob>>
    BY <1>1 DEF HubCommits
  <2>4. BrTypes' /\ OnlyCommitted'
    BY <2>1, <2>2, <2>3 DEF Content, NextJob
  <2>5. BackupFollows' /\ RestoreFollows' /\ NothingIsLost'
    BY <2>1, <2>2, <2>3 DEF Content, NextJob
  <2> QED
    BY <2>4, <2>5
<1>2. CASE HubCheckpoints
  <2>1. brHub /\ brDb'.main = Content(brDb) /\ brDb'.wal = -1 /\ brDb' \in Files
    BY <1>2 DEF HubCheckpoints, Checkpointed
  <2>2. UNCHANGED <<brHub, brCommits, brImage, brPartial, brStage, brKept, brJob>>
    BY <1>2 DEF HubCheckpoints, Checkpointed
  <2>3. BrTypes' /\ OnlyCommitted'
    BY <2>1, <2>2 DEF Content, NextJob
  <2>4. BackupFollows' /\ RestoreFollows' /\ NothingIsLost'
    BY <2>1, <2>2 DEF Content, NextJob
  <2> QED
    BY <2>3, <2>4
<1>3. CASE HubStops
  <2>1. brHub /\ brHub' = FALSE /\ NextJob("idle", -1, NoFiles)
    BY <1>3, JobEnds DEF HubStops, Checkpointed
  <2>2. brDb' = brDb \/ (brDb'.main = Content(brDb) /\ brDb'.wal = -1 /\ brDb' \in Files)
    BY <1>3 DEF HubStops, Checkpointed
  <2>3. UNCHANGED <<brCommits, brImage, brPartial, brStage, brKept>>
    BY <1>3 DEF HubStops, Checkpointed
  <2>4. BrTypes' /\ OnlyCommitted'
    <3>1. brDb' \in Files /\ brDb'.main <= brCommits /\ brDb'.wal <= brCommits
      BY <2>2 DEF Content
    <3>2. BrTypes'
      BY <2>1, <2>3, <3>1 DEF NextJob
    <3>3. OnlyCommitted'
      BY <2>1, <2>3, <3>1 DEF NextJob
    <3> QED
      BY <3>2, <3>3
  <2>5. BackupFollows' /\ RestoreFollows' /\ NothingIsLost'
    BY <2>1, <2>2, <2>3 DEF Content, NextJob
  <2> QED
    BY <2>4, <2>5
<1>4. CASE HubRestarts
  <2>1. brHub' = TRUE /\ brJob.pc = "idle"
    BY <1>4 DEF HubRestarts
  <2>2. UNCHANGED <<brDb, brCommits, brImage, brPartial, brStage, brKept, brJob>>
    BY <1>4 DEF HubRestarts
  <2>3. BrTypes' /\ OnlyCommitted'
    BY <2>1, <2>2 DEF Content, NextJob
  <2>4. BackupFollows' /\ RestoreFollows' /\ NothingIsLost'
    BY <2>1, <2>2 DEF Content, NextJob
  <2> QED
    BY <2>3, <2>4
<1> QED
  BY <1>1, <1>2, <1>3, <1>4

LEMMA BackupKeepsBackups ==
    ASSUME BrInv,
           BackupBegins \/ BackupVacuums \/ BackupPublishes \/ BackupReturns \/ BackupFails \/ ImageRemoved
    PROVE  BrInv'
<1> USE FilesAreTyped
<1> USE DEF BrInv, BrTypes, OnlyCommitted, BackupFollows, RestoreFollows, NothingIsLost,
            ImageIsAState, BackingUp, InRestore, Restoring, At, Absent, NoFiles, Same, Files, Stages
<1>1. CASE BackupBegins
  <2>1. brHub /\ NextJob("vacuum", Content(brDb), NoFiles)
    <3>1. brHub /\ brJob' = [pc |-> "vacuum", seen |-> Content(brDb), was |-> NoFiles]
      BY <1>1 DEF BackupBegins, NoJob
    <3>2. NoFiles \in Files
      OBVIOUS
    <3> QED
      BY <3>1, <3>2, JobStarts
  <2>2. UNCHANGED <<brHub, brDb, brCommits, brImage, brPartial, brStage, brKept>>
    BY <1>1 DEF BackupBegins
  <2>3. BrTypes' /\ OnlyCommitted'
    BY <2>1, <2>2 DEF Content, NextJob
  <2>4. BackupFollows' /\ RestoreFollows' /\ NothingIsLost'
    BY <2>1, <2>2 DEF Content, NextJob
  <2> QED
    BY <2>3, <2>4
<1>2. CASE BackupVacuums
  <2>1. brJob.pc = "vacuum" /\ NextJob("rename", brJob.seen, brJob.was)
    BY <1>2, GoesKeepsJob DEF BackupVacuums
  <2>2. brPartial' = Content(brDb)
    BY <1>2 DEF BackupVacuums
  <2>3. UNCHANGED <<brHub, brDb, brCommits, brImage, brStage, brKept>>
    BY <1>2 DEF BackupVacuums
  <2>4. BrTypes' /\ OnlyCommitted'
    BY <2>1, <2>2, <2>3 DEF Content, NextJob
  <2>5. BackupFollows' /\ RestoreFollows' /\ NothingIsLost'
    BY <2>1, <2>2, <2>3 DEF Content, NextJob
  <2> QED
    BY <2>4, <2>5
<1>3. CASE BackupPublishes
  <2>1. brJob.pc = "rename" /\ NextJob("after", brJob.seen, brJob.was)
    BY <1>3, GoesKeepsJob DEF BackupPublishes
  <2>2. brImage' = brPartial /\ brPartial' = -1
    BY <1>3 DEF BackupPublishes
  <2>3. UNCHANGED <<brHub, brDb, brCommits, brStage, brKept>>
    BY <1>3 DEF BackupPublishes
  <2>4. BrTypes' /\ OnlyCommitted'
    BY <2>1, <2>2, <2>3 DEF Content, NextJob
  <2>5. BackupFollows' /\ RestoreFollows' /\ NothingIsLost'
    BY <2>1, <2>2, <2>3 DEF Content, NextJob
  <2> QED
    BY <2>4, <2>5
<1>4. CASE BackupReturns
  <2>1. NextJob("idle", -1, NoFiles)
    BY <1>4, JobEnds DEF BackupReturns
  <2>2. UNCHANGED <<brHub, brDb, brCommits, brImage, brPartial, brStage, brKept>>
    BY <1>4 DEF BackupReturns
  <2>3. BrTypes' /\ OnlyCommitted'
    BY <2>1, <2>2 DEF Content, NextJob
  <2>4. BackupFollows' /\ RestoreFollows' /\ NothingIsLost'
    BY <2>1, <2>2 DEF Content, NextJob
  <2> QED
    BY <2>3, <2>4
<1>5. CASE BackupFails
  <2>1. NextJob("idle", -1, NoFiles)
    BY <1>5, JobEnds DEF BackupFails
  <2>2. brPartial' = -1
    BY <1>5 DEF BackupFails
  <2>3. UNCHANGED <<brHub, brDb, brCommits, brImage, brStage, brKept>>
    BY <1>5 DEF BackupFails
  <2>4. BrTypes' /\ OnlyCommitted'
    BY <2>1, <2>2, <2>3 DEF Content, NextJob
  <2>5. BackupFollows' /\ RestoreFollows' /\ NothingIsLost'
    BY <2>1, <2>2, <2>3 DEF Content, NextJob
  <2> QED
    BY <2>4, <2>5
<1>6. CASE ImageRemoved
  <2>1. brJob.pc = "idle"
    BY <1>6 DEF ImageRemoved
  <2>2. brImage' = -1
    BY <1>6 DEF ImageRemoved
  <2>3. UNCHANGED <<brHub, brDb, brCommits, brPartial, brStage, brKept, brJob>>
    BY <1>6 DEF ImageRemoved
  <2>4. BrTypes' /\ OnlyCommitted'
    BY <2>1, <2>2, <2>3 DEF Content, NextJob
  <2>5. BackupFollows' /\ RestoreFollows' /\ NothingIsLost'
    BY <2>1, <2>2, <2>3 DEF Content, NextJob
  <2> QED
    BY <2>4, <2>5
<1> QED
  BY <1>1, <1>2, <1>3, <1>4, <1>5, <1>6

LEMMA RestoreKeepsBackups ==
    ASSUME BrInv,
           RestoreStages \/ RestoreMovesMain \/ RestoreMovesWal \/ RestorePublishes \/ RestoreReturns \/ RestoreKilled
    PROVE  BrInv'
<1> USE FilesAreTyped
<1> USE DEF BrInv, BrTypes, OnlyCommitted, BackupFollows, RestoreFollows, NothingIsLost,
            ImageIsAState, BackingUp, InRestore, Restoring, At, Absent, NoFiles, Same, Files, Stages
<1>1. CASE RestoreStages
  <2>1. ~brHub /\ NextJob("moveMain", brImage, brDb)
    BY <1>1, JobStarts DEF RestoreStages
  <2>2. brStage' = brImage /\ brKept' \in Files /\ Same(brKept', NoFiles)
    BY <1>1 DEF RestoreStages
  <2>3. UNCHANGED <<brHub, brDb, brCommits, brImage, brPartial>>
    BY <1>1 DEF RestoreStages
  <2>4. BrTypes' /\ OnlyCommitted'
    BY <2>1, <2>2, <2>3 DEF Content, NextJob
  <2>5. BackupFollows' /\ RestoreFollows' /\ NothingIsLost'
    BY <2>1, <2>2, <2>3 DEF Content, NextJob
  <2> QED
    BY <2>4, <2>5
<1>2. CASE RestoreMovesMain
  <2>1. brJob.pc = "moveMain" /\ NextJob("moveWal", brJob.seen, brJob.was)
    BY <1>2, GoesKeepsJob DEF RestoreMovesMain
  <2>2. brKept' \in Files /\ brKept'.main = brDb.main /\ brKept'.wal = brKept.wal
    BY <1>2 DEF RestoreMovesMain
  <2>3. brDb' \in Files /\ brDb'.main = -1 /\ brDb'.wal = brDb.wal
    BY <1>2 DEF RestoreMovesMain
  <2>4. UNCHANGED <<brHub, brCommits, brImage, brPartial, brStage>>
    BY <1>2 DEF RestoreMovesMain
  <2>5. BrTypes' /\ OnlyCommitted'
    BY <2>1, <2>2, <2>3, <2>4 DEF Content, NextJob
  <2>6. BackupFollows' /\ RestoreFollows' /\ NothingIsLost'
    BY <2>1, <2>2, <2>3, <2>4 DEF Content, NextJob
  <2> QED
    BY <2>5, <2>6
<1>3. CASE RestoreMovesWal
  <2>1. brJob.pc = "moveWal" /\ NextJob("publish", brJob.seen, brJob.was)
    BY <1>3, GoesKeepsJob DEF RestoreMovesWal
  <2>2. brKept' \in Files /\ brKept'.main = brKept.main /\ brKept'.wal = brDb.wal
    BY <1>3 DEF RestoreMovesWal
  <2>3. brDb' \in Files /\ brDb'.main = brDb.main /\ brDb'.wal = -1
    BY <1>3 DEF RestoreMovesWal
  <2>4. UNCHANGED <<brHub, brCommits, brImage, brPartial, brStage>>
    BY <1>3 DEF RestoreMovesWal
  <2>5. BrTypes' /\ OnlyCommitted'
    BY <2>1, <2>2, <2>3, <2>4 DEF Content, NextJob
  <2>6. BackupFollows' /\ RestoreFollows' /\ NothingIsLost'
    BY <2>1, <2>2, <2>3, <2>4 DEF Content, NextJob
  <2> QED
    BY <2>5, <2>6
<1>4. CASE RestorePublishes
  <2>1. brJob.pc = "publish" /\ NextJob("check", brJob.seen, brJob.was)
    BY <1>4, GoesKeepsJob DEF RestorePublishes
  <2>2. brDb' \in Files /\ brDb'.main = brStage /\ brDb'.wal = brDb.wal /\ brStage' = -1
    BY <1>4 DEF RestorePublishes
  <2>3. UNCHANGED <<brHub, brCommits, brImage, brPartial, brKept>>
    BY <1>4 DEF RestorePublishes
  <2>4. BrTypes' /\ OnlyCommitted'
    BY <2>1, <2>2, <2>3 DEF Content, NextJob
  <2>5. BackupFollows' /\ RestoreFollows' /\ NothingIsLost'
    BY <2>1, <2>2, <2>3 DEF Content, NextJob
  <2> QED
    BY <2>4, <2>5
<1>5. CASE RestoreReturns
  <2>1. brJob.pc = "check" /\ NextJob("restored", brJob.seen, brJob.was)
    BY <1>5, GoesKeepsJob DEF RestoreReturns
  <2>2. UNCHANGED <<brHub, brDb, brCommits, brImage, brPartial, brStage, brKept>>
    BY <1>5 DEF RestoreReturns
  <2>3. BrTypes' /\ OnlyCommitted'
    BY <2>1, <2>2 DEF Content, NextJob
  <2>4. BackupFollows' /\ RestoreFollows' /\ NothingIsLost'
    BY <2>1, <2>2 DEF Content, NextJob
  <2> QED
    BY <2>3, <2>4
<1>6. CASE RestoreKilled
  <2>1. Restoring /\ NextJob("killed", brJob.seen, brJob.was)
    BY <1>6, GoesKeepsJob DEF RestoreKilled
  <2>2. UNCHANGED <<brHub, brDb, brCommits, brImage, brPartial, brStage, brKept>>
    BY <1>6 DEF RestoreKilled
  <2>3. BrTypes' /\ OnlyCommitted'
    BY <2>1, <2>2 DEF Content, NextJob
  <2>4. BackupFollows' /\ RestoreFollows' /\ NothingIsLost'
    BY <2>1, <2>2 DEF Content, NextJob
  <2> QED
    BY <2>3, <2>4
<1> QED
  BY <1>1, <1>2, <1>3, <1>4, <1>5, <1>6

LEMMA EndKeepsBackups ==
    ASSUME BrInv,
           RestoreFails \/ Acknowledged
    PROVE  BrInv'
<1> USE FilesAreTyped
<1> USE DEF BrInv, BrTypes, OnlyCommitted, BackupFollows, RestoreFollows, NothingIsLost,
            ImageIsAState, BackingUp, InRestore, Restoring, At, Absent, NoFiles, Same, Files, Stages
<1>1. CASE RestoreFails
  <2>1. Restoring /\ NextJob("failed", brJob.seen, brJob.was)
    BY <1>1, GoesKeepsJob DEF RestoreFails, PutBack
  <2>2. \/ UNCHANGED <<brDb, brKept>>
           \/ /\ brDb.main = -1 /\ brDb' \in Files /\ brKept' \in Files
              /\ \/ brDb'.main = brKept.main /\ brKept'.main = -1
                 \/ brDb'.main = -1 /\ brKept'.main = brKept.main
              /\ \/ brKept.wal # -1 /\ brDb'.wal = brKept.wal /\ brKept'.wal = -1
                 \/ brKept.wal = -1 /\ brDb'.wal = brDb.wal /\ brKept'.wal = -1
                 \/ brDb'.wal = brDb.wal /\ brKept'.wal = brKept.wal
    BY <1>1 DEF RestoreFails, PutBack
  <2>3. brStage' = -1
    BY <1>1 DEF RestoreFails, PutBack
  <2>4. UNCHANGED <<brHub, brCommits, brImage, brPartial>>
    BY <1>1 DEF RestoreFails, PutBack
  <2>5. BrTypes' /\ OnlyCommitted'
    BY <2>1, <2>2, <2>3, <2>4 DEF Content, NextJob
  <2>6. BackupFollows' /\ RestoreFollows' /\ NothingIsLost'
    BY <2>1, <2>2, <2>3, <2>4 DEF Content, NextJob
  <2> QED
    BY <2>5, <2>6
<1>2. CASE Acknowledged
  <2>1. NextJob("idle", -1, NoFiles)
    BY <1>2, JobEnds DEF Acknowledged
  <2>2. brDb' = brJob.was \/ brDb' = brDb
    BY <1>2 DEF Acknowledged
  <2>3. brStage' = -1 /\ brKept' \in Files /\ Same(brKept', NoFiles)
    BY <1>2 DEF Acknowledged
  <2>4. UNCHANGED <<brHub, brCommits, brImage, brPartial>>
    BY <1>2 DEF Acknowledged
  <2>5. BrTypes' /\ OnlyCommitted'
    BY <2>1, <2>2, <2>3, <2>4 DEF Content, NextJob
  <2>6. BackupFollows' /\ RestoreFollows' /\ NothingIsLost'
    BY <2>1, <2>2, <2>3, <2>4 DEF Content, NextJob
  <2> QED
    BY <2>5, <2>6
<1> QED
  BY <1>1, <1>2

(* An image is a committed state, a restore is its image and nothing of    *)
(* the old database is lost, for every number of commits, backups and      *)
(* restores and wherever each of them stops.                               *)
THEOREM BackupSoundCorrect == BrSpec => []BackupSound
<1>1. BrInit => BrInv
  <2> SUFFICES ASSUME BrInit PROVE BrInv
    OBVIOUS
  <2>1. NoFiles \in Files /\ brJob = [pc |-> "idle", seen |-> -1, was |-> NoFiles]
        /\ brDb \in Files /\ brJob.was.main = -1 /\ brJob.was.wal = -1
    BY DEF BrInit, NoFiles, NoJob, Absent, Files
  <2> QED
    BY <2>1 DEF BrInit, BrInv, BrTypes, Stages, Files, OnlyCommitted, BackupFollows, RestoreFollows,
                NothingIsLost, BackingUp, InRestore, Restoring, At, Absent, NoFiles
<1>2. BrInv => BackupSound
  BY DEF BrInv, BrTypes, Files, BackupFollows, RestoreFollows, BackupSound, ImageIsAState,
         RestoredIsTheBackup, BackingUp, At, Content
<1>3. BrInv /\ [BrNext]_brVars => BrInv'
  <2> SUFFICES ASSUME BrInv, [BrNext]_brVars PROVE BrInv'
    OBVIOUS
  <2>1. CASE UNCHANGED brVars
    BY <2>1 DEF brVars, BrInv, BrTypes, OnlyCommitted, BackupFollows, RestoreFollows, NothingIsLost,
                ImageIsAState, BackingUp, InRestore, Restoring, At, Content
  <2> QED
    BY <2>1, HubKeepsBackups, BackupKeepsBackups, RestoreKeepsBackups, EndKeepsBackups DEF BrNext
<1> QED
  BY <1>1, <1>2, <1>3, PTL DEF BrSpec

-----------------------------------------------------------------------------
(* Upgrade runners *)

Owners == Runners \cup {NoRunner}
CheckNames == UNION {Steps[i].names : i \in 1 .. Len(Steps)}

Reports == [by: Owners \cup {"torn"}, done: 0 .. Len(Steps), failed: SUBSET CheckNames,
            snapshot: Owners, valid: BOOLEAN]

RunStages == {"idle", "snapshot", "identity", "override", "bind", "build", "probe", "tls",
              "checking", "finalize", "writing", "done", "aborted"}

Runs == [pc: RunStages, kind: {"candidate", "verify"}, token: Owners, ca: Owners,
         ev: Reports, saw: SUBSET Owners, crowded: BOOLEAN]

(* What a runner holds: evidence of its own, a snapshot only of its own,   *)
(* failures only of the last step it ran, and sights of the stack with its *)
(* own token only, at least one once a step has run.                       *)
RunInv(w, r) ==
  /\ r \in Runs
  /\ r.pc \notin {"idle", "done", "aborted"} => r.ev.by = w
  /\ r.ev.snapshot # NoRunner => r.ev.snapshot = w /\ r.ev.by = w
  /\ r.pc \notin {"checking", "finalize", "writing", "done"} => r.ev.failed = {}
  /\ r.pc = "checking" /\ r.ev.failed # {} => r.ev.failed \subseteq Steps[r.ev.done].names
  /\ r.ev.done > 0 => r.saw # {}
  /\ ~r.crowded => r.saw \subseteq {r.token}

(* The stack a runner checks carries its token until another starts one.   *)
OnItsStack(r) == r.pc \in {"tls", "checking"} /\ ~r.crowded => upStack.dsh = r.token

FilesInv ==
  /\ upFiles \in [override: Owners, cert: Owners, manifest: SUBSET Manifests, evidence: Reports]
  /\ upFiles.manifest = {} \/ \E m \in Manifests : upFiles.manifest = {m}
  /\ upFiles.evidence.snapshot # NoRunner => upFiles.evidence.snapshot = upFiles.evidence.by
  /\ upStack \in [dsh: Owners, gateway: Owners]

(* The inductive invariant.                                                *)
UpInv ==
  /\ FilesInv
  /\ upRuns \in [Runners -> Runs]
  /\ \A w \in Runners : RunInv(w, upRuns[w]) /\ OnItsStack(upRuns[w])

LEMMA StepsAreKnown ==
  /\ Len(Steps) = 7 /\ Steps[1].via = "fetch"
  /\ \A i \in 1 .. 7 : Steps[i].names \subseteq CheckNames
  /\ {"globalPatch"} \subseteq CheckNames /\ {"runtimeReadiness"} \subseteq CheckNames
<1>1. Len(Steps) = 7 /\ Steps[1].via = "fetch"
      /\ "runtimeReadiness" \in Steps[1].names /\ "globalPatch" \in Steps[2].names
  BY DEF Steps
<1>2. \A i \in 1 .. 7 : Steps[i].names \subseteq CheckNames
  BY <1>1 DEF CheckNames
<1>3. 1 \in 1 .. 7 /\ 2 \in 1 .. 7
  OBVIOUS
<1> QED
  BY <1>1, <1>2, <1>3

LEMMA BlanksAreTyped ==
  /\ NoReport \in Reports /\ NoRun \in Runs
  /\ NoReport.done = 0 /\ NoReport.failed = {} /\ NoReport.snapshot = NoRunner
  /\ NoRun.ev = NoReport /\ NoRun.saw = {} /\ NoRun.crowded = FALSE /\ NoRun.pc = "idle"
<1>1. NoReport \in Reports
  <2>1. 0 \in 0 .. Len(Steps) /\ NoRunner \in Owners \cup {"torn"} /\ NoRunner \in Owners
        /\ {} \in SUBSET CheckNames
    BY StepsAreKnown DEF Owners
  <2> QED
    BY <2>1 DEF NoReport, Reports
<1>2. NoRun \in Runs
  <2>1. NoRunner \in Owners /\ "idle" \in RunStages /\ {} \in SUBSET Owners
    BY DEF Owners, RunStages
  <2> QED
    BY <1>1, <2>1 DEF NoRun, Runs
<1> QED
  BY <1>1, <1>2 DEF NoReport, NoRun

(* A step of one runner that leaves the stack alone.                       *)
LEMMA OneRunMoves ==
    ASSUME UpInv, NEW w \in Runners, NEW r, upRuns' = [upRuns EXCEPT ![w] = r],
           RunInv(w, r), OnItsStack(r), upStack' = upStack, FilesInv'
    PROVE  UpInv'
<1>0. r \in Runs
  BY DEF RunInv
<1>1. /\ upRuns' \in [Runners -> Runs]
      /\ upRuns'[w] = r /\ \A v \in Runners : v # w => upRuns'[v] = upRuns[v]
  BY <1>0 DEF UpInv
<1>2. ASSUME NEW v \in Runners PROVE RunInv(v, upRuns'[v]) /\ OnItsStack(upRuns'[v])
  BY <1>1 DEF UpInv
<1>3. \A v \in Runners : OnItsStack(upRuns'[v]) => OnItsStack(upRuns[v])'
  BY DEF OnItsStack
<1> QED
  BY <1>1, <1>2, <1>3 DEF UpInv

(* Moving on to another stage.                                             *)
LEMMA RunGoesOn ==
    ASSUME UpInv, NEW w \in Runners, NEW from, NEW to \in RunStages, Goes(w, from, to),
           upStack' = upStack, FilesInv',
           from \notin {"idle", "done", "aborted"},
           to \notin {"checking", "finalize", "writing", "done"} => upRuns[w].ev.failed = {},
           to # "checking",
           to = "tls" => upStack.dsh = upRuns[w].token
    PROVE  UpInv'
<1> DEFINE r == upRuns[w]
           s == [r EXCEPT !.pc = to]
<1>1. RunInv(w, r) /\ r.pc = from /\ upRuns' = [upRuns EXCEPT ![w] = s]
  BY DEF UpInv, Goes, Step
<1> HIDE DEF r
<1>2. /\ s \in Runs /\ s.pc = to /\ s.kind = r.kind /\ s.token = r.token /\ s.ca = r.ca
      /\ s.ev = r.ev /\ s.saw = r.saw /\ s.crowded = r.crowded
  BY <1>1 DEF RunInv, Runs
<1> HIDE DEF s
<1>3. RunInv(w, s)
  BY <1>1, <1>2 DEF RunInv, r
<1>4. OnItsStack(s)
  BY <1>2 DEF OnItsStack, r
<1> QED
  BY <1>1, <1>3, <1>4, OneRunMoves

(* The commands begin.                                                     *)
LEMMA StartKeepsRuns ==
    ASSUME UpInv, NEW w \in Runners, StartCandidate(w) \/ StartVerify(w) PROVE UpInv'
<1>1. CASE StartCandidate(w)
  <2> DEFINE ev == [NoReport EXCEPT !.by = w, !.valid = TRUE]
             r == [NoRun EXCEPT !.pc = "snapshot", !.token = w, !.ev = ev]
  <2>1. /\ upRuns' = [upRuns EXCEPT ![w] = r] /\ upStack' = upStack
        /\ upFiles' = [upFiles EXCEPT !.manifest = {}]
    BY <1>1 DEF StartCandidate, Step
  <2>2. ev.by = w /\ ev.done = 0 /\ ev.failed = {} /\ ev.snapshot = NoRunner
    BY DEF NoReport
  <2>3. ev \in Reports
    BY BlanksAreTyped DEF Reports, Owners
  <2> HIDE DEF ev
  <2>4. r.pc = "snapshot" /\ r.ev = ev /\ r.saw = {}
    BY DEF NoRun
  <2>5. r \in Runs
    BY <2>3, BlanksAreTyped DEF Runs, RunStages, Owners
  <2> HIDE DEF r
  <2>6. RunInv(w, r) /\ OnItsStack(r)
    BY <2>2, <2>4, <2>5 DEF RunInv, OnItsStack
  <2>7. FilesInv'
    BY <2>1 DEF UpInv, FilesInv
  <2> QED
    BY <2>1, <2>6, <2>7, OneRunMoves
<1>2. CASE StartVerify(w)
  <2> DEFINE ev == [NoReport EXCEPT !.by = w]
             r == [NoRun EXCEPT !.pc = "bind", !.kind = "verify", !.token = upFiles.override, !.ev = ev]
  <2>1. upRuns' = [upRuns EXCEPT ![w] = r] /\ upStack' = upStack /\ upFiles' = upFiles
    BY <1>2 DEF StartVerify, Step
  <2>2. ev.by = w /\ ev.done = 0 /\ ev.failed = {} /\ ev.snapshot = NoRunner
    BY DEF NoReport
  <2>3. ev \in Reports
    BY BlanksAreTyped DEF Reports, Owners
  <2> HIDE DEF ev
  <2>4. r.pc = "bind" /\ r.ev = ev /\ r.saw = {}
    BY DEF NoRun
  <2>5. r \in Runs
    <3>1. upFiles.override \in Owners
      BY DEF UpInv, FilesInv
    <3> QED
      BY <2>3, <3>1, BlanksAreTyped DEF Runs, RunStages
  <2> HIDE DEF r
  <2>6. RunInv(w, r) /\ OnItsStack(r)
    BY <2>2, <2>4, <2>5 DEF RunInv, OnItsStack
  <2>7. FilesInv'
    BY <2>1 DEF UpInv, FilesInv
  <2> QED
    BY <2>1, <2>6, <2>7, OneRunMoves
<1> QED
  BY <1>1, <1>2

(* The snapshot, the gateway's identity and the override.                  *)
LEMMA FilesKeepRuns ==
    ASSUME UpInv, NEW w \in Runners,
           HookWrites(w) \/ SnapshotTaken(w) \/ SnapshotFails(w)
             \/ GenerateIdentity(w) \/ WriteOverride(w)
    PROVE  UpInv'
<1>1. CASE HookWrites(w)
  <2>1. PICK m \in Manifests : upFiles' = [upFiles EXCEPT !.manifest = {m}]
    BY <1>1 DEF HookWrites
  <2>2. FilesInv'
    BY <1>1, <2>1 DEF HookWrites, UpInv, FilesInv
  <2> QED
    BY <1>1, <2>2 DEF HookWrites, UpInv, OnItsStack
<1>2. CASE SnapshotTaken(w)
  <2>1. PICK m \in upFiles.manifest : Bound(m, w)
    BY <1>2 DEF SnapshotTaken
  <2>2. upFiles.manifest = {m} /\ m.id = w
    BY <2>1 DEF UpInv, FilesInv, Bound
  <2>3. (CHOOSE x \in upFiles.manifest : TRUE).id = w
    BY <2>2
  <2> DEFINE r == upRuns[w]
             ev == [r.ev EXCEPT !.snapshot = w]
             s == [r EXCEPT !.pc = "identity", !.ev = ev]
  <2>4. RunInv(w, r) /\ r.pc = "snapshot"
    BY <1>2 DEF UpInv, SnapshotTaken, Step
  <2>5. upRuns' = [upRuns EXCEPT ![w] = s] /\ upStack' = upStack /\ upFiles' = upFiles
    BY <1>2, <2>3, <2>4 DEF SnapshotTaken, Step, RunInv, Runs
  <2> HIDE DEF r
  <2>6. /\ ev \in Reports /\ ev.by = r.ev.by /\ ev.done = r.ev.done /\ ev.failed = r.ev.failed
        /\ ev.snapshot = w
    BY <2>4 DEF RunInv, Runs, Reports, Owners
  <2> HIDE DEF ev
  <2>7. /\ s \in Runs /\ s.pc = "identity" /\ s.ev = ev /\ s.saw = r.saw
        /\ s.token = r.token /\ s.crowded = r.crowded
    BY <2>4, <2>6 DEF RunInv, Runs, RunStages
  <2> HIDE DEF s
  <2>8. RunInv(w, s) /\ OnItsStack(s)
    BY <2>4, <2>6, <2>7 DEF RunInv, OnItsStack
  <2>9. FilesInv'
    BY <2>5 DEF UpInv, FilesInv
  <2> QED
    BY <2>5, <2>8, <2>9, OneRunMoves
<1>3. CASE SnapshotFails(w)
  <2>1. Goes(w, "snapshot", "identity") /\ upStack' = upStack /\ FilesInv'
    BY <1>3 DEF SnapshotFails, UpInv, FilesInv
  <2>2. upRuns[w].ev.failed = {} /\ "identity" \in RunStages
    BY <2>1 DEF UpInv, RunInv, Goes, Step, RunStages
  <2> QED
    BY <2>1, <2>2, RunGoesOn
<1>4. CASE GenerateIdentity(w)
  <2>1. Goes(w, "identity", "override") /\ upStack' = upStack /\ FilesInv'
    BY <1>4 DEF GenerateIdentity, UpInv, FilesInv, Owners
  <2>2. upRuns[w].ev.failed = {} /\ "override" \in RunStages
    BY <2>1 DEF UpInv, RunInv, Goes, Step, RunStages
  <2> QED
    BY <2>1, <2>2, RunGoesOn
<1>5. CASE WriteOverride(w)
  <2>1. Goes(w, "override", "bind") /\ upStack' = upStack /\ FilesInv'
    BY <1>5 DEF WriteOverride, UpInv, FilesInv, Owners
  <2>2. upRuns[w].ev.failed = {} /\ "bind" \in RunStages
    BY <2>1 DEF UpInv, RunInv, Goes, Step, RunStages
  <2> QED
    BY <2>1, <2>2, RunGoesOn
<1> QED
  BY <1>1, <1>2, <1>3, <1>4, <1>5

(* The stack is built and started.                                         *)
LEMMA StackKeepsRuns ==
    ASSUME UpInv, NEW w \in Runners,
           ResolveBinding(w) \/ BuildFails(w) \/ StartFails(w) \/ StartStack(w) \/ ProbeToken(w)
    PROVE  UpInv'
<1>1. CASE ResolveBinding(w)
  <2> DEFINE to == IF upRuns[w].kind = "verify" THEN "probe" ELSE "build"
  <2>1. Goes(w, "bind", to) /\ upStack' = upStack /\ FilesInv'
    BY <1>1 DEF ResolveBinding, UpInv, FilesInv
  <2>2. upRuns[w].ev.failed = {} /\ to \in RunStages /\ to \notin {"checking", "tls"}
    BY <2>1 DEF UpInv, RunInv, Goes, Step, RunStages
  <2> HIDE DEF to
  <2> QED
    BY <2>1, <2>2, RunGoesOn
<1>2. ASSUME NEW name \in CheckNames,
             Step(w, "build", [upRuns[w] EXCEPT !.pc = "finalize", !.ev.failed = {name}]),
             UNCHANGED <<upFiles, upStack>>
      PROVE  UpInv'
  <2> DEFINE r == upRuns[w]
             ev == [r.ev EXCEPT !.failed = {name}]
             s == [r EXCEPT !.pc = "finalize", !.ev = ev]
  <2>1. RunInv(w, r) /\ r.pc = "build"
    BY <1>2 DEF UpInv, Step
  <2>2. upRuns' = [upRuns EXCEPT ![w] = s] /\ upStack' = upStack /\ upFiles' = upFiles
    BY <1>2, <2>1 DEF Step, RunInv, Runs
  <2> HIDE DEF r
  <2>3. /\ ev \in Reports /\ ev.by = r.ev.by /\ ev.done = r.ev.done /\ ev.snapshot = r.ev.snapshot
    BY <2>1 DEF RunInv, Runs, Reports
  <2> HIDE DEF ev
  <2>4. /\ s \in Runs /\ s.pc = "finalize" /\ s.ev = ev /\ s.saw = r.saw
        /\ s.token = r.token /\ s.crowded = r.crowded
    BY <2>1, <2>3 DEF RunInv, Runs, RunStages
  <2> HIDE DEF s
  <2>5. RunInv(w, s) /\ OnItsStack(s)
    BY <2>1, <2>3, <2>4 DEF RunInv, OnItsStack
  <2>6. FilesInv'
    BY <2>2 DEF UpInv, FilesInv
  <2> QED
    BY <2>2, <2>5, <2>6, OneRunMoves
<1>3. CASE BuildFails(w)
  BY <1>2, <1>3, StepsAreKnown DEF BuildFails
<1>4. CASE StartFails(w)
  BY <1>2, <1>4, StepsAreKnown DEF StartFails
<1>5. CASE StartStack(w)
  <2>1. PICK dsh \in {upStack.dsh, upFiles.override}, gateway \in {upStack.gateway, upFiles.cert} :
          upStack' = [dsh |-> dsh, gateway |-> gateway]
    BY <1>5 DEF StartStack
  <2>2. upFiles' = upFiles /\ upRuns[w].pc = "build"
    BY <1>5 DEF StartStack
  <2>3. FilesInv'
    <3>1. dsh \in Owners /\ gateway \in Owners
      BY <2>1 DEF UpInv, FilesInv
    <3> QED
      BY <2>1, <2>2, <3>1 DEF UpInv, FilesInv
  <2> DEFINE moved(v) == IF v = w THEN [upRuns[w] EXCEPT !.pc = "probe"]
                         ELSE [upRuns[v] EXCEPT !.crowded =
                                 upRuns[v].crowded \/ upRuns[v].pc \in {"probe", "tls", "checking"}]
  <2>4. upRuns' = [v \in Runners |-> moved(v)]
    BY <1>5 DEF StartStack
  <2>5. ASSUME NEW v \in Runners PROVE RunInv(v, upRuns'[v]) /\ OnItsStack(upRuns[v])'
    <3> DEFINE r == upRuns[v]
               s == upRuns'[v]
    <3>1. RunInv(v, r) /\ r \in Runs /\ r.crowded \in BOOLEAN
      BY DEF UpInv, RunInv, Runs
    <3>2. CASE v = w
      <4>1. s = [r EXCEPT !.pc = "probe"] /\ r.pc = "build"
        BY <2>2, <2>4, <3>2
      <4> HIDE DEF r, s
      <4>2. /\ s \in Runs /\ s.pc = "probe" /\ s.ev = r.ev /\ s.saw = r.saw
            /\ s.token = r.token /\ s.crowded = r.crowded
        BY <3>1, <4>1 DEF Runs, RunStages
      <4>3. RunInv(v, s) /\ s.pc \notin {"tls", "checking"}
        BY <3>1, <4>1, <4>2 DEF RunInv
      <4> QED
        BY <4>3 DEF OnItsStack, s
    <3>3. CASE v # w
      <4>1. s = [r EXCEPT !.crowded = r.crowded \/ r.pc \in {"probe", "tls", "checking"}]
        BY <2>4, <3>3
      <4> HIDE DEF r, s
      <4>2. /\ s \in Runs /\ s.pc = r.pc /\ s.ev = r.ev /\ s.saw = r.saw /\ s.token = r.token
            /\ s.crowded = (r.crowded \/ r.pc \in {"probe", "tls", "checking"})
        BY <3>1, <4>1 DEF Runs
      <4>3. RunInv(v, s)
        BY <3>1, <4>2 DEF RunInv
      <4>4. s.pc \in {"tls", "checking"} => s.crowded
        BY <4>2
      <4> QED
        BY <4>3, <4>4 DEF OnItsStack, s
    <3> QED
      BY <3>2, <3>3
  <2>6. upRuns' \in [Runners -> Runs]
    BY <2>4, <2>5 DEF RunInv
  <2> QED
    BY <2>3, <2>5, <2>6 DEF UpInv
<1>6. CASE ProbeToken(w)
  <2>1. Goes(w, "probe", "tls") /\ upStack' = upStack /\ FilesInv' /\ upStack.dsh = upRuns[w].token
    BY <1>6 DEF ProbeToken, UpInv, FilesInv
  <2>2. upRuns[w].ev.failed = {} /\ "tls" \in RunStages
    BY <2>1 DEF UpInv, RunInv, Goes, Step, RunStages
  <2> QED
    BY <2>1, <2>2, RunGoesOn
<1> QED
  BY <1>1, <1>3, <1>4, <1>5, <1>6

(* The checks run, one step after the other.                               *)
LEMMA ChecksKeepRuns ==
    ASSUME UpInv, NEW w \in Runners, VerifyGateway(w) \/ RunStep(w) \/ SequenceEnds(w)
    PROVE  UpInv'
<1> DEFINE r == upRuns[w]
<1>0. RunInv(w, r) /\ r \in Runs /\ r.ev \in Reports /\ OnItsStack(r)
  BY DEF UpInv, RunInv, Runs
<1>1. CASE VerifyGateway(w)
  <2> DEFINE s == [r EXCEPT !.pc = "checking", !.ca = upFiles.cert]
  <2>1. /\ upRuns' = [upRuns EXCEPT ![w] = s] /\ r.pc = "tls"
        /\ upStack' = upStack /\ upFiles' = upFiles
    BY <1>1 DEF VerifyGateway, Step
  <2>2. upFiles.cert \in Owners /\ FilesInv'
    BY <2>1 DEF UpInv, FilesInv
  <2> HIDE DEF r
  <2>3. /\ s \in Runs /\ s.pc = "checking" /\ s.ev = r.ev /\ s.saw = r.saw
        /\ s.token = r.token /\ s.crowded = r.crowded
    BY <1>0, <2>2 DEF Runs, RunStages
  <2> HIDE DEF s
  <2>4. RunInv(w, s) /\ OnItsStack(s)
    BY <1>0, <2>1, <2>3 DEF RunInv, OnItsStack
  <2> QED
    BY <2>1, <2>2, <2>4, OneRunMoves
<1>2. CASE RunStep(w)
  <2> DEFINE step == Steps[r.ev.done + 1]
             reached == Reaches(w, step.via)
  <2>1. PICK failed \in SUBSET step.names :
          /\ ~reached => step.via # "fetch" /\ failed = step.names
          /\ upRuns' = [upRuns EXCEPT ![w].ev.done = @ + 1, ![w].ev.failed = failed,
                          ![w].saw = IF reached THEN @ \cup {upStack.dsh} ELSE @]
    BY <1>2 DEF RunStep
  <2>2. /\ r.pc = "checking" /\ r.ev.done < Len(Steps) /\ r.ev.failed = {}
        /\ upStack' = upStack /\ upFiles' = upFiles
    BY <1>2 DEF RunStep
  <2> DEFINE noted == IF reached THEN r.saw \cup {upStack.dsh} ELSE r.saw
             ev == [r.ev EXCEPT !.done = r.ev.done + 1, !.failed = failed]
             s == [r EXCEPT !.ev = ev, !.saw = noted]
  <2>3. upRuns' = [upRuns EXCEPT ![w] = s]
    BY <1>0, <2>1 DEF UpInv, Runs, Reports
  <2>4. r.ev.done + 1 \in 1 .. 7 /\ r.ev.done \in 0 .. 6
    BY <1>0, <2>2, StepsAreKnown DEF Reports
  <2>5. failed \in SUBSET CheckNames
    BY <2>1, <2>4, StepsAreKnown
  <2>6. upStack.dsh \in Owners /\ FilesInv'
    BY <2>2 DEF UpInv, FilesInv
  <2>7. noted \in SUBSET Owners /\ (~r.crowded => noted \subseteq {r.token}) /\ noted # {}
    <3>1. r.saw \subseteq Owners /\ (~r.crowded => r.saw \subseteq {r.token} /\ upStack.dsh = r.token)
      BY <1>0, <2>2 DEF RunInv, Runs, OnItsStack
    <3>2. noted # {}
      <4>1. CASE r.ev.done = 0
        BY <2>1, <4>1, StepsAreKnown
      <4>2. CASE r.ev.done > 0
        BY <1>0, <4>2 DEF RunInv
      <4> QED
        BY <2>4, <4>1, <4>2
    <3> QED
      BY <2>6, <3>1, <3>2
  <2> HIDE DEF r, noted
  <2>8. /\ ev \in Reports /\ ev.by = r.ev.by /\ ev.done = r.ev.done + 1 /\ ev.failed = failed
        /\ ev.snapshot = r.ev.snapshot
    <3>1. r.ev.done + 1 \in 0 .. Len(Steps)
      BY <2>4, StepsAreKnown
    <3> QED
      BY <1>0, <2>5, <3>1 DEF Reports
  <2> HIDE DEF ev
  <2>9. /\ s \in Runs /\ s.pc = "checking" /\ s.ev = ev /\ s.saw = noted
        /\ s.token = r.token /\ s.crowded = r.crowded
    BY <1>0, <2>2, <2>7, <2>8 DEF Runs
  <2> HIDE DEF s
  <2>10. RunInv(w, s) /\ OnItsStack(s)
    BY <1>0, <2>1, <2>2, <2>7, <2>8, <2>9 DEF RunInv, OnItsStack
  <2> QED
    BY <2>2, <2>3, <2>6, <2>10, OneRunMoves
<1>3. CASE SequenceEnds(w)
  <2> DEFINE to == IF upRuns[w].kind = "verify" THEN "done" ELSE "finalize"
  <2>1. Goes(w, "checking", to) /\ upStack' = upStack /\ FilesInv'
    BY <1>3 DEF SequenceEnds, UpInv, FilesInv
  <2>2. to \in RunStages /\ to \in {"done", "finalize"}
    BY DEF RunStages
  <2> HIDE DEF to
  <2> QED
    BY <2>1, <2>2, RunGoesOn
<1> QED
  BY <1>1, <1>2, <1>3

(* The report is written, or the command ends early.                       *)
LEMMA EndKeepsRuns ==
    ASSUME UpInv, NEW w \in Runners, TruncateEvidence(w) \/ WriteEvidence(w) \/ Aborts(w)
    PROVE  UpInv'
<1>0. RunInv(w, upRuns[w]) /\ upRuns[w] \in Runs /\ upRuns[w].ev \in Reports
  BY DEF UpInv, RunInv, Runs
<1>1. ASSUME NEW pc \in {"done", "aborted"}, upRuns' = [upRuns EXCEPT ![w] = [NoRun EXCEPT !.pc = pc]],
             upStack' = upStack, FilesInv'
      PROVE  UpInv'
  <2> DEFINE s == [NoRun EXCEPT !.pc = pc]
  <2>1. s \in Runs /\ s.pc = pc /\ s.ev = NoReport /\ s.saw = {}
    BY BlanksAreTyped DEF Runs, RunStages
  <2> HIDE DEF s
  <2>2. RunInv(w, s) /\ OnItsStack(s)
    BY <2>1, BlanksAreTyped DEF RunInv, OnItsStack
  <2> QED
    BY <1>1, <2>2, OneRunMoves DEF s
<1>2. CASE TruncateEvidence(w)
  <2>1. Torn \in Reports /\ Torn.snapshot = NoRunner
    BY BlanksAreTyped DEF Torn, Reports
  <2>2. Goes(w, "finalize", "writing") /\ upStack' = upStack
        /\ upFiles' = [upFiles EXCEPT !.evidence = Torn]
    BY <1>2 DEF TruncateEvidence
  <2>3. FilesInv'
    BY <2>1, <2>2 DEF UpInv, FilesInv
  <2>4. "writing" \in RunStages
    BY DEF RunStages
  <2> QED
    BY <2>2, <2>3, <2>4, RunGoesOn
<1>3. CASE WriteEvidence(w)
  <2>1. /\ upRuns' = [upRuns EXCEPT ![w] = [NoRun EXCEPT !.pc = "done"]] /\ upStack' = upStack
        /\ upFiles' = [upFiles EXCEPT !.evidence = upRuns[w].ev]
    BY <1>3 DEF WriteEvidence, Step
  <2>2. FilesInv'
    <3>1. upRuns[w].ev.snapshot # NoRunner => upRuns[w].ev.snapshot = upRuns[w].ev.by
      BY <1>0 DEF RunInv
    <3> QED
      BY <1>0, <2>1, <3>1 DEF UpInv, FilesInv
  <2> QED
    BY <1>1, <2>1, <2>2
<1>4. CASE Aborts(w)
  BY <1>1, <1>4 DEF Aborts, UpInv, FilesInv
<1> QED
  BY <1>2, <1>3, <1>4

(* An eligible candidate has its own snapshot and saw its own stack, for   *)
(* every number of runners, however they meet in the files and the stack.  *)
THEOREM EligibleIsEarnedCorrect == UpSpec => []EligibleIsEarned
<1>1. UpInit => UpInv
  <2> SUFFICES ASSUME UpInit PROVE UpInv
    OBVIOUS
  <2>1. FilesInv
    BY BlanksAreTyped DEF UpInit, FilesInv, Owners
  <2>2. \A w \in Runners : upRuns[w] = NoRun
    BY DEF UpInit
  <2>3. \A w \in Runners : RunInv(w, NoRun) /\ OnItsStack(NoRun)
    BY BlanksAreTyped DEF RunInv, OnItsStack
  <2>4. upRuns \in [Runners -> Runs]
    BY BlanksAreTyped DEF UpInit
  <2> QED
    BY <2>1, <2>2, <2>3, <2>4 DEF UpInv
<1>2. UpInv /\ [UpNext]_upVars => UpInv'
  <2> SUFFICES ASSUME UpInv, [UpNext]_upVars PROVE UpInv'
    OBVIOUS
  <2>1. CASE UNCHANGED upVars
    BY <2>1 DEF upVars, UpInv, FilesInv, OnItsStack
  <2> QED
    BY <2>1, StartKeepsRuns, FilesKeepRuns, StackKeepsRuns, ChecksKeepRuns, EndKeepsRuns DEF UpNext
<1>3. ASSUME NEW ev \in Reports, Compatible(ev) PROVE ev.done > 0
  <2>1. ev.failed = {} /\ Status(ev, "globalPatch") = "pass"
    BY <1>3 DEF Compatible, RequiredChecks
  <2>2. \E i \in 1 .. ev.done : TRUE
    BY <2>1 DEF Status
  <2> QED
    BY <2>2, StepsAreKnown DEF Reports
<1>4. UpInv => EligibleIsEarned
  <2> SUFFICES ASSUME UpInv PROVE EligibleIsEarned
    OBVIOUS
  <2>1. \A w \in Runners : RunInv(w, upRuns[w]) /\ upRuns[w] \in Runs /\ upRuns[w].ev \in Reports
    BY DEF UpInv, RunInv, Runs
  <2>2. UpTypeOK
    <3>1. Cardinality(upFiles.manifest) <= 1
      <4>1. CASE upFiles.manifest = {}
        BY <4>1, FS_EmptySet
      <4>2. ASSUME NEW m \in Manifests, upFiles.manifest = {m}
            PROVE  Cardinality(upFiles.manifest) <= 1
        <5>1. Cardinality({m}) = 1
          BY FS_Singleton
        <5> QED
          BY <4>2, <5>1
      <4> QED
        BY <4>1, <4>2 DEF UpInv, FilesInv
    <3>2. upFiles.override \in Owners /\ upFiles.cert \in Owners /\ upFiles.manifest \subseteq Manifests
          /\ upStack \in [dsh: Owners, gateway: Owners]
      BY DEF UpInv, FilesInv
    <3>3. \A w \in Runners : upRuns[w].ev.done \in 0 .. Len(Steps)
      BY <2>1 DEF Reports
    <3> QED
      BY <2>1, <3>1, <3>2, <3>3 DEF UpTypeOK, RunInv, Owners
  <2>3. EligibleHasItsSnapshot
    BY <2>1 DEF UpInv, FilesInv, RunInv, EligibleHasItsSnapshot, PromotionReady, ReportedEligible
  <2>4. EligibleSawItsStack
    BY <1>3, <2>1 DEF RunInv, EligibleSawItsStack
  <2> QED
    BY <2>2, <2>3, <2>4 DEF EligibleIsEarned
<1> QED
  BY <1>1, <1>2, <1>4, PTL DEF UpSpec
=============================================================================
