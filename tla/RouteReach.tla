----------------------------- MODULE RouteReach -----------------------------
(***************************************************************************)
(* Where the traffic of one node may go: its route target and route mode,  *)
(* the reachability the Hub's probe establishes for them, and the decision *)
(* a request is admitted by (registry.mjs, route-probe.mjs, scheduler.mjs, *)
(* route-proxy.mjs evaluateRouteEligibility, selector-view.mjs).           *)
(*                                                                         *)
(* A probe is a request the Hub waits for: everything here may change      *)
(* between the moment it is sent and the moment it is answered.  One loop  *)
(* probes the nodes one after another and the next round waits for it.     *)
(***************************************************************************)
EXTENDS Naturals, FiniteSets

CONSTANTS Targets,           \* origins an operator may approve
          NoTarget,
          FailureThreshold,  \* ROUTE_PROBE_FAILURE_THRESHOLD
          MaxKeys            \* bound: Hub route keys activated

ASSUME RouteAssumption ==
  NoTarget \notin Targets /\ FailureThreshold \in Nat \ {0} /\ MaxKeys \in Nat

NoKey == 0
Idle  == [at |-> "idle"]

VARIABLES rt,        \* state, route_mode, reachable, target and active route key
          rtFails,   \* routeProbeFailures of this node, in memory
          rtProbe,   \* the probe under way and the context it was sent in
          rtJudged   \* the targets whose answers the present verdict rests on

rtVars == <<rt, rtFails, rtProbe, rtJudged>>

Routes ==
  [state: {"active", "tombstoned"}, mode: {"direct", "reverse"},
   reach: {"unknown", "ok", "unreachable"}, target: Targets \cup {NoTarget},
   key: NoKey .. MaxKeys, activated: 0 .. MaxKeys]

Probes == {Idle} \cup [at: {"asked", "hanging"}, target: Targets, key: 1 .. MaxKeys]

(* An enrolled node routes directly, a paired one in reverse.              *)
RtInit ==
  /\ \E m \in {"direct", "reverse"} :
       rt = [state |-> "active", mode |-> m, reach |-> "unknown", target |-> NoTarget,
             key |-> NoKey, activated |-> 0]
  /\ rtFails = 0 /\ rtProbe = Idle /\ rtJudged = {}

-----------------------------------------------------------------------------
(* Operator requests.                                                      *)

(* Whatever was known of the route is forgotten.                           *)
Forgotten(r) == [r EXCEPT !.reach = "unknown"]
ForgetFailures == rtFails' = 0 /\ rtJudged' = {}

(* Mutant: a new origin inherits the reachability of the old one.          *)
SetRouteTargetOnly(t) ==
  /\ rt.state = "active"
  /\ rt' = [rt EXCEPT !.target = t]
  /\ UNCHANGED <<rtFails, rtJudged, rtProbe>>

(* setRouteTarget: also for the origin that is approved already.           *)
SetRouteTarget(t) ==
  /\ rt.state = "active"
  /\ rt' = Forgotten([rt EXCEPT !.target = t])
  /\ ForgetFailures /\ UNCHANGED rtProbe

(* removeRouteTarget: of a deleted node too.                               *)
RemoveRouteTarget ==
  /\ rt' = Forgotten([rt EXCEPT !.target = NoTarget])
  /\ ForgetFailures /\ UNCHANGED rtProbe

(* setRouteMode: nothing happens when the mode is the one in force.        *)
SetRouteMode(m) ==
  /\ rt.state = "active" /\ rt.mode # m
  /\ rt' = Forgotten([rt EXCEPT !.mode = m])
  /\ ForgetFailures /\ UNCHANGED rtProbe

(* deleteNode revokes every route key and keeps target and mode.           *)
DeleteRoutedNode ==
  /\ rt.state = "active"
  /\ rt' = Forgotten([rt EXCEPT !.state = "tombstoned", !.key = NoKey])
  /\ ForgetFailures /\ UNCHANGED rtProbe

(* reenroll: a fresh route key is provisioned, none is active.             *)
ReenrollRoutedNode ==
  /\ rt.state = "tombstoned"
  /\ rt' = Forgotten([rt EXCEPT !.state = "active"])
  /\ UNCHANGED <<rtFails, rtProbe, rtJudged>>

(* A heartbeat acknowledges a provisioned route key: it signs from now on. *)
RouteKeyActivates ==
  /\ rt.state = "active" /\ rt.activated < MaxKeys
  /\ rt' = [rt EXCEPT !.key = rt.activated + 1, !.activated = @ + 1]
  /\ UNCHANGED <<rtFails, rtProbe, rtJudged>>

-----------------------------------------------------------------------------
(* The probe.                                                              *)

(* Mutant: the probe is sent before an origin was approved.                *)
ProbeNodeAnywhere ==
  /\ rtProbe = Idle
  /\ rt.state = "active" /\ rt.mode = "direct" /\ rt.key # NoKey
  /\ rtProbe' = [at |-> "asked", target |-> rt.target, key |-> rt.key]
  /\ UNCHANGED <<rt, rtFails, rtJudged>>

(* probeNode up to the request: without a direct route there is nothing to *)
(* ask and nothing is known; otherwise target and key are noted.           *)
ProbeNode ==
  /\ rtProbe = Idle
  /\ rt.state = "active"
  /\ IF rt.mode = "direct" /\ rt.target # NoTarget /\ rt.key # NoKey
     THEN /\ rtProbe' = [at |-> "asked", target |-> rt.target, key |-> rt.key]
          /\ UNCHANGED <<rt, rtFails, rtJudged>>
     ELSE /\ rt' = Forgotten(rt)
          /\ ForgetFailures /\ UNCHANGED rtProbe

(* recordProbeResult with a context: an answer is ignored for a node that  *)
(* is gone, and ends the count of failures when the mode, the target or    *)
(* the key is not the one that was asked about.                            *)
SameContext(probe) ==
  rt.mode = "direct" /\ rt.target = probe.target /\ rt.key = probe.key

RecordProbeResult(success) ==
  IF rt.state # "active" THEN UNCHANGED <<rt, rtFails, rtJudged>>
  ELSE IF ~SameContext(rtProbe)
       THEN /\ rtFails' = 0
            /\ UNCHANGED <<rt, rtJudged>>
  ELSE IF success
       THEN /\ rtFails' = 0
            /\ rt' = [rt EXCEPT !.reach = "ok"]
            /\ rtJudged' = {rtProbe.target}
  ELSE /\ rtFails' = IF rtFails < FailureThreshold THEN rtFails + 1 ELSE rtFails
       /\ rt' = [rt EXCEPT !.reach = IF rtFails + 1 >= FailureThreshold
                                     THEN "unreachable" ELSE @]
       /\ rtJudged' = rtJudged \cup {rtProbe.target}

(* An answer, an error or the timeout: 200 with the node's own id and      *)
(* ready counts as success, everything else as failure.                    *)
ProbeAnswered ==
  /\ rtProbe.at = "asked"
  /\ \E success \in BOOLEAN : RecordProbeResult(success)
  /\ rtProbe' = Idle

(* The ingress closes its connection inside the body: the response ends in *)
(* 'aborted', which defaultRouteTransport does not listen for, and neither *)
(* 'end' nor 'error' nor 'timeout' ever settles the promise.               *)
ProbeCutShort ==
  /\ rtProbe.at = "asked"
  /\ rtProbe' = [rtProbe EXCEPT !.at = "hanging"]
  /\ UNCHANGED <<rt, rtFails, rtJudged>>

(* A Hub that starts again knows the reachability it stored and no count.  *)
HubForgets ==
  /\ rtProbe' = Idle /\ rtFails' = 0
  /\ UNCHANGED <<rt, rtJudged>>

RtNext ==
  \/ \E t \in Targets : SetRouteTarget(t)
  \/ RemoveRouteTarget
  \/ \E m \in {"direct", "reverse"} : SetRouteMode(m)
  \/ DeleteRoutedNode \/ ReenrollRoutedNode \/ RouteKeyActivates
  \/ ProbeNode \/ ProbeAnswered \/ ProbeCutShort \/ HubForgets

(* A request is answered, fails or times out, unless it hangs; the timer   *)
(* of the probe loop fires again and again.                                *)
RtFairness == WF_rtVars(ProbeAnswered) /\ WF_rtVars(ProbeNode)

RtSpec     == RtInit /\ [][RtNext]_rtVars
RtFairSpec == RtSpec /\ RtFairness

-----------------------------------------------------------------------------
(* The admission of a request: one snapshot of the row, of the current     *)
(* reverse session of the node and of its evidence.                        *)
Sessions  == {"offline", "online", "ready", "pooled"}
Evidences == {"stale", "missing", "fresh"}

(* evaluateRouteEligibility: the first reason found, or none.              *)
RouteReason(session) ==
  IF rt.mode = "direct"
  THEN IF rt.target = NoTarget THEN "no-route-target"
       ELSE IF rt.reach # "ok" THEN "node-not-reachable" ELSE "none"
  ELSE CASE session = "offline" -> "reverse-session-offline"
         [] session = "online"  -> "reverse-route-unreachable"
         [] session = "ready"   -> "reverse-capacity"
         [] OTHER -> "none"

EligibilityReason(session, evidence) ==
  IF rt.state # "active" THEN "node-not-active"
  ELSE IF RouteReason(session) # "none" THEN RouteReason(session)
  ELSE IF rt.key = NoKey THEN "no-active-hub-route-key"
  ELSE CASE evidence = "stale"   -> "compatibility-evidence-stale"
         [] evidence = "missing" -> "web-routes-capability-missing"
         [] OTHER -> "none"

Eligible(session, evidence) == EligibilityReason(session, evidence) = "none"

(* Mutant: the selector shows the stored dimension in either mode.         *)
SelectorReachableStored(session) == rt.reach

(* The reachability the selector shows: in reverse mode the live session,  *)
(* which a node that is not active is not asked for.                       *)
SelectorReachable(session) ==
  IF rt.mode = "direct" THEN rt.reach
  ELSE IF rt.state = "active" /\ session \in {"ready", "pooled"} THEN "ok" ELSE "unreachable"

(* managementNodeSummary: the session first, then the whole decision.      *)
ManagementReason(session, evidence) ==
  IF rt.mode = "direct" THEN "none"
  ELSE IF session = "offline" THEN "reverse-session-offline"
  ELSE IF session = "online" THEN "reverse-route-unreachable"
  ELSE EligibilityReason(session, evidence)

-----------------------------------------------------------------------------
(* Row, counter and probe are well formed.                                 *)
RtTypeOK ==
  /\ rt \in Routes
  /\ rtFails \in 0 .. FailureThreshold
  /\ rtProbe \in Probes
  /\ rtJudged \subseteq Targets

(* A verdict, and a failure counted towards one, is about the origin that  *)
(* is approved now, of an active node in direct mode: no answer that was   *)
(* on its way when the operator changed the route speaks for the new one.  *)
ReachIsAboutTarget ==
  (rt.reach # "unknown" \/ rtFails > 0) =>
     /\ rt.state = "active" /\ rt.mode = "direct"
     /\ rtJudged = {rt.target}

(* What the selector and the operator's node page show agrees with what a  *)
(* request would meet: an eligible node is shown reachable, and in reverse *)
(* mode the page gives no reason exactly when the node is eligible.        *)
ShownAsRouted ==
  \A session \in Sessions, evidence \in Evidences :
     /\ Eligible(session, evidence) => SelectorReachable(session) = "ok"
     /\ rt.mode = "reverse" =>
          (ManagementReason(session, evidence) = "none") = Eligible(session, evidence)

(* scheduler.mjs: the tick catches errors "to guarantee probing flag       *)
(* resets".  A probe cut short inside the body leaves it set.              *)
ProbingFlagResets == (rtProbe # Idle) ~> (rtProbe = Idle)

(* The invariant of a node's route: verdicts are about the approved        *)
(* target, and what is shown of them is what a request would meet.         *)
ReachSound == RtTypeOK /\ ReachIsAboutTarget /\ ShownAsRouted
=============================================================================
