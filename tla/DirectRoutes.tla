---------------------------- MODULE DirectRoutes ----------------------------
(***************************************************************************)
(* The direct route of a browser flow: browser, Hub proxy (route-proxy.mjs *)
(* and the pipelines of server.mjs), the node's route ingress              *)
(* (route-ingress.mjs) and DSH behind it.  Hub and ingress are two relays  *)
(* of the same make: each accepts a flow, dials the next hop, passes on    *)
(* its answer, and notices in its own time that a neighbour has gone.      *)
(* Each also counts the WebSockets it carries and refuses beyond a limit;  *)
(* the Hub counts flows per node besides (flow-tracker.mjs).               *)
(*                                                                         *)
(* An end of a connection is "open" until its owner closes it; the other   *)
(* side learns of that by a step of its own.  What a server wrote is       *)
(* nothing, the 101 that switches protocols, a response head, or a whole   *)
(* response.                                                               *)
(***************************************************************************)
EXTENDS Integers, FiniteSets

CONSTANTS WebFlows,     \* flow identities
          HubLimit,     \* HubWebSocketTracker, for this node
          IngressLimit  \* IngressWebSocketTracker

ASSUME DirectAssumption ==
  IsFiniteSet(WebFlows) /\ HubLimit \in Nat \ {0} /\ IngressLimit \in Nat \ {0}

Hub == 1  Ingress == 2

VARIABLES drFlows,   \* the flows
          drHub,     \* wsTracker counts of this node
          drIngress, \* the ingress tracker's count
          drActive   \* flowTracker's active flows of this node

drVars == <<drFlows, drHub, drIngress, drActive>>

Ends    == {"none", "open", "closed"}
Outputs == {"nothing", "switch", "head", "whole"}

NoHop  == [up |-> "none", down |-> "none", phase |-> "idle", out |-> "nothing"]
NoFlow == [kind |-> "http", browser |-> FALSE, broken |-> FALSE,
           hop |-> [h \in {Hub, Ingress} |-> NoHop],
           dsh |-> [out |-> "nothing", open |-> TRUE]]

DrInit ==
  /\ drFlows = [f \in WebFlows |-> NoFlow]
  /\ drHub = 0 /\ drIngress = 0 /\ drActive = 0

-----------------------------------------------------------------------------
(* What a relay can see of its neighbours.                                 *)

ServerOut(fl, h) == IF h = Hub THEN fl.hop[Ingress].out ELSE fl.dsh.out

ServerOpen(fl, h) ==
  IF h = Hub THEN fl.hop[Ingress].up # "closed" /\ ~fl.broken ELSE fl.dsh.open

ClientOpen(fl, h) ==
  IF h = Hub THEN fl.browser ELSE fl.hop[Hub].down = "open" /\ ~fl.broken

(* Mutant: the slot is given back for either of the two sockets.           *)
RelayedEitherSocket(f, h, r) ==
  LET fl    == drFlows[f]
      freed == fl.hop[h].up = "open" /\ r.up = "closed"
      slot  == (IF freed /\ fl.kind = "ws" THEN 1 ELSE 0)
               + (IF fl.kind = "ws" /\ fl.hop[h].down = "open" /\ r.down = "closed" /\ freed
                  THEN 1 ELSE 0)
  IN /\ drFlows'   = [drFlows EXCEPT ![f].hop[h] = r]
     /\ drHub'     = IF h = Hub THEN drHub - slot ELSE drHub
     /\ drIngress' = IF h = Ingress THEN drIngress - slot ELSE drIngress
     /\ drActive'  = IF h = Hub /\ freed THEN drActive - 1 ELSE drActive

(* Flow f after relay h changed to r, with the counts that go with it: the *)
(* close of the client's socket releases its slot, once, and at the Hub    *)
(* ends the flow.                                                          *)
Relayed(f, h, r) ==
  LET fl    == drFlows[f]
      freed == fl.hop[h].up = "open" /\ r.up = "closed"
      slot  == IF freed /\ fl.kind = "ws" THEN 1 ELSE 0
  IN /\ drFlows'   = [drFlows EXCEPT ![f].hop[h] = r]
     /\ drHub'     = IF h = Hub THEN drHub - slot ELSE drHub
     /\ drIngress' = IF h = Ingress THEN drIngress - slot ELSE drIngress
     /\ drActive'  = IF h = Hub /\ freed THEN drActive - 1 ELSE drActive

Closed(end) == IF end = "none" THEN "none" ELSE "closed"

(* Mutant: the teardown destroys the client's socket only.                 *)
TornDownClientOnly(r) == [r EXCEPT !.up = Closed(@), !.phase = "done"]

(* Both sockets destroyed, nothing left to do.                             *)
TornDown(r) == [r EXCEPT !.up = Closed(@), !.down = Closed(@), !.phase = "done"]

(* An answer of its own and the end of the connection.                     *)
Refused(r) == [TornDown(r) EXCEPT !.out = "whole", !.up = "closed"]

(* The two sockets of an upgrade piped into each other.                    *)
Joined(r) == [r EXCEPT !.phase = "open", !.out = "switch"]

(* Any other answer: its head, and its body piped after it.                *)
Answered(r) == [r EXCEPT !.phase = "answer", !.out = "head"]

-----------------------------------------------------------------------------
(* Admission.                                                              *)

HubFree     == drHub < HubLimit
IngressFree == drIngress < IngressLimit

(* Relay h takes the flow on: its client's socket is tracked, and the next *)
(* hop dialled.                                                            *)
Dials(f, fl, h) ==
  LET slot == IF fl.kind = "ws" THEN 1 ELSE 0
  IN /\ drFlows' = [drFlows EXCEPT ![f] = [fl EXCEPT !.hop[h] =
                      [NoHop EXCEPT !.up = "open", !.down = "open", !.phase = "dial"]]]
     /\ drHub'     = IF h = Hub THEN drHub + slot ELSE drHub
     /\ drIngress' = IF h = Ingress THEN drIngress + slot ELSE drIngress
     /\ drActive'  = IF h = Hub THEN drActive + 1 ELSE drActive

(* The request pipeline of the Hub for an eligible node in direct mode:    *)
(* the flow is tracked until the response is over and proxyHttpRequest     *)
(* dials the ingress.  A refusal leaves nothing behind.                    *)
HubAcceptsRequest(f) ==
  /\ drFlows[f] = NoFlow
  /\ Dials(f, [NoFlow EXCEPT !.browser = TRUE], Hub)

(* The upgrade pipeline: the same behind a free WebSocket slot.            *)
HubAcceptsUpgrade(f) ==
  /\ drFlows[f] = NoFlow /\ HubFree
  /\ Dials(f, [NoFlow EXCEPT !.browser = TRUE, !.kind = "ws"], Hub)

ReachesIngress(f) ==
  /\ drFlows[f].hop[Hub].down = "open" /\ ~drFlows[f].broken
  /\ drFlows[f].hop[Ingress] = NoHop

(* handleUpgrade and handleRequest of the ingress: an upgrade needs a free *)
(* slot, is verified, tracked and dialled on.                              *)
IngressAccepts(f) ==
  /\ ReachesIngress(f)
  /\ drFlows[f].kind = "ws" => IngressFree
  /\ Dials(f, drFlows[f], Ingress)

(* Disabled, revoked, at the limit or not verified: an error response,     *)
(* before anything is tracked.                                             *)
IngressRefuses(f) ==
  /\ ReachesIngress(f)
  /\ drFlows' = [drFlows EXCEPT ![f].hop[Ingress] = Refused(NoHop)]
  /\ UNCHANGED <<drHub, drIngress, drActive>>

-----------------------------------------------------------------------------
(* One relay.                                                              *)

(* Mutant: the 101 is written when the next hop has been dialled.          *)
RelayHeadEarly(f, h) ==
  LET r == drFlows[f].hop[h]
  IN /\ r.phase = "dial" /\ r.down = "open"
     /\ Relayed(f, h, IF drFlows[f].kind = "ws" THEN Joined(r) ELSE Answered(r))

(* The next hop answers: 101 joins the two sockets, any other head is      *)
(* passed on and the body piped after it.                                  *)
RelayHead(f, h) ==
  LET r == drFlows[f].hop[h]
      o == ServerOut(drFlows[f], h)
  IN /\ r.phase = "dial" /\ r.down = "open" /\ o # "nothing"
     /\ Relayed(f, h, IF o = "switch" /\ drFlows[f].kind = "ws"
                      THEN Joined(r) ELSE Answered(r))

(* The body comes to its end and so does the client's connection.          *)
RelayEnd(f, h) ==
  LET r == drFlows[f].hop[h]
  IN /\ r.phase = "answer" /\ r.down = "open" /\ r.up = "open"
     /\ ServerOut(drFlows[f], h) = "whole"
     /\ Relayed(f, h, [TornDown(r) EXCEPT !.out = "whole"])

(* Mutant: the handshake has no time limit.                                *)
RelayFailsOnlyIfCut(f, h) ==
  LET r == drFlows[f].hop[h]
  IN /\ r.phase = "dial" /\ r.down = "open"
     /\ ServerOut(drFlows[f], h) = "nothing" /\ ~ServerOpen(drFlows[f], h)
     /\ Relayed(f, h, Refused(r))

(* No answer: the next hop refuses, breaks off or runs into the timeout of *)
(* the handshake.                                                          *)
RelayFails(f, h) ==
  LET r == drFlows[f].hop[h]
  IN /\ r.phase = "dial" /\ r.down = "open"
     /\ ServerOut(drFlows[f], h) = "nothing"
     /\ Relayed(f, h, Refused(r))

(* The next hop breaks off inside a body: the pipe passes on neither the   *)
(* error nor an end, and the client's response stays open.                 *)
RelayCut(f, h) ==
  LET r == drFlows[f].hop[h]
  IN /\ r.phase = "answer" /\ r.down = "open"
     /\ ~ServerOpen(drFlows[f], h) /\ ServerOut(drFlows[f], h) # "whole"
     /\ Relayed(f, h, [r EXCEPT !.down = "closed"])

(* Joined sockets fall together.                                           *)
RelayTorn(f, h) ==
  LET r == drFlows[f].hop[h]
  IN /\ r.phase = "open" /\ ~ServerOpen(drFlows[f], h)
     /\ Relayed(f, h, TornDown(r))

(* Mutant: the early-abort listeners are taken off at the 101 and nothing  *)
(* takes their place.                                                      *)
RelayClientGoneUnheard(f, h) ==
  LET r == drFlows[f].hop[h]
  IN /\ r.up = "open" /\ ~ClientOpen(drFlows[f], h)
     /\ Relayed(f, h, IF r.phase = "dial" /\ drFlows[f].kind = "ws"
                      THEN TornDown(r) ELSE [r EXCEPT !.up = "closed"])

(* The client goes: an upgrade that waits or is joined takes the next hop  *)
(* down with it; a response that is being piped, and a plain request, only *)
(* lose their reader.                                                      *)
RelayClientGone(f, h) ==
  LET r == drFlows[f].hop[h]
  IN /\ r.up = "open" /\ ~ClientOpen(drFlows[f], h)
     /\ Relayed(f, h, IF r.phase = "open" \/ (r.phase = "dial" /\ drFlows[f].kind = "ws")
                      THEN TornDown(r) ELSE [r EXCEPT !.up = "closed"])

(* The 30 s idle limit of a plain request; an upgrade has none once it is  *)
(* answered.                                                               *)
RelayIdle(f, h) ==
  LET r == drFlows[f].hop[h]
  IN /\ drFlows[f].kind = "http" /\ r.phase = "answer" /\ r.down = "open"
     /\ Relayed(f, h, [r EXCEPT !.down = "closed"])

(* What is left of a body without a reader fits the buffers.               *)
RelayDrained(f, h) ==
  LET r == drFlows[f].hop[h]
  IN /\ r.phase = "answer" /\ r.up = "closed" /\ r.down = "open"
     /\ ServerOut(drFlows[f], h) = "whole"
     /\ Relayed(f, h, TornDown(r))

RelayNext(f, h) ==
  \/ RelayHead(f, h) \/ RelayEnd(f, h) \/ RelayFails(f, h) \/ RelayCut(f, h)
  \/ RelayTorn(f, h) \/ RelayClientGone(f, h) \/ RelayIdle(f, h) \/ RelayDrained(f, h)

(* The two relays of a flow: proxyHttpRequest and proxyWebSocketUpgrade at *)
(* the Hub, forwardToDsh and handleUpgrade at the node.                    *)
HubProxies(f)       == RelayNext(f, Hub)
IngressForwards(f)  == RelayNext(f, Ingress)

-----------------------------------------------------------------------------
(* The world around them.                                                  *)

Only(f, fl) == drFlows' = [drFlows EXCEPT ![f] = fl] /\ UNCHANGED <<drHub, drIngress, drActive>>

BrowserGoes(f) ==
  drFlows[f].browser /\ Only(f, [drFlows[f] EXCEPT !.browser = FALSE])

LinkBreaks(f) ==
  /\ drFlows[f].hop[Hub].down = "open" /\ ~drFlows[f].broken
  /\ Only(f, [drFlows[f] EXCEPT !.broken = TRUE])

DshWrites(f) ==
  /\ drFlows[f].hop[Ingress].down = "open" /\ drFlows[f].dsh.open
  /\ \E o \in Outputs \ {"nothing"} :
       /\ \/ drFlows[f].dsh.out = "nothing" /\ (o = "switch" => drFlows[f].kind = "ws")
          \/ drFlows[f].dsh.out = "head" /\ o = "whole"
       /\ Only(f, [drFlows[f] EXCEPT !.dsh.out = o])

DshLeaves(f) ==
  /\ drFlows[f].hop[Ingress].down = "open" /\ drFlows[f].dsh.open
  /\ Only(f, [drFlows[f] EXCEPT !.dsh.open = FALSE])

DrNext ==
  \E f \in WebFlows :
    \/ HubAcceptsRequest(f) \/ HubAcceptsUpgrade(f)
    \/ IngressAccepts(f) \/ IngressRefuses(f)
    \/ HubProxies(f) \/ IngressForwards(f)
    \/ BrowserGoes(f) \/ LinkBreaks(f) \/ DshWrites(f) \/ DshLeaves(f)

(* Sockets report what happens to them, and the timers of a dial and of a  *)
(* plain request fire.                                                     *)
DrFairness ==
  \A f \in WebFlows, h \in {Hub, Ingress} :
    /\ WF_drVars(RelayHead(f, h)) /\ WF_drVars(RelayEnd(f, h)) /\ WF_drVars(RelayFails(f, h))
    /\ WF_drVars(RelayCut(f, h))  /\ WF_drVars(RelayTorn(f, h))
    /\ WF_drVars(RelayClientGone(f, h)) /\ WF_drVars(RelayIdle(f, h))

DrSpec     == DrInit /\ [][DrNext]_drVars
DrFairSpec == DrSpec /\ DrFairness

-----------------------------------------------------------------------------
Hops == [up: Ends, down: Ends, phase: {"idle", "dial", "open", "answer", "done"}, out: Outputs]

(* The flows' types; and a relay that dials or joins has a connection to   *)
(* the next hop, one that is done has none.                                *)
DrTypeOK ==
  /\ drFlows \in [WebFlows ->
       [kind: {"http", "ws"}, browser: BOOLEAN, broken: BOOLEAN,
        hop: [{Hub, Ingress} -> Hops], dsh: [out: Outputs, open: BOOLEAN]]]
  /\ \A f \in WebFlows, h \in {Hub, Ingress} :
       LET r == drFlows[f].hop[h]
       IN /\ r.phase \in {"dial", "open"} => r.down = "open"
          /\ r.phase = "done" => r.down # "open"

Carried(h) == {f \in WebFlows : drFlows[f].hop[h].up = "open"}
Sockets(h) == {f \in Carried(h) : drFlows[f].kind = "ws"}

(* The three counters the trackers keep by increment and decrement are the *)
(* sockets that are in fact open, and the limits hold of those: whichever  *)
(* of close, error, refusal and teardown ends a flow, its slot comes back  *)
(* once and only once.                                                     *)
SlotsAreSockets ==
  /\ drHub = Cardinality(Sockets(Hub))         /\ drHub <= HubLimit
  /\ drIngress = Cardinality(Sockets(Ingress)) /\ drIngress <= IngressLimit
  /\ drActive = Cardinality(Carried(Hub))

(* A browser is told that protocols were switched only if DSH said so, and *)
(* no relay joins its sockets on less.                                     *)
SwitchComesFromDsh ==
  \A f \in WebFlows, h \in {Hub, Ingress} :
    drFlows[f].hop[h].out = "switch" =>
      drFlows[f].dsh.out = "switch" /\ drFlows[f].kind = "ws"

AllClosed(f) ==
  \A h \in {Hub, Ingress} : drFlows[f].hop[h].up # "open" /\ drFlows[f].hop[h].down # "open"

(* When any of the three connections of a joined WebSocket goes, all of it *)
(* is torn down and every slot is free again.                              *)
JoinedFallTogether ==
  \A f \in WebFlows :
    (drFlows[f].hop[Hub].out = "switch" /\
       (~drFlows[f].browser \/ ~drFlows[f].dsh.open \/ drFlows[f].broken))
      ~> AllClosed(f)

(* A waiting upgrade whose browser has gone, or whose handshake runs out,  *)
(* gives up its slot at the Hub.                                           *)
DialsEnd ==
  \A f \in WebFlows :
    (drFlows[f].hop[Hub].phase = "dial" /\ drFlows[f].kind = "ws")
      ~> drFlows[f].hop[Hub].phase # "dial"

(* The invariant of flows over Hub and ingress: the trackers count the     *)
(* sockets there are, and sockets are joined only as DSH agreed.           *)
FlowsInStep == DrTypeOK /\ SlotsAreSockets /\ SwitchComesFromDsh

(* Upgrades over both hops come to an end, joined or still dialled.        *)
DirectFlowsEnd == JoinedFallTogether /\ DialsEnd
=============================================================================
