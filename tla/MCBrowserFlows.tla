--------------------------- MODULE MCBrowserFlows ---------------------------
(***************************************************************************)
(* Model-checking instance of both transports of a browser flow and of the *)
(* queues of a reverse channel, for liveness.  The three share no state,   *)
(* so an initial state chooses the one that moves.                         *)
(***************************************************************************)
EXTENDS ReverseChannels, DirectRoutes, FlowControl

VARIABLE moving

FlowsInit ==
  /\ moving \in {"direct", "reverse", "queues"}
  /\ Init /\ DrInit /\ FcInit
  /\ moving # "queues" => fcWay = "down"

FlowsNext ==
  \/ moving = "direct"  /\ DrNext /\ UNCHANGED <<vars, fcVars, moving>>
  \/ moving = "reverse" /\ Next   /\ UNCHANGED <<drVars, fcVars, moving>>
  \/ moving = "queues"  /\ FcNext /\ UNCHANGED <<vars, drVars, moving>>

(* Channels and direct flows at rest are in their initial states, in which *)
(* no step is enabled that fairness is stated of; a body at rest could     *)
(* move, so its fairness is that of the instance in which it does.         *)
FlowsSpec ==
  /\ FlowsInit /\ [][FlowsNext]_<<moving, vars, drVars, fcVars>>
  /\ DrFairness /\ Fairness /\ WF_fcVars(moving = "queues" /\ Moves)

(* Whichever way a browser flow goes, and whoever leaves it or fails on    *)
(* it, it is not left standing: a plain request over a channel is answered *)
(* or given up, an upgrade over both relays joined, torn down or refused.  *)
FlowsEnd == HttpFlowsEnd /\ DirectFlowsEnd
=============================================================================
