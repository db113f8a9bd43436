---------------------------- MODULE FlowControl -----------------------------
(***************************************************************************)
(* The queues of one HTTP body on a reverse data channel: a response on    *)
(* its way from DSH to the browser, or a request body on its way from the  *)
(* browser to DSH (src/registry/reverse-channel.mjs and                    *)
(* src/node/reverse-channels.mjs).  Every queue has a soft mark, at which  *)
(* its producer is paused, and a hard cap, beyond which the flow is given  *)
(* up; pausing, resuming, draining and the stall timers of Hub and node    *)
(* know nothing of each other.                                             *)
(*                                                                         *)
(* Quantities are counted in frames.  Leases and closes of the channel are *)
(* in ReverseChannels.                                                     *)
(***************************************************************************)
EXTENDS Naturals

CONSTANTS BodyFrames,   \* length of the body
          SoftMark,     \* CHANNEL_SOFT_MARK_BYTES
          ResumeBelow,  \* CHANNEL_RESUME_BELOW_BYTES
          HardCap,      \* CHANNEL_HARD_CAP_BYTES
          InFlight      \* what the connection itself holds

ASSUME FlowControlAssumption ==
  /\ {BodyFrames, SoftMark, ResumeBelow, HardCap, InFlight} \subseteq Nat \ {0}
  /\ ResumeBelow < SoftMark /\ SoftMark + 1 < HardCap

VARIABLES fcWay,   \* "down" to the browser, "up" to DSH
          fcLeft,  \* frames the source has not given yet
          fcHub,   \* the Hub's end: see FcInit
          fcNet,   \* frames in the connection
          fcNode,  \* the node's end
          fcGot,   \* frames the consumer has taken
          fcRests, \* the consumer has taken nothing for the stall timeout
          fcEnd    \* how the transfer ended

fcVars == <<fcWay, fcLeft, fcHub, fcNet, fcNode, fcGot, fcRests, fcEnd>>

(* The Hub: written is its socket's write queue and waiting the writer     *)
(* that awaits a drain of it (before: its length then); queued is          *)
(* queuedBytes of the Flow, body its bodyQueue, paused its socket, ended   *)
(* bodyEnded.  The node: written and paused (the DSH response) in the one  *)
(* direction; pending, request (the write queue towards DSH), waiting      *)
(* (requestPumpWaiting) and ending (requestEndPending) in the other.       *)
FcInit ==
  /\ fcWay \in {"down", "up"} /\ fcLeft = BodyFrames /\ fcNet = 0 /\ fcGot = 0
  /\ fcHub = [written |-> 0, before |-> 0, waiting |-> FALSE,
              queued |-> 0, body |-> 0, reader |-> "starting", paused |-> FALSE, ended |-> FALSE]
  /\ fcNode = [written |-> 0, paused |-> FALSE,
               pending |-> 0, request |-> 0, waiting |-> FALSE, ending |-> FALSE]
  /\ fcRests = FALSE /\ fcEnd = "open"

Open(way) == fcWay = way /\ fcEnd = "open"

GivesUp(why) ==
  /\ fcEnd' = why
  /\ UNCHANGED <<fcWay, fcLeft, fcHub, fcNet, fcNode, fcGot, fcRests>>

-----------------------------------------------------------------------------
(* Down: DSH, node, Hub, browser.                                          *)

(* Mutant: the response is never paused.                                   *)
PausesSourceNever(n) == FALSE

PausesSource(n) == n > SoftMark

(* 'data' of the DSH response and sendUpstreamBytes.                       *)
DshGives ==
  /\ Open("down") /\ fcLeft > 0 /\ ~fcNode.paused
  /\ LET n == fcNode.written + 1
     IN /\ fcLeft' = fcLeft - 1
        /\ fcNode' = [fcNode EXCEPT !.written = n, !.paused = PausesSource(n)]
        /\ fcEnd' = IF n > HardCap THEN "overrun" ELSE "open"
  /\ UNCHANGED <<fcWay, fcHub, fcNet, fcGot, fcRests>>

(* Mutant: nobody listens for 'drain'.                                     *)
ResumedAtDrainNever(n, paused) == paused

(* 'drain' comes when the queue is empty, which is below the resume mark.  *)
ResumedAtDrain(n, paused) == paused /\ ~(n = 0 /\ n < ResumeBelow)

NodeWrites ==
  /\ Open("down") /\ fcNode.written > 0 /\ fcNet < InFlight
  /\ fcNet' = fcNet + 1
  /\ LET n == fcNode.written - 1
     IN fcNode' = [fcNode EXCEPT !.written = n, !.paused = ResumedAtDrain(n, @)]
  /\ UNCHANGED <<fcWay, fcLeft, fcHub, fcGot, fcRests, fcEnd>>

(* pushBody.  A chunk for which the reader waits is handed over without a  *)
(* look at the marks.                                                      *)
HubReads ==
  /\ Open("down") /\ fcNet > 0 /\ ~fcHub.paused
  /\ fcNet' = fcNet - 1 /\ fcRests' = FALSE
  /\ LET q == fcHub.queued + 1
     IN /\ fcEnd' = IF q > HardCap THEN "overrun" ELSE "open"
        /\ fcHub' = IF fcHub.reader = "waiting"
                    THEN [fcHub EXCEPT !.queued = q, !.reader = "holding"]
                    ELSE [fcHub EXCEPT !.queued = q, !.body = @ + 1, !.paused = q >= SoftMark]
  /\ UNCHANGED <<fcWay, fcLeft, fcNode, fcGot>>

(* response-end, behind the last frame, and endBody.                       *)
HubReadsEnd ==
  /\ Open("down") /\ fcLeft = 0 /\ fcNode.written = 0 /\ fcNet = 0
  /\ ~fcHub.paused /\ ~fcHub.ended
  /\ fcHub' = [fcHub EXCEPT !.ended = TRUE]
  /\ fcEnd' = IF fcHub.reader = "waiting" THEN "done" ELSE "open"
  /\ UNCHANGED <<fcWay, fcLeft, fcNet, fcNode, fcGot, fcRests>>

(* nextBodyChunk in the state h of the Hub.                                *)
AsksNext(h) ==
  /\ fcHub' = IF h.body > 0 THEN [h EXCEPT !.body = @ - 1, !.reader = "holding"]
                            ELSE [h EXCEPT !.reader = "waiting"]
  /\ fcEnd' = IF h.body = 0 /\ h.ended THEN "done" ELSE "open"

BrowserReads ==
  /\ Open("down") /\ fcHub.reader = "starting"
  /\ AsksNext(fcHub)
  /\ UNCHANGED <<fcWay, fcLeft, fcNet, fcNode, fcGot, fcRests>>

(* Mutant: a reader that has caught up does not resume the socket.         *)
ConsumedOnly(h) == [h EXCEPT !.queued = @ - 1]

(* consume.                                                                *)
Consumed(h) == [h EXCEPT !.queued = @ - 1, !.paused = @ /\ h.queued - 1 >= ResumeBelow]

(* streamReverseResponse: the browser has taken the chunk, the generator   *)
(* counts it and asks for the next.                                        *)
BrowserTakes ==
  /\ Open("down") /\ fcHub.reader = "holding"
  /\ AsksNext(Consumed(fcHub))
  /\ fcGot' = fcGot + 1 /\ fcRests' = FALSE
  /\ UNCHANGED <<fcWay, fcLeft, fcNet, fcNode>>

(* The Flow's stall timer, and the node's, which sees its queue stand.     *)
HubStalls ==
  /\ Open("down") /\ fcRests /\ fcHub.queued >= SoftMark /\ ~fcHub.ended
  /\ GivesUp("stalled")

NodeStalls ==
  /\ Open("down") /\ fcRests /\ fcHub.paused
  /\ fcNet = InFlight /\ fcNode.written >= SoftMark
  /\ GivesUp("stalled")

-----------------------------------------------------------------------------
(* Up: browser, Hub, node, DSH.                                            *)

(* writeBytes, one frame.                                                  *)
HubWrites ==
  /\ Open("up") /\ fcLeft > 0 /\ ~fcHub.waiting
  /\ IF fcHub.written > HardCap THEN GivesUp("overrun")
     ELSE LET n == fcHub.written + 1
          IN /\ fcLeft' = fcLeft - 1
             /\ fcHub' = [fcHub EXCEPT !.written = n, !.waiting = n > SoftMark, !.before = n]
             /\ UNCHANGED <<fcWay, fcNet, fcNode, fcGot, fcRests, fcEnd>>

HubSends ==
  /\ Open("up") /\ fcHub.written > 0 /\ fcNet < InFlight
  /\ fcNet' = fcNet + 1
  /\ LET n == fcHub.written - 1
     IN fcHub' = [fcHub EXCEPT !.written = n, !.waiting = @ /\ n > 0]
  /\ UNCHANGED <<fcWay, fcLeft, fcNode, fcGot, fcRests, fcEnd>>

(* The timer of waitDrain: only a queue that has not shrunk is a stall.    *)
WaitExpires ==
  /\ Open("up") /\ fcHub.waiting
  /\ IF fcHub.written >= fcHub.before THEN GivesUp("stalled")
     ELSE /\ fcHub' = [fcHub EXCEPT !.waiting = FALSE]
          /\ UNCHANGED <<fcWay, fcLeft, fcNet, fcNode, fcGot, fcRests, fcEnd>>

Lower(a, b) == IF a <= b THEN a ELSE b

(* Mutant: a pump that waited forgets the end it was told of meanwhile.    *)
PumpedEndless(n) ==
  LET room  == IF n.request < SoftMark THEN SoftMark - n.request ELSE 0
      moved == Lower(n.pending, room)
  IN [n EXCEPT !.pending = @ - moved, !.request = @ + moved, !.waiting = n.pending > moved]

(* pump: writes to DSH up to the soft mark, then waits for a drain; when   *)
(* nothing is pending, an end that was announced is passed on.             *)
Pumped(n) ==
  LET room  == IF n.request < SoftMark THEN SoftMark - n.request ELSE 0
      moved == Lower(n.pending, room)
  IN [n EXCEPT !.pending = @ - moved, !.request = @ + moved, !.waiting = n.pending > moved,
               !.ending = @ /\ n.pending > moved]

PassesEnd(n) == fcNode.ending /\ ~Pumped(n).ending

(* onRequestBody: the channel is not paused, whatever is pending.          *)
NodeReads ==
  /\ Open("up") /\ fcNet > 0
  /\ fcNet' = fcNet - 1
  /\ LET n == [fcNode EXCEPT !.pending = @ + 1]
     IN IF n.pending > HardCap THEN fcNode' = n /\ fcEnd' = "overrun"
        ELSE fcNode' = (IF n.waiting THEN n ELSE Pumped(n)) /\ UNCHANGED fcEnd
  /\ UNCHANGED <<fcWay, fcLeft, fcHub, fcGot, fcRests>>

(* onRequestEnd, behind the last frame.                                    *)
NodeReadsEnd ==
  /\ Open("up") /\ fcLeft = 0 /\ ~fcHub.waiting /\ fcHub.written = 0 /\ fcNet = 0
  /\ ~fcHub.ended
  /\ fcHub' = [fcHub EXCEPT !.ended = TRUE]
  /\ IF fcNode.pending > 0 \/ fcNode.waiting
     THEN fcNode' = [fcNode EXCEPT !.ending = TRUE] /\ UNCHANGED fcEnd
     ELSE fcEnd' = "done" /\ UNCHANGED fcNode
  /\ UNCHANGED <<fcWay, fcLeft, fcNet, fcGot, fcRests>>

(* DSH takes a frame; the last one is followed by 'drain', which runs a    *)
(* pump that waits.                                                        *)
DshTakes ==
  /\ Open("up") /\ fcNode.request > 0
  /\ fcGot' = fcGot + 1 /\ fcRests' = FALSE
  /\ LET n == [fcNode EXCEPT !.request = @ - 1]
         drained == n.request = 0 /\ n.waiting
     IN /\ fcNode' = IF drained THEN Pumped(n) ELSE n
        /\ fcEnd' = IF drained /\ PassesEnd(n) THEN "done" ELSE "open"
  /\ UNCHANGED <<fcWay, fcLeft, fcHub, fcNet>>

NodeStallsUpstream ==
  /\ Open("up") /\ fcRests /\ fcNode.pending + fcNode.request >= SoftMark
  /\ GivesUp("stalled")

-----------------------------------------------------------------------------
(* Half a minute in which the browser, or DSH, takes nothing.              *)
ConsumerRests ==
  /\ fcEnd = "open" /\ ~fcRests
  /\ fcHub.reader = "holding" \/ fcNode.request > 0
  /\ fcRests' = TRUE
  /\ UNCHANGED <<fcWay, fcLeft, fcHub, fcNet, fcNode, fcGot, fcEnd>>

Moves ==
  \/ DshGives \/ NodeWrites \/ HubReads \/ HubReadsEnd \/ BrowserReads \/ BrowserTakes
  \/ HubWrites \/ HubSends \/ NodeReads \/ NodeReadsEnd \/ DshTakes

FcNext ==
  Moves \/ HubStalls \/ NodeStalls \/ WaitExpires \/ NodeStallsUpstream \/ ConsumerRests

(* Sources give, connections deliver, consumers take, however slowly.  No  *)
(* timer has to fire.  Each move uses up something, so that one fairness   *)
(* condition for all of them is enough.                                    *)
FcFairness == WF_fcVars(Moves)

FcSpec     == FcInit /\ [][FcNext]_fcVars
FcFairSpec == FcSpec /\ FcFairness

-----------------------------------------------------------------------------
Held == IF fcHub.reader = "holding" THEN 1 ELSE 0

(* No frame is lost or counted twice between source and consumer.          *)
NothingDropped ==
  /\ fcHub.queued = fcHub.body + Held
  /\ fcLeft + fcHub.written + fcHub.queued + fcNet
       + fcNode.written + fcNode.pending + fcNode.request + fcGot = BodyFrames
  /\ fcEnd = "done" => fcGot + fcNode.request = BodyFrames

(* The soft marks hold the hard caps: a response never overruns a queue,   *)
(* however slow the browser is, and neither does the write queue of the    *)
(* Hub; only the request bytes pending at the node can, since nothing      *)
(* pauses their source.                                                    *)
MarksHoldCaps ==
  /\ fcHub.queued <= SoftMark /\ fcNode.written <= SoftMark + 1
  /\ fcHub.written <= SoftMark + 1 /\ fcNode.request <= SoftMark
  /\ fcEnd = "overrun" => fcNode.pending > HardCap

(* The queues of a body on a reverse channel (RFC-0012, D7) are bounded    *)
(* and complete, whatever pauses, resumes, drains and stalls in between.   *)
BodyKept == NothingDropped /\ MarksHoldCaps

(* Two pauses, two resumes and two drains in a row never leave a transfer  *)
(* standing: one that has begun comes to an end if its consumer goes on.   *)
TransferEnds == (fcLeft < BodyFrames) ~> (fcEnd # "open")
=============================================================================
