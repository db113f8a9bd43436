-------------------------- MODULE ReverseChannels --------------------------
(***************************************************************************)
(* The reverse data channels of one node: the channel manager of the Hub   *)
(* (src/registry/reverse-channel.mjs) and the channel pool of the node     *)
(* (src/node/reverse-channels.mjs).  A browser flow leases one channel,    *)
(* its request and the response of DSH travel over it, and the channel is  *)
(* leased again when the node has reported idle.                           *)
(*                                                                         *)
(* A step is one turn of the event loop with the microtasks it leaves: the *)
(* claim of a channel, the creation of its Flow and the OPEN message are   *)
(* one step, and so are an idle report and the claim of the waiter it      *)
(* wakes.  Queue levels are in FlowControl, sessions in ReverseControl.    *)
(* Socket.destroy() may discard what was written before it, so the end of  *)
(* a connection may overtake the frames before it.                         *)
(***************************************************************************)
EXTENDS Integers, Sequences, FiniteSets

CONSTANTS
    Flows,        \* browser requests on the authority of the node
    None,         \* no flow
    NumChans,     \* bound of the channels alive at one time, on either side
    IdleTarget,   \* idle channels the node keeps ready
    MaxChannels,  \* channels of the node
    MaxSessions,  \* bound of the reverse sessions
    MaxTrouble    \* how often a socket, a session, DSH or a proof fails by itself

Chans == 1 .. NumChans

ASSUME ChannelAssumption ==
    /\ None \notin Flows
    /\ NumChans \in Nat /\ MaxSessions \in Nat /\ MaxTrouble \in Nat
    /\ IdleTarget \in Nat \ {0} /\ MaxChannels \in Nat /\ IdleTarget =< MaxChannels

VARIABLES
    mode,      \* [Flows -> {"http", "websocket"}]
    session,   \* the current ready session of the node at the Hub, 0 when there is none
    sessions,  \* sessions so far
    trouble,   \* failures so far
    mgr,       \* the Hub: state, gen and holder of each channel, stage, chan and marks of each
               \* flow, out[c] the frames on their way to the node
    node       \* the node: session and stopped, state, flow and step of each channel, out[c] the
               \* frames on their way to the Hub

vars == <<mode, session, sessions, trouble, mgr, node>>

-----------------------------------------------------------------------------

F(kind, x) == [kind |-> kind, flow |-> x]
Fin == F("fin", None)

Stages == {"new", "waiting", "sending", "awaiting", "streaming", "draining", "over"}

(* What a Flow object remembers.  ended: bodyEnded, or teardownComplete of *)
(* a WebSocket flow; ready: browserReady; closed: browserClosed; deaf: the *)
(* browser socket had closed before its listeners were attached.           *)
Marks == {"sent", "ended", "idle", "upgraded", "ready", "tearingDown", "closed", "deaf"}

TypeOK ==
    /\ mode \in [Flows -> {"http", "websocket"}]
    /\ session \in 0 .. MaxSessions /\ sessions \in 0 .. MaxSessions /\ trouble \in 0 .. MaxTrouble
    /\ \A c \in Chans :
          /\ mgr.state[c] \in {"none", "idle", "busy"} /\ mgr.gen[c] \in 0 .. MaxSessions
          /\ (mgr.state[c] = "busy") = (mgr.holder[c] \in Flows)
          /\ node.state[c] \in {"none", "connecting", "idle", "busy"}
          /\ (node.state[c] = "busy") = (node.flow[c] \in Flows)
          /\ node.step[c] \in {"none", "requested", "responding", "upgraded"}
    /\ \A r \in Flows :
          mgr.stage[r] \in Stages /\ mgr.chan[r] \in Chans \cup {0} /\ mgr.marks[r] \subseteq Marks
    /\ node.session \in 0 .. MaxSessions /\ node.stopped \in BOOLEAN

Init ==
    /\ mode \in [Flows -> {"http", "websocket"}]
    /\ session = 0 /\ sessions = 0 /\ trouble = 0
    /\ mgr = [state |-> [c \in Chans |-> "none"], gen |-> [c \in Chans |-> 0],
              holder |-> [c \in Chans |-> None], out |-> [c \in Chans |-> <<>>],
              stage |-> [r \in Flows |-> "new"], chan |-> [r \in Flows |-> 0],
              marks |-> [r \in Flows |-> {}]]
    /\ node = [session |-> 0, stopped |-> TRUE, state |-> [c \in Chans |-> "none"],
               flow |-> [c \in Chans |-> None], step |-> [c \in Chans |-> "none"],
               out |-> [c \in Chans |-> <<>>]]

-----------------------------------------------------------------------------
(* The channel manager of the Hub, as functions of its state m *)

Send(m, c, frames) == IF node.state[c] = "none" THEN m ELSE [m EXCEPT !.out[c] = @ \o frames]

(* ReverseChannel.close for every channel of S: the flow that holds it     *)
(* fails (one that is still sending notices at its next write), and every  *)
(* flow that still refers to it finds it closed.                           *)
CloseChannels(m, S) ==
    LET open == {c \in S : m.state[c] # "none"}
        cut == {m.holder[c] : c \in open} \ {None}
    IN  [m EXCEPT !.state = [c \in Chans |-> IF c \in open THEN "none" ELSE @[c]],
                  !.gen = [c \in Chans |-> IF c \in open THEN 0 ELSE @[c]],
                  !.holder = [c \in Chans |-> IF c \in open THEN None ELSE @[c]],
                  !.out = [c \in Chans |-> IF c \notin open THEN @[c]
                                           ELSE IF node.state[c] = "none" THEN <<>>
                                           ELSE Append(@[c], Fin)],
                  !.chan = [r \in Flows |-> IF @[r] \in open THEN 0 ELSE @[r]],
                  !.stage = [r \in Flows |-> IF r \in cut /\ @[r] # "sending" THEN "over" ELSE @[r]],
                  !.marks = [r \in Flows |-> IF r \in cut THEN {} ELSE @[r]]]

(* A flow ends for its browser and closes the channel it was given,        *)
(* whoever holds that channel now.                                         *)
Fail(m, r) ==
    [CloseChannels(m, {m.chan[r]} \ {0}) EXCEPT
        !.stage[r] = "over", !.marks[r] = {}]

IdleChannels(m) == {c \in Chans : m.state[c] = "idle" /\ m.gen[c] = session}

Waiters(m) == {r \in Flows : m.stage[r] = "waiting"}

(* abort: the node is told, then the channel is closed.                    *)
Abort(m, r) == Fail(Send(m, m.chan[r], <<F("abort", r)>>), r)

(* The OPEN message.  The body of an HTTP request follows, a WebSocket     *)
(* upgrade has none and is ended at once.                                  *)
OpenFrames(r) == IF mode[r] = "http" THEN <<F("open", r)>> ELSE <<F("open", r), F("request-end", r)>>

(* claimIdleChannel, new Flow and markBusy, then OPEN.                     *)
Lease(m, r, c) ==
    Send([m EXCEPT !.state[c] = "busy", !.holder[c] = r, !.chan[r] = c,
                   !.stage[r] = IF mode[r] = "http" THEN "sending" ELSE "awaiting"],
         c, OpenFrames(r))

(* Mutant: the channel returns to the pool and no waiter is woken.         *)
FreedUnheard(m, c) == {[m EXCEPT !.state[c] = "idle", !.holder[c] = None]}

(* Mutant: a released channel keeps its flow.                              *)
FreedKeepingFlow(m, c) ==
    LET free == [m EXCEPT !.state[c] = "idle"]
    IN  IF Waiters(m) = {} THEN {free} ELSE {Lease(free, r, c) : r \in Waiters(m)}

(* The channel becomes idle and resolveIdleWaiters wakes one waiter.       *)
Freed(m, c) ==
    LET free == [m EXCEPT !.state[c] = "idle", !.holder[c] = None]
    IN  IF Waiters(m) = {} \/ m.gen[c] # session THEN {free}
        ELSE {Lease(free, r, c) : r \in Waiters(m)}

(* Nothing is left of a flow that has released its channel.                *)
Over(m, r) == [m EXCEPT !.stage[r] = "over", !.chan[r] = 0, !.marks[r] = {}]

(* Mutant: a WebSocket flow is over when its browser has gone.             *)
MaybeIdleEarly(m, r) ==
    IF "closed" \in m.marks[r] /\ m.chan[r] # 0 THEN Freed(Over(m, r), m.chan[r]) ELSE {m}

(* maybeIdle of a WebSocket flow: the node idle, the browser socket closed *)
(* and the teardown complete.                                              *)
MaybeIdle(m, r) ==
    IF /\ {"idle", "closed", "ended"} \subseteq m.marks[r]
       /\ m.marks[r] \cap {"upgraded", "ready"} # {}
       /\ m.chan[r] # 0
    THEN Freed(Over(m, r), m.chan[r])
    ELSE {m}

Mark(m, r, S) == [m EXCEPT !.marks[r] = @ \cup S]

-----------------------------------------------------------------------------
(* Frames of the node at the Hub, on a channel held by r *)

(* A response is handed to the caller that awaits it; the caller of a      *)
(* WebSocket flow writes it to the browser at once.  A caller that is      *)
(* still sending its request body has set no responseResolve: the response *)
(* is dropped.                                                             *)
OnResponse(m, r, upgraded) ==
    LET awaited == m.stage[r] = "awaiting"
        seen == (IF upgraded /\ mode[r] = "websocket" THEN {"upgraded"} ELSE {})
                \cup (IF awaited /\ mode[r] = "websocket" THEN {"ready"} ELSE {})
    IN  {Mark([m EXCEPT !.stage[r] = IF awaited THEN "streaming" ELSE @], r, seen)}

(* Mutant: the end of the response releases the channel.                   *)
OnResponseEndReleases(m, r) == Freed(Mark(m, r, {"ended", "idle"}), m.chan[r])

(* response-end: the body of an HTTP flow ends.  An upgraded flow destroys *)
(* the browser socket, whose close event follows; one that was not         *)
(* upgraded counts as closed.                                              *)
OnResponseEnd(m, r) ==
    IF mode[r] = "http" THEN {Mark(m, r, {"ended"})}
    ELSE MaybeIdle(Mark(m, r, {"ended", "tearingDown"}
                              \cup (IF "upgraded" \in m.marks[r] THEN {} ELSE {"closed"})), r)

(* idle: the lease of an HTTP flow ends, whether or not its browser has    *)
(* read everything or its request has been sent.                           *)
OnIdle(m, r, c) ==
    IF mode[r] = "websocket" THEN MaybeIdle(Mark(m, r, {"idle"}), r)
    ELSE IF "ended" \notin m.marks[r] THEN {Fail(m, r)}
    ELSE Freed(IF m.stage[r] = "draining" THEN Over(m, r) ELSE Mark(m, r, {"idle"}), c)

OnNodeMessage(m, c, kind) ==
    LET r == m.holder[c] IN
    IF r = None THEN {CloseChannels(m, {c})}
    ELSE CASE kind = "response" -> OnResponse(m, r, FALSE)
           [] kind = "switch" -> OnResponse(m, r, TRUE)
           [] kind = "response-end" -> OnResponseEnd(m, r)
           [] kind = "idle" -> OnIdle(m, r, c)
           [] kind = "abort" -> {CloseChannels(m, {c})}

-----------------------------------------------------------------------------
(* The pool of the node, as functions of its state n *)

Count(n, S) == Cardinality({c \in Chans : n.state[c] \in S})
Least(S, k) == {c \in S : Cardinality({d \in S : d =< c}) =< k}

(* A channel number is used again when neither side refers to it.          *)
Unused(n) == {c \in Chans : /\ n.state[c] = "none" /\ n.out[c] = <<>>
                            /\ mgr.state[c] = "none" /\ mgr.out[c] = <<>>}

(* replenish: dial until enough channels are idle or on their way.         *)
Replenish(n) ==
    LET ready == Count(n, {"idle", "connecting"})
        total == ready + Count(n, {"busy"})
        missing == IF IdleTarget - ready < MaxChannels - total
                   THEN IdleTarget - ready ELSE MaxChannels - total
        dialed == IF n.stopped \/ missing =< 0 THEN {} ELSE Least(Unused(n), missing)
    IN  [n EXCEPT !.state = [c \in Chans |-> IF c \in dialed THEN "connecting" ELSE @[c]],
                  !.out = [c \in Chans |-> IF c \in dialed THEN <<F("upgrade", n.session)>> ELSE @[c]]]

(* The sockets of the channels of S are destroyed.                         *)
Dropped(n, S) ==
    [n EXCEPT !.state = [c \in Chans |-> IF c \in S THEN "none" ELSE @[c]],
              !.flow = [c \in Chans |-> IF c \in S THEN None ELSE @[c]],
              !.step = [c \in Chans |-> IF c \in S THEN "none" ELSE @[c]],
              !.out = [c \in Chans |-> IF c \notin S \/ (mgr.state[c] = "none" /\ @[c] = <<>>) THEN @[c]
                                       ELSE Append(@[c], Fin)]]

(* closeChannel *)
ClosePoolChannel(n, c) == Replenish(Dropped(n, {c}))

NodeSends(n, c, frames) == IF mgr.state[c] = "none" THEN n ELSE [n EXCEPT !.out[c] = @ \o frames]

(* The flow of c has ended and the channel is reported idle.               *)
FlowOver(n, c) ==
    LET r == n.flow[c]
        sent == NodeSends(n, c, <<F("response-end", r), F("idle", r)>>)
    IN  Replenish([sent EXCEPT !.state[c] = "idle", !.flow[c] = None, !.step[c] = "none"])

-----------------------------------------------------------------------------
(* Steps *)

(* The Hub goes to m.  What the node had sent on a channel closed here is  *)
(* lost; sent is what is left of it on the others.                         *)
HubStep(m, sent) ==
    /\ mgr' = m
    /\ node' = [node EXCEPT !.out =
                   [c \in Chans |-> IF mgr.state[c] # "none" /\ m.state[c] = "none" THEN <<>> ELSE sent[c]]]

(* The node goes to n; the same for what the Hub had sent.                 *)
NodeStep(n, sent) ==
    /\ node' = n
    /\ mgr' = [mgr EXCEPT !.out = [c \in Chans |-> IF n.state[c] = "none" THEN <<>> ELSE sent[c]]]

(* What goes as it should, and what fails by itself.                       *)
Calm == UNCHANGED <<mode, session, sessions, trouble>>
Failing == trouble < MaxTrouble /\ trouble' = trouble + 1
Trouble == Failing /\ UNCHANGED <<mode, session, sessions>>

Popped(out, c) == [out EXCEPT ![c] = Tail(@)]

(* Mutant: the waiters of a session outlive it.                            *)
CloseChannelsAlone(m) == CloseChannels(m, {c \in Chans : m.gen[c] = session})

(* The channels of a session that ends are closed and its waiters fail.    *)
CloseChannelsForSession(m) ==
    LET closed == CloseChannels(m, {c \in Chans : m.gen[c] = session})
    IN  [closed EXCEPT !.stage = [r \in Flows |-> IF @[r] = "waiting" THEN "over" ELSE @[r]],
                       !.marks = [r \in Flows |-> IF m.stage[r] = "waiting" THEN {} ELSE @[r]]]

(* A control session becomes ready; it supersedes the one before it.       *)
SessionReady ==
    /\ sessions < MaxSessions
    /\ sessions' = sessions + 1 /\ session' = sessions + 1
    /\ HubStep(IF session = 0 THEN mgr ELSE CloseChannelsForSession(mgr), node.out)
    /\ IF session = 0 THEN UNCHANGED trouble ELSE Failing
    /\ UNCHANGED mode

SessionLost ==
    /\ session # 0
    /\ session' = 0
    /\ HubStep(CloseChannelsForSession(mgr), node.out)
    /\ Failing /\ UNCHANGED <<mode, sessions>>

(* A channel upgrade is accepted when it is bound to the current session   *)
(* and the pool of the node has room.                                      *)
RegisterChannel(c) ==
    /\ node.out[c] # <<>> /\ Head(node.out[c]).kind = "upgrade"
    /\ LET gen == Head(node.out[c]).flow
           refused == \/ session = 0 \/ gen # session
                      \/ Cardinality({d \in Chans : mgr.state[d] # "none"}) >= MaxChannels
       IN  \E m \in IF refused THEN {Send(mgr, c, <<F("refuse", None)>>)}
                     ELSE Freed(Send([mgr EXCEPT !.gen[c] = gen], c, <<F("accept", None)>>), c) :
               HubStep(m, Popped(node.out, c))
    /\ Calm

HubReceives(c) ==
    /\ mgr.state[c] # "none"
    /\ node.out[c] # <<>> /\ Head(node.out[c]) # Fin
    /\ \E m \in OnNodeMessage(mgr, c, Head(node.out[c]).kind) : HubStep(m, Popped(node.out, c))
    /\ Calm

(* The connection ends before the Hub has read all of it.                  *)
HubSeesClose(c) ==
    /\ node.out[c] # <<>> /\ node.out[c][Len(node.out[c])] = Fin
    /\ HubStep(CloseChannels(mgr, {c}), [node.out EXCEPT ![c] = <<>>])
    /\ Calm

(* The Hub closes a channel on its own: a stalled or overrun flow, the     *)
(* revoked credential of its upgrade, a socket error.                      *)
HubCloses(c) ==
    /\ mgr.state[c] # "none"
    /\ HubStep(CloseChannels(mgr, {c}), node.out)
    /\ Trouble

FlowStep(m) == HubStep(m, node.out) /\ Calm

(* A browser request is routed to the node: it claims an idle channel of   *)
(* the session or waits for one.                                           *)
AcquireChannel(r) ==
    /\ mgr.stage[r] = "new"
    /\ \E c \in Chans : mgr.state[c] # "none" /\ mgr.gen[c] = session
    /\ \/ \E c \in IdleChannels(mgr) : FlowStep(Lease(mgr, r, c))
       \/ IdleChannels(mgr) = {} /\ FlowStep([mgr EXCEPT !.stage[r] = "waiting"])

CapacityTimeout(r) ==
    /\ mgr.stage[r] = "waiting"
    /\ FlowStep([mgr EXCEPT !.stage[r] = "over", !.marks[r] = {}])

(* A chunk of the request body, or of an upgraded browser socket, goes out *)
(* on the channel the flow was given, if that is still open.               *)
WriteBody(r) ==
    /\ \/ mgr.stage[r] = "sending"
       \/ {"upgraded", "ready"} \subseteq mgr.marks[r] /\ mgr.marks[r] \cap {"tearingDown", "deaf"} = {}
    /\ mgr.chan[r] # 0 /\ "sent" \notin mgr.marks[r]
    /\ FlowStep(Send(Mark(mgr, r, {"sent"}), mgr.chan[r], <<F("body", r)>>))

FinishSending(r) ==
    /\ mgr.stage[r] = "sending" /\ mgr.chan[r] # 0
    /\ FlowStep(Send([mgr EXCEPT !.stage[r] = "awaiting"], mgr.chan[r], <<F("request-end", r)>>))

(* The channel of a request being sent is closed: the next write fails.    *)
WriteFails(r) ==
    /\ mgr.stage[r] = "sending" /\ mgr.chan[r] = 0
    /\ FlowStep(Fail(mgr, r))

(* Mutant: a request without a response is waited for without a timer.     *)
ResponseTimeoutNever(r) == FALSE

(* 30 s after the request without a response head, or, for a WebSocket     *)
(* that is already being torn down, only the end of the wait.              *)
ResponseTimeout(r) ==
    /\ mgr.stage[r] = "awaiting"
    /\ FlowStep(IF "tearingDown" \in mgr.marks[r] THEN [mgr EXCEPT !.stage[r] = "over"]
                ELSE IF mode[r] = "http" THEN Fail(mgr, r) ELSE Abort(mgr, r))

(* The browser has read what is queued: the flow waits for the idle        *)
(* report, if it is not in.                                                *)
BodyRead(r) ==
    /\ mode[r] = "http" /\ mgr.stage[r] = "streaming" /\ "ended" \in mgr.marks[r]
    /\ FlowStep(IF "idle" \in mgr.marks[r] \/ mgr.chan[r] = 0 THEN Over(mgr, r)
                ELSE [mgr EXCEPT !.stage[r] = "draining"])

(* The node does not report idle, or the browser socket closes before it   *)
(* does: the channel is closed.                                            *)
IdleTimeout(r) == mgr.stage[r] = "draining" /\ FlowStep(Fail(mgr, r))

(* The browser of an HTTP flow goes away.  A flow that is still sending or *)
(* awaiting on a closed channel fails by itself.                           *)
BrowserLeaves(r) ==
    /\ mode[r] = "http"
    /\ \/ mgr.stage[r] = "waiting" /\ FlowStep(Fail(mgr, r))
       \/ /\ mgr.stage[r] \in {"sending", "awaiting", "streaming", "draining"} /\ mgr.chan[r] # 0
          /\ FlowStep(Abort(mgr, r))
       \/ mgr.stage[r] = "streaming" /\ mgr.chan[r] = 0 /\ FlowStep(Fail(mgr, r))

(* The browser socket of a WebSocket flow closes.                          *)
BrowserCloses(r) ==
    /\ mode[r] = "websocket" /\ mgr.chan[r] # 0 /\ mgr.marks[r] \cap {"closed", "deaf"} = {}
    /\ LET told == IF "tearingDown" \in mgr.marks[r] THEN mgr
                   ELSE Send(mgr, mgr.chan[r], <<F("abort", r)>>)
       IN  \E m \in MaybeIdle(Mark(told, r, {"closed", "tearingDown"}), r) : FlowStep(m)

(* It closes while the flow waits for a channel: nobody listens yet.       *)
BrowserClosesUnheard(r) ==
    /\ mode[r] = "websocket" /\ mgr.stage[r] = "waiting" /\ "deaf" \notin mgr.marks[r]
    /\ FlowStep(Mark(mgr, r, {"deaf"}))

-----------------------------------------------------------------------------
(* The node *)

SetSession ==
    /\ session # 0 /\ node.stopped /\ session > node.session
    /\ NodeStep(Replenish([node EXCEPT !.session = session, !.stopped = FALSE]), mgr.out)
    /\ Calm

(* The control connection is lost: every channel is destroyed.  The Hub    *)
(* has closed the session, or the connection fails at the node first.      *)
ClearSession ==
    /\ ~node.stopped
    /\ LET held == {c \in Chans : node.state[c] # "none"}
       IN  NodeStep([Dropped(node, held) EXCEPT !.stopped = TRUE], mgr.out)
    /\ IF node.session = session THEN Trouble ELSE Calm

(* The 1 s timer of a pool that is short.                                  *)
ReplenishAgain ==
    /\ Replenish(node) # node
    /\ NodeStep(Replenish(node), mgr.out)
    /\ Calm

HandshakeAnswered(c) ==
    /\ node.state[c] = "connecting" /\ mgr.out[c] # <<>>
    /\ LET n == IF Head(mgr.out[c]).kind = "accept" THEN Replenish([node EXCEPT !.state[c] = "idle"])
                ELSE ClosePoolChannel(node, c)
       IN  NodeStep(n, Popped(mgr.out, c))
    /\ Calm

(* executeFlow: the request to DSH is under way.                           *)
Executing(n, c, r) == [n EXCEPT !.state[c] = "busy", !.flow[c] = r, !.step[c] = "requested"]

(* A frame of the Hub at an open channel.  OPEN starts a request at DSH,   *)
(* or closes a channel that is busy.  An abort never matches the flow of   *)
(* the channel, which keeps no requestId.                                  *)
OnHubMessage(c, f) ==
    CASE f.kind = "open" /\ node.state[c] = "idle" ->
            Executing(node, c, f.flow)
      [] f.kind \in {"request-end", "abort"} \/ (f.kind = "body" /\ node.flow[c] # None) -> node
      [] OTHER -> ClosePoolChannel(node, c)

NodeReceives(c) ==
    /\ node.state[c] \in {"idle", "busy"} /\ mgr.out[c] # <<>>
    /\ NodeStep(OnHubMessage(c, Head(mgr.out[c])), Popped(mgr.out, c))
    /\ Calm

(* The proof of OPEN does not verify, or the DSH target cannot be called.  *)
OpenDenied(c) ==
    /\ node.state[c] = "idle" /\ mgr.out[c] # <<>> /\ Head(mgr.out[c]).kind = "open"
    /\ NodeStep(ClosePoolChannel(NodeSends(node, c, <<F("abort", Head(mgr.out[c]).flow)>>), c), mgr.out)
    /\ Trouble

NodeSeesClose(c) ==
    /\ node.state[c] # "none" /\ mgr.out[c] # <<>> /\ mgr.out[c][Len(mgr.out[c])] = Fin
    /\ NodeStep(ClosePoolChannel(node, c), mgr.out)
    /\ Calm

(* DSH answers: a response, which need not wait for the end of the request *)
(* body, or 101 to a WebSocket upgrade.                                    *)
DshResponds(c) ==
    /\ node.step[c] = "requested"
    /\ \E answer \in {"response"} \cup (IF mode[node.flow[c]] = "websocket" THEN {"switch"} ELSE {}) :
          NodeStep([NodeSends(node, c, <<F(answer, node.flow[c])>>) EXCEPT
                      !.step[c] = IF answer = "switch" THEN "upgraded" ELSE "responding"], mgr.out)
    /\ Calm

(* The response ends, or DSH closes the upgraded socket.                   *)
DshEnds(c) ==
    /\ node.step[c] \in {"responding", "upgraded"}
    /\ NodeStep(FlowOver(node, c), mgr.out)
    /\ Calm

(* The request to DSH fails, times out or overruns its queue.              *)
DshFails(c) ==
    /\ node.state[c] = "busy"
    /\ NodeStep(ClosePoolChannel(NodeSends(node, c, <<F("abort", node.flow[c])>>), c), mgr.out)
    /\ Trouble

NodeSocketFails(c) ==
    /\ node.state[c] # "none"
    /\ NodeStep(ClosePoolChannel(node, c), mgr.out)
    /\ Trouble

Channel(c) ==
    \/ RegisterChannel(c) \/ HubReceives(c) \/ HubSeesClose(c)
    \/ HandshakeAnswered(c) \/ NodeReceives(c) \/ NodeSeesClose(c)
    \/ DshResponds(c) \/ DshEnds(c)
ChannelFails(c) == HubCloses(c) \/ OpenDenied(c) \/ DshFails(c) \/ NodeSocketFails(c)

Flow(r) ==
    \/ FinishSending(r) \/ BodyRead(r)
    \/ CapacityTimeout(r) \/ WriteFails(r) \/ ResponseTimeout(r) \/ IdleTimeout(r)
Browser(r) ==
    AcquireChannel(r) \/ WriteBody(r) \/ BrowserLeaves(r) \/ BrowserCloses(r) \/ BrowserClosesUnheard(r)

Next ==
    \/ SessionReady \/ SessionLost \/ SetSession \/ ClearSession \/ ReplenishAgain
    \/ \E c \in Chans : Channel(c) \/ ChannelFails(c)
    \/ \E r \in Flows : Flow(r) \/ Browser(r)

Spec == Init /\ [][Next]_vars

(* Sockets deliver, DSH answers and ends what it answers, timers fire, and *)
(* a browser finishes its request and reads.                               *)
Fairness ==
    /\ \A c \in Chans : WF_vars(Channel(c))
    /\ \A r \in Flows : WF_vars(Flow(r))

FairSpec == Spec /\ Fairness

-----------------------------------------------------------------------------
(* Properties *)

(* A channel the manager hands out as idle is one the node is done with:   *)
(* no request of an earlier flow runs at its DSH.                          *)
IdleMeansFree ==
    \A c \in Chans : mgr.state[c] = "idle" => node.state[c] # "busy"

(* What the node answers on a leased channel belongs to the flow that      *)
(* holds the lease, across releases, closes and redials: no browser is     *)
(* given the response, the bytes or the idle report of another one.        *)
ResponseReachesItsFlow ==
    \A c \in Chans : mgr.state[c] = "busy" =>
        \A i \in 1 .. Len(node.out[c]) :
            node.out[c][i].kind \in {"response", "switch", "response-end", "idle"} =>
                node.out[c][i].flow = mgr.holder[c]

(* Channels and waiting requests do not outlive the control session they   *)
(* are bound to.                                                           *)
BoundToSession ==
    /\ \A c \in Chans : mgr.state[c] # "none" => session # 0 /\ mgr.gen[c] = session
    /\ Waiters(mgr) # {} => session # 0

(* No lost wake-up: a request does not wait for capacity while a channel   *)
(* of its session is idle.                                                 *)
NoneWaitsBesideIdle == Waiters(mgr) # {} => IdleChannels(mgr) = {}

(* A browser HTTP request is always answered, refused or given up: an      *)
(* early response that was dropped, a lost session or a broken channel     *)
(* leaves nobody waiting for ever.                                         *)
HttpFlowsEnd ==
    \A r \in Flows : (mode[r] = "http" /\ mgr.stage[r] # "new") ~> (mgr.stage[r] = "over")

(* "one browser flow per channel at a time": what the node reads of a      *)
(* request body goes to the request that runs on the channel.              *)
BodyReachesItsRequest ==
    \A c \in Chans : node.state[c] = "busy" /\ mgr.out[c] # <<>> =>
        LET f == Head(mgr.out[c])
        IN  f.kind \in {"body", "request-end"} => f.flow = node.flow[c]

(* A flow's response comes to it alone, and nothing of a flow outlives     *)
(* the session its channel was dialled for.                                *)
FlowsStayApart == ResponseReachesItsFlow /\ BoundToSession

(* The invariant of the pool: its maps are well formed, and what it calls  *)
(* idle the node calls idle too.                                           *)
PoolSound == TypeOK /\ IdleMeansFree
=============================================================================
