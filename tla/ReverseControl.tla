--------------------------- MODULE ReverseControl ---------------------------
(***************************************************************************)
(* The reverse control connection of one node: the session manager of the  *)
(* Hub (src/registry/reverse-session.mjs) and the reverse client of the    *)
(* node (src/node/reverse-client.mjs) over TCP connections that may be     *)
(* refused, closed from either side or cut silently.  The manager's maps   *)
(* are keyed by node and no operation touches two nodes.                   *)
(*                                                                         *)
(* The client suspends at the await of probeDshTransport; what follows the *)
(* await runs later against whatever the client's fields are then.  A      *)
(* connection and the session on it share one identifier, which is used    *)
(* again once neither side refers to it.  Frames of one connection arrive  *)
(* in order.  Pings and pongs are left to their outcome: a session whose   *)
(* connection is cut runs into the pong timeout.                           *)
(***************************************************************************)
EXTENDS Integers, Sequences, FiniteSets

CONSTANTS
    Ids,          \* connections
    None,         \* no connection
    MaxQueue,     \* bound of the frames in flight on one connection
    MaxAwaits,    \* bound of suspended session handlers, and of suspended polls
    MaxCuts,      \* how many connections are cut silently
    MaxTrouble    \* how often DSH goes up or down or the Hub drops the node

ASSUME ControlAssumption ==
    /\ None \notin Ids
    /\ MaxQueue \in Nat /\ MaxAwaits \in Nat /\ MaxCuts \in Nat /\ MaxTrouble \in Nat

VARIABLES
    conn,       \* the TCP connections and their upgrade
    cut,        \* connections that carry nothing any more
    mgr,        \* the Hub: sess, current, pending, out (frames to the node)
    toHub,      \* frames on their way to the Hub
    client,     \* the fields of the ReverseClient
    awaits,     \* its suspended calls: session handlers and polls
    dsh,        \* the local DSH answers
    cuts,       \* cuts so far
    trouble     \* disturbances so far

vars == <<conn, cut, mgr, toHub, client, awaits, dsh, cuts, trouble>>

-----------------------------------------------------------------------------

Readiness == {"up", "down"}

Session == [state : {"none", "pending", "ready", "closed"}, superseded : BOOLEAN, routeReady : Readiness]
Message == [type : {"ready", "status", "close"}, routeReady : Readiness]

NoSession == [state |-> "none", superseded |-> FALSE, routeReady |-> "down"]

TypeOK ==
    /\ conn \in [Ids -> {"free", "dialing", "requested", "open", "denied"}]
    /\ cut \in [Ids -> BOOLEAN]
    /\ mgr.sess \in [Ids -> Session] /\ mgr.current \in Ids \cup {None} /\ mgr.pending \subseteq Ids
    /\ \A s \in Ids : mgr.out[s] \in Seq({"session", "close"}) /\ toHub[s] \in Seq(Message)
    /\ client \in [stopped : BOOLEAN, socket : Ids \cup {None}, sessionId : Ids \cup {None},
                   lastReported : Readiness \cup {"null"}, interval : BOOLEAN, leaked : BOOLEAN,
                   reconnect : BOOLEAN, pool : Ids \cup {None}]
    /\ awaits \in [sessions : 0 .. MaxAwaits, polls : 0 .. MaxAwaits]
    /\ dsh \in Readiness /\ cuts \in 0 .. MaxCuts /\ trouble \in 0 .. MaxTrouble

(* start() connects at once, as a reconnect timer does when it fires.      *)
NewClient == [stopped |-> FALSE, socket |-> None, sessionId |-> None, lastReported |-> "null",
              interval |-> FALSE, leaked |-> FALSE, reconnect |-> TRUE, pool |-> None]

Init ==
    /\ conn = [s \in Ids |-> "free"]
    /\ cut = [s \in Ids |-> FALSE]
    /\ mgr = [sess |-> [s \in Ids |-> NoSession], current |-> None, pending |-> {},
              out |-> [s \in Ids |-> <<>>]]
    /\ toHub = [s \in Ids |-> <<>>]
    /\ client = NewClient
    /\ awaits = [sessions |-> 0, polls |-> 0]
    /\ dsh \in Readiness /\ cuts = 0 /\ trouble = 0

-----------------------------------------------------------------------------
(* The session manager, as functions of its state m *)

IsOpen(m, s) == m.sess[s].state \in {"pending", "ready"}

(* A session that is closed sends nothing.                                 *)
SendFrame(m, s, frame) == IF IsOpen(m, s) THEN Append(m.out[s], frame) ELSE m.out[s]

(* Mutant: whoever closes clears the entry of the node. *)
CloseSessionsUnowned(m, S, fromPeer) ==
    LET open == {s \in S : IsOpen(m, s)}
        c == [m EXCEPT !.sess = [s \in Ids |-> IF s \in open THEN [m.sess[s] EXCEPT !.state = "closed"]
                                                              ELSE m.sess[s]],
                       !.current = IF open = {} THEN m.current ELSE None,
                       !.pending = m.pending \ open]
    IN  c

(* ReverseSession.close for every session of S that is still open: the     *)
(* bookkeeping first, then the close frame unless the peer is gone.        *)
CloseSessions(m, S, fromPeer) ==
    LET open == {s \in S : IsOpen(m, s)}
        c == [m EXCEPT !.sess = [s \in Ids |-> IF s \in open THEN [m.sess[s] EXCEPT !.state = "closed"]
                                                              ELSE m.sess[s]],
                       !.current = IF m.current \in open THEN None ELSE m.current,
                       !.pending = m.pending \ open]
    IN  [c EXCEPT !.out = [s \in Ids |-> IF s \in open /\ ~ fromPeer THEN SendFrame(c, s, "close")
                                                                      ELSE c.out[s]]]

(* Mutant: the old generation is left open. *)
PromoteBeside(m, s) == [m EXCEPT !.sess[s].state = "ready", !.current = s, !.pending = m.pending \ {s}]

(* The new generation becomes current, then the old one is closed.         *)
Promote(m, s) ==
    LET p == [m EXCEPT !.sess[s].state = "ready", !.current = s, !.pending = m.pending \ {s}]
    IN  IF m.current = None THEN p
        ELSE CloseSessions([p EXCEPT !.sess[m.current].superseded = TRUE], {m.current}, FALSE)

OnControlMessage(m, s, message) ==
    IF ~ IsOpen(m, s) \/ m.sess[s].superseded THEN m
    ELSE CASE message.type = "close" -> CloseSessions(m, {s}, TRUE)
           [] message.type = "ready" /\ m.sess[s].state = "ready" -> CloseSessions(m, {s}, FALSE)
           [] message.type = "ready" /\ m.sess[s].state = "pending" ->
                 Promote([m EXCEPT !.sess[s].routeReady = message.routeReady], s)
           [] message.type = "status" /\ m.sess[s].state = "pending" -> CloseSessions(m, {s}, FALSE)
           [] message.type = "status" /\ m.sess[s].state = "ready" ->
                 [m EXCEPT !.sess[s].routeReady = message.routeReady]

Opened(m, s) == [m EXCEPT !.sess[s] = [NoSession EXCEPT !.state = "pending"], !.out[s] = <<"session">>]

(* Mutant: earlier pending connections are kept. *)
AcceptUpgradeBeside(m, s, head) ==
    LET o == Opened(m, s)
        h == IF head = <<>> THEN o ELSE OnControlMessage(o, s, head[1])
    IN  IF IsOpen(h, s) THEN [h EXCEPT !.pending = h.pending \cup {s}] ELSE h

(* registerUpgrade: every session in the pending set is closed; frames     *)
(* that came along with the upgrade request are handled before the new     *)
(* session is added to that set.                                           *)
AcceptUpgrade(m, s, head) ==
    LET o == Opened(CloseSessions(m, m.pending, FALSE), s)
        h == IF head = <<>> THEN o ELSE OnControlMessage(o, s, head[1])
    IN  IF IsOpen(h, s) THEN [h EXCEPT !.pending = h.pending \cup {s}] ELSE h

-----------------------------------------------------------------------------
(* Steps of the Hub *)

(* The first frame may come in one chunk with the request (head); later    *)
(* ones make no difference to registerUpgrade.                             *)
RegisterUpgrade(s) ==
    /\ conn[s] = "requested" /\ ~ cut[s]
    /\ \E n \in {0, 1} :
          /\ n <= Len(toHub[s])
          /\ mgr' = AcceptUpgrade(mgr, s, SubSeq(toHub[s], 1, n))
          /\ toHub' = [toHub EXCEPT ![s] = SubSeq(@, n + 1, Len(@))]
    /\ conn' = [conn EXCEPT ![s] = "open"]
    /\ UNCHANGED <<cut, client, awaits, dsh, cuts, trouble>>

(* Authentication or the rate limiter refuses the upgrade.                 *)
DenyUpgrade(s) ==
    /\ trouble < MaxTrouble
    /\ conn[s] = "requested" /\ ~ cut[s]
    /\ conn' = [conn EXCEPT ![s] = "denied"]
    /\ trouble' = trouble + 1
    /\ UNCHANGED <<cut, mgr, toHub, client, awaits, dsh, cuts>>

HubReceives(s) ==
    /\ conn[s] = "open" /\ ~ cut[s]
    /\ toHub[s] # <<>>
    /\ mgr' = OnControlMessage(mgr, s, Head(toHub[s]))
    /\ toHub' = [toHub EXCEPT ![s] = Tail(@)]
    /\ UNCHANGED <<conn, cut, client, awaits, dsh, cuts, trouble>>

HubCloses(S, fromPeer) ==
    /\ \E s \in S : IsOpen(mgr, s)
    /\ mgr' = CloseSessions(mgr, S, fromPeer)
    /\ UNCHANGED <<conn, cut, toHub, client, awaits, dsh, cuts>>

(* 'end', 'close' or 'error' of the socket after the node has dropped it.  *)
SocketEnds(s) == client.socket # s /\ conn[s] = "open" /\ ~ cut[s] /\ HubCloses({s}, TRUE) /\ UNCHANGED trouble

(* The ready timer runs from the upgrade until the promotion.  It allows   *)
(* ten times what a probe takes: while the node still works on the session *)
(* it fires only in trouble.                                               *)
ReadyTimeout(s) ==
    /\ mgr.sess[s].state = "pending"
    /\ HubCloses({s}, FALSE)
    /\ \/ (cut[s] \/ client.socket # s) /\ UNCHANGED trouble
       \/ trouble < MaxTrouble /\ trouble' = trouble + 1

PongTimeout(s) == cut[s] /\ HubCloses({s}, FALSE) /\ UNCHANGED trouble

(* closeSessionsForNode and closeAll take every session of the node: the   *)
(* operator disconnects or deletes it, or the Hub shuts down.              *)
(* closeSessionsForCredential takes those authenticated by a revoked key.  *)
CloseSessionsForNode ==
    /\ trouble < MaxTrouble
    /\ \E S \in SUBSET ({s \in Ids : s = mgr.current} \cup mgr.pending) : HubCloses(S, FALSE)
    /\ trouble' = trouble + 1

-----------------------------------------------------------------------------
(* Steps of the node *)

(* destroySocket; a connection that was never set up leaves nothing.       *)
Dropped == [s \in Ids |-> IF s = client.socket /\ conn[s] = "dialing" THEN "free" ELSE conn[s]]

Lost ==
    [client EXCEPT !.pool = None, !.sessionId = None, !.socket = None, !.lastReported = "null",
                   !.interval = FALSE, !.reconnect = client.reconnect \/ ~ client.stopped]

OnConnectionLost ==
    /\ client' = Lost
    /\ conn' = Dropped
    /\ UNCHANGED <<cut, mgr, toHub, awaits, dsh, cuts>>

Unused(s) ==
    /\ s # client.socket
    /\ \/ conn[s] \in {"free", "denied"}
       \/ conn[s] = "requested" /\ cut[s]
       \/ conn[s] = "open" /\ ~ IsOpen(mgr, s)

(* The reconnect timer fires.                                              *)
AttemptConnect(s) ==
    /\ client.reconnect /\ ~ client.stopped
    /\ client.socket = None
    /\ Unused(s)
    /\ client' = [client EXCEPT !.reconnect = FALSE, !.socket = s]
    /\ conn' = [conn EXCEPT ![s] = "dialing"]
    /\ cut' = [cut EXCEPT ![s] = FALSE]
    /\ mgr' = [mgr EXCEPT !.sess[s] = NoSession, !.out[s] = <<>>]
    /\ toHub' = [toHub EXCEPT ![s] = <<>>]
    /\ UNCHANGED <<awaits, dsh, cuts, trouble>>

(* The socket connects and the upgrade request is written.  Frames written *)
(* before are ahead of it on the wire, where the Hub's HTTP parser refuses *)
(* them.                                                                   *)
Connected(s) ==
    /\ conn[s] = "dialing"
    /\ conn' = [conn EXCEPT ![s] = IF toHub[s] = <<>> THEN "requested" ELSE "denied"]
    /\ UNCHANGED <<cut, mgr, toHub, client, awaits, dsh, cuts, trouble>>

DialFails(s) ==
    /\ trouble < MaxTrouble
    /\ conn[s] = "dialing"
    /\ OnConnectionLost
    /\ trouble' = trouble + 1

(* onHandshakeResponse with a status other than 101.                       *)
UpgradeDenied(s) ==
    /\ client.socket = s /\ conn[s] = "denied"
    /\ client' = [client EXCEPT !.socket = None, !.reconnect = client.reconnect \/ ~ client.stopped]
    /\ UNCHANGED <<conn, cut, mgr, toHub, awaits, dsh, cuts, trouble>>

(* The session message arrives; the handler suspends in its probe.         *)
ReceiveSession(s) ==
    /\ client.socket = s /\ conn[s] = "open" /\ ~ cut[s]
    /\ mgr.out[s] # <<>>
    /\ Head(mgr.out[s]) = "session"
    /\ awaits.sessions < MaxAwaits
    /\ mgr' = [mgr EXCEPT !.out[s] = Tail(@)]
    /\ client' = [client EXCEPT !.sessionId = s]
    /\ awaits' = [awaits EXCEPT !.sessions = @ + 1]
    /\ UNCHANGED <<conn, cut, toHub, dsh, cuts, trouble>>

(* sendJson on the socket the client has by now, if any.                   *)
SendJson(message) ==
    IF client.socket = None THEN UNCHANGED toHub
    ELSE /\ Len(toHub[client.socket]) < MaxQueue
         /\ toHub' = [toHub EXCEPT ![client.socket] = Append(@, message)]

(* The session handler goes on: it answers ready, hands the session to the *)
(* channel pool and starts a readiness timer over whatever timer is there. *)
SessionProbed ==
    /\ awaits.sessions > 0
    /\ SendJson([type |-> "ready", routeReady |-> dsh])
    /\ client' = [client EXCEPT !.lastReported = dsh, !.pool = client.sessionId,
                                !.interval = TRUE, !.leaked = client.leaked \/ client.interval]
    /\ awaits' = [awaits EXCEPT !.sessions = @ - 1]
    /\ UNCHANGED <<conn, cut, mgr, dsh, cuts, trouble>>

(* A readiness timer fires: its callback suspends in its probe.            *)
PollStarts ==
    /\ client.interval \/ client.leaked
    /\ awaits.polls < MaxAwaits
    /\ awaits' = [awaits EXCEPT !.polls = @ + 1]
    /\ UNCHANGED <<conn, cut, mgr, toHub, client, dsh, cuts, trouble>>

(* Mutant: a change is noted but not reported. *)
PollProbedSilently ==
    /\ awaits.polls > 0
    /\ awaits' = [awaits EXCEPT !.polls = @ - 1]
    /\ client' = [client EXCEPT !.lastReported = IF client.socket # None THEN dsh ELSE @]
    /\ UNCHANGED <<conn, cut, mgr, toHub, dsh, cuts, trouble>>

(* Mutant: the readiness of the last report is sent. *)
PollProbedLate ==
    /\ awaits.polls > 0
    /\ awaits' = [awaits EXCEPT !.polls = @ - 1]
    /\ IF dsh # client.lastReported /\ client.socket # None
       THEN /\ SendJson([type |-> "status", routeReady |-> client.lastReported])
            /\ client' = [client EXCEPT !.lastReported = dsh]
       ELSE UNCHANGED <<toHub, client>>
    /\ UNCHANGED <<conn, cut, mgr, dsh, cuts, trouble>>

(* The callback goes on: it reports a change.                              *)
PollProbed ==
    /\ awaits.polls > 0
    /\ awaits' = [awaits EXCEPT !.polls = @ - 1]
    /\ IF dsh # client.lastReported /\ client.socket # None
       THEN /\ SendJson([type |-> "status", routeReady |-> dsh])
            /\ client' = [client EXCEPT !.lastReported = dsh]
       ELSE UNCHANGED <<toHub, client>>
    /\ UNCHANGED <<conn, cut, mgr, dsh, cuts, trouble>>

(* The node sees that the Hub has closed the connection.                   *)
ConnectionCloses(s) ==
    /\ client.socket = s /\ conn[s] = "open" /\ ~ cut[s]
    /\ ~ IsOpen(mgr, s)
    /\ OnConnectionLost
    /\ UNCHANGED trouble

(* The node's TCP gives up a connection that is cut.                       *)
ConnectionFails(s) ==
    /\ client.socket = s /\ cut[s]
    /\ OnConnectionLost
    /\ UNCHANGED trouble

(* stop(): the daemon switches to direct mode or ends.                     *)
Stop ==
    /\ ~ client.stopped
    /\ trouble < MaxTrouble
    /\ client' = [client EXCEPT !.stopped = TRUE, !.pool = None, !.sessionId = None, !.socket = None,
                                !.interval = FALSE, !.reconnect = FALSE]
    /\ toHub' = IF client.socket = None THEN toHub
                ELSE [toHub EXCEPT ![client.socket] = Append(@, [type |-> "close", routeReady |-> "down"])]
    /\ conn' = Dropped
    /\ trouble' = trouble + 1
    /\ UNCHANGED <<cut, mgr, awaits, dsh, cuts>>

(* The daemon switches back to reverse mode with a new client object; what *)
(* the old object still has suspended finds no socket there.               *)
StartReverseTransport ==
    /\ client.stopped
    /\ client' = NewClient
    /\ awaits' = [sessions |-> 0, polls |-> 0]
    /\ UNCHANGED <<conn, cut, mgr, toHub, dsh, cuts, trouble>>

-----------------------------------------------------------------------------
(* Surroundings *)

DshChanges ==
    /\ trouble < MaxTrouble
    /\ dsh' \in Readiness \ {dsh}
    /\ trouble' = trouble + 1
    /\ UNCHANGED <<conn, cut, mgr, toHub, client, awaits, cuts>>

Sever(s) ==
    /\ cuts < MaxCuts
    /\ conn[s] \in {"requested", "open"} /\ ~ cut[s]
    /\ cut' = [cut EXCEPT ![s] = TRUE]
    /\ cuts' = cuts + 1
    /\ UNCHANGED <<conn, mgr, toHub, client, awaits, dsh, trouble>>

Next ==
    \/ \E s \in Ids :
          \/ RegisterUpgrade(s) \/ DenyUpgrade(s) \/ HubReceives(s)
          \/ SocketEnds(s) \/ ReadyTimeout(s) \/ PongTimeout(s)
          \/ AttemptConnect(s) \/ Connected(s) \/ DialFails(s) \/ UpgradeDenied(s)
          \/ ReceiveSession(s) \/ ConnectionCloses(s) \/ ConnectionFails(s)
          \/ Sever(s)
    \/ CloseSessionsForNode
    \/ SessionProbed \/ PollStarts \/ PollProbed
    \/ Stop \/ StartReverseTransport
    \/ DshChanges

Spec == Init /\ [][Next]_vars

(* Timers fire and sockets deliver.  A connection that is cut is noticed   *)
(* by the node only if it has something to send.                           *)
Fairness ==
    /\ \A s \in Ids :
          /\ WF_vars(RegisterUpgrade(s)) /\ WF_vars(HubReceives(s)) /\ WF_vars(SocketEnds(s))
          /\ WF_vars(PongTimeout(s)) /\ WF_vars(Connected(s)) /\ WF_vars(UpgradeDenied(s))
          /\ WF_vars(ReceiveSession(s)) /\ WF_vars(ConnectionCloses(s))
          /\ WF_vars(toHub[s] # <<>> /\ ConnectionFails(s))
    /\ WF_vars(\E s \in Ids : AttemptConnect(s))
    /\ WF_vars(SessionProbed) /\ WF_vars(PollStarts) /\ WF_vars(PollProbed)

(* A poll left over from an earlier connection that ends within a          *)
(* handshake spoils it.  Polls are 10 seconds apart, a handshake takes a   *)
(* fraction of that and the reconnect delay has a random share: this does  *)
(* not happen to one attempt after the other for ever.                     *)
StrayPoll == PollProbed /\ client.lastReported = "null" /\ client.socket # None

StraysMiss == <>[][~ StrayPoll]_vars

FairSpec == Spec /\ Fairness /\ StraysMiss

-----------------------------------------------------------------------------
(* Properties *)

(* One generation: whatever is delivered late, twice or after a takeover,  *)
(* the current session is a ready one that nobody has superseded, and no   *)
(* other session is ready: route traffic has exactly one place to go.      *)
OneGeneration ==
    /\ mgr.current # None =>
          mgr.sess[mgr.current].state = "ready" /\ ~ mgr.sess[mgr.current].superseded
    /\ \A s \in Ids : mgr.sess[s].state = "ready" => s = mgr.current

(* Every session that is open can be reached by closeSessionsForNode, and  *)
(* at most one of them is waiting for its ready.                           *)
PendingBounded ==
    /\ \A s \in Ids : mgr.sess[s].state = "pending" => s \in mgr.pending
    /\ \A s \in mgr.pending : IsOpen(mgr, s)
    /\ Cardinality({s \in Ids : mgr.sess[s].state = "pending"}) <= 1

(* RFC-0012 "ignores all late events": frames, ends and timeouts of a   *)
(* session that is not the current one change the current session only by  *)
(* its own promotion.                                                      *)
LateEventsIgnored ==
    [][\A s \in Ids :
          /\ mgr.current # s
          /\ HubReceives(s) \/ SocketEnds(s) \/ ReadyTimeout(s) \/ PongTimeout(s)
          => \/ mgr'.current = mgr.current
             \/ mgr'.current = s /\ mgr.sess[s].state = "pending"]_vars

Online ==
    /\ mgr.current # None
    /\ mgr.current = client.socket
    /\ mgr.current = client.pool
    /\ mgr.sess[mgr.current].routeReady = dsh

(* Once the disturbances are over a running node is online, on the very    *)
(* connection that it regards as its own, and the Hub has its true         *)
(* readiness; or it sits on a connection that is cut.                      *)
SettlesUnlessCut ==
    <>[](\/ client.stopped
         \/ Online
         \/ client.socket # None /\ cut[client.socket])

(* The invariant of the session manager: its maps are well formed, one     *)
(* generation is ready and at most one is on its way to replace it.        *)
GenerationsInOrder == TypeOK /\ OneGeneration /\ PendingBounded
=============================================================================
