------------------------ MODULE ReverseControlProofs ------------------------
(***************************************************************************)
(* Proofs about ReverseControl, for every set of connections and every     *)
(* bound: the session manager keeps one generation in order, and what      *)
(* arrives late does not touch it.                                         *)
(***************************************************************************)
EXTENDS ReverseControl, FiniteSetTheorems, SequenceTheorems, TLAPS

-----------------------------------------------------------------------------
(* The session manager, as functions of its state m *)

Manager == [sess : [Ids -> Session], current : Ids \cup {None}, pending : SUBSET Ids,
            out : [Ids -> Seq({"session", "close"})]]

(* Generations in order.  While an upgrade is being accepted its session x *)
(* is not in the pending set yet.                                          *)
InOrder(m, x) ==
    /\ m \in Manager
    /\ m.current # None => m.sess[m.current].state = "ready"
    /\ \A s \in Ids : IsOpen(m, s) => ~ m.sess[s].superseded
    /\ \A s \in Ids : m.sess[s].state = "ready" => s = m.current
    /\ \A s \in Ids : m.sess[s].state = "pending" => s \in m.pending \cup {x}
    /\ \A s \in m.pending : IsOpen(m, s)
    /\ \A s, t \in Ids : m.sess[s].state = "pending" /\ m.sess[t].state = "pending" => s = t

(* What a close changes.                                                   *)
LEMMA CloseChanges ==
    ASSUME NEW m \in Manager, NEW S \in SUBSET Ids, NEW fromPeer \in BOOLEAN,
           NEW c, c = CloseSessions(m, S, fromPeer)
    PROVE  /\ c \in Manager
           /\ \A s \in Ids : /\ c.sess[s].state = IF s \in S /\ IsOpen(m, s) THEN "closed" ELSE m.sess[s].state
                             /\ c.sess[s].superseded = m.sess[s].superseded
           /\ c.current = IF m.current \in S /\ IsOpen(m, m.current) THEN None ELSE m.current
           /\ c.pending = {s \in m.pending : ~ (s \in S /\ IsOpen(m, s))}
<1> DEFINE open == {s \in S : IsOpen(m, s)}
           sess == [s \in Ids |-> IF s \in open THEN [m.sess[s] EXCEPT !.state = "closed"] ELSE m.sess[s]]
           b == [m EXCEPT !.sess = sess,
                          !.current = IF m.current \in open THEN None ELSE m.current,
                          !.pending = m.pending \ open]
           out == [s \in Ids |-> IF s \in open /\ ~ fromPeer THEN SendFrame(b, s, "close") ELSE b.out[s]]
<1>1. /\ sess \in [Ids -> Session]
      /\ \A s \in Ids : /\ sess[s].state = IF s \in open THEN "closed" ELSE m.sess[s].state
                        /\ sess[s].superseded = m.sess[s].superseded
  BY DEF Manager, Session
<1>2. /\ b \in Manager /\ b.sess = sess /\ b.out = m.out
      /\ b.current = IF m.current \in open THEN None ELSE m.current
      /\ b.pending = m.pending \ open
  BY <1>1 DEF Manager
<1>3. c = [b EXCEPT !.out = out]
  BY DEF CloseSessions
<1>4. out \in [Ids -> Seq({"session", "close"})]
  <2>1. \A s \in Ids : b.out[s] \in Seq({"session", "close"})
    BY <1>2 DEF Manager
  <2> HIDE DEF b
  <2>2. \A s \in Ids : SendFrame(b, s, "close") \in Seq({"session", "close"})
    BY <2>1 DEF SendFrame
  <2> QED
    BY <2>1, <2>2
<1> HIDE DEF b, out, sess
<1>5. /\ c \in Manager /\ c.sess = sess /\ c.current = b.current /\ c.pending = b.pending
  BY <1>2, <1>3, <1>4 DEF Manager
<1> QED
  BY <1>1, <1>2, <1>5

LEMMA CloseKeepsOrder ==
    ASSUME NEW m, NEW x, InOrder(m, x), NEW S \in SUBSET Ids, NEW fromPeer \in BOOLEAN
    PROVE  /\ InOrder(CloseSessions(m, S, fromPeer), x)
           /\ \A s \in Ids : IsOpen(CloseSessions(m, S, fromPeer), s) => IsOpen(m, s) /\ s \notin S
           /\ m.current \notin S => CloseSessions(m, S, fromPeer).current = m.current
           /\ CloseSessions(m, S, fromPeer).pending \subseteq m.pending
<1>1. PICK c : c = CloseSessions(m, S, fromPeer)
  OBVIOUS
<1>2. m \in Manager /\ m.sess \in [Ids -> Session] /\ None \notin Ids
  BY ControlAssumption DEF InOrder, Manager
<1>3. /\ c \in Manager
      /\ \A s \in Ids : /\ c.sess[s].state = IF s \in S /\ IsOpen(m, s) THEN "closed" ELSE m.sess[s].state
                        /\ c.sess[s].superseded = m.sess[s].superseded
      /\ c.current = IF m.current \in S /\ IsOpen(m, m.current) THEN None ELSE m.current
      /\ c.pending = {s \in m.pending : ~ (s \in S /\ IsOpen(m, s))}
  BY <1>1, <1>2, CloseChanges
<1>4. m.current \in Ids \cup {None} /\ m.pending \subseteq Ids
  BY <1>2 DEF Manager
<1>5. \A s \in Ids : IsOpen(c, s) <=> IsOpen(m, s) /\ s \notin S
  BY <1>3 DEF IsOpen
<1>6. \A s \in c.pending : IsOpen(c, s)
  BY <1>3, <1>4, <1>5 DEF InOrder
<1>7. InOrder(c, x)
  BY <1>2, <1>3, <1>4, <1>6 DEF InOrder, IsOpen
<1> QED
  BY <1>1, <1>3, <1>5, <1>7

(* The takeover: the session that is waiting becomes the current one, and  *)
(* the one before it is closed.                                            *)
LEMMA PromoteKeepsOrder ==
    ASSUME NEW m, NEW x, InOrder(m, x), NEW s \in Ids, m.sess[s].state = "pending"
    PROVE  /\ InOrder(Promote(m, s), x)
           /\ \A t \in Ids : IsOpen(Promote(m, s), t) => IsOpen(m, t)
           /\ Promote(m, s).current = s
           /\ Promote(m, s).sess[s].state = "ready"
<1>1. m \in Manager /\ m.sess \in [Ids -> Session] /\ m.sess[s] \in Session /\ None \notin Ids
      /\ m.current # s /\ m.current \in Ids \cup {None}
  BY ControlAssumption DEF InOrder, Manager
<1>2. PICK p : p = [m EXCEPT !.sess[s].state = "ready", !.current = s, !.pending = m.pending \ {s}]
  OBVIOUS
<1>3. /\ p \in Manager /\ p.current = s /\ p.pending = m.pending \ {s}
      /\ \A t \in Ids : /\ p.sess[t].state = IF t = s THEN "ready" ELSE m.sess[t].state
                        /\ p.sess[t].superseded = m.sess[t].superseded
  BY <1>1, <1>2 DEF Manager, Session
<1>4. CASE m.current = None
  <2>1. Promote(m, s) = p
    BY <1>2, <1>4 DEF Promote
  <2>2. /\ \A t \in Ids : p.sess[t].state = "ready" => t = p.current
        /\ \A t \in Ids : p.sess[t].state = "pending" => t \in p.pending \cup {x}
        /\ \A t, u \in Ids : p.sess[t].state = "pending" /\ p.sess[u].state = "pending" => t = u
    BY <1>1, <1>3, <1>4 DEF InOrder
  <2>3. /\ \A t \in Ids : IsOpen(p, t) => ~ p.sess[t].superseded
        /\ \A t \in Ids : IsOpen(p, t) => IsOpen(m, t)
        /\ \A t \in p.pending : IsOpen(p, t)
    BY <1>1, <1>3 DEF InOrder, IsOpen, Manager
  <2>4. InOrder(p, x)
    BY <1>3, <2>2, <2>3 DEF InOrder
  <2> QED
    BY <1>3, <2>1, <2>3, <2>4
<1>5. CASE m.current # None
  <2>1. PICK o : o = [p EXCEPT !.sess[m.current].superseded = TRUE]
    OBVIOUS
  <2>2. m.current \in Ids /\ p.sess[m.current] \in Session
    BY <1>1, <1>3, <1>5 DEF Manager
  <2>3. /\ o \in Manager /\ o.current = s /\ o.pending = m.pending \ {s}
        /\ \A t \in Ids : /\ o.sess[t].state = IF t = s THEN "ready" ELSE m.sess[t].state
                          /\ t # m.current => o.sess[t].superseded = m.sess[t].superseded
    BY <1>1, <1>3, <2>1, <2>2 DEF Manager, Session
  <2>4. PICK S, c : S = {m.current} /\ c = CloseSessions(o, S, FALSE)
    OBVIOUS
  <2>5. /\ c \in Manager
        /\ \A t \in Ids : /\ c.sess[t].state = IF t \in S /\ IsOpen(o, t) THEN "closed" ELSE o.sess[t].state
                          /\ c.sess[t].superseded = o.sess[t].superseded
        /\ c.current = IF o.current \in S /\ IsOpen(o, o.current) THEN None ELSE o.current
        /\ c.pending = {t \in o.pending : ~ (t \in S /\ IsOpen(o, t))}
    <3>1. S \in SUBSET Ids
      BY <2>2, <2>4
    <3>2. PICK byPeer \in BOOLEAN : byPeer = FALSE
      OBVIOUS
    <3>3. c = CloseSessions(o, S, byPeer)
      BY <2>4, <3>2, Zenon
    <3>4. o \in Manager
      BY <2>3
    <3> QED
      BY <3>1, <3>3, <3>4, CloseChanges
  <2>6. IsOpen(o, m.current)
    BY <1>1, <1>5, <2>2, <2>3 DEF InOrder, IsOpen
  <2>7. /\ c.current = s /\ c.pending = m.pending \ {s, m.current}
        /\ \A t \in Ids : c.sess[t].state = IF t = s THEN "ready"
                                            ELSE IF t = m.current THEN "closed" ELSE m.sess[t].state
        /\ \A t \in Ids : t # m.current => c.sess[t].superseded = m.sess[t].superseded
    <3>1. c.current = s /\ c.pending = m.pending \ {s, m.current}
      BY <1>1, <2>3, <2>4, <2>5, <2>6
    <3>2. \A t \in Ids : t \in S /\ IsOpen(o, t) <=> t = m.current
      BY <2>2, <2>4, <2>6
    <3>3. \A t \in Ids : c.sess[t].state = IF t = m.current THEN "closed" ELSE o.sess[t].state
      BY <2>5, <3>2
    <3> QED
      BY <1>1, <2>3, <2>5, <3>1, <3>3
  <2>8. Promote(m, s) = c
    BY <1>2, <1>5, <2>1, <2>4 DEF Promote
  <2>9. /\ \A t \in Ids : c.sess[t].state = "ready" => t = c.current
        /\ \A t \in Ids : c.sess[t].state = "pending" => t \in c.pending \cup {x}
        /\ \A t, u \in Ids : c.sess[t].state = "pending" /\ c.sess[u].state = "pending" => t = u
    BY <1>1, <1>5, <2>7 DEF InOrder
  <2>10. /\ \A t \in Ids : IsOpen(c, t) => ~ c.sess[t].superseded
         /\ \A t \in Ids : IsOpen(c, t) => IsOpen(m, t)
         /\ \A t \in c.pending : IsOpen(c, t)
    BY <1>1, <2>7 DEF InOrder, IsOpen, Manager
  <2>11. InOrder(c, x)
    BY <2>5, <2>7, <2>9, <2>10 DEF InOrder
  <2> QED
    BY <2>7, <2>8, <2>10, <2>11
<1> QED
  BY <1>4, <1>5

LEMMA CloseOne ==
    ASSUME NEW m, NEW x, InOrder(m, x), NEW s \in Ids,
           NEW c, c = CloseSessions(m, {s}, TRUE) \/ c = CloseSessions(m, {s}, FALSE)
    PROVE  /\ InOrder(c, x)
           /\ \A t \in Ids : IsOpen(c, t) => IsOpen(m, t)
           /\ m.current # s => c.current = m.current
<1>1. PICK S \in SUBSET Ids : S = {s}
  OBVIOUS
<1>2. PICK byPeer \in BOOLEAN : c = CloseSessions(m, S, byPeer)
  BY <1>1
<1> QED
  BY <1>1, <1>2, CloseKeepsOrder

(* Every frame: what comes out of turn closes its own session only.        *)
LEMMA MessageKeepsOrder ==
    ASSUME NEW m, NEW x, InOrder(m, x), NEW s \in Ids, NEW message \in Message,
           NEW r, r = OnControlMessage(m, s, message)
    PROVE  /\ InOrder(r, x)
           /\ \A t \in Ids : IsOpen(r, t) => IsOpen(m, t)
           /\ m.current # s => \/ r.current = m.current
                               \/ r.current = s /\ m.sess[s].state = "pending"
<1>1. /\ m \in Manager /\ m.sess[s] \in Session
      /\ message.type \in {"ready", "status", "close"} /\ message.routeReady \in Readiness
  BY DEF InOrder, Manager, Message
<1>2. PICK noted : noted = [m EXCEPT !.sess[s].routeReady = message.routeReady]
  OBVIOUS
<1>3. /\ noted \in Manager /\ noted.current = m.current /\ noted.pending = m.pending
      /\ \A t \in Ids : /\ noted.sess[t].state = m.sess[t].state
                        /\ noted.sess[t].superseded = m.sess[t].superseded
  BY <1>1, <1>2 DEF Manager, Session
<1>4. /\ InOrder(noted, x)
      /\ \A t \in Ids : IsOpen(noted, t) => IsOpen(m, t)
  <2>1. \A t \in Ids : IsOpen(noted, t) <=> IsOpen(m, t)
    BY <1>3 DEF IsOpen
  <2>2. m.current \in Ids \cup {None} /\ m.pending \subseteq Ids
    BY <1>1 DEF Manager
  <2> QED
    BY <1>3, <2>1, <2>2 DEF InOrder
<1>5. \/ r = m
      \/ r = CloseSessions(m, {s}, TRUE)
      \/ r = CloseSessions(m, {s}, FALSE)
      \/ m.sess[s].state = "pending" /\ r = Promote(noted, s)
      \/ r = noted
  <2>1. CASE ~ IsOpen(m, s) \/ m.sess[s].superseded
    BY <2>1 DEF OnControlMessage
  <2>2. CASE ~ (~ IsOpen(m, s) \/ m.sess[s].superseded)
    <3>1. m.sess[s].state \in {"pending", "ready"}
      BY <2>2 DEF IsOpen
    <3> QED
      BY <1>1, <1>2, <2>2, <3>1 DEF OnControlMessage
  <2> QED
    BY <2>1, <2>2
<1>6. CASE r = CloseSessions(m, {s}, TRUE) \/ r = CloseSessions(m, {s}, FALSE)
  BY <1>6, CloseOne
<1>7. CASE m.sess[s].state = "pending" /\ r = Promote(noted, s)
  BY <1>3, <1>4, <1>7, PromoteKeepsOrder
<1> QED
  BY <1>3, <1>4, <1>5, <1>6, <1>7

(* A new connection: whatever was waiting is closed, and frames that came  *)
(* with the request are handled before it waits itself.                    *)
LEMMA UpgradeKeepsOrder ==
    ASSUME NEW m, InOrder(m, None), NEW s \in Ids, ~ IsOpen(m, s), NEW head \in Seq(Message),
           NEW r, r = AcceptUpgrade(m, s, head)
    PROVE  /\ InOrder(r, None)
           /\ \A t \in Ids : IsOpen(r, t) => IsOpen(m, t) \/ t = s
<1>1. m.pending \in SUBSET Ids /\ None \notin Ids
  BY ControlAssumption DEF InOrder, Manager
<1>2. PICK S, c : S = m.pending /\ c = CloseSessions(m, m.pending, FALSE)
  OBVIOUS
<1>3. PICK byPeer \in BOOLEAN : c = CloseSessions(m, S, byPeer)
  BY <1>2
<1>4. /\ InOrder(c, None)
      /\ \A t \in Ids : IsOpen(c, t) => IsOpen(m, t) /\ t \notin S
      /\ c.pending \subseteq m.pending
  <2>1. S \in SUBSET Ids
    BY <1>1, <1>2
  <2> QED
    BY <1>3, <2>1, CloseKeepsOrder
<1>5. c \in Manager /\ ~ IsOpen(c, s) /\ \A t \in Ids : c.sess[t].state # "pending"
  BY <1>1, <1>2, <1>4 DEF InOrder, IsOpen
<1>6. PICK o : o = Opened(c, s)
  OBVIOUS
<1>7. /\ o \in Manager /\ o.current = c.current /\ o.pending = c.pending
      /\ o.sess[s].state = "pending" /\ o.sess[s].superseded = FALSE
      /\ \A t \in Ids \ {s} : o.sess[t] = c.sess[t]
  <2>1. <<"session">> \in Seq({"session", "close"})
    OBVIOUS
  <2>2. [NoSession EXCEPT !.state = "pending"] \in Session
    BY DEF NoSession, Session, Readiness
  <2> QED
    BY <1>5, <1>6, <2>1, <2>2 DEF Opened, Manager, NoSession
<1>8. /\ InOrder(o, s)
      /\ \A t \in Ids : IsOpen(o, t) => IsOpen(c, t) \/ t = s
  <2>1. c.current \in Ids \cup {None} /\ c.pending \subseteq Ids
    BY <1>5 DEF Manager
  <2>2. \A t \in Ids \ {s} : IsOpen(o, t) <=> IsOpen(c, t)
    BY <1>7 DEF IsOpen
  <2> QED
    BY <1>4, <1>5, <1>7, <2>1, <2>2 DEF InOrder, IsOpen
<1>9. PICK h : h = IF head = <<>> THEN o ELSE OnControlMessage(o, s, head[1])
  OBVIOUS
<1>10. InOrder(h, s) /\ \A t \in Ids : IsOpen(h, t) => IsOpen(m, t) \/ t = s
  <2>1. head # <<>> => head[1] \in Message
    OBVIOUS
  <2> QED
    BY <1>4, <1>8, <1>9, <2>1, MessageKeepsOrder
<1>11. r = IF IsOpen(h, s) THEN [h EXCEPT !.pending = h.pending \cup {s}] ELSE h
  BY <1>2, <1>6, <1>9 DEF AcceptUpgrade
<1>12. h \in Manager /\ h.current \in Ids \cup {None} /\ h.pending \subseteq Ids
  BY <1>10 DEF InOrder, Manager
<1>13. CASE IsOpen(h, s)
  <2>1. /\ r \in Manager /\ r.current = h.current /\ r.pending = h.pending \cup {s} /\ r.sess = h.sess
    <3>1. PICK pending : pending = h.pending \cup {s}
      OBVIOUS
    <3>2. r = [h EXCEPT !.pending = pending]
      BY <1>11, <1>13, <3>1
    <3>3. pending \in SUBSET Ids
      BY <1>12, <3>1
    <3> QED
      BY <1>12, <3>1, <3>2, <3>3 DEF Manager
  <2>2. \A t \in Ids : IsOpen(r, t) <=> IsOpen(h, t)
    BY <2>1 DEF IsOpen
  <2> QED
    BY <1>10, <1>12, <1>13, <2>1, <2>2 DEF InOrder
<1>14. CASE ~ IsOpen(h, s)
  BY <1>10, <1>11, <1>14 DEF InOrder, IsOpen
<1> QED
  BY <1>13, <1>14

-----------------------------------------------------------------------------
(* The inductive invariant *)

OthersOK ==
    /\ conn \in [Ids -> {"free", "dialing", "requested", "open", "denied"}]
    /\ cut \in [Ids -> BOOLEAN]
    /\ toHub \in [Ids -> Seq(Message)]
    /\ client \in [stopped : BOOLEAN, socket : Ids \cup {None}, sessionId : Ids \cup {None},
                   lastReported : Readiness \cup {"null"}, interval : BOOLEAN, leaked : BOOLEAN,
                   reconnect : BOOLEAN, pool : Ids \cup {None}]
    /\ awaits \in [sessions : 0 .. MaxAwaits, polls : 0 .. MaxAwaits]
    /\ dsh \in Readiness /\ cuts \in 0 .. MaxCuts /\ trouble \in 0 .. MaxTrouble

(* A session exists only on a connection whose upgrade was accepted: that  *)
(* is why an accepted upgrade, and a connection identifier that is used    *)
(* again, never overwrite one.                                             *)
OpenConnected == \A s \in Ids : IsOpen(mgr, s) => conn[s] = "open"

ControlInv == OthersOK /\ InOrder(mgr, None) /\ OpenConnected

LEMMA ControlInvInit == Init => ControlInv
<1> SUFFICES ASSUME Init PROVE ControlInv
  OBVIOUS
<1>1. OthersOK
  BY ControlAssumption DEF Init, OthersOK, NewClient, Readiness
<1>2. mgr \in Manager /\ mgr.current = None /\ mgr.pending = {} /\ \A s \in Ids : mgr.sess[s] = NoSession
  BY DEF Init, Manager, NoSession, Session, Readiness
<1>3. NoSession.state = "none"
  BY DEF NoSession
<1> QED
  BY <1>1, <1>2, <1>3 DEF ControlInv, InOrder, OpenConnected, IsOpen

(* The steps that leave the manager alone.                                 *)
LEMMA ManagerRests ==
    ASSUME ControlInv, OthersOK', mgr' = mgr,
           \A s \in Ids : conn[s] = "open" => conn'[s] = "open"
    PROVE  ControlInv'
BY DEF ControlInv, InOrder, OpenConnected, IsOpen

(* The steps that close sessions.                                          *)
LEMMA HubClosesStep ==
    ASSUME ControlInv, NEW S \in SUBSET Ids, HubCloses(S, TRUE) \/ HubCloses(S, FALSE),
           trouble' \in 0 .. MaxTrouble
    PROVE  ControlInv'
<1>1. PICK byPeer \in BOOLEAN : mgr' = CloseSessions(mgr, S, byPeer)
  BY DEF HubCloses
<1>2. PICK m : m = mgr'
  OBVIOUS
<1>3. InOrder(m, None) /\ \A s \in Ids : IsOpen(m, s) => IsOpen(mgr, s)
  BY <1>1, <1>2, CloseKeepsOrder DEF ControlInv
<1>4. OthersOK'
  BY DEF HubCloses, ControlInv, OthersOK
<1> QED
  BY <1>2, <1>3, <1>4 DEF ControlInv, OpenConnected, InOrder, IsOpen, HubCloses

(* The client loses its connection.                                        *)
LEMMA LostStep ==
    ASSUME ControlInv, OnConnectionLost, trouble' \in 0 .. MaxTrouble
    PROVE  ControlInv'
<1>1. OthersOK'
  BY DEF ControlInv, OthersOK, OnConnectionLost, Lost, Dropped
<1> QED
  BY <1>1, ManagerRests DEF ControlInv, OthersOK, OnConnectionLost, Dropped

(* A frame is added to the connection that the client has by now.          *)
LEMMA SendJsonType ==
    ASSUME OthersOK, NEW message \in Message, SendJson(message)
    PROVE  toHub' \in [Ids -> Seq(Message)]
<1>1. CASE client.socket = None
  BY <1>1 DEF SendJson, OthersOK
<1>2. CASE client.socket # None
  <2>1. client.socket \in Ids /\ toHub \in [Ids -> Seq(Message)]
    BY <1>2 DEF OthersOK
  <2>2. PICK q : q = Append(toHub[client.socket], message)
    OBVIOUS
  <2>3. q \in Seq(Message)
    BY <2>1, <2>2
  <2>4. toHub' = [toHub EXCEPT ![client.socket] = q]
    BY <1>2, <2>2 DEF SendJson
  <2> QED
    BY <2>1, <2>3, <2>4
<1> QED
  BY <1>1, <1>2

(* A handler suspends or goes on.                                          *)
LEMMA AwaitsType ==
    ASSUME OthersOK,
           \/ awaits.sessions < MaxAwaits /\ awaits' = [awaits EXCEPT !.sessions = @ + 1]
           \/ awaits.sessions > 0 /\ awaits' = [awaits EXCEPT !.sessions = @ - 1]
           \/ awaits.polls < MaxAwaits /\ awaits' = [awaits EXCEPT !.polls = @ + 1]
           \/ awaits.polls > 0 /\ awaits' = [awaits EXCEPT !.polls = @ - 1]
    PROVE  awaits' \in [sessions : 0 .. MaxAwaits, polls : 0 .. MaxAwaits]
<1>1. awaits.sessions \in 0 .. MaxAwaits /\ awaits.polls \in 0 .. MaxAwaits
      /\ awaits \in [sessions : 0 .. MaxAwaits, polls : 0 .. MaxAwaits]
  BY DEF OthersOK
<1>2. \E i, j \in 0 .. MaxAwaits : awaits' = [awaits EXCEPT !.sessions = i] \/ awaits' = [awaits EXCEPT !.polls = j]
  BY <1>1, ControlAssumption
<1> QED
  BY <1>1, <1>2

LEMMA ControlInvStep == ControlInv /\ [Next]_vars => ControlInv'
<1> SUFFICES ASSUME ControlInv, [Next]_vars PROVE ControlInv'
  OBVIOUS
<1>0. OthersOK /\ InOrder(mgr, None) /\ OpenConnected
  BY DEF ControlInv
<1>1. ASSUME NEW s \in Ids, RegisterUpgrade(s) PROVE ControlInv'
  <2>1. PICK n \in {0, 1} : /\ n <= Len(toHub[s])
                            /\ mgr' = AcceptUpgrade(mgr, s, SubSeq(toHub[s], 1, n))
                            /\ toHub' = [toHub EXCEPT ![s] = SubSeq(@, n + 1, Len(@))]
    BY <1>1 DEF RegisterUpgrade
  <2>2. toHub[s] \in Seq(Message)
    BY <1>0 DEF OthersOK
  <2>3. PICK head, rest : head = SubSeq(toHub[s], 1, n) /\ rest = SubSeq(toHub[s], n + 1, Len(toHub[s]))
    OBVIOUS
  <2>4. head \in Seq(Message) /\ rest \in Seq(Message)
    <3>1. n \in Int /\ n + 1 \in Int /\ Len(toHub[s]) \in Int
      BY <2>2
    <3>2. \A i \in 1 .. Len(toHub[s]) : toHub[s][i] \in Message
      BY <2>2
    <3>3. \A i \in 1 .. n : toHub[s][i] \in Message
      BY <2>1, <2>2, <3>2
    <3>4. \A i \in n + 1 .. Len(toHub[s]) : toHub[s][i] \in Message
      BY <2>1, <2>2, <3>2
    <3>5. head \in Seq(Message)
      BY <2>2, <2>3, <3>1, <3>3, SubSeqProperties
    <3> QED
      BY <2>2, <2>3, <3>1, <3>4, <3>5, SubSeqProperties
  <2>5. conn[s] = "requested" /\ ~ IsOpen(mgr, s)
    BY <1>0, <1>1 DEF RegisterUpgrade, OpenConnected
  <2>6. PICK r : r = AcceptUpgrade(mgr, s, head)
    OBVIOUS
  <2>7. InOrder(r, None) /\ \A t \in Ids : IsOpen(r, t) => IsOpen(mgr, t) \/ t = s
    BY <1>0, <2>4, <2>5, <2>6, UpgradeKeepsOrder
  <2>8. mgr' = r /\ toHub' = [toHub EXCEPT ![s] = rest]
    BY <2>1, <2>3, <2>6
  <2>9. InOrder(mgr, None)'
    BY <2>7, <2>8 DEF InOrder, IsOpen
  <2>10. OthersOK'
    BY <1>0, <1>1, <2>4, <2>8 DEF RegisterUpgrade, OthersOK
  <2>11. OpenConnected'
    BY <1>0, <1>1, <2>7, <2>8 DEF RegisterUpgrade, OthersOK, OpenConnected, IsOpen
  <2> QED
    BY <2>9, <2>10, <2>11 DEF ControlInv
<1>2. ASSUME NEW s \in Ids, DenyUpgrade(s) PROVE ControlInv'
  <2>1. OthersOK'
    BY <1>0, <1>2, ControlAssumption DEF DenyUpgrade, OthersOK
  <2> QED
    BY <1>0, <1>2, <2>1, ManagerRests DEF DenyUpgrade, OthersOK
<1>3. ASSUME NEW s \in Ids, HubReceives(s) PROVE ControlInv'
  <2>1. toHub[s] \in Seq(Message) /\ toHub[s] # <<>>
    BY <1>0, <1>3 DEF HubReceives, OthersOK
  <2>2. Head(toHub[s]) \in Message /\ Tail(toHub[s]) \in Seq(Message)
    BY <2>1
  <2>3. PICK r : r = OnControlMessage(mgr, s, Head(toHub[s]))
    OBVIOUS
  <2>4. InOrder(r, None) /\ \A t \in Ids : IsOpen(r, t) => IsOpen(mgr, t)
    BY <1>0, <2>2, <2>3, MessageKeepsOrder
  <2>5. mgr' = r
    BY <1>3, <2>3 DEF HubReceives
  <2>6. OthersOK'
    BY <1>0, <1>3, <2>2 DEF HubReceives, OthersOK
  <2> QED
    BY <1>0, <1>3, <2>4, <2>5, <2>6 DEF ControlInv, HubReceives, OpenConnected, InOrder, IsOpen
<1>4. ASSUME NEW s \in Ids, SocketEnds(s) \/ ReadyTimeout(s) \/ PongTimeout(s) PROVE ControlInv'
  <2>1. trouble' \in 0 .. MaxTrouble
    <3>1. trouble' = trouble \/ (trouble < MaxTrouble /\ trouble' = trouble + 1)
      BY <1>4 DEF SocketEnds, ReadyTimeout, PongTimeout
    <3> QED
      BY <1>0, <3>1, ControlAssumption DEF OthersOK
  <2>2. {s} \in SUBSET Ids
    OBVIOUS
  <2> QED
    BY <1>4, <2>1, <2>2, HubClosesStep DEF SocketEnds, ReadyTimeout, PongTimeout
<1>5. CASE CloseSessionsForNode
  <2>1. PICK S \in SUBSET ({s \in Ids : s = mgr.current} \cup mgr.pending) : HubCloses(S, FALSE)
    BY <1>5 DEF CloseSessionsForNode
  <2>2. S \in SUBSET Ids
    BY <1>0, <2>1 DEF InOrder, Manager
  <2>3. trouble' \in 0 .. MaxTrouble
    BY <1>0, <1>5, ControlAssumption DEF CloseSessionsForNode, OthersOK
  <2> QED
    BY <2>1, <2>2, <2>3, HubClosesStep
<1>6. ASSUME NEW s \in Ids, AttemptConnect(s) PROVE ControlInv'
  <2>1. /\ ~ IsOpen(mgr, s) /\ conn' = [conn EXCEPT ![s] = "dialing"]
        /\ mgr' = [mgr EXCEPT !.sess[s] = NoSession, !.out[s] = <<>>]
    BY <1>0, <1>6 DEF AttemptConnect, Unused, OpenConnected
  <2>2. PICK m : m = mgr'
    OBVIOUS
  <2>3. /\ m \in Manager /\ m.current = mgr.current /\ m.pending = mgr.pending
        /\ m.sess[s] = NoSession /\ \A t \in Ids \ {s} : m.sess[t] = mgr.sess[t]
    <3>1. mgr \in Manager /\ NoSession \in Session /\ <<>> \in Seq({"session", "close"})
      BY <1>0 DEF InOrder, NoSession, Session, Readiness
    <3> QED
      BY <2>1, <2>2, <3>1 DEF Manager
  <2>4. \A t \in Ids : IsOpen(m, t) <=> IsOpen(mgr, t)
    BY <2>1, <2>3 DEF IsOpen, NoSession
  <2>5. InOrder(m, None)
    <3>1. /\ mgr.current # None => mgr.current \in Ids \ {s}
          /\ mgr.pending \subseteq Ids
          /\ NoSession.state = "none"
      BY <1>0, <2>1 DEF InOrder, Manager, IsOpen, NoSession
    <3> QED
      BY <1>0, <2>3, <2>4, <3>1 DEF InOrder, IsOpen
  <2>6. OthersOK'
    <3>1. <<>> \in Seq(Message)
      OBVIOUS
    <3> QED
      BY <1>0, <1>6, <3>1 DEF AttemptConnect, OthersOK
  <2>7. OpenConnected'
    BY <1>0, <2>1, <2>2, <2>4 DEF OpenConnected, OthersOK, IsOpen
  <2> QED
    BY <2>2, <2>5, <2>6, <2>7 DEF ControlInv, InOrder, IsOpen
<1>7. ASSUME NEW s \in Ids, Connected(s) PROVE ControlInv'
  <2>1. OthersOK'
    BY <1>0, <1>7 DEF Connected, OthersOK
  <2> QED
    BY <1>0, <1>7, <2>1, ManagerRests DEF Connected, OthersOK
<1>8. ASSUME NEW s \in Ids, DialFails(s) \/ ConnectionCloses(s) \/ ConnectionFails(s) PROVE ControlInv'
  <2>1. OnConnectionLost /\ (trouble' = trouble \/ (trouble < MaxTrouble /\ trouble' = trouble + 1))
    BY <1>8 DEF DialFails, ConnectionCloses, ConnectionFails
  <2>2. trouble' \in 0 .. MaxTrouble
    BY <1>0, <2>1, ControlAssumption DEF OthersOK
  <2> QED
    BY <2>1, <2>2, LostStep
<1>9. ASSUME NEW s \in Ids, UpgradeDenied(s) PROVE ControlInv'
  <2>1. OthersOK'
    BY <1>0, <1>9 DEF UpgradeDenied, OthersOK
  <2> QED
    BY <1>9, <2>1, ManagerRests DEF UpgradeDenied
<1>10. ASSUME NEW s \in Ids, ReceiveSession(s) PROVE ControlInv'
  <2>1. PICK m : m = mgr'
    OBVIOUS
  <2>2. /\ m \in Manager /\ m.current = mgr.current /\ m.pending = mgr.pending /\ m.sess = mgr.sess
    <3>1. mgr \in Manager /\ mgr.out[s] \in Seq({"session", "close"}) /\ mgr.out[s] # <<>>
      BY <1>0, <1>10 DEF InOrder, Manager, ReceiveSession
    <3>2. Tail(mgr.out[s]) \in Seq({"session", "close"})
      BY <3>1
    <3>3. m = [mgr EXCEPT !.out[s] = Tail(mgr.out[s])]
      BY <1>10, <2>1 DEF ReceiveSession
    <3> HIDE <1>10
    <3> QED
      BY <3>1, <3>2, <3>3 DEF Manager
  <2>3. InOrder(m, None) /\ \A t \in Ids : IsOpen(m, t) <=> IsOpen(mgr, t)
    BY <1>0, <2>2 DEF InOrder, IsOpen
  <2>4. OthersOK'
    <3>1. awaits' \in [sessions : 0 .. MaxAwaits, polls : 0 .. MaxAwaits]
      BY <1>0, <1>10, AwaitsType DEF ReceiveSession
    <3> QED
      BY <1>0, <1>10, <3>1 DEF ReceiveSession, OthersOK
  <2> QED
    BY <1>0, <1>10, <2>1, <2>3, <2>4 DEF ControlInv, InOrder, OpenConnected, IsOpen, ReceiveSession
<1>11. CASE SessionProbed
  <2>1. PICK message \in Message : SendJson(message)
    BY <1>0, <1>11 DEF SessionProbed, Message, OthersOK
  <2>2. toHub' \in [Ids -> Seq(Message)]
    BY <1>0, <2>1, SendJsonType
  <2>3. OthersOK'
    <3>1. awaits' \in [sessions : 0 .. MaxAwaits, polls : 0 .. MaxAwaits]
      BY <1>0, <1>11, AwaitsType DEF SessionProbed
    <3> QED
      BY <1>0, <1>11, <2>2, <3>1 DEF SessionProbed, OthersOK
  <2> QED
    BY <1>11, <2>3, ManagerRests DEF SessionProbed
<1>12. CASE PollStarts
  <2>1. OthersOK'
    <3>1. awaits' \in [sessions : 0 .. MaxAwaits, polls : 0 .. MaxAwaits]
      BY <1>0, <1>12, AwaitsType DEF PollStarts
    <3> QED
      BY <1>0, <1>12, <3>1 DEF PollStarts, OthersOK
  <2> QED
    BY <1>12, <2>1, ManagerRests DEF PollStarts
<1>13. CASE PollProbed
  <2>1. toHub' \in [Ids -> Seq(Message)]
    <3>1. CASE UNCHANGED toHub
      BY <1>0, <3>1 DEF OthersOK
    <3>2. CASE SendJson([type |-> "status", routeReady |-> dsh])
      <4>1. [type |-> "status", routeReady |-> dsh] \in Message
        BY <1>0 DEF Message, OthersOK
      <4> QED
        BY <1>0, <3>2, <4>1, SendJsonType
    <3> QED
      BY <1>13, <3>1, <3>2 DEF PollProbed
  <2>2. OthersOK'
    <3>1. awaits' \in [sessions : 0 .. MaxAwaits, polls : 0 .. MaxAwaits]
      BY <1>0, <1>13, AwaitsType DEF PollProbed
    <3>2. client' \in [stopped : BOOLEAN, socket : Ids \cup {None}, sessionId : Ids \cup {None},
                       lastReported : Readiness \cup {"null"}, interval : BOOLEAN, leaked : BOOLEAN,
                       reconnect : BOOLEAN, pool : Ids \cup {None}]
      <4>1. client' = client \/ client' = [client EXCEPT !.lastReported = dsh]
        BY <1>13 DEF PollProbed
      <4> QED
        BY <1>0, <4>1 DEF OthersOK
    <3>3. UNCHANGED <<conn, cut, dsh, cuts, trouble>>
      BY <1>13 DEF PollProbed
    <3> QED
      BY <1>0, <2>1, <3>1, <3>2, <3>3 DEF OthersOK
  <2> QED
    BY <1>13, <2>2, ManagerRests DEF PollProbed
<1>14. CASE Stop
  <2>1. [type |-> "close", routeReady |-> "down"] \in Message
    BY DEF Message, Readiness
  <2>2. toHub' \in [Ids -> Seq(Message)]
    BY <1>0, <1>14, <2>1 DEF Stop, OthersOK
  <2>3. OthersOK'
    <3>1. conn' \in [Ids -> {"free", "dialing", "requested", "open", "denied"}]
      BY <1>0, <1>14 DEF Stop, Dropped, OthersOK
    <3>2. trouble' \in 0 .. MaxTrouble
      BY <1>0, <1>14, ControlAssumption DEF Stop, OthersOK
    <3>3. UNCHANGED <<cut, awaits, dsh, cuts>>
      BY <1>14 DEF Stop
    <3>4. client' \in [stopped : BOOLEAN, socket : Ids \cup {None}, sessionId : Ids \cup {None},
                       lastReported : Readiness \cup {"null"}, interval : BOOLEAN, leaked : BOOLEAN,
                       reconnect : BOOLEAN, pool : Ids \cup {None}]
      BY <1>0, <1>14 DEF Stop, OthersOK
    <3> QED
      BY <1>0, <2>2, <3>1, <3>2, <3>3, <3>4 DEF OthersOK
  <2> QED
    BY <1>0, <1>14, <2>3, ManagerRests DEF Stop, Dropped, OthersOK
<1>15. CASE StartReverseTransport
  <2>1. OthersOK'
    BY <1>0, <1>15, ControlAssumption DEF StartReverseTransport, NewClient, OthersOK
  <2> QED
    BY <1>15, <2>1, ManagerRests DEF StartReverseTransport
<1>16. CASE DshChanges
  <2>1. OthersOK'
    BY <1>0, <1>16, ControlAssumption DEF DshChanges, OthersOK
  <2> QED
    BY <1>16, <2>1, ManagerRests DEF DshChanges
<1>17. ASSUME NEW s \in Ids, Sever(s) PROVE ControlInv'
  <2>1. OthersOK'
    BY <1>0, <1>17, ControlAssumption DEF Sever, OthersOK
  <2> QED
    BY <1>17, <2>1, ManagerRests DEF Sever
<1>18. CASE UNCHANGED vars
  BY <1>0, <1>18 DEF vars, ControlInv, OthersOK, InOrder, OpenConnected, IsOpen
<1> QED
  BY <1>1, <1>2, <1>3, <1>4, <1>5, <1>6, <1>7, <1>8, <1>9, <1>10, <1>11, <1>12, <1>13, <1>14,
     <1>15, <1>16, <1>17, <1>18 DEF Next

THEOREM ControlInvCorrect == Spec => []ControlInv
BY ControlInvInit, ControlInvStep, PTL DEF Spec

-----------------------------------------------------------------------------
(* The theorems *)

(* One generation: whatever is delivered late or after a takeover, route   *)
(* traffic has exactly one place to go, and at most one session is on its  *)
(* way to replace it (registerUpgrade, promote, onClosed).                 *)
THEOREM GenerationsInOrderCorrect == Spec => []GenerationsInOrder
<1>1. ControlInv => GenerationsInOrder
  <2> SUFFICES ASSUME ControlInv PROVE GenerationsInOrder
    OBVIOUS
  <2>1. mgr \in Manager /\ mgr.current \in Ids \cup {None} /\ mgr.pending \subseteq Ids /\ None \notin Ids
    BY ControlAssumption DEF ControlInv, InOrder, Manager
  <2>2. TypeOK
    BY <2>1 DEF ControlInv, OthersOK, TypeOK, Manager
  <2>3. OneGeneration
    BY <2>1 DEF ControlInv, InOrder, OneGeneration, IsOpen
  <2>4. Cardinality({s \in Ids : mgr.sess[s].state = "pending"}) <= 1
    <3> DEFINE P == {s \in Ids : mgr.sess[s].state = "pending"}
    <3>1. P = {} \/ \E s \in Ids : P = {s}
      BY DEF ControlInv, InOrder
    <3> HIDE DEF P
    <3>2. Cardinality(P) \in {0, 1}
      BY <3>1, FS_EmptySet, FS_Singleton
    <3> QED
      BY <3>2 DEF P
  <2>5. PendingBounded
    BY <2>1, <2>4 DEF ControlInv, InOrder, PendingBounded
  <2> QED
    BY <2>2, <2>3, <2>5 DEF GenerationsInOrder
<1> QED
  BY <1>1, ControlInvCorrect, PTL

(* RFC-0012 "ignores all late events": frames, ends and timeouts of a      *)
(* session that is not the current one leave the current one alone.        *)
THEOREM LateEventsIgnoredCorrect == Spec => LateEventsIgnored
<1>1. ControlInv /\ [Next]_vars =>
        [\A s \in Ids :
            /\ mgr.current # s
            /\ HubReceives(s) \/ SocketEnds(s) \/ ReadyTimeout(s) \/ PongTimeout(s)
            => \/ mgr'.current = mgr.current
               \/ mgr'.current = s /\ mgr.sess[s].state = "pending"]_vars
  <2> SUFFICES ASSUME ControlInv, NEW s \in Ids, mgr.current # s,
                      HubReceives(s) \/ SocketEnds(s) \/ ReadyTimeout(s) \/ PongTimeout(s)
               PROVE  \/ mgr'.current = mgr.current
                      \/ mgr'.current = s /\ mgr.sess[s].state = "pending"
    OBVIOUS
  <2>1. CASE HubReceives(s)
    <3>1. toHub[s] \in Seq(Message) /\ toHub[s] # <<>>
      BY <2>1 DEF HubReceives, ControlInv, OthersOK
    <3>2. Head(toHub[s]) \in Message
      BY <3>1
    <3>3. PICK r : r = OnControlMessage(mgr, s, Head(toHub[s]))
      OBVIOUS
    <3>4. r.current = mgr.current \/ (r.current = s /\ mgr.sess[s].state = "pending")
      BY <3>2, <3>3, MessageKeepsOrder DEF ControlInv
    <3> QED
      BY <2>1, <3>3, <3>4 DEF HubReceives
  <2>2. CASE HubCloses({s}, TRUE) \/ HubCloses({s}, FALSE)
    <3>1. PICK c : c = mgr' /\ (c = CloseSessions(mgr, {s}, TRUE) \/ c = CloseSessions(mgr, {s}, FALSE))
      BY <2>2 DEF HubCloses
    <3> QED
      BY <3>1, CloseOne DEF ControlInv
  <2> QED
    BY <2>1, <2>2 DEF SocketEnds, ReadyTimeout, PongTimeout
<1> QED
  BY <1>1, ControlInvCorrect, PTL DEF Spec, LateEventsIgnored
=============================================================================
