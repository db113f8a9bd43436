---------------------------- MODULE NodeIdentity ----------------------------
(***************************************************************************)
(* One Node client (src/node/client.mjs) against the registry of           *)
(* HubRegistry: the persisted store of the node, its calls to the machine  *)
(* API and an unreliable network between them.  A call is sent, may be     *)
(* answered by the Hub, and ends with the answer, with a network failure   *)
(* or with a crash of the node process; a request whose call has ended may *)
(* still reach the Hub later, or never.  Every write of the store is one   *)
(* atomic rename, so the persisted store is what a restart finds.  The     *)
(* node's operations run one at a time.                                    *)
(*                                                                         *)
(* A pending intent draws its request id and its key pair together, so the *)
(* key stands for both.  The marker of a completed rotation is diagnostic  *)
(* and left out.  429 and 5xx answers are treated by the client as network *)
(* failures are and are not told apart from them.                          *)
(***************************************************************************)
EXTENDS HubRegistry

CONSTANTS
    NoKey,      \* null in a key field
    NoTok,      \* no token in a request
    MaxStale    \* bound of the requests that may still arrive late

ASSUME NodeAssumption == NoKey \notin MachineKeys \cup RouteKeys /\ NoTok \notin Tokens /\ MaxStale \in Nat

VARIABLES
    store,      \* the persisted node store
    call,       \* the operation in progress
    stale       \* requests whose call has ended before the Hub saw them

nodeVars == <<store, call, stale>>
allVars  == <<now, token, node, nodeKey, hubKey, results, deletions, store, call, stale>>

NoTrust == [h \in RouteKeys |-> NoHubKey]

Store == [state       : {"unenrolled", "active", "revoked"},
          id          : NodeIds \cup {NoNode},
          key         : MachineKeys \cup {NoKey},    \* main identity key
          new         : MachineKeys \cup {NoKey},    \* rotation pending towards this key
          enrolling   : MachineKeys \cup {NoKey},    \* pendingEnrollment
          pairing     : MachineKeys \cup {NoKey},    \* pendingPairing
          reenrolling : MachineKeys \cup {NoKey},    \* pendingReenrollment
          trust       : [RouteKeys -> HubKeyRow]]    \* hubRouteKeys

Request == [op : {"enroll", "pair", "reenroll", "heartbeat", "rotate", "report", "none"},
            id : NodeIds \cup {NoNode}, token : Tokens \cup {NoTok},
            key : MachineKeys \cup {NoKey}, new : MachineKeys \cup {NoKey},
            accepted : SUBSET RouteKeys]

Reply == [code : {"none", "ok", "revoked", "unknown", "denied"},
          id : NodeIds \cup {NoNode}, trust : [RouteKeys -> HubKeyRow]]

Steps == {"idle", "enroll", "pair", "reenrollNew", "reenrollCurrent", "heartbeat", "report",
          "rotate", "probeNew", "probeOld", "resubmit", "promote"}

NoRequest == [op |-> "none", id |-> NoNode, token |-> NoTok, key |-> NoKey, new |-> NoKey, accepted |-> {}]
NoReply   == [code |-> "none", id |-> NoNode, trust |-> NoTrust]
Idle      == [step |-> "idle", request |-> NoRequest, reply |-> NoReply]

NodeTypeOK ==
    /\ TypeOK
    /\ store \in Store
    /\ call \in [step : Steps, request : Request, reply : Reply]
    /\ stale \subseteq Request

NodeInit ==
    /\ Init
    /\ store = [state |-> "unenrolled", id |-> NoNode, key |-> NoKey, new |-> NoKey,
                enrolling |-> NoKey, pairing |-> NoKey, reenrolling |-> NoKey, trust |-> NoTrust]
    /\ call = Idle
    /\ stale = {}

(* The keys whose private half the store holds.                            *)
HeldKeys == {store.key, store.new, store.enrolling, store.pairing, store.reenrolling} \ {NoKey}

FreshKeys ==
    {k \in MachineKeys : /\ \A n \in NodeIds : nodeKey[n][k].state = "absent"
                         /\ k \notin HeldKeys
                         /\ \A q \in stale : k \notin {q.key, q.new}}

-----------------------------------------------------------------------------
(* The Hub's side of a request *)

(* authenticateMachine, as the client tells its answers apart.             *)
AuthCode(n, k) ==
    CASE node[n] # "active" -> "revoked"
      [] node[n] = "active" /\ nodeKey[n][k].state = "absent" -> "unknown"
      [] node[n] = "active" /\ nodeKey[n][k].state # "absent" ->
            IF KeyUsable(n, k) THEN "ok" ELSE "revoked"

ReenrollCode(q) ==
    CASE token[q.token].consumedBy # NoNode ->
            IF \E r \in RequestIds : ReplayOrDeny(q.token, "reenroll", r, q.new) # {} THEN "ok" ELSE "denied"
      [] token[q.token].consumedBy = NoNode ->
            IF ~ TokenAccepts(q.token, "reenroll") \/ node[q.id] # "tombstoned" THEN "denied"
            ELSE IF ~ IsHistoricalKey(q.id, q.key) THEN "revoked"
            ELSE IF nodeKey[q.id][q.new].state = "absent" THEN "ok" ELSE "denied"

BootstrapCode(q) ==
    CASE token[q.token].consumedBy # NoNode ->
            IF \E r \in RequestIds : ReplayOrDeny(q.token, q.op, r, q.new) # {} THEN "ok" ELSE "denied"
      [] token[q.token].consumedBy = NoNode ->
            IF TokenAccepts(q.token, q.op) /\ (q.op = "pair" => ~ KeyInActiveUse(q.new)) THEN "ok" ELSE "denied"

CodeFor(q) ==
    CASE q.op \in {"enroll", "pair"} -> BootstrapCode(q)
      [] q.op = "reenroll" -> ReenrollCode(q)
      [] q.op \in {"heartbeat", "report"} -> AuthCode(q.id, q.key)
      [] q.op = "rotate" ->
            IF AuthCode(q.id, q.key) = "ok" /\ nodeKey[q.id][q.new].state # "absent"
            THEN "denied" ELSE AuthCode(q.id, q.key)

(* The transaction of an accepted request; a replay changes nothing.       *)
Commit(q) ==
    CASE q.op = "enroll" -> \E r \in RequestIds, n \in NodeIds : Enroll(q.token, r, q.new, n)
      [] q.op = "pair" -> \E r \in RequestIds, n \in NodeIds : Pair(q.token, r, q.new, n)
      [] q.op = "reenroll" -> \E r \in RequestIds : Reenroll(q.token, r, q.new, q.id, q.key)
      [] q.op = "heartbeat" -> Heartbeat(q.id, q.key, q.accepted)
      [] q.op = "rotate" -> RotateCredential(q.id, q.key, q.new)
      [] q.op = "report" -> UNCHANGED vars

IsReplay(q) == q.op \in {"enroll", "pair", "reenroll"} /\ token[q.token].consumedBy # NoNode

HubHandles(q) ==
    IF CodeFor(q) = "ok" /\ ~ IsReplay(q) THEN Commit(q) ELSE UNCHANGED vars

LiveRows(rows) == [h \in RouteKeys |-> IF h \in LiveHubKeys(rows) THEN rows[h] ELSE NoHubKey]

(* Evaluated in the step that handles q: enrollment names the node the     *)
(* token was consumed for, a heartbeat the key set it leaves behind.       *)
ReplyTo(q) ==
    [code  |-> CodeFor(q),
     id    |-> IF CodeFor(q) = "ok" /\ q.op \in {"enroll", "pair", "reenroll"}
               THEN token'[q.token].consumedBy ELSE NoNode,
     trust |-> IF CodeFor(q) = "ok" /\ q.op = "heartbeat" THEN LiveRows(hubKey'[q.id]) ELSE NoTrust]

HubAnswers ==
    /\ call.request # NoRequest
    /\ call.reply = NoReply
    /\ HubHandles(call.request)
    /\ call' = [call EXCEPT !.reply = ReplyTo(call.request)]
    /\ UNCHANGED <<store, stale>>

(* A request that the client has given up on arrives after all.            *)
HubHandlesStale ==
    \E q \in stale :
        /\ HubHandles(q)
        /\ stale' = stale \ {q}
        /\ UNCHANGED <<store, call>>

-----------------------------------------------------------------------------
(* The client: operations that send *)

Send(step, q) == call' = [step |-> step, request |-> q, reply |-> NoReply]

SignedBy(k, op) == [NoRequest EXCEPT !.op = op, !.id = store.id, !.key = k]

HeartbeatBy(k) == [SignedBy(k, "heartbeat") EXCEPT !.accepted = LiveHubKeys(store.trust)]

(* enroll(token) and pair(token): the key pair is persisted before the     *)
(* request, and an intent that is still pending is sent again.  Each       *)
(* refuses a store with a pending intent of the other.                     *)
StartBootstrap(op, t, k) ==
    LET field == IF op = "enroll" THEN store.enrolling ELSE store.pairing
        other == IF op = "enroll" THEN store.pairing ELSE store.enrolling
    IN  /\ call = Idle
        /\ store.state = "unenrolled"
        /\ other = NoKey
        /\ token[t].purpose = op
        /\ IF field = NoKey THEN k \in FreshKeys ELSE k = field
        /\ store' = IF op = "enroll" THEN [store EXCEPT !.enrolling = k] ELSE [store EXCEPT !.pairing = k]
        /\ Send(op, [NoRequest EXCEPT !.op = op, !.token = t, !.key = k, !.new = k])
        /\ UNCHANGED <<vars, stale>>

(* Mutant: a pending rotation is not resolved by the tick. *)
NodeTickWithoutRecovery ==
    /\ call = Idle
    /\ store.state = "active"
    /\ Send("heartbeat", HeartbeatBy(store.key))
    /\ UNCHANGED <<vars, store, stale>>

(* One pass of tick(): a pending rotation is resolved first.               *)
NodeTick ==
    /\ call = Idle
    /\ store.state = "active"
    /\ IF store.new # NoKey THEN Send("probeNew", HeartbeatBy(store.new))
                            ELSE Send("heartbeat", HeartbeatBy(store.key))
    /\ UNCHANGED <<vars, store, stale>>

(* Mutant: the intent is not persisted before the request. *)
StartRotationUnrecorded(k) ==
    /\ call = Idle
    /\ store.state = "active"
    /\ store.new = NoKey
    /\ k \in FreshKeys
    /\ Send("rotate", [SignedBy(store.key, "rotate") EXCEPT !.new = k])
    /\ UNCHANGED <<vars, store, stale>>

StartRotation(k) ==
    /\ call = Idle
    /\ store.state = "active"
    /\ store.new = NoKey
    /\ k \in FreshKeys
    /\ store' = [store EXCEPT !.new = k]
    /\ Send("rotate", [SignedBy(store.key, "rotate") EXCEPT !.new = k])
    /\ UNCHANGED <<vars, stale>>

UploadReport ==
    /\ call = Idle
    /\ store.state = "active"
    /\ Send("report", SignedBy(store.key, "report"))
    /\ UNCHANGED <<vars, store, stale>>

ReenrollBy(k, t, new) == [SignedBy(k, "reenroll") EXCEPT !.token = t, !.new = new]

(* The possession proof is tried with the pending new key of a rotation    *)
(* first.                                                                  *)
StartReenroll(t, k) ==
    /\ call = Idle
    /\ store.state = "revoked"
    /\ token[t].purpose = "reenroll" /\ token[t].bound = store.id
    /\ IF store.reenrolling = NoKey THEN k \in FreshKeys ELSE k = store.reenrolling
    /\ store' = [store EXCEPT !.reenrolling = k]
    /\ IF store.new # NoKey THEN Send("reenrollNew", ReenrollBy(store.new, t, k))
                            ELSE Send("reenrollCurrent", ReenrollBy(store.key, t, k))
    /\ UNCHANGED <<vars, stale>>

-----------------------------------------------------------------------------
(* The client: how a call goes on *)

Finish == call' = Idle

(* What the client makes of the key set in a heartbeat answer.             *)
TrustAfter(reply) == IF ValidHubRouteKeySet(reply.trust) THEN reply.trust ELSE store.trust

Promoted(s) == [s EXCEPT !.key = s.new, !.new = NoKey]

(* enroll or pair returns: the identity is adopted, or the intent stays.   *)
BootstrapReturns ==
    /\ call.step \in {"enroll", "pair"}
    /\ store' = IF call.reply.code = "ok"
                THEN [store EXCEPT !.state = "active", !.id = call.reply.id, !.key = call.request.new,
                                   !.trust = NoTrust, !.enrolling = NoKey, !.pairing = NoKey]
                ELSE store
    /\ Finish

HeartbeatReturns ==
    /\ call.step = "heartbeat"
    /\ store' = CASE call.reply.code = "ok" -> [store EXCEPT !.trust = TrustAfter(call.reply)]
                  [] call.reply.code = "revoked" -> [store EXCEPT !.state = "revoked"]
                  [] OTHER -> store
    /\ Finish

ReportReturns ==
    /\ call.step = "report"
    /\ store' = IF call.reply.code = "revoked" THEN [store EXCEPT !.state = "revoked"] ELSE store
    /\ Finish

RotateReturns ==
    /\ call.step = "rotate"
    /\ store' = CASE call.reply.code = "ok" -> Promoted(store)
                  [] call.reply.code = "revoked" -> [store EXCEPT !.state = "revoked"]
                  [] OTHER -> store
    /\ Finish

(* recoverPendingRotation, the answer to the probe with the pending key.   *)
ProbeNewReturns ==
    /\ call.step = "probeNew"
    /\ \/ /\ call.reply.code = "ok"
          /\ store' = [store EXCEPT !.trust = TrustAfter(call.reply)]
          /\ call' = [Idle EXCEPT !.step = "promote"]
       \/ /\ call.reply.code = "revoked"
          /\ store' = [store EXCEPT !.state = "revoked"]
          /\ Finish
       \/ /\ call.reply.code = "unknown"
          /\ Send("probeOld", HeartbeatBy(store.key))
          /\ UNCHANGED store

Promote ==
    /\ call.step = "promote"
    /\ store' = Promoted(store)
    /\ Finish
    /\ UNCHANGED <<vars, stale>>

ProbeOldReturns ==
    /\ call.step = "probeOld"
    /\ \/ /\ call.reply.code = "ok"
          /\ store' = [store EXCEPT !.trust = TrustAfter(call.reply)]
          /\ Send("resubmit", [SignedBy(store.key, "rotate") EXCEPT !.new = store.new])
       \/ /\ call.reply.code = "revoked"
          /\ store' = [store EXCEPT !.state = "revoked"]
          /\ Finish
       \/ /\ call.reply.code = "unknown"
          /\ Finish
          /\ UNCHANGED store

ResubmitReturns ==
    /\ call.step = "resubmit"
    /\ store' = IF call.reply.code = "ok" THEN Promoted(store) ELSE store
    /\ Finish

(* Mutant: the completed intent is left in the store. *)
ReenrolledKeepingIntent(s) ==
    [s EXCEPT !.state = "active", !.key = s.reenrolling, !.trust = NoTrust, !.new = NoKey]

(* Mutant: the deleted-era Hub keys are kept. *)
ReenrolledKeepingTrust(s) ==
    [s EXCEPT !.state = "active", !.key = s.reenrolling, !.new = NoKey, !.reenrolling = NoKey]

Reenrolled(s) ==
    [s EXCEPT !.state = "active", !.key = s.reenrolling, !.trust = NoTrust,
              !.new = NoKey, !.reenrolling = NoKey]

ReenrollReturns ==
    /\ call.step \in {"reenrollNew", "reenrollCurrent"}
    /\ IF call.step = "reenrollNew" /\ call.reply.code = "revoked"
       THEN /\ Send("reenrollCurrent", [call.request EXCEPT !.key = store.key])
            /\ UNCHANGED store
       ELSE /\ store' = IF call.reply.code = "ok" THEN Reenrolled(store) ELSE store
            /\ Finish

(* The answer arrives.                                                     *)
Returns ==
    /\ call.reply # NoReply
    /\ \/ BootstrapReturns \/ HeartbeatReturns \/ ReportReturns \/ RotateReturns
       \/ ProbeNewReturns \/ ProbeOldReturns \/ ResubmitReturns \/ ReenrollReturns
    /\ UNCHANGED <<vars, stale>>

(* An unanswered request is lost, or may still arrive.                     *)
Abandon ==
    \/ UNCHANGED stale
    \/ /\ call.request # NoRequest /\ call.reply = NoReply
       /\ Cardinality(stale) < MaxStale
       /\ stale' = stale \cup {call.request}

(* The call fails without an answer: the probe of the pending key goes on  *)
(* to the old key ("retrying"), every other operation ends.                *)
NetworkFailure ==
    /\ call.request # NoRequest
    /\ Abandon
    /\ IF call.step = "probeNew" THEN Send("probeOld", HeartbeatBy(store.key)) ELSE Finish
    /\ UNCHANGED <<vars, store>>

(* The node process dies; recoverAfterRestart starts over from the store.  *)
Crash ==
    /\ call # Idle
    /\ Abandon
    /\ Finish
    /\ UNCHANGED <<vars, store>>

-----------------------------------------------------------------------------

Operator ==
    /\ \/ \E t \in Tokens, p \in Purposes, n \in NodeIds \cup {NoNode} : MintEnrollmentToken(t, p, n)
       \/ \E n \in NodeIds, d \in DeleteIds : DeleteNode(n, d)
       \/ \E n \in NodeIds, new \in RouteKeys : RotateHubRouteKey(n, new)
    /\ UNCHANGED nodeVars

Time == (Maintenance \/ Tick) /\ UNCHANGED nodeVars

NodeNext ==
    \/ \E op \in {"enroll", "pair"}, t \in Tokens, k \in MachineKeys : StartBootstrap(op, t, k)
    \/ NodeTick
    \/ \E k \in MachineKeys : StartRotation(k)
    \/ UploadReport
    \/ \E t \in Tokens, k \in MachineKeys : StartReenroll(t, k)
    \/ HubAnswers
    \/ HubHandlesStale
    \/ Returns
    \/ Promote
    \/ NetworkFailure
    \/ Crash
    \/ Operator
    \/ Time

NodeSpec == NodeInit /\ [][NodeNext]_allVars

(* The daemon keeps ticking, every call ends within its 10 second timeout, *)
(* and neither the network nor the process fails at one and the same point *)
(* for ever.                                                               *)
Fairness ==
    /\ WF_allVars(Returns \/ NetworkFailure \/ Crash)
    /\ SF_allVars(NodeTick)
    /\ SF_allVars(Promote)
    /\ \A s \in {"probeNew", "probeOld", "resubmit"} :
          SF_allVars(call.step = s /\ HubAnswers) /\ SF_allVars(call.step = s /\ Returns)

FairNodeSpec == NodeSpec /\ Fairness

-----------------------------------------------------------------------------
(* Properties *)

(* validateNodeStore (with the clock it uses, at which no overlap has      *)
(* ended): whatever was lost, and wherever the process died, the store     *)
(* that the next start loads is not refused as corrupt.                    *)
StoreLoads ==
    /\ store.state = "unenrolled" =>
          /\ store.id = NoNode /\ store.key = NoKey /\ store.new = NoKey
          /\ store.reenrolling = NoKey /\ store.trust = NoTrust
          /\ NoKey \in {store.enrolling, store.pairing}
    /\ store.state # "unenrolled" =>
          /\ store.id # NoNode /\ store.key # NoKey
          /\ store.enrolling = NoKey /\ store.pairing = NoKey
          /\ store.reenrolling # NoKey => store.state = "revoked"
          /\ store.trust # NoTrust => WellFormedHubKeys(store.trust)

(* The Hub's nodes that are this node: the one it has adopted, and before  *)
(* that every one it may still adopt.  (A pending enrollment that is sent  *)
(* again with another token registers another node for the same key; the   *)
(* client asks the operator to retry with the same token.)                 *)
OwnNodes == IF store.id = NoNode THEN NodeIds ELSE {store.id}

(* "Hub commit + lost response + restart is always reconcilable": whatever *)
(* is lost and whenever the node dies, every key the Hub accepts without a *)
(* deadline is a key whose private half the node has persisted.            *)
IdentityNeverOrphaned ==
    \A n \in OwnNodes, k \in MachineKeys :
        (node[n] = "active" /\ nodeKey[n][k].state = "active" /\ nodeKey[n][k].revokeAfter = Never)
            => k \in HeldKeys

(* The key that a tombstone retains for the possession proof is one of the *)
(* node's own, also when the deletion fell into a rotation or into a       *)
(* re-enrollment whose answer was lost.                                    *)
TombstoneKeyHeld ==
    \A n \in OwnNodes : node[n] = "tombstoned" =>
        \A k \in MachineKeys : IsHistoricalKey(n, k) => k \in HeldKeys

(* The Hub signs route traffic of a node only with a key that the node has *)
(* durably stored for its present identity: activation never overtakes     *)
(* the node, and no key of a deleted era stays trusted.                    *)
SigningKeyDurablyKnown ==
    store.state = "active" /\ node[store.id] = "active" =>
        /\ SigningKeys(hubKey[store.id]) \subseteq LiveHubKeys(store.trust)
        /\ KeyUsable(store.id, store.key) =>
              \A h \in LiveHubKeys(store.trust) :
                  hubKey[store.id][h].state = "revoked" => hubKey[store.id][h].revokeAfter # Never

(* "revoked - the Hub revoked/tombstoned this identity": the node enters   *)
(* its terminal state only when no key it holds still authenticates it.    *)
RevokedOnlyIfRevoked ==
    [][store.state = "active" /\ store'.state = "revoked" =>
          ~ \E k \in HeldKeys : KeyUsable(store.id, k)]_allVars

(* "Pending rotation resolves by commit detection": a rotation whose       *)
(* outcome is unknown ends with the new key in place, unless the identity  *)
(* is revoked first.                                                       *)
PendingRotationResolves ==
    store.new # NoKey ~> (store.new = NoKey \/ store.state # "active")

(* Whatever is lost, late or cut off by a crash, the node can still prove  *)
(* its identity: with the key the Hub expects while it is registered, and  *)
(* with the tombstone's key when it has to enroll again.                   *)
KeyNeverLost == IdentityNeverOrphaned /\ TombstoneKeyHeld

(* The invariant of the node's store: well typed, beside the Hub's tables, *)
(* and accepted by the next start.                                         *)
StoreSound == NodeTypeOK /\ StoreLoads
=============================================================================
