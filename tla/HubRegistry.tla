----------------------------- MODULE HubRegistry -----------------------------
(***************************************************************************)
(* The identity and credential tables of the Hub registry (SQLite):        *)
(* enrollment tokens, nodes, the machine keys of every node, the Hub route *)
(* keys of every node and the recorded enrollment results.  Every action   *)
(* is one BEGIN IMMEDIATE transaction of src/registry/registry.mjs; a      *)
(* denied request changes none of these tables and is a stuttering step.   *)
(* Signatures, time stamps and nonces are the subject of MachineAuth.      *)
(***************************************************************************)
EXTENDS Integers, FiniteSets

CONSTANTS
    NodeIds,          \* the node_ identifiers the Hub may mint
    MachineKeys,      \* key ids of node key pairs
    RouteKeys,        \* key ids of Hub route key pairs
    Tokens,           \* enrollment tokens (their digests)
    RequestIds,       \* enrollment, pairing and re-enrollment request ids
    DeleteIds,        \* request ids of operator deletes
    NoNode,           \* SQL NULL in a node id column
    TokenTtl,         \* token life time
    RotationOverlap,  \* overlap of an old and a new machine key
    HubRouteOverlap,  \* overlap of an old and a new Hub route key
    ResultRetention,  \* retention of recorded enrollment results
    AuditRetention,   \* retention of audit rows
    MaxTime           \* bound of the clock

ASSUME SetAssumption ==
    /\ NoNode \notin NodeIds
    /\ IsFiniteSet(MachineKeys)

ASSUME TimeAssumption ==
    /\ TokenTtl \in Nat \ {0}
    /\ RotationOverlap \in Nat \ {0}
    /\ HubRouteOverlap \in Nat \ {0}
    /\ ResultRetention \in Nat \ {0}
    /\ AuditRetention \in Nat \ {0}
    /\ MaxTime \in Nat

VARIABLES
    now,        \* the Hub's clock
    token,      \* enrollment_tokens: Tokens -> [purpose, bound, expiresAt, consumedBy]
    node,       \* nodes.state: NodeIds -> "absent" | "active" | "tombstoned"
    nodeKey,    \* node_keys: NodeIds -> MachineKeys -> [state, revokeAfter, created]
    hubKey,     \* hub_route_keys: NodeIds -> RouteKeys -> [state, revokeAfter]
    results,    \* enrollment_results: {[token, request, key, node, kind, at]}
    deletions   \* audit rows hub.nodes.delete: {[request, node, at]}

vars == <<now, token, node, nodeKey, hubKey, results, deletions>>

-----------------------------------------------------------------------------
(* Rows *)

Never == -1   \* SQL NULL in a time column

Purposes == {"enroll", "reenroll", "pair"}

TokenRow == [purpose    : Purposes \cup {"none"},
             bound      : NodeIds \cup {NoNode},
             expiresAt  : Nat,
             consumedBy : NodeIds \cup {NoNode}]

NodeKeyRow == [state       : {"absent", "active", "revoked"},
               revokeAfter : Nat \cup {Never},
               created     : Nat]

HubKeyRow == [state       : {"absent", "provisioned", "active", "rotating", "revoked"},
              revokeAfter : Nat \cup {Never}]

ResultRow == [token : Tokens, request : RequestIds, key : MachineKeys,
              node : NodeIds, kind : Purposes, at : Nat]

DeletionRow == [request : DeleteIds, node : NodeIds, at : Nat]

NoToken   == [purpose |-> "none", bound |-> NoNode, expiresAt |-> 0, consumedBy |-> NoNode]
NoNodeKey == [state |-> "absent", revokeAfter |-> Never, created |-> 0]
NoHubKey  == [state |-> "absent", revokeAfter |-> Never]

TypeOK ==
    /\ now \in Nat
    /\ token \in [Tokens -> TokenRow]
    /\ node \in [NodeIds -> {"absent", "active", "tombstoned"}]
    /\ nodeKey \in [NodeIds -> [MachineKeys -> NodeKeyRow]]
    /\ hubKey \in [NodeIds -> [RouteKeys -> HubKeyRow]]
    /\ results \in SUBSET ResultRow
    /\ deletions \in SUBSET DeletionRow

Init ==
    /\ now = 0
    /\ token = [t \in Tokens |-> NoToken]
    /\ node = [n \in NodeIds |-> "absent"]
    /\ nodeKey = [n \in NodeIds |-> [k \in MachineKeys |-> NoNodeKey]]
    /\ hubKey = [n \in NodeIds |-> [h \in RouteKeys |-> NoHubKey]]
    /\ results = {}
    /\ deletions = {}

-----------------------------------------------------------------------------
(* Machine keys *)

(* A key authenticates machine requests of an active node while its row is *)
(* active and its rotation overlap, if any, has not ended.                 *)
KeyUsable(n, k) ==
    /\ node[n] = "active"
    /\ nodeKey[n][k].state = "active"
    /\ nodeKey[n][k].revokeAfter # Never => nodeKey[n][k].revokeAfter > now

KeyRows(n) == {k \in MachineKeys : nodeKey[n][k].state # "absent"}

(* Rows are never deleted, so the number of a node's rows orders them by   *)
(* created_at.                                                             *)
NewNodeKey(n) == [state |-> "active", revokeAfter |-> Never, created |-> Cardinality(KeyRows(n))]

(* The revoked key of the node that was created last: the one key whose    *)
(* possession proof re-enrolls a tombstone.                                *)
IsHistoricalKey(n, k) ==
    /\ nodeKey[n][k].state = "revoked"
    /\ \A j \in MachineKeys :
          nodeKey[n][j].state = "revoked" => nodeKey[n][j].created <= nodeKey[n][k].created

-----------------------------------------------------------------------------
(* Hub route keys of one node; rows is hubKey[n] *)

WithState(rows, s) == {h \in RouteKeys : rows[h].state = s}

LiveHubKeys(rows) == {h \in RouteKeys : rows[h].state \in {"provisioned", "active", "rotating"}}

FreshRouteKeys == {h \in RouteKeys : \A n \in NodeIds : hubKey[n][h].state = "absent"}

(* The possible rows after ensureHubRouteKey: a node without a live key    *)
(* gets a newly generated one.                                             *)
EnsureHubRouteKey(rows) ==
    IF LiveHubKeys(rows) # {}
    THEN {rows}
    ELSE {[rows EXCEPT ![h] = [state |-> "provisioned", revokeAfter |-> Never]] : h \in FreshRouteKeys}

(* A node that names the provisioned key as accepted activates it; the key *)
(* that was active before starts its overlap at that moment.               *)
AcknowledgeHubRouteKeys(rows, accepted) ==
    LET acked == WithState(rows, "provisioned") \cap accepted
        turn(h) == LiveHubKeys(rows) = {h} \/ WithState(rows, "active") # {}
    IN  [h \in RouteKeys |->
            CASE h \in acked /\ turn(h) -> [rows[h] EXCEPT !.state = "active"]
              [] rows[h].state = "active" /\ acked # {} ->
                    [state |-> "rotating", revokeAfter |-> now + HubRouteOverlap]
              [] OTHER -> rows[h]]

(* validateHubRouteKeySet: the set of live rows is one of the four forms   *)
(* and a rotating key's overlap has not ended.                             *)
ValidHubRouteKeySet(rows) ==
    LET forms == {<<1, 0, 0>>, <<0, 1, 0>>, <<1, 1, 0>>, <<0, 1, 1>>}
    IN  /\ <<Cardinality(WithState(rows, "provisioned")), Cardinality(WithState(rows, "active")),
             Cardinality(WithState(rows, "rotating"))>> \in forms
        /\ \A h \in WithState(rows, "provisioned") \cup WithState(rows, "active") :
              rows[h].revokeAfter = Never
        /\ \A h \in WithState(rows, "rotating") : rows[h].revokeAfter > now

(* The key the Hub signs route traffic with: the active one, or else one   *)
(* still rotating.                                                         *)
SigningKeys(rows) ==
    IF WithState(rows, "active") # {} THEN WithState(rows, "active") ELSE WithState(rows, "rotating")

-----------------------------------------------------------------------------
(* Operations *)

MintEnrollmentToken(t, purpose, n) ==
    /\ token[t].purpose = "none"
    /\ IF purpose = "reenroll" THEN n \in NodeIds /\ node[n] = "tombstoned" ELSE n = NoNode
    /\ token' = [token EXCEPT ![t] = [purpose |-> purpose, bound |-> n,
                                      expiresAt |-> now + TokenTtl, consumedBy |-> NoNode]]
    /\ UNCHANGED <<now, node, nodeKey, hubKey, results, deletions>>

(* Mutant: the consumed_at test is gone. *)
TokenAcceptsConsumed(t, purpose) == token[t].purpose = purpose /\ token[t].expiresAt > now

(* First-time acceptance; a consumed token is only ever replayed.          *)
TokenAccepts(t, purpose) ==
    /\ token[t].purpose = purpose
    /\ token[t].consumedBy = NoNode
    /\ token[t].expiresAt > now

ConsumeToken(t, r, k, n) ==
    /\ token' = [token EXCEPT ![t].consumedBy = n]
    /\ results' = results \cup {[token |-> t, request |-> r, key |-> k, node |-> n,
                                 kind |-> token[t].purpose, at |-> now]}

(* The recorded result that answers an exact replay of a consumed token.   *)
ReplayOrDeny(t, purpose, r, k) ==
    {x \in results : x.token = t /\ x.kind = purpose /\ x.request = r /\ x.key = k}

InstallKey(n, k) == nodeKey' = [nodeKey EXCEPT ![n][k] = NewNodeKey(n)]

Enroll(t, r, k, n) ==
    /\ TokenAccepts(t, "enroll")
    /\ node[n] = "absent"
    /\ node' = [node EXCEPT ![n] = "active"]
    /\ ConsumeToken(t, r, k, n)
    /\ InstallKey(n, k)
    /\ UNCHANGED <<now, hubKey, deletions>>

(* An active node already holding this key: pairing must not duplicate it. *)
KeyInActiveUse(k) == \E m \in NodeIds : node[m] = "active" /\ nodeKey[m][k].state = "active"

Pair(t, r, k, n) ==
    /\ TokenAccepts(t, "pair")
    /\ ~ KeyInActiveUse(k)
    /\ node[n] = "absent"
    /\ node' = [node EXCEPT ![n] = "active"]
    /\ ConsumeToken(t, r, k, n)
    /\ InstallKey(n, k)
    /\ \E rows \in EnsureHubRouteKey(hubKey[n]) : hubKey' = [hubKey EXCEPT ![n] = rows]
    /\ UNCHANGED <<now, deletions>>

(* Mutant: INSERT OR REPLACE of the new key's row. *)
ReenrollReplacingRow(t, r, k, n, proof) ==
    /\ TokenAccepts(t, "reenroll")
    /\ token[t].bound = n
    /\ node[n] = "tombstoned"
    /\ IsHistoricalKey(n, proof)
    /\ node' = [node EXCEPT ![n] = "active"]
    /\ ConsumeToken(t, r, k, n)
    /\ InstallKey(n, k)
    /\ \E rows \in EnsureHubRouteKey(hubKey[n]) : hubKey' = [hubKey EXCEPT ![n] = rows]
    /\ UNCHANGED <<now, deletions>>

(* The possession proof is signed with key proof; the new key k must not   *)
(* have a row yet (primary key (node_id, key_id): the transaction would    *)
(* roll back).                                                             *)
Reenroll(t, r, k, n, proof) ==
    /\ TokenAccepts(t, "reenroll")
    /\ token[t].bound = n
    /\ node[n] = "tombstoned"
    /\ IsHistoricalKey(n, proof)
    /\ nodeKey[n][k].state = "absent"
    /\ node' = [node EXCEPT ![n] = "active"]
    /\ ConsumeToken(t, r, k, n)
    /\ InstallKey(n, k)
    /\ \E rows \in EnsureHubRouteKey(hubKey[n]) : hubKey' = [hubKey EXCEPT ![n] = rows]
    /\ UNCHANGED <<now, deletions>>

Heartbeat(n, k, accepted) ==
    /\ KeyUsable(n, k)
    /\ \E rows \in EnsureHubRouteKey(AcknowledgeHubRouteKeys(hubKey[n], accepted)) :
          hubKey' = [hubKey EXCEPT ![n] = rows]
    /\ UNCHANGED <<now, token, node, nodeKey, results, deletions>>

(* Mutant: the overlap is subtracted. *)
RotateCredentialIntoPast(n, k, new) ==
    /\ KeyUsable(n, k)
    /\ new # k
    /\ nodeKey[n][new].state = "absent"
    /\ nodeKey' = [nodeKey EXCEPT ![n][k].revokeAfter = now - RotationOverlap - 1,
                                  ![n][new] = NewNodeKey(n)]
    /\ UNCHANGED <<now, token, node, hubKey, results, deletions>>

(* Mutant: the deadline is written to all keys of the node. *)
RotateCredentialAllKeys(n, k, new) ==
    /\ KeyUsable(n, k)
    /\ new # k
    /\ nodeKey[n][new].state = "absent"
    /\ nodeKey' = [nodeKey EXCEPT ![n] =
                     [j \in MachineKeys |->
                        [(IF j = new THEN NewNodeKey(n) ELSE nodeKey[n][j])
                            EXCEPT !.revokeAfter = now + RotationOverlap]]]
    /\ UNCHANGED <<now, token, node, hubKey, results, deletions>>

RotateCredential(n, k, new) ==
    /\ KeyUsable(n, k)
    /\ new # k
    /\ nodeKey[n][new].state = "absent"
    /\ nodeKey' = [nodeKey EXCEPT ![n][k].revokeAfter = now + RotationOverlap,
                                  ![n][new] = NewNodeKey(n)]
    /\ UNCHANGED <<now, token, node, hubKey, results, deletions>>

(* Mutant: keys in their overlap are left to the sweep. *)
DeleteNodeStandingKeys(n, d) ==
    /\ node[n] = "active"
    /\ \A x \in deletions : x.request # d
    /\ node' = [node EXCEPT ![n] = "tombstoned"]
    /\ nodeKey' = [nodeKey EXCEPT ![n] =
                     [k \in MachineKeys |->
                        IF nodeKey[n][k].state = "active" /\ nodeKey[n][k].revokeAfter = Never
                        THEN [nodeKey[n][k] EXCEPT !.state = "revoked"]
                        ELSE nodeKey[n][k]]]
    /\ hubKey' = [hubKey EXCEPT ![n] =
                     [h \in RouteKeys |-> IF h \in LiveHubKeys(hubKey[n])
                                          THEN [hubKey[n][h] EXCEPT !.state = "revoked"]
                                          ELSE hubKey[n][h]]]
    /\ deletions' = deletions \cup {[request |-> d, node |-> n, at |-> now]}
    /\ UNCHANGED <<now, token, results>>

(* Mutant: only the key with a deadline survives as revoked; the standing  *)
(* key's row is removed with the node.                                     *)
DeleteNodeDroppingRow(n, d) ==
    /\ node[n] = "active"
    /\ \A x \in deletions : x.request # d
    /\ node' = [node EXCEPT ![n] = "tombstoned"]
    /\ nodeKey' = [nodeKey EXCEPT ![n] =
                     [k \in MachineKeys |-> IF nodeKey[n][k].state = "active"
                                            THEN NoNodeKey ELSE nodeKey[n][k]]]
    /\ hubKey' = [hubKey EXCEPT ![n] =
                     [h \in RouteKeys |-> IF h \in LiveHubKeys(hubKey[n])
                                          THEN [hubKey[n][h] EXCEPT !.state = "revoked"]
                                          ELSE hubKey[n][h]]]
    /\ deletions' = deletions \cup {[request |-> d, node |-> n, at |-> now]}
    /\ UNCHANGED <<now, token, results>>

DeleteNode(n, d) ==
    /\ node[n] = "active"
    /\ \A x \in deletions : x.request # d
    /\ node' = [node EXCEPT ![n] = "tombstoned"]
    /\ nodeKey' = [nodeKey EXCEPT ![n] =
                     [k \in MachineKeys |-> IF nodeKey[n][k].state = "active"
                                            THEN [nodeKey[n][k] EXCEPT !.state = "revoked"]
                                            ELSE nodeKey[n][k]]]
    /\ hubKey' = [hubKey EXCEPT ![n] =
                     [h \in RouteKeys |-> IF h \in LiveHubKeys(hubKey[n])
                                          THEN [hubKey[n][h] EXCEPT !.state = "revoked"]
                                          ELSE hubKey[n][h]]]
    /\ deletions' = deletions \cup {[request |-> d, node |-> n, at |-> now]}
    /\ UNCHANGED <<now, token, results>>

(* Mutant: the overlap of the old key starts with the rotation instead of  *)
(* with the node's acknowledgment.                                         *)
RotateHubRouteKeyEagerly(n, new) ==
    /\ node[n] = "active"
    /\ WithState(hubKey[n], "active") # {}
    /\ WithState(hubKey[n], "provisioned") \cup WithState(hubKey[n], "rotating") = {}
    /\ new \in FreshRouteKeys
    /\ hubKey' = [hubKey EXCEPT ![n] =
                     [h \in RouteKeys |->
                        CASE h = new -> [state |-> "provisioned", revokeAfter |-> Never]
                          [] hubKey[n][h].state = "active" ->
                                [state |-> "rotating", revokeAfter |-> now + HubRouteOverlap]
                          [] OTHER -> hubKey[n][h]]]
    /\ UNCHANGED <<now, token, node, nodeKey, results, deletions>>

RotateHubRouteKey(n, new) ==
    /\ node[n] = "active"
    /\ WithState(hubKey[n], "active") # {}
    /\ WithState(hubKey[n], "provisioned") \cup WithState(hubKey[n], "rotating") = {}
    /\ new \in FreshRouteKeys
    /\ hubKey' = [hubKey EXCEPT ![n][new] = [state |-> "provisioned", revokeAfter |-> Never]]
    /\ UNCHANGED <<now, token, node, nodeKey, results, deletions>>

Expired(deadline) == deadline # Never /\ deadline <= now

(* The overlap and retention sweeps of maintenance().                      *)
Maintenance ==
    /\ nodeKey' = [n \in NodeIds |-> [k \in MachineKeys |->
                     IF nodeKey[n][k].state = "active" /\ Expired(nodeKey[n][k].revokeAfter)
                     THEN [nodeKey[n][k] EXCEPT !.state = "revoked"]
                     ELSE nodeKey[n][k]]]
    /\ hubKey' = [n \in NodeIds |-> [h \in RouteKeys |->
                     IF hubKey[n][h].state = "rotating" /\ Expired(hubKey[n][h].revokeAfter)
                     THEN [hubKey[n][h] EXCEPT !.state = "revoked"]
                     ELSE hubKey[n][h]]]
    /\ results' = {x \in results : x.at + ResultRetention > now}
    /\ deletions' = {x \in deletions : x.at + AuditRetention > now}
    /\ UNCHANGED <<now, token, node>>

Tick ==
    /\ now < MaxTime
    /\ now' = now + 1
    /\ UNCHANGED <<token, node, nodeKey, hubKey, results, deletions>>

Next ==
    \/ \E t \in Tokens, p \in Purposes, n \in NodeIds \cup {NoNode} : MintEnrollmentToken(t, p, n)
    \/ \E t \in Tokens, r \in RequestIds, k \in MachineKeys, n \in NodeIds :
          Enroll(t, r, k, n) \/ Pair(t, r, k, n)
    \/ \E t \in Tokens, r \in RequestIds, k, proof \in MachineKeys, n \in NodeIds :
          Reenroll(t, r, k, n, proof)
    \/ \E n \in NodeIds, k \in MachineKeys, accepted \in SUBSET RouteKeys : Heartbeat(n, k, accepted)
    \/ \E n \in NodeIds, k, new \in MachineKeys : RotateCredential(n, k, new)
    \/ \E n \in NodeIds, d \in DeleteIds : DeleteNode(n, d)
    \/ \E n \in NodeIds, new \in RouteKeys : RotateHubRouteKey(n, new)
    \/ Maintenance
    \/ Tick

Spec == Init /\ [][Next]_vars

-----------------------------------------------------------------------------
(* Properties *)

(* An active node always has a machine key that no rotation deadline will  *)
(* take away: rotations, overlap sweeps, deletions and re-enrollments in   *)
(* any order never lock a registered node out of the machine API.          *)
NeverLockedOut ==
    \A n \in NodeIds : node[n] = "active" =>
        \E k \in MachineKeys : nodeKey[n][k].state = "active" /\ nodeKey[n][k].revokeAfter = Never

(* Deletion revokes everything and nothing brings a key back while the     *)
(* tombstone stands: a node that is not active has no key that could       *)
(* authenticate it or sign route traffic for it.                           *)
TombstoneHoldsNoLiveKey ==
    \A n \in NodeIds : node[n] # "active" =>
        /\ \A k \in MachineKeys : nodeKey[n][k].state # "active"
        /\ LiveHubKeys(hubKey[n]) = {}

(* A tombstone can be recovered: the 500 missing-historical-key branch of  *)
(* reenroll is unreachable, and the retained key is the key installed last *)
(* of all, so a node that kept its newest private key can prove itself.    *)
TombstoneRecoverable ==
    \A n \in NodeIds : node[n] = "tombstoned" =>
        \E k \in MachineKeys :
            /\ IsHistoricalKey(n, k)
            /\ \A j \in KeyRows(n) : nodeKey[n][j].created <= nodeKey[n][k].created

(* What a heartbeat may return for one node has one of the four forms that *)
(* validateHubRouteKeySet knows (or is empty before provisioning): one     *)
(* provisioned, one active, active with provisioned, active with rotating. *)
(* The deadline of a rotating key is the only one that is set.             *)
WellFormedHubKeys(rows) ==
    LET P == WithState(rows, "provisioned")
        A == WithState(rows, "active")
        R == WithState(rows, "rotating")
    IN  /\ \A g, h \in P : g = h
        /\ \A g, h \in A : g = h
        /\ \A g, h \in R : g = h
        /\ P = {} \/ R = {}
        /\ R # {} => A # {}
        /\ \A h \in P \cup A : rows[h].revokeAfter = Never
        /\ \A h \in R : rows[h].revokeAfter # Never

(* Heartbeats, acknowledgments, rotations, sweeps and deletions in any     *)
(* order keep the Hub route keys of every node in such a form: there are   *)
(* never two candidates for the signing key, nor two rotations at once.    *)
HubKeySetWellFormed == \A n \in NodeIds : WellFormedHubKeys(hubKey[n])

(* A token yields one identity: its recorded results all name the node     *)
(* that consumed it, there is at most one of them, every registered node   *)
(* is what exactly one enrollment or pairing token was consumed for - also *)
(* after the recorded result has been purged and a request is repeated.    *)
TokenYieldsOneIdentity ==
    /\ \A x \in results : token[x.token].consumedBy = x.node /\ token[x.token].purpose = x.kind
    /\ \A x, y \in results : x.token = y.token => x = y
    /\ \A s, t \in Tokens :
          (/\ token[s].consumedBy # NoNode
           /\ token[s].consumedBy = token[t].consumedBy
           /\ token[s].purpose \in {"enroll", "pair"}
           /\ token[t].purpose \in {"enroll", "pair"}) => s = t
    /\ \A n \in NodeIds : node[n] # "absent" =>
          \E t \in Tokens : token[t].purpose \in {"enroll", "pair"} /\ token[t].consumedBy = n

(* Revocation is terminal for both kinds of keys; a key that left the      *)
(* active state never authenticates or signs again.                        *)
RevocationIsTerminal ==
    [][\A n \in NodeIds :
          /\ \A k \in MachineKeys : nodeKey[n][k].state = "revoked" => nodeKey'[n][k].state = "revoked"
          /\ \A h \in RouteKeys :
                /\ hubKey[n][h].state = "revoked" => hubKey'[n][h].state = "revoked"
                /\ hubKey[n][h].state = "rotating" => hubKey'[n][h].state \in {"rotating", "revoked"}]_vars

(* Route traffic of a node never loses its signing key while the node      *)
(* stays registered: neither a Hub key rotation nor the end of an overlap  *)
(* leaves the Hub without a key it can sign with.                          *)
SigningKeyContinuity ==
    [][\A n \in NodeIds :
          (SigningKeys(hubKey[n]) # {} /\ node'[n] = "active") => SigningKeys(hubKey'[n]) # {}]_vars

(* The tables keep their types, and the Hub route keys of every node one   *)
(* of the forms that rotations, acknowledgments and sweeps go through.     *)
TablesSound == TypeOK /\ HubKeySetWellFormed
=============================================================================
