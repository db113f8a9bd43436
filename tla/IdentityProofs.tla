--------------------------- MODULE IdentityProofs ---------------------------
(***************************************************************************)
(* Proofs about HubRegistry and NodeIdentity, for every set of nodes,      *)
(* keys, tokens and requests, every overlap, every retention and every     *)
(* bound on the requests that arrive late.  First the registry alone, then *)
(* the client and the network: they make only steps the registry allows,   *)
(* the store loads, and the node keeps the private half of every key the   *)
(* Hub expects.                                                            *)
(***************************************************************************)
EXTENDS NodeIdentity, FiniteSetTheorems, TLAPS


-----------------------------------------------------------------------------
(* The registry: lemmas about the operators the actions are built from *)

(* The row installed for a new machine key is well typed.                  *)
LEMMA NewNodeKeyType ==
    ASSUME NEW n \in NodeIds
    PROVE  NewNodeKey(n) \in NodeKeyRow
<1>1. KeyRows(n) \subseteq MachineKeys
  BY DEF KeyRows
<1>2. Cardinality(KeyRows(n)) \in Nat
  BY <1>1, SetAssumption, FS_Subset, FS_CardinalityType
<1> QED
  BY <1>2 DEF NewNodeKey, NodeKeyRow

(* Revoking a row, or giving it a deadline, keeps it a row.                *)
LEMMA RowUpdates ==
    /\ \A row \in NodeKeyRow : [row EXCEPT !.state = "revoked"] \in NodeKeyRow
    /\ \A row \in NodeKeyRow, at \in Nat : [row EXCEPT !.revokeAfter = at] \in NodeKeyRow
    /\ \A row \in HubKeyRow : [row EXCEPT !.state = "revoked"] \in HubKeyRow
    /\ \A row \in TokenRow, n \in NodeIds : [row EXCEPT !.consumedBy = n] \in TokenRow
<1>1. ASSUME NEW row \in NodeKeyRow PROVE [row EXCEPT !.state = "revoked"] \in NodeKeyRow
  BY DEF NodeKeyRow
<1>2. ASSUME NEW row \in NodeKeyRow, NEW at \in Nat PROVE [row EXCEPT !.revokeAfter = at] \in NodeKeyRow
  BY DEF NodeKeyRow
<1>3. ASSUME NEW row \in HubKeyRow PROVE [row EXCEPT !.state = "revoked"] \in HubKeyRow
  BY DEF HubKeyRow
<1>4. ASSUME NEW row \in TokenRow, NEW n \in NodeIds PROVE [row EXCEPT !.consumedBy = n] \in TokenRow
  BY DEF TokenRow
<1> QED
  BY <1>1, <1>2, <1>3, <1>4

(* ensureHubRouteKey keeps a row table a row table.                        *)
LEMMA EnsureType ==
    ASSUME NEW rows \in [RouteKeys -> HubKeyRow],
           NEW next \in EnsureHubRouteKey(rows)
    PROVE  next \in [RouteKeys -> HubKeyRow]
BY DEF EnsureHubRouteKey, FreshRouteKeys, HubKeyRow

(* acknowledgeHubRouteKeys keeps a row table a row table.                  *)
LEMMA AcknowledgeType ==
    ASSUME TypeOK, NEW n \in NodeIds, NEW accepted
    PROVE  AcknowledgeHubRouteKeys(hubKey[n], accepted) \in [RouteKeys -> HubKeyRow]
<1> DEFINE rows == hubKey[n]
<1>1. rows \in [RouteKeys -> HubKeyRow]
  BY DEF TypeOK
<1>2. \A h \in RouteKeys : [rows[h] EXCEPT !.state = "active"] \in HubKeyRow
  BY <1>1 DEF HubKeyRow
<1>3. [state |-> "rotating", revokeAfter |-> now + HubRouteOverlap] \in HubKeyRow
  BY TimeAssumption DEF HubKeyRow, TypeOK
<1> QED
  BY <1>1, <1>2, <1>3 DEF AcknowledgeHubRouteKeys

-----------------------------------------------------------------------------
(* Type correctness *)

(* Installing a key and consuming a token keep the tables typed.           *)
LEMMA InstallKeyType ==
    ASSUME TypeOK, NEW n \in NodeIds, NEW k \in MachineKeys, InstallKey(n, k)
    PROVE  nodeKey' \in [NodeIds -> [MachineKeys -> NodeKeyRow]]
BY NewNodeKeyType DEF TypeOK, InstallKey

LEMMA ConsumeTokenType ==
    ASSUME TypeOK, NEW t \in Tokens, NEW r \in RequestIds, NEW k \in MachineKeys, NEW n \in NodeIds,
           token[t].purpose \in Purposes, ConsumeToken(t, r, k, n)
    PROVE  /\ token' \in [Tokens -> TokenRow]
           /\ results' \in SUBSET ResultRow
<1>1. token[t] \in TokenRow
  BY DEF TypeOK
<1>2. token' \in [Tokens -> TokenRow]
  BY <1>1, RowUpdates DEF TypeOK, ConsumeToken
<1>3. [token |-> t, request |-> r, key |-> k, node |-> n, kind |-> token[t].purpose, at |-> now] \in ResultRow
  BY DEF TypeOK, ResultRow
<1> QED
  BY <1>2, <1>3 DEF TypeOK, ConsumeToken

(* Every transaction leaves the tables well typed.                         *)
LEMMA TypeStep == TypeOK /\ [Next]_vars => TypeOK'
<1> SUFFICES ASSUME TypeOK, [Next]_vars PROVE TypeOK'
  OBVIOUS
<1>1. ASSUME NEW t \in Tokens, NEW p \in Purposes, NEW n \in NodeIds \cup {NoNode},
             MintEnrollmentToken(t, p, n)
      PROVE  TypeOK'
  <2>1. [purpose |-> p, bound |-> n, expiresAt |-> now + TokenTtl, consumedBy |-> NoNode] \in TokenRow
    BY TimeAssumption DEF TypeOK, TokenRow
  <2> QED
    BY <1>1, <2>1 DEF MintEnrollmentToken, TypeOK
<1>2. ASSUME NEW t \in Tokens, NEW r \in RequestIds, NEW k \in MachineKeys, NEW n \in NodeIds,
             Enroll(t, r, k, n)
      PROVE  TypeOK'
  <2>1. token[t].purpose \in Purposes
    BY <1>2 DEF Enroll, TokenAccepts, Purposes
  <2> QED
    BY <1>2, <2>1, InstallKeyType, ConsumeTokenType DEF Enroll, TypeOK
<1>3. ASSUME NEW t \in Tokens, NEW r \in RequestIds, NEW k \in MachineKeys, NEW n \in NodeIds,
             Pair(t, r, k, n)
      PROVE  TypeOK'
  <2>1. token[t].purpose \in Purposes
    BY <1>3 DEF Pair, TokenAccepts, Purposes
  <2>2. hubKey' \in [NodeIds -> [RouteKeys -> HubKeyRow]]
    BY <1>3, EnsureType DEF Pair, TypeOK
  <2> QED
    BY <1>3, <2>1, <2>2, InstallKeyType, ConsumeTokenType DEF Pair, TypeOK
<1>4. ASSUME NEW t \in Tokens, NEW r \in RequestIds, NEW k \in MachineKeys, NEW proof \in MachineKeys,
             NEW n \in NodeIds, Reenroll(t, r, k, n, proof)
      PROVE  TypeOK'
  <2>1. token[t].purpose \in Purposes
    BY <1>4 DEF Reenroll, TokenAccepts, Purposes
  <2>2. hubKey' \in [NodeIds -> [RouteKeys -> HubKeyRow]]
    BY <1>4, EnsureType DEF Reenroll, TypeOK
  <2> QED
    BY <1>4, <2>1, <2>2, InstallKeyType, ConsumeTokenType DEF Reenroll, TypeOK
<1>5. ASSUME NEW n \in NodeIds, NEW k \in MachineKeys, NEW accepted \in SUBSET RouteKeys,
             Heartbeat(n, k, accepted)
      PROVE  TypeOK'
  BY <1>5, EnsureType, AcknowledgeType DEF Heartbeat, TypeOK
<1>6. ASSUME NEW n \in NodeIds, NEW k \in MachineKeys, NEW new \in MachineKeys,
             RotateCredential(n, k, new)
      PROVE  TypeOK'
  <2>1. [nodeKey[n][k] EXCEPT !.revokeAfter = now + RotationOverlap] \in NodeKeyRow
    <3>1. nodeKey[n][k] \in NodeKeyRow /\ now + RotationOverlap \in Nat
      BY TimeAssumption DEF TypeOK
    <3> QED
      BY <3>1, RowUpdates
  <2> QED
    BY <1>6, <2>1, NewNodeKeyType DEF RotateCredential, TypeOK
<1>7. ASSUME NEW n \in NodeIds, NEW d \in DeleteIds, DeleteNode(n, d)
      PROVE  TypeOK'
  <2>1. \A k \in MachineKeys : [nodeKey[n][k] EXCEPT !.state = "revoked"] \in NodeKeyRow
    BY RowUpdates DEF TypeOK
  <2>2. \A h \in RouteKeys : [hubKey[n][h] EXCEPT !.state = "revoked"] \in HubKeyRow
    BY RowUpdates DEF TypeOK
  <2> QED
    BY <1>7, <2>1, <2>2 DEF DeleteNode, TypeOK, DeletionRow
<1>8. ASSUME NEW n \in NodeIds, NEW new \in RouteKeys, RotateHubRouteKey(n, new)
      PROVE  TypeOK'
  <2>1. [state |-> "provisioned", revokeAfter |-> Never] \in HubKeyRow
    BY DEF HubKeyRow
  <2> QED
    BY <1>8, <2>1 DEF RotateHubRouteKey, TypeOK
<1>9. CASE Maintenance
  <2>1. \A n \in NodeIds, k \in MachineKeys : [nodeKey[n][k] EXCEPT !.state = "revoked"] \in NodeKeyRow
    BY RowUpdates DEF TypeOK
  <2>2. \A n \in NodeIds, h \in RouteKeys : [hubKey[n][h] EXCEPT !.state = "revoked"] \in HubKeyRow
    BY RowUpdates DEF TypeOK
  <2> QED
    BY <1>9, <2>1, <2>2 DEF Maintenance, TypeOK
<1>10. CASE Tick
  BY <1>10 DEF Tick, TypeOK
<1>11. CASE UNCHANGED vars
  BY <1>11 DEF vars, TypeOK
<1> QED
  BY <1>1, <1>2, <1>3, <1>4, <1>5, <1>6, <1>7, <1>8, <1>9, <1>10, <1>11 DEF Next

(* The registry tables always hold well-typed rows.                        *)
THEOREM TypeCorrect == Spec => []TypeOK
<1>1. Init => TypeOK
  BY DEF Init, TypeOK, NoToken, NoNodeKey, NoHubKey, TokenRow, NodeKeyRow, HubKeyRow
<1> QED
  BY <1>1, TypeStep, PTL DEF Spec

-----------------------------------------------------------------------------
(* A registered node is never locked out *)

(* No transaction takes an active node's last key without a deadline.      *)
LEMMA NeverLockedOutStep == TypeOK /\ NeverLockedOut /\ [Next]_vars => NeverLockedOut'
<1> SUFFICES ASSUME TypeOK, NeverLockedOut, [Next]_vars PROVE NeverLockedOut'
  OBVIOUS
<1> DEFINE Standing(m, k) == nodeKey[m][k].state = "active" /\ nodeKey[m][k].revokeAfter = Never
<1>1. ASSUME NEW n \in NodeIds, NEW k \in MachineKeys, InstallKey(n, k),
             node' = [node EXCEPT ![n] = "active"]
      PROVE  NeverLockedOut'
  <2> SUFFICES ASSUME NEW m \in NodeIds, node'[m] = "active"
               PROVE  \E j \in MachineKeys : Standing(m, j)'
    BY DEF NeverLockedOut
  <2>1. CASE m = n
    <3>1. nodeKey'[n][k] = NewNodeKey(n)
      BY <1>1 DEF InstallKey, TypeOK
    <3> QED
      BY <2>1, <3>1 DEF NewNodeKey
  <2>2. CASE m # n
    BY <1>1, <2>2 DEF InstallKey, TypeOK, NeverLockedOut
  <2> QED
    BY <2>1, <2>2
<1>2. ASSUME NEW t \in Tokens, NEW r \in RequestIds, NEW k \in MachineKeys, NEW n \in NodeIds,
             Enroll(t, r, k, n) \/ Pair(t, r, k, n)
      PROVE  NeverLockedOut'
  BY <1>1, <1>2 DEF Enroll, Pair
<1>3. ASSUME NEW t \in Tokens, NEW r \in RequestIds, NEW k \in MachineKeys, NEW proof \in MachineKeys,
             NEW n \in NodeIds, Reenroll(t, r, k, n, proof)
      PROVE  NeverLockedOut'
  BY <1>1, <1>3 DEF Reenroll
<1>4. ASSUME NEW n \in NodeIds, NEW k \in MachineKeys, NEW new \in MachineKeys,
             RotateCredential(n, k, new)
      PROVE  NeverLockedOut'
  <2> SUFFICES ASSUME NEW m \in NodeIds, node'[m] = "active"
               PROVE  \E j \in MachineKeys : Standing(m, j)'
    BY DEF NeverLockedOut
  <2>1. CASE m = n
    <3>1. nodeKey'[n][new] = NewNodeKey(n)
      BY <1>4 DEF RotateCredential, TypeOK
    <3> QED
      BY <2>1, <3>1 DEF NewNodeKey
  <2>2. CASE m # n
    BY <1>4, <2>2 DEF RotateCredential, TypeOK, NeverLockedOut
  <2> QED
    BY <2>1, <2>2
<1>5. ASSUME NEW n \in NodeIds, NEW d \in DeleteIds, DeleteNode(n, d)
      PROVE  NeverLockedOut'
  BY <1>5 DEF DeleteNode, TypeOK, NeverLockedOut
<1>6. CASE Maintenance
  BY <1>6 DEF Maintenance, Expired, TypeOK, NeverLockedOut
<1>7. CASE UNCHANGED <<node, nodeKey>>
  BY <1>7 DEF NeverLockedOut
<1> QED
  BY <1>2, <1>3, <1>4, <1>5, <1>6, <1>7
     DEF Next, MintEnrollmentToken, Heartbeat, RotateHubRouteKey, Tick, vars

(* Whatever is rotated, swept, deleted and re-enrolled, an active node can *)
(* always authenticate with some key that has no deadline.                 *)
THEOREM NeverLockedOutCorrect == Spec => []NeverLockedOut
<1>1. Init => NeverLockedOut
  BY DEF Init, NeverLockedOut
<1> QED
  BY <1>1, NeverLockedOutStep, TypeCorrect, PTL DEF Spec

-----------------------------------------------------------------------------
(* Hub route keys stay in one of the accepted forms *)

(* Provisioning a key for a node without a live one yields form 1.         *)
LEMMA EnsureWellFormed ==
    ASSUME NEW rows \in [RouteKeys -> HubKeyRow], WellFormedHubKeys(rows),
           NEW next \in EnsureHubRouteKey(rows)
    PROVE  WellFormedHubKeys(next)
<1>1. CASE LiveHubKeys(rows) # {}
  BY <1>1 DEF EnsureHubRouteKey
<1>2. CASE LiveHubKeys(rows) = {}
  <2>1. PICK h \in RouteKeys : next = [rows EXCEPT ![h] = [state |-> "provisioned", revokeAfter |-> Never]]
    BY <1>2 DEF EnsureHubRouteKey, FreshRouteKeys
  <2>2. \A g \in RouteKeys : g # h => next[g].state \notin {"provisioned", "active", "rotating"}
    BY <1>2, <2>1 DEF LiveHubKeys
  <2>3. next[h].state = "provisioned" /\ next[h].revokeAfter = Never
    BY <2>1
  <2> QED
    BY <2>2, <2>3 DEF WellFormedHubKeys, WithState
<1> QED
  BY <1>1, <1>2

(* An acknowledgment moves form 1 to form 2 and form 3 to form 4, and      *)
(* leaves every other form alone.                                          *)
LEMMA AcknowledgeWellFormed ==
    ASSUME TypeOK, NEW n \in NodeIds, WellFormedHubKeys(hubKey[n]), NEW accepted
    PROVE  WellFormedHubKeys(AcknowledgeHubRouteKeys(hubKey[n], accepted))
<1> DEFINE rows  == hubKey[n]
           next  == AcknowledgeHubRouteKeys(rows, accepted)
           acked == WithState(rows, "provisioned") \cap accepted
<1>1. rows \in [RouteKeys -> HubKeyRow]
  BY DEF TypeOK
<1>2. CASE acked = {}
  <2>1. \A h \in RouteKeys : next[h] = rows[h]
    BY <1>2 DEF AcknowledgeHubRouteKeys
  <2> QED
    BY <2>1 DEF WellFormedHubKeys, WithState
<1>3. ASSUME NEW p \in acked PROVE WellFormedHubKeys(next)
  <2>1. p \in RouteKeys /\ rows[p].state = "provisioned" /\ rows[p].revokeAfter = Never
    BY <1>3 DEF WithState, WellFormedHubKeys
  <2>2. acked = {p}
    BY <1>3 DEF WellFormedHubKeys
  <2>3. \A h \in RouteKeys : rows[h].state # "rotating"
    BY <1>3 DEF WellFormedHubKeys, WithState
  <2>4. CASE WithState(rows, "active") = {}
    <3>1. LiveHubKeys(rows) = {p}
      BY <2>1, <2>3, <2>4 DEF LiveHubKeys, WithState, WellFormedHubKeys
    <3>2. next[p] = [rows[p] EXCEPT !.state = "active"]
      BY <2>1, <2>2, <3>1 DEF AcknowledgeHubRouteKeys
    <3>3. next[p].state = "active" /\ next[p].revokeAfter = Never
      BY <1>1, <2>1, <3>2 DEF HubKeyRow
    <3>4. \A h \in RouteKeys : h # p => next[h] = rows[h]
      BY <2>2, <2>4 DEF AcknowledgeHubRouteKeys, WithState
    <3>5. \A h \in RouteKeys : h # p => next[h].state \notin {"provisioned", "active", "rotating"}
      BY <3>1, <3>4 DEF LiveHubKeys
    <3> QED
      BY <2>1, <3>3, <3>5 DEF WellFormedHubKeys, WithState
  <2>5. ASSUME NEW a \in WithState(rows, "active") PROVE WellFormedHubKeys(next)
    <3>1. a \in RouteKeys /\ rows[a].state = "active" /\ a # p
      BY <2>1, <2>5 DEF WithState
    <3>2. next[p] = [rows[p] EXCEPT !.state = "active"]
      BY <2>1, <2>2, <2>5 DEF AcknowledgeHubRouteKeys
    <3>3. next[p].state = "active" /\ next[p].revokeAfter = Never
      BY <1>1, <2>1, <3>2 DEF HubKeyRow
    <3>4. next[a] = [state |-> "rotating", revokeAfter |-> now + HubRouteOverlap]
      BY <2>2, <3>1 DEF AcknowledgeHubRouteKeys
    <3>5. now + HubRouteOverlap # Never
      BY TimeAssumption DEF TypeOK, Never
    <3>6. \A h \in RouteKeys : h # p /\ h # a => rows[h].state \notin {"provisioned", "active"}
      BY <2>1, <3>1 DEF WellFormedHubKeys, WithState
    <3>7. \A h \in RouteKeys : h # p /\ h # a => next[h] = rows[h]
      BY <2>2, <3>6 DEF AcknowledgeHubRouteKeys
    <3>8. \A h \in RouteKeys : h # p /\ h # a => next[h].state \notin {"provisioned", "active", "rotating"}
      BY <2>3, <3>6, <3>7
    <3> QED
      BY <2>1, <3>1, <3>3, <3>4, <3>5, <3>8 DEF WellFormedHubKeys, WithState
  <2> QED
    BY <2>4, <2>5
<1> QED
  BY <1>2, <1>3

(* Every transaction keeps the route keys of every node well formed.       *)
LEMMA HubKeySetStep == TypeOK /\ HubKeySetWellFormed /\ [Next]_vars => HubKeySetWellFormed'
<1> SUFFICES ASSUME TypeOK, HubKeySetWellFormed, [Next]_vars PROVE HubKeySetWellFormed'
  OBVIOUS
<1>1. ASSUME NEW n \in NodeIds, NEW rows, WellFormedHubKeys(rows), hubKey' = [hubKey EXCEPT ![n] = rows]
      PROVE  HubKeySetWellFormed'
  <2>1. \A m \in NodeIds : hubKey'[m] = IF m = n THEN rows ELSE hubKey[m]
    BY <1>1 DEF TypeOK
  <2> QED
    BY <1>1, <2>1 DEF HubKeySetWellFormed
<1>2. ASSUME NEW t \in Tokens, NEW r \in RequestIds, NEW k \in MachineKeys, NEW n \in NodeIds,
             Pair(t, r, k, n) \/ \E proof \in MachineKeys : Reenroll(t, r, k, n, proof)
      PROVE  HubKeySetWellFormed'
  <2>1. PICK rows \in EnsureHubRouteKey(hubKey[n]) : hubKey' = [hubKey EXCEPT ![n] = rows]
    BY <1>2 DEF Pair, Reenroll
  <2>2. WellFormedHubKeys(rows)
    BY EnsureWellFormed DEF TypeOK, HubKeySetWellFormed
  <2> QED
    BY <1>1, <2>1, <2>2
<1>3. ASSUME NEW n \in NodeIds, NEW k \in MachineKeys, NEW accepted \in SUBSET RouteKeys,
             Heartbeat(n, k, accepted)
      PROVE  HubKeySetWellFormed'
  <2> DEFINE acknowledged == AcknowledgeHubRouteKeys(hubKey[n], accepted)
  <2>1. PICK rows \in EnsureHubRouteKey(acknowledged) : hubKey' = [hubKey EXCEPT ![n] = rows]
    BY <1>3 DEF Heartbeat
  <2>2. WellFormedHubKeys(acknowledged) /\ acknowledged \in [RouteKeys -> HubKeyRow]
    BY AcknowledgeWellFormed, AcknowledgeType DEF HubKeySetWellFormed
  <2>3. WellFormedHubKeys(rows)
    BY <2>2, EnsureWellFormed
  <2> QED
    BY <1>1, <2>1, <2>3
<1>4. ASSUME NEW n \in NodeIds, NEW d \in DeleteIds, DeleteNode(n, d)
      PROVE  HubKeySetWellFormed'
  <2> DEFINE rows == [h \in RouteKeys |-> IF h \in LiveHubKeys(hubKey[n])
                                          THEN [hubKey[n][h] EXCEPT !.state = "revoked"]
                                          ELSE hubKey[n][h]]
  <2>1. \A h \in RouteKeys : rows[h].state \notin {"provisioned", "active", "rotating"}
    BY DEF LiveHubKeys, TypeOK, HubKeyRow
  <2>2. WellFormedHubKeys(rows)
    BY <2>1 DEF WellFormedHubKeys, WithState
  <2> QED
    BY <1>1, <1>4, <2>2 DEF DeleteNode
<1>5. ASSUME NEW n \in NodeIds, NEW new \in RouteKeys, RotateHubRouteKey(n, new)
      PROVE  HubKeySetWellFormed'
  <2> DEFINE rows == [hubKey[n] EXCEPT ![new] = [state |-> "provisioned", revokeAfter |-> Never]]
  <2>1. rows[new].state = "provisioned" /\ rows[new].revokeAfter = Never
    BY DEF TypeOK
  <2>2. \A h \in RouteKeys : h # new => rows[h] = hubKey[n][h]
    BY DEF TypeOK
  <2>3. \A h \in RouteKeys : hubKey[n][h].state \notin {"provisioned", "rotating"}
    BY <1>5 DEF RotateHubRouteKey, WithState
  <2>4. WellFormedHubKeys(hubKey[n])
    BY DEF HubKeySetWellFormed
  <2>5. WellFormedHubKeys(rows)
    BY <2>1, <2>2, <2>3, <2>4 DEF WellFormedHubKeys, WithState
  <2> QED
    BY <1>1, <1>5, <2>5 DEF RotateHubRouteKey, TypeOK
<1>6. CASE Maintenance
  <2> SUFFICES ASSUME NEW n \in NodeIds PROVE WellFormedHubKeys(hubKey'[n])
    BY DEF HubKeySetWellFormed
  <2>1. \A h \in RouteKeys : hubKey'[n][h].state # "revoked" => hubKey'[n][h] = hubKey[n][h]
    BY <1>6 DEF Maintenance, TypeOK, HubKeyRow
  <2>2. \A h \in RouteKeys : hubKey[n][h].state = "active" => hubKey'[n][h] = hubKey[n][h]
    BY <1>6 DEF Maintenance
  <2>3. WellFormedHubKeys(hubKey[n])
    BY DEF HubKeySetWellFormed
  <2> QED
    BY <2>1, <2>2, <2>3 DEF WellFormedHubKeys, WithState
<1>7. CASE UNCHANGED hubKey
  BY <1>7 DEF HubKeySetWellFormed
<1> QED
  BY <1>2, <1>3, <1>4, <1>5, <1>6, <1>7
     DEF Next, MintEnrollmentToken, Enroll, RotateCredential, Tick, vars

(* The Hub never sends a node a key set that the node must reject for its  *)
(* form, and never has two candidates for its signing key.                 *)
THEOREM HubKeySetCorrect == Spec => []HubKeySetWellFormed
<1>1. Init => HubKeySetWellFormed
  BY DEF Init, HubKeySetWellFormed, WellFormedHubKeys, WithState, NoHubKey
<1> QED
  BY <1>1, HubKeySetStep, TypeCorrect, PTL DEF Spec

(* Both together: the tables are well typed and the Hub route keys of      *)
(* every node have a form the protocol knows.                              *)
THEOREM TablesSoundCorrect == Spec => []TablesSound
BY TypeCorrect, HubKeySetCorrect, PTL DEF TablesSound

-----------------------------------------------------------------------------
(* A tombstone holds no live key *)

(* Keys are installed on nodes that are, or become, active; deletion       *)
(* revokes all of them.                                                    *)
LEMMA TombstoneStep == TypeOK /\ TombstoneHoldsNoLiveKey /\ [Next]_vars => TombstoneHoldsNoLiveKey'
<1> SUFFICES ASSUME TypeOK, TombstoneHoldsNoLiveKey, [Next]_vars,
                    NEW m \in NodeIds, node'[m] # "active"
             PROVE  /\ \A k \in MachineKeys : nodeKey'[m][k].state # "active"
                    /\ LiveHubKeys(hubKey'[m]) = {}
  BY DEF TombstoneHoldsNoLiveKey
<1> DEFINE Kept == nodeKey'[m] = nodeKey[m] /\ hubKey'[m] = hubKey[m] /\ node[m] # "active"
<1>1. CASE Kept
  BY <1>1 DEF TombstoneHoldsNoLiveKey
<1>2. ASSUME NEW t \in Tokens, NEW r \in RequestIds, NEW k \in MachineKeys, NEW n \in NodeIds,
             Enroll(t, r, k, n) \/ Pair(t, r, k, n) \/ \E proof \in MachineKeys : Reenroll(t, r, k, n, proof)
      PROVE  Kept
  <2>1. node' = [node EXCEPT ![n] = "active"] /\ InstallKey(n, k)
    BY <1>2 DEF Enroll, Pair, Reenroll
  <2>2. hubKey' = hubKey \/ \E rows : hubKey' = [hubKey EXCEPT ![n] = rows]
    BY <1>2 DEF Enroll, Pair, Reenroll
  <2>3. m # n
    BY <2>1 DEF TypeOK
  <2> QED
    BY <2>1, <2>2, <2>3 DEF TypeOK, InstallKey
<1>3. ASSUME NEW n \in NodeIds, NEW k \in MachineKeys,
             \/ \E accepted \in SUBSET RouteKeys : Heartbeat(n, k, accepted)
             \/ \E new \in MachineKeys : RotateCredential(n, k, new)
      PROVE  Kept
  <2>1. node' = node /\ node[n] = "active"
    BY <1>3 DEF Heartbeat, RotateCredential, KeyUsable
  <2>2. nodeKey' = nodeKey \/ \E new \in MachineKeys : RotateCredential(n, k, new)
    BY <1>3 DEF Heartbeat
  <2>3. hubKey' = hubKey \/ \E rows : hubKey' = [hubKey EXCEPT ![n] = rows]
    BY <1>3 DEF Heartbeat, RotateCredential
  <2>4. nodeKey'[m] = nodeKey[m]
    BY <2>1, <2>2 DEF RotateCredential, TypeOK
  <2> QED
    BY <2>1, <2>3, <2>4 DEF TypeOK
<1>4. ASSUME NEW n \in NodeIds, NEW new \in RouteKeys, RotateHubRouteKey(n, new)
      PROVE  Kept
  BY <1>4 DEF RotateHubRouteKey, TypeOK
<1>5. ASSUME NEW n \in NodeIds, NEW d \in DeleteIds, DeleteNode(n, d), m = n
      PROVE  /\ \A k \in MachineKeys : nodeKey'[m][k].state # "active"
             /\ LiveHubKeys(hubKey'[m]) = {}
  <2>1. \A k \in MachineKeys : nodeKey'[m][k].state # "active"
    BY <1>5 DEF DeleteNode, TypeOK, NodeKeyRow
  <2>2. \A h \in RouteKeys : hubKey'[m][h].state \notin {"provisioned", "active", "rotating"}
    BY <1>5 DEF DeleteNode, LiveHubKeys, TypeOK, HubKeyRow
  <2> QED
    BY <2>1, <2>2 DEF LiveHubKeys
<1>6. ASSUME NEW n \in NodeIds, NEW d \in DeleteIds, DeleteNode(n, d), m # n
      PROVE  Kept
  BY <1>6 DEF DeleteNode, TypeOK
<1>7. CASE Maintenance
  <2>1. node[m] # "active"
    BY <1>7 DEF Maintenance
  <2>2. \A k \in MachineKeys : nodeKey'[m][k].state # "active"
    BY <1>7, <2>1 DEF Maintenance, TombstoneHoldsNoLiveKey, TypeOK, NodeKeyRow
  <2>3. \A h \in RouteKeys : hubKey'[m][h] = hubKey[m][h]
    BY <1>7, <2>1 DEF Maintenance, TombstoneHoldsNoLiveKey, LiveHubKeys
  <2> QED
    BY <2>1, <2>2, <2>3 DEF TombstoneHoldsNoLiveKey, LiveHubKeys
<1>8. CASE UNCHANGED <<node, nodeKey, hubKey>>
  BY <1>1, <1>8
<1> QED
  BY <1>1, <1>2, <1>3, <1>4, <1>5, <1>6, <1>7, <1>8 DEF Next, MintEnrollmentToken, Tick, vars

(* While a node is not active, nothing it ever held authenticates it or    *)
(* signs its route traffic, whatever was rotated before its deletion.      *)
THEOREM TombstoneHoldsNoLiveKeyCorrect == Spec => []TombstoneHoldsNoLiveKey
<1>1. Init => TombstoneHoldsNoLiveKey
  BY DEF Init, TombstoneHoldsNoLiveKey, LiveHubKeys, NoNodeKey, NoHubKey
<1> QED
  BY <1>1, TombstoneStep, TypeCorrect, PTL DEF Spec

-----------------------------------------------------------------------------
(* Revocation is terminal *)

(* Enroll and Pair write the first row of their node without looking for   *)
(* another: that they revive no key rests on a node having none before.    *)
AbsentHasNoKeys ==
    \A n \in NodeIds : node[n] = "absent" => \A k \in MachineKeys : nodeKey[n][k].state = "absent"

LEMMA AbsentStep == TypeOK /\ AbsentHasNoKeys /\ [Next]_vars => AbsentHasNoKeys'
<1> SUFFICES ASSUME TypeOK, AbsentHasNoKeys, [Next]_vars, NEW m \in NodeIds, node'[m] = "absent"
             PROVE  \A k \in MachineKeys : nodeKey'[m][k].state = "absent"
  BY DEF AbsentHasNoKeys
<1> DEFINE Kept == nodeKey'[m] = nodeKey[m] /\ node[m] = "absent"
<1>1. ASSUME NEW t \in Tokens, NEW r \in RequestIds, NEW k \in MachineKeys, NEW n \in NodeIds,
             Enroll(t, r, k, n) \/ Pair(t, r, k, n) \/ \E proof \in MachineKeys : Reenroll(t, r, k, n, proof)
      PROVE  Kept
  <2>1. node' = [node EXCEPT ![n] = "active"] /\ InstallKey(n, k)
    BY <1>1 DEF Enroll, Pair, Reenroll
  <2> QED
    BY <2>1 DEF TypeOK, InstallKey
<1>2. ASSUME NEW n \in NodeIds, NEW k \in MachineKeys, NEW new \in MachineKeys, RotateCredential(n, k, new)
      PROVE  Kept
  BY <1>2 DEF RotateCredential, KeyUsable, TypeOK
<1>3. ASSUME NEW n \in NodeIds, NEW d \in DeleteIds, DeleteNode(n, d)
      PROVE  Kept
  BY <1>3 DEF DeleteNode, TypeOK
<1>4. CASE Maintenance
  BY <1>4 DEF Maintenance, AbsentHasNoKeys
<1>5. CASE UNCHANGED <<node, nodeKey>>
  BY <1>5 DEF AbsentHasNoKeys
<1> QED
  BY <1>1, <1>2, <1>3, <1>4, <1>5
     DEF Next, MintEnrollmentToken, Heartbeat, RotateHubRouteKey, Tick, vars, AbsentHasNoKeys

(* No transaction moves a machine key out of the revoked state.            *)
LEMMA MachineKeyRevocationStep ==
    ASSUME TypeOK, AbsentHasNoKeys, [Next]_vars,
           NEW m \in NodeIds, NEW j \in MachineKeys, nodeKey[m][j].state = "revoked"
    PROVE  nodeKey'[m][j].state = "revoked"
<1>1. ASSUME NEW t \in Tokens, NEW r \in RequestIds, NEW k \in MachineKeys, NEW n \in NodeIds,
             Enroll(t, r, k, n) \/ Pair(t, r, k, n) \/ \E proof \in MachineKeys : Reenroll(t, r, k, n, proof)
      PROVE  nodeKey'[m][j].state = "revoked"
  <2>1. nodeKey[n][k].state = "absent"
    BY <1>1 DEF Enroll, Pair, Reenroll, AbsentHasNoKeys
  <2>2. InstallKey(n, k)
    BY <1>1 DEF Enroll, Pair, Reenroll
  <2>3. nodeKey'[m][j] = nodeKey[m][j]
    BY <2>1, <2>2 DEF InstallKey, TypeOK
  <2> QED
    BY <2>3
<1>2. ASSUME NEW n \in NodeIds, NEW k \in MachineKeys, NEW new \in MachineKeys, RotateCredential(n, k, new)
      PROVE  nodeKey'[m][j].state = "revoked"
  <2>1. nodeKey[n][k].state = "active" /\ nodeKey[n][new].state = "absent"
    BY <1>2 DEF RotateCredential, KeyUsable
  <2>2. nodeKey'[m][j] = nodeKey[m][j]
    BY <1>2, <2>1 DEF RotateCredential, TypeOK
  <2> QED
    BY <2>2
<1>3. ASSUME NEW n \in NodeIds, NEW d \in DeleteIds, DeleteNode(n, d)
      PROVE  nodeKey'[m][j].state = "revoked"
  BY <1>3 DEF DeleteNode, TypeOK
<1>4. CASE Maintenance
  BY <1>4 DEF Maintenance
<1>5. CASE UNCHANGED nodeKey
  BY <1>5
<1> QED
  BY <1>1, <1>2, <1>3, <1>4, <1>5
     DEF Next, MintEnrollmentToken, Heartbeat, RotateHubRouteKey, Tick, vars

(* Provisioning and acknowledging touch no revoked or rotating row.        *)
LEMMA EnsureKeepsRows ==
    ASSUME NEW rows \in [RouteKeys -> HubKeyRow], NEW next \in EnsureHubRouteKey(rows),
           NEW n \in NodeIds, \A h \in RouteKeys : hubKey[n][h].state = "absent" <=> rows[h].state = "absent",
           NEW g \in RouteKeys, rows[g].state # "absent"
    PROVE  next[g] = rows[g]
BY DEF EnsureHubRouteKey, FreshRouteKeys

LEMMA AcknowledgeKeepsRows ==
    ASSUME TypeOK, NEW n \in NodeIds, NEW accepted, NEW g \in RouteKeys,
           hubKey[n][g].state \notin {"provisioned", "active"}
    PROVE  AcknowledgeHubRouteKeys(hubKey[n], accepted)[g] = hubKey[n][g]
BY DEF AcknowledgeHubRouteKeys, WithState

(* An acknowledgment creates and removes no row.                           *)
LEMMA AcknowledgeSameRows ==
    ASSUME TypeOK, NEW n \in NodeIds, NEW accepted, NEW g \in RouteKeys
    PROVE  AcknowledgeHubRouteKeys(hubKey[n], accepted)[g].state = "absent" <=> hubKey[n][g].state = "absent"
<1> DEFINE next == AcknowledgeHubRouteKeys(hubKey[n], accepted)[g]
<1>1. CASE hubKey[n][g].state \notin {"provisioned", "active"}
  BY <1>1, AcknowledgeKeepsRows
<1>2. CASE hubKey[n][g].state \in {"provisioned", "active"}
  <2>1. \/ next = [hubKey[n][g] EXCEPT !.state = "active"]
        \/ next = [state |-> "rotating", revokeAfter |-> now + HubRouteOverlap]
        \/ next = hubKey[n][g]
    BY DEF AcknowledgeHubRouteKeys
  <2>2. [hubKey[n][g] EXCEPT !.state = "active"].state = "active"
    BY DEF TypeOK, HubKeyRow
  <2>3. next.state # "absent"
    <3> HIDE DEF next
    <3>1. CASE next = [hubKey[n][g] EXCEPT !.state = "active"]
      BY <2>2, <3>1, Zenon
    <3>2. CASE next = [state |-> "rotating", revokeAfter |-> now + HubRouteOverlap]
      BY <3>2
    <3>3. CASE next = hubKey[n][g]
      BY <1>2, <3>3
    <3> QED
      BY <2>1, <3>1, <3>2, <3>3
  <2> QED
    BY <1>2, <2>3
<1> QED
  BY <1>1, <1>2

(* No transaction takes a route key out of the revoked state, or a         *)
(* rotating one back into use.                                             *)
LEMMA RouteKeyRevocationStep ==
    ASSUME TypeOK, [Next]_vars,
           NEW m \in NodeIds, NEW g \in RouteKeys, hubKey[m][g].state \in {"revoked", "rotating"}
    PROVE  /\ hubKey[m][g].state = "revoked" => hubKey'[m][g].state = "revoked"
           /\ hubKey'[m][g].state \in {"rotating", "revoked"}
<1>1. CASE hubKey'[m][g] = hubKey[m][g]
  BY <1>1
<1>2. ASSUME NEW t \in Tokens, NEW r \in RequestIds, NEW k \in MachineKeys, NEW n \in NodeIds,
             Pair(t, r, k, n) \/ \E proof \in MachineKeys : Reenroll(t, r, k, n, proof)
      PROVE  hubKey'[m][g] = hubKey[m][g]
  <2>1. PICK rows \in EnsureHubRouteKey(hubKey[n]) : hubKey' = [hubKey EXCEPT ![n] = rows]
    BY <1>2 DEF Pair, Reenroll
  <2>2. m = n => rows[g] = hubKey[n][g]
    BY EnsureKeepsRows DEF TypeOK
  <2> QED
    BY <2>1, <2>2 DEF TypeOK
<1>3. ASSUME NEW n \in NodeIds, NEW k \in MachineKeys, NEW accepted \in SUBSET RouteKeys,
             Heartbeat(n, k, accepted)
      PROVE  hubKey'[m][g] = hubKey[m][g]
  <2> DEFINE acknowledged == AcknowledgeHubRouteKeys(hubKey[n], accepted)
  <2>1. PICK rows \in EnsureHubRouteKey(acknowledged) : hubKey' = [hubKey EXCEPT ![n] = rows]
    BY <1>3 DEF Heartbeat
  <2>2. acknowledged \in [RouteKeys -> HubKeyRow]
    BY AcknowledgeType
  <2>3. \A h \in RouteKeys : hubKey[n][h].state = "absent" <=> acknowledged[h].state = "absent"
    BY AcknowledgeSameRows
  <2>4. ASSUME m = n PROVE rows[g] = hubKey[n][g]
    <3>1. acknowledged[g] = hubKey[n][g]
      BY <2>4, AcknowledgeKeepsRows
    <3>2. acknowledged[g].state # "absent"
      BY <2>4, <3>1
    <3>3. rows[g] = acknowledged[g]
      BY <2>1, <2>2, <2>3, <3>2, EnsureKeepsRows
    <3> QED
      BY <3>1, <3>3
  <2> QED
    BY <2>1, <2>4 DEF TypeOK
<1>4. ASSUME NEW n \in NodeIds, NEW d \in DeleteIds, DeleteNode(n, d)
      PROVE  hubKey'[m][g].state \in {hubKey[m][g].state, "revoked"}
  BY <1>4 DEF DeleteNode, TypeOK, HubKeyRow
<1>5. ASSUME NEW n \in NodeIds, NEW new \in RouteKeys, RotateHubRouteKey(n, new)
      PROVE  hubKey'[m][g] = hubKey[m][g]
  BY <1>5 DEF RotateHubRouteKey, FreshRouteKeys, TypeOK
<1>6. CASE Maintenance
  BY <1>6 DEF Maintenance, TypeOK, HubKeyRow
<1>7. CASE UNCHANGED hubKey
  BY <1>7
<1> QED
  BY <1>1, <1>2, <1>3, <1>4, <1>5, <1>6, <1>7
     DEF Next, MintEnrollmentToken, Enroll, RotateCredential, Tick, vars

(* A revoked key, of either kind, never comes back, and the overlap of a   *)
(* route key only ends: not by rotation, deletion, re-enrollment or the    *)
(* pairing of a node anew.                                                 *)
THEOREM RevocationIsTerminalCorrect == Spec => RevocationIsTerminal
<1> DEFINE Terminal ==
      \A n \in NodeIds :
          /\ \A k \in MachineKeys : nodeKey[n][k].state = "revoked" => nodeKey'[n][k].state = "revoked"
          /\ \A h \in RouteKeys :
                /\ hubKey[n][h].state = "revoked" => hubKey'[n][h].state = "revoked"
                /\ hubKey[n][h].state = "rotating" => hubKey'[n][h].state \in {"rotating", "revoked"}
<1>1. Init => AbsentHasNoKeys
  BY DEF Init, AbsentHasNoKeys, NoNodeKey
<1>2. TypeOK /\ AbsentHasNoKeys /\ [Next]_vars => [Terminal]_vars
  BY MachineKeyRevocationStep, RouteKeyRevocationStep
<1> QED
  BY <1>1, <1>2, AbsentStep, TypeCorrect, PTL DEF Spec, RevocationIsTerminal

-----------------------------------------------------------------------------
(* Route traffic keeps its signing key *)

(* Whatever form the keys are in, one that signs is an active one: the     *)
(* fall-back to a rotating key is never needed.                            *)
LEMMA SigningIsActive ==
    ASSUME NEW rows, WellFormedHubKeys(rows)
    PROVE  SigningKeys(rows) = WithState(rows, "active")
BY DEF SigningKeys, WellFormedHubKeys

LEMMA AcknowledgeKeepsSigning ==
    ASSUME TypeOK, NEW n \in NodeIds, NEW accepted,
           WithState(hubKey[n], "active") # {}
    PROVE  WithState(AcknowledgeHubRouteKeys(hubKey[n], accepted), "active") # {}
<1> DEFINE rows  == hubKey[n]
           next  == AcknowledgeHubRouteKeys(rows, accepted)
           acked == WithState(rows, "provisioned") \cap accepted
<1>1. PICK a \in RouteKeys : rows[a].state = "active"
  BY DEF WithState
<1>2. CASE acked = {}
  <2>1. next[a] = rows[a]
    BY <1>2 DEF AcknowledgeHubRouteKeys
  <2> QED
    BY <1>1, <2>1 DEF WithState
<1>3. ASSUME NEW p \in acked PROVE WithState(next, "active") # {}
  <2>1. next[p] = [rows[p] EXCEPT !.state = "active"]
    BY <1>3 DEF AcknowledgeHubRouteKeys, WithState
  <2>2. next[p].state = "active" /\ p \in RouteKeys
    BY <2>1 DEF WithState, TypeOK, HubKeyRow
  <2> QED
    BY <2>2 DEF WithState
<1> QED
  BY <1>2, <1>3

(* A step that leaves a node registered leaves its signing key.            *)
LEMMA SigningKeyStep ==
    ASSUME TypeOK, HubKeySetWellFormed, HubKeySetWellFormed', [Next]_vars,
           NEW m \in NodeIds, SigningKeys(hubKey[m]) # {}, node'[m] = "active"
    PROVE  SigningKeys(hubKey'[m]) # {}
<1>1. WithState(hubKey[m], "active") # {}
  BY SigningIsActive DEF HubKeySetWellFormed
<1> SUFFICES WithState(hubKey'[m], "active") # {}
  BY SigningIsActive DEF HubKeySetWellFormed
<1>2. ASSUME NEW n \in NodeIds, NEW base, base \in [RouteKeys -> HubKeyRow],
             m = n => WithState(base, "active") # {},
             NEW rows \in EnsureHubRouteKey(base), hubKey' = [hubKey EXCEPT ![n] = rows]
      PROVE  WithState(hubKey'[m], "active") # {}
  <2>1. m = n => rows = base
    BY <1>2 DEF EnsureHubRouteKey, LiveHubKeys, WithState
  <2> QED
    BY <1>1, <1>2, <2>1 DEF TypeOK
<1>3. ASSUME NEW t \in Tokens, NEW r \in RequestIds, NEW k \in MachineKeys, NEW n \in NodeIds,
             Pair(t, r, k, n) \/ \E proof \in MachineKeys : Reenroll(t, r, k, n, proof)
      PROVE  WithState(hubKey'[m], "active") # {}
  <2>1. PICK rows \in EnsureHubRouteKey(hubKey[n]) : hubKey' = [hubKey EXCEPT ![n] = rows]
    BY <1>3 DEF Pair, Reenroll
  <2> QED
    BY <1>1, <1>2, <2>1 DEF TypeOK
<1>4. ASSUME NEW n \in NodeIds, NEW k \in MachineKeys, NEW accepted \in SUBSET RouteKeys,
             Heartbeat(n, k, accepted)
      PROVE  WithState(hubKey'[m], "active") # {}
  <2> DEFINE acknowledged == AcknowledgeHubRouteKeys(hubKey[n], accepted)
  <2>1. PICK rows \in EnsureHubRouteKey(acknowledged) : hubKey' = [hubKey EXCEPT ![n] = rows]
    BY <1>4 DEF Heartbeat
  <2>2. m = n => WithState(acknowledged, "active") # {}
    BY <1>1, AcknowledgeKeepsSigning
  <2>3. acknowledged \in [RouteKeys -> HubKeyRow]
    BY AcknowledgeType
  <2> QED
    BY <1>2, <2>1, <2>2, <2>3
<1>5. PICK a \in RouteKeys : hubKey[m][a].state = "active"
  BY <1>1 DEF WithState
<1>6. ASSUME hubKey'[m][a] = hubKey[m][a]
      PROVE  WithState(hubKey'[m], "active") # {}
  BY <1>5, <1>6 DEF WithState
<1>7. ASSUME NEW n \in NodeIds, NEW d \in DeleteIds, DeleteNode(n, d)
      PROVE  hubKey'[m][a] = hubKey[m][a]
  BY <1>7 DEF DeleteNode, TypeOK
<1>8. ASSUME NEW n \in NodeIds, NEW new \in RouteKeys, RotateHubRouteKey(n, new)
      PROVE  hubKey'[m][a] = hubKey[m][a]
  BY <1>5, <1>8 DEF RotateHubRouteKey, FreshRouteKeys, TypeOK
<1>9. CASE Maintenance
  BY <1>5, <1>6, <1>9 DEF Maintenance
<1>10. CASE UNCHANGED hubKey
  BY <1>6, <1>10
<1> QED
  BY <1>3, <1>4, <1>6, <1>7, <1>8, <1>9, <1>10
     DEF Next, MintEnrollmentToken, Enroll, RotateCredential, Tick, vars

(* As long as a node stays registered, the Hub does not lose the key it    *)
(* signs the node's route traffic with; well-formedness is what excludes   *)
(* a rotating key without a successor.                                     *)
THEOREM SigningKeyContinuityCorrect == Spec => SigningKeyContinuity
<1> DEFINE Continuity ==
      \A n \in NodeIds :
          (SigningKeys(hubKey[n]) # {} /\ node'[n] = "active") => SigningKeys(hubKey'[n]) # {}
<1>1. TypeOK /\ HubKeySetWellFormed /\ HubKeySetWellFormed' /\ [Next]_vars => [Continuity]_vars
  BY SigningKeyStep
<1> QED
  BY <1>1, TypeCorrect, HubKeySetCorrect, PTL DEF Spec, SigningKeyContinuity

-----------------------------------------------------------------------------
(* A tombstone can be recovered *)

(* k is the newest machine key of node n, whatever became of it.           *)
Newest(n, k) ==
    /\ k \in KeyRows(n)
    /\ \A j \in KeyRows(n) : nodeKey[n][j].created <= nodeKey[n][k].created

(* created_at orders the rows: every row is older than the next one will   *)
(* be, and a node that was ever registered has a newest row.               *)
RowsOrdered ==
    \A n \in NodeIds :
        /\ \A k \in KeyRows(n) : nodeKey[n][k].created < Cardinality(KeyRows(n))
        /\ node[n] # "absent" => \E k \in MachineKeys : Newest(n, k)

(* A row that is added to those of a node is the newest one.               *)
LEMMA AddedRowIsNewest ==
    ASSUME TypeOK, TypeOK', RowsOrdered,
           NEW n \in NodeIds, NEW new \in MachineKeys, new \notin KeyRows(n),
           nodeKey'[n][new].state = "active",
           nodeKey'[n][new].created = Cardinality(KeyRows(n)),
           \A j \in MachineKeys \ {new} :
              /\ nodeKey'[n][j].state = nodeKey[n][j].state
              /\ nodeKey'[n][j].created = nodeKey[n][j].created
    PROVE  /\ \A k \in KeyRows(n)' : nodeKey'[n][k].created < Cardinality(KeyRows(n))'
           /\ Newest(n, new)'
<1> DEFINE old == KeyRows(n)
           count == Cardinality(old)
<1>1. KeyRows(n)' = old \cup {new}
  BY DEF KeyRows
<1>2. IsFiniteSet(old)
  BY SetAssumption, FS_Subset DEF KeyRows
<1>3. count \in Nat /\ Cardinality(old \cup {new}) = count + 1
  BY <1>2, FS_CardinalityType, FS_AddElement
<1>4. \A k \in old : nodeKey'[n][k].created \in Nat /\ nodeKey'[n][k].created < count
  <2>1. \A k \in old : k \in MachineKeys \ {new} /\ nodeKey[n][k].created < count
    BY DEF RowsOrdered, KeyRows
  <2>2. \A k \in MachineKeys : nodeKey[n][k].created \in Nat
    BY DEF TypeOK, NodeKeyRow
  <2> QED
    BY <2>1, <2>2
<1> HIDE DEF old, count
<1>5. \A k \in KeyRows(n)' : nodeKey'[n][k].created < Cardinality(KeyRows(n))'
  <2>1. Cardinality(KeyRows(n))' = count + 1
    BY <1>1, <1>3
  <2>2. \A k \in old \cup {new} : nodeKey'[n][k].created < count + 1
    <3>1. nodeKey'[n][new].created = count
      BY DEF count, old
    <3> QED
      BY <1>3, <1>4, <3>1
  <2> QED
    BY <1>1, <2>1, <2>2
<1>6. \A j \in KeyRows(n)' : nodeKey'[n][j].created <= nodeKey'[n][new].created
  BY <1>1, <1>3, <1>4 DEF count, old
<1>7. new \in KeyRows(n)'
  BY <1>1
<1> QED
  BY <1>5, <1>6, <1>7 DEF Newest

(* Transactions that write no new row keep the order of the rows.          *)
LEMMA SameRowsStayOrdered ==
    ASSUME RowsOrdered, NEW n \in NodeIds,
           node[n] = "absent" => node'[n] = "absent",
           \A j \in MachineKeys :
              /\ nodeKey'[n][j].state = "absent" <=> nodeKey[n][j].state = "absent"
              /\ nodeKey'[n][j].created = nodeKey[n][j].created
    PROVE  /\ \A k \in KeyRows(n)' : nodeKey'[n][k].created < Cardinality(KeyRows(n))'
           /\ node'[n] # "absent" => \E k \in MachineKeys : Newest(n, k)'
<1>1. KeyRows(n)' = KeyRows(n)
  BY DEF KeyRows
<1>2. \A k \in KeyRows(n) : k \in MachineKeys
  BY DEF KeyRows
<1>3. \A k \in KeyRows(n)' : nodeKey'[n][k].created < Cardinality(KeyRows(n))'
  BY <1>1, <1>2 DEF RowsOrdered
<1>4. ASSUME NEW k \in MachineKeys, Newest(n, k) PROVE Newest(n, k)'
  BY <1>1, <1>2, <1>4 DEF Newest
<1> QED
  BY <1>3, <1>4 DEF RowsOrdered

LEMMA RowsOrderedStep ==
    TypeOK /\ TypeOK' /\ AbsentHasNoKeys /\ RowsOrdered /\ [Next]_vars => RowsOrdered'
<1> DEFINE Ordered(m) == /\ \A k \in KeyRows(m) : nodeKey[m][k].created < Cardinality(KeyRows(m))
                         /\ node[m] # "absent" => \E k \in MachineKeys : Newest(m, k)
<1> SUFFICES ASSUME TypeOK, TypeOK', AbsentHasNoKeys, RowsOrdered, [Next]_vars, NEW m \in NodeIds
             PROVE  Ordered(m)'
  BY DEF RowsOrdered
<1>1. ASSUME node'[m] = node[m], nodeKey'[m] = nodeKey[m] PROVE Ordered(m)'
  BY <1>1, SameRowsStayOrdered
<1>2. ASSUME NEW t \in Tokens, NEW r \in RequestIds, NEW k \in MachineKeys, NEW n \in NodeIds,
             Enroll(t, r, k, n) \/ Pair(t, r, k, n) \/ \E proof \in MachineKeys : Reenroll(t, r, k, n, proof)
      PROVE  Ordered(m)'
  <2>1. node' = [node EXCEPT ![n] = "active"] /\ InstallKey(n, k)
    BY <1>2 DEF Enroll, Pair, Reenroll
  <2>2. nodeKey[n][k].state = "absent"
    BY <1>2 DEF Enroll, Pair, Reenroll, AbsentHasNoKeys
  <2>3. CASE m # n
    BY <1>1, <2>1, <2>3 DEF InstallKey, TypeOK
  <2>4. CASE m = n
    <3>1. nodeKey'[n][k] = NewNodeKey(n) /\ \A j \in MachineKeys \ {k} : nodeKey'[n][j] = nodeKey[n][j]
      BY <2>1 DEF InstallKey, TypeOK
    <3>2. Newest(n, k)' /\ \A j \in KeyRows(n)' : nodeKey'[n][j].created < Cardinality(KeyRows(n))'
      BY <2>2, <3>1, AddedRowIsNewest DEF NewNodeKey, KeyRows
    <3> QED
      BY <2>4, <3>2
  <2> QED
    BY <2>3, <2>4
<1>3. ASSUME NEW n \in NodeIds, NEW k \in MachineKeys, NEW new \in MachineKeys, RotateCredential(n, k, new)
      PROVE  Ordered(m)'
  <2>1. CASE m # n
    BY <1>1, <1>3, <2>1 DEF RotateCredential, TypeOK
  <2>2. CASE m = n
    <3>1. /\ nodeKey'[n][new] = NewNodeKey(n)
          /\ nodeKey'[n][k] = [nodeKey[n][k] EXCEPT !.revokeAfter = now + RotationOverlap]
          /\ \A j \in MachineKeys \ {k, new} : nodeKey'[n][j] = nodeKey[n][j]
      BY <1>3 DEF RotateCredential, TypeOK
    <3>2. \A j \in MachineKeys \ {new} :
             /\ nodeKey'[n][j].state = nodeKey[n][j].state
             /\ nodeKey'[n][j].created = nodeKey[n][j].created
      <4>1. nodeKey[n][k] \in NodeKeyRow
        BY DEF TypeOK
      <4>2. nodeKey'[n][k].state = nodeKey[n][k].state /\ nodeKey'[n][k].created = nodeKey[n][k].created
        BY <3>1, <4>1 DEF NodeKeyRow
      <4> QED
        BY <3>1, <4>2
    <3>3. new \notin KeyRows(n)
      BY <1>3 DEF RotateCredential, KeyRows
    <3>4. nodeKey'[n][new].state = "active" /\ nodeKey'[n][new].created = Cardinality(KeyRows(n))
      BY <3>1 DEF NewNodeKey
    <3>5. Newest(n, new)' /\ \A j \in KeyRows(n)' : nodeKey'[n][j].created < Cardinality(KeyRows(n))'
      BY <3>2, <3>3, <3>4, AddedRowIsNewest
    <3> QED
      BY <2>2, <3>5
  <2> QED
    BY <2>1, <2>2
<1>4. ASSUME NEW n \in NodeIds, NEW d \in DeleteIds, DeleteNode(n, d)
      PROVE  Ordered(m)'
  <2>1. node[m] = "absent" => node'[m] = "absent"
    BY <1>4 DEF DeleteNode, TypeOK
  <2>2. \A j \in MachineKeys :
          /\ nodeKey'[m][j].state = "absent" <=> nodeKey[m][j].state = "absent"
          /\ nodeKey'[m][j].created = nodeKey[m][j].created
    BY <1>4 DEF DeleteNode, TypeOK, NodeKeyRow
  <2> QED
    BY <2>1, <2>2, SameRowsStayOrdered
<1>5. CASE Maintenance
  <2>1. node'[m] = node[m]
    BY <1>5 DEF Maintenance
  <2>2. \A j \in MachineKeys :
          /\ nodeKey'[m][j].state = "absent" <=> nodeKey[m][j].state = "absent"
          /\ nodeKey'[m][j].created = nodeKey[m][j].created
    BY <1>5 DEF Maintenance, TypeOK, NodeKeyRow
  <2> QED
    BY <2>1, <2>2, SameRowsStayOrdered
<1>6. CASE UNCHANGED <<node, nodeKey>>
  BY <1>1, <1>6
<1> QED
  BY <1>2, <1>3, <1>4, <1>5, <1>6
     DEF Next, MintEnrollmentToken, Heartbeat, RotateHubRouteKey, Tick, vars

(* A deleted node can always be re-enrolled with the key it was given      *)
(* last: the row is there, it is revoked, and no revoked row is newer.     *)
THEOREM TombstoneRecoverableCorrect == Spec => []TombstoneRecoverable
<1>1. Init => AbsentHasNoKeys
  BY DEF Init, AbsentHasNoKeys, NoNodeKey
<1>2. Init => RowsOrdered
  <2> SUFFICES ASSUME Init, NEW n \in NodeIds
               PROVE  node[n] = "absent" /\ KeyRows(n) = {}
    BY DEF RowsOrdered
  <2> QED
    BY DEF Init, KeyRows, NoNodeKey
<1>3. TypeOK /\ RowsOrdered /\ TombstoneHoldsNoLiveKey => TombstoneRecoverable
  <2> SUFFICES ASSUME TypeOK, RowsOrdered, TombstoneHoldsNoLiveKey, NEW n \in NodeIds, node[n] = "tombstoned"
               PROVE  \E k \in MachineKeys :
                         /\ IsHistoricalKey(n, k)
                         /\ \A j \in KeyRows(n) : nodeKey[n][j].created <= nodeKey[n][k].created
    BY DEF TombstoneRecoverable
  <2>1. PICK k \in MachineKeys : Newest(n, k)
    BY DEF RowsOrdered
  <2>2. \A j \in MachineKeys : nodeKey[n][j].state = "revoked" <=> j \in KeyRows(n)
    BY DEF TombstoneHoldsNoLiveKey, KeyRows, TypeOK, NodeKeyRow
  <2> QED
    BY <2>1, <2>2 DEF Newest, IsHistoricalKey
<1> QED
  BY <1>1, <1>2, <1>3, AbsentStep, RowsOrderedStep, TypeCorrect, TombstoneHoldsNoLiveKeyCorrect, PTL DEF Spec

-----------------------------------------------------------------------------
(* A token yields one identity *)

(* What the rows of consumed tokens rest on: only a minted token is        *)
(* consumed, and the node it was consumed for has been registered.         *)
ConsumedSound ==
    \A t \in Tokens : token[t].consumedBy # NoNode =>
        token[t].purpose # "none" /\ node[token[t].consumedBy] # "absent"

IdentityInv == ConsumedSound /\ TokenYieldsOneIdentity

(* Consuming an open token for a node keeps the invariant: a node new to   *)
(* the registry has no other token, one re-enrolled keeps its first.       *)
LEMMA ConsumeKeepsIdentity ==
    ASSUME TypeOK, IdentityInv,
           NEW t \in Tokens, NEW r \in RequestIds, NEW k \in MachineKeys, NEW n \in NodeIds, NEW purpose \in Purposes,
           TokenAccepts(t, purpose), ConsumeToken(t, r, k, n),
           node' = [node EXCEPT ![n] = "active"],
           IF purpose = "reenroll" THEN node[n] = "tombstoned" ELSE node[n] = "absent"
    PROVE  IdentityInv'
<1> DEFINE row == [token |-> t, request |-> r, key |-> k, node |-> n, kind |-> token[t].purpose, at |-> now]
<1>1. /\ token'[t].consumedBy = n
      /\ \A s \in Tokens : token'[s].purpose = token[s].purpose
      /\ \A s \in Tokens \ {t} : token'[s] = token[s]
  BY DEF ConsumeToken, TypeOK, TokenRow
<1>2. results' = results \cup {row}
  BY DEF ConsumeToken
<1>3. token[t].purpose = purpose /\ token[t].consumedBy = NoNode
  BY DEF TokenAccepts
<1>4. \A x \in results : x.token # t /\ x.token \in Tokens /\ x.node \in NodeIds
  BY <1>3, SetAssumption DEF IdentityInv, TokenYieldsOneIdentity, TypeOK, ResultRow
<1>5. row.token = t /\ row.node = n /\ row.kind = purpose
  BY <1>3
<1>6. \A m \in NodeIds : node[m] # "absent" => node'[m] # "absent"
  BY DEF TypeOK
<1>7. node'[n] = "active" /\ n # NoNode
  BY SetAssumption DEF TypeOK
<1>8. \A s \in Tokens : token[s].consumedBy \in NodeIds \cup {NoNode}
  BY DEF TypeOK, TokenRow
<1>9. purpose # "none"
  BY DEF Purposes
<1> HIDE DEF row
<1>10. ConsumedSound'
  BY <1>1, <1>3, <1>6, <1>7, <1>8, <1>9 DEF IdentityInv, ConsumedSound
<1>11. \A x \in results' : token'[x.token].consumedBy = x.node /\ token'[x.token].purpose = x.kind
  BY <1>1, <1>2, <1>3, <1>4, <1>5 DEF IdentityInv, TokenYieldsOneIdentity
<1>12. \A x, y \in results' : x.token = y.token => x = y
  BY <1>2, <1>4, <1>5 DEF IdentityInv, TokenYieldsOneIdentity
<1>13. ASSUME NEW s \in Tokens, NEW u \in Tokens,
              token'[s].consumedBy # NoNode, token'[s].consumedBy = token'[u].consumedBy,
              token'[s].purpose \in {"enroll", "pair"}, token'[u].purpose \in {"enroll", "pair"}
       PROVE  s = u
  <2>1. CASE purpose = "reenroll"
    <3>1. s # t /\ u # t
      BY <1>1, <1>3, <1>13, <2>1
    <3> QED
      BY <1>1, <1>13, <3>1 DEF IdentityInv, TokenYieldsOneIdentity
  <2>2. CASE purpose # "reenroll"
    <3>1. \A v \in Tokens \ {t} : token'[v].consumedBy # n
      BY <1>1, <1>7, <2>2 DEF IdentityInv, ConsumedSound
    <3>2. CASE s = t \/ u = t
      BY <1>1, <1>13, <3>1, <3>2
    <3>3. CASE s # t /\ u # t
      BY <1>1, <1>13, <3>3 DEF IdentityInv, TokenYieldsOneIdentity
    <3> QED
      BY <3>2, <3>3
  <2> QED
    BY <2>1, <2>2
<1>14. ASSUME NEW m \in NodeIds, node'[m] # "absent"
       PROVE  \E s \in Tokens : token'[s].purpose \in {"enroll", "pair"} /\ token'[s].consumedBy = m
  <2>1. CASE node[m] # "absent"
    <3>1. PICK s \in Tokens : token[s].purpose \in {"enroll", "pair"} /\ token[s].consumedBy = m
      BY <2>1 DEF IdentityInv, TokenYieldsOneIdentity
    <3>2. s # t
      BY <1>3, <3>1, SetAssumption
    <3> QED
      BY <1>1, <3>1, <3>2
  <2>2. CASE node[m] = "absent"
    <3>1. m = n /\ purpose # "reenroll"
      BY <1>14, <2>2 DEF TypeOK
    <3> QED
      BY <1>1, <1>3, <3>1 DEF Purposes
  <2> QED
    BY <2>1, <2>2
<1> QED
  BY <1>10, <1>11, <1>12, <1>13, <1>14 DEF IdentityInv, TokenYieldsOneIdentity

LEMMA IdentityStep == TypeOK /\ IdentityInv /\ [Next]_vars => IdentityInv'
<1> SUFFICES ASSUME TypeOK, IdentityInv, [Next]_vars PROVE IdentityInv'
  OBVIOUS
<1>1. ASSUME NEW t \in Tokens, NEW p \in Purposes, NEW n \in NodeIds \cup {NoNode},
             MintEnrollmentToken(t, p, n)
      PROVE  IdentityInv'
  <2>1. token[t].purpose = "none" /\ token[t].consumedBy = NoNode
    BY <1>1 DEF MintEnrollmentToken, IdentityInv, ConsumedSound
  <2>2. /\ token'[t].consumedBy = NoNode
        /\ \A s \in Tokens \ {t} : token'[s] = token[s]
        /\ UNCHANGED <<node, results>>
    BY <1>1 DEF MintEnrollmentToken, TypeOK
  <2>3. \A x \in results : x.token # t /\ x.token \in Tokens
    BY <2>1, SetAssumption DEF IdentityInv, TokenYieldsOneIdentity, TypeOK, ResultRow
  <2>4. ConsumedSound'
    BY <2>2 DEF IdentityInv, ConsumedSound
  <2>5. TokenYieldsOneIdentity'
    BY <2>1, <2>2, <2>3, SetAssumption DEF IdentityInv, TokenYieldsOneIdentity
  <2> QED
    BY <2>4, <2>5 DEF IdentityInv
<1>2. ASSUME NEW t \in Tokens, NEW r \in RequestIds, NEW k \in MachineKeys, NEW n \in NodeIds,
             Enroll(t, r, k, n) \/ Pair(t, r, k, n)
      PROVE  IdentityInv'
  <2>1. PICK p \in {"enroll", "pair"} : TokenAccepts(t, p)
    BY <1>2 DEF Enroll, Pair
  <2>2. p \in Purposes /\ p # "reenroll"
    BY DEF Purposes
  <2>3. node[n] = "absent" /\ node' = [node EXCEPT ![n] = "active"] /\ ConsumeToken(t, r, k, n)
    BY <1>2 DEF Enroll, Pair
  <2> QED
    BY <2>1, <2>2, <2>3, ConsumeKeepsIdentity
<1>3. ASSUME NEW t \in Tokens, NEW r \in RequestIds, NEW k \in MachineKeys, NEW proof \in MachineKeys,
             NEW n \in NodeIds, Reenroll(t, r, k, n, proof)
      PROVE  IdentityInv'
  <2>1. "reenroll" \in Purposes
    BY DEF Purposes
  <2>2. /\ TokenAccepts(t, "reenroll") /\ node[n] = "tombstoned"
        /\ node' = [node EXCEPT ![n] = "active"] /\ ConsumeToken(t, r, k, n)
    BY <1>3 DEF Reenroll
  <2> QED
    BY <2>1, <2>2, ConsumeKeepsIdentity
<1>4. ASSUME NEW n \in NodeIds, NEW d \in DeleteIds, DeleteNode(n, d)
      PROVE  IdentityInv'
  <2>1. token' = token /\ results' = results
    BY <1>4 DEF DeleteNode
  <2>2. \A m \in NodeIds : node'[m] = "absent" <=> node[m] = "absent"
    BY <1>4 DEF DeleteNode, TypeOK
  <2>3. \A t \in Tokens : token[t].consumedBy \in NodeIds \cup {NoNode}
    BY DEF TypeOK, TokenRow
  <2> QED
    BY <2>1, <2>2, <2>3 DEF IdentityInv, ConsumedSound, TokenYieldsOneIdentity
<1>5. CASE Maintenance
  BY <1>5 DEF Maintenance, IdentityInv, ConsumedSound, TokenYieldsOneIdentity
<1>6. CASE UNCHANGED <<token, node, results>>
  BY <1>6 DEF IdentityInv, ConsumedSound, TokenYieldsOneIdentity
<1> QED
  BY <1>1, <1>2, <1>3, <1>4, <1>5, <1>6
     DEF Next, Heartbeat, RotateCredential, RotateHubRouteKey, Tick, vars

(* No token gives two identities and no identity comes from two tokens,    *)
(* whatever is replayed, purged, deleted and re-enrolled.                  *)
THEOREM TokenYieldsOneIdentityCorrect == Spec => []TokenYieldsOneIdentity
<1>1. Init => IdentityInv
  BY DEF Init, NoToken, IdentityInv, ConsumedSound, TokenYieldsOneIdentity
<1>2. IdentityInv => TokenYieldsOneIdentity
  BY DEF IdentityInv
<1> QED
  BY <1>1, <1>2, IdentityStep, TypeCorrect, PTL DEF Spec


-----------------------------------------------------------------------------
(* What a transaction of the registry does to the keys of one node *)

(* Machine keys: rows stay, keep their age, and lose validity only.        *)
MachineKeysMove(n) ==
    \A k \in MachineKeys : nodeKey[n][k].state # "absent" =>
        /\ nodeKey'[n][k].state # "absent"
        /\ nodeKey'[n][k].created = nodeKey[n][k].created
        /\ nodeKey'[n][k].state = "active" =>
              /\ nodeKey[n][k].state = "active"
              /\ nodeKey[n][k].revokeAfter # Never => nodeKey'[n][k].revokeAfter # Never

NoNewRow(n) == \A k \in MachineKeys : nodeKey'[n][k].state # "absent" => nodeKey[n][k].state # "absent"

(* The rows of n get one more, and it is the youngest.                     *)
NewRow(n, new) ==
    /\ new \in MachineKeys
    /\ nodeKey[n][new].state = "absent"
    /\ nodeKey'[n][new].state = "active"
    /\ nodeKey'[n][new].created = Cardinality(KeyRows(n))
    /\ \A k \in MachineKeys \ {new} : nodeKey'[n][k].state # "absent" => nodeKey[n][k].state # "absent"

(* Hub route keys: only a provisioned key the node names as accepted       *)
(* becomes active, and only a deletion revokes one that has no deadline.   *)
RouteKeysMove(n, accepted) ==
    \A h \in RouteKeys :
        /\ hubKey[n][h].state # "absent" => hubKey'[n][h].state # "absent"
        /\ hubKey'[n][h].state = "provisioned" => hubKey[n][h].state \in {"absent", "provisioned"}
        /\ hubKey'[n][h].state = "active" =>
              hubKey[n][h].state = "active" \/ (hubKey[n][h].state = "provisioned" /\ h \in accepted)
        /\ (hubKey'[n][h].state = "revoked" /\ hubKey'[n][h].revokeAfter = Never) =>
              \/ hubKey[n][h].state = "revoked" /\ hubKey[n][h].revokeAfter = Never
              \/ node'[n] # "active"

(* Revoking a row changes nothing else of it.                              *)
LEMMA RevokedRow ==
    /\ \A row \in NodeKeyRow : /\ [row EXCEPT !.state = "revoked"].state = "revoked"
                               /\ [row EXCEPT !.state = "revoked"].created = row.created
    /\ \A row \in HubKeyRow : /\ [row EXCEPT !.state = "revoked"].state = "revoked"
                              /\ [row EXCEPT !.state = "revoked"].revokeAfter = row.revokeAfter
BY DEF NodeKeyRow, HubKeyRow

LEMMA MachineKeysMoveStep ==
    ASSUME TypeOK, AbsentHasNoKeys, [Next]_vars, NEW m \in NodeIds
    PROVE  MachineKeysMove(m)
<1>1. ASSUME NEW t \in Tokens, NEW r \in RequestIds, NEW k \in MachineKeys, NEW n \in NodeIds,
             Enroll(t, r, k, n) \/ Pair(t, r, k, n) \/ \E proof \in MachineKeys : Reenroll(t, r, k, n, proof)
      PROVE  MachineKeysMove(m)
  <2>1. nodeKey[n][k].state = "absent"
    BY <1>1 DEF Enroll, Pair, Reenroll, AbsentHasNoKeys
  <2>2. InstallKey(n, k)
    BY <1>1 DEF Enroll, Pair, Reenroll
  <2>3. \A j \in MachineKeys : nodeKey[m][j].state # "absent" => nodeKey'[m][j] = nodeKey[m][j]
    BY <2>1, <2>2 DEF InstallKey, TypeOK
  <2> QED
    BY <2>3 DEF MachineKeysMove
<1>2. ASSUME NEW n \in NodeIds, NEW k \in MachineKeys, NEW new \in MachineKeys, RotateCredential(n, k, new)
      PROVE  MachineKeysMove(m)
  <2>1. nodeKey[n][new].state = "absent" /\ nodeKey[n][k].state = "active" /\ nodeKey[n][k] \in NodeKeyRow
    BY <1>2 DEF RotateCredential, KeyUsable, TypeOK
  <2>2. \A j \in MachineKeys : nodeKey[m][j].state # "absent" /\ ~ (m = n /\ j = k) => nodeKey'[m][j] = nodeKey[m][j]
    BY <1>2, <2>1 DEF RotateCredential, TypeOK
  <2>3. nodeKey'[n][k] = [nodeKey[n][k] EXCEPT !.revokeAfter = now + RotationOverlap]
    BY <1>2, <2>1 DEF RotateCredential, TypeOK
  <2>4. now + RotationOverlap # Never
    BY TimeAssumption DEF TypeOK, Never
  <2>5. /\ nodeKey'[n][k].state = nodeKey[n][k].state
        /\ nodeKey'[n][k].created = nodeKey[n][k].created
        /\ nodeKey'[n][k].revokeAfter # Never
    BY <2>1, <2>3, <2>4 DEF NodeKeyRow
  <2> QED
    BY <2>1, <2>2, <2>5 DEF MachineKeysMove
<1>3. ASSUME NEW n \in NodeIds, NEW d \in DeleteIds, DeleteNode(n, d)
      PROVE  MachineKeysMove(m)
  <2>1. \A j \in MachineKeys : \/ nodeKey'[m][j] = nodeKey[m][j]
                               \/ nodeKey'[m][j] = [nodeKey[m][j] EXCEPT !.state = "revoked"]
    BY <1>3 DEF DeleteNode, TypeOK
  <2>2. \A j \in MachineKeys : nodeKey[m][j] \in NodeKeyRow
    BY DEF TypeOK
  <2>3. \A j \in MachineKeys :
           \/ nodeKey'[m][j] = nodeKey[m][j]
           \/ nodeKey'[m][j].state = "revoked" /\ nodeKey'[m][j].created = nodeKey[m][j].created
    BY <2>1, <2>2, RevokedRow
  <2> QED
    BY <2>3 DEF MachineKeysMove
<1>4. CASE Maintenance
  <2>1. \A j \in MachineKeys : \/ nodeKey'[m][j] = nodeKey[m][j]
                               \/ nodeKey'[m][j] = [nodeKey[m][j] EXCEPT !.state = "revoked"]
    BY <1>4 DEF Maintenance
  <2>2. \A j \in MachineKeys : nodeKey[m][j] \in NodeKeyRow
    BY DEF TypeOK
  <2>3. \A j \in MachineKeys :
           \/ nodeKey'[m][j] = nodeKey[m][j]
           \/ nodeKey'[m][j].state = "revoked" /\ nodeKey'[m][j].created = nodeKey[m][j].created
    BY <2>1, <2>2, RevokedRow
  <2> QED
    BY <2>3 DEF MachineKeysMove
<1>5. CASE UNCHANGED nodeKey
  BY <1>5 DEF MachineKeysMove
<1> QED
  BY <1>1, <1>2, <1>3, <1>4, <1>5
     DEF Next, MintEnrollmentToken, Heartbeat, RotateHubRouteKey, Tick, vars

(* A heartbeat moves the route keys of its node and no others.             *)
LEMMA HeartbeatMoves ==
    ASSUME TypeOK, NEW n \in NodeIds, NEW k \in MachineKeys, NEW accepted \in SUBSET RouteKeys,
           Heartbeat(n, k, accepted)
    PROVE  RouteKeysMove(n, accepted)
<1> DEFINE acknowledged == AcknowledgeHubRouteKeys(hubKey[n], accepted)
<1>1. PICK rows \in EnsureHubRouteKey(acknowledged) : hubKey' = [hubKey EXCEPT ![n] = rows]
  BY DEF Heartbeat
<1>2. hubKey'[n] = rows
  BY <1>1 DEF TypeOK
<1>3. acknowledged \in [RouteKeys -> HubKeyRow]
  BY AcknowledgeType
<1>4. \A h \in RouteKeys : acknowledged[h].state = "absent" <=> hubKey[n][h].state = "absent"
  BY AcknowledgeSameRows
<1>5. \A h \in RouteKeys :
         \/ rows[h] = acknowledged[h]
         \/ acknowledged[h].state = "absent" /\ rows[h] = [state |-> "provisioned", revokeAfter |-> Never]
  BY <1>1, <1>3, <1>4 DEF EnsureHubRouteKey, FreshRouteKeys
<1>6. ASSUME NEW h \in RouteKeys
      PROVE  \/ acknowledged[h] = hubKey[n][h]
             \/ /\ hubKey[n][h].state = "provisioned" /\ h \in accepted
                /\ acknowledged[h].state = "active"
             \/ hubKey[n][h].state = "active" /\ acknowledged[h].state = "rotating"
  <2>1. \/ acknowledged[h] = hubKey[n][h]
        \/ /\ h \in WithState(hubKey[n], "provisioned") \cap accepted
           /\ acknowledged[h] = [hubKey[n][h] EXCEPT !.state = "active"]
        \/ /\ hubKey[n][h].state = "active"
           /\ acknowledged[h] = [state |-> "rotating", revokeAfter |-> now + HubRouteOverlap]
    BY DEF AcknowledgeHubRouteKeys
  <2>2. [hubKey[n][h] EXCEPT !.state = "active"].state = "active"
    BY DEF TypeOK, HubKeyRow
  <2> HIDE DEF acknowledged
  <2>3. CASE acknowledged[h] = [hubKey[n][h] EXCEPT !.state = "active"] /\ h \in WithState(hubKey[n], "provisioned") \cap accepted
    BY <2>2, <2>3 DEF WithState
  <2>4. CASE acknowledged[h] = [state |-> "rotating", revokeAfter |-> now + HubRouteOverlap] /\ hubKey[n][h].state = "active"
    BY <2>4
  <2> QED
    BY <2>1, <2>3, <2>4
<1> HIDE DEF acknowledged
<1> QED
  BY <1>2, <1>4, <1>5, <1>6 DEF RouteKeysMove

(* A node provisioned where it had no live key gets a fresh one.           *)
LEMMA EnsureMoves ==
    ASSUME TypeOK, NEW n \in NodeIds, NEW rows \in EnsureHubRouteKey(hubKey[n]), NEW m \in NodeIds,
           hubKey' = [hubKey EXCEPT ![n] = rows]
    PROVE  RouteKeysMove(m, {})
<1>1. \A h \in RouteKeys :
         \/ rows[h] = hubKey[n][h]
         \/ hubKey[n][h].state = "absent" /\ rows[h] = [state |-> "provisioned", revokeAfter |-> Never]
  BY DEF EnsureHubRouteKey, FreshRouteKeys, TypeOK
<1>2. hubKey'[m] = IF m = n THEN rows ELSE hubKey[m]
  BY DEF TypeOK
<1> QED
  BY <1>1, <1>2 DEF RouteKeysMove

(* Every transaction but a heartbeat.                                      *)
NextButHeartbeat ==
    \/ \E t \in Tokens, p \in Purposes, n \in NodeIds \cup {NoNode} : MintEnrollmentToken(t, p, n)
    \/ \E t \in Tokens, r \in RequestIds, k \in MachineKeys, n \in NodeIds :
          Enroll(t, r, k, n) \/ Pair(t, r, k, n)
    \/ \E t \in Tokens, r \in RequestIds, k, proof \in MachineKeys, n \in NodeIds :
          Reenroll(t, r, k, n, proof)
    \/ \E n \in NodeIds, k, new \in MachineKeys : RotateCredential(n, k, new)
    \/ \E n \in NodeIds, d \in DeleteIds : DeleteNode(n, d)
    \/ \E n \in NodeIds, new \in RouteKeys : RotateHubRouteKey(n, new)
    \/ Maintenance
    \/ Tick

(* None of them activates a route key.                                     *)
LEMMA RouteKeysMoveStep ==
    ASSUME TypeOK, NEW m \in NodeIds, NextButHeartbeat
    PROVE  RouteKeysMove(m, {})
<1>1. CASE hubKey'[m] = hubKey[m]
  BY <1>1 DEF RouteKeysMove
<1>2. ASSUME NEW t \in Tokens, NEW r \in RequestIds, NEW k \in MachineKeys, NEW n \in NodeIds,
             Pair(t, r, k, n) \/ \E proof \in MachineKeys : Reenroll(t, r, k, n, proof)
      PROVE  RouteKeysMove(m, {})
  BY <1>2, EnsureMoves DEF Pair, Reenroll
<1>3. ASSUME NEW n \in NodeIds, NEW d \in DeleteIds, DeleteNode(n, d)
      PROVE  RouteKeysMove(m, {})
  <2>1. \A h \in RouteKeys : \/ hubKey'[m][h] = hubKey[m][h]
                             \/ /\ m = n /\ node'[m] # "active" /\ hubKey[m][h].state # "absent"
                                /\ hubKey'[m][h] = [hubKey[m][h] EXCEPT !.state = "revoked"]
    BY <1>3 DEF DeleteNode, LiveHubKeys, TypeOK
  <2>2. \A h \in RouteKeys : hubKey[m][h] \in HubKeyRow
    BY DEF TypeOK
  <2>3. \A h \in RouteKeys :
           \/ hubKey'[m][h] = hubKey[m][h]
           \/ /\ node'[m] # "active"
              /\ hubKey'[m][h].state = "revoked" /\ hubKey'[m][h].revokeAfter = hubKey[m][h].revokeAfter
    BY <2>1, <2>2, RevokedRow
  <2> QED
    BY <2>3 DEF RouteKeysMove
<1>4. ASSUME NEW n \in NodeIds, NEW new \in RouteKeys, RotateHubRouteKey(n, new)
      PROVE  RouteKeysMove(m, {})
  <2>1. \A h \in RouteKeys : \/ hubKey'[m][h] = hubKey[m][h]
                             \/ /\ hubKey[m][h].state = "absent"
                                /\ hubKey'[m][h] = [state |-> "provisioned", revokeAfter |-> Never]
    BY <1>4 DEF RotateHubRouteKey, FreshRouteKeys, TypeOK
  <2> QED
    BY <2>1 DEF RouteKeysMove
<1>5. CASE Maintenance
  <2>1. \A h \in RouteKeys : \/ hubKey'[m][h] = hubKey[m][h]
                             \/ /\ hubKey[m][h].revokeAfter # Never /\ hubKey[m][h].state = "rotating"
                                /\ hubKey'[m][h] = [hubKey[m][h] EXCEPT !.state = "revoked"]
    BY <1>5 DEF Maintenance, Expired
  <2>2. \A h \in RouteKeys : hubKey[m][h] \in HubKeyRow
    BY DEF TypeOK
  <2>3. \A h \in RouteKeys :
           \/ hubKey'[m][h] = hubKey[m][h]
           \/ /\ hubKey[m][h].revokeAfter # Never
              /\ hubKey'[m][h].state = "revoked" /\ hubKey'[m][h].revokeAfter = hubKey[m][h].revokeAfter
    <3> SUFFICES ASSUME NEW h \in RouteKeys
                 PROVE  \/ hubKey'[m][h] = hubKey[m][h]
                        \/ /\ hubKey[m][h].revokeAfter # Never
                           /\ hubKey'[m][h].state = "revoked" /\ hubKey'[m][h].revokeAfter = hubKey[m][h].revokeAfter
      OBVIOUS
    <3>1. CASE hubKey'[m][h] = [hubKey[m][h] EXCEPT !.state = "revoked"] /\ hubKey[m][h].revokeAfter # Never
      BY <2>2, <3>1, RevokedRow, Zenon
    <3> QED
      BY <2>1, <3>1
  <2> QED
    BY <2>3 DEF RouteKeysMove
<1>6. CASE UNCHANGED hubKey
  BY <1>1, <1>6
<1> QED
  BY <1>1, <1>2, <1>3, <1>4, <1>5, <1>6
     DEF NextButHeartbeat, MintEnrollmentToken, Enroll, RotateCredential, Tick

-----------------------------------------------------------------------------
(* The inductive invariant *)

Own == store.id

Requests == stale \cup ({call.request} \ {NoRequest})

(* Consumed tokens and recorded results: a result's key has its row, and a *)
(* re-enrollment was recorded for the node its token is bound to.          *)
ResultsKnown ==
    \A x \in results :
        /\ nodeKey[x.node][x.key].state # "absent"
        /\ x.kind = "reenroll" => token[x.token].bound = x.node

HubInv ==
    /\ TypeOK /\ AbsentHasNoKeys /\ RowsOrdered
    /\ TombstoneHoldsNoLiveKey /\ HubKeySetWellFormed
    /\ IdentityInv /\ ResultsKnown

(* Before it has an identity, all that the Hub may know of this node is    *)
(* its pending key; afterwards the node and its key are registered.        *)
IdentityKnown ==
    /\ Own = NoNode =>
          /\ \A n \in NodeIds : KeyRows(n) \subseteq {store.enrolling, store.pairing}
          /\ \A n \in NodeIds, h \in RouteKeys : hubKey[n][h].state # "active"
    /\ Own # NoNode => node[Own] # "absent" /\ nodeKey[Own][store.key].state # "absent"

(* The newest key and every key without a deadline are held: while a node  *)
(* is registered and after it is deleted, as created_at tells them apart.  *)
ExpectedKeysHeld ==
    \A n \in OwnNodes, k \in MachineKeys :
        (Newest(n, k) \/ (nodeKey[n][k].state = "active" /\ nodeKey[n][k].revokeAfter = Never)) => k \in HeldKeys

(* A rotation that the Hub has committed left the old key older and with   *)
(* a deadline: that is why the old key may be dropped.                     *)
RotationSound ==
    store.new # NoKey =>
        /\ store.new \notin {store.key, store.reenrolling}
        /\ nodeKey[Own][store.new].state # "absent" =>
              /\ nodeKey[Own][store.key].created < nodeKey[Own][store.new].created
              /\ nodeKey[Own][store.key].state = "active" => nodeKey[Own][store.key].revokeAfter # Never

(* A re-enrollment that the Hub has committed left every other key revoked *)
(* and older, and nothing sent before it can activate a route key of the   *)
(* new era: that is why everything else may be dropped.                    *)
ReenrollmentSound ==
    store.reenrolling # NoKey =>
        /\ store.reenrolling # store.key
        /\ nodeKey[Own][store.reenrolling].state # "absent" =>
              /\ \A k \in MachineKeys \ {store.reenrolling} :
                    /\ nodeKey[Own][k].state # "active"
                    /\ nodeKey[Own][k].state # "absent" =>
                          nodeKey[Own][k].created < nodeKey[Own][store.reenrolling].created
              /\ \A h \in RouteKeys : hubKey[Own][h].state # "active"
              /\ \A q \in Requests : q.op = "heartbeat" =>
                    \A h \in q.accepted : hubKey[Own][h].state \notin {"provisioned", "active"}

(* Every request that may still reach the Hub - in time, late, or after a  *)
(* crash - asks for nothing the store does not know: a rotation is the     *)
(* pending one, or was committed, or is signed with a revoked key.         *)
RequestSound(q) ==
    /\ q.op # "none"
    /\ q.op \in {"enroll", "pair"} =>
          /\ q.token \in Tokens /\ q.new \in MachineKeys
          /\ Own = NoNode => q.new \in {store.enrolling, store.pairing}
    /\ q.op \in {"heartbeat", "rotate", "report", "reenroll"} =>
          q.id = Own /\ Own # NoNode /\ q.key \in MachineKeys /\ q.key # store.reenrolling
    /\ q.op = "rotate" =>
          /\ q.new \in MachineKeys
          /\ \/ nodeKey[Own][q.new].state # "absent"
             \/ nodeKey[Own][q.key].state = "revoked"
             \/ q.key = store.key /\ q.new = store.new
    /\ q.op = "reenroll" =>
          /\ q.token \in Tokens /\ q.new \in MachineKeys
          /\ nodeKey[Own][q.new].state # "absent" \/ q.new = store.reenrolling
    /\ q.op = "heartbeat" => \A h \in q.accepted : hubKey[Own][h].state # "absent"

RequestsSound == \A q \in Requests : RequestSound(q)

(* A trusted key set covers the key the Hub signs with, and every key that *)
(* a request under way could still make it sign with; one that was revoked *)
(* by a deletion is trusted only by a node whose keys were revoked too.    *)
TrustSound(rows) ==
    /\ rows \in [RouteKeys -> HubKeyRow]
    /\ WellFormedHubKeys(rows)
    /\ LiveHubKeys(rows) # {} => Own # NoNode
    /\ \A h \in LiveHubKeys(rows) : hubKey[Own][h].state # "absent"
    /\ store.state = "active" =>
          /\ \A h \in RouteKeys : hubKey[Own][h].state = "active" => h \in LiveHubKeys(rows)
          /\ (\E h \in LiveHubKeys(rows) : hubKey[Own][h].state = "revoked" /\ hubKey[Own][h].revokeAfter = Never)
                => \A k \in MachineKeys : nodeKey[Own][k].state # "active"
          /\ \A q \in Requests : q.op = "heartbeat" =>
                \/ nodeKey[Own][q.key].state = "revoked"
                \/ \A h \in q.accepted :
                      hubKey[Own][h].state \in {"provisioned", "active"} => h \in LiveHubKeys(rows)

(* The key set the node trusts, and the one an answer is about to give it. *)
TrustsSound ==
    /\ TrustSound(store.trust)
    /\ (call.step \in {"heartbeat", "probeNew", "probeOld"} /\ call.reply.code = "ok") =>
          TrustSound(call.reply.trust)

(* What the step of a call says of its request and of its answer.          *)
CallSound ==
    /\ call.step = "idle" => call = Idle
    /\ call.step \in {"enroll", "pair"} =>
          /\ store.state = "unenrolled" /\ call.request.op = call.step
          /\ call.reply.code = "ok" => call.reply.id \in NodeIds /\ node[call.reply.id] # "absent"
    /\ call.step \in {"heartbeat", "report", "rotate", "probeNew", "probeOld", "resubmit", "promote"} =>
          store.state = "active"
    /\ call.step \in {"rotate", "probeNew", "probeOld", "resubmit", "promote"} => store.new # NoKey
    /\ call.step \in {"heartbeat", "probeNew", "probeOld"} => call.request.op = "heartbeat"
    /\ call.step = "probeNew" => call.request.key = store.new
    /\ call.step = "promote" => nodeKey[Own][store.new].state # "absent" /\ call.request = NoRequest
    /\ call.step \in {"rotate", "resubmit"} => call.request.op = "rotate" /\ call.request.new = store.new
    /\ (call.step \in {"rotate", "resubmit", "probeNew"} /\ call.reply.code = "ok") =>
          nodeKey[Own][store.new].state # "absent"
    /\ call.step = "report" => call.request.op = "report"
    /\ call.step \in {"reenrollNew", "reenrollCurrent"} =>
          /\ store.state = "revoked" /\ store.reenrolling # NoKey
          /\ call.request.op = "reenroll" /\ call.request.new = store.reenrolling
          /\ token[call.request.token].purpose = "reenroll" /\ token[call.request.token].bound = Own
          /\ call.reply.code = "ok" => nodeKey[Own][store.reenrolling].state # "absent"

StoreInv == IdentityKnown /\ ExpectedKeysHeld /\ RotationSound /\ ReenrollmentSound

NodeInv ==
    /\ HubInv /\ NodeTypeOK /\ StoreLoads /\ StoreInv
    /\ RequestsSound /\ TrustsSound /\ CallSound

-----------------------------------------------------------------------------
(* What a step of the Hub does to this node *)

(* The keys of the adopted node: a new row is that of a pending rotation,  *)
(* signed with the current key, or that of a pending re-enrollment; a      *)
(* route key is activated by a request of the node only.                   *)
OwnKeysStep ==
    /\ node'[Own] # "absent"
    /\ MachineKeysMove(Own)
    /\ \/ NoNewRow(Own)
       \/ NewRow(Own, store.new) /\ KeyUsable(Own, store.key) /\ nodeKey'[Own][store.key].revokeAfter # Never
       \/ NewRow(Own, store.reenrolling) /\ node[Own] = "tombstoned"
    /\ \/ RouteKeysMove(Own, {})
       \/ \E q \in Requests : q.op = "heartbeat" /\ KeyUsable(Own, q.key) /\ RouteKeysMove(Own, q.accepted)

(* Before there is an adopted node.                                        *)
FirstKeysStep ==
    \A n \in NodeIds : /\ KeyRows(n)' \subseteq {store.enrolling, store.pairing}
                       /\ RouteKeysMove(n, {})

HubStep == [Next]_vars /\ IF Own = NoNode THEN FirstKeysStep ELSE OwnKeysStep

(* No transaction forgets a node.                                          *)
LEMMA NodesStay ==
    ASSUME TypeOK, [Next]_vars, NEW n \in NodeIds, node[n] # "absent"
    PROVE  node'[n] # "absent"
BY DEF Next, MintEnrollmentToken, Enroll, Pair, Reenroll, Heartbeat, RotateCredential, DeleteNode,
       RotateHubRouteKey, Maintenance, Tick, vars, TypeOK

(* A step that adds no row and sends no heartbeat is such a step.          *)
LEMMA QuietHubStep ==
    ASSUME NodeInv, [Next]_vars,
           \A n \in NodeIds : n \in OwnNodes => NoNewRow(n) /\ RouteKeysMove(n, {})
    PROVE  HubStep
<1>1. CASE Own = NoNode
  <2>1. \A n \in NodeIds : KeyRows(n)' \subseteq KeyRows(n)
    BY <1>1 DEF OwnNodes, NoNewRow, KeyRows, Own
  <2> QED
    BY <1>1, <2>1 DEF HubStep, FirstKeysStep, NodeInv, StoreInv, IdentityKnown, OwnNodes, Own
<1>2. CASE Own # NoNode
  <2>1. Own \in NodeIds /\ OwnNodes = {Own}
    BY <1>2 DEF NodeInv, NodeTypeOK, Store, Own, OwnNodes
  <2>2. node'[Own] # "absent"
    BY <1>2, <2>1, NodesStay DEF NodeInv, HubInv, StoreInv, IdentityKnown
  <2>3. MachineKeysMove(Own)
    BY <2>1, MachineKeysMoveStep DEF NodeInv, HubInv
  <2> QED
    BY <1>2, <2>1, <2>2, <2>3 DEF HubStep, OwnKeysStep
<1> QED
  BY <1>1, <1>2

LEMMA UnchangedMoves ==
    ASSUME NEW n, UNCHANGED vars
    PROVE  NoNewRow(n) /\ RouteKeysMove(n, {})
BY DEF vars, NoNewRow, RouteKeysMove

(* The transaction of any request that can still arrive.                   *)
LEMMA CommitHubStep ==
    ASSUME NodeInv, NEW q \in Requests, CodeFor(q) = "ok", Commit(q)
    PROVE  HubStep
<1>1. RequestSound(q) /\ q \in Request
  BY DEF NodeInv, RequestsSound, NodeTypeOK, Requests
<1>2. TypeOK /\ AbsentHasNoKeys
  BY DEF NodeInv, HubInv
<1>3. Own # NoNode => /\ Own \in NodeIds /\ OwnNodes = {Own} /\ node[Own] # "absent"
                      /\ nodeKey[Own][store.key].state # "absent"
  BY DEF NodeInv, NodeTypeOK, Store, Own, OwnNodes, StoreInv, IdentityKnown
<1>4. q.op \in {"enroll", "pair", "reenroll", "heartbeat", "rotate", "report"}
  BY <1>1 DEF Request, RequestSound
<1>5. ASSUME q.op \in {"enroll", "pair"} PROVE HubStep
  <2>1. q.token \in Tokens /\ q.new \in MachineKeys
    BY <1>1, <1>5 DEF RequestSound
  <2>2. PICK r \in RequestIds, n \in NodeIds : Enroll(q.token, r, q.new, n) \/ Pair(q.token, r, q.new, n)
    BY <1>5 DEF Commit
  <2>3. Next /\ NextButHeartbeat
    BY <2>1, <2>2 DEF Next, NextButHeartbeat
  <2>4. \A m \in NodeIds : RouteKeysMove(m, {})
    BY <1>2, <2>3, RouteKeysMoveStep
  <2>5. node[n] = "absent" /\ nodeKey' = [nodeKey EXCEPT ![n][q.new] = NewNodeKey(n)]
    BY <2>2 DEF Enroll, Pair, InstallKey
  <2>6. CASE Own = NoNode
    <3>1. q.new \in {store.enrolling, store.pairing}
      BY <1>1, <1>5, <2>6 DEF RequestSound
    <3>2. \A m \in NodeIds : KeyRows(m) \subseteq {store.enrolling, store.pairing}
      BY <2>6 DEF NodeInv, StoreInv, IdentityKnown
    <3>3. \A m \in NodeIds, k \in MachineKeys : k # q.new => nodeKey'[m][k] = nodeKey[m][k]
      BY <1>2, <2>5 DEF TypeOK
    <3>4. \A m \in NodeIds : KeyRows(m)' \subseteq {store.enrolling, store.pairing}
      BY <3>1, <3>2, <3>3 DEF KeyRows
    <3> QED
      BY <2>3, <2>4, <2>6, <3>4 DEF HubStep, FirstKeysStep
  <2>7. CASE Own # NoNode
    <3>1. Own # n
      BY <1>3, <2>5, <2>7
    <3>2. NoNewRow(Own)
      BY <1>2, <2>5, <3>1 DEF NoNewRow, TypeOK
    <3> QED
      BY <1>3, <2>3, <2>4, <2>7, <3>2, QuietHubStep
  <2> QED
    BY <2>6, <2>7
<1>6. ASSUME q.op = "reenroll" PROVE HubStep
  <2>1. q.token \in Tokens /\ q.new \in MachineKeys /\ q.key \in MachineKeys /\ q.id = Own /\ Own # NoNode
    BY <1>1, <1>6 DEF RequestSound
  <2>2. PICK r \in RequestIds : Reenroll(q.token, r, q.new, Own, q.key)
    BY <1>6, <2>1 DEF Commit
  <2>3. Next /\ NextButHeartbeat
    BY <1>3, <2>1, <2>2 DEF Next, NextButHeartbeat
  <2>4. RouteKeysMove(Own, {})
    BY <1>2, <1>3, <2>1, <2>3, RouteKeysMoveStep
  <2>5. /\ nodeKey[Own][q.new].state = "absent" /\ node[Own] = "tombstoned"
        /\ nodeKey' = [nodeKey EXCEPT ![Own][q.new] = NewNodeKey(Own)]
    BY <2>2 DEF Reenroll, InstallKey
  <2>6. q.new = store.reenrolling
    BY <1>1, <1>6, <2>5 DEF RequestSound
  <2>7. /\ nodeKey'[Own][q.new] = NewNodeKey(Own)
        /\ \A k \in MachineKeys \ {q.new} : nodeKey'[Own][k] = nodeKey[Own][k]
    BY <1>2, <1>3, <2>1, <2>5 DEF TypeOK
  <2>8. NewRow(Own, store.reenrolling)
    BY <2>1, <2>5, <2>6, <2>7 DEF NewRow, NewNodeKey
  <2>9. node'[Own] # "absent" /\ MachineKeysMove(Own)
    BY <1>2, <1>3, <2>1, <2>3, NodesStay, MachineKeysMoveStep
  <2> QED
    BY <2>1, <2>3, <2>4, <2>5, <2>8, <2>9 DEF HubStep, OwnKeysStep
<1>7. ASSUME q.op = "heartbeat" PROVE HubStep
  <2>1. q.key \in MachineKeys /\ q.id = Own /\ Own # NoNode /\ q.accepted \in SUBSET RouteKeys
    BY <1>1, <1>7 DEF RequestSound, Request
  <2>2. Heartbeat(Own, q.key, q.accepted)
    BY <1>7, <2>1 DEF Commit
  <2>3. Next
    BY <1>3, <2>1, <2>2 DEF Next
  <2>4. RouteKeysMove(Own, q.accepted) /\ KeyUsable(Own, q.key)
    BY <1>2, <1>3, <2>1, <2>2, HeartbeatMoves DEF Heartbeat
  <2>5. NoNewRow(Own)
    BY <2>2 DEF Heartbeat, NoNewRow
  <2>6. node'[Own] # "absent" /\ MachineKeysMove(Own)
    BY <1>2, <1>3, <2>1, <2>3, NodesStay, MachineKeysMoveStep
  <2> QED
    BY <1>7, <2>1, <2>3, <2>4, <2>5, <2>6 DEF HubStep, OwnKeysStep
<1>8. ASSUME q.op = "rotate" PROVE HubStep
  <2>1. q.key \in MachineKeys /\ q.new \in MachineKeys /\ q.id = Own /\ Own # NoNode
    BY <1>1, <1>8 DEF RequestSound
  <2>2. RotateCredential(Own, q.key, q.new)
    BY <1>8, <2>1 DEF Commit
  <2>3. Next /\ NextButHeartbeat
    BY <1>3, <2>1, <2>2 DEF Next, NextButHeartbeat
  <2>4. RouteKeysMove(Own, {})
    BY <1>2, <1>3, <2>1, <2>3, RouteKeysMoveStep
  <2>5. /\ nodeKey[Own][q.new].state = "absent" /\ KeyUsable(Own, q.key) /\ q.new # q.key
        /\ nodeKey' = [nodeKey EXCEPT ![Own][q.key].revokeAfter = now + RotationOverlap,
                                      ![Own][q.new] = NewNodeKey(Own)]
    BY <2>2 DEF RotateCredential
  <2>6. q.new = store.new /\ q.key = store.key
    BY <1>1, <1>8, <2>5 DEF RequestSound, KeyUsable
  <2>7. /\ nodeKey'[Own][q.new] = NewNodeKey(Own)
        /\ nodeKey'[Own][q.key] = [nodeKey[Own][q.key] EXCEPT !.revokeAfter = now + RotationOverlap]
        /\ \A k \in MachineKeys \ {q.new, q.key} : nodeKey'[Own][k] = nodeKey[Own][k]
    BY <1>2, <1>3, <2>1, <2>5 DEF TypeOK
  <2>8. nodeKey[Own][q.key].state # "absent"
    BY <2>5 DEF KeyUsable
  <2>9. NewRow(Own, store.new)
    <3>1. \A k \in MachineKeys \ {q.new} : nodeKey'[Own][k].state # "absent" => nodeKey[Own][k].state # "absent"
      BY <2>7, <2>8
    <3>2. nodeKey'[Own][q.new].state = "active" /\ nodeKey'[Own][q.new].created = Cardinality(KeyRows(Own))
      BY <2>7 DEF NewNodeKey
    <3> QED
      BY <2>1, <2>5, <2>6, <3>1, <3>2 DEF NewRow
  <2>10. nodeKey'[Own][q.key].revokeAfter # Never
    <3>1. nodeKey[Own][q.key] \in NodeKeyRow /\ now + RotationOverlap # Never
      BY <1>2, <1>3, <2>1, TimeAssumption DEF TypeOK, Never
    <3> QED
      BY <2>7, <3>1 DEF NodeKeyRow
  <2>11. node'[Own] # "absent" /\ MachineKeysMove(Own)
    BY <1>2, <1>3, <2>1, <2>3, NodesStay, MachineKeysMoveStep
  <2> QED
    BY <2>1, <2>3, <2>4, <2>5, <2>6, <2>9, <2>10, <2>11 DEF HubStep, OwnKeysStep
<1>9. ASSUME q.op = "report" PROVE HubStep
  <2>1. UNCHANGED vars
    BY <1>9 DEF Commit
  <2> QED
    BY <2>1, UnchangedMoves, QuietHubStep
<1> QED
  BY <1>4, <1>5, <1>6, <1>7, <1>8, <1>9

LEMMA HandlesHubStep ==
    ASSUME NodeInv, NEW q \in Requests, HubHandles(q)
    PROVE  HubStep
<1>1. CASE UNCHANGED vars
  BY <1>1, UnchangedMoves, QuietHubStep
<1>2. CASE CodeFor(q) = "ok" /\ Commit(q)
  BY <1>2, CommitHubStep
<1> QED
  BY <1>1, <1>2 DEF HubHandles

(* The operator's transactions, the sweep and the clock.                   *)
LEMMA OperatorHubStep ==
    ASSUME NodeInv, Operator \/ Time
    PROVE  HubStep
<1>1. Next /\ NextButHeartbeat
  BY DEF Operator, Time, Next, NextButHeartbeat
<1>2. TypeOK
  BY DEF NodeInv, HubInv
<1>3. \A n \in NodeIds : RouteKeysMove(n, {})
  BY <1>1, <1>2, RouteKeysMoveStep
<1>4. ASSUME NEW n \in NodeIds, NEW k \in MachineKeys, nodeKey'[n][k].state # "absent"
      PROVE  nodeKey[n][k].state # "absent"
  <2>1. CASE UNCHANGED nodeKey
    BY <1>4, <2>1
  <2>2. ASSUME NEW m \in NodeIds, NEW d \in DeleteIds, DeleteNode(m, d)
        PROVE  nodeKey[n][k].state # "absent"
    BY <1>2, <1>4, <2>2 DEF DeleteNode, TypeOK
  <2>3. CASE Maintenance
    BY <1>2, <1>4, <2>3 DEF Maintenance, TypeOK
  <2> QED
    BY <2>1, <2>2, <2>3 DEF Operator, Time, MintEnrollmentToken, RotateHubRouteKey, Tick
<1> QED
  BY <1>1, <1>3, <1>4, QuietHubStep DEF NoNewRow

-----------------------------------------------------------------------------
(* The registry's part of the invariant *)

(* A minted token keeps its purpose and the node it is bound to.           *)
LEMMA TokensStay ==
    ASSUME TypeOK, [Next]_vars, NEW t \in Tokens, token[t].purpose # "none"
    PROVE  token'[t].purpose = token[t].purpose /\ token'[t].bound = token[t].bound
<1>1. ASSUME NEW s \in Tokens, NEW p \in Purposes, NEW n \in NodeIds \cup {NoNode}, MintEnrollmentToken(s, p, n)
      PROVE  token'[t] = token[t]
  BY <1>1 DEF MintEnrollmentToken, TypeOK
<1>2. ASSUME NEW s \in Tokens, NEW r \in RequestIds, NEW k \in MachineKeys, NEW n \in NodeIds, ConsumeToken(s, r, k, n)
      PROVE  token'[t].purpose = token[t].purpose /\ token'[t].bound = token[t].bound
  BY <1>2 DEF ConsumeToken, TypeOK, TokenRow
<1> QED
  BY <1>1, <1>2 DEF Next, Enroll, Pair, Reenroll, Heartbeat, RotateCredential, DeleteNode,
                    RotateHubRouteKey, Maintenance, Tick, vars

LEMMA ResultsKnownStep ==
    ASSUME HubInv, [Next]_vars
    PROVE  ResultsKnown'
<1> USE DEF HubInv
<1>1. \A x \in results : x.token \in Tokens /\ x.node \in NodeIds /\ x.key \in MachineKeys
  BY DEF TypeOK, ResultRow
<1>2. \A x \in results : token[x.token].purpose # "none"
  BY <1>1, SetAssumption DEF IdentityInv, ConsumedSound, TokenYieldsOneIdentity
<1>3. \A x \in results :
         /\ nodeKey'[x.node][x.key].state # "absent"
         /\ x.kind = "reenroll" => token'[x.token].bound = x.node
  BY <1>1, <1>2, MachineKeysMoveStep, TokensStay DEF MachineKeysMove, ResultsKnown
<1>4. ASSUME NEW t \in Tokens, NEW r \in RequestIds, NEW k \in MachineKeys, NEW n \in NodeIds,
             ConsumeToken(t, r, k, n), InstallKey(n, k),
             token[t].purpose = "reenroll" => token[t].bound = n
      PROVE  ResultsKnown'
  <2> DEFINE row == [token |-> t, request |-> r, key |-> k, node |-> n, kind |-> token[t].purpose, at |-> now]
  <2>1. results' = results \cup {row}
    BY <1>4 DEF ConsumeToken
  <2>2. row.node = n /\ row.key = k /\ row.token = t /\ row.kind = token[t].purpose
    OBVIOUS
  <2>3. nodeKey'[n][k] = NewNodeKey(n)
    BY <1>4 DEF InstallKey, TypeOK
  <2>4. nodeKey'[n][k].state # "absent"
    BY <2>3 DEF NewNodeKey
  <2>5. token'[t].bound = token[t].bound
    BY <1>4 DEF ConsumeToken, TypeOK, TokenRow
  <2> HIDE DEF row
  <2> QED
    BY <1>3, <1>4, <2>1, <2>2, <2>4, <2>5 DEF ResultsKnown
<1>5. ASSUME NEW t \in Tokens, NEW r \in RequestIds, NEW k \in MachineKeys, NEW n \in NodeIds,
             Enroll(t, r, k, n) \/ Pair(t, r, k, n) \/ \E proof \in MachineKeys : Reenroll(t, r, k, n, proof)
      PROVE  ResultsKnown'
  BY <1>4, <1>5 DEF Enroll, Pair, Reenroll, TokenAccepts
<1>6. CASE results' \subseteq results
  BY <1>3, <1>6 DEF ResultsKnown
<1> QED
  BY <1>5, <1>6 DEF Next, MintEnrollmentToken, Heartbeat, RotateCredential, DeleteNode,
                    RotateHubRouteKey, Maintenance, Tick, vars

LEMMA HubInvStep ==
    ASSUME HubInv, [Next]_vars
    PROVE  HubInv'
<1>1. TypeOK' /\ AbsentHasNoKeys' /\ IdentityInv'
  BY TypeStep, AbsentStep, IdentityStep DEF HubInv
<1>2. RowsOrdered'
  BY <1>1, RowsOrderedStep DEF HubInv
<1>3. TombstoneHoldsNoLiveKey' /\ HubKeySetWellFormed'
  BY TombstoneStep, HubKeySetStep DEF HubInv
<1> QED
  BY <1>1, <1>2, <1>3, ResultsKnownStep DEF HubInv

-----------------------------------------------------------------------------
(* A step of the Hub keeps the node's part of the invariant *)

LEMMA OwnFacts ==
    ASSUME NodeInv, Own # NoNode
    PROVE  /\ Own \in NodeIds /\ OwnNodes = {Own}
           /\ store.state # "unenrolled"
           /\ store.key \in MachineKeys /\ nodeKey[Own][store.key].state # "absent"
           /\ store.new \in MachineKeys \cup {NoKey}
           /\ store.reenrolling \in MachineKeys \cup {NoKey}
           /\ NoKey \notin MachineKeys
           /\ \A k \in MachineKeys : nodeKey[Own][k] \in NodeKeyRow
BY NodeAssumption DEF NodeInv, NodeTypeOK, Store, Own, OwnNodes, StoreInv, IdentityKnown, StoreLoads, HubInv, TypeOK

(* The age and the deadline of a key the node relies on.                   *)
LEMMA NewRowIsYoungest ==
    ASSUME NodeInv, NEW n \in NodeIds, NEW new, NewRow(n, new), MachineKeysMove(n)
    PROVE  /\ \A k \in MachineKeys \ {new} : nodeKey'[n][k].state # "absent" =>
                 /\ nodeKey'[n][k].created = nodeKey[n][k].created
                 /\ nodeKey'[n][k].created < nodeKey'[n][new].created
           /\ \A k \in MachineKeys : Newest(n, k)' => k = new
<1>1. \A k \in MachineKeys : nodeKey[n][k].created \in Nat
  BY DEF NodeInv, HubInv, TypeOK, NodeKeyRow
<1>2. KeyRows(n) \subseteq MachineKeys /\ Cardinality(KeyRows(n)) \in Nat
  BY SetAssumption, FS_Subset, FS_CardinalityType DEF KeyRows
<1>3. ASSUME NEW k \in MachineKeys \ {new}, nodeKey'[n][k].state # "absent"
      PROVE  /\ nodeKey'[n][k].created = nodeKey[n][k].created
             /\ nodeKey'[n][k].created < nodeKey'[n][new].created
             /\ nodeKey'[n][k].created \in Nat
  <2>1. k \in KeyRows(n)
    BY <1>3 DEF NewRow, KeyRows
  <2>2. nodeKey'[n][k].created = nodeKey[n][k].created
    BY <1>3, <2>1 DEF MachineKeysMove, KeyRows
  <2>3. nodeKey[n][k].created < Cardinality(KeyRows(n))
    BY <2>1 DEF NodeInv, HubInv, RowsOrdered
  <2> QED
    BY <1>1, <1>3, <2>2, <2>3 DEF NewRow
<1>4. new \in KeyRows(n)' /\ nodeKey'[n][new].created \in Nat
  BY <1>2 DEF NewRow, KeyRows
<1>5. ASSUME NEW k \in MachineKeys, Newest(n, k)' PROVE k = new
  <2>1. nodeKey'[n][k].state # "absent" /\ nodeKey'[n][new].created <= nodeKey'[n][k].created
    BY <1>4, <1>5 DEF Newest, KeyRows
  <2>2. CASE k # new
    BY <1>3, <1>4, <2>1, <2>2
  <2> QED
    BY <2>2
<1> QED
  BY <1>3, <1>5

LEMMA StoreInvHubStep ==
    ASSUME NodeInv, HubStep, HubInv', UNCHANGED store, Requests' \subseteq Requests
    PROVE  StoreInv'
<1>1. CASE Own = NoNode
  <2>1. store.key = NoKey /\ store.new = NoKey /\ store.reenrolling = NoKey
    BY <1>1, NodeAssumption DEF NodeInv, StoreLoads, Own
  <2>2. FirstKeysStep
    BY <1>1 DEF HubStep
  <2>3. IdentityKnown'
    BY <1>1, <2>2 DEF FirstKeysStep, RouteKeysMove, NodeInv, StoreInv, IdentityKnown, Own
  <2>4. ExpectedKeysHeld'
    <3>1. \A n \in NodeIds, k \in MachineKeys : nodeKey'[n][k].state # "absent" => k \in HeldKeys
      BY <2>2, NodeAssumption DEF FirstKeysStep, KeyRows, HeldKeys
    <3> QED
      BY <1>1, <3>1 DEF ExpectedKeysHeld, OwnNodes, Own, Newest, KeyRows, HeldKeys
  <2> QED
    BY <2>1, <2>3, <2>4 DEF StoreInv, RotationSound, ReenrollmentSound
<1>2. CASE Own # NoNode
  <2>1. OwnKeysStep
    BY <1>2 DEF HubStep
  <2>2. MachineKeysMove(Own)
    BY <2>1 DEF OwnKeysStep
  <2>3. Own' = Own /\ OwnNodes' = OwnNodes /\ HeldKeys' = HeldKeys
    BY DEF Own, OwnNodes, HeldKeys
  <2>4. Own \in NodeIds
    BY <1>2, OwnFacts
  <2>5. \A k \in MachineKeys : nodeKey[Own][k].created \in Nat
    BY <1>2, OwnFacts DEF NodeKeyRow
  <2>6. IdentityKnown'
    BY <1>2, <2>1, <2>2, <2>3, OwnFacts DEF OwnKeysStep, MachineKeysMove, IdentityKnown, Own
  <2>7. ASSUME NEW k \in MachineKeys, nodeKey[Own][k].state # "absent",
               nodeKey'[Own][k].state = "active" /\ nodeKey'[Own][k].revokeAfter = Never
        PROVE  nodeKey[Own][k].state = "active" /\ nodeKey[Own][k].revokeAfter = Never
    BY <2>2, <2>7 DEF MachineKeysMove
  <2>8. CASE NoNewRow(Own)
    <3>1. \A k \in MachineKeys : nodeKey'[Own][k].state # "absent" <=> nodeKey[Own][k].state # "absent"
      BY <2>2, <2>8 DEF NoNewRow, MachineKeysMove
    <3>2. KeyRows(Own)' = KeyRows(Own)
      BY <2>3, <3>1 DEF KeyRows
    <3>3. \A k \in MachineKeys : Newest(Own, k)' => Newest(Own, k)
      BY <2>2, <2>3, <3>2 DEF Newest, MachineKeysMove, KeyRows
    <3>4. ExpectedKeysHeld'
      <4>1. ASSUME NEW k \in MachineKeys,
                   Newest(Own, k)' \/ (nodeKey'[Own][k].state = "active" /\ nodeKey'[Own][k].revokeAfter = Never)
            PROVE  k \in HeldKeys
        <5>1. nodeKey'[Own][k].state = "active" => nodeKey[Own][k].state # "absent"
          BY <3>1
        <5>2. Newest(Own, k) \/ (nodeKey[Own][k].state = "active" /\ nodeKey[Own][k].revokeAfter = Never)
          BY <2>7, <3>3, <4>1, <5>1
        <5> QED
          BY <1>2, <5>2, OwnFacts DEF NodeInv, StoreInv, ExpectedKeysHeld
      <4> QED
        BY <1>2, <2>3, <4>1, OwnFacts DEF ExpectedKeysHeld
    <3>5. RotationSound'
      BY <1>2, <2>2, <2>3, <2>6, <3>1, OwnFacts DEF NodeInv, StoreInv, RotationSound, MachineKeysMove
    <3>6. ASSUME store.reenrolling # NoKey, nodeKey'[Own][store.reenrolling].state # "absent"
          PROVE  /\ \A k \in MachineKeys \ {store.reenrolling} :
                       /\ nodeKey'[Own][k].state # "active"
                       /\ nodeKey'[Own][k].state # "absent" =>
                             nodeKey'[Own][k].created < nodeKey'[Own][store.reenrolling].created
                 /\ \A h \in RouteKeys : hubKey'[Own][h].state # "active"
                 /\ \A q \in Requests' : q.op = "heartbeat" =>
                       \A h \in q.accepted : hubKey'[Own][h].state \notin {"provisioned", "active"}
      <4>1. store.reenrolling \in MachineKeys /\ nodeKey[Own][store.reenrolling].state # "absent"
        BY <1>2, <3>1, <3>6, OwnFacts
      <4>2. /\ \A k \in MachineKeys \ {store.reenrolling} :
                  /\ nodeKey[Own][k].state # "active"
                  /\ nodeKey[Own][k].state # "absent" =>
                        nodeKey[Own][k].created < nodeKey[Own][store.reenrolling].created
            /\ \A h \in RouteKeys : hubKey[Own][h].state # "active"
            /\ \A q \in Requests : q.op = "heartbeat" =>
                  \A h \in q.accepted : hubKey[Own][h].state \notin {"provisioned", "active"}
        BY <3>6, <4>1 DEF NodeInv, StoreInv, ReenrollmentSound
      <4>3. ASSUME NEW q \in Requests, q.op = "heartbeat" PROVE ~ KeyUsable(Own, q.key)
        <5>1. q.key \in MachineKeys /\ q.key # store.reenrolling
          BY <4>3 DEF NodeInv, RequestsSound, RequestSound
        <5> QED
          BY <4>2, <5>1 DEF KeyUsable
      <4>4. RouteKeysMove(Own, {})
        BY <2>1, <4>3 DEF OwnKeysStep
      <4>5. \A q \in Requests : q.op = "heartbeat" => \A h \in q.accepted :
                h \in RouteKeys /\ hubKey[Own][h].state # "absent"
        BY DEF NodeInv, RequestsSound, RequestSound, NodeTypeOK, Request, Requests
      <4>6. \A k \in MachineKeys \ {store.reenrolling} :
               /\ nodeKey'[Own][k].state # "active"
               /\ nodeKey'[Own][k].state # "absent" =>
                     nodeKey'[Own][k].created < nodeKey'[Own][store.reenrolling].created
        BY <2>2, <3>1, <4>1, <4>2 DEF MachineKeysMove
      <4>7. \A h \in RouteKeys : hubKey'[Own][h].state # "active"
        BY <4>2, <4>4 DEF RouteKeysMove
      <4>8. \A q \in Requests' : q.op = "heartbeat" =>
               \A h \in q.accepted : hubKey'[Own][h].state \notin {"provisioned", "active"}
        BY <4>2, <4>4, <4>5, <4>7 DEF RouteKeysMove
      <4> QED
        BY <4>6, <4>7, <4>8
    <3>7. ReenrollmentSound'
      BY <2>3, <3>6 DEF NodeInv, StoreInv, ReenrollmentSound
    <3> QED
      BY <2>6, <3>4, <3>5, <3>7 DEF StoreInv
  <2>9. ASSUME NEW new \in {store.new, store.reenrolling}, NewRow(Own, new)
        PROVE  ExpectedKeysHeld'
    <3>1. new \in MachineKeys /\ new \in HeldKeys
      BY <2>9, NodeAssumption DEF NewRow, HeldKeys
    <3>2. \A k \in MachineKeys : Newest(Own, k)' => k = new
      <4>1. PICK o \in NodeIds : o = Own
        BY <2>4
      <4>2. \A k \in MachineKeys : Newest(o, k)' => k = new
        BY <2>2, <2>9, <4>1, NewRowIsYoungest
      <4>3. \A k \in MachineKeys : Newest(Own, k)' => Newest(o, k)'
        BY <2>3, <4>1 DEF Newest, KeyRows
      <4> QED
        BY <4>2, <4>3
    <3>3. ASSUME NEW k \in MachineKeys, k # new,
                 nodeKey'[Own][k].state = "active" /\ nodeKey'[Own][k].revokeAfter = Never
          PROVE  k \in HeldKeys
      <4>1. nodeKey[Own][k].state # "absent"
        BY <2>9, <3>3 DEF NewRow
      <4> QED
        BY <1>2, <2>7, <3>3, <4>1, OwnFacts DEF NodeInv, StoreInv, ExpectedKeysHeld
    <3> QED
      BY <1>2, <2>3, <3>1, <3>2, <3>3, OwnFacts DEF ExpectedKeysHeld
  <2>10. CASE /\ NewRow(Own, store.new) /\ KeyUsable(Own, store.key)
              /\ nodeKey'[Own][store.key].revokeAfter # Never
    <3>1. store.new \in MachineKeys /\ nodeKey[Own][store.new].state = "absent"
      BY <2>10 DEF NewRow
    <3>2. store.new \notin {store.key, store.reenrolling}
      BY <3>1, NodeAssumption DEF NodeInv, StoreInv, RotationSound
    <3>3. nodeKey'[Own][store.key].state # "absent" /\ store.key \in MachineKeys
      BY <1>2, <2>2, OwnFacts DEF MachineKeysMove
    <3>4. nodeKey'[Own][store.key].created < nodeKey'[Own][store.new].created
      BY <2>2, <2>4, <2>10, <3>2, <3>3, NewRowIsYoungest
    <3>5. RotationSound'
      BY <2>3, <2>10, <3>2, <3>4 DEF RotationSound
    <3>6. ASSUME store.reenrolling # NoKey, nodeKey'[Own][store.reenrolling].state # "absent"
          PROVE  FALSE
      <4>1. store.reenrolling \in MachineKeys /\ nodeKey[Own][store.reenrolling].state # "absent"
        BY <1>2, <2>10, <3>2, <3>6, OwnFacts DEF NewRow
      <4>2. store.key # store.reenrolling
        BY <3>6 DEF NodeInv, StoreInv, ReenrollmentSound
      <4>3. nodeKey[Own][store.key].state # "active"
        BY <3>3, <3>6, <4>1, <4>2 DEF NodeInv, StoreInv, ReenrollmentSound
      <4> QED
        BY <2>10, <4>3 DEF KeyUsable
    <3>7. ReenrollmentSound'
      BY <2>3, <3>6 DEF NodeInv, StoreInv, ReenrollmentSound
    <3> QED
      BY <2>6, <2>9, <2>10, <3>5, <3>7 DEF StoreInv
  <2>11. CASE NewRow(Own, store.reenrolling) /\ node[Own] = "tombstoned"
    <3>1. store.reenrolling \in MachineKeys /\ store.reenrolling # NoKey
      BY <2>11, NodeAssumption DEF NewRow
    <3>2. /\ \A k \in MachineKeys : nodeKey[Own][k].state # "active"
          /\ \A h \in RouteKeys : hubKey[Own][h].state \notin {"provisioned", "active", "rotating"}
      BY <2>4, <2>11 DEF NodeInv, HubInv, TombstoneHoldsNoLiveKey, LiveHubKeys
    <3>3. RouteKeysMove(Own, {})
      BY <2>1, <2>11 DEF OwnKeysStep, KeyUsable
    <3>4. \A q \in Requests : q.op = "heartbeat" => \A h \in q.accepted :
              h \in RouteKeys /\ hubKey[Own][h].state # "absent"
      BY DEF NodeInv, RequestsSound, RequestSound, NodeTypeOK, Request, Requests
    <3>5. \A k \in MachineKeys \ {store.reenrolling} :
             nodeKey'[Own][k].state # "absent" =>
                /\ nodeKey[Own][k].state # "absent"
                /\ nodeKey'[Own][k].created < nodeKey'[Own][store.reenrolling].created
      BY <2>2, <2>4, <2>11, NewRowIsYoungest DEF NewRow
    <3>6. \A k \in MachineKeys \ {store.reenrolling} : nodeKey'[Own][k].state # "active"
      BY <2>2, <3>2, <3>5 DEF MachineKeysMove
    <3>7. \A h \in RouteKeys : hubKey'[Own][h].state # "active"
      BY <3>2, <3>3 DEF RouteKeysMove
    <3>8. \A q \in Requests', h \in RouteKeys : (q.op = "heartbeat" /\ h \in q.accepted) =>
             hubKey'[Own][h].state \notin {"provisioned", "active"}
      BY <3>2, <3>3, <3>4, <3>7 DEF RouteKeysMove
    <3>9. ReenrollmentSound'
      BY <2>3, <3>1, <3>4, <3>5, <3>6, <3>7, <3>8 DEF NodeInv, StoreInv, ReenrollmentSound
    <3>10. ASSUME store.new # NoKey, nodeKey'[Own][store.new].state # "absent"
           PROVE  /\ nodeKey'[Own][store.key].created < nodeKey'[Own][store.new].created
                  /\ nodeKey'[Own][store.key].state = "active" => nodeKey'[Own][store.key].revokeAfter # Never
      <4>1. store.new \in MachineKeys /\ store.new # store.reenrolling
        BY <1>2, <3>10, OwnFacts DEF NodeInv, StoreInv, RotationSound
      <4>2. nodeKey[Own][store.new].state # "absent"
        BY <3>5, <3>10, <4>1
      <4>3. nodeKey[Own][store.key].created < nodeKey[Own][store.new].created
        BY <3>10, <4>2 DEF NodeInv, StoreInv, RotationSound
      <4>4. store.key # store.reenrolling
        BY <3>1 DEF NodeInv, StoreInv, ReenrollmentSound
      <4> QED
        BY <1>2, <2>2, <3>6, <4>1, <4>2, <4>3, <4>4, OwnFacts DEF MachineKeysMove
    <3>11. RotationSound'
      BY <2>3, <3>10 DEF NodeInv, StoreInv, RotationSound
    <3> QED
      BY <2>6, <2>9, <2>11, <3>9, <3>11 DEF StoreInv
  <2> QED
    BY <2>1, <2>8, <2>10, <2>11 DEF OwnKeysStep
<1> QED
  BY <1>1, <1>2

LEMMA RequestsHubStep ==
    ASSUME NodeInv, HubStep, UNCHANGED store, Requests' \subseteq Requests
    PROVE  RequestsSound'
<1> SUFFICES ASSUME NEW q \in Requests, RequestSound(q) PROVE RequestSound(q)'
  BY DEF NodeInv, RequestsSound
<1>1. Own' = Own
  BY DEF Own
<1>2. CASE Own = NoNode
  <2>1. q.op \notin {"heartbeat", "rotate", "report", "reenroll"}
    BY <1>2 DEF RequestSound
  <2> QED
    BY <1>1, <1>2, <2>1 DEF RequestSound
<1>3. CASE Own # NoNode
  <2>1. MachineKeysMove(Own) /\ \A h \in RouteKeys : hubKey[Own][h].state # "absent" => hubKey'[Own][h].state # "absent"
    BY <1>3 DEF HubStep, OwnKeysStep, RouteKeysMove
  <2>2. Own \in NodeIds
    BY <1>3, OwnFacts
  <2>3. \A k \in MachineKeys : nodeKey[Own][k].state = "revoked" => nodeKey'[Own][k].state = "revoked"
    BY <2>2, MachineKeyRevocationStep DEF NodeInv, HubInv, HubStep
  <2>4. q.accepted \subseteq RouteKeys
    BY DEF NodeInv, NodeTypeOK, Request, Requests
  <2> QED
    BY <1>1, <1>3, <2>1, <2>3, <2>4 DEF RequestSound, MachineKeysMove
<1> QED
  BY <1>2, <1>3

LEMMA TrustHubStep ==
    ASSUME NodeInv, HubStep, HubInv', UNCHANGED store, Requests' \subseteq Requests,
           NEW rows, TrustSound(rows)
    PROVE  TrustSound(rows)'
<1>1. Own' = Own /\ LiveHubKeys(rows) \subseteq RouteKeys
  BY DEF Own, LiveHubKeys
<1>2. CASE Own = NoNode
  <2>1. store.state = "unenrolled" /\ LiveHubKeys(rows) = {}
    BY <1>2 DEF NodeInv, StoreLoads, TrustSound, Own
  <2> QED
    BY <1>1, <1>2, <2>1 DEF TrustSound
<1>3. CASE Own # NoNode
  <2>1. OwnKeysStep /\ MachineKeysMove(Own) /\ Own \in NodeIds
    BY <1>3, OwnFacts DEF HubStep, OwnKeysStep
  <2>2. PICK accepted : /\ RouteKeysMove(Own, accepted)
                        /\ \/ accepted = {}
                           \/ \E q \in Requests : q.op = "heartbeat" /\ KeyUsable(Own, q.key) /\ accepted = q.accepted
    BY <2>1 DEF OwnKeysStep
  <2>3. \A h \in LiveHubKeys(rows) : hubKey'[Own][h].state # "absent"
    BY <1>1, <2>2 DEF RouteKeysMove, TrustSound
  <2>4. ASSUME store.state = "active", NEW h \in RouteKeys, hubKey'[Own][h].state = "active"
        PROVE  h \in LiveHubKeys(rows)
    <3>1. CASE hubKey[Own][h].state = "active"
      BY <2>4, <3>1 DEF TrustSound
    <3>2. CASE hubKey[Own][h].state = "provisioned" /\ h \in accepted
      <4>1. PICK q \in Requests : q.op = "heartbeat" /\ KeyUsable(Own, q.key) /\ accepted = q.accepted
        BY <2>2, <3>2
      <4> QED
        BY <2>4, <3>2, <4>1 DEF TrustSound, KeyUsable
    <3> QED
      BY <2>2, <2>4, <3>1, <3>2 DEF RouteKeysMove
  <2>5. ASSUME store.state = "active", NEW h \in LiveHubKeys(rows),
               hubKey'[Own][h].state = "revoked", hubKey'[Own][h].revokeAfter = Never,
               NEW k \in MachineKeys
        PROVE  nodeKey'[Own][k].state # "active"
    <3>1. CASE node'[Own] # "active"
      BY <1>1, <2>1, <3>1 DEF HubInv, TombstoneHoldsNoLiveKey
    <3>2. CASE hubKey[Own][h].state = "revoked" /\ hubKey[Own][h].revokeAfter = Never
      <4>1. \A j \in MachineKeys : nodeKey[Own][j].state # "active"
        BY <2>5, <3>2 DEF TrustSound
      <4>2. store.reenrolling = NoKey
        BY <1>3, <2>5, OwnFacts DEF NodeInv, StoreLoads
      <4>3. NoNewRow(Own)
        BY <1>3, <2>1, <4>1, <4>2, OwnFacts DEF OwnKeysStep, KeyUsable, NewRow
      <4> QED
        BY <2>1, <4>1, <4>3 DEF MachineKeysMove, NoNewRow
    <3> QED
      BY <1>1, <2>2, <2>5, <3>1, <3>2 DEF RouteKeysMove
  <2>6. ASSUME store.state = "active", NEW q \in Requests, q.op = "heartbeat",
               nodeKey'[Own][q.key].state # "revoked",
               NEW h \in q.accepted, hubKey'[Own][h].state \in {"provisioned", "active"}
        PROVE  h \in LiveHubKeys(rows)
    <3>1. q.accepted \subseteq RouteKeys /\ q.key \in MachineKeys /\ hubKey[Own][h].state # "absent"
      BY <2>6 DEF NodeInv, NodeTypeOK, Request, Requests, RequestsSound, RequestSound
    <3>2. nodeKey[Own][q.key].state # "revoked"
      BY <2>1, <2>6, <3>1, MachineKeyRevocationStep DEF NodeInv, HubInv, HubStep
    <3>3. hubKey[Own][h].state \in {"provisioned", "active"}
      BY <2>2, <2>6, <3>1 DEF RouteKeysMove
    <3> QED
      BY <2>6, <3>2, <3>3 DEF TrustSound
  <2>7. rows \in [RouteKeys -> HubKeyRow] /\ WellFormedHubKeys(rows)
    BY DEF TrustSound
  <2>8. Requests' \subseteq Requests
    OBVIOUS
  <2> QED
    BY <1>1, <1>3, <2>3, <2>4, <2>5, <2>6, <2>7, <2>8 DEF TrustSound
<1> QED
  BY <1>2, <1>3

(* What the call said of the Hub's tables stays true.                      *)
LEMMA CallHubStep ==
    ASSUME NodeInv, HubStep, UNCHANGED <<store, call>>
    PROVE  CallSound'
<1>1. Own' = Own
  BY DEF Own
<1>2. \A n \in NodeIds : node[n] # "absent" => node'[n] # "absent"
  BY NodesStay DEF HubStep, NodeInv, HubInv
<1>3. ASSUME Own # NoNode, NEW k \in MachineKeys, nodeKey[Own][k].state # "absent"
      PROVE  nodeKey'[Own][k].state # "absent"
  BY <1>3 DEF HubStep, OwnKeysStep, MachineKeysMove
<1>4. store.state # "unenrolled" => Own # NoNode
  BY DEF NodeInv, StoreLoads, Own
<1>5. store.new # NoKey => store.new \in MachineKeys
  BY DEF NodeInv, NodeTypeOK, Store
<1>6. store.reenrolling # NoKey => store.reenrolling \in MachineKeys
  BY DEF NodeInv, NodeTypeOK, Store
<1>7. CallSound
  BY DEF NodeInv
<1>8. call.step \in {"enroll", "pair"} =>
          /\ store'.state = "unenrolled" /\ call'.request.op = call.step
          /\ call'.reply.code = "ok" => call'.reply.id \in NodeIds /\ node'[call'.reply.id] # "absent"
  BY <1>2, <1>7 DEF CallSound
<1>9. call.step = "promote" => nodeKey'[Own][store.new].state # "absent"
  BY <1>3, <1>4, <1>5, <1>7 DEF CallSound
<1>10. (call.step \in {"rotate", "resubmit", "probeNew"} /\ call.reply.code = "ok") =>
          nodeKey'[Own][store.new].state # "absent"
  BY <1>3, <1>4, <1>5, <1>7 DEF CallSound
<1>11. call.step \in {"reenrollNew", "reenrollCurrent"} =>
          /\ token'[call.request.token].purpose = "reenroll" /\ token'[call.request.token].bound = Own
          /\ call.reply.code = "ok" => nodeKey'[Own][store.reenrolling].state # "absent"
  <2> SUFFICES ASSUME call.step \in {"reenrollNew", "reenrollCurrent"}
               PROVE  /\ token'[call.request.token].purpose = "reenroll" /\ token'[call.request.token].bound = Own
                      /\ call.reply.code = "ok" => nodeKey'[Own][store.reenrolling].state # "absent"
    OBVIOUS
  <2>1. /\ call.request.op = "reenroll" /\ token[call.request.token].purpose = "reenroll"
        /\ token[call.request.token].bound = Own
    BY <1>7 DEF CallSound
  <2>2. call.request \in Requests
    BY <2>1 DEF Requests, NoRequest
  <2>3. call.request.token \in Tokens
    BY <2>1, <2>2 DEF NodeInv, RequestsSound, RequestSound
  <2>4. TypeOK /\ [Next]_vars
    BY DEF NodeInv, HubInv, HubStep
  <2>5. /\ token'[call.request.token].purpose = "reenroll" /\ token'[call.request.token].bound = Own
    BY <2>1, <2>3, <2>4, TokensStay
  <2> QED
    BY <1>3, <1>4, <1>6, <1>7, <2>5 DEF CallSound
<1> QED
  BY <1>1, <1>7, <1>8, <1>9, <1>10, <1>11 DEF CallSound

-----------------------------------------------------------------------------
(* What an answer says *)

LEMMA LiveRowsSound ==
    ASSUME NEW rows \in [RouteKeys -> HubKeyRow], WellFormedHubKeys(rows)
    PROVE  /\ LiveRows(rows) \in [RouteKeys -> HubKeyRow]
           /\ WellFormedHubKeys(LiveRows(rows))
           /\ LiveHubKeys(LiveRows(rows)) = LiveHubKeys(rows)
<1>1. NoHubKey \in HubKeyRow /\ NoHubKey.state = "absent"
  BY DEF NoHubKey, HubKeyRow
<1>2. \A h \in RouteKeys : LiveRows(rows)[h] = IF h \in LiveHubKeys(rows) THEN rows[h] ELSE NoHubKey
  BY DEF LiveRows
<1>3. LiveRows(rows) \in [RouteKeys -> HubKeyRow]
  BY <1>1 DEF LiveRows
<1>4. \A s \in {"provisioned", "active", "rotating"} : WithState(LiveRows(rows), s) = WithState(rows, s)
  BY <1>1, <1>2 DEF WithState, LiveHubKeys
<1>5. LiveHubKeys(LiveRows(rows)) = LiveHubKeys(rows)
  BY <1>1, <1>2 DEF LiveHubKeys
<1>6. \A s \in {"provisioned", "active", "rotating"} : \A h \in WithState(rows, s) : LiveRows(rows)[h] = rows[h]
  BY <1>2 DEF WithState, LiveHubKeys
<1>7. WellFormedHubKeys(LiveRows(rows))
  BY <1>4, <1>6 DEF WellFormedHubKeys
<1> QED
  BY <1>3, <1>5, <1>7

(* The request of the call in progress is sound, and an answer "ok" says   *)
(* that the Hub has done, or had done, what it asks for.                   *)
LEMMA AnswerMeans ==
    ASSUME NodeInv, HubStep, HubInv', NEW q \in Requests, HubHandles(q), CodeFor(q) = "ok"
    PROVE  /\ q.op \in {"enroll", "pair"} =>
                 /\ token'[q.token].consumedBy \in NodeIds
                 /\ node'[token'[q.token].consumedBy] # "absent"
           /\ (q.op = "reenroll" /\ token[q.token].bound = Own) => nodeKey'[Own][q.new].state # "absent"
           /\ q.op = "rotate" => nodeKey'[Own][q.new].state # "absent"
           /\ q.op = "heartbeat" => nodeKey'[Own][q.key].state # "absent"
<1>1. RequestSound(q)
  BY DEF NodeInv, RequestsSound
<1>2. IsReplay(q) => UNCHANGED vars
  BY DEF HubHandles
<1>3. ~ IsReplay(q) => Commit(q)
  BY DEF HubHandles
<1>4. TypeOK /\ IdentityInv /\ ResultsKnown
  BY DEF NodeInv, HubInv
<1>5. ASSUME q.op \in {"enroll", "pair"}
      PROVE  token'[q.token].consumedBy \in NodeIds /\ node'[token'[q.token].consumedBy] # "absent"
  <2>1. q.token \in Tokens
    BY <1>1, <1>5 DEF RequestSound
  <2>2. CASE IsReplay(q)
    <3>1. token' = token /\ node' = node /\ token[q.token].consumedBy # NoNode
      BY <1>2, <2>2 DEF vars, IsReplay
    <3> QED
      BY <1>4, <2>1, <3>1 DEF IdentityInv, ConsumedSound, TypeOK, TokenRow
  <2>3. CASE ~ IsReplay(q)
    <3>1. PICK r \in RequestIds, n \in NodeIds : Enroll(q.token, r, q.new, n) \/ Pair(q.token, r, q.new, n)
      BY <1>3, <1>5, <2>3 DEF Commit
    <3>2. token' = [token EXCEPT ![q.token].consumedBy = n] /\ node' = [node EXCEPT ![n] = "active"]
      BY <3>1 DEF Enroll, Pair, ConsumeToken
    <3>3. token'[q.token].consumedBy = n /\ node'[n] = "active"
      BY <1>4, <2>1, <3>2 DEF TypeOK, TokenRow
    <3> QED
      BY <3>3
  <2> QED
    BY <2>2, <2>3
<1>6. ASSUME q.op = "reenroll", token[q.token].bound = Own
      PROVE  nodeKey'[Own][q.new].state # "absent"
  <2>1. q.token \in Tokens /\ q.new \in MachineKeys /\ q.id = Own /\ Own # NoNode
    BY <1>1, <1>6 DEF RequestSound
  <2>2. CASE IsReplay(q)
    <3>1. nodeKey' = nodeKey /\ token[q.token].consumedBy # NoNode
      BY <1>2, <2>2 DEF vars, IsReplay
    <3>2. PICK r \in RequestIds : ReplayOrDeny(q.token, "reenroll", r, q.new) # {}
      BY <1>6, <3>1 DEF CodeFor, ReenrollCode
    <3>3. PICK x \in results : x.token = q.token /\ x.kind = "reenroll" /\ x.key = q.new
      BY <3>2 DEF ReplayOrDeny
    <3> QED
      BY <1>4, <1>6, <3>1, <3>3 DEF ResultsKnown
  <2>3. CASE ~ IsReplay(q)
    <3>1. PICK r \in RequestIds : Reenroll(q.token, r, q.new, Own, q.key)
      BY <1>3, <1>6, <2>1, <2>3 DEF Commit
    <3>2. nodeKey'[Own][q.new] = NewNodeKey(Own)
      BY <1>4, <2>1, <3>1, OwnFacts DEF Reenroll, InstallKey, TypeOK
    <3> QED
      BY <3>2 DEF NewNodeKey
  <2> QED
    BY <2>2, <2>3
<1>7. ASSUME q.op = "rotate" PROVE nodeKey'[Own][q.new].state # "absent"
  <2>1. q.key \in MachineKeys /\ q.new \in MachineKeys /\ q.id = Own /\ Own # NoNode /\ ~ IsReplay(q)
    BY <1>1, <1>7 DEF RequestSound, IsReplay
  <2>2. RotateCredential(Own, q.key, q.new)
    BY <1>3, <1>7, <2>1 DEF Commit
  <2>3. nodeKey'[Own][q.new] = NewNodeKey(Own)
    BY <1>4, <2>1, <2>2, OwnFacts DEF RotateCredential, TypeOK
  <2> QED
    BY <2>3 DEF NewNodeKey
<1>8. ASSUME q.op = "heartbeat" PROVE nodeKey'[Own][q.key].state # "absent"
  <2>1. q.key \in MachineKeys /\ q.id = Own /\ Own # NoNode
    BY <1>1, <1>8 DEF RequestSound
  <2>2. KeyUsable(Own, q.key)
    BY <1>8, <2>1 DEF CodeFor, AuthCode
  <2> QED
    BY <2>1, <2>2 DEF KeyUsable, HubStep, OwnKeysStep, MachineKeysMove
<1> QED
  BY <1>5, <1>6, <1>7, <1>8

LEMMA ReplyType ==
    ASSUME NodeInv, HubInv', NEW q \in Requests
    PROVE  ReplyTo(q) \in Reply
<1>1. RequestSound(q) /\ q \in Request
  BY DEF NodeInv, RequestsSound, NodeTypeOK, Requests
<1>2. q.op \in {"enroll", "pair", "reenroll", "heartbeat", "rotate", "report"}
  BY <1>1 DEF Request, RequestSound
<1>3. \A n, k : AuthCode(n, k) \in {"ok", "revoked", "unknown"}
  BY DEF AuthCode
<1>4. CodeFor(q) \in {"none", "ok", "revoked", "unknown", "denied"}
  BY <1>2, <1>3 DEF CodeFor, BootstrapCode, ReenrollCode
<1>5. q.op \in {"enroll", "pair", "reenroll"} => token'[q.token].consumedBy \in NodeIds \cup {NoNode}
  BY <1>1 DEF RequestSound, HubInv, TypeOK, TokenRow
<1>6. q.op = "heartbeat" => hubKey'[q.id] \in [RouteKeys -> HubKeyRow]
  BY <1>1, OwnFacts DEF RequestSound, HubInv, TypeOK
<1>7. NoHubKey \in HubKeyRow
  BY DEF NoHubKey, HubKeyRow
<1>8. NoTrust \in [RouteKeys -> HubKeyRow]
  BY <1>7 DEF NoTrust
<1>9. q.op = "heartbeat" => LiveRows(hubKey'[q.id]) \in [RouteKeys -> HubKeyRow]
  BY <1>6, <1>7 DEF LiveRows
<1> DEFINE id == IF CodeFor(q) = "ok" /\ q.op \in {"enroll", "pair", "reenroll"}
                 THEN token'[q.token].consumedBy ELSE NoNode
           trust == IF CodeFor(q) = "ok" /\ q.op = "heartbeat" THEN LiveRows(hubKey'[q.id]) ELSE NoTrust
<1>10. id \in NodeIds \cup {NoNode} /\ trust \in [RouteKeys -> HubKeyRow]
  BY <1>5, <1>8, <1>9
<1>11. ReplyTo(q) = [code |-> CodeFor(q), id |-> id, trust |-> trust]
  BY DEF ReplyTo
<1> HIDE DEF id, trust
<1> QED
  BY <1>4, <1>10, <1>11 DEF Reply

(* An answered call: its answer is true, and the key set it carries is     *)
(* sound.                                                                  *)
LEMMA AnswerStep ==
    ASSUME NodeInv, HubStep, HubInv', HubAnswers
    PROVE  CallSound' /\ TrustsSound' /\ call' \in [step : Steps, request : Request, reply : Reply]
<1> DEFINE q == call.request
<1>1. q \in Requests /\ HubHandles(q) /\ store' = store /\ stale' = stale
  BY DEF HubAnswers, Requests
<1>2. call' = [call EXCEPT !.reply = ReplyTo(q)] /\ call \in [step : Steps, request : Request, reply : Reply]
  BY DEF HubAnswers, NodeInv, NodeTypeOK
<1>3. call'.step = call.step /\ call'.request = q /\ call'.reply = ReplyTo(q)
  BY <1>2
<1>4. call' \in [step : Steps, request : Request, reply : Reply]
  BY <1>1, <1>2, ReplyType
<1>5. /\ call'.reply.code = CodeFor(q)
      /\ (CodeFor(q) = "ok" /\ q.op \in {"enroll", "pair", "reenroll"}) =>
            call'.reply.id = token'[q.token].consumedBy
      /\ (CodeFor(q) = "ok" /\ q.op = "heartbeat") => call'.reply.trust = LiveRows(hubKey'[q.id])
  BY <1>3 DEF ReplyTo
<1>6. RequestSound(q) /\ Own' = Own /\ Requests' = Requests
  BY <1>1, <1>3 DEF NodeInv, RequestsSound, Requests, Own
<1>7. CallSound
  BY DEF NodeInv
<1>8. call.step # "idle" /\ call.step # "promote"
  <2>1. call.step # "idle"
    BY <1>7 DEF CallSound, Idle, HubAnswers
  <2>2. call.step # "promote"
    BY <1>7 DEF CallSound, HubAnswers
  <2> QED
    BY <2>1, <2>2
<1> HIDE DEF q
<1>9. CallSound'
  <2>1. call.step \in {"enroll", "pair"} =>
          /\ store'.state = "unenrolled" /\ call'.request.op = call'.step
          /\ call'.reply.code = "ok" => call'.reply.id \in NodeIds /\ node'[call'.reply.id] # "absent"
    BY <1>1, <1>3, <1>5, <1>7, AnswerMeans DEF CallSound, q
  <2>2. call.step \in {"rotate", "resubmit"} /\ call'.reply.code = "ok" => nodeKey'[Own][store.new].state # "absent"
    BY <1>1, <1>3, <1>5, <1>7, AnswerMeans DEF CallSound, q
  <2>3. call.step = "probeNew" /\ call'.reply.code = "ok" => nodeKey'[Own][store.new].state # "absent"
    BY <1>1, <1>3, <1>5, <1>7, AnswerMeans DEF CallSound, q
  <2>4. ASSUME call.step \in {"reenrollNew", "reenrollCurrent"}
        PROVE  /\ token'[q.token].purpose = "reenroll" /\ token'[q.token].bound = Own
               /\ call'.reply.code = "ok" => nodeKey'[Own][store.reenrolling].state # "absent"
    <3>1. /\ q.op = "reenroll" /\ q.new = store.reenrolling
          /\ token[q.token].purpose = "reenroll" /\ token[q.token].bound = Own
      BY <1>7, <2>4 DEF CallSound, q
    <3>2. q.token \in Tokens /\ TypeOK /\ [Next]_vars
      BY <1>6, <3>1 DEF RequestSound, NodeInv, HubInv, HubStep
    <3>3. token'[q.token].purpose = "reenroll" /\ token'[q.token].bound = Own
      BY <3>1, <3>2, TokensStay
    <3> QED
      BY <1>1, <1>5, <3>1, <3>3, AnswerMeans
  <2> QED
    BY <1>1, <1>3, <1>6, <1>7, <1>8, <2>1, <2>2, <2>3, <2>4 DEF CallSound, q
<1>10. TrustsSound'
  <2>1. PICK rows : rows = store.trust
    OBVIOUS
  <2>2. TrustSound(rows)'
    BY <1>1, <1>6, <2>1, TrustHubStep DEF NodeInv, TrustsSound
  <2>3. TrustSound(store.trust)'
    BY <1>1, <2>1, <2>2
  <2>4. ASSUME call'.step \in {"heartbeat", "probeNew", "probeOld"} /\ call'.reply.code = "ok"
        PROVE  TrustSound(call.reply.trust)'
    <3>1. q.op = "heartbeat" /\ CodeFor(q) = "ok"
      BY <1>3, <1>5, <1>7, <2>4 DEF CallSound, q
    <3>2. q.id = Own /\ Own \in NodeIds /\ Own # NoNode
      BY <1>6, <3>1, OwnFacts DEF RequestSound
    <3>3. PICK new : new = hubKey'[Own]
      OBVIOUS
    <3>4. new \in [RouteKeys -> HubKeyRow] /\ WellFormedHubKeys(new)
      BY <3>2, <3>3 DEF HubInv, TypeOK, HubKeySetWellFormed
    <3>5. PICK live : live = LiveRows(new)
      OBVIOUS
    <3>6. live \in [RouteKeys -> HubKeyRow] /\ WellFormedHubKeys(live) /\ LiveHubKeys(live) = LiveHubKeys(new)
      BY <3>4, <3>5, LiveRowsSound
    <3>7. \A h \in RouteKeys : h \in LiveHubKeys(live) <=> hubKey'[Own][h].state \in {"provisioned", "active", "rotating"}
      BY <3>3, <3>6 DEF LiveHubKeys
    <3>8. LiveHubKeys(live) \subseteq RouteKeys
      BY DEF LiveHubKeys
    <3>9. \A p \in Requests : p.op = "heartbeat" => p.accepted \subseteq RouteKeys
      BY DEF NodeInv, NodeTypeOK, Request, Requests
    <3>10. TrustSound(live)'
      BY <1>6, <3>2, <3>6, <3>7, <3>8, <3>9 DEF TrustSound
    <3>11. call'.reply.trust = live
      BY <1>5, <3>1, <3>2, <3>3, <3>5
    <3> QED
      BY <3>10, <3>11
  <2> QED
    BY <2>3, <2>4 DEF TrustsSound
<1> QED
  BY <1>4, <1>9, <1>10

-----------------------------------------------------------------------------
(* The client's steps *)

(* A step of the client adds at most the request q to those under way.     *)
Sends(q) == Requests' \subseteq Requests \cup ({q} \ {NoRequest})

(* What the steps of the client must keep of the node's store.             *)
StoreKept == StoreLoads' /\ StoreInv' /\ RequestsSound' /\ TrustSound(store.trust)' /\ store' \in Store

LEMMA UnchangedHubInv ==
    ASSUME HubInv, UNCHANGED vars
    PROVE  HubInv'
BY HubInvStep

(* A heartbeat tells the Hub the keys of the trusted set.                  *)
LEMMA SameStoreKept ==
    ASSUME NodeInv, UNCHANGED <<vars, store>>, NEW q, Sends(q),
           q # NoRequest => RequestSound(q),
           q.op = "heartbeat" => store.state = "active" /\ q.accepted = LiveHubKeys(store.trust)
    PROVE  StoreKept
<1>1. Own' = Own /\ HeldKeys' = HeldKeys /\ OwnNodes' = OwnNodes
  BY DEF Own, HeldKeys, OwnNodes
<1>2. UNCHANGED <<now, token, node, nodeKey, hubKey, results, deletions, store>>
  BY DEF vars
<1>3. StoreLoads' /\ store' \in Store
  BY <1>2 DEF NodeInv, StoreLoads, NodeTypeOK, WellFormedHubKeys, WithState
<1>4. RequestsSound'
  BY <1>1, <1>2 DEF NodeInv, RequestsSound, RequestSound, Sends
<1>5. IdentityKnown' /\ ExpectedKeysHeld' /\ RotationSound'
  BY <1>1, <1>2 DEF NodeInv, StoreInv, IdentityKnown, ExpectedKeysHeld, RotationSound, Newest, KeyRows
<1>6. ReenrollmentSound'
  <2>1. q.op = "heartbeat" => store.reenrolling = NoKey
    BY DEF NodeInv, StoreLoads
  <2> QED
    BY <1>1, <1>2, <2>1 DEF NodeInv, StoreInv, ReenrollmentSound, Sends
<1>7. TrustSound(store.trust)'
  BY <1>1, <1>2 DEF NodeInv, TrustsSound, TrustSound, Sends, LiveHubKeys, WellFormedHubKeys, WithState
<1> QED
  BY <1>3, <1>4, <1>5, <1>6, <1>7 DEF StoreKept, StoreInv

(* The answer to a heartbeat: another sound key set is trusted.            *)
LEMMA TrustUpdateKept ==
    ASSUME NodeInv, UNCHANGED vars, store.state = "active",
           NEW rows, TrustSound(rows), store' = [store EXCEPT !.trust = rows],
           NEW q, Sends(q), q # NoRequest => RequestSound(q), q.op # "heartbeat"
    PROVE  StoreKept
<1>1. store \in Store /\ rows \in [RouteKeys -> HubKeyRow] /\ WellFormedHubKeys(rows)
  BY DEF NodeInv, NodeTypeOK, TrustSound
<1>2. /\ store'.state = store.state /\ store'.id = store.id /\ store'.key = store.key /\ store'.new = store.new
      /\ store'.enrolling = store.enrolling /\ store'.pairing = store.pairing
      /\ store'.reenrolling = store.reenrolling /\ store'.trust = rows
      /\ store' \in Store
  BY <1>1 DEF Store
<1>3. Own' = Own /\ HeldKeys' = HeldKeys /\ OwnNodes' = OwnNodes
  BY <1>2 DEF Own, HeldKeys, OwnNodes
<1>4. UNCHANGED <<now, token, node, nodeKey, hubKey, results, deletions>>
  BY DEF vars
<1>5. StoreLoads'
  BY <1>1, <1>2 DEF NodeInv, StoreLoads, WellFormedHubKeys, WithState
<1>6. RequestsSound'
  BY <1>2, <1>3, <1>4 DEF NodeInv, RequestsSound, RequestSound, Sends
<1>7. StoreInv'
  BY <1>2, <1>3, <1>4 DEF NodeInv, StoreInv, IdentityKnown, ExpectedKeysHeld, RotationSound, ReenrollmentSound,
                          Sends, Newest, KeyRows, StoreLoads
<1>8. TrustSound(store.trust)'
  BY <1>2, <1>3, <1>4 DEF TrustSound, Sends
<1> QED
  BY <1>2, <1>5, <1>6, <1>7, <1>8 DEF StoreKept

(* "The Hub revoked this identity": the terminal state is persisted.       *)
LEMMA RevokedKept ==
    ASSUME NodeInv, UNCHANGED vars, store.state = "active",
           store' = [store EXCEPT !.state = "revoked"], Requests' \subseteq Requests
    PROVE  StoreKept
<1>1. store \in Store
  BY DEF NodeInv, NodeTypeOK
<1>2. /\ store'.state = "revoked" /\ store'.id = store.id /\ store'.key = store.key /\ store'.new = store.new
      /\ store'.enrolling = store.enrolling /\ store'.pairing = store.pairing
      /\ store'.reenrolling = store.reenrolling /\ store'.trust = store.trust
      /\ store' \in Store
  BY <1>1 DEF Store
<1>3. Own' = Own /\ HeldKeys' = HeldKeys /\ OwnNodes' = OwnNodes
  BY <1>2 DEF Own, HeldKeys, OwnNodes
<1>4. UNCHANGED <<now, token, node, nodeKey, hubKey, results, deletions>>
  BY DEF vars
<1>5. StoreLoads'
  BY <1>2 DEF NodeInv, StoreLoads, WellFormedHubKeys, WithState
<1>6. RequestsSound'
  BY <1>2, <1>3, <1>4 DEF NodeInv, RequestsSound, RequestSound
<1>7. StoreInv'
  BY <1>2, <1>3, <1>4 DEF NodeInv, StoreInv, IdentityKnown, ExpectedKeysHeld, RotationSound, ReenrollmentSound,
                          Newest, KeyRows
<1>8. TrustSound(store.trust)'
  BY <1>2, <1>3, <1>4 DEF NodeInv, TrustsSound, TrustSound
<1> QED
  BY <1>2, <1>5, <1>6, <1>7, <1>8 DEF StoreKept

(* A committed rotation is completed: the old key is dropped.              *)
LEMMA PromotedKept ==
    ASSUME NodeInv, UNCHANGED vars, store.state = "active", store.new # NoKey,
           nodeKey[Own][store.new].state # "absent",
           store' = Promoted(store), Requests' \subseteq Requests
    PROVE  StoreKept
<1>1. store \in Store
  BY DEF NodeInv, NodeTypeOK
<1>2. /\ store'.state = store.state /\ store'.id = store.id /\ store'.key = store.new /\ store'.new = NoKey
      /\ store'.enrolling = store.enrolling /\ store'.pairing = store.pairing
      /\ store'.reenrolling = store.reenrolling /\ store'.trust = store.trust
      /\ store' \in Store
  BY <1>1 DEF Store, Promoted
<1>3. Own # NoNode /\ store.reenrolling = NoKey
  BY DEF NodeInv, StoreLoads, Own
<1>4. Own' = Own /\ OwnNodes' = OwnNodes /\ OwnNodes = {Own} /\ Own \in NodeIds
  BY <1>2, <1>3, OwnFacts DEF Own, OwnNodes
<1>5. UNCHANGED <<now, token, node, nodeKey, hubKey, results, deletions>>
  BY DEF vars
<1>6. StoreLoads'
  BY <1>2, <1>3 DEF NodeInv, StoreLoads, WellFormedHubKeys, WithState
<1>7. RequestsSound'
  BY <1>2, <1>4, <1>5 DEF NodeInv, RequestsSound, RequestSound
<1>8. IdentityKnown'
  BY <1>2, <1>3, <1>4, <1>5 DEF NodeInv, StoreInv, IdentityKnown
<1>9. ASSUME NEW k \in MachineKeys,
             Newest(Own, k) \/ (nodeKey[Own][k].state = "active" /\ nodeKey[Own][k].revokeAfter = Never)
      PROVE  k \in HeldKeys'
  <2>1. k \in HeldKeys
    BY <1>4, <1>9 DEF NodeInv, StoreInv, ExpectedKeysHeld
  <2>2. /\ nodeKey[Own][store.key].created < nodeKey[Own][store.new].created
        /\ nodeKey[Own][store.key].state = "active" => nodeKey[Own][store.key].revokeAfter # Never
    BY DEF NodeInv, StoreInv, RotationSound
  <2>3. /\ store.key \in MachineKeys /\ store.new \in MachineKeys /\ store.new \in KeyRows(Own)
        /\ nodeKey[Own][store.key].created \in Nat /\ nodeKey[Own][store.new].created \in Nat
    BY <1>3, OwnFacts DEF KeyRows, NodeKeyRow
  <2>4. k # store.key
    BY <1>9, <2>2, <2>3 DEF Newest
  <2> QED
    BY <1>2, <2>1, <2>4 DEF HeldKeys
<1>10. ExpectedKeysHeld'
  BY <1>4, <1>5, <1>9 DEF ExpectedKeysHeld, Newest, KeyRows
<1>11. RotationSound' /\ ReenrollmentSound'
  BY <1>2, <1>3 DEF RotationSound, ReenrollmentSound
<1>12. TrustSound(store.trust)'
  BY <1>2, <1>4, <1>5 DEF NodeInv, TrustsSound, TrustSound
<1> QED
  BY <1>2, <1>6, <1>7, <1>8, <1>10, <1>11, <1>12 DEF StoreKept, StoreInv

(* A committed re-enrollment is completed: everything else is dropped.     *)
LEMMA ReenrolledKept ==
    ASSUME NodeInv, UNCHANGED vars, store.state = "revoked", store.reenrolling # NoKey,
           nodeKey[Own][store.reenrolling].state # "absent",
           store' = Reenrolled(store), Requests' \subseteq Requests
    PROVE  StoreKept
<1>1. store \in Store
  BY DEF NodeInv, NodeTypeOK
<1>2. NoHubKey \in HubKeyRow /\ NoHubKey.state = "absent"
  BY DEF NoHubKey, HubKeyRow
<1>3. NoTrust \in [RouteKeys -> HubKeyRow] /\ WellFormedHubKeys(NoTrust) /\ LiveHubKeys(NoTrust) = {}
  BY <1>2 DEF NoTrust, WellFormedHubKeys, WithState, LiveHubKeys
<1>4. /\ store'.state = "active" /\ store'.id = store.id /\ store'.key = store.reenrolling /\ store'.new = NoKey
      /\ store'.enrolling = store.enrolling /\ store'.pairing = store.pairing
      /\ store'.reenrolling = NoKey /\ store'.trust = NoTrust
      /\ store' \in Store
  BY <1>1, <1>3 DEF Store, Reenrolled
<1>5. Own # NoNode
  BY DEF NodeInv, StoreLoads, Own
<1>6. /\ Own' = Own /\ OwnNodes' = OwnNodes /\ OwnNodes = {Own} /\ Own \in NodeIds
      /\ store.reenrolling \in MachineKeys
  BY <1>4, <1>5, OwnFacts DEF Own, OwnNodes
<1>7. UNCHANGED <<now, token, node, nodeKey, hubKey, results, deletions>>
  BY DEF vars
<1>8. /\ \A k \in MachineKeys \ {store.reenrolling} :
             /\ nodeKey[Own][k].state # "active"
             /\ nodeKey[Own][k].state # "absent" =>
                   nodeKey[Own][k].created < nodeKey[Own][store.reenrolling].created
      /\ \A h \in RouteKeys : hubKey[Own][h].state # "active"
      /\ \A q \in Requests : q.op = "heartbeat" =>
             \A h \in q.accepted : hubKey[Own][h].state \notin {"provisioned", "active"}
      /\ store.reenrolling # store.key
  BY DEF NodeInv, StoreInv, ReenrollmentSound
<1>9. StoreLoads'
  BY <1>4, <1>5, <1>6, NodeAssumption DEF NodeInv, StoreLoads, Own
<1>10. RequestsSound'
  <2>1. nodeKey[Own][store.key].state = "revoked"
    BY <1>5, <1>8, OwnFacts DEF NodeKeyRow
  <2> QED
    BY <1>4, <1>6, <1>7, <2>1, NodeAssumption DEF NodeInv, RequestsSound, RequestSound
<1>11. IdentityKnown'
  BY <1>4, <1>5, <1>6, <1>7 DEF NodeInv, StoreInv, IdentityKnown
<1>12. ASSUME NEW k \in MachineKeys,
              Newest(Own, k) \/ (nodeKey[Own][k].state = "active" /\ nodeKey[Own][k].revokeAfter = Never)
       PROVE  k = store.reenrolling
  <2>1. \A j \in MachineKeys : nodeKey[Own][j].created \in Nat
    BY <1>5, OwnFacts DEF NodeKeyRow
  <2>2. store.reenrolling \in KeyRows(Own)
    BY <1>6 DEF KeyRows
  <2> QED
    BY <1>6, <1>8, <1>12, <2>1, <2>2 DEF Newest, KeyRows
<1>13. ExpectedKeysHeld'
  <2>1. store.reenrolling \in HeldKeys'
    BY <1>4 DEF HeldKeys
  <2> QED
    BY <1>6, <1>7, <1>12, <2>1 DEF ExpectedKeysHeld, Newest, KeyRows
<1>14. RotationSound' /\ ReenrollmentSound'
  BY <1>4 DEF RotationSound, ReenrollmentSound
<1>15. TrustSound(store.trust)'
  BY <1>3, <1>4, <1>6, <1>7, <1>8 DEF TrustSound, LiveHubKeys, WellFormedHubKeys, WithState
<1> QED
  BY <1>4, <1>9, <1>10, <1>11, <1>13, <1>14, <1>15 DEF StoreKept, StoreInv

(* Enrollment and pairing: the pending key is on disk before the request.  *)
LEMMA BootstrapKept ==
    ASSUME NodeInv, NEW op \in {"enroll", "pair"}, NEW t \in Tokens, NEW k \in MachineKeys,
           StartBootstrap(op, t, k)
    PROVE  StoreKept
<1> DEFINE q == [NoRequest EXCEPT !.op = op, !.token = t, !.key = k, !.new = k]
<1>1. q.op = op /\ q.token = t /\ q.new = k
  BY DEF NoRequest
<1>2. store.state = "unenrolled" /\ call = Idle /\ UNCHANGED <<vars, stale>>
  BY DEF StartBootstrap
<1>3. call'.request = q
  BY DEF StartBootstrap, Send
<1> HIDE DEF q
<1>4. Requests = stale /\ Requests' \subseteq Requests \cup {q}
  BY <1>2, <1>3 DEF Requests, Idle
<1>5. /\ store.id = NoNode /\ store.key = NoKey /\ store.new = NoKey /\ store.reenrolling = NoKey
      /\ store.trust = NoTrust
  BY <1>2 DEF NodeInv, StoreLoads
<1>6. /\ store' \in Store /\ store'.state = "unenrolled" /\ store'.id = NoNode
      /\ store'.key = NoKey /\ store'.new = NoKey /\ store'.reenrolling = NoKey /\ store'.trust = NoTrust
      /\ k \in {store'.enrolling, store'.pairing}
      /\ {store.enrolling, store.pairing} \subseteq {store'.enrolling, store'.pairing, NoKey}
      /\ NoKey \in {store'.enrolling, store'.pairing}
  <2>1. store \in Store
    BY DEF NodeInv, NodeTypeOK
  <2>2. CASE op = "enroll"
    <3>1. store' = [store EXCEPT !.enrolling = k] /\ store.pairing = NoKey /\ store.enrolling \in {NoKey, k}
      BY <2>2 DEF StartBootstrap
    <3>2. store'.enrolling = k /\ store'.pairing = NoKey /\ store' \in Store
      BY <2>1, <3>1 DEF Store
    <3> QED
      BY <1>2, <1>5, <2>1, <3>1, <3>2 DEF Store
  <2>3. CASE op = "pair"
    <3>1. store' = [store EXCEPT !.pairing = k] /\ store.enrolling = NoKey /\ store.pairing \in {NoKey, k}
      BY <2>3 DEF StartBootstrap
    <3>2. store'.pairing = k /\ store'.enrolling = NoKey /\ store' \in Store
      BY <2>1, <3>1 DEF Store
    <3> QED
      BY <1>2, <1>5, <2>1, <3>1, <3>2 DEF Store
  <2> QED
    BY <2>2, <2>3
<1>7. Own = NoNode /\ Own' = NoNode /\ OwnNodes' = NodeIds
  BY <1>5, <1>6 DEF Own, OwnNodes
<1>8. UNCHANGED <<now, token, node, nodeKey, hubKey, results, deletions>>
  BY <1>2 DEF vars
<1>9. \A n \in NodeIds : KeyRows(n) \subseteq {store'.enrolling, store'.pairing}
  BY <1>6, <1>7, NodeAssumption DEF NodeInv, StoreInv, IdentityKnown, KeyRows
<1>10. IdentityKnown'
  BY <1>7, <1>8, <1>9 DEF NodeInv, StoreInv, IdentityKnown, KeyRows
<1>11. ExpectedKeysHeld'
  <2>1. \A n \in NodeIds : \A j \in KeyRows(n) : j \in HeldKeys'
    BY <1>9, NodeAssumption DEF HeldKeys, KeyRows
  <2> QED
    BY <1>7, <1>8, <2>1 DEF ExpectedKeysHeld, Newest, KeyRows
<1>12. RequestsSound'
  <2>1. \A p \in Requests : p.op \in {"enroll", "pair"} => p.new \in MachineKeys /\ p.new \in {store'.enrolling, store'.pairing}
    BY <1>6, <1>7, NodeAssumption DEF NodeInv, RequestsSound, RequestSound
  <2> QED
    BY <1>1, <1>4, <1>6, <1>7, <2>1 DEF NodeInv, RequestsSound, RequestSound
<1>13. StoreLoads'
  BY <1>6 DEF StoreLoads
<1>14. TrustSound(store.trust)'
  BY <1>5, <1>6, <1>7 DEF NodeInv, TrustsSound, TrustSound, LiveHubKeys, WellFormedHubKeys, WithState
<1>15. RotationSound' /\ ReenrollmentSound'
  BY <1>6 DEF RotationSound, ReenrollmentSound
<1> QED
  BY <1>6, <1>10, <1>11, <1>12, <1>13, <1>14, <1>15 DEF StoreKept, StoreInv

(* Enrollment or pairing returns: the node adopts the identity that its    *)
(* pending key was registered under.                                       *)
LEMMA AdoptedKept ==
    ASSUME NodeInv, UNCHANGED vars, Requests' \subseteq Requests,
           call.step \in {"enroll", "pair"}, call.reply.code = "ok",
           store' = [store EXCEPT !.state = "active", !.id = call.reply.id, !.key = call.request.new,
                                  !.trust = NoTrust, !.enrolling = NoKey, !.pairing = NoKey]
    PROVE  StoreKept
<1> DEFINE id == call.reply.id
           k  == call.request.new
<1>1. store.state = "unenrolled" /\ id \in NodeIds /\ node[id] # "absent" /\ call.request.op = call.step
  BY DEF NodeInv, CallSound
<1>2. call.request \in Requests
  BY <1>1 DEF Requests, NoRequest
<1>3. /\ store.id = NoNode /\ store.key = NoKey /\ store.new = NoKey /\ store.reenrolling = NoKey
      /\ NoKey \in {store.enrolling, store.pairing}
  BY <1>1 DEF NodeInv, StoreLoads
<1>4. k \in MachineKeys /\ k \in {store.enrolling, store.pairing}
  BY <1>1, <1>2, <1>3 DEF NodeInv, RequestsSound, RequestSound, Own
<1>5. NoHubKey \in HubKeyRow /\ NoHubKey.state = "absent"
  BY DEF NoHubKey, HubKeyRow
<1>6. NoTrust \in [RouteKeys -> HubKeyRow] /\ WellFormedHubKeys(NoTrust) /\ LiveHubKeys(NoTrust) = {}
  BY <1>5 DEF NoTrust, WellFormedHubKeys, WithState, LiveHubKeys
<1> HIDE DEF id, k
<1>7. /\ store'.state = "active" /\ store'.id = id /\ store'.key = k /\ store'.new = NoKey
      /\ store'.enrolling = NoKey /\ store'.pairing = NoKey /\ store'.reenrolling = NoKey
      /\ store'.trust = NoTrust /\ store' \in Store
  <2>1. store \in Store
    BY DEF NodeInv, NodeTypeOK
  <2> QED
    BY <1>1, <1>3, <1>4, <1>6, <2>1 DEF Store, id, k
<1>8. Own = NoNode /\ Own' = id /\ id # NoNode /\ OwnNodes' = {id}
  BY <1>1, <1>3, <1>7, SetAssumption DEF Own, OwnNodes
<1>9. UNCHANGED <<now, token, node, nodeKey, hubKey, results, deletions>>
  BY DEF vars
<1>10. \A j \in MachineKeys : nodeKey[id][j].state # "absent" => j = k
  BY <1>1, <1>3, <1>4, <1>8, NodeAssumption DEF NodeInv, StoreInv, IdentityKnown, KeyRows
<1>11. nodeKey[id][k].state # "absent"
  <2>1. PICK j \in MachineKeys : j \in KeyRows(id)
    BY <1>1 DEF NodeInv, HubInv, RowsOrdered, Newest
  <2> QED
    BY <1>10, <2>1 DEF KeyRows
<1>12. IdentityKnown'
  BY <1>1, <1>7, <1>8, <1>9, <1>11 DEF IdentityKnown
<1>13. ExpectedKeysHeld'
  <2>1. k \in HeldKeys'
    BY <1>4, <1>7, NodeAssumption DEF HeldKeys
  <2> QED
    BY <1>8, <1>9, <1>10, <2>1 DEF ExpectedKeysHeld, Newest, KeyRows
<1>14. \A q \in Requests : q.op \notin {"heartbeat", "rotate", "report", "reenroll"}
  BY <1>8 DEF NodeInv, RequestsSound, RequestSound
<1>15. RequestsSound'
  BY <1>8, <1>14 DEF NodeInv, RequestsSound, RequestSound
<1>16. TrustSound(store.trust)'
  BY <1>1, <1>6, <1>7, <1>8, <1>9, <1>14
     DEF NodeInv, StoreInv, IdentityKnown, TrustSound, LiveHubKeys, WellFormedHubKeys, WithState
<1>17. StoreLoads' /\ RotationSound' /\ ReenrollmentSound'
  BY <1>4, <1>7, <1>8, NodeAssumption DEF StoreLoads, RotationSound, ReenrollmentSound, Own
<1> QED
  BY <1>7, <1>12, <1>13, <1>15, <1>16, <1>17 DEF StoreKept, StoreInv

(* A key that is generated now is nobody's yet.                            *)
LEMMA FreshFacts ==
    ASSUME NodeInv, Own # NoNode, call = Idle, NEW k \in FreshKeys
    PROVE  /\ k \in MachineKeys /\ k # NoKey
           /\ nodeKey[Own][k].state = "absent"
           /\ k \notin {store.key, store.new, store.reenrolling}
           /\ Requests \subseteq stale /\ \A q \in Requests : k \notin {q.key, q.new}
<1>1. k \in MachineKeys /\ k # NoKey
  BY NodeAssumption DEF FreshKeys
<1>2. Requests \subseteq stale
  BY DEF Requests, Idle
<1> QED
  BY <1>1, <1>2, OwnFacts DEF FreshKeys, HeldKeys

(* A rotation: the pending key is on disk before the request.              *)
LEMMA RotationKept ==
    ASSUME NodeInv, NEW k \in MachineKeys, StartRotation(k)
    PROVE  StoreKept
<1>0. PICK q : q = [SignedBy(store.key, "rotate") EXCEPT !.new = k]
  OBVIOUS
<1>1. q.op = "rotate" /\ q.id = store.id /\ q.key = store.key /\ q.new = k
  BY <1>0 DEF SignedBy, NoRequest
<1>2. call = Idle /\ store.state = "active" /\ store.new = NoKey /\ k \in FreshKeys /\ UNCHANGED <<vars, stale>>
  BY DEF StartRotation
<1>3. Requests' \subseteq Requests \cup {q}
  BY <1>0, <1>2 DEF StartRotation, Send, Requests
<1>4. store.reenrolling = NoKey /\ Own # NoNode
  BY <1>2 DEF NodeInv, StoreLoads, Own
<1>5. /\ store'.state = store.state /\ store'.id = store.id /\ store'.key = store.key /\ store'.new = k
      /\ store'.enrolling = store.enrolling /\ store'.pairing = store.pairing
      /\ store'.reenrolling = NoKey /\ store'.trust = store.trust /\ store' \in Store
  BY <1>4 DEF StartRotation, NodeInv, NodeTypeOK, Store
<1>6. /\ k \in MachineKeys /\ nodeKey[Own][k].state = "absent" /\ k \notin {store.key, NoKey}
      /\ \A p \in Requests : k \notin {p.key, p.new}
  BY <1>2, <1>4, FreshFacts
<1>7. Own' = Own /\ OwnNodes' = OwnNodes /\ HeldKeys \subseteq HeldKeys'
  BY <1>2, <1>4, <1>5 DEF Own, OwnNodes, HeldKeys
<1>8. UNCHANGED <<now, token, node, nodeKey, hubKey, results, deletions>>
  BY <1>2 DEF vars
<1>9. StoreLoads'
  BY <1>2, <1>4, <1>5 DEF NodeInv, StoreLoads, WellFormedHubKeys, WithState
<1>10. RequestsSound'
  <2>1. ASSUME NEW p \in Requests PROVE RequestSound(p)'
    <3>1. RequestSound(p) /\ (p.op = "rotate" => p.new # store.new)
      BY <1>2, <2>1, NodeAssumption DEF NodeInv, RequestsSound, RequestSound
    <3> QED
      BY <1>4, <1>5, <1>7, <1>8, <3>1 DEF RequestSound
  <2>2. RequestSound(q)'
    BY <1>1, <1>4, <1>5, <1>6, <1>7, OwnFacts DEF RequestSound, Own
  <2> QED
    BY <1>3, <2>1, <2>2 DEF RequestsSound
<1>11. IdentityKnown' /\ ExpectedKeysHeld'
  BY <1>5, <1>7, <1>8 DEF NodeInv, StoreInv, IdentityKnown, ExpectedKeysHeld, Newest, KeyRows
<1>12. RotationSound' /\ ReenrollmentSound'
  BY <1>5, <1>6, <1>7, <1>8 DEF RotationSound, ReenrollmentSound
<1>13. TrustSound(store.trust)'
  BY <1>1, <1>3, <1>5, <1>7, <1>8
     DEF NodeInv, TrustsSound, TrustSound, LiveHubKeys, WellFormedHubKeys, WithState
<1> QED
  BY <1>5, <1>9, <1>10, <1>11, <1>12, <1>13 DEF StoreKept, StoreInv

(* A re-enrollment: the new key is on disk before the request.             *)
LEMMA ReenrollmentKept ==
    ASSUME NodeInv, NEW t \in Tokens, NEW k \in MachineKeys, StartReenroll(t, k)
    PROVE  StoreKept
<1>1. /\ call = Idle /\ store.state = "revoked" /\ UNCHANGED <<vars, stale>>
      /\ IF store.reenrolling = NoKey THEN k \in FreshKeys ELSE k = store.reenrolling
  BY DEF StartReenroll
<1>2. Own # NoNode
  BY <1>1 DEF NodeInv, StoreLoads, Own
<1>3. /\ k # NoKey /\ k \notin {store.key, store.new}
      /\ \A p \in Requests : k # p.key \/ p.op \notin {"heartbeat", "rotate", "report", "reenroll"}
  BY <1>1, <1>2, FreshFacts, NodeAssumption DEF NodeInv, StoreInv, RotationSound, ReenrollmentSound, RequestsSound, RequestSound
<1>4. PICK p \in {store.key, store.new} \ {NoKey} : Requests' \subseteq Requests \cup {ReenrollBy(p, t, k)}
  <2>1. store.key # NoKey
    BY <1>1 DEF NodeInv, StoreLoads
  <2>2. \E p \in {store.key, store.new} \ {NoKey} : call'.request = ReenrollBy(p, t, k)
    BY <2>1 DEF StartReenroll, Send
  <2> QED
    BY <1>1, <2>2 DEF Requests
<1>5. PICK q : q.op = "reenroll" /\ q.id = store.id /\ q.key = p /\ q.new = k /\ q.token = t
               /\ Requests' \subseteq Requests \cup {q}
  BY <1>4 DEF ReenrollBy, SignedBy, NoRequest
<1>6. /\ store'.state = store.state /\ store'.id = store.id /\ store'.key = store.key /\ store'.new = store.new
      /\ store'.enrolling = store.enrolling /\ store'.pairing = store.pairing
      /\ store'.reenrolling = k /\ store'.trust = store.trust /\ store' \in Store
  BY DEF StartReenroll, NodeInv, NodeTypeOK, Store
<1>7. Own' = Own /\ OwnNodes' = OwnNodes /\ HeldKeys \subseteq HeldKeys'
  BY <1>1, <1>6 DEF Own, OwnNodes, HeldKeys
<1>8. UNCHANGED <<now, token, node, nodeKey, hubKey, results, deletions>>
  BY <1>1 DEF vars
<1>9. StoreLoads'
  BY <1>1, <1>6 DEF NodeInv, StoreLoads, WellFormedHubKeys, WithState
<1>10. RequestsSound'
  <2>1. ASSUME NEW r \in Requests PROVE RequestSound(r)'
    <3>1. RequestSound(r)
      BY <2>1 DEF NodeInv, RequestsSound
    <3>2. r.op = "reenroll" => nodeKey[Own][r.new].state # "absent" \/ r.new = k
      BY <1>1, <3>1, NodeAssumption DEF RequestSound
    <3> QED
      BY <1>3, <1>6, <1>7, <1>8, <3>1, <3>2 DEF RequestSound
  <2>2. RequestSound(q)'
    BY <1>2, <1>3, <1>5, <1>6, <1>7, OwnFacts DEF RequestSound, Own
  <2> QED
    BY <1>5, <2>1, <2>2 DEF RequestsSound
<1>11. IdentityKnown' /\ ExpectedKeysHeld'
  BY <1>6, <1>7, <1>8 DEF NodeInv, StoreInv, IdentityKnown, ExpectedKeysHeld, Newest, KeyRows
<1>12. RotationSound'
  BY <1>3, <1>6, <1>7, <1>8 DEF NodeInv, StoreInv, RotationSound
<1>13. ReenrollmentSound'
  <2>1. CASE store.reenrolling = NoKey
    <3>1. nodeKey[Own][k].state = "absent"
      BY <1>1, <1>2, <2>1, FreshFacts
    <3> QED
      BY <1>3, <1>6, <1>7, <1>8, <3>1 DEF ReenrollmentSound
  <2>2. CASE store.reenrolling # NoKey
    <3>1. k = store.reenrolling
      BY <1>1, <2>2
    <3>2. \A r \in Requests' : r.op = "heartbeat" => r \in Requests
      BY <1>5
    <3> QED
      BY <1>6, <1>7, <1>8, <3>1, <3>2 DEF NodeInv, StoreInv, ReenrollmentSound
  <2> QED
    BY <2>1, <2>2
<1>14. TrustSound(store.trust)'
  BY <1>1, <1>6, <1>7, <1>8
     DEF NodeInv, TrustsSound, TrustSound, LiveHubKeys, WellFormedHubKeys, WithState
<1> QED
  BY <1>6, <1>9, <1>10, <1>11, <1>12, <1>13, <1>14 DEF StoreKept, StoreInv

-----------------------------------------------------------------------------
(* One pass of the client *)

Calls == [step : Steps, request : Request, reply : Reply]

(* A signed request of a node that has an identity.                        *)
LEMMA SignedRequests ==
    ASSUME NodeInv, Own # NoNode, NEW k \in {store.key, store.new} \ {NoKey}
    PROVE  /\ HeartbeatBy(k) \in Request /\ HeartbeatBy(k).op = "heartbeat" /\ HeartbeatBy(k).key = k
           /\ HeartbeatBy(k).accepted = LiveHubKeys(store.trust)
           /\ HeartbeatBy(k) # NoRequest
           /\ store.state = "active" => RequestSound(HeartbeatBy(k))
           /\ SignedBy(k, "report") \in Request /\ SignedBy(k, "report").op = "report"
           /\ SignedBy(k, "report") # NoRequest
           /\ store.state = "active" => RequestSound(SignedBy(k, "report"))
<1>1. k \in MachineKeys /\ Own \in NodeIds /\ LiveHubKeys(store.trust) \in SUBSET RouteKeys
  BY OwnFacts DEF LiveHubKeys
<1>2. store.state = "active" => store.reenrolling = NoKey
  BY DEF NodeInv, StoreLoads
<1>3. \A h \in LiveHubKeys(store.trust) : hubKey[Own][h].state # "absent"
  BY DEF NodeInv, TrustsSound, TrustSound
<1>4. PICK h : h = HeartbeatBy(k)
  OBVIOUS
<1>5. /\ h.op = "heartbeat" /\ h.id = Own /\ h.key = k /\ h.accepted = LiveHubKeys(store.trust) /\ h \in Request
      /\ h # NoRequest
  BY <1>1, <1>4 DEF HeartbeatBy, SignedBy, NoRequest, Request, Own
<1>6. store.state = "active" => RequestSound(h)
  BY <1>1, <1>2, <1>3, <1>5 DEF RequestSound, Own
<1>7. PICK r : r = SignedBy(k, "report")
  OBVIOUS
<1>8. r.op = "report" /\ r.id = Own /\ r.key = k /\ r \in Request /\ r # NoRequest
  BY <1>1, <1>7 DEF SignedBy, NoRequest, Request, Own
<1>9. store.state = "active" => RequestSound(r)
  BY <1>1, <1>2, <1>8 DEF RequestSound, Own
<1> QED
  BY <1>4, <1>5, <1>6, <1>7, <1>8, <1>9

LEMMA RestTypes ==
    /\ NoRequest \in Request /\ NoRequest.op = "none"
    /\ NoReply \in Reply /\ NoReply.code = "none"
<1>1. NoHubKey \in HubKeyRow
  BY DEF NoHubKey, HubKeyRow
<1>2. NoTrust \in [RouteKeys -> HubKeyRow]
  BY <1>1 DEF NoTrust
<1> QED
  BY <1>2 DEF NoRequest, Request, NoReply, Reply

(* An operation that ends leaves nothing to answer.                        *)
LEMMA FinishedCall ==
    ASSUME Finish
    PROVE  call' \in Calls /\ call'.reply.code # "ok" /\ CallSound' /\ Requests' \subseteq stale'
BY RestTypes DEF Finish, Idle, Calls, Steps, CallSound, Requests

LEMMA SentCall ==
    ASSUME NEW step \in Steps, NEW q \in Request, Send(step, q)
    PROVE  /\ call' \in Calls /\ call'.reply.code # "ok"
           /\ call'.step = step /\ call'.request = q /\ call'.reply.code = "none"
BY RestTypes DEF Send, Calls

(* A step of the client leaves the Hub alone; no answer waits after it.    *)
LEMMA ClientStep ==
    ASSUME NodeInv, UNCHANGED vars, StoreKept, stale' \subseteq Request,
           call' \in Calls, call'.reply.code # "ok", CallSound'
    PROVE  NodeInv'
<1>1. HubInv'
  BY UnchangedHubInv DEF NodeInv
<1>2. TrustsSound'
  BY DEF StoreKept, TrustsSound
<1> QED
  BY <1>1, <1>2 DEF NodeInv, NodeTypeOK, StoreKept, HubInv, Calls

(* An operation ends and the store stays as it is.                         *)
LEMMA EndStep ==
    ASSUME NodeInv, UNCHANGED <<vars, store>>, Finish, stale' \subseteq Requests
    PROVE  NodeInv'
<1>1. stale' \subseteq Request
  BY DEF NodeInv, NodeTypeOK, Requests
<1>2. Sends(NoRequest)
  BY FinishedCall DEF Sends, Requests
<1>3. StoreKept
  BY <1>2, RestTypes, SameStoreKept
<1> QED
  BY <1>1, <1>3, FinishedCall, ClientStep

(* A heartbeat is sent: by the tick, or as a probe.                        *)
LEMMA HeartbeatSentStep ==
    ASSUME NodeInv, UNCHANGED <<vars, store>>, store.state = "active", stale' \subseteq Requests,
           NEW step \in {"heartbeat", "probeNew", "probeOld"}, NEW k \in {store.key, store.new} \ {NoKey},
           step # "heartbeat" => store.new # NoKey, step = "probeNew" => k = store.new,
           Send(step, HeartbeatBy(k))
    PROVE  NodeInv'
<1>1. Own # NoNode
  BY DEF NodeInv, StoreLoads, Own
<1>2. PICK q : q = HeartbeatBy(k)
  OBVIOUS
<1>3. /\ q \in Request /\ q.op = "heartbeat" /\ q.key = k /\ q.accepted = LiveHubKeys(store.trust)
      /\ q # NoRequest /\ RequestSound(q)
  BY <1>1, <1>2, SignedRequests
<1>4. step \in Steps /\ Send(step, q)
  BY <1>2 DEF Steps
<1>5. /\ call' \in Calls /\ call'.reply.code # "ok"
      /\ call'.step = step /\ call'.request = q /\ call'.reply.code = "none"
  BY <1>3, <1>4, SentCall
<1>6. stale' \subseteq Request
  BY DEF NodeInv, NodeTypeOK, Requests
<1>7. Sends(q)
  BY <1>3, <1>5 DEF Sends, Requests
<1>8. StoreKept
  BY <1>3, <1>7, SameStoreKept
<1>9. CallSound'
  BY <1>3, <1>5 DEF CallSound
<1> QED
  BY <1>5, <1>6, <1>8, <1>9, ClientStep

(* The operations that send.                                               *)
LEMMA BootstrapStep ==
    ASSUME NodeInv, NEW op \in {"enroll", "pair"}, NEW t \in Tokens, NEW k \in MachineKeys,
           StartBootstrap(op, t, k)
    PROVE  NodeInv'
<1>1. PICK q : q = [NoRequest EXCEPT !.op = op, !.token = t, !.key = k, !.new = k]
  OBVIOUS
<1>2. q \in Request /\ q.op = op
  BY <1>1 DEF NoRequest, Request
<1>3. op \in Steps /\ Send(op, q) /\ store.state = "unenrolled" /\ UNCHANGED <<vars, stale>>
  BY <1>1 DEF StartBootstrap, Steps
<1>4. /\ call' \in Calls /\ call'.reply.code # "ok"
      /\ call'.step = op /\ call'.request = q /\ call'.reply.code = "none"
  BY <1>2, <1>3, SentCall
<1>5. store'.state = "unenrolled"
  <2>1. store \in Store
    BY DEF NodeInv, NodeTypeOK
  <2> QED
    BY <1>3, <2>1 DEF StartBootstrap, Store
<1>6. CallSound'
  BY <1>2, <1>4, <1>5 DEF CallSound
<1>7. stale' \subseteq Request
  BY <1>3 DEF NodeInv, NodeTypeOK
<1> QED
  BY <1>3, <1>4, <1>6, <1>7, BootstrapKept, ClientStep

LEMMA RotationStep ==
    ASSUME NodeInv, NEW k \in MachineKeys, StartRotation(k)
    PROVE  NodeInv'
<1>1. PICK q : q = [SignedBy(store.key, "rotate") EXCEPT !.new = k]
  OBVIOUS
<1>2. /\ store \in Store /\ store.state = "active" /\ UNCHANGED <<vars, stale>>
      /\ store' = [store EXCEPT !.new = k] /\ Send("rotate", q)
  BY <1>1 DEF StartRotation, NodeInv, NodeTypeOK
<1>3. q \in Request /\ q.op = "rotate" /\ q.new = k
  BY <1>1, <1>2 DEF SignedBy, NoRequest, Request, Store
<1>4. store'.state = "active" /\ store'.new = k /\ k # NoKey
  BY <1>2, NodeAssumption DEF Store
<1>5. /\ call' \in Calls /\ call'.reply.code # "ok"
      /\ call'.step = "rotate" /\ call'.request = q /\ call'.reply.code = "none"
  BY <1>2, <1>3, SentCall DEF Steps
<1>6. CallSound'
  BY <1>3, <1>4, <1>5 DEF CallSound
<1>7. stale' \subseteq Request
  BY <1>2 DEF NodeInv, NodeTypeOK
<1> QED
  BY <1>2, <1>5, <1>6, <1>7, RotationKept, ClientStep

LEMMA ReenrollmentStep ==
    ASSUME NodeInv, NEW t \in Tokens, NEW k \in MachineKeys, StartReenroll(t, k)
    PROVE  NodeInv'
<1>1. /\ store \in Store /\ store.state = "revoked" /\ UNCHANGED <<vars, stale>>
      /\ store' = [store EXCEPT !.reenrolling = k]
      /\ token[t].purpose = "reenroll" /\ token[t].bound = store.id
  BY DEF StartReenroll, NodeInv, NodeTypeOK
<1>2. PICK q, step : /\ q \in {ReenrollBy(store.new, t, k), ReenrollBy(store.key, t, k)}
                     /\ step \in {"reenrollNew", "reenrollCurrent"} /\ Send(step, q)
  BY DEF StartReenroll
<1>3. q \in Request /\ q.op = "reenroll" /\ q.new = k /\ q.token = t
  BY <1>1, <1>2 DEF ReenrollBy, SignedBy, NoRequest, Request, Store
<1>4. store'.state = "revoked" /\ store'.reenrolling = k /\ store'.id = store.id /\ k # NoKey
  BY <1>1, NodeAssumption DEF Store
<1>5. /\ call' \in Calls /\ call'.reply.code # "ok"
      /\ call'.step = step /\ call'.request = q /\ call'.reply.code = "none"
  BY <1>2, <1>3, SentCall DEF Steps
<1>6. token' = token /\ Own' = Own
  BY <1>1, <1>4 DEF vars, Own
<1>7. CallSound'
  BY <1>1, <1>2, <1>3, <1>4, <1>5, <1>6 DEF CallSound, Own
<1>8. stale' \subseteq Request
  BY <1>1 DEF NodeInv, NodeTypeOK
<1> QED
  BY <1>1, <1>5, <1>7, <1>8, ReenrollmentKept, ClientStep

-----------------------------------------------------------------------------
(* How a call goes on *)

(* The answer to a heartbeat gives a key set that is sound to trust.       *)
LEMMA TrustAfterSound ==
    ASSUME NodeInv, call.step \in {"heartbeat", "probeNew", "probeOld"}, call.reply.code = "ok"
    PROVE  TrustSound(TrustAfter(call.reply))
BY DEF NodeInv, TrustsSound, TrustAfter

(* The identity is revoked, the new key is in place, the re-enrollment is  *)
(* complete: the operation ends with the write of the store.               *)
LEMMA RevokedStep ==
    ASSUME NodeInv, UNCHANGED <<vars, stale>>, store.state = "active",
           store' = [store EXCEPT !.state = "revoked"], Finish
    PROVE  NodeInv'
<1>1. stale' \subseteq Request /\ Requests' \subseteq Requests
  BY FinishedCall DEF NodeInv, NodeTypeOK, Finish, Idle, Requests
<1>2. StoreKept
  BY <1>1, RevokedKept
<1> QED
  BY <1>1, <1>2, FinishedCall, ClientStep

LEMMA PromotedStep ==
    ASSUME NodeInv, UNCHANGED <<vars, stale>>, store.state = "active", store.new # NoKey,
           nodeKey[Own][store.new].state # "absent", store' = Promoted(store), Finish
    PROVE  NodeInv'
<1>1. stale' \subseteq Request /\ Requests' \subseteq Requests
  BY FinishedCall DEF NodeInv, NodeTypeOK, Finish, Idle, Requests
<1>2. StoreKept
  BY <1>1, PromotedKept
<1> QED
  BY <1>1, <1>2, FinishedCall, ClientStep

LEMMA BootstrapReturnsStep ==
    ASSUME NodeInv, UNCHANGED <<vars, stale>>, BootstrapReturns
    PROVE  NodeInv'
<1>1. CASE call.reply.code = "ok"
  <2>1. stale' \subseteq Request /\ Requests' \subseteq Requests
    BY FinishedCall DEF BootstrapReturns, NodeInv, NodeTypeOK, Finish, Idle, Requests
  <2>2. StoreKept
    BY <1>1, <2>1, AdoptedKept DEF BootstrapReturns
  <2> QED
    BY <2>1, <2>2, FinishedCall, ClientStep DEF BootstrapReturns
<1>2. CASE call.reply.code # "ok"
  BY <1>2, EndStep DEF Requests, BootstrapReturns
<1> QED
  BY <1>1, <1>2

LEMMA HeartbeatReturnsStep ==
    ASSUME NodeInv, UNCHANGED <<vars, stale>>, HeartbeatReturns
    PROVE  NodeInv'
<1>1. store.state = "active" /\ call.step = "heartbeat" /\ Finish
  BY DEF HeartbeatReturns, NodeInv, CallSound
<1>2. CASE call.reply.code = "ok"
  <2>1. PICK rows : rows = TrustAfter(call.reply)
    OBVIOUS
  <2>2. TrustSound(rows) /\ store' = [store EXCEPT !.trust = rows]
    BY <1>1, <1>2, <2>1, TrustAfterSound DEF HeartbeatReturns
  <2>3. stale' \subseteq Request /\ Sends(NoRequest)
    BY <1>1, FinishedCall DEF NodeInv, NodeTypeOK, Sends, Finish, Idle, Requests
  <2>4. StoreKept
    BY <1>1, <2>2, <2>3, RestTypes, TrustUpdateKept
  <2> QED
    BY <1>1, <2>3, <2>4, FinishedCall, ClientStep
<1>3. CASE call.reply.code = "revoked"
  BY <1>1, <1>3, RevokedStep DEF HeartbeatReturns
<1>4. CASE call.reply.code \notin {"ok", "revoked"}
  BY <1>1, <1>4, EndStep DEF Requests, HeartbeatReturns
<1> QED
  BY <1>2, <1>3, <1>4

LEMMA ReportReturnsStep ==
    ASSUME NodeInv, UNCHANGED <<vars, stale>>, ReportReturns
    PROVE  NodeInv'
BY RevokedStep, EndStep DEF Requests, ReportReturns, NodeInv, CallSound

LEMMA RotateReturnsStep ==
    ASSUME NodeInv, UNCHANGED <<vars, stale>>, RotateReturns
    PROVE  NodeInv'
<1>1. /\ store.state = "active" /\ store.new # NoKey /\ Finish
      /\ call.reply.code = "ok" => nodeKey[Own][store.new].state # "absent"
  BY DEF RotateReturns, NodeInv, CallSound
<1>2. CASE call.reply.code = "ok"
  BY <1>1, <1>2, PromotedStep DEF RotateReturns
<1>3. CASE call.reply.code = "revoked"
  BY <1>1, <1>3, RevokedStep DEF RotateReturns
<1>4. CASE call.reply.code \notin {"ok", "revoked"}
  BY <1>1, <1>4, EndStep DEF Requests, RotateReturns
<1> QED
  BY <1>2, <1>3, <1>4

LEMMA PromoteStep ==
    ASSUME NodeInv, Promote
    PROVE  NodeInv'
<1>1. store.state = "active" /\ store.new # NoKey /\ nodeKey[Own][store.new].state # "absent"
  BY DEF Promote, NodeInv, CallSound
<1> QED
  BY <1>1, PromotedStep DEF Promote

LEMMA ResubmitReturnsStep ==
    ASSUME NodeInv, UNCHANGED <<vars, stale>>, ResubmitReturns
    PROVE  NodeInv'
<1>1. /\ store.state = "active" /\ store.new # NoKey /\ Finish
      /\ call.reply.code = "ok" => nodeKey[Own][store.new].state # "absent"
  BY DEF ResubmitReturns, NodeInv, CallSound
<1>2. CASE call.reply.code = "ok"
  BY <1>1, <1>2, PromotedStep DEF ResubmitReturns
<1>3. CASE call.reply.code # "ok"
  BY <1>1, <1>3, EndStep DEF Requests, ResubmitReturns
<1> QED
  BY <1>2, <1>3

LEMMA ProbeNewReturnsStep ==
    ASSUME NodeInv, UNCHANGED <<vars, stale>>, ProbeNewReturns
    PROVE  NodeInv'
<1>1. /\ store.state = "active" /\ store.new # NoKey /\ store.key # NoKey /\ call.step = "probeNew"
      /\ call.reply.code = "ok" => nodeKey[Own][store.new].state # "absent"
  BY DEF ProbeNewReturns, NodeInv, CallSound, StoreLoads
<1>2. ASSUME call.reply.code = "ok", store' = [store EXCEPT !.trust = TrustAfter(call.reply)],
             call' = [Idle EXCEPT !.step = "promote"]
      PROVE  NodeInv'
  <2>1. PICK rows : rows = TrustAfter(call.reply)
    OBVIOUS
  <2>2. TrustSound(rows) /\ store' = [store EXCEPT !.trust = rows]
    BY <1>1, <1>2, <2>1, TrustAfterSound
  <2>3. /\ call'.step = "promote" /\ call'.request = NoRequest /\ call'.reply = NoReply
        /\ call' \in Calls
    BY <1>2, RestTypes DEF Idle, Calls, Steps
  <2>4. stale' \subseteq Request /\ Sends(NoRequest)
    BY <2>3 DEF NodeInv, NodeTypeOK, Sends, Requests
  <2>5. StoreKept
    BY <1>1, <2>2, <2>4, RestTypes, TrustUpdateKept
  <2>6. store'.state = "active" /\ store'.new = store.new /\ Own' = Own /\ nodeKey' = nodeKey
    BY <1>1, <2>2 DEF NodeInv, NodeTypeOK, Store, Own, vars
  <2>7. CallSound'
    BY <1>1, <1>2, <2>3, <2>6, RestTypes DEF CallSound
  <2> QED
    BY <2>3, <2>4, <2>5, <2>7, RestTypes, ClientStep
<1>3. ASSUME call.reply.code = "revoked", store' = [store EXCEPT !.state = "revoked"], Finish
      PROVE  NodeInv'
  BY <1>1, <1>3, RevokedStep
<1>4. ASSUME Send("probeOld", HeartbeatBy(store.key)), UNCHANGED store
      PROVE  NodeInv'
  BY <1>1, <1>4, HeartbeatSentStep DEF Requests
<1> QED
  BY <1>2, <1>3, <1>4 DEF ProbeNewReturns

LEMMA ProbeOldReturnsStep ==
    ASSUME NodeInv, UNCHANGED <<vars, stale>>, ProbeOldReturns
    PROVE  NodeInv'
<1>1. /\ store.state = "active" /\ store.new # NoKey /\ store.key # NoKey /\ call.step = "probeOld"
      /\ store.reenrolling = NoKey /\ store \in Store /\ Own # NoNode
  BY DEF ProbeOldReturns, NodeInv, CallSound, StoreLoads, NodeTypeOK, Own
<1>2. PICK q : q = [SignedBy(store.key, "rotate") EXCEPT !.new = store.new]
  OBVIOUS
<1>3. q \in Request /\ q.op = "rotate" /\ q.new = store.new /\ q.key = store.key /\ q.id = Own
  BY <1>1, <1>2 DEF SignedBy, NoRequest, Request, Store, Own
<1>4. ASSUME call.reply.code = "ok", store' = [store EXCEPT !.trust = TrustAfter(call.reply)], Send("resubmit", q)
      PROVE  NodeInv'
  <2>1. PICK rows : rows = TrustAfter(call.reply)
    OBVIOUS
  <2>2. TrustSound(rows) /\ store' = [store EXCEPT !.trust = rows]
    BY <1>1, <1>4, <2>1, TrustAfterSound
  <2>3. /\ call' \in Calls /\ call'.reply.code # "ok"
        /\ call'.step = "resubmit" /\ call'.request = q /\ call'.reply.code = "none"
    BY <1>3, <1>4, SentCall DEF Steps
  <2>4. stale' \subseteq Request /\ Sends(q)
    BY <2>3 DEF NodeInv, NodeTypeOK, Sends, Requests
  <2>5. RequestSound(q)
    BY <1>1, <1>3, OwnFacts DEF RequestSound
  <2>6. StoreKept
    BY <1>1, <1>3, <2>2, <2>4, <2>5, TrustUpdateKept
  <2>7. store'.state = "active" /\ store'.new = store.new
    BY <1>1, <2>2 DEF Store
  <2>8. CallSound'
    BY <1>1, <1>3, <2>3, <2>7 DEF CallSound
  <2> QED
    BY <2>3, <2>4, <2>6, <2>8, ClientStep
<1>5. ASSUME call.reply.code = "revoked", store' = [store EXCEPT !.state = "revoked"], Finish
      PROVE  NodeInv'
  BY <1>1, <1>5, RevokedStep
<1>6. ASSUME Finish, UNCHANGED store
      PROVE  NodeInv'
  BY <1>6, EndStep DEF Requests
<1> QED
  BY <1>2, <1>4, <1>5, <1>6 DEF ProbeOldReturns

LEMMA ReenrollReturnsStep ==
    ASSUME NodeInv, UNCHANGED <<vars, stale>>, ReenrollReturns
    PROVE  NodeInv'
<1>1. /\ store.state = "revoked" /\ store.reenrolling # NoKey /\ store.key # NoKey
      /\ call.request.op = "reenroll" /\ call.request.new = store.reenrolling
      /\ token[call.request.token].purpose = "reenroll" /\ token[call.request.token].bound = Own
      /\ call.reply.code = "ok" => nodeKey[Own][store.reenrolling].state # "absent"
  BY DEF ReenrollReturns, NodeInv, CallSound, StoreLoads
<1>2. ASSUME Send("reenrollCurrent", [call.request EXCEPT !.key = store.key]), UNCHANGED store
      PROVE  NodeInv'
  <2>1. call.request \in Requests /\ call.request \in Request /\ store \in Store
    BY <1>1 DEF Requests, NoRequest, NodeInv, NodeTypeOK
  <2>2. PICK q : q = [call.request EXCEPT !.key = store.key]
    OBVIOUS
  <2>3. /\ q \in Request /\ q.op = "reenroll" /\ q.new = call.request.new /\ q.token = call.request.token
        /\ q.id = call.request.id /\ q.key = store.key
    BY <1>1, <2>1, <2>2 DEF Request, Store
  <2>4. /\ call' \in Calls /\ call'.reply.code # "ok"
        /\ call'.step = "reenrollCurrent" /\ call'.request = q /\ call'.reply.code = "none"
    BY <1>2, <2>2, <2>3, SentCall DEF Steps
  <2>5. stale' \subseteq Request /\ Sends(q)
    BY <2>1, <2>4 DEF NodeInv, NodeTypeOK, Sends, Requests
  <2>6. RequestSound(q)
    <3>1. RequestSound(call.request) /\ store.key # store.reenrolling
      BY <1>1, <2>1 DEF NodeInv, RequestsSound, StoreInv, ReenrollmentSound
    <3>2. store.key \in MachineKeys
      BY <1>1, <3>1, OwnFacts DEF RequestSound
    <3> QED
      BY <1>1, <2>3, <3>1, <3>2 DEF RequestSound
  <2>7. StoreKept
    BY <1>2, <2>3, <2>5, <2>6, SameStoreKept
  <2>8. token' = token /\ Own' = Own
    BY <1>2 DEF vars, Own
  <2>9. CallSound'
    BY <1>1, <1>2, <2>3, <2>4, <2>8 DEF CallSound
  <2> QED
    BY <1>2, <2>4, <2>5, <2>7, <2>9, ClientStep
<1>3. ASSUME call.reply.code = "ok", store' = Reenrolled(store), Finish
      PROVE  NodeInv'
  <2>1. stale' \subseteq Request /\ Requests' \subseteq Requests
    BY <1>3, FinishedCall DEF NodeInv, NodeTypeOK, Finish, Idle, Requests
  <2>2. StoreKept
    BY <1>1, <1>3, <2>1, ReenrolledKept
  <2> QED
    BY <1>3, <2>1, <2>2, FinishedCall, ClientStep
<1>4. ASSUME Finish, UNCHANGED store
      PROVE  NodeInv'
  BY <1>4, EndStep DEF Requests
<1> QED
  BY <1>2, <1>3, <1>4 DEF ReenrollReturns

(* The call that fails, and the process that dies.                         *)
LEMMA FailureStep ==
    ASSUME NodeInv, NetworkFailure \/ Crash
    PROVE  NodeInv'
<1>1. stale' \subseteq Requests /\ UNCHANGED <<vars, store>>
  BY DEF NetworkFailure, Crash, Abandon, Requests
<1>2. CASE Finish
  BY <1>1, <1>2, EndStep DEF Requests
<1>3. CASE call.step = "probeNew" /\ Send("probeOld", HeartbeatBy(store.key))
  <2>1. store.state = "active" /\ store.new # NoKey /\ store.key # NoKey
    BY <1>3 DEF NodeInv, CallSound, StoreLoads
  <2> QED
    BY <1>1, <1>3, <2>1, HeartbeatSentStep
<1> QED
  BY <1>2, <1>3 DEF NetworkFailure, Crash

-----------------------------------------------------------------------------
(* The Hub's steps *)

(* The Hub answers the request of a call.                                  *)
LEMMA HubAnswersStep ==
    ASSUME NodeInv, HubAnswers
    PROVE  NodeInv'
<1>1. call.request \in Requests /\ HubHandles(call.request) /\ UNCHANGED <<store, stale>>
  BY DEF HubAnswers, Requests
<1>2. HubStep
  BY <1>1, HandlesHubStep
<1>3. HubInv'
  BY <1>2, HubInvStep DEF NodeInv, HubStep
<1>4. call' \in Calls /\ CallSound' /\ TrustsSound'
  BY <1>2, <1>3, AnswerStep DEF Calls
<1>5. Requests' = Requests
  BY <1>1 DEF HubAnswers, Requests, NodeInv, NodeTypeOK
<1>6. StoreInv' /\ RequestsSound'
  BY <1>1, <1>2, <1>3, <1>5, StoreInvHubStep, RequestsHubStep
<1>7. StoreLoads'
  BY <1>1 DEF NodeInv, StoreLoads, WellFormedHubKeys, WithState
<1> QED
  BY <1>1, <1>3, <1>4, <1>6, <1>7 DEF NodeInv, NodeTypeOK, HubInv, Calls

(* The Hub moves and the client notices nothing: a late request, an        *)
(* operator, the maintenance sweep or the clock.                           *)
LEMMA UnseenHubStep ==
    ASSUME NodeInv, HubStep, UNCHANGED <<store, call>>, stale' \subseteq stale
    PROVE  NodeInv'
<1>1. HubInv'
  BY HubInvStep DEF NodeInv, HubStep
<1>2. Requests' \subseteq Requests
  BY DEF Requests
<1>3. StoreInv' /\ RequestsSound' /\ CallSound'
  BY <1>1, <1>2, StoreInvHubStep, RequestsHubStep, CallHubStep
<1>4. StoreLoads'
  BY DEF NodeInv, StoreLoads, WellFormedHubKeys, WithState
<1>5. TrustsSound'
  <2>1. PICK rows, answered : rows = store.trust /\ answered = call.reply.trust
    OBVIOUS
  <2>2. TrustSound(rows)'
    BY <1>1, <1>2, <2>1, TrustHubStep DEF NodeInv, TrustsSound
  <2>3. TrustSound(answered) => TrustSound(answered)'
    BY <1>1, <1>2, TrustHubStep
  <2> QED
    BY <2>1, <2>2, <2>3 DEF NodeInv, TrustsSound
<1> QED
  BY <1>1, <1>3, <1>4, <1>5 DEF NodeInv, NodeTypeOK, HubInv

LEMMA LateRequestStep ==
    ASSUME NodeInv, HubHandlesStale
    PROVE  NodeInv'
<1>1. PICK q \in stale : HubHandles(q) /\ stale' = stale \ {q} /\ UNCHANGED <<store, call>>
  BY DEF HubHandlesStale
<1>2. HubStep
  BY <1>1, HandlesHubStep DEF Requests
<1> QED
  BY <1>1, <1>2, UnseenHubStep

-----------------------------------------------------------------------------
(* The theorems *)

LEMMA NodeInvInit == NodeInit => NodeInv
<1> SUFFICES ASSUME NodeInit PROVE NodeInv
  OBVIOUS
<1>1. /\ Init /\ call = Idle /\ stale = {}
      /\ store.state = "unenrolled" /\ store.id = NoNode /\ store.key = NoKey /\ store.new = NoKey
      /\ store.enrolling = NoKey /\ store.pairing = NoKey /\ store.reenrolling = NoKey /\ store.trust = NoTrust
  BY DEF NodeInit
<1>2. Requests = {} /\ Own = NoNode
  BY <1>1 DEF Requests, Idle, Own
<1>3. TypeOK
  BY <1>1 DEF Init, TypeOK, NoToken, NoNodeKey, NoHubKey, TokenRow, NodeKeyRow, HubKeyRow
<1>4. /\ \A n \in NodeIds : node[n] = "absent"
      /\ \A n \in NodeIds, k \in MachineKeys : nodeKey[n][k].state = "absent"
      /\ \A n \in NodeIds, h \in RouteKeys : hubKey[n][h].state = "absent"
      /\ \A t \in Tokens : token[t].consumedBy = NoNode
      /\ results = {}
  BY <1>1 DEF Init, NoToken, NoNodeKey, NoHubKey
<1>5. HubInv
  <2>1. AbsentHasNoKeys /\ RowsOrdered /\ ResultsKnown
    BY <1>4 DEF AbsentHasNoKeys, RowsOrdered, KeyRows, ResultsKnown
  <2>2. TombstoneHoldsNoLiveKey /\ HubKeySetWellFormed
    BY <1>4 DEF TombstoneHoldsNoLiveKey, HubKeySetWellFormed, WellFormedHubKeys, WithState, LiveHubKeys
  <2>3. IdentityInv
    BY <1>4 DEF IdentityInv, ConsumedSound, TokenYieldsOneIdentity
  <2> QED
    BY <1>3, <2>1, <2>2, <2>3 DEF HubInv
<1>6. NoHubKey \in HubKeyRow /\ NoHubKey.state = "absent"
  BY DEF NoHubKey, HubKeyRow
<1>7. NoTrust \in [RouteKeys -> HubKeyRow] /\ WellFormedHubKeys(NoTrust) /\ LiveHubKeys(NoTrust) = {}
  BY <1>6 DEF NoTrust, WellFormedHubKeys, WithState, LiveHubKeys
<1>8. store \in Store
  BY <1>7 DEF NodeInit, Store
<1>9. NodeTypeOK /\ StoreLoads
  BY <1>1, <1>3, <1>8, RestTypes DEF NodeTypeOK, StoreLoads, Idle, Steps
<1>10. IdentityKnown /\ ExpectedKeysHeld /\ RotationSound /\ ReenrollmentSound
  <2>1. OwnNodes = NodeIds
    BY <1>1 DEF OwnNodes
  <2>2. IdentityKnown
    BY <1>2, <1>4 DEF IdentityKnown, KeyRows
  <2>3. ExpectedKeysHeld
    BY <1>4, <2>1 DEF ExpectedKeysHeld, Newest, KeyRows
  <2> QED
    BY <1>1, <2>2, <2>3 DEF RotationSound, ReenrollmentSound
<1>11. RequestsSound /\ CallSound
  BY <1>1, <1>2 DEF RequestsSound, CallSound, Idle
<1>12. TrustsSound
  BY <1>1, <1>2, <1>7 DEF TrustsSound, TrustSound, Idle
<1> QED
  BY <1>5, <1>9, <1>10, <1>11, <1>12 DEF NodeInv, StoreInv

LEMMA NodeInvStep == NodeInv /\ [NodeNext]_allVars => NodeInv'
<1> SUFFICES ASSUME NodeInv, [NodeNext]_allVars PROVE NodeInv'
  OBVIOUS
<1>1. ASSUME NEW op \in {"enroll", "pair"}, NEW t \in Tokens, NEW k \in MachineKeys, StartBootstrap(op, t, k)
      PROVE  NodeInv'
  BY <1>1, BootstrapStep
<1>2. CASE NodeTick
  <2>1. store.state = "active" /\ store.key # NoKey /\ UNCHANGED <<vars, store, stale>>
    BY <1>2 DEF NodeTick, NodeInv, StoreLoads
  <2>2. CASE store.new # NoKey /\ Send("probeNew", HeartbeatBy(store.new))
    BY <2>1, <2>2, HeartbeatSentStep DEF Requests
  <2>3. CASE Send("heartbeat", HeartbeatBy(store.key))
    BY <2>1, <2>3, HeartbeatSentStep DEF Requests
  <2> QED
    BY <1>2, <2>2, <2>3 DEF NodeTick
<1>3. ASSUME NEW k \in MachineKeys, StartRotation(k) PROVE NodeInv'
  BY <1>3, RotationStep
<1>4. CASE UploadReport
  <2>1. store.state = "active" /\ store.key # NoKey /\ Own # NoNode /\ UNCHANGED <<vars, store, stale>>
    BY <1>4 DEF UploadReport, NodeInv, StoreLoads, Own
  <2>2. PICK q : q = SignedBy(store.key, "report")
    OBVIOUS
  <2>3. q \in Request /\ q.op = "report" /\ q # NoRequest /\ RequestSound(q)
    BY <2>1, <2>2, SignedRequests
  <2>4. /\ call' \in Calls /\ call'.reply.code # "ok"
        /\ call'.step = "report" /\ call'.request = q /\ call'.reply.code = "none"
    BY <1>4, <2>2, <2>3, SentCall DEF Steps, UploadReport
  <2>5. Sends(q) /\ stale' \subseteq Request
    BY <2>1, <2>3, <2>4 DEF Sends, Requests, NodeInv, NodeTypeOK
  <2>6. StoreKept
    BY <2>1, <2>3, <2>5, SameStoreKept
  <2>7. CallSound'
    BY <2>1, <2>3, <2>4 DEF CallSound
  <2> QED
    BY <2>1, <2>4, <2>5, <2>6, <2>7, ClientStep
<1>5. ASSUME NEW t \in Tokens, NEW k \in MachineKeys, StartReenroll(t, k) PROVE NodeInv'
  BY <1>5, ReenrollmentStep
<1>6. CASE HubAnswers
  BY <1>6, HubAnswersStep
<1>7. CASE HubHandlesStale
  BY <1>7, LateRequestStep
<1>8. CASE Returns
  BY <1>8, BootstrapReturnsStep, HeartbeatReturnsStep, ReportReturnsStep, RotateReturnsStep,
     ProbeNewReturnsStep, ProbeOldReturnsStep, ResubmitReturnsStep, ReenrollReturnsStep DEF Returns
<1>9. CASE Promote
  BY <1>9, PromoteStep
<1>10. CASE NetworkFailure \/ Crash
  BY <1>10, FailureStep
<1>11. CASE Operator \/ Time
  <2>1. UNCHANGED nodeVars
    BY <1>11 DEF Operator, Time
  <2> QED
    BY <1>11, <2>1, OperatorHubStep, UnseenHubStep DEF nodeVars
<1>12. CASE UNCHANGED allVars
  <2>1. UNCHANGED vars /\ UNCHANGED <<store, call, stale>>
    BY <1>12 DEF allVars, vars
  <2>2. HubStep
    BY <2>1, UnchangedMoves, QuietHubStep
  <2> QED
    BY <2>1, <2>2, UnseenHubStep
<1> QED
  BY <1>1, <1>2, <1>3, <1>4, <1>5, <1>6, <1>7, <1>8, <1>9, <1>10, <1>11, <1>12 DEF NodeNext

THEOREM NodeInvCorrect == NodeSpec => []NodeInv
BY NodeInvInit, NodeInvStep, PTL DEF NodeSpec

(* Whatever the client sends, loses or repeats, and however late it        *)
(* arrives, the registry makes only the transactions of its own            *)
(* specification: everything proved of HubRegistry holds of the            *)
(* composition.                                                            *)
THEOREM NodeImplementsRegistry == NodeSpec => Spec
<1>1. NodeInit => Init
  BY DEF NodeInit
<1>2. NodeInv /\ [NodeNext]_allVars => [Next]_vars
  <2> SUFFICES ASSUME NodeInv, [NodeNext]_allVars PROVE [Next]_vars
    OBVIOUS
  <2>1. CASE HubAnswers \/ HubHandlesStale
    <3>1. PICK q \in Requests : HubHandles(q)
      BY <2>1 DEF HubAnswers, HubHandlesStale, Requests
    <3> QED
      BY <3>1, HandlesHubStep DEF HubStep
  <2>2. CASE Operator \/ Time
    BY <2>2, OperatorHubStep DEF HubStep
  <2>3. CASE UNCHANGED vars
    BY <2>3
  <2>4. CASE UNCHANGED allVars
    BY <2>4 DEF allVars, vars
  <2> QED
    BY <2>1, <2>2, <2>3, <2>4
       DEF NodeNext, StartBootstrap, NodeTick, StartRotation, UploadReport, StartReenroll, Returns, Promote,
           NetworkFailure, Crash
<1> QED
  BY <1>1, <1>2, NodeInvCorrect, PTL DEF NodeSpec, Spec

(* The store is well typed and the next start loads it, wherever the       *)
(* process died (validateNodeStore).                                       *)
THEOREM StoreSoundCorrect == NodeSpec => []StoreSound
<1>1. NodeInv => StoreSound
  BY DEF NodeInv, StoreSound
<1> QED
  BY <1>1, NodeInvCorrect, PTL

(* The node holds every key the Hub accepts without a deadline, and the    *)
(* key a tombstone expects the possession proof from.                      *)
THEOREM KeyNeverLostCorrect == NodeSpec => []KeyNeverLost
<1>1. NodeInv => IdentityNeverOrphaned
  BY DEF NodeInv, StoreInv, ExpectedKeysHeld, IdentityNeverOrphaned
<1>2. NodeInv => TombstoneKeyHeld
  <2> SUFFICES ASSUME NodeInv, NEW n \in OwnNodes, node[n] = "tombstoned",
                      NEW k \in MachineKeys, IsHistoricalKey(n, k)
               PROVE  k \in HeldKeys
    BY DEF TombstoneKeyHeld
  <2>1. n \in NodeIds
    BY OwnFacts DEF OwnNodes, Own
  <2>2. \A j \in MachineKeys : nodeKey[n][j].state \in {"absent", "revoked"}
    BY <2>1 DEF NodeInv, HubInv, TombstoneHoldsNoLiveKey, TypeOK, NodeKeyRow
  <2>3. Newest(n, k)
    BY <2>2 DEF IsHistoricalKey, Newest, KeyRows
  <2> QED
    BY <2>3 DEF NodeInv, StoreInv, ExpectedKeysHeld
<1> QED
  BY <1>1, <1>2, NodeInvCorrect, PTL DEF KeyNeverLost

(* The Hub signs route traffic only with a key the node has durably        *)
(* stored, and no route key of a deleted era stays trusted.                *)
THEOREM SigningKeyDurablyKnownCorrect == NodeSpec => []SigningKeyDurablyKnown
<1>1. NodeInv => SigningKeyDurablyKnown
  <2> SUFFICES ASSUME NodeInv, store.state = "active", node[store.id] = "active"
               PROVE  /\ SigningKeys(hubKey[store.id]) \subseteq LiveHubKeys(store.trust)
                      /\ KeyUsable(store.id, store.key) =>
                            \A h \in LiveHubKeys(store.trust) :
                               hubKey[store.id][h].state = "revoked" => hubKey[store.id][h].revokeAfter # Never
    BY DEF SigningKeyDurablyKnown
  <2>1. Own # NoNode /\ Own = store.id
    BY DEF NodeInv, StoreLoads, Own
  <2>2. TrustSound(store.trust)
    BY DEF NodeInv, TrustsSound
  <2>3. PICK rows : rows = hubKey[Own]
    OBVIOUS
  <2>4. WellFormedHubKeys(rows)
    BY <2>1, <2>3, OwnFacts DEF NodeInv, HubInv, HubKeySetWellFormed
  <2>5. SigningKeys(rows) = WithState(rows, "active")
    BY <2>4, SigningIsActive
  <2>6. SigningKeys(hubKey[store.id]) \subseteq LiveHubKeys(store.trust)
    BY <2>1, <2>2, <2>3, <2>5 DEF TrustSound, WithState
  <2>7. ASSUME KeyUsable(store.id, store.key), NEW h \in LiveHubKeys(store.trust),
               hubKey[store.id][h].state = "revoked"
        PROVE  hubKey[store.id][h].revokeAfter # Never
    BY <2>1, <2>2, <2>7, OwnFacts DEF TrustSound, KeyUsable
  <2> QED
    BY <2>6, <2>7
<1> QED
  BY <1>1, NodeInvCorrect, PTL
=============================================================================
