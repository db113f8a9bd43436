# DSH Orbit: TLA+ models, checks and proofs

DSH Orbit is a Hub and a fleet of nodes. The Hub keeps a SQLite registry of node identities,
credentials and route keys, authenticates every machine request, routes browser traffic to nodes and
runs jobs on them. A node keeps a small store file, calls the Hub's machine API, and, behind NAT, dials
out and keeps a reverse connection open. This directory models the parts of that system whose
correctness depends on the order of events: credential lifecycles across lost answers and crashes,
replay protection, the reverse connection with its generations and data channels, the direct route with its relays,
evidence and reachability that age, pairing codes and sessions, jobs and schedules, competing upgrade runners, and a restore
that dies half way.

Source paths below are relative to the repository root. `PROJECT.json` maps each definition to the lines
it stands for.

## 1. Inventory

| Part | State | Operations | What is hard | What makes it correct |
| --- | --- | --- | --- | --- |
| Registry identity (`src/registry/registry.mjs`, `hub-route-keys.mjs`, `sqlite.mjs`) | tokens, nodes, machine keys, Hub route keys, recorded results, audit of deletions | mint, enroll, pair, re-enroll, heartbeat with acknowledgment, rotate machine key, rotate Hub route key, delete, sweeps | deadlines that a periodic sweep enforces and other operations read, replays after a lost answer, deletion between two steps of a rotation | an active node always has a usable key; one identity per token; a tombstone has no live key and can be recovered; the set of route keys stays one the node accepts; the signing key never jumps to one the node has not acknowledged |
| Machine authentication (`registry.mjs` `authenticateMachine`, `reserveNonce`) | nonce reservations | verify, reserve, purge | reservation purged while a time stamp is still in the window | each signed request takes effect at most once |
| Node client (`src/node/client.mjs`, `store.mjs`, `bin/dsh-orbit-node.mjs`) | the store file, the call in progress | enroll, pair, tick, rotate and recover, report, re-enroll, restart | lost answers, requests that arrive after the client gave up, a crash between any two steps | the node never loses the key the Hub knows; the stored file always loads; a pending rotation resolves |
| Reverse control (`src/registry/reverse-session.mjs`, `src/node/reverse-client.mjs`) | sessions by node, pending set; socket, timers and session of the client | upgrade, ready, status, close, timeouts; connect, probe, poll, reconnect, stop | handlers suspended at an `await` that resume on another connection, late events of old generations, silent cuts | one ready generation; late events change nothing; the node settles online |
| Reverse channels (`src/registry/reverse-channel.mjs`, `src/node/reverse-channels.mjs`) | channel pool, flow on each channel, waiting assignments | register, assign, open, response, body, idle, close, stall | teardown from either side at any step, capacity wait against a closing session | a channel carries one flow and is reused only after both sides are done; no waiter is forgotten; every flow ends |
| Fleet jobs (`src/registry/fleet-scheduler.mjs`) | jobs, results per node, worker pool | submit, dispatch, result, timeout, cancel | cancellation against dispatches in flight | every target is accounted for exactly once |
| Schedules (`schedule-engine.mjs`, `schedule-parser.mjs`) | schedules and runs in SQLite, evaluation timer | create, pause, resume, trigger, evaluate, reconcile at start, delete | restart between dispatch and outcome, overlap policy, run limits | due schedules run, once each, within their limits |
| Operator pairing (`pairing-code.mjs`, `server.mjs`) | codes, tokens, attempts by address, request windows | generate, verify, expire, lock out, purge | removal timers against reused codes, lockout windows, windows purged under pressure | a record admits once, in time; guesses and requests are bounded |
| Browser sessions (`registry.mjs`, `server.mjs`) | session rows, their audit | bootstrap, request, log out, sweep | a sliding idle limit inside an absolute one, a sweep beside requests | no session outlives its limits or comes back; each expiry is audited once |
| Capability evidence (`capabilities.mjs`, `registry.mjs`) | heartbeat facts, reports, stale flag, contact state | heartbeat, upload, reconcile, age | evidence of one runtime applied to another; a clock set back; five statements that write the same columns | capabilities are only claimed with evidence for the running version, and evidence only ages |
| Routing and probes (`registry.mjs`, `route-probe.mjs`, `scheduler.mjs`, `selector-view.mjs`) | target, mode, key, probe results, failure count | set target, set mode, probe, admit | a probe result recorded after its context changed; a probe that never settles | a result counts only for the context it was measured in; what is shown is what is routed |
| Route authentication (`route-auth.mjs`) | nonce cache, accepted keys | verify, reserve, purge, restart | a time stamp from the future against retention | no signed request is accepted twice; foreign ones leave no trace |
| Flow tracker, route proxy and ingress (`flow-tracker.mjs`, `route-proxy.mjs`, `src/node/route-ingress.mjs`) | open flows and slots at Hub and node, sockets of each relay | admit, dial, join, answer, tear down | close, error and end events of three connections in any order | slots are the sockets that are open; a joined upgrade falls as one; dials end |
| Backup and restore (`backup.mjs`) | database, write-ahead log, image, staged copy, quarantine | back up beside a running Hub, restore file by file, put back | a failure or a kill between two renames | an image is a committed state; a restore reads as its image; no replaced file is lost |
| Upgrade runner (`src/upgrade-runner.mjs`, `snapshot-contract.mjs`, `compatibility-report.mjs`) | working directory, compose project, checks, evidence file | candidate, verify, report | several runners on one directory and one project, failure or death in any step | what is called eligible has its own snapshot and met its own stack |
| Server, framing, migrations, patches, plugin, UI | requests, bytes, text | input and output | | not modelled, see section 8 |

Interactions: the node calls the Hub over HTTPS (heartbeat, rotate, ...), the Hub answers with the set of
its route keys, the node stores it and acknowledges it with the next heartbeat. The reverse connection is
authenticated with the same machine keys; deleting a node or revoking a key closes its sessions. Browser
requests are signed by the Hub with a route key and verified by the node against the stored set. Schedules
submit fleet jobs, jobs ask the session manager whether a node is reachable.

## 2. Modules

| Module | Models | Uses |
| --- | --- | --- |
| `HubRegistry` | identity tables of the Hub and every operation that changes them | |
| `MachineAuth` | time window and nonce reservation of signed requests | |
| `NodeIdentity` | node client and store, over an unreliable network, against the registry | `HubRegistry` |
| `ReverseControl` | session manager and reverse client, over TCP connections | |
| `JobLifecycle` | what a fleet job promises, however it is dispatched | |
| `FleetJobs` | the job scheduler, shown to implement `JobLifecycle` | `JobLifecycle` |
| `FleetSchedules` | the schedule engine over jobs that keep that promise | |
| `ReverseChannels` | channel manager of the Hub and channel pool of the node, over the sockets between them | |
| `FlowControl` | the queues of one HTTP body on a reverse channel, in either direction | |
| `NodeEvidence` | heartbeats, reports and the claims derived from them | |
| `RouteReach` | route target and mode, probes in flight, admission of a request and its display | |
| `RouteAuth` | the node's check of a routed request | |
| `DirectRoutes` | the two relays of the direct route, their slots and their sockets | |
| `PairingCodes`, `RateLimiter`, `OperatorSessions` | how an operator gets in and how long that lasts | |
| `UpgradeRunner` | upgrade runners that share a directory and a compose project | |
| `BackupRestore` | backup and restore between the awaits, beside the Hub | |
| `MCServices` | `MachineAuth` and the nine modules from `NodeEvidence` on, which share no state | all of them |
| `MCBrowserFlows` | both transports of a browser flow and the queues of a channel, for liveness | `ReverseChannels`, `DirectRoutes`, `FlowControl` |
| `IdentityProofs` | theorems about the registry, and about the node beside it | `HubRegistry`, `NodeIdentity` |
| `ReverseControlProofs`, `ReverseChannelsProofs`, `FleetJobsProofs`, `FleetSchedulesProofs` | theorems about the module they are named after | that module |
| `ServicesProofs` | theorems about machine and route authentication, rate limiter, pairing, sessions, backup and upgrade runner | those seven modules |
| `RoutingProofs` | theorems about evidence, reachability, direct flows and the queues of a body | `NodeEvidence`, `RouteReach`, `DirectRoutes`, `FlowControl` |
| `Instants` | facts about instants that several of these proofs need | |
| other `MC...` | instances for TLC | the module they are named after |

Operators whose comment begins with "Mutant" are variants of an operation with a plausible defect; they
are used only to confirm that a property can fail.

### HubRegistry

`token`, `node`, `nodeKey`, `hubKey`, `results` and `deletions` are the rows of the tables `enrollment_tokens`,
`nodes`, `node_keys`, `hub_route_keys`, `idempotency` results and the delete records of `audit`; `now` is the
clock. Times are small integers, `Never` is SQL NULL. One action is one `BEGIN IMMEDIATE` transaction:
`MintEnrollmentToken`, `Enroll`, `Pair`, `Reenroll`, `Heartbeat` (with `ensureHubRouteKey` and
`acknowledgeHubRouteKeys`), `RotateCredential`, `RotateHubRouteKey`, `DeleteNode`, `Maintenance`, and `Tick` for time. `Maintenance`
and `Tick` are separate: operations may run any time between a deadline and its sweep.

### MachineAuth

A request is signed once with a time stamp and may be delivered any number of times at any time. A delivery
passes if the time stamp is within the skew of the Hub's clock on both sides and the nonce is not reserved;
the reservation and the effect are two steps, with a denial or a crash possible between them. `PurgeNonces`
drops old reservations.

### NodeIdentity

`store` is the persisted file (each write is one rename), `call` the operation in progress with its request and
reply, `stale` requests whose call has ended but which may still arrive. `HubAnswers` runs the registry's
transaction and the answer is read by the `...Returns` action of the step; `NetworkFailure` and `Crash` end a call at
any point. The multi-request operations (recovery of a rotation: probe with the new key, probe with the old
key, resubmit, promote; re-enrollment with the pending or the current key) are steps of one call.

### ReverseControl

`mgr` is the manager's state for one node (`sess`, `current`, `pending`, frames it has sent), `client` the fields of
the reverse client, `awaits` its suspended calls, `conn`/`cut`/`toHub` the connections. The code after an `await` is
an action of its own (`SessionProbed`, `PollProbed`) that uses the client's fields as they are then. A first frame
may arrive in the same chunk as the upgrade request (`head`). A connection may be refused, closed by either side, or
cut silently (`Sever`); only the Hub has a ping. Switching to direct mode and back (`Stop`, `StartReverseTransport`) builds
a new client object.

### JobLifecycle and FleetJobs

`JobLifecycle` has a status, an outcome for each target and whether the end was reported. Its `Promise` is that outcomes
and the end never change, that the status is the verdict on the outcomes, and that every accepted job ends and is reported.

In `FleetJobs`, `status`, `result`, `summary`, `queue` and `aborted` are the fields of the job in `fleet-scheduler.mjs`;
`flight` is the set of dispatches the workers await, `calls` the set of transport calls that still run: a call that lost
the race with its timer stays in `calls`. JavaScript runs to completion between awaits, so `SubmitJob` includes the
start of the pool (`StartPool`), and `TransportAnswers` and `TaskTimeout` include `dispatchNext`, the next turn of the worker
(`WorkerLoops`) and, for the last worker, the reconciliation and the report (`WorkersAwait`). `CancelJob` marks the open
targets failed and aborts; the workers come to their end later. The refinement maps `outcome` to `result` and `told` to the
jobs with a report.

### FleetSchedules

`sched` is the table of schedules, which survives a crash; `job` is what the process knows of the jobs of schedules, which
does not; `engine` is down, created or running, and `todo` is what is left of the loop of `reconcileOnStartup`. One action is
one synchronous run of a handler: `EvaluateDueSchedules` for one due schedule, `ReconcileOnStartup` for one missed one,
`TriggerRun`, `CreateSchedule`, `PauseSchedule`, `ResumeSchedule`, `DeleteSchedule`; `DispatchScheduleRun`, `Counted` and `Advanced`
are the code they share. `CrashInDispatch` is the death of the process between the submission of the job and the write of the
schedule's row. A job is taken as `JobLifecycle` has it: it ends at some time, and a cancelled one has a final status
before it is reported. `sent` is an auxiliary variable: the jobs submitted for the present `next_run_at`. The rows
of the run log are left out, because the engine never reads them.

### ReverseChannels

`mgr` is the Hub's channel manager for one node: the state, the session generation and the holder of each channel, the stage of
each flow (waiting, sending, awaiting, streaming, draining, over) and the frames on their way to the node; `node` is the pool of the node
with what DSH has done on each channel. One step is one turn of the event loop with the microtasks it leaves: an idle report and the
claim of the waiter it wakes are one step. `Fail` and `Abort` close the channel a flow was given, whoever leases it now, as the code
does. Sessions come, are superseded and are lost; each side may close a socket, DSH and browsers may go, proofs and dials may be
refused (`MaxTrouble` times by themselves). Socket.destroy() may overtake data, so `Fin` may pass the frames before it.

### FlowControl

Quantities are frames. Down, a frame passes the DSH response, the node's write queue, the connection, the body queue of the Hub's
`Flow` and the reader of the browser's response; up, the Hub's write queue with its `waitDrain`, the connection, the pending bytes of
the node and the request queue towards DSH. `DshGives`, `NodeWrites`, `HubReads`, `BrowserTakes`, `HubWrites`, `HubSends`, `NodeReads`, `DshTakes` move one
frame each, with the pause, resume or drain that the code attaches to it. `ConsumerRests` is half a minute in which the consumer takes nothing; the stall
timers fire on it. The queues of an upgraded WebSocket follow the same marks and are not modelled.

### NodeEvidence

`evRow` holds the evidence columns of a node's row, `evReports` its reports in order of id. `Heartbeat`, `UploadReport`,
`Maintenance` (contact ageing, reconciliation, purge), `HubStarts`, `DeleteNode` and `Reenroll` are the statements that write them. Time stamps are
kept as ages: `EvTick` makes everything older, `ClockBack` sets the wall clock back and makes everything younger, down to one
unit in the future.

### RouteReach

`rt` holds the route columns; `rtProbe` the request in flight together with the target and key it was sent with. `ProbeNode` sends,
`ProbeAnswered` records (the context is compared first), `ProbeCutShort` is an answer that breaks off in its body. `rtJudged` is an
auxiliary variable: the targets whose answers the present verdict rests on. Session and evidence of the node are free
inputs of the admission, because they come from the session manager and from `NodeEvidence`.

### RouteAuth

`SignRouteRequest` chooses any time stamp, since the clocks of Hub and node are not the same; `VerifyRouteRequest` is
the whole check of a signed request, any number of times; `RejectForeign` that of a request the Hub has not signed, which ends
before the cache is touched. The cache is lost when the node restarts.

### DirectRoutes

Hub and ingress are two instances of one relay: `Dials`, `RelayHead`, `RelayEnd`, `RelayFails`, `RelayCut`, `RelayTorn`, `RelayClientGone`,
`RelayIdle` and `RelayDrained` are the handlers of its sockets. An end of a connection is open until its owner closes it; the other
owner learns of that by a step of its own, so that any order of close, error and end events occurs. `drHub`, `drIngress` and
`drActive` are the counters as the trackers keep them, by increment and decrement.

### PairingCodes, RateLimiter, OperatorSessions

`PairingCodes` numbers the records and lets the random code of a record be one that another live record carries; each record
has a timer that fires some time after it is due and deletes by code and by token. `RateLimiter` is the sliding window with its purge
of idle keys. `OperatorSessions` has the session rows: a request slides the idle limit before it compares the principal, the sweep
writes the audit.

### UpgradeRunner

`upFiles` is the working directory (override, certificate, manifest, evidence), `upStack` what runs in the compose project, `upRuns`
the processes with what they hold in memory. The name of a runner stands for what it draws at random: token, snapshot identifier,
certificate. One action is one step between awaits of `runCandidateWorkflow` or `runVerifyWorkflow`; a throw or a kill
(`Aborts`) is possible at each. `crowded` marks a run during which another runner has brought the project up.

### BackupRestore

A database is its main file and its log; states are numbered in the order they were committed. Each await of
`backupRegistryDatabase` and `restoreRegistryDatabase` is a step, the Hub commits, checkpoints, stops and crashes in between (a restore is
made with the Hub stopped), and the restoring process may fail or be killed at every step.

### MCServices and MCBrowserFlows

The ten components of `MCServices` share no state. Their product would say no more than each of them does, so the initial
state chooses in `part` the component that moves, and TLC explores the sum of the ten state spaces in one run. `MCBrowserFlows`
does the same with `moving`.

## 3. Runs

Each run states its bounds in its `.cfg`. All finish within a few minutes. Where several invariants of a module hang together they are
checked as one, a conjunction of the named parts that the table lists behind it; each part has a mutant of its own that breaks it.

| Run | Checks | Bounds and why |
| --- | --- | --- |
| `registry` | `TablesSound` (`TypeOK`, `HubKeySetWellFormed`), `NeverLockedOut`, `TombstoneHoldsNoLiveKey`, `TombstoneRecoverable`, `TokenYieldsOneIdentity`, `RevocationIsTerminal`, `SigningKeyContinuity` | two nodes and two tokens, so that a token could mint either node and a node can be enrolled and re-enrolled; three machine keys so that two rotations overlap; two route keys so that one can replace the other; three instants so that overlaps end and results and audit rows expire |
| `node_identity` | `StoreSound` (`NodeTypeOK`, `StoreLoads`), `KeyNeverLost` (`IdentityNeverOrphaned`, `TombstoneKeyHeld`), `SigningKeyDurablyKnown` | three machine keys and three route keys, one late request, one clock step: an overlap can end inside a recovery, a route key can rotate across lost acknowledgments |
| `node_rotation_live` | `PendingRotationResolves` | under the fairness of section 4 |
| `control` | `GenerationsInOrder` (`TypeOK`, `OneGeneration`, `PendingBounded`), `LateEventsIgnored`, `SettlesUnlessCut` | two connections (old and new generation), two frames in flight, one suspended handler and one poll, one cut, two disturbances; under the fairness of section 4 |
| `channels` | `PoolSound` (`TypeOK`, `IdleMeansFree`), `FlowsStayApart` (`ResponseReachesItsFlow`, `BoundToSession`), `NoneWaitsBesideIdle` | two flows of either mode on a pool of two channels of which one is kept idle, so that a channel is leased again, a second one is dialled and a flow has to wait; two sessions, so that one supersedes the other; one failure that nothing caused |
| `jobs` | `AccountingSound` (`TypeOK`, `Accounting`), `PoolBusy`, `ReportedOnce`, `KeepsPromise` | one job (jobs share no state) on four nodes with two workers: a full pool, a queue behind it and late calls beside it |
| `schedules` | `ActiveIsPlanned` (`TypeOK`, `LiveBelowLimit`, `ActiveIsScheduled`), `ForbidExcludes`, `FinishedStaysFinished`, `SkipAtMostOnce`, `DueIsServed` | one schedule of every type and policy (schedules share only free job slots, and a submission may be refused at any time), two jobs so that an overlap is possible, a cron expression with an occurrence too far away, limit two, four instants, two crashes |
| `flows_live` | `FlowsEnd` (`HttpFlowsEnd`, and `DirectFlowsEnd`: `JoinedFallTogether`, `DialsEnd`), `TransferEnds`, `BodyKept` (`NothingDropped`, `MarksHoldCaps`) | two flows that compete for one reverse channel; one flow over both relays of the direct route; a body of seven frames through marks of one, two and four frames (the code has 256 KiB, 512 KiB and 2 MiB) with one frame in the connection, so that every queue fills, is paused and resumed again; under the fairness of section 4 |
| `services` | the properties of the next table, one part after the other | see the next table |

The parts of `services`:

| Part | Checks | Bounds and why |
| --- | --- | --- |
| `MachineAuth` | `AtMostOnce` | skew 1 and retention 3 over seven instants: a time stamp from the future can outlive a reservation that is one instant too short |
| `NodeEvidence` | `EvidenceSound` (`EvTypeOK`, `NeverHalfWithheld`, `ClaimsAreBacked`, `LostIsAlerted`), `EvidenceAges` (`ContactOnlyAges`, `SweptEvidenceIsYoung`) | two versions and three report contents (everything passes, another version, frontend missing), two reports at a time; thresholds one, two and three units, so that each is crossed alone |
| `RouteReach` | `ReachSound` (`RtTypeOK`, `ReachIsAboutTarget`, `ShownAsRouted`) | two targets to switch between, two route keys, threshold two |
| `RouteAuth` | `RouteReplaysRefused` (`RouteAcceptedOnce`, `CacheIsAuthentic`) | two nonces, skew 1 and retention 2, the ratio of the code |
| `PairingCodes` | `PairingSound` (`PcTypeOK`, `RecordOpensOneSession`, `UnusedTokenStands`, `GuessesBounded`) | two records that may carry one code, lockout after two failures, five instants: a lock can end and begin again |
| `RateLimiter` | `AdmittedBounded` | two keys and room for one, so that the purge runs |
| `OperatorSessions` | `SessionsEnd` (`HardLimitHolds`, `ExpiryAuditedOnce`, `EndedStaysEnded`) | two sessions and two principals; idle limit two of a life of three, in six instants |
| `DirectRoutes` | `FlowsInStep` (`DrTypeOK`, `SlotsAreSockets`, `SwitchComesFromDsh`) | two flows and one slot, at Hub and at node: the second is refused while the first is open |
| `UpgradeRunner` | `EligibleIsEarned` (`UpTypeOK`, `EligibleHasItsSnapshot`, `EligibleSawItsStack`) | two runners, each with a candidate or a verification, in any interleaving |
| `BackupRestore` | `BackupSound` (`ImageIsAState`, `RestoredIsTheBackup`, `NothingIsLost`) | three commits: one in the image, one in the main file, one in the log |

Deadlock is not checked where the system may stop: in `jobs`, since a job that has ended has no next step, in `channels` and
`flows_live`, whose flows come to an end, and in `services`, whose clocks, flows and runners are used up.

Runs that end with a counterexample; each is a disagreement between the code and a document or comment
(`PROJECT.json`, findings):

| Run | Shows |
| --- | --- |
| `node_revoked` | `RevokedOnlyIfRevoked`: a failed probe followed by the end of the overlap makes the node record itself revoked while the Hub holds its new key active |
| `channels_lease` | `BodyReachesItsRequest`: DSH answers before the body of a request is complete, the channel is leased again, and the first flow goes on writing its body on it |
| `probe_hangs` | `ProbingFlagResets`: a probe whose answer breaks off in the body never settles, and the loop never probes again |

## 4. Fairness

- `NodeIdentity`: a call ends (answer, failure or crash), the daemon ticks, and a request repeated for ever is
  at some point answered and its answer read: `client.mjs` bounds each call with a timeout, the run loop of
  `bin/dsh-orbit-node.mjs` repeats the tick, and the network is assumed to work now and then. Operators and time are
  under no fairness.
- `ReverseControl`: weak fairness of timers and deliveries: Node.js timers fire, TCP delivers on a connection that is
  not cut. A cut is noticed by the node only when it has unsent data (`ConnectionFails` is fair only then), because
  the client sets no keepalive. `StraysMiss` assumes that a poll left over from an earlier connection does not fall into
  the handshake of every later one: polls are 10 s apart, the reconnect delay is random within 20 %.
- `FleetJobs`: weak fairness of `TaskTimeout` only. Each dispatch is raced against a timer (`dispatchWithTimeout`), and a
  Node.js timer fires. The transport may never answer, and late calls may never return.
- `FleetSchedules`: weak fairness of the evaluation (an interval timer that runs while the engine does), of the loop of
  `reconcileOnStartup`, of `JobEnds` (what `KeepsPromise` shows of `FleetJobs`) and of `CreateEngine` (a supervisor restarts the
  Hub). `Start` is under no fairness, because no caller of `start()` exists outside the tests.
- `ReverseChannels`: weak fairness of each channel (its sockets deliver, DSH answers and ends what it answers) and of each flow (its
  timers fire, its browser finishes its request and reads). Browsers, sessions and failures are under no fairness. A WebSocket flow
  may stay open for ever, so `HttpFlowsEnd` speaks of plain requests only.
- `DirectRoutes`: weak fairness of the handlers of each relay: sockets report what happens to them and the timers of a dial and of a
  plain request fire. Browser, link and DSH are under none.
- `RouteReach`: weak fairness of `ProbeNode` and `ProbeAnswered`; it is used by `probe_hangs` only, whose counterexample does not rest on
  an answer that fails to come, but on one that breaks off.

- `FlowControl`: sources give, the connection delivers and consumers take, however slowly (one condition for all, because each
  move uses up a frame or an end). No timer has to fire, and consumers may rest for any time.
- `MCBrowserFlows` conjoins the three. The parts that rest in an initial state are in one in which no fair step is enabled (`FlowControl`: its
  fairness is that of the moves of an instance that moves), so the conjunction excludes no behaviour of the part that moves.

## 5. Proofs

Everything in this section is checked by TLAPS for every value of the constants that meets the named assumptions: any number of nodes, keys,
tokens, requests, channels, flows, sessions and runners, any limits and retentions, any bound on failures. Every safety invariant and every action property that
a passing run checks is a theorem. Each proof has the same shape: an invariant that implies the property, the initial states have it, and one
step for each action keeps it. What follows says what the invariants add to the properties, because that is where the reasons are. Most
of them were given to TLC on the small instances before they were proved.

### Identity (`IdentityProofs`)

From `SetAssumption` (finitely many machine keys) and `TimeAssumption` (time spans are positive). The registry alone, one step for each transaction:

- `TypeCorrect`.
- `NeverLockedOutCorrect`: inductive relative to the types. A rotation sets a deadline on the key that signs it and adds
  one without, the sweep revokes only keys with a deadline, and deletion leaves the active state.
- `TablesSoundCorrect`: `HubKeySetWellFormed` is inductive with the types; `EnsureWellFormed` and `AcknowledgeWellFormed` say what
  the two helpers do to the four forms.
- `TombstoneHoldsNoLiveKeyCorrect`: inductive with the types, because every operation that installs a key acts on a node
  that is, or becomes, active.
- `TombstoneRecoverableCorrect`: `created_at` orders the rows of a node, every row is older than the next one will be, and a node that was
  ever registered has a newest row (`RowsOrdered`). Deletion leaves that row, and a re-enrollment asks for it.
- `TokenYieldsOneIdentityCorrect`: the node that consumed a token is registered (`ConsumedSound`), so a node that is new to the registry has consumed no other one,
  and one that is re-enrolled keeps its first.
- `RevocationIsTerminalCorrect`, an action property. `Enroll` and `Pair` write a node's first row without looking for another
  one, so the proof needs the invariant `AbsentHasNoKeys`: an unregistered node has no rows.
- `SigningKeyContinuityCorrect`, an action property: well-formed keys that can sign at all have an
  active one (`SigningIsActive`), and no operation but deletion takes it away without a successor.

Node, network and registry together, with `NodeAssumption`: `NodeImplementsRegistry` shows that every step of the composition is a step of the registry
or leaves its tables alone, so that all of the above holds beside the node as well. `StoreSoundCorrect`, `KeyNeverLostCorrect` and `SigningKeyDurablyKnownCorrect` rest on
`NodeInv`, which says of every place where knowledge can be what it is worth:

- the registry's invariants (`HubInv`), and that the store is one the next start accepts (`StoreLoads`);
- the store (`StoreInv`): before it has an identity the Hub knows of this node at most its pending keys; the newest key and every key
  without a deadline are held; a pending rotation that the Hub has committed left the old key older and with a deadline, a committed re-enrollment left every
  other key revoked. These are the reasons why the client may drop a key in `promote` and after a re-enrollment;
- every request that may still reach the Hub, in time, late or after a crash (`RequestSound`): it asks for nothing the store does not know. A
  rotation is the pending one, or was committed, or is signed with a revoked key;
- the route keys the node trusts, and those an answer is about to give it (`TrustSound`): they cover the key the Hub signs with and every key that a heartbeat
  under way could still activate;
- the call in progress (`CallSound`): what each step of it says of its request and its answer.

### Reverse connection (`ReverseControlProofs`, `ReverseChannelsProofs`)

- From `ControlAssumption`: `GenerationsInOrderCorrect` and the action property `LateEventsIgnoredCorrect`. `InOrder` is stated for the manager as a value, with a session that is
  just being accepted and is not in the pending set yet; lemmas give what `close`, the promotion and the eviction do to it, so that the head of an
  upgrade, which runs several frames in one step, is covered. `OpenConnected` says that a session lives on an open connection only.
- From `ChannelAssumption`: `PoolSoundCorrect`, `FlowsStayApartCorrect`, `NoneWaitsBesideIdleCorrect`. The inductive invariant `RcInv` speaks of one channel between its two ends
  (`ChannelOK`), of one flow (`FlowAt`), of the holder of a channel (`HolderAt`), of the session (`BoundTo`), and of waiters (`NoneWaits`). The four cases of a channel are:
  the Hub does not have it (`AbsentAtHub`: an upgrade, its answer or an end is on its way), the Hub has it (`PresentAtHub`), it is leased (`LeasedTo`: the request is on its
  way, or runs, or its answers are on their way, or all of it is done), and the node is done (`Quiet`). Above `ChannelOK` there is a lemma for each event on
  one channel; above those, one for each operator of the manager (close, lease, free, wake) and of the pool (drop, replenish, accept); above those, one for
  each action. A step of the Hub that cuts several channels at once goes through the lemmas for one channel.

### Jobs and schedules (`FleetJobsProofs`, `FleetSchedulesProofs`)

- From `JobsAssumption` (finitely many nodes, at least one worker): `JobsTypeCorrect`, `AccountingSoundCorrect`, `PoolBusyCorrect`, `ReportedOnceCorrect` and `ImplementsLifecycle`.
  One inductive invariant, `JobsOK`, carries all of them: for each job the summary counts the results (`Counted`), before an abort the running nodes are those in flight and the
  pending ones those in the queue, after it none is either (`Matches`), the pool is full while nodes wait (`Pooled`), and status and report fit (`Told`). `AwaitStep` shows that
  whatever the workers await next keeps it; `SettledAdds` shows that the check at the end of `executeJob` cannot throw, `SameVerdict` that the verdict by the summary is the
  verdict on the outcomes. `ImplementsLifecycle` is the refinement of `JobLifecycle!Spec`, the safety part of `KeepsPromise`.
- From `SchedulesAssumption`: `ActiveIsPlannedCorrect`, `ForbidExcludesCorrect`, and the action properties `FinishedStaysFinishedCorrect` and `SkipAtMostOnceCorrect`. The last one needs three
  facts about restarts: the loop of a start goes through schedules that are due (`StartIsDue`), what a step plans lies in the future (`NextIsLater`), and an
  occurrence for which a job was submitted is the next run only while it is past, under skip only until the start has gone through it (`SentIsPast`).

### Services (`ServicesProofs`)

- `AtMostOnceCorrect`, from `Retention > 2 * Skew`: a request that passed is reserved as long as its time stamp is acceptable (`ReservationOutlivesWindow`).
- `RouteReplaysRefusedCorrect`, from `RouteRetention >= 2 * RouteSkew`, which is enough here because the cache drops strictly later: a cached nonce was fresh when it was
  cached, a forgotten one is stale (`CachedWhenFresh`, `ForgottenIsStale`).
- `AdmittedBoundedCorrect`: what a key keeps are its latest admissions, what it has dropped is older than the window, and admissions are spaced by
  the window at distance of the limit (`KeepsLatest`, `DroppedIsOld`, `Spaced`). `SpacedIsBounded` of `Instants` turns the spacing into the bound on any window.
- `PairingSoundCorrect`: `RecordsInv` (a code leads to a live record with that code, an unused record in time has its token) and `AttemptsInv` (the attempts an address is charged
  with are its latest failures, spaced by the lock).
- `SessionsEndCorrect`: the hard limit is the creation plus the life (`LimitIsFixed`), a session is audited, once, only after one of its limits and never after a logout (`AuditIsEarned`).
- `BackupSoundCorrect`: no file and no copy is ahead of the last commit (`OnlyCommitted`), and each stage of a backup and of a restore says where the database, the image and the
  quarantined files are (`BackupFollows`, `RestoreFollows`).
- `EligibleIsEarnedCorrect`: what a runner holds in memory (`RunInv`), that its stack carries its token until another one starts (`OnItsStack`), and that a file is of
  one runner (`FilesInv`).

### Routing (`RoutingProofs`)

- `EvidenceSoundCorrect` and the action property `EvidenceAgesCorrect`, from `EvidenceAssumption` and `ReportAssumption` (a stored report names a version and an outcome, which its validation
  guarantees): a claim is that of the latest report (`Backed`), as long as reports are dated in the order of their uploads. `ClaimsAreBacked` does not name the report that is meant; the invariant has to.
- `ReachSoundCorrect`: the answers a verdict rests on came from the present target (`JudgedIsTarget`).
- `FlowsInStepCorrect`, for any finite set of flows: each flow is sound by itself (`FlowSound`), and the counters, kept by increment and decrement, are the
  cardinality of the flows carried; `OneMoreOrLess` does the arithmetic.
- `BodyKeptCorrect`, from `FlowControlAssumption`: a producer that is not held back has room, one that waits for a drain began at the mark (`RoomUnlessHeld`); a body
  goes one way and its end is told behind its last frame (`OneWay`).

Where a definition looks for the first of several (the oldest report to keep, the next cron time), the proofs use that a set of natural numbers has a least
element (`LeastNatural`) in place of an induction.

### Model-checked only

- Liveness, and everything that rests on ENABLED: `PendingRotationResolves`, `SettlesUnlessCut`, `DueIsServed`, `FlowsEnd`, `TransferEnds`, and the end of jobs in
  `KeepsPromise`. The prover does not reach fairness.
- The three properties of the violation runs, which are false.
- The MC modules' choice of bounds. The theorems are about the modules they instantiate, not about the instances.

The theorems are about the models. That each model is faithful to its code rests on reading, on the line map of `PROJECT.json`, and on the mutants.

## 6. Findings and observations

The findings are the violation runs of section 3. Observations from reading the code and from the models, which no run checks:

Identity and registry:
- Rotating again with the old machine key while it overlaps postpones the end of its overlap, without bound
  (`registry.mjs:1020`; `docs/rfc/0006`, line 84, has one overlap period).
- The Hub switches its signing key in the transaction in which it learns that the node knows the new key; the node reads that it is
  active only from the answer. Between the deadline of a rotating route key and the next sweep a heartbeat answer carries a deadline in the
  past, for which `validateHubRouteKeySet` refuses the set.
- A pending enrollment that is retried with another token makes the Hub register a second node for one machine key
  (`client.mjs:251`, `:292`); the first answer that is read decides which one the node is. `KeyNeverLost` therefore speaks of the node
  the store has adopted, and before that of every node (`OwnNodes`). Found while proving.
- Evidence: after re-enrollment the next sweep may revive capabilities from a report of the deleted era; re-enrollment leaves
  `last_heartbeat_at` and `alert_flags`, so the node ages from its old beat; a comment (`registry.mjs:838-841`) says that a withheld claim
  returns "only with a fresh report upload", but a sweep derives it again from a stored report. With the clock set back between two
  uploads, a heartbeat is compared with the wrong report until the next sweep (`ClaimsAreBacked` excludes that by `DatedInOrder`).

Reverse connection:
- `reverse-session.mjs`: `close` marks the session closed before it calls `sendFrame`, which then returns at once, so the
  close frame with its reason is not written. `registerUpgrade` parses the head of the upgrade before it adds the session to the pending set, so a
  session promoted from the head stays pending and a later upgrade evicts it (`:276`, against the comment at `:267`).
- `reverse-client.mjs`: a handler suspended in a probe may send its ready on the next connection (modelled by `SessionProbed`; it settles
  in the end). After a silent cut the node, which has nothing to send, waits for ever (`:364`; `docs/rfc/0012`, line 324).
- `reverse-channel.mjs`: the late abort of a slow browser closes a channel that another flow has leased since; a WebSocket browser that is reset while it
  waits for capacity leaves its channel busy until the session ends. `node/reverse-channels.mjs`: every abort of the Hub is ignored; the timer of an
  upgraded flow outlives its channel; `clearSession` empties the set before the close events, so requests at DSH are not destroyed.

- `node/reverse-channels.mjs:758`: the bytes of a request that wait for a slow DSH are bounded by the hard cap, but nothing pauses the channel
  while they grow, so an upload longer than the cap to a DSH that is slower than the connection is given up as an overrun; `docs/rfc/0012`,
  line 467, has sources paused above the soft mark. `MarksHoldCaps` holds of every other queue.
- The resume mark has to be strictly below the soft mark, as 256 KiB is below 512 KiB: with equal marks a queue that has just been resumed exceeds
  the soft mark (`FlowControlAssumption`; TLC shows it with both marks one).
- A browser that stops reading when the Hub's queue is between the resume mark and the soft mark leaves the channel paused, and no
  stall timer of the Hub looks at it; the node's does, if the rest of the response exceeds its own soft mark.

Routes:
- A target or mode that is changed and changed back between the start and the answer of a probe lets the old answer count.
- A response that is cut in its body leaves the browser's response open and its flow counted (`proxyHttpRequest` listens for the request's
  errors only). A refused upgrade with a large body, whose browser has gone, holds the link to the node and its slot.

Operators:
- A record's timer and its use by token delete by code, also the newer record of the same code (its token still works). A refused
  request of another principal keeps a session from idling out. A session is validated before the body is read, so a management action may
  complete after a logout. Logging out does not withdraw pairing codes.

Jobs and schedules:
- `maxConcurrentDispatches` is a bound for each job; `docs/rfc/0014`, line 262, reads as one for the Hub. A cancelled job no longer counts as
  active, although its dispatches may be in flight, so a schedule with policy forbid may dispatch beside them.
- The server creates the schedule engine and never starts it (`server.mjs:1487`; `docs/rfc/0015`, lines 119-120). A schedule of type `once` gets
  no `next_run_at` and never runs by itself; run rows of a Hub that died stay `dispatched`; a manual trigger of a completed schedule exceeds `max_runs`.

Upgrade runner and backup:
- Nothing locks the working directory or the compose project. If another runner brings the project up between the probes and the checks of a candidate, an
  eligible result rests on the other one's container (`EligibleSawItsStack` excludes it by `crowded`). A candidate that throws or is killed leaves the
  evidence of the previous one, and `report` goes on calling it eligible (`docs/upgrade.md:20`, `docs/snapshot-rollback.md:5`).
- A backup checks that its destination is absent and renames over it later; two with one temporary name remove each other's file. A restore that
  is killed between quarantine and publication leaves no database, and a Hub that is started then creates an empty one; the model has the operator
  put the files back first (`Acknowledged`).

## 7. Plan

Done: the core (registry, node, control, jobs, schedules), the second round (channels, evidence, routing, route authentication, direct
flows, operators, upgrade runner, backup), and the proofs of every safety invariant and action property that a passing run checks.

Next:

1. More refinements: a channel and its flow against an abstract lease; the registry against a table of identities that only knows who may act for whom.
2. The deeper parts of invariants that so far only serve a proof, as properties of their own where the code promises them (`RequestSound` for late
   rotations, `BoundTo` for sessions).
3. Models still worth writing: two processes over one store file (daemon and command line); the run log of schedules; migrations of a database
   file that stop half way.

## 8. Not modelled

Byte-level work (WebSocket frames, HTTP parsing, header rewriting), signatures and hashes
(a signed message is its content), schema migrations, the machine ingress (a stateless path filter), textual patches of DSH, the
plugin's rendering and the user interface. Events, audit retention and the run log are written and never read back by what is modelled.
`PROJECT.json` lists every part with its status.
