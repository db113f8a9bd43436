---------------------------- MODULE UpgradeRunner ----------------------------
(***************************************************************************)
(* The candidate upgrade runner (upgrade-runner.mjs, snapshot-contract.mjs,*)
(* compatibility-report.mjs and the command bin/dsh-orbit-upgrade.mjs).    *)
(* A runner is one process with one command.  All runners share a working  *)
(* directory and a compose project, and nothing locks either: a runner     *)
(* meets the files and the containers that another one, dead or alive, has *)
(* left there.                                                             *)
(*                                                                         *)
(* The runner's name stands for what it draws at random: the candidate     *)
(* token, the snapshot identifier and the fingerprint of its gateway       *)
(* certificate.  Docker, the snapshot hook, DSH and the smoke scripts are  *)
(* outside and answer as they like.                                        *)
(***************************************************************************)
EXTENDS Naturals, Sequences, FiniteSets

CONSTANTS Runners,   \* the processes, each with one command
          NoRunner   \* an absent file, container or manifest

ASSUME RunnerAssumption == NoRunner \notin Runners

VARIABLES upFiles,   \* the working directory
          upStack,   \* the compose project: token of the DSH container, certificate of the gateway
          upRuns     \* the runners

upVars == <<upFiles, upStack, upRuns>>

-----------------------------------------------------------------------------
(* Checks and their judgement.                                             *)

RequiredChecks ==
  {"globalPatch", "profilePatch", "runtimeReadiness", "settingsRead", "settingsNoopWrite",
   "authorizationSmoke", "sessionResume", "webPluginRoutes"}

(* The steps of runVerificationSequence that run anything.  "fetch" trusts *)
(* the certificate the runner holds in memory and throws when it does not  *)
(* get an answer; "exec" enters the DSH container; "smoke" is a script     *)
(* that trusts the certificate file.                                       *)
Steps ==
  << [names |-> {"runtimeReadiness"},                  via |-> "fetch"],
     [names |-> {"globalPatch", "profilePatch"},       via |-> "exec"],
     [names |-> {"settingsRead", "settingsNoopWrite"}, via |-> "smoke"],
     [names |-> {"authorizationSmoke"},                via |-> "smoke"],
     [names |-> {"sessionResume"},                     via |-> "smoke"],
     [names |-> {"webPluginRoutes"},                   via |-> "fetch"],
     [names |-> {"webSocketTransport", "terminalFence"}, via |-> "smoke"] >>

NoReport == [by |-> NoRunner, done |-> 0, failed |-> {}, snapshot |-> NoRunner, valid |-> FALSE]
Torn     == [NoReport EXCEPT !.by = "torn"]

(* The status of a check: failed, passed, or not run because its step was  *)
(* never reached.                                                          *)
Status(ev, name) ==
  CASE name \in ev.failed -> "fail"
    [] \E i \in 1 .. ev.done : name \in Steps[i].names /\ name \notin ev.failed -> "pass"
    [] OTHER -> "not_run"

Compatible(ev) ==
  /\ ev.failed = {}
  /\ \A name \in RequiredChecks : Status(ev, name) = "pass"

(* The revisions and the baseline of the report come from the              *)
(* configuration, which has been found complete.                           *)
PromotionReady(ev) == Compatible(ev) /\ ev.snapshot # NoRunner

-----------------------------------------------------------------------------
(* Runners.                                                                *)

NoRun == [pc |-> "idle", kind |-> "candidate", token |-> NoRunner, ca |-> NoRunner,
          ev |-> NoReport, saw |-> {}, crowded |-> FALSE]

UpInit ==
  /\ upFiles = [override |-> NoRunner, cert |-> NoRunner, manifest |-> {}, evidence |-> NoReport]
  /\ upStack = [dsh |-> NoRunner, gateway |-> NoRunner]
  /\ upRuns = [w \in Runners |-> NoRun]

Step(w, from, r) == upRuns[w].pc = from /\ upRuns' = [upRuns EXCEPT ![w] = r]
Goes(w, from, to) == Step(w, from, [upRuns[w] EXCEPT !.pc = to])

(* The command line: a configuration with nothing missing, a preflight     *)
(* that passes, and for verify the token of the override in the working    *)
(* directory.  Anything less ends with nothing touched.                    *)
StartCandidate(w) ==
  /\ Step(w, "idle", [NoRun EXCEPT !.pc = "snapshot", !.token = w,
                        !.ev = [NoReport EXCEPT !.by = w, !.valid = TRUE]])
  /\ upFiles' = [upFiles EXCEPT !.manifest = {}]
  /\ UNCHANGED upStack

StartVerify(w) ==
  /\ upFiles.override # NoRunner
  /\ Step(w, "idle", [NoRun EXCEPT !.pc = "bind", !.kind = "verify", !.token = upFiles.override,
                        !.ev = [NoReport EXCEPT !.by = w]])
  /\ UNCHANGED <<upFiles, upStack>>

(* The hook, while it runs: it writes some manifest, its own or one it has *)
(* kept, sound or not: complete, with the data root and the versions of    *)
(* the request, and a time of creation that is not before it.              *)
Manifests == [id: Runners, sound: BOOLEAN]

HookWrites(w) ==
  /\ upRuns[w].pc = "snapshot"
  /\ \E m \in Manifests : upFiles' = [upFiles EXCEPT !.manifest = {m}]
  /\ UNCHANGED <<upStack, upRuns>>

(* Mutant: any sound manifest in the file will do.                      *)
BoundToAnyone(m, w) == m.sound

(* bindSnapshotManifest after readSnapshotManifest.                        *)
Bound(m, w) == m.sound /\ m.id = w

(* The hook exits.  A clean exit is worth what the manifest says, any      *)
(* other exit and a timeout are a failed snapshot; either way the runner   *)
(* goes on.                                                                *)
SnapshotTaken(w) ==
  /\ \E m \in upFiles.manifest : Bound(m, w)
  /\ Step(w, "snapshot", [upRuns[w] EXCEPT !.pc = "identity", !.ev.snapshot =
            (CHOOSE m \in upFiles.manifest : TRUE).id])
  /\ UNCHANGED <<upFiles, upStack>>

SnapshotFails(w) == Goes(w, "snapshot", "identity") /\ UNCHANGED <<upFiles, upStack>>

GenerateIdentity(w) ==
  /\ Goes(w, "identity", "override")
  /\ upFiles' = [upFiles EXCEPT !.cert = w]
  /\ UNCHANGED upStack

WriteOverride(w) ==
  /\ Goes(w, "override", "bind")
  /\ upFiles' = [upFiles EXCEPT !.override = w]
  /\ UNCHANGED upStack

(* verifyResolvedComposeConfig: the resolved configuration names the        *)
(* candidate's image, data, port and the identity files, which are the     *)
(* same paths for every runner; of the token only its presence is asked.   *)
ResolvedBinding == upFiles.override # NoRunner

(* resolveCandidateBinding; a mismatch throws.                             *)
ResolveBinding(w) ==
  /\ ResolvedBinding
  /\ Goes(w, "bind", IF upRuns[w].kind = "verify" THEN "probe" ELSE "build")
  /\ UNCHANGED <<upFiles, upStack>>

(* A build or a start that fails is a result: one failed check, the others *)
(* not run, and a report.                                                  *)
BuildFails(w) ==
  /\ Step(w, "build", [upRuns[w] EXCEPT !.pc = "finalize", !.ev.failed = {"globalPatch"}])
  /\ UNCHANGED <<upFiles, upStack>>

StartFails(w) ==
  /\ Step(w, "build", [upRuns[w] EXCEPT !.pc = "finalize", !.ev.failed = {"runtimeReadiness"}])
  /\ UNCHANGED <<upFiles, upStack>>

(* The build succeeds, and docker compose up reads the override as it is   *)
(* now.  Containers whose configuration it takes for unchanged are left    *)
(* alone: the gateway then keeps the certificate it has loaded.  Another   *)
(* runner that has started its stack and not yet finished its checks is    *)
(* crowded.                                                                *)
StartStack(w) ==
  /\ \E dsh \in {upStack.dsh, upFiles.override}, gateway \in {upStack.gateway, upFiles.cert} :
       upStack' = [dsh |-> dsh, gateway |-> gateway]
  /\ upRuns[w].pc = "build"
  /\ upRuns' = [v \in Runners |->
       IF v = w THEN [upRuns[w] EXCEPT !.pc = "probe"]
       ELSE [upRuns[v] EXCEPT !.crowded = @ \/ upRuns[v].pc \in {"probe", "tls", "checking"}]]
  /\ UNCHANGED upFiles

(* Mutant: that the project came up is taken for proof of whose it is.     *)
ProbeTokenTrusting(w) ==
  /\ Goes(w, "probe", "tls") /\ UNCHANGED <<upFiles, upStack>>

(* printenv in the running container; another token throws.                *)
ProbeToken(w) ==
  /\ upStack.dsh = upRuns[w].token
  /\ Goes(w, "probe", "tls") /\ UNCHANGED <<upFiles, upStack>>

(* The endpoint must present the certificate: of its own memory for a      *)
(* candidate run up to here, of the file for verify; both read the file    *)
(* as the authority for the checks.                                        *)
VerifyGateway(w) ==
  LET expected == IF upRuns[w].kind = "verify" THEN upFiles.cert ELSE w
  IN /\ upStack.gateway = expected /\ upFiles.cert = expected
     /\ Step(w, "tls", [upRuns[w] EXCEPT !.pc = "checking", !.ca = upFiles.cert])
     /\ UNCHANGED <<upFiles, upStack>>

Reaches(w, via) ==
  CASE via = "fetch" -> upStack.gateway = upRuns[w].ca
    [] via = "smoke" -> upStack.gateway = upFiles.cert
    [] OTHER         -> TRUE

(* Mutant: the sequence goes on after a failure.                           *)
RunStepOn(w) ==
  LET r == upRuns[w]
      s == Steps[r.ev.done + 1]
  IN /\ r.pc = "checking" /\ r.ev.done < Len(Steps)
     /\ \E failed \in SUBSET s.names :
          /\ ~Reaches(w, s.via) => s.via # "fetch" /\ failed = s.names
          /\ upRuns' = [upRuns EXCEPT ![w].ev.done = @ + 1, ![w].ev.failed = @ \cup failed,
                          ![w].saw = IF Reaches(w, s.via) THEN @ \cup {upStack.dsh} ELSE @]
     /\ UNCHANGED <<upFiles, upStack>>

(* One step of the sequence, with the checks of it that fail.  A failure   *)
(* is the last step that runs.                                             *)
RunStep(w) ==
  LET r == upRuns[w]
      s == Steps[r.ev.done + 1]
  IN /\ r.pc = "checking" /\ r.ev.done < Len(Steps) /\ r.ev.failed = {}
     /\ \E failed \in SUBSET s.names :
          /\ ~Reaches(w, s.via) => s.via # "fetch" /\ failed = s.names
          /\ upRuns' = [upRuns EXCEPT ![w].ev.done = @ + 1, ![w].ev.failed = failed,
                          ![w].saw = IF Reaches(w, s.via) THEN @ \cup {upStack.dsh} ELSE @]
     /\ UNCHANGED <<upFiles, upStack>>

SequenceEnds(w) ==
  /\ upRuns[w].ev.done = Len(Steps) \/ upRuns[w].ev.failed # {}
  /\ Goes(w, "checking", IF upRuns[w].kind = "verify" THEN "done" ELSE "finalize")
  /\ UNCHANGED <<upFiles, upStack>>

(* finalizeReport: evidence.json is truncated and written.                 *)
TruncateEvidence(w) ==
  /\ Goes(w, "finalize", "writing")
  /\ upFiles' = [upFiles EXCEPT !.evidence = Torn]
  /\ UNCHANGED upStack

WriteEvidence(w) ==
  /\ Step(w, "writing", [NoRun EXCEPT !.pc = "done"])
  /\ upFiles' = [upFiles EXCEPT !.evidence = upRuns[w].ev]
  /\ UNCHANGED upStack

(* Whatever throws ends the command with exit code 2, and a process may be *)
(* killed at any time; neither writes anything, and its memory is gone.     *)
Aborts(w) ==
  /\ upRuns[w].pc \notin {"idle", "done", "aborted"}
  /\ upRuns' = [upRuns EXCEPT ![w] = [NoRun EXCEPT !.pc = "aborted"]]
  /\ UNCHANGED <<upFiles, upStack>>

UpNext ==
  \E w \in Runners :
    \/ StartCandidate(w) \/ StartVerify(w)
    \/ HookWrites(w) \/ SnapshotTaken(w) \/ SnapshotFails(w)
    \/ GenerateIdentity(w) \/ WriteOverride(w) \/ ResolveBinding(w)
    \/ BuildFails(w) \/ StartStack(w) \/ StartFails(w)
    \/ ProbeToken(w) \/ VerifyGateway(w) \/ RunStep(w) \/ SequenceEnds(w)
    \/ TruncateEvidence(w) \/ WriteEvidence(w) \/ Aborts(w)

UpSpec == UpInit /\ [][UpNext]_upVars

(* The report command: the judgement of the evidence in the working        *)
(* directory, if there is any that can be read.                            *)
ReportedEligible == upFiles.evidence.valid /\ PromotionReady(upFiles.evidence)

-----------------------------------------------------------------------------
(* The files and the stack have an owner or none, and the checks of a      *)
(* runner that failed are those of the last step it ran.                   *)
UpTypeOK ==
  /\ upFiles.override \in Runners \cup {NoRunner}
  /\ upFiles.cert \in Runners \cup {NoRunner}
  /\ upFiles.manifest \subseteq Manifests /\ Cardinality(upFiles.manifest) <= 1
  /\ upStack \in [dsh: Runners \cup {NoRunner}, gateway: Runners \cup {NoRunner}]
  /\ \A w \in Runners : LET r == upRuns[w] IN
       /\ r.ev.done \in 0 .. Len(Steps)
       /\ r.pc = "checking" /\ r.ev.failed # {} => r.ev.failed \subseteq Steps[r.ev.done].names

Judged(w) == upRuns[w].pc \in {"finalize", "writing", "done"}

(* What a candidate run, or later the report command, calls eligible rests *)
(* on a snapshot that was asked for by that same run, although every run   *)
(* and every hook writes the same manifest file.                           *)
EligibleHasItsSnapshot ==
  /\ \A w \in Runners : Judged(w) /\ PromotionReady(upRuns[w].ev) => upRuns[w].ev.snapshot = w
  /\ ReportedEligible => upFiles.evidence.snapshot = upFiles.evidence.by

(* A candidate is eligible, and a verification passes, only for checks     *)
(* that met the stack with the run's own token, unless another runner has  *)
(* brought the same project up in the meantime.                            *)
EligibleSawItsStack ==
  \A w \in Runners :
    Judged(w) /\ Compatible(upRuns[w].ev) /\ ~upRuns[w].crowded => upRuns[w].saw = {upRuns[w].token}

(* The invariant of upgrade runners that compete for one directory and one *)
(* compose project: eligible means own snapshot and own stack.             *)
EligibleIsEarned == UpTypeOK /\ EligibleHasItsSnapshot /\ EligibleSawItsStack
=============================================================================
