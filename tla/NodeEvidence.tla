---------------------------- MODULE NodeEvidence ----------------------------
(***************************************************************************)
(* What the Hub believes about one registered node, and on what evidence:  *)
(* the heartbeat that names the version the node runs, the compatibility   *)
(* reports it uploads, the capability columns derived from them, and the   *)
(* sweep that ages all of it (registry.mjs, capabilities.mjs).  A node is  *)
(* one row and every statement names one row, so one node is modelled.     *)
(*                                                                         *)
(* Timestamps are kept as ages.  A step of the wall clock makes everything *)
(* one unit older; the clock may also be set back by a unit, which makes   *)
(* every timestamp one unit younger, down to one unit in the future.       *)
(***************************************************************************)
EXTENDS Integers, Sequences, FiniteSets

CONSTANTS Versions,          \* runtime identities: version, revision, profile
          Unset,             \* the row before anything named a version
          NeverHeard,        \* no heartbeat yet
          Reports,           \* report contents: identity, checks, outcome
          Supported,         \* versions the Hub has a compatibility profile of
          StaleAfter,        \* three missed beats
          LostAfter,         \* 24 h without a beat
          ReportStaleAfter,  \* 7 days
          ReportKept,        \* 90 days
          MaxReports         \* bound: reports stored at a time

ASSUME EvidenceAssumption ==
  /\ Unset \notin Versions
  /\ NeverHeard \notin Int
  /\ Supported \subseteq Versions
  /\ {StaleAfter, LostAfter, ReportStaleAfter, ReportKept, MaxReports} \subseteq Nat
  /\ StaleAfter < LostAfter /\ ReportStaleAfter < ReportKept

(* What a report that passed its validation (compatibility-report.mjs) has.*)
ASSUME ReportAssumption ==
  \A r \in Reports : r.identity \in Versions /\ r.outcome \in {"pass", "fail"}

VARIABLES evRow,      \* the nodes row
          evReports   \* the reports rows in order of id, each with its age

evVars == <<evRow, evReports>>

(* A beat older than the last threshold is just old.  Reports keep their   *)
(* order, so time waits for the purge of one that is overdue.              *)
BeatAges   == -1 .. LostAfter + 1
ReportAges == -1 .. ReportKept + 1

Rows ==
  [state: {"active", "tombstoned"}, identity: Versions \cup {Unset},
   contact: {"unknown", "fresh", "stale", "lost"}, beat: BeatAges \cup {NeverHeard},
   alert: BOOLEAN, caps: SUBSET {"web.routes"}, stale: BOOLEAN,
   compat: {"unknown", "pass", "fail", "stale"}, dsh: {"unknown", "ok", "degraded"}]

(* INSERT INTO nodes: no evidence, no contact.                             *)
EnrolledRow ==
  [state |-> "active", identity |-> Unset, contact |-> "unknown", beat |-> NeverHeard,
   alert |-> FALSE, caps |-> {}, stale |-> TRUE, compat |-> "unknown", dsh |-> "unknown"]

EvInit == evRow = EnrolledRow /\ evReports = <<>>

-----------------------------------------------------------------------------
(* Derivation from a report, and from nothing else.                        *)

(* deriveCapabilities, for the one capability routing asks about: every    *)
(* check it rests on has passed, on a version the Hub has a profile of.    *)
DeriveCapabilities(r) ==
  IF r.identity \in Supported /\ r.runtime = "pass" /\ r.web = "pass"
  THEN {"web.routes"} ELSE {}

(* Mutant: the column takes the word of one check.                         *)
DeriveDshHealthyRaw(r) == r.settings

DeriveDshHealthy(r) ==
  IF r.runtime = "pass" /\ r.settings = "pass" THEN "ok"
  ELSE IF "fail" \in {r.runtime, r.settings} THEN "degraded" ELSE "unknown"

DeriveOrbitCompatible(r) == r.outcome

(* A row no version was ever written to matches every report.              *)
IdentityMatches(identity, runtime) == runtime = Unset \/ identity = runtime

(* getLatestReport: ORDER BY uploaded_at DESC, id DESC.                    *)
LatestReport(reports) ==
  reports[CHOOSE i \in DOMAIN reports : \A j \in DOMAIN reports :
            \/ reports[i].age < reports[j].age
            \/ reports[i].age = reports[j].age /\ j <= i]

(* The columns derived from r, current or withheld.                        *)
Derived(row, r, fresh) ==
  [row EXCEPT !.caps   = DeriveCapabilities(r),
              !.stale  = ~fresh,
              !.compat = IF fresh THEN DeriveOrbitCompatible(r) ELSE "stale",
              !.dsh    = IF fresh THEN DeriveDshHealthy(r) ELSE "unknown"]

(* No report, no claim.                                                    *)
NoEvidence(row) ==
  [row EXCEPT !.caps = {}, !.stale = TRUE, !.compat = "unknown", !.dsh = "unknown"]

(* Mutant: the outcome is marked stale, the other columns are forgotten.   *)
WithholdOutcomeOnly(row) ==
  [row EXCEPT !.compat = IF @ \in {"pass", "unknown"} THEN "stale" ELSE @]

(* withholdCapabilities: the stored set stays as evidence, the stale flag  *)
(* empties the active one, and a failed outcome stays visible.             *)
WithholdCapabilities(row) ==
  [row EXCEPT !.compat = IF @ \in {"pass", "unknown"} THEN "stale" ELSE @,
              !.dsh = "unknown", !.stale = TRUE]

-----------------------------------------------------------------------------
(* Machine requests.  Both are authenticated for an active node and run to *)
(* their end in one transaction.                                           *)

(* heartbeatAuthenticated: the one writer of the running version once it   *)
(* has been heard, and of contact.  A version other than the latest        *)
(* report's withholds what that report proved.                             *)
Heartbeat(v) ==
  /\ evRow.state = "active"
  /\ LET beaten == [evRow EXCEPT !.contact = "fresh", !.alert = FALSE,
                                 !.beat = 0, !.identity = v]
     IN evRow' = IF /\ evReports # <<>>
                    /\ ~IdentityMatches(LatestReport(evReports).content.identity, v)
                 THEN WithholdCapabilities(beaten) ELSE beaten
  /\ UNCHANGED evReports

(* Mutant: a report of another version overwrites the capability columns   *)
(* as current evidence.                                                    *)
UploadReportOfAnyVersion(r) ==
  /\ evRow.state = "active"
  /\ Len(evReports) < MaxReports
  /\ evReports' = Append(evReports, [content |-> r, age |-> 0])
  /\ LET told == [evRow EXCEPT !.identity = IF @ = Unset THEN r.identity ELSE @]
     IN evRow' = Derived(told, r, TRUE)

(* uploadReportAuthenticated: the report is history in any case; it is     *)
(* evidence when it speaks of the running version, and names that version  *)
(* only while no heartbeat has.                                            *)
UploadReport(r) ==
  /\ evRow.state = "active"
  /\ Len(evReports) < MaxReports
  /\ evReports' = Append(evReports, [content |-> r, age |-> 0])
  /\ LET told == [evRow EXCEPT !.identity = IF @ = Unset THEN r.identity ELSE @]
     IN evRow' = Derived(told, r, IdentityMatches(r.identity, evRow.identity))

-----------------------------------------------------------------------------
(* The maintenance sweep.                                                  *)

(* The report sweep of one row: without a report nothing is claimed, and   *)
(* evidence older than seven days no longer counts.                        *)
AgeEvidence(row, reports) ==
  IF reports = <<>> THEN NoEvidence(row)
  ELSE IF LatestReport(reports).age > ReportStaleAfter
       THEN [row EXCEPT !.compat = IF @ \in {"pass", "fail"} THEN "stale" ELSE @,
                        !.dsh = "unknown", !.stale = TRUE]
       ELSE row

(* Mutant: reconciliation forgets to look at the age.                      *)
ReconcileAgeless(row, reports) ==
  IF row.state # "active" THEN row
  ELSE IF reports = <<>> THEN NoEvidence(row)
  ELSE LET latest == LatestReport(reports)
       IN Derived(row, latest.content, IdentityMatches(latest.content.identity, row.identity))

(* reconcileNodeCapabilities: the columns are computed again from the      *)
(* latest stored report, current if it is of the running version and young.*)
Reconcile(row, reports) ==
  IF row.state # "active" THEN row
  ELSE IF reports = <<>> THEN NoEvidence(row)
  ELSE LET latest == LatestReport(reports)
       IN Derived(row, latest.content,
                  /\ IdentityMatches(latest.content.identity, row.identity)
                  /\ latest.age <= ReportStaleAfter)

(* Mutant: contact is recomputed from the clock, better as well as worse.  *)
AgeContactFromClock(row) ==
  IF row.beat = NeverHeard THEN row
  ELSE IF row.beat > LostAfter THEN [row EXCEPT !.contact = "lost", !.alert = TRUE]
  ELSE IF row.beat > StaleAfter THEN [row EXCEPT !.contact = "stale"]
  ELSE [row EXCEPT !.contact = "fresh"]

(* Mutant: a lost node is marked without telling the operator.             *)
AgeContactSilently(row) ==
  IF row.beat = NeverHeard THEN row
  ELSE IF row.beat > LostAfter /\ row.contact # "lost"
       THEN [row EXCEPT !.contact = "lost"]
  ELSE IF row.beat > StaleAfter /\ row.contact = "fresh"
       THEN [row EXCEPT !.contact = "stale"]
  ELSE row

(* Contact ages by the last heartbeat alone and only gets worse.           *)
AgeContact(row) ==
  IF row.beat = NeverHeard THEN row
  ELSE IF row.beat > LostAfter /\ row.contact # "lost"
       THEN [row EXCEPT !.contact = "lost", !.alert = TRUE]
  ELSE IF row.beat > StaleAfter /\ row.contact = "fresh"
       THEN [row EXCEPT !.contact = "stale"]
  ELSE row

(* DELETE FROM reports: the rows that are younger than ninety days stay.   *)
Kept(reports) ==
  LET kept[i \in 0 .. Len(reports)] ==
        IF i = 0 THEN <<>>
        ELSE IF reports[i].age < ReportKept THEN Append(kept[i - 1], reports[i]) ELSE kept[i - 1]
  IN kept[Len(reports)]

(* Reports are purged for deleted nodes too; a row is swept while the node *)
(* is active.                                                              *)
Maintenance ==
  LET kept == Kept(evReports)
  IN /\ evReports' = kept
     /\ evRow' = IF evRow.state = "active"
                 THEN AgeContact(Reconcile(AgeEvidence(evRow, kept), kept))
                 ELSE evRow

(* The constructor of a Hub that starts again reconciles before it serves. *)
HubStarts == evRow' = Reconcile(evRow, evReports) /\ UNCHANGED evReports

-----------------------------------------------------------------------------
(* The node's life and the clock.                                          *)

(* deleteNode keeps every evidence column and every report.                *)
DeleteNode ==
  /\ evRow.state = "active"
  /\ evRow' = [evRow EXCEPT !.state = "tombstoned"]
  /\ UNCHANGED evReports

(* reenroll resets the derived columns and the version; the time of the    *)
(* last heartbeat, the alert flag and the reports are left as they were.   *)
Reenroll ==
  /\ evRow.state = "tombstoned"
  /\ evRow' = [EnrolledRow EXCEPT !.beat = evRow.beat, !.alert = evRow.alert]
  /\ UNCHANGED evReports

EvTick ==
  /\ \A i \in DOMAIN evReports : evReports[i].age <= ReportKept
  /\ evRow' = [evRow EXCEPT !.beat = IF @ = NeverHeard \/ @ > LostAfter THEN @ ELSE @ + 1]
  /\ evReports' = [i \in DOMAIN evReports |-> [evReports[i] EXCEPT !.age = @ + 1]]

(* The wall clock is set back while nothing lies in the future yet.        *)
ClockBack ==
  /\ evRow.beat # -1 /\ \A i \in DOMAIN evReports : evReports[i].age # -1
  /\ evRow' = [evRow EXCEPT !.beat = IF @ = NeverHeard THEN NeverHeard ELSE @ - 1]
  /\ evReports' = [i \in DOMAIN evReports |-> [evReports[i] EXCEPT !.age = @ - 1]]

EvNext ==
  \/ \E v \in Versions : Heartbeat(v)
  \/ \E r \in Reports : UploadReport(r)
  \/ Maintenance \/ HubStarts
  \/ DeleteNode \/ Reenroll
  \/ EvTick \/ ClockBack

EvSpec == EvInit /\ [][EvNext]_evVars

-----------------------------------------------------------------------------
(* The evidence conjunct of evaluateRouteEligibility, and the set an       *)
(* operator is shown (toNodeSummary).                                      *)
EvidenceAdmits(row) ==
  /\ row.state = "active"
  /\ ~row.stale /\ row.compat \notin {"stale", "unknown"}
  /\ "web.routes" \in row.caps

ShownCapabilities(row) == IF row.stale THEN {} ELSE row.caps

-----------------------------------------------------------------------------
(* The row and the stored reports are well formed.                         *)
EvTypeOK ==
  /\ evRow \in Rows
  /\ evReports \in Seq([content: Reports, age: ReportAges])
  /\ Len(evReports) <= MaxReports

(* The stale flag, the outcome and the health column are written by five   *)
(* different statements (heartbeat, upload, sweep, reconciliation, re-     *)
(* enrollment) and read separately by routing, selector and fleet jobs:    *)
(* no sequence of them leaves a row withheld in one column and claimed in  *)
(* another.                                                                *)
NeverHalfWithheld ==
  IF evRow.stale THEN evRow.compat # "pass" /\ evRow.dsh = "unknown"
                 ELSE evRow.compat \in {"pass", "fail"}

(* The reports are dated in the order they came in: no clock was set back  *)
(* between two of them.                                                    *)
DatedInOrder ==
  \A i, j \in DOMAIN evReports : i < j => evReports[i].age >= evReports[j].age

(* A claim the Hub routes on rests on a stored report that is about the    *)
(* version the node says it runs, whatever the order of heartbeats,        *)
(* uploads, sweeps, restarts, deletion and re-enrollment.  With reports    *)
(* dated out of order a heartbeat is compared with the wrong one, and the  *)
(* claim stands until the next sweep.                                      *)
ClaimsAreBacked ==
  (evRow.state = "active" /\ ~evRow.stale /\ DatedInOrder) =>
    \E i \in DOMAIN evReports :
       /\ IdentityMatches(evReports[i].content.identity, evRow.identity)
       /\ evRow.caps = DeriveCapabilities(evReports[i].content)
       /\ evRow.compat = DeriveOrbitCompatible(evReports[i].content)

(* A contact that is lost has been flagged to the operator and one that is *)
(* not has not: the flag and the column are written apart.                 *)
LostIsAlerted ==
  /\ evRow.contact = "lost" => evRow.alert
  /\ evRow.contact \in {"fresh", "stale"} => ~evRow.alert

(* Only a heartbeat makes contact better, also when the clock is set back  *)
(* (registry.mjs: "it must never make contact healthier when a clock moves *)
(* backwards").                                                            *)
ContactOnlyAges ==
  [][/\ (evRow.contact # "fresh" /\ evRow'.contact = "fresh") => \E v \in Versions : Heartbeat(v)
     /\ evRow.contact = "lost" => evRow'.contact # "stale"]_evVars

(* What is still claimed after a sweep is backed by the latest report and  *)
(* that report is not too old.                                             *)
SweptEvidenceIsYoung ==
  [][(Maintenance /\ evRow'.state = "active" /\ ~evRow'.stale)
       => /\ LatestReport(evReports').age <= ReportStaleAfter
          /\ evRow'.caps = DeriveCapabilities(LatestReport(evReports').content)]_evVars

(* The invariant of a node's evidence: whatever order its statements run   *)
(* in, a row is wholly withheld or wholly claimed, a claim has its report, *)
(* and a lost node is flagged.                                             *)
EvidenceSound == EvTypeOK /\ NeverHalfWithheld /\ ClaimsAreBacked /\ LostIsAlerted

(* Evidence and contact get worse by time alone and better only by what    *)
(* the node sends: neither a clock set back nor a sweep, restart or re-    *)
(* enrollment renews them.                                                 *)
EvidenceAges == ContactOnlyAges /\ SweptEvidenceIsYoung
=============================================================================
