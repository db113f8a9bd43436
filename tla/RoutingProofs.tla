---------------------------- MODULE RoutingProofs ----------------------------
(***************************************************************************)
(* Proofs about the way of a browser request to a node: the evidence the   *)
(* Hub routes on, the reachability it establishes, the slots and sockets   *)
(* of a direct route, and the queues of a reverse channel.                 *)
(***************************************************************************)
EXTENDS NodeEvidence, RouteReach, DirectRoutes, FlowControl,
        FiniteSetTheorems, SequenceTheorems, Instants

-----------------------------------------------------------------------------
(* The evidence of a node *)

StoredReports == [content: Reports, age: ReportAges]

(* What EvidenceSound asks of the row alone.                               *)
RowSound(row) ==
  /\ row \in Rows
  /\ IF row.stale THEN row.compat # "pass" /\ row.dsh = "unknown"
                  ELSE row.compat \in {"pass", "fail"}
  /\ row.contact = "lost" => row.alert
  /\ row.contact \in {"fresh", "stale"} => ~row.alert

(* The claim of an active row is that of its latest report, which is of    *)
(* the running version: the invariant has to name the report that is meant.*)
Backed(row, reports) ==
  (row.state = "active" /\ ~row.stale) =>
    /\ reports # <<>>
    /\ IdentityMatches(LatestReport(reports).content.identity, row.identity)
    /\ row.caps = DeriveCapabilities(LatestReport(reports).content)
    /\ row.compat = DeriveOrbitCompatible(LatestReport(reports).content)

Dated(reports) == \A i, j \in DOMAIN reports : i < j => reports[i].age >= reports[j].age

(* The inductive invariant.                                                *)
EvInv ==
  /\ RowSound(evRow)
  /\ evReports \in Seq(StoredReports) /\ Len(evReports) <= MaxReports
  /\ Dated(evReports) => Backed(evRow, evReports)

LEMMA AgesAreIntegers ==
  ASSUME NEW s \in Seq(StoredReports), NEW j \in 1 .. Len(s)
  PROVE  s[j] \in StoredReports /\ s[j].age \in Int /\ s[j].age >= -1
<1>1. ReportKept \in Nat
  BY EvidenceAssumption
<1>2. s[j] \in StoredReports
  BY ElementOfSeq
<1> QED
  BY <1>1, <1>2 DEF StoredReports, ReportAges

(* Among several reports one is the latest.                                *)
LEMMA LatestExists ==
  ASSUME NEW s \in Seq(StoredReports), s # <<>>
  PROVE  \E i \in 1 .. Len(s) : 
           /\ LatestReport(s) = s[i]
           /\ \A j \in 1 .. Len(s) :
                s[i].age < s[j].age \/ (s[i].age = s[j].age /\ j <= i)
<1>1. \A j \in 1 .. Len(s) : s[j].age \in Int /\ s[j].age >= -1
  BY AgesAreIntegers
<1>2. Len(s) \in Nat /\ Len(s) >= 1 /\ DOMAIN s = 1 .. Len(s)
  BY EmptySeq
<1>3. PICK a \in {s[j].age + 1 : j \in 1 .. Len(s)} :
             \A b \in {s[j].age + 1 : j \in 1 .. Len(s)} : a <= b
  <2>1. {s[j].age + 1 : j \in 1 .. Len(s)} \subseteq Nat
    BY <1>1
  <2>2. s[1].age + 1 \in {s[j].age + 1 : j \in 1 .. Len(s)}
    BY <1>2
  <2> QED
    BY <2>1, <2>2, LeastNatural
<1>4. PICK d \in {Len(s) - j : j \in {k \in 1 .. Len(s) : s[k].age + 1 = a}} :
             \A e \in {Len(s) - j : j \in {k \in 1 .. Len(s) : s[k].age + 1 = a}} : d <= e
  <2>1. {Len(s) - j : j \in {k \in 1 .. Len(s) : s[k].age + 1 = a}} \subseteq Nat
    BY <1>2
  <2>2. {Len(s) - j : j \in {k \in 1 .. Len(s) : s[k].age + 1 = a}} # {}
    BY <1>2, <1>3
  <2> QED
    BY <2>1, <2>2, LeastNatural
<1>5. PICK i \in 1 .. Len(s) : s[i].age + 1 = a /\ d = Len(s) - i
  BY <1>4
<1>6. \A j \in 1 .. Len(s) : s[i].age < s[j].age \/ (s[i].age = s[j].age /\ j <= i)
  <2> TAKE j \in 1 .. Len(s)
  <2>1. a <= s[j].age + 1
    BY <1>3
  <2>2. s[j].age + 1 = a => d <= Len(s) - j
    BY <1>4
  <2> QED
    BY <1>1, <1>2, <1>5, <2>1, <2>2
<1>7. PICK k \in 1 .. Len(s) :
        /\ LatestReport(s) = s[k]
        /\ \A j \in 1 .. Len(s) : s[k].age < s[j].age \/ (s[k].age = s[j].age /\ j <= k)
  BY <1>2, <1>6 DEF LatestReport
<1> QED
  BY <1>7

(* If the reports are dated in order, it is the last of them.              *)
LEMMA LatestIsLast ==
  ASSUME NEW s \in Seq(StoredReports), s # <<>>,
         \A i, j \in DOMAIN s : i < j => s[i].age >= s[j].age
  PROVE  LatestReport(s) = s[Len(s)]
<1>1. Len(s) \in Nat /\ Len(s) >= 1 /\ DOMAIN s = 1 .. Len(s)
  BY EmptySeq
<1>2. PICK i \in 1 .. Len(s) :
           /\ LatestReport(s) = s[i]
           /\ \A j \in 1 .. Len(s) :
                s[i].age < s[j].age \/ (s[i].age = s[j].age /\ j <= i)
  BY LatestExists
<1>3. \A j \in 1 .. Len(s) : s[j].age \in Int
  BY AgesAreIntegers
<1> QED
  BY <1>1, <1>2, <1>3

LEMMA LatestIsStored ==
  ASSUME NEW s \in Seq(StoredReports), s # <<>>
  PROVE  LatestReport(s) \in StoredReports
BY LatestExists, ElementOfSeq

(* The purge of s, one report after the other: what it is after the i-th,  *)
(* and that f lists it from none to the n-th.                              *)
PurgeStep(s, i, before) ==
  IF i = 0 THEN <<>>
  ELSE IF s[i].age < ReportKept THEN Append(before, s[i]) ELSE before

Purges(f, s, n) == f = [i \in 0 .. n |-> PurgeStep(s, i, f[i - 1])]

Purged(s) == {n \in Nat : \E f : Purges(f, s, n)}

LEMMA PurgeGoesOn ==
  ASSUME NEW s, NEW n \in Nat, NEW f, Purges(f, s, n)
  PROVE  n + 1 \in Purged(s)
<1> DEFINE last == PurgeStep(s, n + 1, f[n])
           g == [i \in 0 .. n + 1 |-> IF i = n + 1 THEN last ELSE f[i]]
<1>1. \A i \in 0 .. n : f[i] = PurgeStep(s, i, f[i - 1])
  BY DEF Purges
<1>2. \A i \in 0 .. n + 1 : g[i] = PurgeStep(s, i, g[i - 1])
  <2>1. ASSUME NEW i \in 0 .. n + 1 PROVE g[i] = PurgeStep(s, i, g[i - 1])
    <3>1. CASE i = 0
      <4>1. g[0] = f[0] /\ f[0] = PurgeStep(s, 0, f[0 - 1])
        BY <1>1
      <4> QED
        BY <3>1, <4>1 DEF PurgeStep
    <3>2. CASE i = n + 1
      <4>1. n \in 0 .. n + 1 /\ n # n + 1 /\ i - 1 = n
        BY <3>2
      <4>2. g[n] = f[n] /\ g[i] = last
        BY <3>2, <4>1
      <4> QED
        BY <3>2, <4>1, <4>2
    <3>3. CASE i # 0 /\ i # n + 1
      <4>1. i \in 0 .. n /\ i - 1 \in 0 .. n /\ i - 1 # n + 1
        BY <3>3
      <4>2. g[i] = f[i] /\ g[i - 1] = f[i - 1]
        BY <3>3, <4>1
      <4> QED
        BY <1>1, <4>1, <4>2
    <3> QED
      BY <3>1, <3>2, <3>3
  <2> QED
    BY <2>1
<1>3. g = [i \in 0 .. n + 1 |-> g[i]]
  OBVIOUS
<1> HIDE DEF g
<1>4. Purges(g, s, n + 1)
  BY <1>2, <1>3 DEF Purges
<1> QED
  BY <1>4 DEF Purged

(* There is no first report up to which it cannot be listed.               *)
LEMMA PurgeReaches == ASSUME NEW s, NEW k \in Nat PROVE k \in Purged(s)
<1> DEFINE missing == Nat \ Purged(s)
<1>1. 0 \in Purged(s)
  <2>1. Purges([i \in 0 .. 0 |-> <<>>], s, 0)
    BY DEF Purges, PurgeStep
  <2> QED
    BY <2>1 DEF Purged
<1>2. missing = {}
  <2>1. ASSUME missing # {} PROVE FALSE
    <3> HIDE DEF missing
    <3>1. missing \subseteq Nat
      BY DEF missing
    <3>2. PICK m \in missing : \A n \in missing : m <= n
      BY <2>1, <3>1, LeastNatural
    <3>3. m \in Nat /\ m \notin Purged(s) /\ m # 0
      BY <1>1, <3>2 DEF missing
    <3>4. m - 1 \in Nat /\ m - 1 \notin missing /\ (m - 1) + 1 = m
      BY <3>2, <3>3
    <3>5. PICK f : Purges(f, s, m - 1)
      BY <3>4 DEF missing, Purged
    <3> QED
      BY <3>3, <3>4, <3>5, PurgeGoesOn
  <2> QED
    BY <2>1
<1> QED
  BY <1>2

(* What the purge keeps is a table of reports, no longer than before.      *)
LEMMA KeptIsStored ==
  ASSUME NEW s \in Seq(StoredReports)
  PROVE  Kept(s) \in Seq(StoredReports) /\ Len(Kept(s)) <= Len(s)
<1>1. Len(s) \in Nat
  OBVIOUS
<1>2. PICK f : Purges(f, s, Len(s)) /\ Kept(s) = f[Len(s)]
  <2>1. \E f : Purges(f, s, Len(s))
    BY <1>1, PurgeReaches DEF Purged
  <2> DEFINE g == CHOOSE f : Purges(f, s, Len(s))
  <2>2. Purges(g, s, Len(s))
    BY <2>1
  <2>3. Kept(s) = g[Len(s)]
    BY DEF Kept, Purges, PurgeStep
  <2> QED
    BY <2>2, <2>3
<1>3. \A i \in 0 .. Len(s) : f[i] = PurgeStep(s, i, f[i - 1])
  BY <1>2 DEF Purges
<1> DEFINE Bad == {n \in 0 .. Len(s) : ~ (f[n] \in Seq(StoredReports) /\ Len(f[n]) <= n)}
<1>4. Bad = {}
  <2>1. ASSUME Bad # {} PROVE FALSE
    <3>1. Bad \subseteq Nat
      BY <1>1
    <3>2. PICK m \in Bad : \A n \in Bad : m <= n
      <4> HIDE DEF Bad
      <4> QED
        BY <2>1, <3>1, LeastNatural
    <3>3. m \in 0 .. Len(s) /\ ~ (f[m] \in Seq(StoredReports) /\ Len(f[m]) <= m)
      BY <3>2
    <3>4. CASE m = 0
      <4>1. f[0] = <<>>
        BY <1>1, <1>3 DEF PurgeStep
      <4> QED
        BY <3>3, <3>4, <4>1
    <3>5. CASE m # 0
      <4>1. m - 1 \in 0 .. Len(s) /\ m \in 1 .. Len(s) /\ m - 1 \notin Bad
        BY <1>1, <3>2, <3>3, <3>5
      <4>2. f[m - 1] \in Seq(StoredReports) /\ Len(f[m - 1]) <= m - 1
        BY <4>1
      <4>3. s[m] \in StoredReports
        BY <4>1, ElementOfSeq
      <4>4. f[m] = Append(f[m - 1], s[m]) \/ f[m] = f[m - 1]
        <5>1. f[m] = PurgeStep(s, m, f[m - 1])
          BY <1>3, <3>3
        <5> QED
          BY <3>5, <5>1 DEF PurgeStep
      <4>5. f[m] \in Seq(StoredReports) /\ Len(f[m]) <= m
        <5>1. m \in Nat /\ Len(f[m - 1]) \in Nat
          BY <1>1, <4>1, <4>2
        <5>2. Append(f[m - 1], s[m]) \in Seq(StoredReports)
              /\ Len(Append(f[m - 1], s[m])) = Len(f[m - 1]) + 1
          BY <4>2, <4>3, AppendProperties
        <5>3. CASE f[m] = f[m - 1]
          BY <4>2, <5>1, <5>3
        <5>4. CASE f[m] = Append(f[m - 1], s[m])
          BY <4>2, <5>1, <5>2, <5>4
        <5> QED
          BY <4>4, <5>3, <5>4
      <4> QED
        BY <3>3, <4>5
    <3> QED
      BY <3>4, <3>5
  <2> QED
    BY <2>1
<1>5. Len(s) \in 0 .. Len(s) /\ Len(s) \notin Bad
  BY <1>1, <1>4
<1> QED
  BY <1>2, <1>5

(* What the statements make of a sound row.                                *)
LEMMA DerivedIsSound ==
  ASSUME NEW row, RowSound(row), NEW r \in Reports, NEW fresh \in BOOLEAN,
         NEW d, d = Derived(row, r, fresh)
  PROVE  /\ RowSound(d) /\ d.state = row.state /\ d.identity = row.identity
         /\ d.stale = ~fresh
         /\ d.caps = DeriveCapabilities(r) /\ (fresh => d.compat = DeriveOrbitCompatible(r))
<1>1. DeriveCapabilities(r) \in SUBSET {"web.routes"}
  BY DEF DeriveCapabilities
<1>2. DeriveDshHealthy(r) \in {"unknown", "ok", "degraded"}
  BY DEF DeriveDshHealthy
<1>3. DeriveOrbitCompatible(r) \in {"pass", "fail"}
  BY ReportAssumption DEF DeriveOrbitCompatible
<1>4. row \in Rows
  BY DEF RowSound
<1>5. d = [row EXCEPT !.caps   = DeriveCapabilities(r),
                      !.stale  = ~fresh,
                      !.compat = IF fresh THEN DeriveOrbitCompatible(r) ELSE "stale",
                      !.dsh    = IF fresh THEN DeriveDshHealthy(r) ELSE "unknown"]
  BY DEF Derived
<1>6. /\ d.caps = DeriveCapabilities(r) /\ d.stale = ~fresh
      /\ d.compat = IF fresh THEN DeriveOrbitCompatible(r) ELSE "stale"
      /\ d.dsh = IF fresh THEN DeriveDshHealthy(r) ELSE "unknown"
      /\ d.state = row.state /\ d.identity = row.identity /\ d.contact = row.contact
      /\ d.alert = row.alert
  BY <1>4, <1>5 DEF Rows
<1>7. d \in Rows
  BY <1>1, <1>2, <1>3, <1>4, <1>5 DEF Rows
<1> QED
  BY <1>3, <1>6, <1>7 DEF RowSound

LEMMA NoEvidenceIsSound ==
  ASSUME NEW row, RowSound(row), NEW d, d = NoEvidence(row)
  PROVE  RowSound(d) /\ d.state = row.state /\ d.identity = row.identity /\ d.stale
<1>1. row \in Rows
  BY DEF RowSound
<1> QED
  BY <1>1 DEF RowSound, Rows, NoEvidence

LEMMA WithheldIsSound ==
  ASSUME NEW row, RowSound(row), NEW d, d = WithholdCapabilities(row)
  PROVE  RowSound(d) /\ d.state = row.state /\ d.identity = row.identity /\ d.stale
<1>1. row \in Rows
  BY DEF RowSound
<1> QED
  BY <1>1 DEF RowSound, Rows, WithholdCapabilities

LEMMA AgedIsSound ==
  ASSUME NEW row, RowSound(row), NEW s \in Seq(StoredReports), NEW d, d = AgeEvidence(row, s)
  PROVE  RowSound(d) /\ d.state = row.state
<1>1. CASE s = <<>>
  BY <1>1, NoEvidenceIsSound DEF AgeEvidence
<1>2. CASE s # <<>>
  <2>1. row \in Rows
    BY DEF RowSound
  <2>2. d = row \/ d = [row EXCEPT !.compat = IF @ \in {"pass", "fail"} THEN "stale" ELSE @,
                                   !.dsh = "unknown", !.stale = TRUE]
    BY <1>2 DEF AgeEvidence
  <2> QED
    BY <2>1, <2>2 DEF RowSound, Rows
<1> QED
  BY <1>1, <1>2

LEMMA ReconciledIsBacked ==
  ASSUME NEW row, RowSound(row), NEW s \in Seq(StoredReports), NEW d, d = Reconcile(row, s)
  PROVE  RowSound(d) /\ d.state = row.state /\ Backed(d, s)
<1>1. CASE row.state # "active"
  BY <1>1 DEF Reconcile, Backed
<1>2. CASE row.state = "active" /\ s = <<>>
  <2>1. RowSound(d) /\ d.state = row.state /\ d.stale
    BY <1>2, NoEvidenceIsSound DEF Reconcile
  <2> QED
    BY <2>1 DEF Backed
<1>3. CASE row.state = "active" /\ s # <<>>
  <2>1. PICK latest : latest = LatestReport(s)
    OBVIOUS
  <2>2. PICK fresh \in BOOLEAN : fresh = (/\ IdentityMatches(latest.content.identity, row.identity)
                                          /\ latest.age <= ReportStaleAfter)
    OBVIOUS
  <2>3. latest.content \in Reports
    BY <1>3, <2>1, LatestIsStored DEF StoredReports
  <2>4. d = Derived(row, latest.content, fresh)
    BY <1>3, <2>1, <2>2 DEF Reconcile
  <2>5. /\ RowSound(d) /\ d.state = row.state /\ d.identity = row.identity
        /\ d.stale = ~fresh
        /\ d.caps = DeriveCapabilities(latest.content)
        /\ (fresh => d.compat = DeriveOrbitCompatible(latest.content))
    BY <2>3, <2>4, DerivedIsSound
  <2> QED
    BY <1>3, <2>1, <2>2, <2>5 DEF Backed
<1> QED
  BY <1>1, <1>2, <1>3

LEMMA AgedContactIsSound ==
  ASSUME NEW row, RowSound(row), NEW s, Backed(row, s), NEW d, d = AgeContact(row)
  PROVE  RowSound(d) /\ Backed(d, s)
<1>1. row \in Rows
  BY DEF RowSound
<1>2. \/ d = row
      \/ d = [row EXCEPT !.contact = "lost", !.alert = TRUE]
      \/ d = [row EXCEPT !.contact = "stale"] /\ row.contact = "fresh"
  BY DEF AgeContact
<1>3. RowSound(d)
  BY <1>1, <1>2 DEF RowSound, Rows
<1>4. /\ d.state = row.state /\ d.stale = row.stale /\ d.identity = row.identity
      /\ d.caps = row.caps /\ d.compat = row.compat
  BY <1>1, <1>2 DEF Rows
<1> QED
  BY <1>3, <1>4 DEF Backed

(* Time, forwards or backwards, keeps reports in their order and the       *)
(* latest one the latest.                                                  *)
LEMMA ShiftKeepsClaim ==
  ASSUME EvInv, NEW d \in Int,
         NEW row, RowSound(row), row = [evRow EXCEPT !.beat = row.beat],
         NEW s, s = [i \in DOMAIN evReports |-> [evReports[i] EXCEPT !.age = @ + d]],
         \A i \in DOMAIN evReports : evReports[i].age + d \in ReportAges
  PROVE  /\ s \in Seq(StoredReports) /\ Len(s) <= MaxReports
         /\ Dated(s) => Backed(row, s)
<1>1. evReports \in Seq(StoredReports) /\ Len(evReports) \in Nat
      /\ DOMAIN evReports = 1 .. Len(evReports) /\ evRow \in Rows
  BY DEF EvInv, RowSound
<1>2. \A i \in 1 .. Len(evReports) :
        /\ s[i] \in StoredReports /\ s[i].content = evReports[i].content
        /\ s[i].age = evReports[i].age + d /\ evReports[i].age \in Int
  <2> TAKE i \in 1 .. Len(evReports)
  <2>1. evReports[i] \in StoredReports /\ evReports[i].age \in Int
    BY <1>1, AgesAreIntegers
  <2>2. s[i] = [evReports[i] EXCEPT !.age = @ + d]
    BY <1>1
  <2> QED
    BY <1>1, <2>1, <2>2 DEF StoredReports
<1>3. s \in Seq(StoredReports) /\ Len(s) = Len(evReports) /\ DOMAIN s = 1 .. Len(evReports)
  <2>1. s = [i \in 1 .. Len(evReports) |-> s[i]]
    BY <1>1
  <2>2. s \in [1 .. Len(evReports) -> StoredReports]
    BY <1>2, <2>1
  <2> QED
    BY <1>1, <2>2, SeqDef, LenProperties
<1>4. Len(s) <= MaxReports
  BY <1>3 DEF EvInv
<1>5. ASSUME Dated(s) PROVE Backed(row, s)
  <2>1. Dated(evReports)
    <3>1. ASSUME NEW i \in 1 .. Len(evReports), NEW j \in 1 .. Len(evReports), i < j
          PROVE  evReports[i].age >= evReports[j].age
      <4>1. s[i].age >= s[j].age
        BY <1>3, <1>5, <3>1 DEF Dated
      <4>2. evReports[i].age \in Int /\ evReports[j].age \in Int
        BY <1>2
      <4>3. s[i].age = evReports[i].age + d /\ s[j].age = evReports[j].age + d
        BY <1>2
      <4> QED
        BY <4>1, <4>2, <4>3
    <3> QED
      BY <1>1, <3>1 DEF Dated
  <2>2. Backed(evRow, evReports)
    BY <2>1 DEF EvInv
  <2>3. ASSUME row.state = "active", ~row.stale PROVE Backed(row, s)
    <3>1. /\ row.state = evRow.state /\ row.stale = evRow.stale /\ row.identity = evRow.identity
          /\ row.caps = evRow.caps /\ row.compat = evRow.compat
      BY <1>1 DEF Rows
    <3>2. evReports # <<>>
      BY <2>2, <2>3, <3>1 DEF Backed
    <3>3. s # <<>> /\ Len(evReports) \in 1 .. Len(evReports)
      BY <1>1, <1>3, <3>2, EmptySeq
    <3>4. LatestReport(evReports) = evReports[Len(evReports)]
      BY <1>1, <2>1, <3>2, LatestIsLast DEF Dated
    <3>5. LatestReport(s) = s[Len(s)]
      BY <1>3, <1>5, <3>3, LatestIsLast DEF Dated
    <3>6. LatestReport(s).content = LatestReport(evReports).content
      <4>1. s[Len(evReports)].content = evReports[Len(evReports)].content
        BY <1>2, <3>3
      <4> QED
        BY <1>3, <3>4, <3>5, <4>1
    <3> QED
      BY <2>2, <3>1, <3>3, <3>6 DEF Backed
  <2> QED
    BY <2>3 DEF Backed
<1> QED
  BY <1>3, <1>4, <1>5

LEMMA HeartbeatKeepsEvInv == ASSUME EvInv, NEW v \in Versions, Heartbeat(v) PROVE EvInv'
<1> DEFINE beaten == [evRow EXCEPT !.contact = "fresh", !.alert = FALSE, !.beat = 0, !.identity = v]
           other  == evReports # <<>> /\ ~IdentityMatches(LatestReport(evReports).content.identity, v)
<1>1. RowSound(evRow) /\ evRow \in Rows /\ UNCHANGED evReports
  BY DEF EvInv, RowSound, Heartbeat
<1>2. 0 \in BeatAges
  BY EvidenceAssumption DEF BeatAges
<1>3. RowSound(beaten)
  BY <1>1, <1>2 DEF RowSound, Rows
<1>4. /\ beaten.state = evRow.state /\ beaten.stale = evRow.stale /\ beaten.identity = v
      /\ beaten.caps = evRow.caps /\ beaten.compat = evRow.compat
  BY <1>1 DEF Rows
<1>5. evRow' = IF other THEN WithholdCapabilities(beaten) ELSE beaten
  BY DEF Heartbeat
<1> HIDE DEF beaten
<1>6. RowSound(evRow)'
  <2>1. RowSound(evRow')
    BY <1>3, <1>5, WithheldIsSound
  <2> QED
    BY <2>1 DEF RowSound, Rows
<1>7. Dated(evReports') => Backed(evRow', evReports')
  <2>1. CASE other
    <3>1. evRow'.stale
      BY <1>3, <1>5, <2>1, WithheldIsSound
    <3> QED
      BY <3>1 DEF Backed
  <2>2. CASE ~other
    <3>1. evRow' = beaten
      BY <1>5, <2>2
    <3>2. Dated(evReports) => Backed(evRow, evReports)
      BY DEF EvInv
    <3> QED
      BY <1>1, <1>4, <2>2, <3>1, <3>2 DEF Backed
  <2> QED
    BY <2>1, <2>2
<1> QED
  BY <1>1, <1>6, <1>7 DEF EvInv, Dated, Backed

LEMMA UploadKeepsEvInv == ASSUME EvInv, NEW r \in Reports, UploadReport(r) PROVE EvInv'
<1> DEFINE told == [evRow EXCEPT !.identity = IF @ = Unset THEN r.identity ELSE @]
           new  == [content |-> r, age |-> 0]
<1>1. RowSound(evRow) /\ evRow \in Rows
  BY DEF EvInv, RowSound
<1>2. PICK fresh \in BOOLEAN : fresh = IdentityMatches(r.identity, evRow.identity)
  BY DEF IdentityMatches
<1>3. RowSound(told) /\ told.state = evRow.state
      /\ told.identity = IF evRow.identity = Unset THEN r.identity ELSE evRow.identity
  BY <1>1, ReportAssumption DEF RowSound, Rows
<1>4. evRow' = Derived(told, r, fresh) /\ evReports' = Append(evReports, new)
      /\ Len(evReports) < MaxReports
  BY <1>2 DEF UploadReport
<1> HIDE DEF told
<1>5. /\ RowSound(evRow') /\ evRow'.state = evRow.state /\ evRow'.identity = told.identity
      /\ evRow'.stale = ~fresh /\ evRow'.caps = DeriveCapabilities(r)
      /\ (fresh => evRow'.compat = DeriveOrbitCompatible(r))
  BY <1>3, <1>4, DerivedIsSound
<1>6. new \in StoredReports
  BY EvidenceAssumption DEF StoredReports, ReportAges
<1>7. /\ evReports' \in Seq(StoredReports) /\ evReports' # <<>>
      /\ Len(evReports') = Len(evReports) + 1 /\ evReports'[Len(evReports) + 1] = new
  BY <1>4, <1>6, AppendProperties DEF EvInv
<1>8. Len(evReports') <= MaxReports
  <2>1. MaxReports \in Nat /\ Len(evReports) \in Nat
    BY EvidenceAssumption DEF EvInv
  <2> QED
    BY <1>4, <1>7, <2>1
<1>9. ASSUME Dated(evReports') PROVE Backed(evRow', evReports')
  <2>1. LatestReport(evReports') = new
    BY <1>7, <1>9, LatestIsLast DEF Dated
  <2>2. fresh => IdentityMatches(r.identity, told.identity)
    BY <1>2, <1>3 DEF IdentityMatches
  <2>3. LatestReport(evReports').content = r
    BY <2>1
  <2> QED
    BY <1>5, <1>7, <2>2, <2>3 DEF Backed
<1> QED
  BY <1>5, <1>7, <1>8, <1>9 DEF EvInv, RowSound, Rows, Dated, Backed

LEMMA SweepKeepsEvInv == ASSUME EvInv, Maintenance PROVE EvInv'
<1>1. RowSound(evRow) /\ evReports \in Seq(StoredReports) /\ Len(evReports) <= MaxReports
  BY DEF EvInv
<1>2. PICK kept : kept = Kept(evReports)
  OBVIOUS
<1>3. kept \in Seq(StoredReports) /\ Len(kept) <= Len(evReports)
  BY <1>1, <1>2, KeptIsStored
<1>4. /\ evReports' = kept
      /\ evRow' = IF evRow.state = "active"
                  THEN AgeContact(Reconcile(AgeEvidence(evRow, kept), kept)) ELSE evRow
  BY <1>2 DEF Maintenance
<1>5. RowSound(evRow') /\ Backed(evRow', evReports')
  <2>1. CASE evRow.state = "active"
    <3>1. PICK aged : aged = AgeEvidence(evRow, kept)
      OBVIOUS
    <3>2. RowSound(aged)
      BY <1>1, <1>3, <3>1, AgedIsSound
    <3>3. PICK reconciled : reconciled = Reconcile(aged, kept)
      OBVIOUS
    <3>4. RowSound(reconciled) /\ Backed(reconciled, kept)
      BY <1>3, <3>2, <3>3, ReconciledIsBacked
    <3>5. evRow' = AgeContact(reconciled)
      BY <1>4, <2>1, <3>1, <3>3
    <3> QED
      BY <1>4, <3>4, <3>5, AgedContactIsSound
  <2>2. CASE evRow.state # "active"
    BY <1>1, <1>4, <2>2 DEF Backed
  <2> QED
    BY <2>1, <2>2
<1>6. Len(kept) <= MaxReports
  <2>1. MaxReports \in Nat /\ Len(evReports) \in Nat /\ Len(kept) \in Nat
    BY <1>1, <1>3, EvidenceAssumption
  <2> QED
    BY <1>1, <1>3, <2>1
<1> QED
  BY <1>3, <1>4, <1>5, <1>6 DEF EvInv, RowSound, Rows, Dated, Backed

LEMMA TimeKeepsEvInv == ASSUME EvInv, EvTick \/ ClockBack PROVE EvInv'
<1>1. RowSound(evRow) /\ evRow \in Rows /\ evReports \in Seq(StoredReports)
      /\ DOMAIN evReports = 1 .. Len(evReports)
  BY DEF EvInv, RowSound
<1>2. ReportKept \in Nat /\ LostAfter \in Nat /\ NeverHeard \notin Int
  BY EvidenceAssumption
<1>3. \A i \in DOMAIN evReports : evReports[i].age \in -1 .. ReportKept + 1
  <2>1. ASSUME NEW i \in 1 .. Len(evReports) PROVE evReports[i].age \in -1 .. ReportKept + 1
    BY <1>1, <2>1, AgesAreIntegers DEF StoredReports, ReportAges
  <2> QED
    BY <1>1, <2>1
<1>4. ASSUME EvTick PROVE EvInv'
  <2>1. \A i \in DOMAIN evReports : evReports[i].age + 1 \in ReportAges
    BY <1>2, <1>3, <1>4 DEF EvTick, ReportAges
  <2>2. evReports' = [i \in DOMAIN evReports |-> [evReports[i] EXCEPT !.age = @ + 1]]
        /\ evRow' = [evRow EXCEPT !.beat = IF @ = NeverHeard \/ @ > LostAfter THEN @ ELSE @ + 1]
    BY <1>4 DEF EvTick
  <2>3. (IF evRow.beat = NeverHeard \/ evRow.beat > LostAfter THEN evRow.beat ELSE evRow.beat + 1)
          \in BeatAges \cup {NeverHeard}
    BY <1>1, <1>2 DEF Rows, BeatAges
  <2>4. RowSound(evRow') /\ evRow' = [evRow EXCEPT !.beat = evRow'.beat]
    BY <1>1, <2>2, <2>3 DEF RowSound, Rows
  <2>5. /\ evReports' \in Seq(StoredReports) /\ Len(evReports') <= MaxReports
        /\ Dated(evReports') => Backed(evRow', evReports')
    <3>1. PICK s : s = evReports'
      OBVIOUS
    <3>2. PICK row : row = evRow'
      OBVIOUS
    <3>3. RowSound(row) /\ row = [evRow EXCEPT !.beat = row.beat]
      BY <2>4, <3>2
    <3>4. s = [i \in DOMAIN evReports |-> [evReports[i] EXCEPT !.age = @ + 1]]
      BY <2>2, <3>1
    <3>5. 1 \in Int
      OBVIOUS
    <3>6. /\ s \in Seq(StoredReports) /\ Len(s) <= MaxReports
          /\ Dated(s) => Backed(row, s)
      BY <2>1, <3>3, <3>4, <3>5, ShiftKeepsClaim
    <3> QED
      BY <3>1, <3>2, <3>6 DEF Dated, Backed
  <2> QED
    BY <2>4, <2>5 DEF EvInv, RowSound, Rows, Dated, Backed
<1>5. ASSUME ClockBack PROVE EvInv'
  <2>1. \A i \in DOMAIN evReports : evReports[i].age + (-1) \in ReportAges
    BY <1>2, <1>3, <1>5 DEF ClockBack, ReportAges
  <2>2. evReports' = [i \in DOMAIN evReports |-> [evReports[i] EXCEPT !.age = @ - 1]]
        /\ evRow' = [evRow EXCEPT !.beat = IF @ = NeverHeard THEN NeverHeard ELSE @ - 1]
        /\ evRow.beat # -1
    BY <1>5 DEF ClockBack
  <2>3. (IF evRow.beat = NeverHeard THEN NeverHeard ELSE evRow.beat - 1)
          \in BeatAges \cup {NeverHeard}
    BY <1>1, <1>2, <2>2 DEF Rows, BeatAges
  <2>4. RowSound(evRow') /\ evRow' = [evRow EXCEPT !.beat = evRow'.beat]
    BY <1>1, <2>2, <2>3 DEF RowSound, Rows
  <2>5. evReports' = [i \in DOMAIN evReports |-> [evReports[i] EXCEPT !.age = @ + (-1)]]
    <3>1. ASSUME NEW i \in DOMAIN evReports
          PROVE  [evReports[i] EXCEPT !.age = @ - 1] = [evReports[i] EXCEPT !.age = @ + (-1)]
      <4>1. evReports[i].age - 1 = evReports[i].age + (-1)
        BY <1>3
      <4> QED
        BY <4>1
    <3> QED
      BY <2>2, <3>1
  <2>6. /\ evReports' \in Seq(StoredReports) /\ Len(evReports') <= MaxReports
        /\ Dated(evReports') => Backed(evRow', evReports')
    <3>1. PICK s : s = evReports'
      OBVIOUS
    <3>2. PICK row : row = evRow'
      OBVIOUS
    <3>3. RowSound(row) /\ row = [evRow EXCEPT !.beat = row.beat]
      BY <2>4, <3>2
    <3>4. s = [i \in DOMAIN evReports |-> [evReports[i] EXCEPT !.age = @ + (-1)]]
      BY <2>5, <3>1
    <3>5. -1 \in Int
      OBVIOUS
    <3>6. /\ s \in Seq(StoredReports) /\ Len(s) <= MaxReports
          /\ Dated(s) => Backed(row, s)
      BY <2>1, <3>3, <3>4, <3>5, ShiftKeepsClaim
    <3> QED
      BY <3>1, <3>2, <3>6 DEF Dated, Backed
  <2> QED
    BY <2>4, <2>6 DEF EvInv, RowSound, Rows, Dated, Backed
<1> QED
  BY <1>4, <1>5

LEMMA EvInvStep == EvInv /\ [EvNext]_evVars => EvInv'
<1> SUFFICES ASSUME EvInv, [EvNext]_evVars PROVE EvInv'
  OBVIOUS
<1>1. RowSound(evRow) /\ evRow \in Rows /\ evReports \in Seq(StoredReports)
      /\ Len(evReports) <= MaxReports /\ (Dated(evReports) => Backed(evRow, evReports))
  BY DEF EvInv, RowSound
<1>2. ASSUME NEW v \in Versions, Heartbeat(v) PROVE EvInv'
  BY <1>2, HeartbeatKeepsEvInv
<1>3. ASSUME NEW r \in Reports, UploadReport(r) PROVE EvInv'
  BY <1>3, UploadKeepsEvInv
<1>4. CASE Maintenance
  BY <1>4, SweepKeepsEvInv
<1>5. CASE HubStarts
  <2>1. RowSound(evRow') /\ Backed(evRow', evReports)
    BY <1>1, <1>5, ReconciledIsBacked DEF HubStarts
  <2> QED
    BY <1>1, <1>5, <2>1 DEF HubStarts, EvInv, RowSound, Rows, Dated, Backed
<1>6. CASE DeleteNode
  <2>1. evRow' = [evRow EXCEPT !.state = "tombstoned"] /\ UNCHANGED evReports
    BY <1>6 DEF DeleteNode
  <2>2. RowSound(evRow') /\ evRow'.state = "tombstoned"
    BY <1>1, <2>1 DEF RowSound, Rows
  <2>3. Backed(evRow', evReports)
    BY <2>2 DEF Backed
  <2> QED
    BY <1>1, <2>1, <2>2, <2>3 DEF EvInv, RowSound, Rows, Dated, Backed
<1>7. CASE Reenroll
  <2>1. evRow' = [EnrolledRow EXCEPT !.beat = evRow.beat, !.alert = evRow.alert] /\ UNCHANGED evReports
    BY <1>7 DEF Reenroll
  <2>2. RowSound(evRow') /\ evRow'.stale
    BY <1>1, <2>1 DEF RowSound, Rows, EnrolledRow
  <2>3. Backed(evRow', evReports)
    BY <2>2 DEF Backed
  <2> QED
    BY <1>1, <2>1, <2>2, <2>3 DEF EvInv, RowSound, Rows, Dated, Backed
<1>8. CASE EvTick \/ ClockBack
  BY <1>8, TimeKeepsEvInv
<1>9. CASE UNCHANGED evVars
  BY <1>1, <1>9 DEF evVars, EvInv, RowSound, Rows, Dated, Backed
<1> QED
  BY <1>2, <1>3, <1>4, <1>5, <1>6, <1>7, <1>8, <1>9 DEF EvNext

LEMMA EvInitKeepsEvInv == EvInit => EvInv
<1> SUFFICES ASSUME EvInit PROVE EvInv
  OBVIOUS
<1>1. RowSound(evRow) /\ evRow.stale
  BY DEF EvInit, EnrolledRow, RowSound, Rows
<1>2. evReports \in Seq(StoredReports) /\ Len(evReports) <= MaxReports
  BY EvidenceAssumption, EmptySeq DEF EvInit
<1> QED
  BY <1>1, <1>2 DEF EvInv, Backed

(* Whatever order heartbeats, uploads, sweeps, restarts, deletion, re-     *)
(* enrollment and the clock run in, the row of a node is wholly withheld   *)
(* or wholly claimed, a claim rests on a stored report about the version   *)
(* the node runs, and a lost node is flagged (registry.mjs).               *)
THEOREM EvidenceSoundCorrect == EvSpec => []EvidenceSound
<1>1. EvInit => EvInv
  BY EvInitKeepsEvInv
<1>2. EvInv => EvidenceSound
  <2> SUFFICES ASSUME EvInv PROVE EvidenceSound
    OBVIOUS
  <2>1. EvTypeOK
    BY DEF EvInv, RowSound, EvTypeOK, StoredReports
  <2>2. NeverHalfWithheld /\ LostIsAlerted
    BY DEF EvInv, RowSound, NeverHalfWithheld, LostIsAlerted
  <2>3. ClaimsAreBacked
    <3>1. ASSUME evRow.state = "active", ~evRow.stale, DatedInOrder
          PROVE  \E i \in DOMAIN evReports :
                    /\ IdentityMatches(evReports[i].content.identity, evRow.identity)
                    /\ evRow.caps = DeriveCapabilities(evReports[i].content)
                    /\ evRow.compat = DeriveOrbitCompatible(evReports[i].content)
      <4>1. Backed(evRow, evReports) /\ evReports \in Seq(StoredReports)
        BY <3>1 DEF EvInv, DatedInOrder, Dated
      <4>2. evReports # <<>>
        BY <3>1, <4>1 DEF Backed
      <4>3. PICK i \in 1 .. Len(evReports) : LatestReport(evReports) = evReports[i]
        BY <4>1, <4>2, LatestExists
      <4>4. i \in DOMAIN evReports
        BY <4>1
      <4> QED
        BY <3>1, <4>1, <4>3, <4>4 DEF Backed
    <3> QED
      BY <3>1 DEF ClaimsAreBacked
  <2> QED
    BY <2>1, <2>2, <2>3 DEF EvidenceSound
<1> QED
  BY <1>1, <1>2, EvInvStep, PTL DEF EvSpec

(* What is left of a row after it was reconciled is young and the latest.  *)
LEMMA ReconciledIsYoung ==
  ASSUME NEW row, RowSound(row), NEW s \in Seq(StoredReports), NEW d, d = Reconcile(row, s),
         d.state = "active", ~d.stale
  PROVE  /\ LatestReport(s).age <= ReportStaleAfter
         /\ d.caps = DeriveCapabilities(LatestReport(s).content)
<1>1. row \in Rows
  BY DEF RowSound
<1>2. row.state = "active"
  BY DEF Reconcile
<1>3. s # <<>>
  BY <1>1, <1>2 DEF Reconcile, NoEvidence, Rows
<1>4. PICK latest : latest = LatestReport(s)
  OBVIOUS
<1>5. PICK fresh \in BOOLEAN : fresh <=> (/\ IdentityMatches(latest.content.identity, row.identity)
                                        /\ latest.age <= ReportStaleAfter)
  OBVIOUS
<1>6. d = Derived(row, latest.content, fresh)
  <2>1. fresh = (/\ IdentityMatches(latest.content.identity, row.identity)
                 /\ latest.age <= ReportStaleAfter)
    BY <1>5
  <2> QED
    BY <1>2, <1>3, <1>4, <2>1, Zenon DEF Reconcile
<1>7. latest.content \in Reports
  BY <1>3, <1>4, LatestIsStored DEF StoredReports
<1>8. d.stale = ~fresh /\ d.caps = DeriveCapabilities(latest.content)
  BY <1>6, <1>7, DerivedIsSound
<1> QED
  BY <1>4, <1>5, <1>8

(* The statements of a machine request, of a sweep but for its last one,   *)
(* and of reconciliation leave contact alone.                              *)
LEMMA ContactUntouched ==
  ASSUME NEW row \in Rows
  PROVE  /\ \A r, fresh : Derived(row, r, fresh).contact = row.contact
         /\ NoEvidence(row).contact = row.contact
         /\ \A s : AgeEvidence(row, s).contact = row.contact
         /\ \A s : Reconcile(row, s).contact = row.contact
<1>1. \A r, fresh : Derived(row, r, fresh).contact = row.contact
  BY DEF Derived, Rows
<1>2. NoEvidence(row).contact = row.contact
  BY DEF NoEvidence, Rows
<1>3. \A s : AgeEvidence(row, s).contact = row.contact
  BY <1>2 DEF AgeEvidence, Rows
<1>4. \A s : Reconcile(row, s).contact = row.contact
  BY <1>1, <1>2 DEF Reconcile
<1> QED
  BY <1>1, <1>2, <1>3, <1>4

(* In a sweep contact stays, is lost, or is stale after having been fresh. *)
LEMMA SweepAgesContact ==
  ASSUME EvInv, Maintenance
  PROVE  evRow'.contact \in {evRow.contact, "lost"} \/
         (evRow'.contact = "stale" /\ evRow.contact = "fresh")
<1>1. RowSound(evRow) /\ evRow \in Rows /\ evReports \in Seq(StoredReports)
  BY DEF EvInv, RowSound
<1>2. PICK kept : kept = Kept(evReports)
  OBVIOUS
<1>3. kept \in Seq(StoredReports)
  BY <1>1, <1>2, KeptIsStored
<1>4. CASE evRow.state = "active"
  <2>1. PICK aged : aged = AgeEvidence(evRow, kept)
    OBVIOUS
  <2>2. RowSound(aged) /\ aged \in Rows /\ aged.contact = evRow.contact
    BY <1>1, <1>3, <2>1, AgedIsSound, ContactUntouched DEF RowSound
  <2>3. PICK r : r = Reconcile(aged, kept)
    OBVIOUS
  <2>4. r \in Rows /\ r.contact = evRow.contact
    BY <1>3, <2>2, <2>3, ReconciledIsBacked, ContactUntouched DEF RowSound
  <2>5. evRow' = AgeContact(r)
    BY <1>2, <1>4, <2>1, <2>3 DEF Maintenance
  <2> QED
    BY <2>4, <2>5 DEF AgeContact, Rows
<1>5. CASE evRow.state # "active"
  BY <1>2, <1>5 DEF Maintenance
<1> QED
  BY <1>4, <1>5

LEMMA ContactOnlyAgesStep ==
  ASSUME EvInv, [EvNext]_evVars
  PROVE  /\ (evRow.contact # "fresh" /\ evRow'.contact = "fresh") => \E v \in Versions : Heartbeat(v)
         /\ evRow.contact = "lost" => evRow'.contact # "stale"
<1>1. evRow \in Rows
  BY DEF EvInv, RowSound
<1>2. ASSUME NEW v \in Versions, Heartbeat(v) PROVE evRow'.contact = "fresh"
  BY <1>1, <1>2 DEF Heartbeat, WithholdCapabilities, Rows
<1>3. ASSUME NEW r \in Reports, UploadReport(r) PROVE evRow'.contact = evRow.contact
  <2>1. PICK told : told = [evRow EXCEPT !.identity = IF @ = Unset THEN r.identity ELSE @]
    OBVIOUS
  <2>2. told \in Rows /\ told.contact = evRow.contact
    BY <1>1, <2>1, ReportAssumption DEF Rows
  <2>3. evRow' = Derived(told, r, IdentityMatches(r.identity, evRow.identity))
    BY <1>3, <2>1 DEF UploadReport
  <2> QED
    BY <2>2, <2>3, ContactUntouched
<1>4. CASE Maintenance
  BY <1>4, SweepAgesContact
<1>5. CASE HubStarts
  BY <1>1, <1>5, ContactUntouched DEF HubStarts
<1>6. CASE DeleteNode
  BY <1>1, <1>6 DEF DeleteNode, Rows
<1>7. CASE Reenroll
  BY <1>1, <1>7 DEF Reenroll, EnrolledRow
<1>8. CASE EvTick \/ ClockBack
  BY <1>1, <1>8 DEF EvTick, ClockBack, Rows
<1>9. CASE UNCHANGED evVars
  BY <1>9 DEF evVars
<1> QED
  BY <1>2, <1>3, <1>4, <1>5, <1>6, <1>7, <1>8, <1>9 DEF EvNext

LEMMA SweptEvidenceIsYoungStep ==
  ASSUME EvInv, Maintenance, evRow'.state = "active", ~evRow'.stale
  PROVE  /\ LatestReport(evReports').age <= ReportStaleAfter
         /\ evRow'.caps = DeriveCapabilities(LatestReport(evReports').content)
<1>1. RowSound(evRow) /\ evRow \in Rows /\ evReports \in Seq(StoredReports)
  BY DEF EvInv, RowSound
<1>2. PICK kept : kept = Kept(evReports)
  OBVIOUS
<1>3. kept \in Seq(StoredReports) /\ evReports' = kept
  BY <1>1, <1>2, KeptIsStored DEF Maintenance
<1>4. evRow.state = "active"
  BY <1>2 DEF Maintenance
<1>5. PICK aged : aged = AgeEvidence(evRow, kept)
  OBVIOUS
<1>6. RowSound(aged)
  BY <1>1, <1>3, <1>5, AgedIsSound
<1>7. PICK r : r = Reconcile(aged, kept)
  OBVIOUS
<1>8. r \in Rows
  BY <1>3, <1>6, <1>7, ReconciledIsBacked DEF RowSound
<1>9. evRow' = AgeContact(r)
  BY <1>2, <1>4, <1>5, <1>7 DEF Maintenance
<1>10. evRow'.state = r.state /\ evRow'.stale = r.stale /\ evRow'.caps = r.caps
  BY <1>8, <1>9 DEF AgeContact, Rows
<1> QED
  BY <1>3, <1>6, <1>7, <1>10, ReconciledIsYoung

(* Only a heartbeat makes contact better, and what a sweep leaves claimed  *)
(* is the latest report and young, also when the clock was set back        *)
(* (registry.mjs runMaintenance, reconcileNodeCapabilities).               *)
THEOREM EvidenceAgesCorrect == EvSpec => EvidenceAges
<1>1. EvInit => EvInv
  BY EvInitKeepsEvInv
<1>2. EvInv /\ [EvNext]_evVars =>
        [/\ (evRow.contact # "fresh" /\ evRow'.contact = "fresh") => \E v \in Versions : Heartbeat(v)
         /\ evRow.contact = "lost" => evRow'.contact # "stale"]_evVars
  BY ContactOnlyAgesStep
<1>3. EvInv /\ [EvNext]_evVars =>
        [(Maintenance /\ evRow'.state = "active" /\ ~evRow'.stale)
           => /\ LatestReport(evReports').age <= ReportStaleAfter
              /\ evRow'.caps = DeriveCapabilities(LatestReport(evReports').content)]_evVars
  BY SweptEvidenceIsYoungStep
<1> QED
  BY <1>1, <1>2, <1>3, EvInvStep, PTL DEF EvSpec, EvidenceAges, ContactOnlyAges, SweptEvidenceIsYoung

-----------------------------------------------------------------------------
(* The reachability of a route *)

(* A verdict that has been forgotten leaves no judged target of another    *)
(* route behind: without this a late failure would be added to those of an *)
(* origin that is no longer approved.                                      *)
JudgedIsTarget == rtJudged \subseteq {rt.target}

(* The inductive invariant.                                                *)
RtInv == RtTypeOK /\ ReachIsAboutTarget /\ JudgedIsTarget

(* What the operator does to the route forgets what was known of it.       *)
LEMMA ForgettingKeepsRtInv ==
  ASSUME RtInv, NEW r \in Routes, rt' = Forgotten(r), ForgetFailures, rtProbe' \in Probes
  PROVE  RtInv'
<1>1. rt' \in Routes /\ rt'.reach = "unknown"
  BY DEF Forgotten, Routes
<1>2. rtFails' = 0 /\ rtJudged' = {}
  BY DEF ForgetFailures
<1>3. 0 \in 0 .. FailureThreshold
  BY RouteAssumption
<1> QED
  BY <1>1, <1>2, <1>3 DEF RtInv, RtTypeOK, ReachIsAboutTarget, JudgedIsTarget

LEMMA OperatorKeepsRtInv ==
  ASSUME RtInv,
         \/ \E t \in Targets : SetRouteTarget(t)
         \/ RemoveRouteTarget
         \/ \E m \in {"direct", "reverse"} : SetRouteMode(m)
         \/ DeleteRoutedNode
  PROVE  RtInv'
<1>1. rt \in Routes /\ rtProbe \in Probes /\ MaxKeys \in Nat
  BY RouteAssumption DEF RtInv, RtTypeOK
<1>2. ASSUME NEW t \in Targets, SetRouteTarget(t) PROVE RtInv'
  <2>1. [rt EXCEPT !.target = t] \in Routes
    BY <1>1 DEF Routes
  <2> QED
    BY <1>1, <1>2, <2>1, ForgettingKeepsRtInv DEF SetRouteTarget
<1>3. CASE RemoveRouteTarget
  <2>1. [rt EXCEPT !.target = NoTarget] \in Routes
    BY <1>1 DEF Routes
  <2> QED
    BY <1>1, <1>3, <2>1, ForgettingKeepsRtInv DEF RemoveRouteTarget
<1>4. ASSUME NEW m \in {"direct", "reverse"}, SetRouteMode(m) PROVE RtInv'
  <2>1. [rt EXCEPT !.mode = m] \in Routes
    BY <1>1 DEF Routes
  <2> QED
    BY <1>1, <1>4, <2>1, ForgettingKeepsRtInv DEF SetRouteMode
<1>5. CASE DeleteRoutedNode
  <2>1. [rt EXCEPT !.state = "tombstoned", !.key = NoKey] \in Routes
    <3>1. NoKey \in NoKey .. MaxKeys
      BY <1>1 DEF NoKey
    <3> QED
      BY <1>1, <3>1 DEF Routes
  <2> QED
    BY <1>1, <1>5, <2>1, ForgettingKeepsRtInv DEF DeleteRoutedNode
<1> QED
  BY <1>2, <1>3, <1>4, <1>5

(* An answer counts for the route it was asked about, and for no other.    *)
LEMMA AnswerKeepsRtInv ==
  ASSUME RtInv, ProbeAnswered
  PROVE  RtInv'
<1>1. PICK success \in BOOLEAN : RecordProbeResult(success)
  BY DEF ProbeAnswered
<1>2. /\ rt \in Routes /\ rtFails \in 0 .. FailureThreshold /\ rtJudged \subseteq Targets
      /\ FailureThreshold \in Nat \ {0}
      /\ rtProbe \in Probes /\ rtProbe.at = "asked" /\ rtProbe' = Idle
  BY RouteAssumption DEF RtInv, RtTypeOK, ProbeAnswered
<1>3. rtProbe' \in Probes /\ rtProbe.target \in Targets
  BY <1>2 DEF Probes, Idle
<1>4. CASE rt.state # "active"
  BY <1>1, <1>2, <1>3, <1>4 DEF RecordProbeResult, RtInv, RtTypeOK, ReachIsAboutTarget, JudgedIsTarget
<1>5. CASE rt.state = "active" /\ ~SameContext(rtProbe)
  <2>1. rtFails' = 0 /\ UNCHANGED <<rt, rtJudged>>
    BY <1>1, <1>5 DEF RecordProbeResult
  <2> QED
    BY <1>2, <1>3, <2>1 DEF RtInv, RtTypeOK, ReachIsAboutTarget, JudgedIsTarget
<1>6. CASE rt.state = "active" /\ SameContext(rtProbe) /\ success
  <2>1. rtFails' = 0 /\ rt' = [rt EXCEPT !.reach = "ok"] /\ rtJudged' = {rtProbe.target}
    BY <1>1, <1>6 DEF RecordProbeResult
  <2>2. /\ rt' \in Routes /\ rt'.state = "active" /\ rt'.mode = "direct"
        /\ rt'.target = rtProbe.target
    BY <1>2, <1>6, <2>1 DEF Routes, SameContext
  <2> QED
    BY <1>2, <1>3, <2>1, <2>2 DEF RtInv, RtTypeOK, ReachIsAboutTarget, JudgedIsTarget
<1>7. CASE rt.state = "active" /\ SameContext(rtProbe) /\ ~success
  <2>1. /\ rtFails' = IF rtFails < FailureThreshold THEN rtFails + 1 ELSE rtFails
        /\ rt' = [rt EXCEPT !.reach = IF rtFails + 1 >= FailureThreshold
                                      THEN "unreachable" ELSE @]
        /\ rtJudged' = rtJudged \cup {rtProbe.target}
    BY <1>1, <1>7 DEF RecordProbeResult
  <2>2. /\ rt' \in Routes /\ rt'.state = "active" /\ rt'.mode = "direct"
        /\ rt'.target = rtProbe.target /\ rt'.target = rt.target
    BY <1>2, <1>7, <2>1 DEF Routes, SameContext
  <2>3. rtFails' \in 0 .. FailureThreshold
    BY <1>2, <2>1
  <2>4. rtJudged' = {rt'.target}
    BY <2>1, <2>2 DEF RtInv, JudgedIsTarget
  <2> QED
    BY <1>2, <1>3, <2>2, <2>3, <2>4 DEF RtInv, RtTypeOK, ReachIsAboutTarget, JudgedIsTarget
<1> QED
  BY <1>4, <1>5, <1>6, <1>7

LEMMA RtInvStep == RtInv /\ [RtNext]_rtVars => RtInv'
<1> SUFFICES ASSUME RtInv, [RtNext]_rtVars PROVE RtInv'
  OBVIOUS
<1>1. /\ rt \in Routes /\ rtFails \in 0 .. FailureThreshold /\ rtProbe \in Probes
      /\ rtJudged \subseteq Targets /\ MaxKeys \in Nat /\ FailureThreshold \in Nat
      /\ NoTarget \notin Targets
  BY RouteAssumption DEF RtInv, RtTypeOK
<1>2. ASSUME \/ \E t \in Targets : SetRouteTarget(t)
             \/ RemoveRouteTarget
             \/ \E m \in {"direct", "reverse"} : SetRouteMode(m)
             \/ DeleteRoutedNode
      PROVE  RtInv'
  BY <1>2, OperatorKeepsRtInv
<1>3. CASE ReenrollRoutedNode
  <2>1. /\ rt.state = "tombstoned" /\ rt' = Forgotten([rt EXCEPT !.state = "active"])
        /\ UNCHANGED <<rtFails, rtProbe, rtJudged>>
    BY <1>3 DEF ReenrollRoutedNode
  <2>2. rt' \in Routes /\ rt'.reach = "unknown" /\ rt'.target = rt.target
    BY <1>1, <2>1 DEF Forgotten, Routes
  <2>3. rtFails' = 0
    BY <1>1, <2>1 DEF RtInv, ReachIsAboutTarget
  <2> QED
    BY <1>1, <2>1, <2>2, <2>3 DEF RtInv, RtTypeOK, ReachIsAboutTarget, JudgedIsTarget
<1>4. CASE RouteKeyActivates
  <2>1. /\ rt' = [rt EXCEPT !.key = rt.activated + 1, !.activated = @ + 1]
        /\ rt.activated < MaxKeys /\ UNCHANGED <<rtFails, rtProbe, rtJudged>>
    BY <1>4 DEF RouteKeyActivates
  <2>2. /\ rt.activated + 1 \in NoKey .. MaxKeys /\ rt.activated + 1 \in 0 .. MaxKeys
    BY <1>1, <2>1 DEF Routes, NoKey
  <2>3. /\ rt' \in Routes /\ rt'.reach = rt.reach /\ rt'.target = rt.target
        /\ rt'.state = rt.state /\ rt'.mode = rt.mode
    BY <1>1, <2>1, <2>2 DEF Routes
  <2> QED
    BY <1>1, <2>1, <2>3 DEF RtInv, RtTypeOK, ReachIsAboutTarget, JudgedIsTarget
<1>5. CASE ProbeNode
  <2>1. CASE rt.mode = "direct" /\ rt.target # NoTarget /\ rt.key # NoKey
    <3>1. /\ rtProbe' = [at |-> "asked", target |-> rt.target, key |-> rt.key]
          /\ UNCHANGED <<rt, rtFails, rtJudged>>
      BY <1>5, <2>1 DEF ProbeNode
    <3>2. rt.target \in Targets /\ rt.key \in 1 .. MaxKeys
      BY <1>1, <2>1 DEF Routes, NoKey
    <3>3. rtProbe' \in Probes
      BY <3>1, <3>2 DEF Probes
    <3> QED
      BY <1>1, <3>1, <3>3 DEF RtInv, RtTypeOK, ReachIsAboutTarget, JudgedIsTarget
  <2>2. CASE ~(rt.mode = "direct" /\ rt.target # NoTarget /\ rt.key # NoKey)
    BY <1>1, <1>5, <2>2, ForgettingKeepsRtInv DEF ProbeNode
  <2> QED
    BY <2>1, <2>2
<1>6. CASE ProbeAnswered
  BY <1>6, AnswerKeepsRtInv
<1>7. CASE ProbeCutShort
  <2>1. rtProbe' \in Probes
    BY <1>1, <1>7 DEF ProbeCutShort, Probes, Idle
  <2> QED
    BY <1>1, <1>7, <2>1 DEF ProbeCutShort, RtInv, RtTypeOK, ReachIsAboutTarget, JudgedIsTarget
<1>8. CASE HubForgets
  <2>1. rtProbe' \in Probes /\ rtFails' = 0 /\ UNCHANGED <<rt, rtJudged>>
    BY <1>8 DEF HubForgets, Probes
  <2> QED
    BY <1>1, <2>1 DEF RtInv, RtTypeOK, ReachIsAboutTarget, JudgedIsTarget
<1>9. CASE UNCHANGED rtVars
  BY <1>9 DEF rtVars, RtInv, RtTypeOK, ReachIsAboutTarget, JudgedIsTarget
<1> QED
  BY <1>2, <1>3, <1>4, <1>5, <1>6, <1>7, <1>8, <1>9 DEF RtNext

(* However probes and their answers fall between changes of route, mode,   *)
(* key and node, a verdict is about the approved target, and selector and  *)
(* node page show what a request would meet (route-probe.mjs,              *)
(* selector-view.mjs, route-proxy.mjs).                                    *)
THEOREM ReachSoundCorrect == RtSpec => []ReachSound
<1>1. RtInit => RtInv
  <2> SUFFICES ASSUME RtInit PROVE RtInv
    OBVIOUS
  <2>1. MaxKeys \in Nat /\ FailureThreshold \in Nat
    BY RouteAssumption
  <2>2. rt \in Routes /\ rt.reach = "unknown"
    BY <2>1 DEF RtInit, Routes, NoKey
  <2>3. rtProbe \in Probes /\ rtFails = 0 /\ rtJudged = {}
    BY DEF RtInit, Probes
  <2> QED
    BY <2>1, <2>2, <2>3 DEF RtInv, RtTypeOK, ReachIsAboutTarget, JudgedIsTarget
<1>2. RtInv => ReachSound
  <2> SUFFICES ASSUME RtInv PROVE ShownAsRouted
    BY DEF RtInv, ReachSound
  <2>1. rt \in Routes
    BY DEF RtInv, RtTypeOK
  <2>2. ASSUME NEW session \in Sessions, NEW evidence \in Evidences
        PROVE  Eligible(session, evidence) => SelectorReachable(session) = "ok"
    <3>1. ASSUME Eligible(session, evidence)
          PROVE  rt.state = "active" /\ RouteReason(session) = "none"
      BY <3>1 DEF Eligible, EligibilityReason
    <3>2. CASE rt.mode = "direct"
      BY <3>1, <3>2 DEF RouteReason, SelectorReachable
    <3>3. CASE rt.mode # "direct"
      BY <3>1, <3>3 DEF RouteReason, SelectorReachable, Sessions
    <3> QED
      BY <3>2, <3>3
  <2>3. ASSUME NEW session \in Sessions, NEW evidence \in Evidences, rt.mode = "reverse"
        PROVE  (ManagementReason(session, evidence) = "none") = Eligible(session, evidence)
    <3>1. CASE session \in {"offline", "online"}
      <4>1. RouteReason(session) # "none" /\ ManagementReason(session, evidence) # "none"
        BY <2>3, <3>1 DEF RouteReason, ManagementReason
      <4> QED
        BY <4>1 DEF Eligible, EligibilityReason
    <3>2. CASE session \notin {"offline", "online"}
      <4>1. ManagementReason(session, evidence) = EligibilityReason(session, evidence)
        BY <2>3, <3>2 DEF ManagementReason
      <4> QED
        BY <4>1 DEF Eligible
    <3> QED
      BY <3>1, <3>2
  <2> QED
    BY <2>2, <2>3 DEF ShownAsRouted
<1> QED
  BY <1>1, <1>2, RtInvStep, PTL DEF RtSpec

-----------------------------------------------------------------------------
(* The slots and sockets of direct routes *)

FlowRecords ==
  [kind: {"http", "ws"}, browser: BOOLEAN, broken: BOOLEAN,
   hop: [{Hub, Ingress} -> Hops], dsh: [out: Outputs, open: BOOLEAN]]

(* One end of a relay, and one flow over both, as DrTypeOK and             *)
(* SwitchComesFromDsh have them.                                           *)
HopSound(r) ==
  /\ r.phase \in {"dial", "open"} => r.down = "open"
  /\ r.phase = "done" => r.down # "open"

FlowSound(fl) ==
  /\ fl \in FlowRecords
  /\ \A h \in {Hub, Ingress} :
       /\ HopSound(fl.hop[h])
       /\ fl.hop[h].out = "switch" => fl.dsh.out = "switch" /\ fl.kind = "ws"

CarriedIn(flows, h) == {f \in WebFlows : flows[f].hop[h].up = "open"}
SocketsIn(flows, h) == {f \in WebFlows : flows[f].hop[h].up = "open" /\ flows[f].kind = "ws"}

(* The inductive invariant: FlowsInStep, flow by flow.                     *)
DrInv ==
  /\ drFlows \in [WebFlows -> FlowRecords]
  /\ \A f \in WebFlows : FlowSound(drFlows[f])
  /\ drHub = Cardinality(SocketsIn(drFlows, Hub)) /\ drHub <= HubLimit
  /\ drIngress = Cardinality(SocketsIn(drFlows, Ingress)) /\ drIngress <= IngressLimit
  /\ drActive = Cardinality(CarriedIn(drFlows, Hub))

LEMMA OneMoreOrLess ==
  ASSUME NEW S \in SUBSET WebFlows, NEW f \in WebFlows, NEW n \in {0, 1},
         NEW T, T = IF n = 1 THEN S \cup {f} ELSE S \ {f}
  PROVE  /\ Cardinality(S) \in Nat /\ Cardinality(T) \in Nat
         /\ Cardinality(T) = Cardinality(S) + n - (IF f \in S THEN 1 ELSE 0)
<1>1. IsFiniteSet(S) /\ Cardinality(S) \in Nat
  BY DirectAssumption, FS_Subset, FS_CardinalityType
<1>2. CASE n = 1 /\ f \in S
  <2>1. T = S
    BY <1>2
  <2>2. Cardinality(T) = Cardinality(S)
    BY <2>1
  <2>3. Cardinality(S) = Cardinality(S) + n - (IF f \in S THEN 1 ELSE 0)
    BY <1>1, <1>2
  <2> QED
    BY <1>1, <2>2, <2>3
<1>3. CASE n = 1 /\ f \notin S
  <2>1. Cardinality(T) = Cardinality(S) + 1
    BY <1>1, <1>3, FS_AddElement
  <2> QED
    BY <1>1, <1>3, <2>1
<1>4. CASE n = 0 /\ f \in S
  <2>1. Cardinality(T) = Cardinality(S) - 1 /\ Cardinality(T) \in Nat
    BY <1>1, <1>4, FS_RemoveElement, FS_CardinalityType
  <2> QED
    BY <1>1, <1>4, <2>1
<1>5. CASE n = 0 /\ f \notin S
  <2>1. T = S
    BY <1>5
  <2>2. Cardinality(T) = Cardinality(S)
    BY <2>1
  <2>3. Cardinality(S) = Cardinality(S) + n - (IF f \in S THEN 1 ELSE 0)
    BY <1>1, <1>5
  <2> QED
    BY <1>1, <2>2, <2>3
<1> QED
  BY <1>2, <1>3, <1>4, <1>5

(* The slot a flow holds at a relay, and its share of the active flows.    *)
Slot(fl, h)  == IF fl.hop[h].up = "open" /\ fl.kind = "ws" THEN 1 ELSE 0
Share(fl, h) == IF fl.hop[h].up = "open" THEN 1 ELSE 0

(* What the change of one flow does to the counts.                         *)
CountsFollow(flows, flows2, f, fl, h) ==
  /\ Cardinality(CarriedIn(flows, h)) \in Nat
  /\ Cardinality(CarriedIn(flows2, h)) =
       Cardinality(CarriedIn(flows, h)) + Share(fl, h) - Share(flows[f], h)
  /\ Cardinality(SocketsIn(flows, h)) \in Nat
  /\ Cardinality(SocketsIn(flows2, h)) =
       Cardinality(SocketsIn(flows, h)) + Slot(fl, h) - Slot(flows[f], h)

Changed(flows, flows2, f, fl) ==
  \A g \in WebFlows : flows2[g] = IF g = f THEN fl ELSE flows[g]

LEMMA OneFlowChanges ==
  ASSUME NEW flows, NEW f \in WebFlows, NEW fl, NEW flows2, NEW h, Changed(flows, flows2, f, fl)
  PROVE  CountsFollow(flows, flows2, f, fl, h)
<1>1. \A g \in WebFlows : flows2[g] = IF g = f THEN fl ELSE flows[g]
  BY DEF Changed
<1>2. PICK n \in {0, 1} : n = IF fl.hop[h].up = "open" THEN 1 ELSE 0
  OBVIOUS
<1>3. CarriedIn(flows2, h) = IF n = 1 THEN CarriedIn(flows, h) \cup {f} ELSE CarriedIn(flows, h) \ {f}
  BY <1>1, <1>2 DEF CarriedIn
<1>4. f \in CarriedIn(flows, h) <=> flows[f].hop[h].up = "open"
  BY DEF CarriedIn
<1>5. CarriedIn(flows, h) \in SUBSET WebFlows
  BY DEF CarriedIn
<1>6. PICK w \in {0, 1} : w = IF fl.hop[h].up = "open" /\ fl.kind = "ws" THEN 1 ELSE 0
  OBVIOUS
<1>7. SocketsIn(flows2, h) = IF w = 1 THEN SocketsIn(flows, h) \cup {f} ELSE SocketsIn(flows, h) \ {f}
  BY <1>1, <1>6 DEF SocketsIn
<1>8. f \in SocketsIn(flows, h) <=> (flows[f].hop[h].up = "open" /\ flows[f].kind = "ws")
  BY DEF SocketsIn
<1>9. SocketsIn(flows, h) \in SUBSET WebFlows
  BY DEF SocketsIn
<1>10. /\ Cardinality(CarriedIn(flows, h)) \in Nat
       /\ Cardinality(CarriedIn(flows2, h)) =
            Cardinality(CarriedIn(flows, h)) + n
              - (IF f \in CarriedIn(flows, h) THEN 1 ELSE 0)
  <2>1. PICK S, T : S = CarriedIn(flows, h) /\ T = CarriedIn(flows2, h)
    OBVIOUS
  <2>2. S \in SUBSET WebFlows /\ T = IF n = 1 THEN S \cup {f} ELSE S \ {f}
    BY <1>3, <1>5, <2>1
  <2>3. /\ Cardinality(S) \in Nat
        /\ Cardinality(T) = Cardinality(S) + n - (IF f \in S THEN 1 ELSE 0)
    BY <2>2, OneMoreOrLess
  <2> QED
    BY <2>1, <2>3
<1>11. /\ Cardinality(SocketsIn(flows, h)) \in Nat
       /\ Cardinality(SocketsIn(flows2, h)) =
            Cardinality(SocketsIn(flows, h)) + w
              - (IF f \in SocketsIn(flows, h) THEN 1 ELSE 0)
  BY <1>7, <1>9, OneMoreOrLess
<1> QED
  BY <1>2, <1>4, <1>6, <1>8, <1>10, <1>11 DEF CountsFollow, Slot, Share

LEMMA CountsAreNat ==
  ASSUME DrInv
  PROVE  drHub \in Nat /\ drIngress \in Nat /\ drActive \in Nat
<1>1. /\ IsFiniteSet(SocketsIn(drFlows, Hub)) /\ IsFiniteSet(SocketsIn(drFlows, Ingress))
      /\ IsFiniteSet(CarriedIn(drFlows, Hub))
  BY DirectAssumption, FS_Subset DEF SocketsIn, CarriedIn
<1> QED
  BY <1>1, FS_CardinalityType DEF DrInv

(* The one flow that changes must be sound and the counts go with it.      *)
LEMMA FlowKeepsDrInv ==
  ASSUME DrInv, NEW f \in WebFlows, NEW fl, FlowSound(fl), drFlows' = [drFlows EXCEPT ![f] = fl],
         drHub' = drHub + Slot(fl, Hub) - Slot(drFlows[f], Hub),
         drIngress' = drIngress + Slot(fl, Ingress) - Slot(drFlows[f], Ingress),
         drActive' = drActive + Share(fl, Hub) - Share(drFlows[f], Hub),
         drHub' <= drHub \/ drHub < HubLimit,
         drIngress' <= drIngress \/ drIngress < IngressLimit
  PROVE  DrInv'
<1>1. /\ drFlows \in [WebFlows -> FlowRecords] /\ fl \in FlowRecords
      /\ \A g \in WebFlows : FlowSound(drFlows[g])
      /\ HubLimit \in Nat /\ IngressLimit \in Nat
      /\ Hub \in {Hub, Ingress} /\ Ingress \in {Hub, Ingress}
  BY DirectAssumption DEF DrInv, FlowSound
<1>2. PICK flows : flows = drFlows'
  OBVIOUS
<1>3. flows = [drFlows EXCEPT ![f] = fl] /\ flows \in [WebFlows -> FlowRecords]
  BY <1>1, <1>2
<1>4. \A g \in WebFlows : FlowSound(flows[g])
  BY <1>1, <1>3
<1>4a. Changed(drFlows, flows, f, fl)
  BY <1>1, <1>3 DEF Changed
<1>5. /\ Cardinality(CarriedIn(flows, Hub)) = drActive'
      /\ Cardinality(SocketsIn(flows, Hub)) = drHub' /\ drHub \in Nat
  <2>1. CountsFollow(drFlows, flows, f, fl, Hub)
    BY <1>4a, OneFlowChanges
  <2> QED
    BY <2>1 DEF DrInv, CountsFollow
<1>6. Cardinality(SocketsIn(flows, Ingress)) = drIngress' /\ drIngress \in Nat
  <2>1. CountsFollow(drFlows, flows, f, fl, Ingress)
    BY <1>4a, OneFlowChanges
  <2> QED
    BY <2>1 DEF DrInv, CountsFollow
<1>7. drHub' <= HubLimit
  <2>1. /\ Slot(fl, Hub) \in {0, 1} /\ Slot(drFlows[f], Hub) \in {0, 1}
        /\ drHub <= HubLimit /\ drHub \in Nat
    BY <1>5 DEF DrInv, Slot
  <2>2. drHub' <= drHub + 1
    BY <2>1
  <2> QED
    BY <1>1, <2>1, <2>2
<1>8. drIngress' <= IngressLimit
  <2>1. /\ Slot(fl, Ingress) \in {0, 1} /\ Slot(drFlows[f], Ingress) \in {0, 1}
        /\ drIngress <= IngressLimit /\ drIngress \in Nat
    BY <1>6 DEF DrInv, Slot
  <2>2. drIngress' <= drIngress + 1
    BY <2>1
  <2> QED
    BY <1>1, <2>1, <2>2
<1>9. /\ Cardinality(CarriedIn(drFlows', Hub)) = drActive'
      /\ Cardinality(SocketsIn(drFlows', Hub)) = drHub'
      /\ Cardinality(SocketsIn(drFlows', Ingress)) = drIngress'
      /\ drFlows' \in [WebFlows -> FlowRecords] /\ \A g \in WebFlows : FlowSound(drFlows'[g])
  BY <1>2, <1>3, <1>4, <1>5, <1>6
<1> QED
  BY <1>7, <1>8, <1>9 DEF DrInv, CarriedIn, SocketsIn

(* A relay opens nothing: it keeps its client's socket or closes it.       *)
LEMMA RelayedKeepsDrInv ==
  ASSUME DrInv, NEW f \in WebFlows, NEW h \in {Hub, Ingress}, NEW r \in Hops, Relayed(f, h, r),
         HopSound(r), r.up = drFlows[f].hop[h].up \/ r.up = "closed",
         r.out = "switch" => drFlows[f].dsh.out = "switch" /\ drFlows[f].kind = "ws"
  PROVE  DrInv'
<1>1. /\ drFlows \in [WebFlows -> FlowRecords] /\ FlowSound(drFlows[f])
      /\ drFlows[f] \in FlowRecords
  BY DEF DrInv, FlowSound
<1>2. PICK fl : fl = [drFlows[f] EXCEPT !.hop[h] = r]
  OBVIOUS
<1>3. drFlows' = [drFlows EXCEPT ![f] = fl]
  BY <1>1, <1>2 DEF Relayed
<1>4. /\ fl \in FlowRecords /\ fl.kind = drFlows[f].kind /\ fl.dsh = drFlows[f].dsh
      /\ fl.hop[h] = r /\ \A k \in {Hub, Ingress} \ {h} : fl.hop[k] = drFlows[f].hop[k]
  BY <1>1, <1>2 DEF FlowRecords
<1>5. FlowSound(fl)
  <2>1. ASSUME NEW k \in {Hub, Ingress}
        PROVE  /\ HopSound(fl.hop[k])
               /\ fl.hop[k].out = "switch" => fl.dsh.out = "switch" /\ fl.kind = "ws"
    <3>1. CASE k = h
      BY <1>4, <3>1
    <3>2. CASE k # h
      BY <1>1, <1>4, <3>2 DEF FlowSound
    <3> QED
      BY <3>1, <3>2
  <2> QED
    BY <1>4, <2>1 DEF FlowSound
<1>6. Hub # Ingress
  BY DEF Hub, Ingress
<1>7. drHub \in Nat /\ drIngress \in Nat /\ drActive \in Nat
  BY CountsAreNat
<1>8. /\ drHub' = drHub + Slot(fl, Hub) - Slot(drFlows[f], Hub)
      /\ drIngress' = drIngress + Slot(fl, Ingress) - Slot(drFlows[f], Ingress)
      /\ drActive' = drActive + Share(fl, Hub) - Share(drFlows[f], Hub)
      /\ drHub' <= drHub /\ drIngress' <= drIngress
  <2>1. PICK slot : slot = IF drFlows[f].kind = "ws" THEN 1 ELSE 0
    OBVIOUS
  <2>2. CASE drFlows[f].hop[h].up = "open" /\ r.up = "closed"
    <3>1. /\ drHub'     = IF h = Hub THEN drHub - slot ELSE drHub
          /\ drIngress' = IF h = Ingress THEN drIngress - slot ELSE drIngress
          /\ drActive'  = IF h = Hub THEN drActive - 1 ELSE drActive
      BY <2>1, <2>2 DEF Relayed
    <3>2. /\ Slot(drFlows[f], h) = slot /\ Slot(fl, h) = 0
          /\ Share(drFlows[f], h) = 1 /\ Share(fl, h) = 0
      BY <1>4, <2>1, <2>2 DEF Slot, Share
    <3>3. \A k \in {Hub, Ingress} \ {h} :
            Slot(fl, k) = Slot(drFlows[f], k) /\ Share(fl, k) = Share(drFlows[f], k)
      BY <1>4 DEF Slot, Share
    <3>4. \A k \in {Hub, Ingress} : Slot(fl, k) \in {0, 1} /\ Share(fl, k) \in {0, 1}
      BY DEF Slot, Share
    <3>5. CASE h = Hub
      <4>1. drHub' = drHub - slot /\ drIngress' = drIngress /\ drActive' = drActive - 1
        BY <1>6, <3>1, <3>5
      <4>2. Slot(fl, Ingress) = Slot(drFlows[f], Ingress)
        BY <1>6, <3>3, <3>5
      <4> QED
        BY <1>7, <2>1, <3>2, <3>4, <3>5, <4>1, <4>2
    <3>6. CASE h = Ingress
      <4>1. drHub' = drHub /\ drIngress' = drIngress - slot /\ drActive' = drActive
        BY <1>6, <3>1, <3>6
      <4>2. Slot(fl, Hub) = Slot(drFlows[f], Hub) /\ Share(fl, Hub) = Share(drFlows[f], Hub)
        BY <1>6, <3>3, <3>6
      <4> QED
        BY <1>7, <2>1, <3>2, <3>4, <3>6, <4>1, <4>2
    <3> QED
      BY <3>5, <3>6
  <2>3. CASE ~ (drFlows[f].hop[h].up = "open" /\ r.up = "closed")
    <3>1. drHub' = drHub - 0 /\ drIngress' = drIngress - 0 /\ drActive' = drActive
      BY <1>7, <2>3 DEF Relayed
    <3>2. \A k \in {Hub, Ingress} :
            Slot(fl, k) = Slot(drFlows[f], k) /\ Share(fl, k) = Share(drFlows[f], k)
      BY <1>4, <2>3 DEF Slot, Share
    <3>3. \A k \in {Hub, Ingress} : Slot(fl, k) \in {0, 1} /\ Share(fl, k) \in {0, 1}
      BY DEF Slot, Share
    <3> QED
      BY <1>7, <3>1, <3>2, <3>3
  <2> QED
    BY <2>2, <2>3
<1> QED
  BY <1>3, <1>5, <1>8, FlowKeepsDrInv

LEMMA RelayNextKeepsDrInv ==
  ASSUME DrInv, NEW f \in WebFlows, NEW h \in {Hub, Ingress}, RelayNext(f, h)
  PROVE  DrInv'
<1>1. PICK fl : fl = drFlows[f]
  OBVIOUS
<1>2. PICK r : r = fl.hop[h]
  OBVIOUS
<1>3. /\ fl \in FlowRecords /\ fl.hop \in [{Hub, Ingress} -> Hops] /\ FlowSound(fl)
      /\ r \in Hops /\ HopSound(r)
      /\ r.out = "switch" => fl.dsh.out = "switch" /\ fl.kind = "ws"
  <2>1. FlowSound(fl)
    BY <1>1 DEF DrInv
  <2> QED
    BY <1>2, <2>1 DEF FlowSound, FlowRecords
<1>4. ASSUME NEW q, Relayed(f, h, q), q \in Hops, HopSound(q), q.up = r.up \/ q.up = "closed",
             q.out = "switch" => fl.dsh.out = "switch" /\ fl.kind = "ws"
      PROVE  DrInv'
  BY <1>1, <1>2, <1>4, RelayedKeepsDrInv
<1>5. /\ TornDown(r) \in Hops /\ HopSound(TornDown(r)) /\ TornDown(r).out = r.out
      /\ TornDown(r).up = r.up \/ TornDown(r).up = "closed"
  BY <1>3 DEF TornDown, Closed, Hops, Ends, Outputs, HopSound
<1>6. CASE RelayHead(f, h)
  <2>1. PICK o : o = ServerOut(fl, h)
    OBVIOUS
  <2>2. r.phase = "dial" /\ r.down = "open"
        /\ Relayed(f, h, IF o = "switch" /\ fl.kind = "ws" THEN Joined(r) ELSE Answered(r))
    BY <1>1, <1>2, <1>6, <2>1 DEF RelayHead
  <2>3. CASE o = "switch" /\ fl.kind = "ws"
    <3>1. fl.dsh.out = "switch"
      BY <1>3, <2>1, <2>3 DEF ServerOut, FlowSound
    <3>2. Joined(r) \in Hops /\ HopSound(Joined(r)) /\ Joined(r).up = r.up
      BY <1>3, <2>2 DEF Joined, Hops, Outputs, HopSound
    <3> QED
      BY <1>4, <2>2, <2>3, <3>1, <3>2
  <2>4. CASE ~(o = "switch" /\ fl.kind = "ws")
    <3>1. /\ Answered(r) \in Hops /\ HopSound(Answered(r)) /\ Answered(r).up = r.up
          /\ Answered(r).out = "head"
      BY <1>3, <2>2 DEF Answered, Hops, Outputs, HopSound
    <3> QED
      BY <1>4, <2>2, <2>4, <3>1
  <2> QED
    BY <2>3, <2>4
<1>7. CASE RelayEnd(f, h)
  <2>1. PICK q : q = [TornDown(r) EXCEPT !.out = "whole"]
    OBVIOUS
  <2>2. Relayed(f, h, q)
    BY <1>1, <1>2, <1>7, <2>1 DEF RelayEnd
  <2>3. q \in Hops /\ HopSound(q) /\ q.up = TornDown(r).up /\ q.out = "whole"
    BY <1>5, <2>1 DEF Hops, Outputs, HopSound
  <2> QED
    BY <1>4, <1>5, <2>2, <2>3
<1>8. CASE RelayFails(f, h)
  <2>1. PICK q : q = Refused(r)
    OBVIOUS
  <2>2. Relayed(f, h, q)
    BY <1>1, <1>2, <1>8, <2>1 DEF RelayFails
  <2>3. q \in Hops /\ HopSound(q) /\ q.up = "closed" /\ q.out = "whole"
    BY <1>5, <2>1 DEF Refused, Hops, Outputs, Ends, HopSound
  <2> QED
    BY <1>4, <2>2, <2>3
<1>9. CASE RelayCut(f, h) \/ RelayIdle(f, h)
  <2>1. PICK q : q = [r EXCEPT !.down = "closed"]
    OBVIOUS
  <2>2. Relayed(f, h, q) /\ r.phase = "answer"
    BY <1>1, <1>2, <1>9, <2>1 DEF RelayCut, RelayIdle
  <2>3. q \in Hops /\ HopSound(q) /\ q.up = r.up /\ q.out = r.out
    BY <1>3, <2>1, <2>2 DEF Hops, Ends, HopSound
  <2> QED
    BY <1>3, <1>4, <2>2, <2>3
<1>10. CASE RelayTorn(f, h) \/ RelayDrained(f, h)
  <2>1. Relayed(f, h, TornDown(r))
    BY <1>1, <1>2, <1>10 DEF RelayTorn, RelayDrained
  <2> QED
    BY <1>3, <1>4, <1>5, <2>1
<1>11. CASE RelayClientGone(f, h)
  <2>1. PICK q : q = [r EXCEPT !.up = "closed"]
    OBVIOUS
  <2>2. Relayed(f, h, TornDown(r)) \/ Relayed(f, h, q)
    BY <1>1, <1>2, <1>11, <2>1 DEF RelayClientGone
  <2>3. q \in Hops /\ HopSound(q) /\ q.up = "closed" /\ q.out = r.out
    BY <1>3, <2>1 DEF Hops, Ends, HopSound
  <2> QED
    BY <1>3, <1>4, <1>5, <2>2, <2>3
<1> QED
  BY <1>6, <1>7, <1>8, <1>9, <1>10, <1>11 DEF RelayNext

(* A relay that takes a flow on had no socket of it.                       *)
LEMMA DialKeepsDrInv ==
  ASSUME DrInv, NEW f \in WebFlows, NEW h \in {Hub, Ingress}, NEW fl, FlowSound(fl),
         fl.hop[h] = NoHop, drFlows[f].hop[h] = NoHop,
         \A k \in {Hub, Ingress} \ {h} :
           /\ Slot(fl, k) = Slot(drFlows[f], k) /\ Share(fl, k) = Share(drFlows[f], k),
         fl.kind = "ws" => IF h = Hub THEN HubFree ELSE IngressFree,
         Dials(f, fl, h)
  PROVE  DrInv'
<1> DEFINE hop == [NoHop EXCEPT !.up = "open", !.down = "open", !.phase = "dial"]
<1>1. PICK to : to = [fl EXCEPT !.hop[h] = hop]
  OBVIOUS
<1>2. drFlows' = [drFlows EXCEPT ![f] = to]
  BY <1>1 DEF Dials
<1>3. fl \in FlowRecords
  BY DEF FlowSound
<1>4. hop \in Hops /\ HopSound(hop) /\ hop.out = "nothing" /\ hop.up = "open"
  BY DEF NoHop, Hops, Ends, Outputs, HopSound
<1>5. /\ to \in FlowRecords /\ to.kind = fl.kind /\ to.dsh = fl.dsh
      /\ to.hop[h] = hop /\ \A k \in {Hub, Ingress} \ {h} : to.hop[k] = fl.hop[k]
  <2> HIDE DEF hop
  <2> QED
    BY <1>1, <1>3, <1>4 DEF FlowRecords
<1>6. FlowSound(to)
  <2>1. ASSUME NEW k \in {Hub, Ingress}
        PROVE  /\ HopSound(to.hop[k])
               /\ to.hop[k].out = "switch" => to.dsh.out = "switch" /\ to.kind = "ws"
    <3> HIDE DEF hop
    <3>1. CASE k = h
      BY <1>4, <1>5, <3>1
    <3>2. CASE k # h
      BY <1>5, <3>2 DEF FlowSound
    <3> QED
      BY <3>1, <3>2
  <2> QED
    BY <1>5, <2>1 DEF FlowSound
<1>7. drHub \in Nat /\ drIngress \in Nat /\ drActive \in Nat /\ Hub # Ingress
  BY CountsAreNat DEF Hub, Ingress
<1>8. PICK slot \in {0, 1} : slot = IF fl.kind = "ws" THEN 1 ELSE 0
  OBVIOUS
<1>9. /\ drHub'     = IF h = Hub THEN drHub + slot ELSE drHub
      /\ drIngress' = IF h = Ingress THEN drIngress + slot ELSE drIngress
      /\ drActive'  = IF h = Hub THEN drActive + 1 ELSE drActive
  BY <1>8 DEF Dials
<1>10. /\ Slot(to, h) = slot /\ Slot(drFlows[f], h) = 0
       /\ Share(to, h) = 1 /\ Share(drFlows[f], h) = 0
  BY <1>4, <1>5, <1>8 DEF Slot, Share, NoHop
<1>11. \A k \in {Hub, Ingress} \ {h} :
         Slot(to, k) = Slot(drFlows[f], k) /\ Share(to, k) = Share(drFlows[f], k)
  BY <1>5 DEF Slot, Share
<1>12. \A k \in {Hub, Ingress} : Slot(drFlows[f], k) \in {0, 1} /\ Share(drFlows[f], k) \in {0, 1}
  BY DEF Slot, Share
<1>13. slot = 1 => IF h = Hub THEN drHub < HubLimit ELSE drIngress < IngressLimit
  BY <1>8 DEF HubFree, IngressFree
<1> HIDE DEF hop
<1>14. CASE h = Hub
  <2>1. drHub' = drHub + slot /\ drIngress' = drIngress /\ drActive' = drActive + 1
    BY <1>7, <1>9, <1>14
  <2>2. Slot(to, Ingress) = Slot(drFlows[f], Ingress)
    BY <1>7, <1>11, <1>14
  <2>3. /\ drHub' = drHub + Slot(to, Hub) - Slot(drFlows[f], Hub)
        /\ drIngress' = drIngress + Slot(to, Ingress) - Slot(drFlows[f], Ingress)
        /\ drActive' = drActive + Share(to, Hub) - Share(drFlows[f], Hub)
    BY <1>7, <1>10, <1>12, <1>14, <2>1, <2>2
  <2>4. drIngress' <= drIngress /\ (drHub' <= drHub \/ drHub < HubLimit)
    BY <1>7, <1>13, <1>14, <2>1
  <2> QED
    BY <1>2, <1>6, <2>3, <2>4, FlowKeepsDrInv
<1>15. CASE h = Ingress
  <2>1. drHub' = drHub /\ drIngress' = drIngress + slot /\ drActive' = drActive
    BY <1>7, <1>9, <1>15
  <2>2. Slot(to, Hub) = Slot(drFlows[f], Hub) /\ Share(to, Hub) = Share(drFlows[f], Hub)
    BY <1>7, <1>11, <1>15
  <2>3. /\ drHub' = drHub + Slot(to, Hub) - Slot(drFlows[f], Hub)
        /\ drIngress' = drIngress + Slot(to, Ingress) - Slot(drFlows[f], Ingress)
        /\ drActive' = drActive + Share(to, Hub) - Share(drFlows[f], Hub)
    BY <1>7, <1>10, <1>12, <1>15, <2>1, <2>2
  <2>4. drHub' <= drHub /\ (drIngress' <= drIngress \/ drIngress < IngressLimit)
    BY <1>7, <1>13, <1>15, <2>1
  <2> QED
    BY <1>2, <1>6, <2>3, <2>4, FlowKeepsDrInv
<1> QED
  BY <1>14, <1>15

(* A step that leaves every socket to a relay as it was.                   *)
LEMMA QuietKeepsDrInv ==
  ASSUME DrInv, NEW f \in WebFlows, NEW fl, FlowSound(fl), drFlows' = [drFlows EXCEPT ![f] = fl],
         \A k \in {Hub, Ingress} :
           /\ Slot(fl, k) = Slot(drFlows[f], k) /\ Share(fl, k) = Share(drFlows[f], k),
         UNCHANGED <<drHub, drIngress, drActive>>
  PROVE  DrInv'
<1>1. drHub \in Nat /\ drIngress \in Nat /\ drActive \in Nat
  BY CountsAreNat
<1>2. \A k \in {Hub, Ingress} : Slot(drFlows[f], k) \in {0, 1} /\ Share(drFlows[f], k) \in {0, 1}
  BY DEF Slot, Share
<1>3. /\ drHub' = drHub + Slot(fl, Hub) - Slot(drFlows[f], Hub)
      /\ drIngress' = drIngress + Slot(fl, Ingress) - Slot(drFlows[f], Ingress)
      /\ drActive' = drActive + Share(fl, Hub) - Share(drFlows[f], Hub)
      /\ drHub' <= drHub /\ drIngress' <= drIngress
  BY <1>1, <1>2
<1> QED
  BY <1>3, FlowKeepsDrInv

LEMMA WorldKeepsDrInv ==
  ASSUME DrInv, NEW f \in WebFlows,
         BrowserGoes(f) \/ LinkBreaks(f) \/ DshWrites(f) \/ DshLeaves(f)
  PROVE  DrInv'
<1>1. PICK fl : fl = drFlows[f]
  OBVIOUS
<1>2. FlowSound(fl) /\ fl \in FlowRecords
  BY <1>1 DEF DrInv, FlowSound
<1>3. ASSUME NEW to, FlowSound(to), to.hop = fl.hop, to.kind = fl.kind, Only(f, to) PROVE DrInv'
  BY <1>1, <1>3, QuietKeepsDrInv DEF Only, Slot, Share
<1>4. CASE BrowserGoes(f)
  <2>1. PICK to : to = [fl EXCEPT !.browser = FALSE]
    OBVIOUS
  <2>2. to \in FlowRecords /\ to.hop = fl.hop /\ to.kind = fl.kind /\ to.dsh = fl.dsh
    BY <1>2, <2>1 DEF FlowRecords
  <2>3. FlowSound(to)
    BY <1>2, <2>2 DEF FlowSound
  <2> QED
    BY <1>1, <1>3, <1>4, <2>1, <2>2, <2>3 DEF BrowserGoes
<1>5. CASE LinkBreaks(f)
  <2>1. PICK to : to = [fl EXCEPT !.broken = TRUE]
    OBVIOUS
  <2>2. to \in FlowRecords /\ to.hop = fl.hop /\ to.kind = fl.kind /\ to.dsh = fl.dsh
    BY <1>2, <2>1 DEF FlowRecords
  <2>3. FlowSound(to)
    BY <1>2, <2>2 DEF FlowSound
  <2> QED
    BY <1>1, <1>3, <1>5, <2>1, <2>2, <2>3 DEF LinkBreaks
<1>6. CASE DshLeaves(f)
  <2>1. PICK to : to = [fl EXCEPT !.dsh.open = FALSE]
    OBVIOUS
  <2>2. /\ to \in FlowRecords /\ to.hop = fl.hop /\ to.kind = fl.kind
        /\ to.dsh.out = fl.dsh.out
    BY <1>2, <2>1 DEF FlowRecords
  <2>3. FlowSound(to)
    BY <1>2, <2>2 DEF FlowSound
  <2> QED
    BY <1>1, <1>3, <1>6, <2>1, <2>2, <2>3 DEF DshLeaves
<1>7. CASE DshWrites(f)
  <2>1. PICK o \in Outputs : Only(f, [fl EXCEPT !.dsh.out = o]) /\ fl.dsh.out \in {"nothing", "head"}
    BY <1>1, <1>7 DEF DshWrites
  <2>2. PICK to : to = [fl EXCEPT !.dsh.out = o]
    OBVIOUS
  <2>3. to \in FlowRecords /\ to.hop = fl.hop /\ to.kind = fl.kind
    BY <1>2, <2>2 DEF FlowRecords
  <2>4. \A h \in {Hub, Ingress} : fl.hop[h].out # "switch"
    BY <1>2, <2>1 DEF FlowSound
  <2>5. FlowSound(to)
    BY <1>2, <2>3, <2>4 DEF FlowSound
  <2> QED
    BY <1>3, <2>1, <2>2, <2>3, <2>5
<1> QED
  BY <1>4, <1>5, <1>6, <1>7

LEMMA DrInvStep == DrInv /\ [DrNext]_drVars => DrInv'
<1> SUFFICES ASSUME DrInv, [DrNext]_drVars PROVE DrInv'
  OBVIOUS
<1>1. NoFlow \in FlowRecords /\ FlowSound(NoFlow) /\ \A h \in {Hub, Ingress} : NoFlow.hop[h] = NoHop
  BY DEF NoFlow, NoHop, FlowRecords, Hops, Ends, Outputs, FlowSound, HopSound
<1>2. Hub \in {Hub, Ingress} /\ Ingress \in {Hub, Ingress} /\ Hub # Ingress
  BY DEF Hub, Ingress
<1>3. ASSUME NEW f \in WebFlows, HubAcceptsRequest(f) \/ HubAcceptsUpgrade(f)
      PROVE  DrInv'
  <2>1. PICK kind \in {"http", "ws"} :
          /\ Dials(f, [NoFlow EXCEPT !.browser = TRUE, !.kind = kind], Hub)
          /\ kind = "ws" => HubFree
    <3>1. CASE HubAcceptsUpgrade(f)
      BY <3>1 DEF HubAcceptsUpgrade
    <3>2. CASE HubAcceptsRequest(f)
      <4>1. [NoFlow EXCEPT !.browser = TRUE] = [NoFlow EXCEPT !.browser = TRUE, !.kind = "http"]
        <5>1. NoFlow.kind = "http"
          BY DEF NoFlow
        <5> QED
          BY <1>1, <5>1 DEF FlowRecords
      <4>2. Dials(f, [NoFlow EXCEPT !.browser = TRUE, !.kind = "http"], Hub)
        BY <3>2, <4>1 DEF HubAcceptsRequest
      <4> QED
        BY <4>2
    <3> QED
      BY <1>3, <3>1, <3>2
  <2>2. PICK fl : fl = [NoFlow EXCEPT !.browser = TRUE, !.kind = kind]
    OBVIOUS
  <2>3. fl \in FlowRecords /\ fl.hop = NoFlow.hop /\ fl.dsh = NoFlow.dsh /\ fl.kind = kind
    BY <1>1, <2>2 DEF FlowRecords
  <2>4. \A h \in {Hub, Ingress} : fl.hop[h] = NoHop /\ NoHop.out = "nothing" /\ HopSound(NoHop)
    BY <1>1, <2>3 DEF NoHop, HopSound
  <2>5. FlowSound(fl)
    BY <2>3, <2>4 DEF FlowSound
  <2>6. drFlows[f] = NoFlow
    BY <1>3 DEF HubAcceptsRequest, HubAcceptsUpgrade
  <2>7. \A k \in {Hub, Ingress} :
          /\ Slot(fl, k) = Slot(drFlows[f], k) /\ Share(fl, k) = Share(drFlows[f], k)
    BY <1>1, <2>4, <2>6 DEF Slot, Share, NoHop
  <2> QED
    BY <1>1, <1>2, <2>1, <2>2, <2>3, <2>4, <2>5, <2>6, <2>7, DialKeepsDrInv
<1>4. ASSUME NEW f \in WebFlows, IngressAccepts(f) PROVE DrInv'
  <2>1. FlowSound(drFlows[f])
    BY DEF DrInv
  <2>2. /\ drFlows[f].hop[Ingress] = NoHop /\ Dials(f, drFlows[f], Ingress)
        /\ drFlows[f].kind = "ws" => IngressFree
    BY <1>4 DEF IngressAccepts, ReachesIngress
  <2> QED
    BY <1>2, <2>1, <2>2, DialKeepsDrInv
<1>5. ASSUME NEW f \in WebFlows, IngressRefuses(f) PROVE DrInv'
  <2>1. FlowSound(drFlows[f]) /\ drFlows[f] \in FlowRecords /\ drFlows \in [WebFlows -> FlowRecords]
    BY DEF DrInv, FlowSound
  <2>2. PICK q : q = Refused(NoHop)
    OBVIOUS
  <2>3. q \in Hops /\ HopSound(q) /\ q.up = "closed" /\ q.out = "whole"
    BY <2>2 DEF Refused, TornDown, Closed, NoHop, Hops, Ends, Outputs, HopSound
  <2>4. PICK fl : fl = [drFlows[f] EXCEPT !.hop[Ingress] = q]
    OBVIOUS
  <2>5. /\ drFlows' = [drFlows EXCEPT ![f] = fl] /\ UNCHANGED <<drHub, drIngress, drActive>>
        /\ drFlows[f].hop[Ingress] = NoHop
    BY <1>5, <2>1, <2>2, <2>4 DEF IngressRefuses, ReachesIngress
  <2>6. /\ fl \in FlowRecords /\ fl.kind = drFlows[f].kind /\ fl.dsh = drFlows[f].dsh
        /\ fl.hop[Ingress] = q /\ fl.hop[Hub] = drFlows[f].hop[Hub]
    BY <1>2, <2>1, <2>3, <2>4 DEF FlowRecords
  <2>7. FlowSound(fl)
    BY <2>1, <2>3, <2>6 DEF FlowSound
  <2>8. \A k \in {Hub, Ingress} :
          /\ Slot(fl, k) = Slot(drFlows[f], k) /\ Share(fl, k) = Share(drFlows[f], k)
    BY <2>3, <2>5, <2>6 DEF Slot, Share, NoHop
  <2> QED
    BY <2>5, <2>7, <2>8, QuietKeepsDrInv
<1>6. ASSUME NEW f \in WebFlows, HubProxies(f) \/ IngressForwards(f) PROVE DrInv'
  BY <1>2, <1>6, RelayNextKeepsDrInv DEF HubProxies, IngressForwards
<1>7. ASSUME NEW f \in WebFlows, BrowserGoes(f) \/ LinkBreaks(f) \/ DshWrites(f) \/ DshLeaves(f)
      PROVE  DrInv'
  BY <1>7, WorldKeepsDrInv
<1>8. CASE UNCHANGED drVars
  BY <1>8 DEF drVars, DrInv, CarriedIn, SocketsIn
<1> QED
  BY <1>3, <1>4, <1>5, <1>6, <1>7, <1>8 DEF DrNext

(* Whichever of close, error, refusal, timeout and teardown ends a flow at *)
(* either relay, the trackers count the sockets there are and keep their   *)
(* limits, and no browser is told of a switch DSH did not make             *)
(* (route-proxy.mjs, route-ingress.mjs, flow-tracker.mjs).                 *)
THEOREM FlowsInStepCorrect == DrSpec => []FlowsInStep
<1>1. DrInit => DrInv
  <2> SUFFICES ASSUME DrInit PROVE DrInv
    OBVIOUS
  <2>1. NoFlow \in FlowRecords /\ FlowSound(NoFlow)
    BY DEF NoFlow, NoHop, FlowRecords, Hops, Ends, Outputs, FlowSound, HopSound
  <2>2. \A h \in {Hub, Ingress} : NoFlow.hop[h].up # "open"
    BY DEF NoFlow, NoHop
  <2>3. SocketsIn(drFlows, Hub) = {} /\ SocketsIn(drFlows, Ingress) = {}
        /\ CarriedIn(drFlows, Hub) = {}
    BY <2>2 DEF DrInit, SocketsIn, CarriedIn
  <2>4. drFlows \in [WebFlows -> FlowRecords] /\ \A f \in WebFlows : FlowSound(drFlows[f])
    BY <2>1 DEF DrInit
  <2>5. drHub = 0 /\ drIngress = 0 /\ drActive = 0 /\ 0 <= HubLimit /\ 0 <= IngressLimit
    BY DirectAssumption DEF DrInit
  <2> QED
    BY <2>3, <2>4, <2>5, FS_EmptySet DEF DrInv
<1>2. DrInv => FlowsInStep
  <2> SUFFICES ASSUME DrInv PROVE FlowsInStep
    OBVIOUS
  <2>1. DrTypeOK
    BY DEF DrInv, DrTypeOK, FlowSound, HopSound, FlowRecords
  <2>2. \A h \in {Hub, Ingress} :
          Carried(h) = CarriedIn(drFlows, h) /\ Sockets(h) = SocketsIn(drFlows, h)
    BY DEF Carried, CarriedIn, Sockets, SocketsIn
  <2>3. SlotsAreSockets
    BY <2>2 DEF DrInv, SlotsAreSockets
  <2>4. SwitchComesFromDsh
    BY DEF DrInv, FlowSound, SwitchComesFromDsh
  <2> QED
    BY <2>1, <2>3, <2>4 DEF FlowsInStep
<1> QED
  BY <1>1, <1>2, DrInvStep, PTL DEF DrSpec

-----------------------------------------------------------------------------
(* The queues of a body *)

HubEnds ==
  [written: Nat, before: Nat, waiting: BOOLEAN, queued: Nat, body: Nat,
   reader: {"starting", "waiting", "holding"}, paused: BOOLEAN, ended: BOOLEAN]

NodeEnds ==
  [written: Nat, paused: BOOLEAN, pending: Nat, request: Nat, waiting: BOOLEAN, ending: BOOLEAN]

FcTypeOK ==
  /\ fcWay \in {"down", "up"} /\ fcLeft \in Nat /\ fcNet \in Nat /\ fcGot \in Nat
  /\ fcHub \in HubEnds /\ fcNode \in NodeEnds
  /\ fcRests \in BOOLEAN /\ fcEnd \in {"open", "done", "stalled", "overrun"}

(* What the marks rest on: a producer that is not held back has room, and  *)
(* one that waits for a drain began at the mark.                           *)
RoomUnlessHeld ==
  /\ fcHub.paused \/ fcHub.queued < SoftMark
  /\ fcNode.paused \/ fcNode.written <= SoftMark
  /\ IF fcHub.waiting THEN fcHub.before <= SoftMark + 1 ELSE fcHub.written <= SoftMark
  /\ fcHub.reader = "waiting" => fcHub.body = 0

(* A body goes one way, and its end is told behind the last frame.         *)
OneWay ==
  /\ fcWay = "down" => fcHub.written = 0 /\ fcNode.pending = 0 /\ fcNode.request = 0
  /\ fcWay = "up" => fcHub.queued = 0 /\ fcNode.written = 0 /\ fcHub.reader = "starting"
  /\ fcHub.ended => fcLeft = 0 /\ fcNet = 0 /\ fcHub.written = 0 /\ fcNode.written = 0
  /\ fcNode.ending => fcHub.ended

(* The inductive invariant.                                                *)
FcInv == FcTypeOK /\ BodyKept /\ RoomUnlessHeld /\ OneWay

LEMMA MarksAreNat ==
  /\ BodyFrames \in Nat /\ InFlight \in Nat
  /\ SoftMark \in Nat /\ ResumeBelow \in Nat /\ HardCap \in Nat
  /\ 0 < ResumeBelow /\ ResumeBelow < SoftMark /\ SoftMark + 1 < HardCap
BY FlowControlAssumption

(* Pumping moves what it moves and nothing else.                           *)
LEMMA PumpedMoves ==
  ASSUME NEW n \in NodeEnds, n.request <= SoftMark, NEW p, p = Pumped(n)
  PROVE  /\ p \in NodeEnds /\ p.written = n.written /\ p.paused = n.paused
         /\ p.pending + p.request = n.pending + n.request
         /\ p.request <= SoftMark
         /\ p.ending => n.ending
         /\ n.ending /\ ~p.ending => p.pending = 0
<1>1. PICK room \in Nat : room = (IF n.request < SoftMark THEN SoftMark - n.request ELSE 0)
  BY MarksAreNat DEF NodeEnds
<1>2. PICK moved : moved = Lower(n.pending, room)
  OBVIOUS
<1>3. moved \in Nat /\ moved <= n.pending /\ moved <= room
  BY <1>1, <1>2 DEF Lower, NodeEnds
<1>4. PICK w \in BOOLEAN : w <=> n.pending > moved
  OBVIOUS
<1>5. PICK e \in BOOLEAN : e <=> n.ending /\ n.pending > moved
  OBVIOUS
<1>6. p = [n EXCEPT !.pending = n.pending - moved, !.request = n.request + moved,
                    !.waiting = w, !.ending = e]
  <2>1. w = (n.pending > moved) /\ e = (n.ending /\ n.pending > moved)
    BY <1>4, <1>5
  <2>2. p = [n EXCEPT !.pending = n.pending - moved, !.request = n.request + moved,
                      !.waiting = (n.pending > moved), !.ending = (n.ending /\ n.pending > moved)]
    BY <1>1, <1>2, Zenon DEF Pumped
  <2> QED
    BY <2>1, <2>2, Zenon
<1>7. n.pending - moved \in Nat /\ n.request + moved \in Nat /\ n.request + moved <= SoftMark
  BY <1>1, <1>3, MarksAreNat DEF NodeEnds
<1>8. /\ p.written = n.written /\ p.paused = n.paused
      /\ p.pending = n.pending - moved /\ p.request = n.request + moved
      /\ p.ending = e /\ p \in NodeEnds
  BY <1>6, <1>7 DEF NodeEnds
<1>9. n.pending \in Nat /\ n.request \in Nat
  BY DEF NodeEnds
<1>10. p.pending + p.request = n.pending + n.request /\ p.request <= SoftMark
  BY <1>3, <1>7, <1>8, <1>9
<1>11. p.ending => n.ending
  BY <1>5, <1>8
<1>12. n.ending /\ ~p.ending => p.pending = 0
  BY <1>3, <1>5, <1>8, <1>9
<1> QED
  BY <1>8, <1>10, <1>11, <1>12

(* The parts of the invariant, for the steps below.                        *)
LEMMA FcParts ==
  ASSUME FcInv
  PROVE  /\ fcHub.written \in Nat /\ fcHub.before \in Nat /\ fcHub.queued \in Nat
         /\ fcHub.body \in Nat /\ fcHub.waiting \in BOOLEAN /\ fcHub.paused \in BOOLEAN
         /\ fcHub.ended \in BOOLEAN /\ fcHub.reader \in {"starting", "waiting", "holding"}
         /\ fcNode.written \in Nat /\ fcNode.pending \in Nat /\ fcNode.request \in Nat
         /\ fcNode.paused \in BOOLEAN /\ fcNode.waiting \in BOOLEAN /\ fcNode.ending \in BOOLEAN
         /\ fcLeft \in Nat /\ fcNet \in Nat /\ fcGot \in Nat
BY DEF FcInv, FcTypeOK, HubEnds, NodeEnds

LEMMA DshGivesKeepsFcInv == ASSUME FcInv, DshGives PROVE FcInv'
<1>1. /\ fcWay = "down" /\ fcEnd = "open" /\ fcLeft > 0 /\ ~fcNode.paused
      /\ fcLeft' = fcLeft - 1
      /\ fcNode' = [fcNode EXCEPT !.written = fcNode.written + 1,
                                  !.paused = fcNode.written + 1 > SoftMark]
      /\ fcEnd' = IF fcNode.written + 1 > HardCap THEN "overrun" ELSE "open"
      /\ UNCHANGED <<fcWay, fcHub, fcNet, fcGot, fcRests>>
  BY DEF DshGives, Open, PausesSource
<1>2. fcNode.written <= SoftMark
  BY <1>1 DEF FcInv, RoomUnlessHeld
<1>3. fcNode.written + 1 \in Nat /\ fcNode.written + 1 <= SoftMark + 1 /\ fcLeft - 1 \in Nat
      /\ fcEnd' = "open"
  BY <1>1, <1>2, FcParts, MarksAreNat
<1>4. PICK b \in BOOLEAN : b <=> fcNode.written + 1 > SoftMark
  OBVIOUS
<1>5. /\ fcNode' \in NodeEnds /\ fcNode'.written = fcNode.written + 1 /\ fcNode'.paused = b
      /\ fcNode'.pending = fcNode.pending /\ fcNode'.request = fcNode.request
      /\ fcNode'.ending = fcNode.ending
  <2>1. b = (fcNode.written + 1 > SoftMark)
    BY <1>4
  <2>2. fcNode' = [fcNode EXCEPT !.written = fcNode.written + 1, !.paused = b]
    BY <1>1, <2>1, Zenon
  <2> QED
    BY <1>3, <2>2 DEF FcInv, FcTypeOK, NodeEnds
<1>6. FcTypeOK'
  BY <1>1, <1>3, <1>5 DEF FcInv, FcTypeOK
<1>7. NothingDropped'
  BY <1>1, <1>3, <1>5, FcParts, MarksAreNat DEF FcInv, BodyKept, NothingDropped, Held
<1>8. MarksHoldCaps'
  BY <1>1, <1>3, <1>5 DEF FcInv, BodyKept, MarksHoldCaps
<1>9. RoomUnlessHeld'
  <2>1. fcNode'.paused \/ fcNode'.written <= SoftMark
    BY <1>3, <1>4, <1>5, FcParts, MarksAreNat
  <2> QED
    BY <1>1, <2>1 DEF FcInv, RoomUnlessHeld
<1>10. OneWay'
  BY <1>1, <1>3, <1>5, FcParts DEF FcInv, OneWay
<1> QED
  BY <1>6, <1>7, <1>8, <1>9, <1>10 DEF FcInv, BodyKept

LEMMA NodeWritesKeepsFcInv == ASSUME FcInv, NodeWrites PROVE FcInv'
<1>1. PICK b \in BOOLEAN : b <=> ResumedAtDrain(fcNode.written - 1, fcNode.paused)
  OBVIOUS
<1>2. /\ fcWay = "down" /\ fcEnd = "open" /\ fcNode.written > 0 /\ fcNet' = fcNet + 1
      /\ fcNode' = [fcNode EXCEPT !.written = fcNode.written - 1, !.paused = b]
      /\ UNCHANGED <<fcWay, fcLeft, fcHub, fcGot, fcRests, fcEnd>>
  <2>1. b = ResumedAtDrain(fcNode.written - 1, fcNode.paused)
    BY <1>1 DEF ResumedAtDrain
  <2> QED
    BY <2>1, Zenon DEF NodeWrites, Open
<1>3. fcNode.written - 1 \in Nat /\ fcNet + 1 \in Nat
  BY <1>2, FcParts
<1>4. /\ fcNode' \in NodeEnds /\ fcNode'.written = fcNode.written - 1 /\ fcNode'.paused = b
      /\ fcNode'.pending = fcNode.pending /\ fcNode'.request = fcNode.request
      /\ fcNode'.ending = fcNode.ending
  BY <1>2, <1>3 DEF FcInv, FcTypeOK, NodeEnds
<1>5. FcTypeOK'
  BY <1>2, <1>3, <1>4 DEF FcInv, FcTypeOK
<1>6. NothingDropped'
  BY <1>2, <1>3, <1>4, FcParts, MarksAreNat DEF FcInv, BodyKept, NothingDropped, Held
<1>7. MarksHoldCaps'
  BY <1>2, <1>4, FcParts, MarksAreNat DEF FcInv, BodyKept, MarksHoldCaps
<1>8. RoomUnlessHeld'
  <2>1. fcNode'.paused \/ fcNode'.written <= SoftMark
    <3>1. fcNode.paused \/ fcNode.written <= SoftMark
      BY DEF FcInv, RoomUnlessHeld
    <3>2. ~b => ~fcNode.paused \/ fcNode.written - 1 = 0
      BY <1>1 DEF ResumedAtDrain
    <3> QED
      BY <1>4, <3>1, <3>2, FcParts, MarksAreNat
  <2> QED
    BY <1>2, <2>1 DEF FcInv, RoomUnlessHeld
<1>9. OneWay'
  BY <1>2, <1>4, FcParts DEF FcInv, OneWay
<1> QED
  BY <1>5, <1>6, <1>7, <1>8, <1>9 DEF FcInv, BodyKept

(* A chunk that is handed over at once found the queue empty.              *)
LEMMA HubReadsKeepsFcInv == ASSUME FcInv, HubReads PROVE FcInv'
<1>1. PICK b \in BOOLEAN : b <=> fcHub.queued + 1 >= SoftMark
  OBVIOUS
<1>2. /\ fcWay = "down" /\ fcEnd = "open" /\ fcNet > 0 /\ ~fcHub.paused
      /\ fcNet' = fcNet - 1 /\ fcRests' = FALSE
      /\ fcEnd' = IF fcHub.queued + 1 > HardCap THEN "overrun" ELSE "open"
      /\ fcHub' = IF fcHub.reader = "waiting"
                  THEN [fcHub EXCEPT !.queued = fcHub.queued + 1, !.reader = "holding"]
                  ELSE [fcHub EXCEPT !.queued = fcHub.queued + 1, !.body = fcHub.body + 1,
                                     !.paused = b]
      /\ UNCHANGED <<fcWay, fcLeft, fcNode, fcGot>>
  <2>1. b = (fcHub.queued + 1 >= SoftMark)
    BY <1>1
  <2> QED
    BY <2>1, Zenon DEF HubReads, Open
<1>3. /\ fcHub.queued < SoftMark /\ fcHub.queued = fcHub.body + Held
      /\ fcHub.reader = "waiting" => fcHub.body = 0
  BY <1>2 DEF FcInv, RoomUnlessHeld, BodyKept, NothingDropped
<1>4. /\ fcHub.queued + 1 \in Nat /\ fcHub.body + 1 \in Nat /\ fcNet - 1 \in Nat
      /\ fcHub.queued + 1 <= SoftMark /\ fcEnd' = "open"
  BY <1>2, <1>3, FcParts, MarksAreNat
<1>5. /\ fcHub' \in HubEnds /\ fcHub'.queued = fcHub.queued + 1
      /\ fcHub'.written = fcHub.written /\ fcHub'.waiting = fcHub.waiting
      /\ fcHub'.before = fcHub.before /\ fcHub'.ended = fcHub.ended
      /\ IF fcHub.reader = "waiting"
         THEN fcHub'.reader = "holding" /\ fcHub'.body = fcHub.body /\ fcHub'.paused = fcHub.paused
         ELSE fcHub'.reader = fcHub.reader /\ fcHub'.body = fcHub.body + 1 /\ fcHub'.paused = b
  BY <1>2, <1>4 DEF FcInv, FcTypeOK, HubEnds
<1>6. fcHub'.queued = fcHub'.body + Held'
  BY <1>3, <1>5, FcParts DEF Held
<1>7. fcHub'.paused \/ fcHub'.queued < SoftMark
  <2>1. CASE fcHub.reader = "waiting"
    <3>1. fcHub.queued = 0
      BY <1>3, <2>1, FcParts DEF Held
    <3> QED
      BY <1>5, <3>1, MarksAreNat
  <2>2. CASE fcHub.reader # "waiting"
    BY <1>1, <1>5, <2>2, FcParts, MarksAreNat
  <2> QED
    BY <2>1, <2>2
<1>8. FcTypeOK'
  BY <1>2, <1>4, <1>5 DEF FcInv, FcTypeOK
<1>9. NothingDropped'
  BY <1>2, <1>4, <1>5, <1>6, FcParts, MarksAreNat DEF FcInv, BodyKept, NothingDropped
<1>10. MarksHoldCaps'
  BY <1>2, <1>4, <1>5 DEF FcInv, BodyKept, MarksHoldCaps
<1>11. RoomUnlessHeld'
  BY <1>2, <1>5, <1>7 DEF FcInv, RoomUnlessHeld
<1>12. OneWay'
  BY <1>2, <1>4, <1>5, FcParts DEF FcInv, OneWay
<1> QED
  BY <1>8, <1>9, <1>10, <1>11, <1>12 DEF FcInv, BodyKept

LEMMA HubReadsEndKeepsFcInv == ASSUME FcInv, HubReadsEnd PROVE FcInv'
<1>1. /\ fcWay = "down" /\ fcEnd = "open" /\ fcLeft = 0 /\ fcNode.written = 0 /\ fcNet = 0
      /\ fcHub' = [fcHub EXCEPT !.ended = TRUE]
      /\ fcEnd' = IF fcHub.reader = "waiting" THEN "done" ELSE "open"
      /\ UNCHANGED <<fcWay, fcLeft, fcNet, fcNode, fcGot, fcRests>>
  BY DEF HubReadsEnd, Open
<1>2. /\ fcHub' \in HubEnds /\ fcHub'.ended = TRUE /\ fcHub'.queued = fcHub.queued
      /\ fcHub'.written = fcHub.written /\ fcHub'.waiting = fcHub.waiting
      /\ fcHub'.before = fcHub.before /\ fcHub'.body = fcHub.body
      /\ fcHub'.paused = fcHub.paused /\ fcHub'.reader = fcHub.reader
  BY <1>1 DEF FcInv, FcTypeOK, HubEnds
<1>3. fcHub.reader = "waiting" => fcHub.queued = 0
  BY FcParts DEF FcInv, RoomUnlessHeld, BodyKept, NothingDropped, Held
<1>4. FcTypeOK'
  BY <1>1, <1>2 DEF FcInv, FcTypeOK
<1>5. OneWay'
  BY <1>1, <1>2 DEF FcInv, OneWay
<1>6. NothingDropped'
  <2>1. /\ fcHub'.queued = fcHub'.body + Held'
        /\ fcLeft' + fcHub'.written + fcHub'.queued + fcNet' + fcNode'.written
             + fcNode'.pending + fcNode'.request + fcGot' = BodyFrames
    BY <1>1, <1>2 DEF FcInv, BodyKept, NothingDropped, Held
  <2>2. fcEnd' = "done" => fcGot' + fcNode'.request = BodyFrames
    BY <1>1, <1>2, <1>3, <1>5, <2>1, FcParts, MarksAreNat DEF FcInv, OneWay
  <2> QED
    BY <2>1, <2>2 DEF NothingDropped
<1>7. MarksHoldCaps'
  BY <1>1, <1>2 DEF FcInv, BodyKept, MarksHoldCaps
<1>8. RoomUnlessHeld'
  BY <1>1, <1>2 DEF FcInv, RoomUnlessHeld
<1> QED
  BY <1>4, <1>5, <1>6, <1>7, <1>8 DEF FcInv, BodyKept

(* The browser's reader asks for the next chunk in the state h.            *)
LEMMA AskingKeepsFcInv ==
  ASSUME FcInv, Open("down"), NEW h \in HubEnds, AsksNext(h),
         h.queued = h.body, h.queued <= SoftMark, h.paused \/ h.queued < SoftMark,
         h.written = fcHub.written, h.waiting = fcHub.waiting, h.before = fcHub.before,
         h.ended = fcHub.ended,
         fcGot' \in Nat, h.queued + fcGot' = fcHub.queued + fcGot, fcRests' \in BOOLEAN,
         UNCHANGED <<fcWay, fcLeft, fcNet, fcNode>>
  PROVE  FcInv'
<1>1. h.body \in Nat /\ h.queued \in Nat
  BY DEF HubEnds
<1>2. /\ fcHub' = IF h.body > 0 THEN [h EXCEPT !.body = h.body - 1, !.reader = "holding"]
                                ELSE [h EXCEPT !.reader = "waiting"]
      /\ fcEnd' = IF h.body = 0 /\ h.ended THEN "done" ELSE "open"
  BY DEF AsksNext
<1>3. h.body > 0 => h.body - 1 \in Nat
  BY <1>1
<1>4. /\ fcHub' \in HubEnds /\ fcHub'.queued = h.queued
      /\ fcHub'.written = fcHub.written /\ fcHub'.waiting = fcHub.waiting
      /\ fcHub'.before = fcHub.before /\ fcHub'.ended = fcHub.ended /\ fcHub'.paused = h.paused
      /\ IF h.body > 0 THEN fcHub'.reader = "holding" /\ fcHub'.body = h.body - 1
                       ELSE fcHub'.reader = "waiting" /\ fcHub'.body = h.body
  BY <1>2, <1>3 DEF HubEnds
<1>5. fcHub'.queued = fcHub'.body + Held'
  BY <1>1, <1>4 DEF Held
<1>6. FcTypeOK'
  BY <1>2, <1>4 DEF FcInv, FcTypeOK
<1>7. OneWay'
  BY <1>4 DEF FcInv, OneWay, Open
<1>8. NothingDropped'
  <2>1. fcLeft' + fcHub'.written + fcHub'.queued + fcNet' + fcNode'.written
          + fcNode'.pending + fcNode'.request + fcGot' = BodyFrames
    BY <1>1, <1>4, FcParts DEF FcInv, BodyKept, NothingDropped
  <2>2. fcEnd' = "done" => fcGot' + fcNode'.request = BodyFrames
    <3>1. ASSUME fcEnd' = "done" PROVE fcHub'.queued = 0 /\ fcHub'.ended
      BY <1>2, <1>4, <3>1
    <3>2. ASSUME fcEnd' = "done"
          PROVE  /\ fcLeft' = 0 /\ fcHub'.written = 0 /\ fcNet' = 0 /\ fcNode'.written = 0
                 /\ fcNode'.pending = 0 /\ fcNode'.request = 0
      BY <1>7, <3>1, <3>2 DEF OneWay, Open
    <3> QED
      BY <2>1, <3>1, <3>2, MarksAreNat
  <2> QED
    BY <1>5, <2>1, <2>2 DEF NothingDropped
<1>9. MarksHoldCaps'
  BY <1>2, <1>4 DEF FcInv, BodyKept, MarksHoldCaps
<1>10. RoomUnlessHeld'
  BY <1>1, <1>4 DEF FcInv, RoomUnlessHeld
<1> QED
  BY <1>6, <1>7, <1>8, <1>9, <1>10 DEF FcInv, BodyKept

LEMMA BrowserKeepsFcInv == ASSUME FcInv, BrowserReads \/ BrowserTakes PROVE FcInv'
<1>1. CASE BrowserReads
  <2>1. fcHub.queued = fcHub.body /\ fcHub.queued <= SoftMark /\ fcHub \in HubEnds
    BY <1>1, FcParts DEF BrowserReads, FcInv, BodyKept, NothingDropped, Held, MarksHoldCaps, FcTypeOK
  <2>2. fcHub.paused \/ fcHub.queued < SoftMark
    BY DEF FcInv, RoomUnlessHeld
  <2>3. fcGot' \in Nat /\ fcRests' \in BOOLEAN
    BY <1>1 DEF BrowserReads, FcInv, FcTypeOK
  <2> QED
    BY <1>1, <2>1, <2>2, <2>3, AskingKeepsFcInv DEF BrowserReads
<1>2. CASE BrowserTakes
  <2>1. PICK b \in BOOLEAN : b <=> fcHub.paused /\ fcHub.queued - 1 >= ResumeBelow
    OBVIOUS
  <2>2. PICK h : h = Consumed(fcHub)
    OBVIOUS
  <2>3. h = [fcHub EXCEPT !.queued = fcHub.queued - 1, !.paused = b]
    <3>1. b = (fcHub.paused /\ fcHub.queued - 1 >= ResumeBelow)
      BY <2>1
    <3> QED
      BY <2>2, <3>1, Zenon DEF Consumed
  <2>4. fcHub.queued = fcHub.body + 1
    BY <1>2 DEF BrowserTakes, FcInv, BodyKept, NothingDropped, Held
  <2>5. fcHub.queued - 1 \in Nat /\ fcHub.queued <= SoftMark
    BY <2>4, FcParts DEF FcInv, BodyKept, MarksHoldCaps
  <2>6. /\ h \in HubEnds /\ h.queued = fcHub.queued - 1 /\ h.paused = b /\ h.body = fcHub.body
        /\ h.written = fcHub.written /\ h.waiting = fcHub.waiting /\ h.before = fcHub.before
        /\ h.ended = fcHub.ended
    BY <2>3, <2>5 DEF FcInv, FcTypeOK, HubEnds
  <2>7. h.queued = h.body /\ h.queued <= SoftMark
    BY <2>4, <2>5, <2>6, FcParts, MarksAreNat
  <2>8. h.paused \/ h.queued < SoftMark
    <3>1. fcHub.paused \/ fcHub.queued < SoftMark
      BY DEF FcInv, RoomUnlessHeld
    <3> QED
      BY <2>1, <2>5, <2>6, <3>1, FcParts, MarksAreNat
  <2>9. /\ fcGot' \in Nat /\ fcRests' \in BOOLEAN
        /\ h.queued + fcGot' = fcHub.queued + fcGot
    <3>1. fcGot' = fcGot + 1 /\ fcRests' = FALSE
      BY <1>2 DEF BrowserTakes
    <3>2. fcGot \in Nat /\ fcHub.queued \in Nat
      BY FcParts
    <3>3. h.queued = fcHub.queued - 1
      BY <2>6
    <3>4. fcGot' \in Nat /\ h.queued + fcGot' = fcHub.queued + fcGot
      BY <3>1, <3>2, <3>3
    <3> QED
      BY <3>1, <3>4
  <2> QED
    BY <1>2, <2>2, <2>6, <2>7, <2>8, <2>9, AskingKeepsFcInv DEF BrowserTakes
<1> QED
  BY <1>1, <1>2

(* A flow that is given up because it stood still has lost nothing.        *)
LEMMA StallKeepsFcInv ==
  ASSUME FcInv, GivesUp("stalled")
  PROVE  FcInv'
<1>1. FcTypeOK'
  BY DEF GivesUp, FcInv, FcTypeOK
<1>2. NothingDropped' /\ MarksHoldCaps'
  BY DEF GivesUp, FcInv, BodyKept, NothingDropped, MarksHoldCaps, Held
<1>3. RoomUnlessHeld' /\ OneWay'
  BY DEF GivesUp, FcInv, RoomUnlessHeld, OneWay
<1> QED
  BY <1>1, <1>2, <1>3 DEF FcInv, BodyKept

(* Another state of the Hub's write queue, the rest of its end unchanged.  *)
LEMMA HubQueueKeepsFcInv ==
  ASSUME FcInv, NEW n \in Nat, NEW k \in Nat, NEW b \in BOOLEAN,
         fcHub' = [fcHub EXCEPT !.written = n, !.waiting = b, !.before = k],
         fcWay = "up", fcEnd = "open",
         n <= SoftMark + 1, IF b THEN k <= SoftMark + 1 ELSE n <= SoftMark,
         fcLeft' \in Nat, fcNet' \in Nat, fcLeft' + n + fcNet' = fcLeft + fcHub.written + fcNet,
         fcHub.ended => fcLeft' = 0 /\ n = 0 /\ fcNet' = 0,
         UNCHANGED <<fcWay, fcNode, fcGot, fcRests, fcEnd>>
  PROVE  FcInv'
<1>1. /\ fcHub' \in HubEnds /\ fcHub'.written = n /\ fcHub'.waiting = b /\ fcHub'.before = k
      /\ fcHub'.queued = fcHub.queued /\ fcHub'.body = fcHub.body
      /\ fcHub'.reader = fcHub.reader /\ fcHub'.paused = fcHub.paused /\ fcHub'.ended = fcHub.ended
  BY DEF FcInv, FcTypeOK, HubEnds
<1>2. FcTypeOK'
  BY <1>1 DEF FcInv, FcTypeOK
<1>3. NothingDropped'
  BY <1>1, FcParts, MarksAreNat DEF FcInv, BodyKept, NothingDropped, Held
<1>4. MarksHoldCaps'
  BY <1>1 DEF FcInv, BodyKept, MarksHoldCaps
<1>5. RoomUnlessHeld'
  BY <1>1 DEF FcInv, RoomUnlessHeld
<1>6. OneWay'
  BY <1>1 DEF FcInv, OneWay
<1> QED
  BY <1>2, <1>3, <1>4, <1>5, <1>6 DEF FcInv, BodyKept

LEMMA HubSendsKeepsFcInv == ASSUME FcInv, HubWrites \/ HubSends \/ WaitExpires PROVE FcInv'
<1>1. fcHub \in HubEnds
  BY DEF FcInv, FcTypeOK
<1>2. CASE HubWrites
  <2>1. fcWay = "up" /\ fcEnd = "open" /\ fcLeft > 0 /\ ~fcHub.waiting
    BY <1>2 DEF HubWrites, Open
  <2>2. fcHub.written <= SoftMark
    BY <2>1 DEF FcInv, RoomUnlessHeld
  <2>3. PICK n \in Nat : n = fcHub.written + 1
    BY FcParts
  <2>4. PICK b \in BOOLEAN : b <=> n > SoftMark
    OBVIOUS
  <2>5. /\ fcLeft' = fcLeft - 1
        /\ fcHub' = [fcHub EXCEPT !.written = n, !.waiting = b, !.before = n]
        /\ UNCHANGED <<fcWay, fcNet, fcNode, fcGot, fcRests, fcEnd>>
    <3>1. ~(fcHub.written > HardCap)
      BY <2>2, FcParts, MarksAreNat
    <3>2. b = (n > SoftMark)
      BY <2>4
    <3> QED
      BY <1>2, <2>3, <3>1, <3>2, Zenon DEF HubWrites
  <2>6. n <= SoftMark + 1 /\ (IF b THEN n <= SoftMark + 1 ELSE n <= SoftMark)
    BY <2>2, <2>3, <2>4, FcParts, MarksAreNat
  <2>7. fcLeft' \in Nat /\ fcNet' \in Nat /\ fcLeft' + n + fcNet' = fcLeft + fcHub.written + fcNet
    BY <2>1, <2>3, <2>5, FcParts
  <2>8. ~fcHub.ended
    BY <2>1 DEF FcInv, OneWay
  <2> QED
    BY <2>1, <2>5, <2>6, <2>7, <2>8, HubQueueKeepsFcInv
<1>3. CASE HubSends
  <2>1. fcWay = "up" /\ fcEnd = "open" /\ fcHub.written > 0 /\ fcNet' = fcNet + 1
    BY <1>3 DEF HubSends, Open
  <2>2. PICK n \in Nat : n = fcHub.written - 1
    BY <2>1, FcParts
  <2>3. PICK b \in BOOLEAN : b <=> fcHub.waiting /\ n > 0
    OBVIOUS
  <2>4. /\ fcHub' = [fcHub EXCEPT !.written = n, !.waiting = b, !.before = fcHub.before]
        /\ UNCHANGED <<fcWay, fcLeft, fcNode, fcGot, fcRests, fcEnd>>
    <3>1. b = (fcHub.waiting /\ n > 0)
      BY <2>3
    <3>2. /\ fcHub' = [fcHub EXCEPT !.written = n, !.waiting = b]
          /\ UNCHANGED <<fcWay, fcLeft, fcNode, fcGot, fcRests, fcEnd>>
      BY <1>3, <2>2, <3>1, Zenon DEF HubSends
    <3> QED
      BY <1>1, <3>2 DEF HubEnds
  <2>5. /\ fcHub.written <= SoftMark + 1
        /\ IF fcHub.waiting THEN fcHub.before <= SoftMark + 1 ELSE fcHub.written <= SoftMark
    BY DEF FcInv, BodyKept, MarksHoldCaps, RoomUnlessHeld
  <2>6. n <= SoftMark + 1 /\ (IF b THEN fcHub.before <= SoftMark + 1 ELSE n <= SoftMark)
    BY <2>1, <2>2, <2>3, <2>5, FcParts, MarksAreNat
  <2>7. fcLeft' \in Nat /\ fcNet' \in Nat /\ fcLeft' + n + fcNet' = fcLeft + fcHub.written + fcNet
    BY <2>1, <2>2, <2>4, FcParts
  <2>8. ~fcHub.ended
    BY <2>1 DEF FcInv, OneWay
  <2> QED
    BY <2>1, <2>4, <2>6, <2>7, <2>8, FcParts, HubQueueKeepsFcInv
<1>4. CASE WaitExpires
  <2>1. fcWay = "up" /\ fcEnd = "open" /\ fcHub.waiting
    BY <1>4 DEF WaitExpires, Open
  <2>2. CASE fcHub.written >= fcHub.before
    BY <1>4, <2>2, StallKeepsFcInv DEF WaitExpires
  <2>3. CASE ~(fcHub.written >= fcHub.before)
    <3>1. /\ fcHub' = [fcHub EXCEPT !.waiting = FALSE]
          /\ UNCHANGED <<fcWay, fcLeft, fcNet, fcNode, fcGot, fcRests, fcEnd>>
      BY <1>4, <2>3 DEF WaitExpires
    <3>2. fcHub' = [fcHub EXCEPT !.written = fcHub.written, !.waiting = FALSE,
                                 !.before = fcHub.before]
      BY <1>1, <3>1 DEF HubEnds
    <3>3. fcHub.before <= SoftMark + 1
      BY <2>1 DEF FcInv, RoomUnlessHeld
    <3>4. fcHub.written <= SoftMark + 1 /\ fcHub.written <= SoftMark
      BY <2>3, <3>3, FcParts, MarksAreNat
    <3>5. fcHub.ended => fcLeft' = 0 /\ fcHub.written = 0 /\ fcNet' = 0
      BY <3>1 DEF FcInv, OneWay
    <3>6. fcLeft' \in Nat /\ fcNet' \in Nat
          /\ fcLeft' + fcHub.written + fcNet' = fcLeft + fcHub.written + fcNet
      BY <3>1, FcParts
    <3> QED
      BY <2>1, <3>1, <3>2, <3>4, <3>5, <3>6, FcParts, HubQueueKeepsFcInv
  <2> QED
    BY <2>2, <2>3
<1> QED
  BY <1>2, <1>3, <1>4

(* The node's end of a request body goes to n.                             *)
LEMMA NodeQueueKeepsFcInv ==
  ASSUME FcInv, NEW n \in NodeEnds, fcNode' = n, fcWay = "up",
         n.written = fcNode.written, n.paused = fcNode.paused, n.request <= SoftMark,
         n.ending => fcHub.ended,
         fcNet' \in Nat, fcGot' \in Nat, fcRests' \in BOOLEAN, fcHub.ended => fcNet' = 0,
         fcNet' + n.pending + n.request + fcGot'
           = fcNet + fcNode.pending + fcNode.request + fcGot,
         fcEnd' \in {"open", "done", "overrun"},
         fcEnd' = "overrun" => n.pending > HardCap,
         fcEnd' = "done" => fcHub.ended /\ n.pending = 0,
         UNCHANGED <<fcWay, fcLeft, fcHub>>
  PROVE  FcInv'
<1>1. n.pending \in Nat /\ n.request \in Nat
  BY DEF NodeEnds
<1>2. FcTypeOK'
  BY DEF FcInv, FcTypeOK
<1>3. OneWay'
  BY DEF FcInv, OneWay
<1>4. NothingDropped'
  <2>1. fcHub'.queued = fcHub'.body + Held'
    BY DEF FcInv, BodyKept, NothingDropped, Held
  <2>2. fcLeft' + fcHub'.written + fcHub'.queued + fcNet' + fcNode'.written
          + fcNode'.pending + fcNode'.request + fcGot' = BodyFrames
    <3>1. fcLeft + fcHub.written + fcHub.queued + fcNet + fcNode.written
            + fcNode.pending + fcNode.request + fcGot = BodyFrames
      BY DEF FcInv, BodyKept, NothingDropped
    <3>2. fcLeft + fcHub.written + fcHub.queued + fcNet' + n.written
            + n.pending + n.request + fcGot' = BodyFrames
      <4>1. PICK rest \in Nat : rest = fcLeft + fcHub.written + fcHub.queued + fcNode.written
        BY FcParts
      <4>2. rest + (fcNet + fcNode.pending + fcNode.request + fcGot) = BodyFrames
        BY <3>1, <4>1, FcParts, MarksAreNat
      <4>3. rest + (fcNet' + n.pending + n.request + fcGot') = BodyFrames
        BY <4>2
      <4> QED
        BY <1>1, <4>1, <4>3, FcParts, MarksAreNat
    <3> QED
      BY <3>2
  <2>3. ASSUME fcEnd' = "done" PROVE fcGot' + fcNode'.request = BodyFrames
    <3>1. /\ fcLeft' = 0 /\ fcHub'.written = 0 /\ fcNet' = 0 /\ fcNode'.written = 0
          /\ fcHub'.queued = 0 /\ fcNode'.pending = 0
      BY <1>3, <2>3 DEF OneWay
    <3> QED
      BY <1>1, <2>2, <3>1, MarksAreNat
  <2> QED
    BY <2>1, <2>2, <2>3 DEF NothingDropped
<1>5. MarksHoldCaps'
  BY DEF FcInv, BodyKept, MarksHoldCaps
<1>6. RoomUnlessHeld'
  BY DEF FcInv, RoomUnlessHeld
<1> QED
  BY <1>2, <1>3, <1>4, <1>5, <1>6 DEF FcInv, BodyKept

LEMMA NodeTakesKeepsFcInv == ASSUME FcInv, NodeReads \/ NodeReadsEnd \/ DshTakes PROVE FcInv'
<1>1. /\ fcNode \in NodeEnds /\ fcNode.request <= SoftMark /\ fcRests \in BOOLEAN
      /\ fcNode.ending => fcHub.ended
      /\ fcHub.ended => fcNet = 0
  BY DEF FcInv, FcTypeOK, BodyKept, MarksHoldCaps, OneWay
<1>2. CASE NodeReads
  <2>1. /\ fcWay = "up" /\ fcEnd = "open" /\ fcNet > 0 /\ fcNet' = fcNet - 1
        /\ UNCHANGED <<fcWay, fcLeft, fcHub, fcGot, fcRests>>
    BY <1>2 DEF NodeReads, Open
  <2>2. PICK n : n = [fcNode EXCEPT !.pending = fcNode.pending + 1]
    OBVIOUS
  <2>3. fcNode.pending + 1 \in Nat /\ fcNet' \in Nat /\ ~fcHub.ended /\ ~fcNode.ending
    BY <1>1, <2>1, FcParts
  <2>4. /\ n \in NodeEnds /\ n.written = fcNode.written /\ n.paused = fcNode.paused
        /\ n.pending = fcNode.pending + 1 /\ n.request = fcNode.request
        /\ n.ending = fcNode.ending
    BY <1>1, <2>2, <2>3 DEF NodeEnds
  <2>5. CASE n.pending > HardCap
    <3>1. fcNode' = n /\ fcEnd' = "overrun"
      BY <1>2, <2>2, <2>5 DEF NodeReads
    <3>2. fcNet' + n.pending + n.request + fcGot'
            = fcNet + fcNode.pending + fcNode.request + fcGot
      BY <2>1, <2>4, FcParts
    <3> QED
      BY <1>1, <2>1, <2>3, <2>4, <2>5, <3>1, <3>2, FcParts, NodeQueueKeepsFcInv
  <2>6. CASE ~(n.pending > HardCap)
    <3>1. PICK p : p = IF n.waiting THEN n ELSE Pumped(n)
      OBVIOUS
    <3>2. fcNode' = p /\ fcEnd' = "open"
      BY <1>2, <2>1, <2>2, <2>6, <3>1 DEF NodeReads
    <3>3. /\ p \in NodeEnds /\ p.written = fcNode.written /\ p.paused = fcNode.paused
          /\ p.pending + p.request = n.pending + n.request /\ p.request <= SoftMark
          /\ p.ending => fcHub.ended
      BY <1>1, <2>4, <3>1, PumpedMoves
    <3>4. p.pending \in Nat /\ p.request \in Nat
      BY <3>3 DEF NodeEnds
    <3>5. fcNet' + p.pending + p.request + fcGot'
            = fcNet + fcNode.pending + fcNode.request + fcGot
      BY <2>1, <2>4, <3>3, <3>4, FcParts
    <3> QED
      BY <1>1, <2>1, <2>3, <3>2, <3>3, <3>5, FcParts, NodeQueueKeepsFcInv
  <2> QED
    BY <2>5, <2>6
<1>3. CASE DshTakes
  <2>1. /\ fcWay = "up" /\ fcEnd = "open" /\ fcNode.request > 0
        /\ fcGot' = fcGot + 1 /\ fcRests' = FALSE
        /\ UNCHANGED <<fcWay, fcLeft, fcHub, fcNet>>
    BY <1>3 DEF DshTakes, Open
  <2>2. PICK n : n = [fcNode EXCEPT !.request = fcNode.request - 1]
    OBVIOUS
  <2>3. fcNode.request - 1 \in Nat /\ fcNode.request - 1 <= SoftMark
    BY <1>1, <2>1, FcParts, MarksAreNat
  <2>4. /\ n \in NodeEnds /\ n.written = fcNode.written /\ n.paused = fcNode.paused
        /\ n.pending = fcNode.pending /\ n.request = fcNode.request - 1
        /\ n.ending = fcNode.ending
    BY <1>1, <2>2, <2>3 DEF NodeEnds
  <2>5. CASE ~(n.request = 0 /\ n.waiting)
    <3>1. fcNode' = n /\ fcEnd' = "open"
      BY <1>3, <2>2, <2>5 DEF DshTakes
    <3>2. fcNet' + n.pending + n.request + fcGot'
            = fcNet + fcNode.pending + fcNode.request + fcGot
      BY <2>1, <2>4, FcParts
    <3>3. fcGot' \in Nat /\ fcNet' \in Nat /\ (fcHub.ended => fcNet' = 0) /\ fcRests' \in BOOLEAN
      <4>1. fcGot' = fcGot + 1 /\ fcNet' = fcNet /\ fcGot \in Nat /\ fcNet \in Nat
        BY <2>1, FcParts
      <4>2. fcRests' \in BOOLEAN
        BY <2>1
      <4> QED
        BY <1>1, <4>1, <4>2
    <3>4. n.request <= SoftMark /\ (n.ending => fcHub.ended)
      BY <1>1, <2>3, <2>4
    <3> QED
      BY <2>1, <2>4, <3>1, <3>2, <3>3, <3>4, NodeQueueKeepsFcInv
  <2>6. CASE n.request = 0 /\ n.waiting
    <3>1. PICK p : p = Pumped(n)
      OBVIOUS
    <3>2. fcNode' = p /\ fcEnd' = IF fcNode.ending /\ ~p.ending THEN "done" ELSE "open"
      BY <1>3, <2>2, <2>6, <3>1 DEF DshTakes, PassesEnd
    <3>3. /\ p \in NodeEnds /\ p.written = fcNode.written /\ p.paused = fcNode.paused
          /\ p.pending + p.request = n.pending + n.request /\ p.request <= SoftMark
          /\ p.ending => fcHub.ended
          /\ n.ending /\ ~p.ending => p.pending = 0
      BY <1>1, <2>3, <2>4, <3>1, PumpedMoves
    <3>4. p.pending \in Nat /\ p.request \in Nat
      BY <3>3 DEF NodeEnds
    <3>5. fcNet' + p.pending + p.request + fcGot'
            = fcNet + fcNode.pending + fcNode.request + fcGot
      BY <2>1, <2>4, <3>3, <3>4, FcParts
    <3>6. fcGot' \in Nat /\ fcNet' \in Nat /\ (fcHub.ended => fcNet' = 0) /\ fcRests' \in BOOLEAN
      <4>1. fcGot' = fcGot + 1 /\ fcNet' = fcNet /\ fcGot \in Nat /\ fcNet \in Nat
        BY <2>1, FcParts
      <4>2. fcRests' \in BOOLEAN
        BY <2>1
      <4> QED
        BY <1>1, <4>1, <4>2
    <3>7. fcEnd' \in {"open", "done"} /\ (fcEnd' = "done" => fcHub.ended /\ p.pending = 0)
      BY <1>1, <2>4, <3>2, <3>3
    <3> QED
      BY <2>1, <3>2, <3>3, <3>5, <3>6, <3>7, NodeQueueKeepsFcInv
  <2> QED
    BY <2>5, <2>6
<1>4. CASE NodeReadsEnd
  <2>1. /\ fcWay = "up" /\ fcEnd = "open" /\ fcLeft = 0 /\ fcHub.written = 0 /\ fcNet = 0
        /\ ~fcHub.waiting
        /\ fcHub' = [fcHub EXCEPT !.ended = TRUE]
        /\ UNCHANGED <<fcWay, fcLeft, fcNet, fcGot, fcRests>>
    BY <1>4 DEF NodeReadsEnd, Open
  <2>2. /\ fcHub' \in HubEnds /\ fcHub'.ended = TRUE /\ fcHub'.queued = fcHub.queued
        /\ fcHub'.written = fcHub.written /\ fcHub'.waiting = fcHub.waiting
        /\ fcHub'.before = fcHub.before /\ fcHub'.body = fcHub.body
        /\ fcHub'.paused = fcHub.paused /\ fcHub'.reader = fcHub.reader
    BY <2>1 DEF FcInv, FcTypeOK, HubEnds
  <2>3. /\ fcNode' \in NodeEnds /\ fcNode'.written = fcNode.written
        /\ fcNode'.paused = fcNode.paused /\ fcNode'.pending = fcNode.pending
        /\ fcNode'.request = fcNode.request
        /\ fcEnd' = "open" \/ (fcEnd' = "done" /\ fcNode.pending = 0)
    <3>1. CASE fcNode.pending > 0 \/ fcNode.waiting
      <4>1. fcNode' = [fcNode EXCEPT !.ending = TRUE] /\ fcEnd' = "open"
        BY <1>4, <2>1, <3>1 DEF NodeReadsEnd
      <4> QED
        BY <1>1, <4>1 DEF NodeEnds
    <3>2. CASE ~(fcNode.pending > 0 \/ fcNode.waiting)
      <4>1. fcNode' = fcNode /\ fcEnd' = "done"
        BY <1>4, <3>2 DEF NodeReadsEnd
      <4>2. fcNode.pending = 0
        BY <3>2, FcParts
      <4> QED
        BY <1>1, <4>1, <4>2
    <3> QED
      BY <3>1, <3>2
  <2>4. FcTypeOK'
    BY <2>1, <2>2, <2>3 DEF FcInv, FcTypeOK
  <2>5. NothingDropped'
    <3>1. /\ fcHub'.queued = fcHub'.body + Held'
          /\ fcLeft' + fcHub'.written + fcHub'.queued + fcNet' + fcNode'.written
               + fcNode'.pending + fcNode'.request + fcGot' = BodyFrames
      BY <2>1, <2>2, <2>3 DEF FcInv, BodyKept, NothingDropped, Held
    <3>2. fcEnd' = "done" => fcGot' + fcNode'.request = BodyFrames
      <4>1. fcHub'.queued = 0 /\ fcNode'.written = 0
        BY <2>1, <2>2, <2>3 DEF FcInv, OneWay
      <4> QED
        BY <2>1, <2>2, <2>3, <3>1, <4>1, FcParts, MarksAreNat
    <3> QED
      BY <3>1, <3>2 DEF NothingDropped
  <2>6. MarksHoldCaps'
    BY <2>1, <2>2, <2>3 DEF FcInv, BodyKept, MarksHoldCaps
  <2>7. RoomUnlessHeld'
    BY <2>2, <2>3 DEF FcInv, RoomUnlessHeld
  <2>8. OneWay'
    BY <2>1, <2>2, <2>3 DEF FcInv, OneWay
  <2> QED
    BY <2>4, <2>5, <2>6, <2>7, <2>8 DEF FcInv, BodyKept
<1> QED
  BY <1>2, <1>3, <1>4

LEMMA FcInvStep == FcInv /\ [FcNext]_fcVars => FcInv'
<1> SUFFICES ASSUME FcInv, [FcNext]_fcVars PROVE FcInv'
  OBVIOUS
<1>1. CASE Moves
  BY <1>1, DshGivesKeepsFcInv, NodeWritesKeepsFcInv, HubReadsKeepsFcInv, HubReadsEndKeepsFcInv,
     BrowserKeepsFcInv, HubSendsKeepsFcInv, NodeTakesKeepsFcInv DEF Moves
<1>2. CASE HubStalls \/ NodeStalls \/ NodeStallsUpstream
  BY <1>2, StallKeepsFcInv DEF HubStalls, NodeStalls, NodeStallsUpstream
<1>3. CASE WaitExpires
  BY <1>3, HubSendsKeepsFcInv
<1>4. CASE ConsumerRests \/ UNCHANGED fcVars
  <2>1. UNCHANGED <<fcWay, fcLeft, fcHub, fcNet, fcNode, fcGot, fcEnd>> /\ fcRests' \in BOOLEAN
    BY <1>4 DEF ConsumerRests, fcVars, FcInv, FcTypeOK
  <2>2. FcTypeOK'
    BY <2>1 DEF FcInv, FcTypeOK
  <2>3. NothingDropped' /\ MarksHoldCaps'
    BY <2>1 DEF FcInv, BodyKept, NothingDropped, MarksHoldCaps, Held
  <2>4. RoomUnlessHeld' /\ OneWay'
    BY <2>1 DEF FcInv, RoomUnlessHeld, OneWay
  <2> QED
    BY <2>2, <2>3, <2>4 DEF FcInv, BodyKept
<1> QED
  BY <1>1, <1>2, <1>3, <1>4 DEF FcNext

(* However pauses, resumes, drains and stall timers of Hub and node fall,  *)
(* a body arrives whole or is given up, and the soft marks hold the hard   *)
(* caps (reverse-channel.mjs, reverse-channels.mjs).                       *)
THEOREM BodyKeptCorrect == FcSpec => []BodyKept
<1>1. FcInit => FcInv
  <2> SUFFICES ASSUME FcInit PROVE FcInv
    OBVIOUS
  <2>1. FcTypeOK
    BY MarksAreNat DEF FcInit, FcTypeOK, HubEnds, NodeEnds
  <2>2. NothingDropped
    BY MarksAreNat DEF FcInit, NothingDropped, Held
  <2>3. MarksHoldCaps /\ RoomUnlessHeld /\ OneWay
    BY MarksAreNat DEF FcInit, MarksHoldCaps, RoomUnlessHeld, OneWay
  <2> QED
    BY <2>1, <2>2, <2>3 DEF FcInv, BodyKept
<1>2. FcInv => BodyKept
  BY DEF FcInv
<1> QED
  BY <1>1, <1>2, FcInvStep, PTL DEF FcSpec
=============================================================================
