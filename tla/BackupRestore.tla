---------------------------- MODULE BackupRestore ----------------------------
(***************************************************************************)
(* Operational backup and restore of the Hub's database (backup.mjs), step *)
(* by step between the awaits, beside a Hub that commits, checkpoints,     *)
(* stops and crashes.                                                      *)
(*                                                                         *)
(* A database is its main file and, while committed state is not yet       *)
(* checkpointed, a write-ahead log beside it: whoever opens the pair reads *)
(* the log's state.  States are numbered in the order they were committed; *)
(* Absent is an absent file.                                                 *)
(***************************************************************************)
EXTENDS Integers

CONSTANT MaxCommits   \* bound: states the Hub commits

ASSUME BackupAssumption == MaxCommits \in Nat

VARIABLES brHub,     \* the Hub runs
          brDb,      \* the files at the database path
          brCommits, \* the last state committed
          brImage,   \* the backup at its destination
          brPartial, \* the temporary image of a backup
          brStage,   \* the staged copy of a restore
          brKept,    \* the files in the quarantine directory of the restore
          brJob      \* the operation that runs

brVars == <<brHub, brDb, brCommits, brImage, brPartial, brStage, brKept, brJob>>

Absent  == -1
NoFiles == [main |-> Absent, wal |-> Absent]

(* What a reader of the pair sees.                                         *)
Content(db) == IF db.wal # Absent THEN db.wal ELSE db.main

(* seen: the state inspected first; was: the pair a restore replaces.      *)
NoJob == [pc |-> "idle", seen |-> Absent, was |-> NoFiles]

BrInit ==
  /\ brHub = TRUE /\ brDb = [main |-> 0, wal |-> Absent] /\ brCommits = 0
  /\ brImage = Absent /\ brPartial = Absent /\ brStage = Absent /\ brKept = NoFiles
  /\ brJob = NoJob

At(pc) == brJob.pc = pc
BrGoes(to) == brJob' = [brJob EXCEPT !.pc = to]

-----------------------------------------------------------------------------
(* The Hub.  In the middle of a backup it goes on writing; a restore is    *)
(* called with writersQuiesced only while it is stopped.                   *)

Restoring == brJob.pc \in {"moveMain", "moveWal", "publish", "check"}

HubCommits ==
  /\ brHub /\ brCommits < MaxCommits
  /\ brCommits' = brCommits + 1
  /\ brDb' = [brDb EXCEPT !.wal = brCommits + 1]
  /\ UNCHANGED <<brHub, brImage, brPartial, brStage, brKept, brJob>>

Checkpointed(db) == [main |-> Content(db), wal |-> Absent]

HubCheckpoints ==
  /\ brHub /\ brDb.wal # Absent
  /\ brDb' = Checkpointed(brDb)
  /\ UNCHANGED <<brHub, brCommits, brImage, brPartial, brStage, brKept, brJob>>

(* An orderly stop checkpoints; a crash leaves the log.  A backup that     *)
(* uses the Hub's connection dies with it.                                 *)
HubStops ==
  /\ brHub
  /\ brHub' = FALSE
  /\ brDb' \in {brDb, Checkpointed(brDb)}
  /\ brJob' = NoJob
  /\ UNCHANGED <<brCommits, brImage, brPartial, brStage, brKept>>

HubRestarts ==
  /\ ~brHub /\ At("idle") /\ brDb.main # Absent
  /\ brHub' = TRUE
  /\ UNCHANGED <<brDb, brCommits, brImage, brPartial, brStage, brKept, brJob>>

-----------------------------------------------------------------------------
(* backupRegistryDatabase.                                                 *)

(* Nothing at the destination, the source inspected.                       *)
BackupBegins ==
  /\ brHub /\ At("idle") /\ brImage = Absent
  /\ brJob' = [NoJob EXCEPT !.pc = "vacuum", !.seen = Content(brDb)]
  /\ UNCHANGED <<brHub, brDb, brCommits, brImage, brPartial, brStage, brKept>>

(* Mutant: the database file is copied.                                    *)
BackupCopies ==
  /\ At("vacuum")
  /\ brPartial' = brDb.main
  /\ BrGoes("rename")
  /\ UNCHANGED <<brHub, brDb, brCommits, brImage, brStage, brKept>>

(* VACUUM INTO the reserved temporary file.                                *)
BackupVacuums ==
  /\ At("vacuum")
  /\ brPartial' = Content(brDb)
  /\ BrGoes("rename")
  /\ UNCHANGED <<brHub, brDb, brCommits, brImage, brStage, brKept>>

(* The image has been inspected and takes its name.                        *)
BackupPublishes ==
  /\ At("rename")
  /\ brImage' = brPartial /\ brPartial' = Absent
  /\ BrGoes("after")
  /\ UNCHANGED <<brHub, brDb, brCommits, brStage, brKept>>

(* Source and image are inspected once more for the result.                *)
BackupReturns ==
  /\ At("after")
  /\ brJob' = NoJob
  /\ UNCHANGED <<brHub, brDb, brCommits, brImage, brPartial, brStage, brKept>>

(* Any step throws: the temporary file goes, a published image stays.      *)
BackupFails ==
  /\ brJob.pc \in {"vacuum", "rename", "after"}
  /\ brPartial' = Absent /\ brJob' = NoJob
  /\ UNCHANGED <<brHub, brDb, brCommits, brImage, brStage, brKept>>

(* The operator puts an image away.                                        *)
ImageRemoved ==
  /\ At("idle") /\ brImage # Absent
  /\ brImage' = Absent
  /\ UNCHANGED <<brHub, brDb, brCommits, brPartial, brStage, brKept, brJob>>

-----------------------------------------------------------------------------
(* restoreRegistryDatabase.                                                *)

(* The backup inspected, copied to the staging path and inspected again.   *)
RestoreStages ==
  /\ ~brHub /\ At("idle") /\ brImage # Absent
  /\ brStage' = brImage /\ brKept' = NoFiles
  /\ brJob' = [pc |-> "moveMain", seen |-> brImage, was |-> brDb]
  /\ UNCHANGED <<brHub, brDb, brCommits, brImage, brPartial>>

(* Main file and sidecars are renamed into the quarantine one at a time.   *)
RestoreMovesMain ==
  /\ At("moveMain")
  /\ brKept' = [brKept EXCEPT !.main = brDb.main]
  /\ brDb' = [brDb EXCEPT !.main = Absent]
  /\ BrGoes("moveWal")
  /\ UNCHANGED <<brHub, brCommits, brImage, brPartial, brStage>>

(* Mutant: the log stays where it is.                                      *)
RestoreLeavesWal ==
  /\ At("moveWal")
  /\ BrGoes("publish")
  /\ UNCHANGED <<brHub, brDb, brCommits, brImage, brPartial, brStage, brKept>>

RestoreMovesWal ==
  /\ At("moveWal")
  /\ brKept' = [brKept EXCEPT !.wal = brDb.wal]
  /\ brDb' = [brDb EXCEPT !.wal = Absent]
  /\ BrGoes("publish")
  /\ UNCHANGED <<brHub, brCommits, brImage, brPartial, brStage>>

RestorePublishes ==
  /\ At("publish")
  /\ brDb' = [brDb EXCEPT !.main = brStage] /\ brStage' = Absent
  /\ BrGoes("check")
  /\ UNCHANGED <<brHub, brCommits, brImage, brPartial, brKept>>

(* The published file is inspected and compared with the backup.           *)
RestoreReturns ==
  /\ At("check")
  /\ Content(brDb) = brJob.seen
  /\ BrGoes("restored")
  /\ UNCHANGED <<brHub, brDb, brCommits, brImage, brPartial, brStage, brKept>>

(* Mutant: the database is put back and the quarantine removed.            *)
PutBackMain(keepMain, keepWal) ==
  /\ brDb'   = [brDb EXCEPT !.main = IF brKept.main # Absent THEN brKept.main ELSE @]
  /\ brKept' = NoFiles

(* What is in quarantine goes back in reverse order, as far as the renames *)
(* succeed; from the first that fails on, the rest stays in quarantine     *)
(* only if its own rename fails too.                                       *)
PutBack(keepMain, keepWal) ==
  /\ brDb'   = [main |-> IF brKept.main # Absent /\ ~keepMain THEN brKept.main ELSE brDb.main,
                wal  |-> IF brKept.wal # Absent /\ ~keepWal THEN brKept.wal ELSE brDb.wal]
  /\ brKept' = [main |-> IF keepMain THEN brKept.main ELSE Absent,
                wal  |-> IF keepWal THEN brKept.wal ELSE Absent]

(* Any step throws: the staged copy goes; when nothing is at the database  *)
(* path, the old files are put back.                                       *)
RestoreFails ==
  /\ brJob.pc \in {"moveMain", "moveWal", "publish", "check"}
  /\ IF brDb.main = Absent
     THEN \E keepMain, keepWal \in BOOLEAN : PutBack(keepMain, keepWal)
     ELSE UNCHANGED <<brDb, brKept>>
  /\ brStage' = Absent
  /\ BrGoes("failed")
  /\ UNCHANGED <<brHub, brCommits, brImage, brPartial>>

(* The restoring process is killed where it stands.                        *)
RestoreKilled ==
  /\ brJob.pc \in {"moveMain", "moveWal", "publish", "check"}
  /\ BrGoes("killed")
  /\ UNCHANGED <<brHub, brDb, brCommits, brImage, brPartial, brStage, brKept>>

(* The operator sees how it ended.  After a kill he finds the old files in *)
(* the quarantine directory and moves them back.                           *)
Acknowledged ==
  /\ brJob.pc \in {"restored", "failed", "killed"}
  /\ brDb' = IF brDb.main = Absent THEN brJob.was ELSE brDb
  /\ brStage' = Absent /\ brKept' = NoFiles /\ brJob' = NoJob
  /\ UNCHANGED <<brHub, brCommits, brImage, brPartial>>

BrNext ==
  \/ HubCommits \/ HubCheckpoints \/ HubStops \/ HubRestarts
  \/ BackupBegins \/ BackupVacuums \/ BackupPublishes \/ BackupReturns \/ BackupFails
  \/ ImageRemoved
  \/ RestoreStages \/ RestoreMovesMain \/ RestoreMovesWal \/ RestorePublishes
  \/ RestoreReturns \/ RestoreFails \/ RestoreKilled \/ Acknowledged

BrSpec == BrInit /\ [][BrNext]_brVars

-----------------------------------------------------------------------------
(* An image is a state the database was in while the backup ran: not older *)
(* than the one it inspected first, which includes what was only in the    *)
(* log, and one that was committed.                                        *)
ImageIsAState ==
  brJob.pc \in {"rename", "after"} =>
    LET image == IF At("rename") THEN brPartial ELSE brImage
    IN brJob.seen <= image /\ image <= Content(brDb)

(* A restore that was published reads as the backup it was made from: no   *)
(* log of the replaced database lies beside the new one.                   *)
RestoredIsTheBackup == brJob.pc \in {"check", "restored"} => Content(brDb) = brJob.seen

(* Wherever a restore stops, thrown or killed, every file of the replaced  *)
(* database is in its place or in quarantine.                              *)
NothingIsLost ==
  (Restoring \/ brJob.pc \in {"restored", "failed", "killed"}) =>
    /\ brJob.was.main # Absent => brJob.was.main \in {brDb.main, brKept.main}
    /\ brJob.was.wal # Absent => brJob.was.wal \in {brDb.wal, brKept.wal}

(* The invariant of backup and restore: an image is a state that was       *)
(* committed, a published restore is that image, and until the operator    *)
(* has seen the end no replaced file is gone.                              *)
BackupSound == ImageIsAState /\ RestoredIsTheBackup /\ NothingIsLost
=============================================================================
