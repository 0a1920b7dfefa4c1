---------------------------- MODULE FileManager ----------------------------
(***************************************************************************)
(* The files behind a sync, backend/internal/caddy/file_manager.go, as     *)
(* performFullSyncJSON calls it: ConfigChanged, BackupJSONConfig,          *)
(* CleanupOldBackupsByAge, WriteJSONConfig.  Each call holds m.mu, but a   *)
(* sync does not keep it from one call to the next, and several syncs      *)
(* overlap.  Within a call the steps are those a crash of the host can     *)
(* separate.  Time is counted in seconds, the resolution of a backup's     *)
(* name.                                                                   *)
(***************************************************************************)
EXTENDS Naturals

CONSTANTS
    Versions,   \* contents of caddy.json
    Syncs,      \* goroutines running performFullSyncJSON
    Gone,       \* no such file, no version
    Retention,  \* retentionDays, in the model's seconds
    MaxSecond,  \* bound: the clock
    MaxFaults   \* bound: crashes and removals that fail

ASSUME FileAssumption ==
    /\ Retention \in Nat \ {0} /\ MaxSecond \in Nat /\ MaxFaults \in Nat
    /\ Gone \notin Versions /\ Gone \notin Syncs

Seconds == 0 .. MaxSecond
\* whole: all bytes were written; synced: they have reached the disk.
Content == [v : Versions, whole : BOOLEAN, synced : BOOLEAN]
\* A backup is modified for the last time in the second of its name.
Backup == [v : Versions, whole : BOOLEAN]

ASSUME GoneAssumption == Gone \notin Content /\ Gone \notin Backup /\ Gone \notin Seconds

FilePoints == {"idle", "changed", "backup", "copy", "cleanup", "write", "fill",
               "sync", "rename"}
Writing == {"fill", "sync", "rename"}
Locked == {"copy"} \cup Writing

VARIABLES
    cfgFile,    \* caddy.json as an open finds it
    cfgDisk,    \* caddy.json as the disk has it
    temp,       \* each sync's .tmp_ file
    strays,     \* temp files nobody will remove
    backups,    \* backup directory: the second in the name, the file
    fpc,        \* control point of each sync
    data,       \* configBytes of each sync
    made,       \* timestamp of the backup it made, Gone without one
    spoiled,    \* since then another sync replaced the file or broke that backup
    clock, faults

fileVars == <<cfgFile, cfgDisk, temp, strays, backups, fpc, data, made, spoiled,
              clock, faults>>

FileInit ==
    /\ cfgFile \in {Gone} \cup {[v |-> x, whole |-> TRUE, synced |-> TRUE] : x \in Versions}
    /\ cfgDisk = cfgFile
    /\ temp = [p \in Syncs |-> Gone]
    /\ strays = 0
    /\ backups = [s \in Seconds |-> Gone]
    /\ fpc = [p \in Syncs |-> "idle"]
    /\ data = [p \in Syncs |-> Gone]
    /\ made = [p \in Syncs |-> Gone]
    /\ spoiled = [p \in Syncs |-> FALSE]
    /\ clock = 0
    /\ faults = 0

At(p, point) == fpc[p] = point
Goto(p, point) == fpc' = [fpc EXCEPT ![p] = point]
\* The sync returns.
Finish(p) ==
    /\ Goto(p, "idle")
    /\ data' = [data EXCEPT ![p] = Gone]
    /\ made' = [made EXCEPT ![p] = Gone]
    /\ spoiled' = [spoiled EXCEPT ![p] = FALSE]
MuFree == \A p \in Syncs : fpc[p] \notin Locked

\* A sync has built its bytes.
FileStart(p, v) ==
    /\ At(p, "idle")
    /\ Goto(p, "changed")
    /\ data' = [data EXCEPT ![p] = v]
    /\ UNCHANGED <<cfgFile, cfgDisk, temp, strays, backups, made, spoiled, clock, faults>>

\* ConfigChanged: equal bytes end the sync; a missing file, other bytes or a
\* failing read go on.
ConfigChanged(p) ==
    /\ At(p, "changed") /\ MuFree
    /\ \/ Goto(p, "backup") /\ UNCHANGED <<data, made, spoiled>>
       \/ /\ cfgFile # Gone /\ cfgFile.whole /\ cfgFile.v = data[p]
          /\ Finish(p)
    /\ UNCHANGED <<cfgFile, cfgDisk, temp, strays, backups, clock, faults>>

\* BackupJSONConfig up to os.Create, which truncates a backup of that name:
\* no file, or an error before the create, leaves without a backup.
BackupOpen(p) ==
    /\ At(p, "backup") /\ MuFree
    /\ spoiled' = [spoiled EXCEPT ![p] = FALSE]
    /\ \/ Goto(p, "cleanup") /\ UNCHANGED <<made, backups>>
       \/ /\ cfgFile # Gone
          /\ Goto(p, "copy")
          /\ made' = [made EXCEPT ![p] = clock]
          /\ backups' = [backups EXCEPT ![clock] = [v |-> cfgFile.v, whole |-> FALSE]]
    /\ UNCHANGED <<cfgFile, cfgDisk, temp, strays, data, clock, faults>>

\* io.Copy and Sync, or their failure, which leaves the copy as it is and is
\* only logged by the sync.
BackupCopy(p) ==
    /\ At(p, "copy")
    /\ Goto(p, "cleanup")
    /\ \/ /\ backups' = [backups EXCEPT ![made[p]] = [v |-> cfgFile.v, whole |-> cfgFile.whole]]
          /\ UNCHANGED <<made, spoiled>>
       \/ /\ made' = [made EXCEPT ![p] = Gone]
          /\ spoiled' = [q \in Syncs |-> spoiled[q] \/ (q # p /\ made[q] = made[p])]
          /\ UNCHANGED backups
    /\ UNCHANGED <<cfgFile, cfgDisk, temp, strays, data, clock, faults>>

\* Mutant of Expired: the retention period is left out.
ExpiredAtOnce(s) == backups[s] # Gone /\ s < clock
Expired(s) == backups[s] # Gone /\ s + Retention < clock

\* CleanupOldBackupsByAge: some removals, or reading the directory, may fail.
Cleanup(p) ==
    /\ At(p, "cleanup") /\ MuFree
    /\ Goto(p, "write")
    /\ \E kept \in SUBSET {s \in Seconds : Expired(s)} :
          backups' = [s \in Seconds |-> IF Expired(s) /\ s \notin kept THEN Gone ELSE backups[s]]
    /\ UNCHANGED <<cfgFile, cfgDisk, temp, strays, data, made, spoiled, clock, faults>>

\* WriteJSONConfig: MkdirAll and CreateTemp, or their failure.
CreateTemp(p) ==
    /\ At(p, "write") /\ MuFree
    /\ \/ /\ Goto(p, "fill")
          /\ temp' = [temp EXCEPT ![p] = [v |-> data[p], whole |-> FALSE, synced |-> FALSE]]
          /\ UNCHANGED <<data, made, spoiled>>
       \/ Finish(p) /\ temp' = temp
    /\ UNCHANGED <<cfgFile, cfgDisk, strays, backups, clock, faults>>

FillTemp(p) ==
    /\ At(p, "fill")
    /\ Goto(p, "sync")
    /\ temp' = [temp EXCEPT ![p] = [v |-> data[p], whole |-> TRUE, synced |-> FALSE]]
    /\ UNCHANGED <<cfgFile, cfgDisk, strays, backups, data, made, spoiled, clock, faults>>

\* Mutant of SyncTemp: no fsync.
SyncTempNot(p) ==
    /\ At(p, "sync")
    /\ Goto(p, "rename")
    /\ UNCHANGED <<cfgFile, cfgDisk, temp, strays, backups, data, made, spoiled, clock, faults>>

\* Sync, Close and Chmod.
SyncTemp(p) ==
    /\ At(p, "sync")
    /\ Goto(p, "rename")
    /\ temp' = [temp EXCEPT ![p] = [v |-> @.v, whole |-> @.whole, synced |-> TRUE]]
    /\ UNCHANGED <<cfgFile, cfgDisk, strays, backups, data, made, spoiled, clock, faults>>

HasBackup(q) == made[q] # Gone
SpoiledBy(p) == [q \in Syncs |-> q # p /\ (spoiled[q] \/ HasBackup(q))]

\* Rename; the call returns and unlocks.
RenameTemp(p) ==
    /\ At(p, "rename")
    /\ Goto(p, "idle")
    /\ data' = [data EXCEPT ![p] = Gone]
    /\ made' = [made EXCEPT ![p] = Gone]
    /\ spoiled' = SpoiledBy(p)
    /\ cfgFile' = temp[p]
    /\ temp' = [temp EXCEPT ![p] = Gone]
    /\ UNCHANGED <<cfgDisk, strays, backups, clock, faults>>

\* A step fails: the deferred os.Remove, whose own error is dropped.
WriteError(p) ==
    /\ fpc[p] \in Writing
    /\ Finish(p)
    /\ temp' = [temp EXCEPT ![p] = Gone]
    /\ \/ UNCHANGED <<strays, faults>>
       \/ /\ faults < MaxFaults
          /\ faults' = faults + 1
          /\ strays' = strays + 1
    /\ UNCHANGED <<cfgFile, cfgDisk, backups, clock>>

\* The file system writes the directory back.
FlushDirectory ==
    /\ cfgDisk # cfgFile
    /\ cfgDisk' = cfgFile
    /\ UNCHANGED <<cfgFile, temp, strays, backups, fpc, data, made, spoiled, clock, faults>>

\* The host goes down and the container starts again: the directory is the one
\* on disk, bytes that were not synced are lost, temp files stay.
Crash ==
    /\ faults < MaxFaults
    /\ faults' = faults + 1
    /\ cfgFile' = IF cfgDisk = Gone THEN Gone
                  ELSE [v |-> cfgDisk.v, whole |-> cfgDisk.synced, synced |-> cfgDisk.synced]
    /\ cfgDisk' = cfgFile'
    /\ strays' = IF \E p \in Syncs : temp[p] # Gone THEN strays + 1 ELSE strays
    /\ temp' = [p \in Syncs |-> Gone]
    /\ fpc' = [p \in Syncs |-> "idle"]
    /\ data' = [p \in Syncs |-> Gone]
    /\ made' = [p \in Syncs |-> Gone]
    /\ spoiled' = [p \in Syncs |-> FALSE]
    /\ UNCHANGED <<backups, clock>>

\* A second passes; no sync stalls for a whole retention period (a day at least).
Second ==
    /\ clock < MaxSecond
    /\ \A p \in Syncs : (~At(p, "idle") /\ made[p] # Gone) => clock < made[p] + Retention
    /\ clock' = clock + 1
    /\ UNCHANGED <<cfgFile, cfgDisk, temp, strays, backups, fpc, data, made, spoiled, faults>>

FileCall(p) ==
    \/ \E v \in Versions : FileStart(p, v)
    \/ ConfigChanged(p) \/ BackupOpen(p) \/ BackupCopy(p) \/ Cleanup(p)
    \/ CreateTemp(p) \/ FillTemp(p) \/ SyncTemp(p) \/ RenameTemp(p)
    \/ WriteError(p)

FileNext == (\E p \in Syncs : FileCall(p)) \/ FlushDirectory \/ Crash \/ Second

FileSpec == FileInit /\ [][FileNext]_fileVars
-----------------------------------------------------------------------------
\* Type correctness; temp files are a write's own, or left by a crash or a failing
\* removal.
FileTypeOK ==
    /\ cfgFile \in Content \cup {Gone} /\ cfgDisk \in Content \cup {Gone}
    /\ temp \in [Syncs -> Content \cup {Gone}]
    /\ strays \in 0 .. faults
    /\ \A p \in Syncs : temp[p] = Gone \/ fpc[p] \in Writing
    /\ backups \in [Seconds -> Backup \cup {Gone}]
    /\ fpc \in [Syncs -> FilePoints]
    /\ data \in [Syncs -> Versions \cup {Gone}]
    /\ made \in [Syncs -> Seconds \cup {Gone}]
    /\ spoiled \in [Syncs -> BOOLEAN]
    /\ clock \in Seconds /\ faults \in 0 .. MaxFaults

\* A sync whose backup succeeded is about to replace the file: unless another
\* sync got in between, what it replaces is in a whole backup (BackupJSONConfig
\* "creates a backup of a JSON config file before overwriting"), although backups
\* of the same second share a name and old ones are being removed.
ReplacedIsBackedUp ==
    \A p \in Syncs :
        (At(p, "rename") /\ made[p] # Gone /\ ~spoiled[p] /\ cfgFile # Gone) =>
            \E s \in Seconds :
                backups[s] # Gone /\ backups[s].whole /\ backups[s].v = cfgFile.v

\* What a reader without the mutex finds, and what each sync is writing.
Seen(file) == IF file = Gone THEN Gone ELSE IF file.whole THEN file.v ELSE "torn"
OnDisk == IF cfgDisk # Gone /\ ~cfgDisk.synced THEN "torn" ELSE Seen(cfgDisk)
Wanted == [p \in Syncs |-> IF fpc[p] \in Writing THEN data[p] ELSE Gone]

Atomic == INSTANCE AtomicFile WITH
    AVersions <- Versions, AWriters <- Syncs, ANone <- Gone,
    acontent <- Seen(cfgFile), adisk <- OnDisk, awriting <- Wanted

\* The temp-file-and-rename protocol implements an atomic file: a reader never
\* finds a torn caddy.json, not even after a crash, and never a version nobody
\* was writing.
FileIsAtomic == Atomic!AtomicInit /\ [][Atomic!AtomicNext]_(Atomic!avars)
=============================================================================
