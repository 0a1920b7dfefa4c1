------------------------ MODULE CaddyStoresProofs -------------------------
(***************************************************************************)
(* The two stores the backend keeps about Caddy.  The file manager's       *)
(* protocol implements an atomic file and replaces nothing it has not      *)
(* backed up, for any number of syncs, versions, seconds and crashes.  The *)
(* traffic series lie between what was surely and what was at most         *)
(* served, and their quantiles are in order, for any codes, buckets,       *)
(* ranges, requests and restarts.                                          *)
(***************************************************************************)
EXTENDS CaddyStores, SequenceTheorems, FiniteSetTheorems,
        WellFoundedInduction, TLAPS

\* What is in place is whole and on disk, and a sync that writes has a temp file
\* of its own version, as far along as its control point says.
WholeInv ==
    /\ cfgFile # Gone => cfgFile.whole /\ cfgFile.synced
    /\ cfgDisk # Gone => cfgDisk.whole /\ cfgDisk.synced
    /\ \A p \in Syncs :
          /\ fpc[p] # "idle" => data[p] \in Versions
          /\ fpc[p] \in Writing => temp[p] # Gone /\ temp[p].v = data[p]
          /\ fpc[p] \in {"sync", "rename"} => temp[p].whole
          /\ fpc[p] = "rename" => temp[p].synced

\* m.mu keeps the locked sections of two syncs apart.
LockInv == \A p, q \in Syncs : fpc[p] \in Locked /\ fpc[q] \in Locked => p = q

\* A backup that counts is of the file in place: whole, or just being copied by
\* the one sync that may; and it is too young to be removed.
Fresh(p) == made[p] # Gone /\ ~spoiled[p]
BackupInv ==
    /\ \A p \in Syncs : fpc[p] \in {"idle", "changed", "backup"} => made[p] = Gone
    /\ \A p \in Syncs : fpc[p] = "copy" => Fresh(p)
    /\ \A p \in Syncs : made[p] # Gone => clock <= made[p] + Retention
    /\ \A p \in Syncs : Fresh(p) =>
          /\ cfgFile # Gone /\ backups[made[p]] # Gone
          /\ backups[made[p]].v = cfgFile.v
          /\ backups[made[p]].whole \/ \E q \in Syncs : fpc[q] = "copy" /\ made[q] = made[p]

FileInv == FileTypeOK /\ WholeInv /\ LockInv /\ BackupInv

-----------------------------------------------------------------------------
(* Types *)

LEMMA ContentIs ==
    ASSUME NEW x \in Versions, NEW b \in BOOLEAN, NEW c \in BOOLEAN
    PROVE  /\ [v |-> x, whole |-> b, synced |-> c] \in Content
           /\ [v |-> x, whole |-> b] \in Backup
  BY DEF Content, Backup

LEMMA FileInitTyped == FileInit => FileTypeOK
  <1> SUFFICES ASSUME FileInit PROVE FileTypeOK
    OBVIOUS
  <1>1. cfgFile \in Content \cup {Gone} /\ cfgDisk \in Content \cup {Gone}
    BY ContentIs DEF FileInit
  <1>2. strays \in 0 .. faults /\ clock \in Seconds /\ faults \in 0 .. MaxFaults
    BY FileAssumption DEF FileInit, Seconds
  <1> QED
    BY <1>1, <1>2 DEF FileInit, FileTypeOK, FilePoints

\* A sync returns.
LEMMA FinishTyped ==
    ASSUME FileTypeOK, NEW p \in Syncs, Finish(p)
    PROVE  /\ fpc' \in [Syncs -> FilePoints]
           /\ data' \in [Syncs -> Versions \cup {Gone}]
           /\ made' \in [Syncs -> Seconds \cup {Gone}]
           /\ spoiled' \in [Syncs -> BOOLEAN]
  BY DEF FileTypeOK, Finish, Goto, FilePoints

LEMMA FileStepTyped == FileInv /\ [FileNext]_fileVars => FileTypeOK'
  <1> SUFFICES ASSUME FileTypeOK, WholeInv, BackupInv, [FileNext]_fileVars PROVE FileTypeOK'
    BY DEF FileInv
  <1> USE FileAssumption
  <1>1. ASSUME NEW p \in Syncs, NEW v \in Versions, FileStart(p, v) PROVE FileTypeOK'
    BY <1>1 DEF FileTypeOK, FileStart, At, Goto, FilePoints, Writing
  <1>2. ASSUME NEW p \in Syncs, ConfigChanged(p) PROVE FileTypeOK'
    BY <1>2, FinishTyped DEF FileTypeOK, ConfigChanged, Finish, At, Goto, FilePoints, Writing
  <1>3. ASSUME NEW p \in Syncs, BackupOpen(p) PROVE FileTypeOK'
    <2>1. cfgFile # Gone => [v |-> cfgFile.v, whole |-> FALSE] \in Backup
      BY DEF FileTypeOK, Content, Backup
    <2>2. backups' \in [Seconds -> Backup \cup {Gone}]
      BY <1>3, <2>1 DEF FileTypeOK, BackupOpen
    <2>5. made' \in [Syncs -> Seconds \cup {Gone}]
      BY <1>3 DEF FileTypeOK, BackupOpen
    <2>3. fpc' \in [Syncs -> FilePoints] /\ spoiled' \in [Syncs -> BOOLEAN]
      BY <1>3 DEF FileTypeOK, BackupOpen, Goto, FilePoints
    <2>4. \A q \in Syncs : temp'[q] = Gone \/ fpc'[q] \in Writing
      BY <1>3 DEF FileTypeOK, BackupOpen, At, Goto, Writing
    <2> QED
      BY <1>3, <2>2, <2>3, <2>4, <2>5 DEF FileTypeOK, BackupOpen
  <1>4. ASSUME NEW p \in Syncs, BackupCopy(p) PROVE FileTypeOK'
    <2>1. cfgFile # Gone
      BY <1>4 DEF BackupInv, BackupCopy, At
    <2>2. [v |-> cfgFile.v, whole |-> cfgFile.whole] \in Backup
      BY <2>1 DEF FileTypeOK, Content, Backup
    <2>3. backups' \in [Seconds -> Backup \cup {Gone}] /\ made' \in [Syncs -> Seconds \cup {Gone}]
      BY <1>4, <2>2 DEF FileTypeOK, BackupCopy
    <2>4. fpc' \in [Syncs -> FilePoints]
      BY <1>4 DEF FileTypeOK, BackupCopy, Goto, FilePoints
    <2>5. spoiled' \in [Syncs -> BOOLEAN]
      BY <1>4 DEF FileTypeOK, BackupCopy
    <2>6. \A q \in Syncs : temp'[q] = Gone \/ fpc'[q] \in Writing
      BY <1>4 DEF FileTypeOK, BackupCopy, At, Goto, Writing
    <2> QED
      BY <1>4, <2>3, <2>4, <2>5, <2>6 DEF FileTypeOK, BackupCopy
  <1>5. ASSUME NEW p \in Syncs, Cleanup(p) PROVE FileTypeOK'
    BY <1>5 DEF FileTypeOK, Cleanup, At, Goto, FilePoints, Writing
  <1>6. ASSUME NEW p \in Syncs, CreateTemp(p) PROVE FileTypeOK'
    <2>1. data[p] \in Versions
      BY <1>6 DEF WholeInv, CreateTemp, At
    <2>2. temp' \in [Syncs -> Content \cup {Gone}]
      BY <1>6, <2>1, ContentIs DEF FileTypeOK, CreateTemp
    <2>3. /\ fpc' \in [Syncs -> FilePoints]
          /\ data' \in [Syncs -> Versions \cup {Gone}]
          /\ made' \in [Syncs -> Seconds \cup {Gone}]
          /\ spoiled' \in [Syncs -> BOOLEAN]
      BY <1>6, FinishTyped DEF FileTypeOK, CreateTemp, Goto, FilePoints
    <2>4. \A q \in Syncs : temp'[q] = Gone \/ fpc'[q] \in Writing
      BY <1>6 DEF FileTypeOK, CreateTemp, Finish, At, Goto, Writing
    <2> QED
      BY <1>6, <2>2, <2>3, <2>4 DEF FileTypeOK, CreateTemp
  <1>7. ASSUME NEW p \in Syncs, FillTemp(p) PROVE FileTypeOK'
    <2>1. data[p] \in Versions
      BY <1>7 DEF WholeInv, FillTemp, At
    <2>2. temp' \in [Syncs -> Content \cup {Gone}]
      BY <1>7, <2>1, ContentIs DEF FileTypeOK, FillTemp
    <2> QED
      BY <1>7, <2>2 DEF FileTypeOK, FillTemp, At, Goto, FilePoints, Writing
  <1>8. ASSUME NEW p \in Syncs, SyncTemp(p) PROVE FileTypeOK'
    <2>1. temp[p] # Gone
      BY <1>8 DEF WholeInv, SyncTemp, At, Writing
    <2>2. [v |-> temp[p].v, whole |-> temp[p].whole, synced |-> TRUE] \in Content
      BY <2>1 DEF FileTypeOK, Content
    <2>3. temp' \in [Syncs -> Content \cup {Gone}]
      BY <1>8, <2>2 DEF FileTypeOK, SyncTemp
    <2> QED
      BY <1>8, <2>3 DEF FileTypeOK, SyncTemp, At, Goto, FilePoints, Writing
  <1>9. ASSUME NEW p \in Syncs, RenameTemp(p) PROVE FileTypeOK'
    BY <1>9 DEF FileTypeOK, RenameTemp, SpoiledBy, HasBackup, At, Goto, FilePoints, Writing
  <1>10. ASSUME NEW p \in Syncs, WriteError(p) PROVE FileTypeOK'
    BY <1>10, FinishTyped DEF FileTypeOK, WriteError, Finish, Goto, FilePoints, Writing
  <1>11. CASE FlushDirectory
    BY <1>11 DEF FileTypeOK, FlushDirectory
  <1>12. CASE Crash
    BY <1>12 DEF FileTypeOK, Crash, FilePoints, Content
  <1>13. CASE Second
    BY <1>13 DEF FileTypeOK, Second, Seconds
  <1>14. CASE UNCHANGED fileVars
    BY <1>14 DEF FileTypeOK, fileVars
  <1> QED
    BY <1>1, <1>2, <1>3, <1>4, <1>5, <1>6, <1>7, <1>8, <1>9, <1>10, <1>11, <1>12, <1>13, <1>14
       DEF FileNext, FileCall

-----------------------------------------------------------------------------
(* m.mu *)

\* Entering a locked section takes a free mutex; the steps inside it are the
\* holder's.
LEMMA FileStepLocked == FileInv /\ [FileNext]_fileVars => LockInv'
  <1> SUFFICES ASSUME FileTypeOK, LockInv, [FileNext]_fileVars PROVE LockInv'
    BY DEF FileInv
  <1>1. ASSUME NEW p \in Syncs, FileCall(p) PROVE LockInv'
    <2>1. fpc' \in [Syncs -> FilePoints] /\ \A q \in Syncs \ {p} : fpc'[q] = fpc[q]
      BY <1>1 DEF FileCall, FileStart, ConfigChanged, BackupOpen, BackupCopy, Cleanup,
         CreateTemp, FillTemp, SyncTemp, RenameTemp, WriteError, Finish, Goto, FileTypeOK,
         FilePoints
    <2>2. fpc'[p] \in Locked => MuFree \/ fpc[p] \in Locked
      BY <1>1 DEF FileCall, FileStart, ConfigChanged, BackupOpen, BackupCopy, Cleanup,
         CreateTemp, FillTemp, SyncTemp, RenameTemp, WriteError, Finish, At, Goto,
         FileTypeOK, Locked, Writing
    <2> QED
      BY <2>1, <2>2 DEF LockInv, MuFree
  <1>2. CASE FlushDirectory \/ Second \/ UNCHANGED fileVars
    BY <1>2 DEF FlushDirectory, Second, fileVars, LockInv
  <1>3. CASE Crash
    BY <1>3 DEF Crash, LockInv, Locked, Writing
  <1> QED
    BY <1>1, <1>2, <1>3 DEF FileNext

-----------------------------------------------------------------------------
(* What is in place is whole *)

LEMMA FileStepWhole == FileInv /\ [FileNext]_fileVars => WholeInv'
  <1> SUFFICES ASSUME FileTypeOK, WholeInv, [FileNext]_fileVars PROVE WholeInv'
    BY DEF FileInv
  <1> DEFINE Along(q) ==
          /\ fpc[q] # "idle" => data[q] \in Versions
          /\ fpc[q] \in Writing => temp[q] # Gone /\ temp[q].v = data[q]
          /\ fpc[q] \in {"sync", "rename"} => temp[q].whole
          /\ fpc[q] = "rename" => temp[q].synced
  <1>0. \A q \in Syncs : Along(q)
    BY DEF WholeInv
  <1>a. ASSUME NEW q \in Syncs, fpc'[q] = fpc[q], data'[q] = data[q], temp'[q] = temp[q]
        PROVE  Along(q)'
    BY <1>0, <1>a
  <1>b. ASSUME NEW q \in Syncs, fpc'[q] = "idle" PROVE Along(q)'
    BY <1>b DEF Writing
  <1>1. ASSUME NEW p \in Syncs, NEW v \in Versions, FileStart(p, v) PROVE WholeInv'
    <2>1. Along(p)'
      BY <1>1 DEF FileStart, Goto, FileTypeOK, Writing
    <2>2. \A q \in Syncs \ {p} : Along(q)'
      BY <1>1, <1>a DEF FileStart, Goto, FileTypeOK
    <2> QED
      BY <1>1, <2>1, <2>2 DEF WholeInv, FileStart
  <1>2. ASSUME NEW p \in Syncs, ConfigChanged(p) PROVE WholeInv'
    <2>1. Along(p)'
      BY <1>2, <1>0 DEF ConfigChanged, Finish, At, Goto, FileTypeOK, Writing
    <2>2. \A q \in Syncs \ {p} : Along(q)'
      BY <1>2, <1>a DEF ConfigChanged, Finish, Goto, FileTypeOK
    <2> QED
      BY <1>2, <2>1, <2>2 DEF WholeInv, ConfigChanged
  <1>3. ASSUME NEW p \in Syncs, BackupOpen(p) \/ BackupCopy(p) \/ Cleanup(p) PROVE WholeInv'
    <2>1. Along(p)'
      BY <1>3, <1>0 DEF BackupOpen, BackupCopy, Cleanup, At, Goto, FileTypeOK, Writing
    <2>2. \A q \in Syncs \ {p} : Along(q)'
      BY <1>3, <1>a DEF BackupOpen, BackupCopy, Cleanup, Goto, FileTypeOK
    <2> QED
      BY <1>3, <2>1, <2>2 DEF WholeInv, BackupOpen, BackupCopy, Cleanup
  <1>4. ASSUME NEW p \in Syncs, CreateTemp(p) PROVE WholeInv'
    <2>1. Along(p)'
      <3>1. CASE fpc'[p] = "idle"
        BY <3>1, <1>b
      <3>2. CASE fpc'[p] # "idle"
        <4>1. /\ fpc'[p] = "fill" /\ data' = data /\ data[p] \in Versions
              /\ temp'[p] = [v |-> data[p], whole |-> FALSE, synced |-> FALSE]
          BY <3>2, <1>4, <1>0 DEF CreateTemp, Finish, At, Goto, FileTypeOK
        <4>2. temp'[p] # Gone
          BY <4>1, ContentIs, GoneAssumption
        <4> QED
          BY <4>1, <4>2
      <3> QED
        BY <3>1, <3>2
    <2>2. \A q \in Syncs \ {p} : Along(q)'
      BY <1>4, <1>a DEF CreateTemp, Finish, Goto, FileTypeOK
    <2> QED
      BY <1>4, <2>1, <2>2 DEF WholeInv, CreateTemp
  <1>5. ASSUME NEW p \in Syncs, FillTemp(p) PROVE WholeInv'
    <2>1. Along(p)'
      <3>1. /\ fpc'[p] = "sync" /\ data' = data /\ data[p] \in Versions
            /\ temp'[p] = [v |-> data[p], whole |-> TRUE, synced |-> FALSE]
        BY <1>5, <1>0 DEF FillTemp, At, Goto, FileTypeOK
      <3>2. temp'[p] # Gone
        BY <3>1, ContentIs, GoneAssumption
      <3> QED
        BY <3>1, <3>2
    <2>2. \A q \in Syncs \ {p} : Along(q)'
      BY <1>5, <1>a DEF FillTemp, Goto, FileTypeOK
    <2> QED
      BY <1>5, <2>1, <2>2 DEF WholeInv, FillTemp
  <1>6. ASSUME NEW p \in Syncs, SyncTemp(p) PROVE WholeInv'
    <2>1. Along(p)'
      <3>1. /\ fpc'[p] = "rename" /\ data' = data /\ data[p] \in Versions
            /\ temp[p] # Gone /\ temp[p].v = data[p] /\ temp[p].whole
        BY <1>6, <1>0 DEF SyncTemp, At, Goto, FileTypeOK, Writing
      <3>2. temp'[p] = [v |-> data[p], whole |-> TRUE, synced |-> TRUE]
        <4>1. temp[p].whole = TRUE
          BY <3>1 DEF FileTypeOK, Content
        <4>2. temp'[p] = [v |-> temp[p].v, whole |-> temp[p].whole, synced |-> TRUE]
          BY <1>6 DEF SyncTemp, FileTypeOK
        <4> QED
          BY <3>1, <4>1, <4>2
      <3>3. temp'[p] # Gone
        BY <3>1, <3>2, ContentIs, GoneAssumption
      <3> QED
        BY <3>1, <3>2, <3>3
    <2>2. \A q \in Syncs \ {p} : Along(q)'
      BY <1>6, <1>a DEF SyncTemp, Goto, FileTypeOK
    <2> QED
      BY <1>6, <2>1, <2>2 DEF WholeInv, SyncTemp
  <1>7. ASSUME NEW p \in Syncs, RenameTemp(p) PROVE WholeInv'
    <2>1. Along(p)'
      BY <1>7, <1>b DEF RenameTemp, Goto, FileTypeOK
    <2>2. \A q \in Syncs \ {p} : Along(q)'
      BY <1>7, <1>a DEF RenameTemp, Goto, FileTypeOK
    <2>3. cfgFile'.whole /\ cfgFile'.synced
      BY <1>7, <1>0 DEF RenameTemp, At
    <2> QED
      BY <1>7, <2>1, <2>2, <2>3 DEF WholeInv, RenameTemp
  <1>8. ASSUME NEW p \in Syncs, WriteError(p) PROVE WholeInv'
    <2>1. Along(p)'
      BY <1>8, <1>b DEF WriteError, Finish, Goto, FileTypeOK
    <2>2. \A q \in Syncs \ {p} : Along(q)'
      BY <1>8, <1>a DEF WriteError, Finish, Goto, FileTypeOK
    <2> QED
      BY <1>8, <2>1, <2>2 DEF WholeInv, WriteError
  <1>9. CASE FlushDirectory
    BY <1>9 DEF WholeInv, FlushDirectory
  <1>10. CASE Crash
    <2>1. \A q \in Syncs : Along(q)'
      BY <1>10, <1>b DEF Crash
    <2>2. cfgFile' # Gone => cfgFile'.whole /\ cfgFile'.synced
      BY <1>10 DEF Crash, WholeInv
    <2> QED
      BY <1>10, <2>1, <2>2 DEF WholeInv, Crash
  <1>11. CASE Second \/ UNCHANGED fileVars
    BY <1>11 DEF WholeInv, Second, fileVars
  <1> QED
    BY <1>1, <1>2, <1>3, <1>4, <1>5, <1>6, <1>7, <1>8, <1>9, <1>10, <1>11
       DEF FileNext, FileCall
-----------------------------------------------------------------------------
(* Backups *)

\* A step that leaves the file, the backups and the sections that copy alone, and
\* forgets or keeps the backups that syncs count on, keeps BackupInv.
LEMMA BackupKept ==
    ASSUME FileTypeOK, BackupInv, NEW p \in Syncs,
           cfgFile' = cfgFile, backups' = backups, clock' = clock,
           \A q \in Syncs \ {p} :
              fpc'[q] = fpc[q] /\ made'[q] = made[q] /\ spoiled'[q] = spoiled[q],
           fpc[p] # "copy", fpc'[p] # "copy",
           \/ made'[p] = Gone
           \/ /\ made'[p] = made[p] /\ spoiled'[p] = spoiled[p]
              /\ fpc'[p] \in {"idle", "changed", "backup"} =>
                    fpc[p] \in {"idle", "changed", "backup"}
    PROVE  BackupInv'
  <1>1. \A q \in Syncs : fpc'[q] = "copy" <=> fpc[q] = "copy"
    OBVIOUS
  <1>2. \A q \in Syncs : fpc[q] = "copy" => made'[q] = made[q]
    OBVIOUS
  <1>3. ASSUME NEW r \in Syncs, Fresh(r)'
        PROVE  /\ cfgFile' # Gone /\ backups'[made'[r]] # Gone
               /\ backups'[made'[r]].v = cfgFile'.v
               /\ \/ backups'[made'[r]].whole
                  \/ \E q \in Syncs : fpc'[q] = "copy" /\ made'[q] = made'[r]
    <2>1. Fresh(r) /\ made'[r] = made[r]
      BY <1>3 DEF Fresh
    <2> QED
      BY <2>1, <1>1, <1>2 DEF BackupInv
  <1>4. \A r \in Syncs : fpc'[r] \in {"idle", "changed", "backup"} => made'[r] = Gone
    BY DEF BackupInv
  <1>5. \A r \in Syncs : fpc'[r] = "copy" => Fresh(r)'
    BY DEF BackupInv, Fresh
  <1>6. \A r \in Syncs : made'[r] # Gone => clock' <= made'[r] + Retention
    BY DEF BackupInv
  <1> QED
    BY <1>3, <1>4, <1>5, <1>6 DEF BackupInv

LEMMA BackupOpenKeeps ==
    ASSUME FileInv, NEW p \in Syncs, BackupOpen(p) PROVE BackupInv'
  <1> USE FileAssumption
  <1>1. FileTypeOK /\ BackupInv /\ fpc[p] = "backup" /\ made[p] = Gone
    BY DEF FileInv, BackupInv, BackupOpen, At
  <1>2. \A q \in Syncs : fpc[q] # "copy"
    BY DEF BackupOpen, MuFree, Locked
  <1>3. \A q \in Syncs \ {p} : fpc'[q] = fpc[q] /\ made'[q] = made[q] /\ spoiled'[q] = spoiled[q]
    BY <1>1 DEF BackupOpen, Goto, FileTypeOK
  <1>4. CASE fpc'[p] = "cleanup" /\ backups' = backups /\ made' = made
    BY <1>1, <1>2, <1>3, <1>4, BackupKept DEF BackupOpen
  <1>5. CASE /\ cfgFile # Gone
             /\ Goto(p, "copy")
             /\ made' = [made EXCEPT ![p] = clock]
             /\ backups' = [backups EXCEPT ![clock] = [v |-> cfgFile.v, whole |-> FALSE]]
    <2>1. fpc'[p] = "copy" /\ made'[p] = clock /\ clock \in Seconds /\ clock # Gone
      <3>1. fpc'[p] = "copy" /\ made'[p] = clock /\ clock \in Seconds
        BY <1>1, <1>5 DEF FileTypeOK, Goto
      <3> QED
        BY <3>1, GoneAssumption
    <2>2. ~spoiled'[p]
      BY <1>1 DEF BackupOpen, FileTypeOK
    <2>3. backups'[clock] = [v |-> cfgFile.v, whole |-> FALSE]
      BY <1>1, <1>5, <2>1 DEF FileTypeOK
    <2>4. backups'[clock] # Gone
      <3>1. cfgFile.v \in Versions
        BY <1>1, <1>5 DEF FileTypeOK, Content
      <3> QED
        BY <2>3, <3>1, ContentIs, GoneAssumption
    <2>5. \A s \in Seconds \ {clock} : backups'[s] = backups[s]
      BY <1>1, <1>5 DEF FileTypeOK
    <2>6. cfgFile' = cfgFile /\ clock' = clock
      BY DEF BackupOpen
    <2>7. ASSUME NEW r \in Syncs, Fresh(r)'
          PROVE  /\ cfgFile' # Gone /\ backups'[made'[r]] # Gone
                 /\ backups'[made'[r]].v = cfgFile'.v
                 /\ \/ backups'[made'[r]].whole
                    \/ \E q \in Syncs : fpc'[q] = "copy" /\ made'[q] = made'[r]
      <3>1. CASE made'[r] = clock
        BY <3>1, <1>5, <2>1, <2>3, <2>4, <2>6
      <3>2. CASE made'[r] # clock
        <4>1. r # p /\ Fresh(r) /\ made'[r] = made[r]
          BY <3>2, <1>3, <2>1, <2>7 DEF Fresh
        <4>2. made[r] \in Seconds \ {clock}
          BY <3>2, <4>1, <1>1 DEF FileTypeOK, Fresh
        <4> QED
          BY <4>1, <4>2, <1>1, <1>2, <2>5, <2>6 DEF BackupInv
      <3> QED
        BY <3>1, <3>2
    <2>8. \A r \in Syncs : fpc'[r] \in {"idle", "changed", "backup"} => made'[r] = Gone
      BY <1>1, <1>3, <2>1 DEF BackupInv
    <2>9. \A r \in Syncs : fpc'[r] = "copy" => Fresh(r)'
      BY <1>2, <1>3, <2>1, <2>2 DEF Fresh
    <2>10. \A r \in Syncs : made'[r] # Gone => clock' <= made'[r] + Retention
      <3>1. clock <= clock + Retention
        BY <2>1 DEF Seconds
      <3> QED
        BY <3>1, <1>1, <1>3, <2>1, <2>6 DEF BackupInv
    <2> QED
      BY <2>7, <2>8, <2>9, <2>10 DEF BackupInv
  <1> QED
    BY <1>1, <1>4, <1>5 DEF BackupOpen, Goto, FileTypeOK
LEMMA BackupCopyKeeps ==
    ASSUME FileInv, NEW p \in Syncs, BackupCopy(p) PROVE BackupInv'
  <1> USE FileAssumption
  <1>1. /\ FileTypeOK /\ BackupInv /\ fpc[p] = "copy" /\ Fresh(p)
        /\ cfgFile # Gone /\ made[p] \in Seconds
    BY DEF FileInv, FileTypeOK, BackupInv, BackupCopy, At, Fresh
  <1>2. fpc'[p] = "cleanup" /\ \A q \in Syncs \ {p} : fpc'[q] = fpc[q] /\ made'[q] = made[q]
    BY <1>1 DEF BackupCopy, Goto, FileTypeOK
  <1>3. cfgFile' = cfgFile /\ clock' = clock
    BY DEF BackupCopy
  <1>4. \A s \in Seconds \ {made[p]} : backups'[s] = backups[s]
    BY <1>1 DEF BackupCopy, FileTypeOK
  <1>5. made'[p] = made[p] \/ made'[p] = Gone
    BY <1>1 DEF BackupCopy, FileTypeOK
  <1>6. \A r \in Syncs \ {p} : ~spoiled'[r] => ~spoiled[r]
    BY <1>1 DEF BackupCopy, FileTypeOK
  <1>7. ASSUME NEW r \in Syncs, Fresh(r)'
        PROVE  /\ cfgFile' # Gone /\ backups'[made'[r]] # Gone
               /\ backups'[made'[r]].v = cfgFile'.v
               /\ \/ backups'[made'[r]].whole
                  \/ \E q \in Syncs : fpc'[q] = "copy" /\ made'[q] = made'[r]
    <2>1. made'[r] = made[r] /\ made[r] \in Seconds
      BY <1>1, <1>2, <1>5, <1>7 DEF Fresh, FileTypeOK
    <2>2. CASE made[r] = made[p]
      <3>1. backups' = [backups EXCEPT ![made[p]] = [v |-> cfgFile.v, whole |-> cfgFile.whole]]
        BY <2>1, <2>2, <1>1, <1>7 DEF BackupCopy, Fresh, FileTypeOK
      <3>2. backups'[made[p]] = [v |-> cfgFile.v, whole |-> cfgFile.whole]
        BY <3>1, <1>1 DEF FileTypeOK
      <3>3. [v |-> cfgFile.v, whole |-> cfgFile.whole] \in Backup
        BY <1>1 DEF FileTypeOK, Content, Backup
      <3>4. cfgFile.whole
        BY <1>1 DEF FileInv, WholeInv
      <3>5. backups'[made[p]] # Gone
        BY <3>2, <3>3, GoneAssumption
      <3> QED
        BY <2>1, <2>2, <3>2, <3>4, <3>5, <1>1, <1>3
    <2>3. CASE made[r] # made[p]
      <3>1. r # p /\ Fresh(r)
        BY <2>1, <2>3, <1>6, <1>7 DEF Fresh
      <3>2. backups'[made[r]] = backups[made[r]]
        BY <2>1, <2>3, <1>4
      <3>3. /\ backups[made[r]] # Gone /\ backups[made[r]].v = cfgFile.v
            /\ \/ backups[made[r]].whole
               \/ \E q \in Syncs : fpc[q] = "copy" /\ made[q] = made[r]
        BY <3>1, <1>1 DEF BackupInv
      <3>4. (\E q \in Syncs : fpc[q] = "copy" /\ made[q] = made[r]) =>
               \E q \in Syncs : fpc'[q] = "copy" /\ made'[q] = made[r]
        BY <1>2, <2>3
      <3> QED
        BY <2>1, <3>2, <3>3, <3>4, <1>1, <1>3
    <2> QED
      BY <2>2, <2>3
  <1>8. \A r \in Syncs : fpc'[r] \in {"idle", "changed", "backup"} => made'[r] = Gone
    BY <1>1, <1>2 DEF BackupInv
  <1>9. \A r \in Syncs : fpc'[r] = "copy" => Fresh(r)'
    <2>1. \A r \in Syncs : fpc'[r] = "copy" => r = p
      BY <1>1, <1>2 DEF FileInv, LockInv, Locked
    <2> QED
      BY <2>1, <1>2
  <1>10. \A r \in Syncs : made'[r] # Gone => clock' <= made'[r] + Retention
    BY <1>1, <1>2, <1>3, <1>5 DEF BackupInv
  <1> QED
    BY <1>7, <1>8, <1>9, <1>10 DEF BackupInv

\* A backup some sync counts on is younger than the retention period.
LEMMA CleanupKeeps ==
    ASSUME FileInv, NEW p \in Syncs, Cleanup(p) PROVE BackupInv'
  <1> USE FileAssumption
  <1>1. FileTypeOK /\ BackupInv /\ fpc[p] = "cleanup"
    BY DEF FileInv, Cleanup, At
  <1>2. \A q \in Syncs : fpc[q] # "copy"
    BY DEF Cleanup, MuFree, Locked
  <1>3. /\ fpc'[p] = "write" /\ \A q \in Syncs \ {p} : fpc'[q] = fpc[q]
        /\ made' = made /\ spoiled' = spoiled /\ cfgFile' = cfgFile /\ clock' = clock
    BY <1>1 DEF Cleanup, Goto, FileTypeOK
  <1>4. \A s \in Seconds : ~Expired(s) => backups'[s] = backups[s]
    BY DEF Cleanup
  <1>5. ASSUME NEW r \in Syncs, made[r] # Gone PROVE backups'[made[r]] = backups[made[r]]
    <2>1. made[r] \in Seconds /\ clock <= made[r] + Retention /\ clock \in Seconds
      BY <1>1, <1>5 DEF FileTypeOK, BackupInv
    <2>2. ~Expired(made[r])
      BY <2>1 DEF Expired, Seconds
    <2> QED
      BY <2>1, <2>2, <1>4
  <1>6. \A r \in Syncs : Fresh(r)' <=> Fresh(r)
    BY <1>3 DEF Fresh
  <1>7. \A r \in Syncs : fpc'[r] # "copy"
    BY <1>2, <1>3
  <1>8. ASSUME NEW r \in Syncs, Fresh(r)
        PROVE  /\ cfgFile' # Gone /\ backups'[made'[r]] # Gone
               /\ backups'[made'[r]].v = cfgFile'.v /\ backups'[made'[r]].whole
    BY <1>8, <1>1, <1>2, <1>3, <1>5 DEF BackupInv, Fresh
  <1>9. \A r \in Syncs : fpc'[r] \in {"idle", "changed", "backup"} => made'[r] = Gone
    BY <1>1, <1>3 DEF BackupInv
  <1>10. \A r \in Syncs : made'[r] # Gone => clock' <= made'[r] + Retention
    BY <1>1, <1>3 DEF BackupInv
  <1> QED
    BY <1>6, <1>7, <1>8, <1>9, <1>10 DEF BackupInv

\* Whoever replaces the file ends what the others' backups count for.
LEMMA RenameKeeps ==
    ASSUME FileInv, NEW p \in Syncs, RenameTemp(p) PROVE BackupInv'
  <1>1. FileTypeOK /\ BackupInv /\ fpc[p] = "rename"
    BY DEF FileInv, RenameTemp, At
  <1>2. \A q \in Syncs : fpc[q] # "copy"
    BY <1>1 DEF FileInv, LockInv, Locked, Writing
  <1>3. /\ fpc'[p] = "idle" /\ made'[p] = Gone /\ clock' = clock
        /\ \A q \in Syncs \ {p} : fpc'[q] = fpc[q] /\ made'[q] = made[q]
    BY <1>1 DEF RenameTemp, Goto, FileTypeOK
  <1>4. \A q \in Syncs \ {p} : made[q] # Gone => spoiled'[q]
    BY DEF RenameTemp, SpoiledBy, HasBackup
  <1>5. \A r \in Syncs : ~Fresh(r)'
    BY <1>3, <1>4 DEF Fresh
  <1>6. \A r \in Syncs : fpc'[r] # "copy"
    BY <1>2, <1>3
  <1>7. \A r \in Syncs : fpc'[r] \in {"idle", "changed", "backup"} => made'[r] = Gone
    BY <1>1, <1>3 DEF BackupInv
  <1>8. \A r \in Syncs : made'[r] # Gone => clock' <= made'[r] + Retention
    BY <1>1, <1>3 DEF BackupInv
  <1> QED
    BY <1>5, <1>6, <1>7, <1>8 DEF BackupInv

LEMMA FileStepBackup == FileInv /\ [FileNext]_fileVars => BackupInv'
  <1> SUFFICES ASSUME FileInv, [FileNext]_fileVars PROVE BackupInv'
    OBVIOUS
  <1> USE FileAssumption
  <1>0. FileTypeOK /\ BackupInv
    BY DEF FileInv
  <1>1. ASSUME NEW p \in Syncs, NEW v \in Versions, FileStart(p, v) PROVE BackupInv'
    <2>1. fpc[p] = "idle" /\ fpc'[p] = "changed" /\ \A q \in Syncs \ {p} : fpc'[q] = fpc[q]
      BY <1>1, <1>0 DEF FileStart, At, Goto, FileTypeOK
    <2> QED
      BY <1>0, <1>1, <2>1, BackupKept DEF FileStart
  <1>2. ASSUME NEW p \in Syncs, ConfigChanged(p) PROVE BackupInv'
    <2>1. fpc[p] = "changed" /\ fpc'[p] \in {"backup", "idle"}
      BY <1>2, <1>0 DEF ConfigChanged, Finish, At, Goto, FileTypeOK
    <2>2. \A q \in Syncs \ {p} :
             fpc'[q] = fpc[q] /\ made'[q] = made[q] /\ spoiled'[q] = spoiled[q]
      BY <1>2, <1>0 DEF ConfigChanged, Finish, Goto, FileTypeOK
    <2>3. made'[p] = Gone \/ (made'[p] = made[p] /\ spoiled'[p] = spoiled[p])
      BY <1>2, <1>0 DEF ConfigChanged, Finish, FileTypeOK
    <2>4. cfgFile' = cfgFile /\ backups' = backups /\ clock' = clock
      BY <1>2 DEF ConfigChanged
    <2> QED
      BY <1>0, <2>1, <2>2, <2>3, <2>4, BackupKept
  <1>3. ASSUME NEW p \in Syncs, CreateTemp(p) PROVE BackupInv'
    <2>1. /\ fpc[p] = "write"
          /\ \/ fpc'[p] = "fill" /\ made' = made /\ spoiled' = spoiled
             \/ fpc'[p] = "idle" /\ made'[p] = Gone
      BY <1>3, <1>0 DEF CreateTemp, Finish, At, Goto, FileTypeOK
    <2>2. \A q \in Syncs \ {p} :
             fpc'[q] = fpc[q] /\ made'[q] = made[q] /\ spoiled'[q] = spoiled[q]
      BY <1>3, <1>0 DEF CreateTemp, Finish, Goto, FileTypeOK
    <2>3. cfgFile' = cfgFile /\ backups' = backups /\ clock' = clock
      BY <1>3 DEF CreateTemp
    <2> QED
      BY <1>0, <2>1, <2>2, <2>3, BackupKept
  <1>4. ASSUME NEW p \in Syncs, FillTemp(p) \/ SyncTemp(p) PROVE BackupInv'
    <2>1. /\ fpc[p] \in {"fill", "sync"} /\ fpc'[p] \in {"sync", "rename"}
          /\ \A q \in Syncs \ {p} : fpc'[q] = fpc[q]
      BY <1>4, <1>0 DEF FillTemp, SyncTemp, At, Goto, FileTypeOK
    <2>2. /\ cfgFile' = cfgFile /\ backups' = backups /\ clock' = clock
          /\ made' = made /\ spoiled' = spoiled
      BY <1>4 DEF FillTemp, SyncTemp
    <2> QED
      BY <1>0, <2>1, <2>2, BackupKept
  <1>5. ASSUME NEW p \in Syncs, WriteError(p) PROVE BackupInv'
    <2>1. fpc[p] # "copy" /\ fpc'[p] = "idle" /\ made'[p] = Gone
      BY <1>5, <1>0 DEF WriteError, Finish, Goto, FileTypeOK, Writing
    <2>2. \A q \in Syncs \ {p} :
             fpc'[q] = fpc[q] /\ made'[q] = made[q] /\ spoiled'[q] = spoiled[q]
      BY <1>5, <1>0 DEF WriteError, Finish, Goto, FileTypeOK
    <2>3. cfgFile' = cfgFile /\ backups' = backups /\ clock' = clock
      BY <1>5 DEF WriteError
    <2> QED
      BY <1>0, <2>1, <2>2, <2>3, BackupKept
  <1>6. CASE FlushDirectory \/ UNCHANGED fileVars
    BY <1>0, <1>6 DEF FlushDirectory, fileVars, BackupInv, Fresh
  <1>7. CASE Crash
    BY <1>7 DEF Crash, BackupInv, Fresh
  <1>8. CASE Second
    <2>1. \A r \in Syncs : made[r] # Gone => clock' <= made[r] + Retention
      <3> SUFFICES ASSUME NEW r \in Syncs, made[r] # Gone PROVE clock' <= made[r] + Retention
        OBVIOUS
      <3>1. clock < made[r] + Retention /\ clock' = clock + 1
        BY <1>0, <1>8 DEF Second, BackupInv, At
      <3>2. clock \in Nat /\ made[r] \in Nat
        BY <1>0 DEF FileTypeOK, Seconds
      <3> QED
        BY <3>1, <3>2
    <2> QED
      BY <1>0, <1>8, <2>1 DEF Second, BackupInv, Fresh
  <1> QED
    BY <1>0, <1>1, <1>2, <1>3, <1>4, <1>5, <1>6, <1>7, <1>8, BackupOpenKeeps, BackupCopyKeeps,
       CleanupKeeps, RenameKeeps DEF FileNext, FileCall

-----------------------------------------------------------------------------
(* The theorems *)

LEMMA FileInitInv == FileInit => FileInv
  <1> SUFFICES ASSUME FileInit PROVE FileInv
    OBVIOUS
  <1>1. WholeInv
    BY DEF FileInit, WholeInv, Writing
  <1>2. LockInv
    BY DEF FileInit, LockInv, Locked, Writing
  <1>3. BackupInv
    BY DEF FileInit, BackupInv, Fresh
  <1> QED
    BY <1>1, <1>2, <1>3, FileInitTyped DEF FileInv

LEMMA FileInductive == FileSpec => []FileInv
  <1>1. FileInv /\ [FileNext]_fileVars => FileInv'
    BY FileStepTyped, FileStepLocked, FileStepWhole, FileStepBackup DEF FileInv
  <1> QED
    BY <1>1, FileInitInv, PTL DEF FileSpec

\* Types are kept by every call, failure and crash, and a temp file is a running
\* write's own or counted among the ones left behind.
THEOREM FileTypeCorrect == FileSpec => []FileTypeOK
  BY FileInductive, PTL DEF FileInv

\* Whoever replaces caddy.json after a backup that succeeded replaces what is in a
\* whole backup, although backups of a second share a name, every call releases
\* m.mu and other syncs remove old backups meanwhile.
THEOREM ReplacedIsBackedUpHolds == FileSpec => []ReplacedIsBackedUp
  <1>1. FileInv => ReplacedIsBackedUp
    <2> SUFFICES ASSUME FileInv, NEW p \in Syncs, fpc[p] = "rename", made[p] # Gone,
                        ~spoiled[p], cfgFile # Gone
                 PROVE  \E s \in Seconds :
                           backups[s] # Gone /\ backups[s].whole /\ backups[s].v = cfgFile.v
      BY DEF ReplacedIsBackedUp, At
    <2>1. \A q \in Syncs : fpc[q] # "copy"
      BY DEF FileInv, LockInv, Locked, Writing
    <2>2. made[p] \in Seconds
      BY DEF FileInv, FileTypeOK
    <2> QED
      BY <2>1, <2>2 DEF FileInv, BackupInv, Fresh
  <1> QED
    BY <1>1, FileInductive, PTL
-----------------------------------------------------------------------------
(* The atomic file *)

\* Nothing torn is in place or on disk.
Named(file) == IF file = Gone THEN Gone ELSE file.v
LEMMA NothingTorn == WholeInv => Seen(cfgFile) = Named(cfgFile) /\ OnDisk = Named(cfgDisk)
  BY DEF WholeInv, Seen, OnDisk, Named

\* A step that changes neither the file nor what is being written stutters.
LEMMA AtomicStutters ==
    ASSUME cfgFile' = cfgFile, cfgDisk' = cfgDisk,
           \A q \in Syncs : fpc'[q] \in Writing <=> fpc[q] \in Writing,
           \A q \in Syncs : fpc[q] \in Writing => data'[q] = data[q]
    PROVE  UNCHANGED Atomic!avars
  <1>1. Wanted' = Wanted
    BY DEF Wanted
  <1> QED
    BY <1>1 DEF Atomic!avars, Seen, OnDisk

LEMMA CreateTempBegins ==
    ASSUME FileInv, NEW p \in Syncs, CreateTemp(p)
    PROVE  [Atomic!AtomicNext]_(Atomic!avars)
  <1>1. FileTypeOK /\ fpc[p] = "write" /\ data[p] \in Versions
    BY DEF FileInv, WholeInv, CreateTemp, At
  <1>2. UNCHANGED <<cfgFile, cfgDisk>>
    BY DEF CreateTemp
  <1>3. CASE Finish(p)
    <2>1. /\ \A q \in Syncs : fpc'[q] \in Writing <=> fpc[q] \in Writing
          /\ \A q \in Syncs : fpc[q] \in Writing => data'[q] = data[q]
      BY <1>1, <1>3 DEF Finish, Goto, FileTypeOK, Writing
    <2> QED
      BY <1>2, <2>1, AtomicStutters
  <1>4. CASE Goto(p, "fill") /\ UNCHANGED data
    <2>1. Wanted[p] = Gone
      BY <1>1 DEF Wanted, Writing
    <2>2. Wanted' = [Wanted EXCEPT ![p] = data[p]]
      BY <1>1, <1>4 DEF Wanted, Goto, FileTypeOK, Writing
    <2>3. UNCHANGED <<Seen(cfgFile), OnDisk>>
      BY <1>2 DEF Seen, OnDisk
    <2>4. Atomic!Begin(p)
      BY <1>1, <2>1, <2>2, <2>3 DEF Atomic!Begin
    <2> QED
      BY <2>4 DEF Atomic!AtomicNext
  <1> QED
    BY <1>3, <1>4 DEF CreateTemp

LEMMA RenameCommits ==
    ASSUME FileInv, FileInv', NEW p \in Syncs, RenameTemp(p)
    PROVE  [Atomic!AtomicNext]_(Atomic!avars)
  <1>1. /\ FileTypeOK /\ fpc[p] = "rename" /\ data[p] \in Versions
        /\ temp[p] # Gone /\ temp[p].v = data[p] /\ cfgFile' = temp[p] /\ cfgDisk' = cfgDisk
    BY DEF FileInv, WholeInv, RenameTemp, At, Writing
  <1>2. Wanted[p] = data[p] /\ data[p] # Gone
    BY <1>1, FileAssumption DEF Wanted, Writing
  <1>3. Wanted' = [Wanted EXCEPT ![p] = Gone]
    BY <1>1 DEF Wanted, RenameTemp, Goto, FileTypeOK, Writing
  <1>4. Seen(cfgFile)' = data[p]
    BY <1>1, NothingTorn DEF FileInv, Named, Seen, WholeInv
  <1>5. OnDisk' = OnDisk
    BY <1>1 DEF OnDisk, Seen
  <1>6. Atomic!Commit(p)
    BY <1>2, <1>3, <1>4, <1>5 DEF Atomic!Commit
  <1> QED
    BY <1>6 DEF Atomic!AtomicNext

LEMMA WriteErrorAbandons ==
    ASSUME FileInv, NEW p \in Syncs, WriteError(p)
    PROVE  [Atomic!AtomicNext]_(Atomic!avars)
  <1>1. FileTypeOK /\ fpc[p] \in Writing /\ data[p] \in Versions
    BY DEF FileInv, WholeInv, WriteError, Writing
  <1>2. Wanted[p] = data[p] /\ data[p] # Gone
    BY <1>1, FileAssumption DEF Wanted
  <1>3. Wanted' = [Wanted EXCEPT ![p] = Gone]
    BY <1>1 DEF Wanted, WriteError, Finish, Goto, FileTypeOK, Writing
  <1>4. UNCHANGED <<Seen(cfgFile), OnDisk>>
    BY DEF WriteError, Seen, OnDisk
  <1>5. Atomic!Abandon(p)
    BY <1>2, <1>3, <1>4 DEF Atomic!Abandon
  <1> QED
    BY <1>5 DEF Atomic!AtomicNext

LEMMA CrashRestarts ==
    ASSUME FileInv, FileInv', Crash
    PROVE  [Atomic!AtomicNext]_(Atomic!avars)
  <1>1. Wanted' = [q \in Syncs |-> Gone]
    BY DEF Wanted, Crash, Writing
  <1>2. Named(cfgFile)' = Named(cfgDisk) /\ cfgDisk' = cfgFile'
    <2>1. CASE cfgDisk = Gone
      BY <2>1 DEF Crash, Named
    <2>2. CASE cfgDisk # Gone
      <3>1. cfgFile' = [v |-> cfgDisk.v, whole |-> cfgDisk.synced, synced |-> cfgDisk.synced]
        BY <2>2 DEF Crash
      <3>2. cfgDisk.v \in Versions /\ cfgDisk.synced \in BOOLEAN
        BY <2>2 DEF FileInv, FileTypeOK, Content
      <3>3. cfgFile' # Gone
        BY <3>1, <3>2, ContentIs, GoneAssumption
      <3> QED
        BY <2>2, <3>1, <3>3 DEF Crash, Named
    <2> QED
      BY <2>1, <2>2
  <1>3. Seen(cfgFile)' = OnDisk /\ OnDisk' = OnDisk
    <2>1. Seen(cfgFile)' = Named(cfgFile)' /\ OnDisk' = Named(cfgDisk)' /\ OnDisk = Named(cfgDisk)
      BY NothingTorn DEF FileInv, WholeInv, Seen, OnDisk, Named
    <2> QED
      BY <2>1, <1>2 DEF Named
  <1>4. Atomic!Restart
    BY <1>1, <1>3 DEF Atomic!Restart
  <1> QED
    BY <1>4 DEF Atomic!AtomicNext

\* The temp-file-and-rename protocol of WriteJSONConfig implements an atomic file
\* whose readers take no lock: whole versions only, also after a crash, and only
\* versions that some call was writing.
THEOREM FileIsAtomicHolds == FileSpec => FileIsAtomic
  <1>1. FileInit => Atomic!AtomicInit
    <2> SUFFICES ASSUME FileInit PROVE Atomic!AtomicInit
      OBVIOUS
    <2>1. Wanted = [q \in Syncs |-> Gone]
      BY DEF FileInit, Wanted, Writing
    <2>2. Seen(cfgFile) = Named(cfgFile) /\ OnDisk = Named(cfgDisk)
      BY FileInitInv, NothingTorn DEF FileInv
    <2>3. Named(cfgFile) \in Versions \cup {Gone} /\ cfgDisk = cfgFile
      BY FileInitTyped DEF FileInit, Named, FileTypeOK, Content
    <2> QED
      BY <2>1, <2>2, <2>3 DEF Atomic!AtomicInit
  <1>2. FileInv /\ FileInv' /\ [FileNext]_fileVars => [Atomic!AtomicNext]_(Atomic!avars)
    <2> SUFFICES ASSUME FileInv, FileInv', [FileNext]_fileVars
                 PROVE  [Atomic!AtomicNext]_(Atomic!avars)
      OBVIOUS
    <2>0. FileTypeOK
      BY DEF FileInv
    <2>1. ASSUME NEW p \in Syncs,
                 \/ \E v \in Versions : FileStart(p, v)
                 \/ ConfigChanged(p) \/ BackupOpen(p) \/ BackupCopy(p) \/ Cleanup(p)
                 \/ FillTemp(p) \/ SyncTemp(p)
          PROVE  UNCHANGED Atomic!avars
      <3>1. UNCHANGED <<cfgFile, cfgDisk>>
        BY <2>1 DEF FileStart, ConfigChanged, BackupOpen, BackupCopy, Cleanup, FillTemp, SyncTemp
      <3>2. \A q \in Syncs : fpc'[q] \in Writing <=> fpc[q] \in Writing
        BY <2>0, <2>1 DEF FileStart, ConfigChanged, BackupOpen, BackupCopy, Cleanup, FillTemp,
           SyncTemp, Finish, At, Goto, FileTypeOK, Writing
      <3>3. \A q \in Syncs : fpc[q] \in Writing => data'[q] = data[q]
        BY <2>0, <2>1 DEF FileStart, ConfigChanged, BackupOpen, BackupCopy, Cleanup, FillTemp,
           SyncTemp, Finish, At, FileTypeOK, Writing
      <3> QED
        BY <3>1, <3>2, <3>3, AtomicStutters
    <2>2. CASE FlushDirectory
      <3>1. Wanted' = Wanted /\ Seen(cfgFile)' = Seen(cfgFile)
        BY <2>2 DEF FlushDirectory, Wanted, Seen
      <3>2. OnDisk' = Seen(cfgFile)
        BY <2>2, NothingTorn DEF FlushDirectory, FileInv, WholeInv, OnDisk, Seen
      <3>3. Atomic!Flush
        BY <3>1, <3>2 DEF Atomic!Flush
      <3> QED
        BY <3>3 DEF Atomic!AtomicNext
    <2>3. CASE Second \/ UNCHANGED fileVars
      BY <2>3, AtomicStutters DEF Second, fileVars
    <2> QED
      BY <2>1, <2>2, <2>3, CreateTempBegins, RenameCommits, WriteErrorAbandons, CrashRestarts
         DEF FileNext, FileCall
  <1> QED
    BY <1>1, <1>2, FileInductive, PTL DEF FileSpec, FileIsAtomic
-----------------------------------------------------------------------------
(* Sums *)

\* A set of natural numbers that is not empty has a least element.
LEMMA SomeLeast ==
    ASSUME NEW T \in SUBSET Nat, T # {}
    PROVE  \E x \in T : \A y \in T : x <= y
  <1>1. PICK x \in T : \A y \in T : <<y, x>> \notin OpToRel(<, Nat)
    BY NatLessThanWellFounded, WFMin, Zenon
  <1>2. \A y \in T : ~ (y < x)
    BY <1>1 DEF OpToRel
  <1> QED
    BY <1>2

\* A set of sets with {} in it, and any set from which all with one element less
\* are in it, has every finite set.
LEMMA FiniteInduction ==
    ASSUME NEW S, IsFiniteSet(S), NEW P, {} \in P,
           \A T \in SUBSET S : (T # {} /\ \A x \in T : T \ {x} \in P) => T \in P
    PROVE  S \in P
  <1> SUFFICES ASSUME S \notin P PROVE FALSE
    OBVIOUS
  <1> DEFINE Bad == {T \in SUBSET S : T \notin P}
             sizes == {Cardinality(T) : T \in Bad}
  <1>1. \A T \in SUBSET S : IsFiniteSet(T) /\ Cardinality(T) \in Nat
    BY FS_Subset, FS_CardinalityType
  <1>2. PICK T \in Bad : \A U \in Bad : Cardinality(T) <= Cardinality(U)
    <2>1. sizes \in SUBSET Nat /\ sizes # {}
      BY <1>1
    <2>2. PICK n \in sizes : \A m \in sizes : n <= m
      BY <2>1, SomeLeast
    <2> QED
      BY <2>2
  <1>3. ASSUME NEW x \in T PROVE T \ {x} \in P
    <2>1. Cardinality(T \ {x}) = Cardinality(T) - 1
      BY <1>1, FS_RemoveElement
    <2> QED
      BY <1>1, <1>2, <2>1
  <1> QED
    BY <1>2, <1>3

\* What unfolds of a sum.
Step(f, g, s) ==
    IF s = {} THEN 0
    ELSE LET x == CHOOSE t \in s : TRUE IN f[x] + g[s \ {x}]

Unfolded(f, g, D) == g = [s \in D |-> Step(f, g, s)]

LEMMA FoldExists ==
    ASSUME NEW f, NEW S, IsFiniteSet(S)
    PROVE  \E g : Unfolded(f, g, SUBSET S)
  <1> DEFINE Small(n) == {T \in SUBSET S : Cardinality(T) < n}
             bad == {n \in Nat : ~ \E g : Unfolded(f, g, Small(n))}
  <1>1. \A T \in SUBSET S : IsFiniteSet(T) /\ Cardinality(T) \in Nat
    BY FS_Subset, FS_CardinalityType
  <1>2. SUFFICES bad = {}
    <2>1. Cardinality(S) + 1 \in Nat /\ Small(Cardinality(S) + 1) = SUBSET S
      BY <1>1, FS_Subset
    <2> QED
      BY <1>2, <2>1
  <1>3. SUFFICES ASSUME bad # {} PROVE FALSE
    OBVIOUS
  <1>4. PICK n \in bad : \A m \in bad : n <= m
    BY <1>3, SomeLeast
  <1>5. n # 0
    <2>1. Small(0) = {}
      BY <1>1
    <2>2. Unfolded(f, [s \in {} |-> 0], {})
      BY DEF Unfolded
    <2> QED
      BY <2>1, <2>2
  <1>6. PICK g : Unfolded(f, g, Small(n - 1))
    <2>1. n \in Nat /\ n - 1 \in Nat /\ ~ (n <= n - 1)
      BY <1>5
    <2>2. n - 1 \notin bad
      <3> HIDE DEF bad
      <3> QED
        BY <1>4, <2>1
    <2> HIDE DEF Small
    <2> QED
      BY <2>1, <2>2
  <1> DEFINE h == [s \in Small(n) |-> Step(f, g, s)]
  <1>7. ASSUME NEW s \in Small(n) PROVE Step(f, g, s) = Step(f, h, s)
    <2>1. CASE s = {}
      BY <2>1 DEF Step
    <2>2. CASE s # {}
      <3>1. PICK x : x = CHOOSE t \in s : TRUE
        OBVIOUS
      <3>2. x \in s
        BY <2>2, <3>1
      <3>3. s \ {x} \in SUBSET S /\ Cardinality(s \ {x}) = Cardinality(s) - 1
        BY <1>1, <3>2, FS_RemoveElement
      <3>4. s \ {x} \in Small(n) /\ s \ {x} \in Small(n - 1)
        BY <1>1, <3>3
      <3>5. h[s \ {x}] = Step(f, g, s \ {x})
        BY <3>4
      <3>6. g[s \ {x}] = Step(f, g, s \ {x})
        BY <1>6, <3>4 DEF Unfolded
      <3> HIDE DEF h
      <3> QED
        BY <2>2, <3>1, <3>5, <3>6 DEF Step
    <2> QED
      BY <2>1, <2>2
  <1>8. Unfolded(f, h, Small(n))
    <2>1. [s \in Small(n) |-> Step(f, g, s)] = [s \in Small(n) |-> Step(f, h, s)]
      BY <1>7
    <2> QED
      BY <2>1 DEF Unfolded
  <1> QED
    BY <1>4, <1>8

LEMMA FoldUnique ==
    ASSUME NEW f, NEW S, IsFiniteSet(S), NEW g, NEW h, NEW D, SUBSET S \subseteq D,
           Unfolded(f, g, D), Unfolded(f, h, SUBSET S)
    PROVE  g[S] = h[S]
  <1> DEFINE P == {T \in SUBSET S : g[T] = h[T]}
  <1>1. {} \in P
    BY DEF Unfolded, Step
  <1>2. ASSUME NEW T \in SUBSET S, T # {}, \A x \in T : T \ {x} \in P
        PROVE  T \in P
    <2>1. PICK x : x = CHOOSE t \in T : TRUE
      OBVIOUS
    <2>2. x \in T
      BY <1>2, <2>1
    <2>3. g[T \ {x}] = h[T \ {x}]
      BY <1>2, <2>2
    <2>4. g[T] = Step(f, g, T) /\ h[T] = Step(f, h, T)
      BY DEF Unfolded
    <2> QED
      BY <1>2, <2>1, <2>3, <2>4 DEF Step
  <1> HIDE DEF P
  <1>3. S \in P
    BY <1>1, <1>2, FiniteInduction
  <1> QED
    BY <1>3 DEF P

LEMMA SumIs ==
    ASSUME NEW f, NEW S, IsFiniteSet(S)
    PROVE  \E g : Unfolded(f, g, SUBSET S) /\ SumFunctionOnSet(f, S) = g[S]
  <1>1. PICK g : Unfolded(f, g, SUBSET S)
    BY FoldExists
  <1> QED
    BY <1>1 DEF SumFunctionOnSet, FoldFunctionOnSet, MapThenFoldSet, Step, Unfolded

LEMMA SumUnfold ==
    ASSUME NEW f, NEW S, IsFiniteSet(S)
    PROVE  /\ SumFunctionOnSet(f, {}) = 0
           /\ S # {} => \E x \in S : /\ x = CHOOSE y \in S : TRUE
                                     /\ SumFunctionOnSet(f, S) = f[x] + SumFunctionOnSet(f, S \ {x})
  <1>1. SumFunctionOnSet(f, {}) = 0
    <2>1. PICK g : Unfolded(f, g, SUBSET {}) /\ SumFunctionOnSet(f, {}) = g[{}]
      BY FS_EmptySet, SumIs
    <2>2. g[{}] = Step(f, g, {})
      BY <2>1 DEF Unfolded
    <2> QED
      BY <2>1, <2>2 DEF Step
  <1>2. ASSUME S # {}
        PROVE  \E x \in S : /\ x = CHOOSE y \in S : TRUE
                            /\ SumFunctionOnSet(f, S) = f[x] + SumFunctionOnSet(f, S \ {x})
    <2>1. PICK x : x = CHOOSE y \in S : TRUE
      OBVIOUS
    <2>2. x \in S /\ IsFiniteSet(S \ {x}) /\ SUBSET (S \ {x}) \subseteq SUBSET S
      BY <1>2, <2>1, FS_Subset
    <2>3. PICK g : Unfolded(f, g, SUBSET S) /\ SumFunctionOnSet(f, S) = g[S]
      BY SumIs
    <2>4. PICK h : Unfolded(f, h, SUBSET (S \ {x})) /\ SumFunctionOnSet(f, S \ {x}) = h[S \ {x}]
      BY <2>2, SumIs
    <2>5. g[S \ {x}] = h[S \ {x}]
      <3>1. PICK U, D : U = S \ {x} /\ D = SUBSET S
        OBVIOUS
      <3>2. Unfolded(f, g, D) /\ Unfolded(f, h, SUBSET U) /\ SUBSET U \subseteq D /\ IsFiniteSet(U)
        BY <2>2, <2>3, <2>4, <3>1
      <3>3. g[U] = h[U]
        BY ONLY <3>2, FoldUnique
      <3> QED
        BY <3>1, <3>3
    <2>6. g[S] = Step(f, g, S)
      BY <2>3 DEF Unfolded
    <2> QED
      BY <1>2, <2>1, <2>2, <2>3, <2>4, <2>5, <2>6 DEF Step
  <1> QED
    BY <1>1, <1>2

LEMMA SumInt ==
    ASSUME NEW f, NEW S, IsFiniteSet(S), \A x \in S : f[x] \in Int
    PROVE  SumFunctionOnSet(f, S) \in Int
  <1> DEFINE P == {T \in SUBSET S : SumFunctionOnSet(f, T) \in Int}
  <1>1. {} \in P
    BY SumUnfold
  <1>2. ASSUME NEW T \in SUBSET S, T # {}, \A x \in T : T \ {x} \in P
        PROVE  T \in P
    <2>1. PICK x \in T : SumFunctionOnSet(f, T) = f[x] + SumFunctionOnSet(f, T \ {x})
      BY <1>2, SumUnfold, FS_Subset
    <2>2. SumFunctionOnSet(f, T \ {x}) \in Int /\ f[x] \in Int
      BY <1>2
    <2> QED
      BY <2>1, <2>2
  <1> HIDE DEF P
  <1>3. S \in P
    BY <1>1, <1>2, FiniteInduction
  <1> QED
    BY <1>3 DEF P

\* The order of the terms does not matter.
LEMMA SumRemove ==
    ASSUME NEW f, NEW S, IsFiniteSet(S), \A x \in S : f[x] \in Int, NEW a \in S
    PROVE  SumFunctionOnSet(f, S) = f[a] + SumFunctionOnSet(f, S \ {a})
  <1> DEFINE P == {T \in SUBSET S :
                     \A x \in T : SumFunctionOnSet(f, T) = f[x] + SumFunctionOnSet(f, T \ {x})}
  <1>1. {} \in P
    OBVIOUS
  <1>2. ASSUME NEW T \in SUBSET S, T # {}, \A x \in T : T \ {x} \in P
        PROVE  T \in P
    <2> SUFFICES ASSUME NEW x \in T
                 PROVE  SumFunctionOnSet(f, T) = f[x] + SumFunctionOnSet(f, T \ {x})
      OBVIOUS
    <2>1. IsFiniteSet(T)
      BY FS_Subset
    <2>2. PICK c \in T : SumFunctionOnSet(f, T) = f[c] + SumFunctionOnSet(f, T \ {c})
      BY <1>2, <2>1, SumUnfold
    <2>3. CASE c = x
      BY <2>2, <2>3
    <2>4. CASE c # x
      <3> DEFINE u == SumFunctionOnSet(f, (T \ {c}) \ {x})
      <3>1. SumFunctionOnSet(f, T \ {c}) = f[x] + u
        BY <1>2, <2>4
      <3>2. SumFunctionOnSet(f, T \ {x}) = f[c] + SumFunctionOnSet(f, (T \ {x}) \ {c})
        BY <1>2, <2>4
      <3>3. (T \ {x}) \ {c} = (T \ {c}) \ {x}
        OBVIOUS
      <3>4. u \in Int /\ f[x] \in Int /\ f[c] \in Int
        BY <2>1, FS_Subset, SumInt
      <3> HIDE DEF u
      <3>5. f[c] + (f[x] + u) = f[x] + (f[c] + u)
        BY <3>4
      <3> QED
        BY <2>2, <3>1, <3>2, <3>3, <3>5 DEF u
    <2> QED
      BY <2>3, <2>4
  <1> HIDE DEF P
  <1>3. S \in P
    BY <1>1, <1>2, FiniteInduction
  <1> QED
    BY <1>3 DEF P

\* Sums of functions that are ordered term by term, and over more terms.
LEMMA SumLess ==
    ASSUME NEW f, NEW g, NEW S, IsFiniteSet(S),
           \A x \in S : f[x] \in Int /\ g[x] \in Int /\ f[x] <= g[x]
    PROVE  SumFunctionOnSet(f, S) <= SumFunctionOnSet(g, S)
  <1> DEFINE P == {T \in SUBSET S : SumFunctionOnSet(f, T) <= SumFunctionOnSet(g, T)}
  <1>1. {} \in P
    <2>1. SumFunctionOnSet(f, {}) = 0 /\ SumFunctionOnSet(g, {}) = 0
      BY SumUnfold
    <2> QED
      BY <2>1
  <1>2. ASSUME NEW T \in SUBSET S, T # {}, \A x \in T : T \ {x} \in P
        PROVE  T \in P
    <2>1. PICK x : x \in T
      BY <1>2
    <2>2. IsFiniteSet(T) /\ IsFiniteSet(T \ {x})
      BY FS_Subset
    <2>3. /\ SumFunctionOnSet(f, T) = f[x] + SumFunctionOnSet(f, T \ {x})
          /\ SumFunctionOnSet(g, T) = g[x] + SumFunctionOnSet(g, T \ {x})
      BY <2>1, <2>2, SumRemove
    <2>4. SumFunctionOnSet(f, T \ {x}) \in Int /\ SumFunctionOnSet(g, T \ {x}) \in Int
      BY <2>2, SumInt
    <2>5. SumFunctionOnSet(f, T \ {x}) <= SumFunctionOnSet(g, T \ {x})
      BY <1>2, <2>1
    <2>6. f[x] \in Int /\ g[x] \in Int /\ f[x] <= g[x]
      BY <2>1
    <2> QED
      BY <2>3, <2>4, <2>5, <2>6
  <1> HIDE DEF P
  <1>3. S \in P
    BY <1>1, <1>2, FiniteInduction
  <1> QED
    BY <1>3 DEF P

LEMMA SumSame ==
    ASSUME NEW f, NEW g, NEW S, IsFiniteSet(S), \A x \in S : f[x] \in Int /\ f[x] = g[x]
    PROVE  SumFunctionOnSet(f, S) = SumFunctionOnSet(g, S)
  <1>1. /\ SumFunctionOnSet(f, S) <= SumFunctionOnSet(g, S)
        /\ SumFunctionOnSet(g, S) <= SumFunctionOnSet(f, S)
    BY SumLess
  <1>2. SumFunctionOnSet(f, S) \in Int /\ SumFunctionOnSet(g, S) \in Int
    BY SumInt
  <1> QED
    BY <1>1, <1>2

LEMMA SumNat ==
    ASSUME NEW f, NEW S, IsFiniteSet(S), \A x \in S : f[x] \in Nat
    PROVE  /\ SumFunctionOnSet(f, S) \in Nat
           /\ \A T \in SUBSET S : SumFunctionOnSet(f, T) <= SumFunctionOnSet(f, S)
  <1> DEFINE P == {T \in SUBSET S :
                     /\ SumFunctionOnSet(f, T) \in Nat
                     /\ \A U \in SUBSET T : SumFunctionOnSet(f, U) <= SumFunctionOnSet(f, T)}
  <1>1. {} \in P
    <2>1. SumFunctionOnSet(f, {}) = 0
      BY SumUnfold
    <2> QED
      BY <2>1
  <1>2. ASSUME NEW T \in SUBSET S, T # {}, \A x \in T : T \ {x} \in P
        PROVE  T \in P
    <2>1. ASSUME NEW x \in T
          PROVE  /\ SumFunctionOnSet(f, T) = f[x] + SumFunctionOnSet(f, T \ {x})
                 /\ SumFunctionOnSet(f, T \ {x}) \in Nat /\ f[x] \in Nat
      <3>1. IsFiniteSet(T) /\ \A y \in T : f[y] \in Int
        BY FS_Subset
      <3>2. SumFunctionOnSet(f, T) = f[x] + SumFunctionOnSet(f, T \ {x})
        BY <3>1, SumRemove
      <3> QED
        BY <1>2, <3>2
    <2>2. SumFunctionOnSet(f, T) \in Nat
      <3>1. PICK x : x \in T
        BY <1>2
      <3>2. \A m, n \in Nat : m + n \in Nat
        OBVIOUS
      <3> QED
        BY ONLY <2>1, <3>1, <3>2
    <2>3. ASSUME NEW U \in SUBSET T PROVE SumFunctionOnSet(f, U) <= SumFunctionOnSet(f, T)
      <3>1. CASE U = T
        BY <2>2, <3>1
      <3>2. CASE U # T
        <4>1. PICK x \in T : x \notin U
          BY <3>2
        <4>2. U \in SUBSET (T \ {x})
          BY <4>1
        <4>3. SumFunctionOnSet(f, U) <= SumFunctionOnSet(f, T \ {x})
          BY <1>2, <4>2
        <4>4. IsFiniteSet(U) /\ SumFunctionOnSet(f, U) \in Int
          <5>1. IsFiniteSet(U) /\ \A y \in U : f[y] \in Int
            BY FS_Subset
          <5> QED
            BY <5>1, SumInt
        <4> QED
          BY <2>1, <4>3, <4>4
      <3> QED
        BY <3>1, <3>2
    <2> QED
      BY <2>2, <2>3
  <1> HIDE DEF P
  <1>3. S \in P
    BY <1>1, <1>2, FiniteInduction
  <1> QED
    BY <1>3 DEF P

\* One term more, or one more in a term.
LEMMA SumExcept ==
    ASSUME NEW f, NEW S, IsFiniteSet(S), S \subseteq DOMAIN f, \A x \in S : f[x] \in Int,
           NEW a \in DOMAIN f, f[a] \in Int
    PROVE  SumFunctionOnSet([f EXCEPT ![a] = @ + 1], S)
               = SumFunctionOnSet(f, S) + (IF a \in S THEN 1 ELSE 0)
  <1> DEFINE g == [f EXCEPT ![a] = @ + 1]
  <1>1. \A x \in DOMAIN f : g[x] = IF x = a THEN f[a] + 1 ELSE f[x]
    OBVIOUS
  <1>2. \A x \in S : g[x] \in Int
    BY <1>1
  <1>3. SumFunctionOnSet(f, S) \in Int
    BY SumInt
  <1>4. CASE a \notin S
    <2>1. \A x \in S : f[x] \in Int /\ f[x] = g[x]
      BY <1>1, <1>4
    <2> HIDE DEF g
    <2>2. SumFunctionOnSet(g, S) = SumFunctionOnSet(f, S)
      BY <2>1, SumSame
    <2> QED
      BY <1>3, <1>4, <2>2 DEF g
  <1>5. CASE a \in S
    <2>1. \A x \in S \ {a} : f[x] \in Int /\ f[x] = g[x]
      BY <1>1
    <2>2. g[a] = f[a] + 1 /\ IsFiniteSet(S \ {a})
      BY <1>1, FS_Subset
    <2> HIDE DEF g
    <2>3. SumFunctionOnSet(g, S \ {a}) = SumFunctionOnSet(f, S \ {a})
      BY <2>1, <2>2, SumSame
    <2>4. SumFunctionOnSet(f, S) = f[a] + SumFunctionOnSet(f, S \ {a})
      BY <1>5, SumRemove
    <2>5. SumFunctionOnSet(g, S) = g[a] + SumFunctionOnSet(g, S \ {a})
      BY <1>2, <1>5, SumRemove
    <2>6. SumFunctionOnSet(f, S \ {a}) \in Int
      BY <2>1, <2>2, SumInt
    <2>7. SumFunctionOnSet(g, S) = SumFunctionOnSet(f, S) + 1
      BY <2>2, <2>3, <2>4, <2>5, <2>6
    <2> QED
      BY <1>5, <2>7 DEF g
  <1> QED
    BY <1>4, <1>5

LEMMA SumZero ==
    ASSUME NEW f, NEW S, IsFiniteSet(S), \A x \in S : f[x] = 0
    PROVE  SumFunctionOnSet(f, S) = 0
  <1> DEFINE P == {T \in SUBSET S : SumFunctionOnSet(f, T) = 0}
  <1>1. {} \in P
    BY SumUnfold
  <1>2. ASSUME NEW T \in SUBSET S, T # {}, \A x \in T : T \ {x} \in P
        PROVE  T \in P
    <2>1. PICK x \in T : SumFunctionOnSet(f, T) = f[x] + SumFunctionOnSet(f, T \ {x})
      BY <1>2, SumUnfold, FS_Subset
    <2>2. SumFunctionOnSet(f, T \ {x}) = 0 /\ f[x] = 0
      BY <1>2
    <2> QED
      BY <2>1, <2>2
  <1> HIDE DEF P
  <1>3. S \in P
    BY <1>1, <1>2, FiniteInduction
  <1> QED
    BY <1>3 DEF P

\* The sum over all is the sum of the sums over the parts.
LEMMA SumParts ==
    ASSUME NEW f, NEW S, IsFiniteSet(S), \A x \in S : f[x] \in Int,
           NEW T, IsFiniteSet(T), NEW part \in [S -> T]
    PROVE  SumFunctionOnSet([t \in T |-> SumFunctionOnSet(f, {x \in S : part[x] = t})], T)
               = SumFunctionOnSet(f, S)
  <1> DEFINE In(U, t) == {x \in U : part[x] = t}
             F(U) == [t \in T |-> SumFunctionOnSet(f, In(U, t))]
             P == {U \in SUBSET S : SumFunctionOnSet(F(U), T) = SumFunctionOnSet(f, U)}
  <1>1. {} \in P
    <2>1. \A t \in T : F({})[t] = 0
      <3>1. \A t \in T : In({}, t) = {}
        OBVIOUS
      <3> QED
        BY <3>1, SumUnfold, FS_EmptySet
    <2> HIDE DEF F
    <2>2. SumFunctionOnSet(F({}), T) = 0
      BY <2>1, SumZero
    <2>3. SumFunctionOnSet(f, {}) = 0
      BY SumUnfold, FS_EmptySet
    <2> QED
      BY <2>2, <2>3
  <1>2. ASSUME NEW U \in SUBSET S, U # {}, \A x \in U : U \ {x} \in P
        PROVE  U \in P
    <2>1. PICK a : a \in U
      BY <1>2
    <2> DEFINE V == U \ {a}
               b == part[a]
    <2>2. b \in T /\ IsFiniteSet(U) /\ V \in SUBSET S
      BY <2>1, FS_Subset
    <2>3. SumFunctionOnSet(f, U) = f[a] + SumFunctionOnSet(f, V)
      BY <2>1, <2>2, SumRemove
    <2>4. \A t \in T : SumFunctionOnSet(f, In(U, t)) \in Int /\ SumFunctionOnSet(f, In(V, t)) \in Int
      <3> SUFFICES ASSUME NEW t \in T
                   PROVE  SumFunctionOnSet(f, In(U, t)) \in Int /\ SumFunctionOnSet(f, In(V, t)) \in Int
        OBVIOUS
      <3>1. In(U, t) \in SUBSET S /\ In(V, t) \in SUBSET S
        OBVIOUS
      <3>2. \A W \in SUBSET S : IsFiniteSet(W) /\ \A x \in W : f[x] \in Int
        BY FS_Subset
      <3> HIDE DEF In
      <3> QED
        BY <3>1, <3>2, SumInt
    <2>5. \A t \in T \ {b} : In(U, t) = In(V, t)
      OBVIOUS
    <2>6. In(V, b) = In(U, b) \ {a} /\ a \in In(U, b)
      BY <2>1
    <2>7. SumFunctionOnSet(f, In(U, b)) = f[a] + SumFunctionOnSet(f, In(V, b))
      <3>1. IsFiniteSet(In(U, b)) /\ \A x \in In(U, b) : f[x] \in Int
        BY FS_Subset
      <3> HIDE DEF In, V, b
      <3>2. SumFunctionOnSet(f, In(U, b)) = f[a] + SumFunctionOnSet(f, In(U, b) \ {a})
        BY ONLY <2>6, <3>1, SumRemove
      <3> QED
        BY <2>6, <3>2
    <2>8. /\ \A t \in T : F(U)[t] \in Int /\ F(V)[t] \in Int
          /\ \A t \in T \ {b} : F(U)[t] = F(V)[t]
          /\ F(U)[b] = f[a] + F(V)[b]
      BY <2>2, <2>4, <2>5, <2>7
    <2>9. SumFunctionOnSet(F(V), T) = SumFunctionOnSet(f, V)
      BY <1>2, <2>1
    <2>10. f[a] \in Int /\ SumFunctionOnSet(f, V) \in Int
      BY <2>1, <2>2, FS_Subset, SumInt
    <2> HIDE DEF F, In, V, b
    <2>11. /\ SumFunctionOnSet(F(U), T) = F(U)[b] + SumFunctionOnSet(F(U), T \ {b})
           /\ SumFunctionOnSet(F(V), T) = F(V)[b] + SumFunctionOnSet(F(V), T \ {b})
      BY <2>2, <2>8, SumRemove
    <2>12. SumFunctionOnSet(F(U), T \ {b}) = SumFunctionOnSet(F(V), T \ {b})
      BY <2>8, FS_Subset, SumSame
    <2>13. SumFunctionOnSet(F(V), T \ {b}) \in Int
      BY <2>8, FS_Subset, SumInt
    <2>14. SumFunctionOnSet(F(U), T) = f[a] + SumFunctionOnSet(F(V), T)
      BY <2>2, <2>8, <2>10, <2>11, <2>12, <2>13
    <2> QED
      BY <2>3, <2>9, <2>14
  <1> HIDE DEF P
  <1>3. S \in P
    BY <1>1, <1>2, FiniteInduction
  <1> QED
    BY <1>3 DEF P, F, In
-----------------------------------------------------------------------------
(* Rows *)

Row == [at : Nat, ever : [Classes -> Nat], boots : Nat, req : [Classes -> Nat],
        count : Nat, le : [LeIndex -> Nat]]

\* What two rows, an earlier and a later, have to do with each other.
Follows(prev, cur) ==
    /\ prev.boots <= cur.boots
    /\ \A c \in Classes : prev.ever[c] <= cur.ever[c]
    /\ prev.boots = cur.boots =>
          /\ prev.count <= cur.count
          /\ \A c \in Classes : cur.req[c] - prev.req[c] = cur.ever[c] - prev.ever[c]
    /\ prev.boots # cur.boots =>
          \A c \in Classes : cur.req[c] <= cur.ever[c] - prev.ever[c]

\* Rows that follow one another, up to a current one.
Chain(rows, cur) ==
    /\ rows \in Seq(Row)
    /\ \A i \in 2 .. Len(rows) : Follows(rows[i - 1], rows[i])
    /\ rows # <<>> => Follows(rows[Len(rows)], cur)

TrafficInv == TrafficTypeOK /\ Chain(samples, ParseSnapshot(now))

Served(code, b) == /\ live' = [live EXCEPT ![<<code, b>>] = @ + 1]
                   /\ ever' = [ever EXCEPT ![ClassOf(code)] = @ + 1]

LEMMA ClassOfType == ASSUME NEW code \in Codes PROVE ClassOf(code) \in Classes
  BY TrafficAssumption DEF ClassOf, Classes

LEMMA Finite ==
    /\ IsFiniteSet(Codes \X LeIndex) /\ IsFiniteSet(Classes)
    /\ Inf \in Nat /\ LeIndex = 1 .. Inf /\ Inf \in LeIndex /\ 1 \in LeIndex
  <1>1. Inf \in Nat \ {0} /\ LeIndex = 1 .. Inf
    BY TrafficAssumption DEF Inf, LeIndex
  <1>2. IsFiniteSet(Codes) /\ IsFiniteSet(LeIndex)
    BY <1>1, TrafficAssumption, FS_Interval
  <1>3. IsFiniteSet(Codes \X LeIndex)
    BY <1>2, FS_Product
  <1>4. IsFiniteSet(0 .. 5)
    <2>1. PICK m, n \in Int : m = 0 /\ n = 5
      OBVIOUS
    <2> QED
      BY <2>1, FS_Interval
  <1>5. IsFiniteSet(Classes)
    <2>1. Classes \in SUBSET (0 .. 5)
      BY DEF Classes
    <2> QED
      BY <1>4, <2>1, FS_Subset
  <1> QED
    BY <1>1, <1>3, <1>5

LEMMA SnapshotType ==
    ASSUME live \in [Codes \X LeIndex -> Nat], ever \in [Classes -> Nat], boots \in Nat,
           NEW t \in Nat
    PROVE  ParseSnapshot(t) \in Row
  <1>1. DOMAIN live = Codes \X LeIndex
    OBVIOUS
  <1>2. \A S \in SUBSET DOMAIN live : SumFunctionOnSet(live, S) \in Nat
    <2> SUFFICES ASSUME NEW S \in SUBSET DOMAIN live PROVE SumFunctionOnSet(live, S) \in Nat
      OBVIOUS
    <2>1. IsFiniteSet(S) /\ \A x \in S : live[x] \in Nat
      BY <1>1, Finite, FS_Subset
    <2> QED
      BY <2>1, SumNat
  <1>3. SumFunction(live) \in Nat
    BY <1>2 DEF SumFunction
  <1>4. \A c \in Classes :
            SumFunctionOnSet(live, {s \in DOMAIN live : ClassOf(s[1]) = c}) \in Nat
    BY <1>2
  <1>5. \A b \in LeIndex : SumFunctionOnSet(live, {s \in DOMAIN live : s[2] <= b}) \in Nat
    BY <1>2
  <1> QED
    BY <1>3, <1>4, <1>5 DEF ParseSnapshot, Row

LEMMA FollowsServe ==
    ASSUME live \in [Codes \X LeIndex -> Nat], ever \in [Classes -> Nat], boots \in Nat,
           NEW code \in Codes, NEW b \in LeIndex, Served(code, b), boots' = boots,
           NEW t, NEW u, NEW prev \in Row, Follows(prev, ParseSnapshot(t))
    PROVE  Follows(prev, ParseSnapshot(u)')
  <1> DEFINE cur == ParseSnapshot(t)
             next == ParseSnapshot(u)'
             k == ClassOf(code)
             by(c) == {s \in DOMAIN live : ClassOf(s[1]) = c}
  <1>1. k \in Classes /\ <<code, b>> \in DOMAIN live /\ DOMAIN live' = DOMAIN live
    BY ClassOfType DEF Served
  <1>2. IsFiniteSet(DOMAIN live) /\ \A S \in SUBSET DOMAIN live : IsFiniteSet(S)
    BY Finite, FS_Subset
  <1>3. \A S \in SUBSET DOMAIN live :
            SumFunctionOnSet(live', S)
                = SumFunctionOnSet(live, S) + (IF <<code, b>> \in S THEN 1 ELSE 0)
    <2> SUFFICES ASSUME NEW S \in SUBSET DOMAIN live
                 PROVE  SumFunctionOnSet(live', S)
                            = SumFunctionOnSet(live, S) + (IF <<code, b>> \in S THEN 1 ELSE 0)
      OBVIOUS
    <2>1. \A x \in DOMAIN live : live[x] \in Int
      OBVIOUS
    <2>2. PICK f, a : f = live /\ a = <<code, b>>
      OBVIOUS
    <2>3. /\ IsFiniteSet(S) /\ S \subseteq DOMAIN f /\ \A x \in S : f[x] \in Int
          /\ a \in DOMAIN f /\ f[a] \in Int
      BY <1>1, <1>2, <2>1, <2>2
    <2>4. SumFunctionOnSet([f EXCEPT ![a] = @ + 1], S)
              = SumFunctionOnSet(f, S) + (IF a \in S THEN 1 ELSE 0)
      BY ONLY <2>3, SumExcept
    <2>5. live' = [f EXCEPT ![a] = @ + 1]
      BY <2>2 DEF Served
    <2> QED
      BY <2>2, <2>4, <2>5
  <1>4. \A c \in Classes : <<code, b>> \in by(c) <=> c = k
    BY <1>1
  <1>5. /\ \A c \in Classes : next.req[c] = cur.req[c] + (IF c = k THEN 1 ELSE 0)
        /\ next.count = cur.count + 1
    <2>1. \A c \in Classes : cur.req[c] = SumFunctionOnSet(live, by(c))
      BY DEF ParseSnapshot
    <2>2. \A c \in Classes : next.req[c] = SumFunctionOnSet(live', by(c))
      BY <1>1 DEF ParseSnapshot
    <2>3. \A c \in Classes : next.req[c] = cur.req[c] + (IF c = k THEN 1 ELSE 0)
      <3>1. \A c \in Classes : by(c) \in SUBSET DOMAIN live
        OBVIOUS
      <3> HIDE DEF by, k, cur, next
      <3> QED
        BY <1>3, <1>4, <2>1, <2>2, <3>1
    <2>4. cur.count = SumFunctionOnSet(live, DOMAIN live)
      BY DEF ParseSnapshot, SumFunction
    <2>5. next.count = SumFunctionOnSet(live', DOMAIN live)
      BY <1>1 DEF ParseSnapshot, SumFunction
    <2>6. next.count = cur.count + 1
      <3> HIDE DEF cur, next
      <3> QED
        BY <1>1, <1>3, <2>4, <2>5
    <2> QED
      BY <2>3, <2>6
  <1>6. /\ \A c \in Classes : next.ever[c] = cur.ever[c] + (IF c = k THEN 1 ELSE 0)
        /\ next.boots = cur.boots
    BY <1>1 DEF ParseSnapshot, Served
  <1>7. cur \in [at : {t}, ever : [Classes -> Nat], boots : Nat, req : [Classes -> Nat],
                 count : Nat, le : [LeIndex -> Nat]]
    <2>1. ParseSnapshot(0) \in Row
      BY SnapshotType
    <2> QED
      BY <2>1 DEF ParseSnapshot, Row
  <1>8. \A c \in Classes : /\ cur.req[c] \in Nat /\ cur.ever[c] \in Nat
                           /\ prev.req[c] \in Nat /\ prev.ever[c] \in Nat
    BY <1>7 DEF Row
  <1>9. cur.count \in Nat /\ cur.boots \in Nat /\ prev.count \in Nat /\ prev.boots \in Nat
    BY <1>7 DEF Row
  <1>10. Follows(prev, cur)
    OBVIOUS
  <1> HIDE DEF cur, next, k
  <1> QED
    <2>1. prev.boots <= next.boots
      BY <1>6, <1>9, <1>10 DEF Follows
    <2>2. ASSUME NEW c \in Classes
          PROVE  /\ prev.ever[c] <= next.ever[c]
                 /\ next.req[c] - prev.req[c] - (next.ever[c] - prev.ever[c])
                        = cur.req[c] - prev.req[c] - (cur.ever[c] - prev.ever[c])
                 /\ next.req[c] \in Nat /\ next.ever[c] \in Nat
      <3>1. prev.ever[c] <= cur.ever[c]
        BY <1>10 DEF Follows
      <3>2. CASE c = k
        <4>1. next.req[c] = cur.req[c] + 1 /\ next.ever[c] = cur.ever[c] + 1
          BY <1>5, <1>6, <3>2
        <4> QED
          BY <1>8, <3>1, <4>1
      <3>3. CASE c # k
        <4>1. next.req[c] = cur.req[c] /\ next.ever[c] = cur.ever[c]
          BY <1>5, <1>6, <1>8, <3>3
        <4> QED
          BY <1>8, <3>1, <4>1
      <3> QED
        BY <3>2, <3>3
    <2>3. ASSUME prev.boots = next.boots, NEW c \in Classes
          PROVE  next.req[c] - prev.req[c] = next.ever[c] - prev.ever[c]
      <3>1. cur.req[c] - prev.req[c] = cur.ever[c] - prev.ever[c]
        BY <1>6, <1>10, <2>3 DEF Follows
      <3> QED
        BY <1>8, <2>2, <3>1
    <2>4. ASSUME prev.boots # next.boots, NEW c \in Classes
          PROVE  next.req[c] <= next.ever[c] - prev.ever[c]
      <3>1. cur.req[c] <= cur.ever[c] - prev.ever[c]
        BY <1>6, <1>10, <2>4 DEF Follows
      <3> QED
        BY <1>8, <2>2, <3>1
    <2>5. prev.boots = next.boots => prev.count <= next.count
      BY <1>5, <1>6, <1>9, <1>10 DEF Follows
    <2>6. Follows(prev, next)
      BY <2>1, <2>2, <2>3, <2>4, <2>5 DEF Follows
    <2> QED
      BY <2>6 DEF next

LEMMA FollowsRestart ==
    ASSUME live \in [Codes \X LeIndex -> Nat], ever \in [Classes -> Nat], boots \in Nat,
           live' = [s \in DOMAIN live |-> 0], boots' = boots + 1, ever' = ever,
           NEW t, NEW u, NEW prev \in Row, Follows(prev, ParseSnapshot(t))
    PROVE  Follows(prev, ParseSnapshot(u)')
  <1> DEFINE cur == ParseSnapshot(t)
             next == ParseSnapshot(u)'
             by(c) == {s \in DOMAIN live : ClassOf(s[1]) = c}
  <1>1. \A S \in SUBSET DOMAIN live : SumFunctionOnSet(live', S) = 0
    <2> SUFFICES ASSUME NEW S \in SUBSET DOMAIN live PROVE SumFunctionOnSet(live', S) = 0
      OBVIOUS
    <2>1. PICK f : f = live'
      OBVIOUS
    <2>2. IsFiniteSet(S) /\ \A x \in S : f[x] = 0
      BY <2>1, Finite, FS_Subset
    <2> QED
      BY <2>1, <2>2, SumZero
  <1>2. \A c \in Classes : next.req[c] = 0
    BY <1>1 DEF ParseSnapshot
  <1>3. next.ever = cur.ever /\ next.boots = boots + 1 /\ cur.boots = boots /\ cur.ever = ever
    BY DEF ParseSnapshot
  <1>4. \A c \in Classes : ever[c] \in Nat /\ prev.ever[c] \in Nat
    BY DEF Row
  <1>5. prev.boots \in Nat /\ Follows(prev, cur)
    BY DEF Row
  <1> HIDE DEF cur, next
  <1> QED
    <2>1. prev.boots <= next.boots /\ prev.boots # next.boots
      BY <1>3, <1>5 DEF Follows
    <2>2. \A c \in Classes : prev.ever[c] <= next.ever[c]
      BY <1>3, <1>5 DEF Follows
    <2>3. \A c \in Classes : next.req[c] <= next.ever[c] - prev.ever[c]
      BY <1>2, <1>3, <1>4, <2>2
    <2>4. Follows(prev, next)
      BY <2>1, <2>2, <2>3 DEF Follows
    <2> QED
      BY <2>4 DEF next

\* The time of a snapshot does not matter.
LEMMA FollowsSame ==
    ASSUME UNCHANGED <<live, ever, boots>>, NEW t, NEW u, NEW prev, Follows(prev, ParseSnapshot(t))
    PROVE  Follows(prev, ParseSnapshot(u)')
  BY DEF Follows, ParseSnapshot

\* A tail of a list of rows.
LEMMA KeptRows ==
    ASSUME NEW rows \in Seq(Row), NEW t
    PROVE  \E k \in 0 .. Len(rows) :
              /\ KeptSince(rows, t) \in Seq(Row)
              /\ Len(KeptSince(rows, t)) = Len(rows) - k
              /\ \A i \in 1 .. Len(rows) - k : KeptSince(rows, t)[i] = rows[k + i]
  <1> DEFINE old == {i \in DOMAIN rows : rows[i].at < t}
             k == Cardinality(old)
  <1>1. Len(rows) \in Nat /\ DOMAIN rows = 1 .. Len(rows)
    OBVIOUS
  <1>2. IsFiniteSet(1 .. Len(rows)) /\ Cardinality(1 .. Len(rows)) = Len(rows)
    BY <1>1, FS_Interval, SMTT(40)
  <1>3. old \in SUBSET (1 .. Len(rows))
    BY <1>1
  <1>4. k \in 0 .. Len(rows)
    <2>1. k \in Nat /\ k <= Len(rows)
      BY <1>2, <1>3, FS_Subset, FS_CardinalityType
    <2> QED
      BY <1>1, <2>1
  <1>5. KeptSince(rows, t) = SubSeq(rows, k + 1, Len(rows))
    BY DEF KeptSince
  <1> HIDE DEF k
  <1>6. /\ SubSeq(rows, k + 1, Len(rows)) \in Seq(Row)
        /\ Len(SubSeq(rows, k + 1, Len(rows))) = Len(rows) - k
        /\ \A i \in 1 .. Len(rows) - k : SubSeq(rows, k + 1, Len(rows))[i] = rows[k + i]
    <2>1. k + 1 \in Int /\ Len(rows) \in Int /\ \A i \in k + 1 .. Len(rows) : rows[i] \in Row
      BY <1>1, <1>4
    <2>2. Len(rows) - (k + 1) + 1 = Len(rows) - k
      BY <1>1, <1>4
    <2>3. /\ SubSeq(rows, k + 1, Len(rows)) \in Seq(Row)
          /\ Len(SubSeq(rows, k + 1, Len(rows)))
                = IF k + 1 <= Len(rows) THEN Len(rows) - (k + 1) + 1 ELSE 0
          /\ \A i \in 1 .. Len(rows) - (k + 1) + 1 :
                SubSeq(rows, k + 1, Len(rows))[i] = rows[(k + 1) + i - 1]
      BY <2>1, SubSeqProperties
    <2>4. \A i \in 1 .. Len(rows) - k : (k + 1) + i - 1 = k + i
      BY <1>4
    <2>5. Len(SubSeq(rows, k + 1, Len(rows))) = Len(rows) - k
      <3>1. k \in Int /\ Len(rows) \in Int /\ k <= Len(rows)
        BY <1>1, <1>4
      <3>2. CASE k + 1 <= Len(rows)
        BY <2>2, <2>3, <3>2
      <3>3. CASE ~ (k + 1 <= Len(rows))
        <4>1. Len(rows) - k = 0
          BY <3>1, <3>3
        <4> QED
          BY <2>3, <3>3, <4>1
      <3> QED
        BY <3>2, <3>3
    <2>6. ASSUME NEW i \in 1 .. Len(rows) - k
          PROVE  SubSeq(rows, k + 1, Len(rows))[i] = rows[k + i]
      BY ONLY <2>2, <2>3, <2>4, <2>6, Zenon
    <2> QED
      BY <2>3, <2>5, <2>6
  <1> QED
    BY <1>4, <1>5, <1>6

LEMMA ChainKept ==
    ASSUME NEW rows, NEW cur, NEW t, Chain(rows, cur)
    PROVE  Chain(KeptSince(rows, t), cur)
  <1> DEFINE kept == KeptSince(rows, t)
  <1>1. rows \in Seq(Row) /\ Len(rows) \in Nat
    BY DEF Chain
  <1>2. PICK k \in 0 .. Len(rows) :
              /\ kept \in Seq(Row)
              /\ Len(kept) = Len(rows) - k
              /\ \A i \in 1 .. Len(rows) - k : kept[i] = rows[k + i]
    BY <1>1, KeptRows, SMTT(40)
  <1> HIDE DEF kept
  <1>3. ASSUME NEW i \in 2 .. Len(kept) PROVE Follows(kept[i - 1], kept[i])
    <2>1. /\ i - 1 \in 1 .. Len(rows) - k /\ i \in 1 .. Len(rows) - k
          /\ k + i \in 2 .. Len(rows) /\ k + (i - 1) = (k + i) - 1
      BY <1>1, <1>2
    <2>2. Follows(rows[(k + i) - 1], rows[k + i])
      BY <2>1 DEF Chain
    <2> QED
      BY <1>2, <2>1, <2>2
  <1>4. ASSUME kept # <<>> PROVE Follows(kept[Len(kept)], cur)
    <2>1. Len(kept) # 0
      BY <1>2, <1>4
    <2>2. Len(kept) \in 1 .. Len(rows) - k /\ k + Len(kept) = Len(rows) /\ Len(rows) # 0
      BY <1>1, <1>2, <2>1
    <2>3. rows # <<>>
      BY <2>2
    <2> QED
      BY <1>2, <2>2, <2>3 DEF Chain
  <1> QED
    BY <1>2, <1>3, <1>4 DEF Chain, kept

LEMMA ChainAppend ==
    ASSUME NEW rows, NEW row \in Row, Chain(rows, row)
    PROVE  Chain(Append(rows, row), row)
  <1> DEFINE more == Append(rows, row)
  <1>1. rows \in Seq(Row) /\ Len(rows) \in Nat
    BY DEF Chain
  <1>2. /\ more \in Seq(Row) /\ Len(more) = Len(rows) + 1 /\ more[Len(rows) + 1] = row
        /\ \A i \in 1 .. Len(rows) : more[i] = rows[i]
    BY <1>1, AppendProperties
  <1> HIDE DEF more
  <1>3. ASSUME NEW i \in 2 .. Len(more) PROVE Follows(more[i - 1], more[i])
    <2>1. CASE i = Len(rows) + 1
      <3>1. Len(rows) # 0 /\ i - 1 = Len(rows) /\ i - 1 \in 1 .. Len(rows)
        BY <1>1, <1>2, <2>1
      <3>2. rows # <<>>
        BY <3>1
      <3>3. Follows(rows[Len(rows)], row)
        BY <3>2 DEF Chain
      <3> QED
        BY <1>2, <2>1, <3>1, <3>3
    <2>2. CASE i # Len(rows) + 1
      <3>1. i \in 2 .. Len(rows) /\ i \in 1 .. Len(rows) /\ i - 1 \in 1 .. Len(rows)
        BY <1>1, <1>2, <2>2
      <3>2. Follows(rows[i - 1], rows[i])
        BY <3>1 DEF Chain
      <3> QED
        BY <1>2, <3>1, <3>2
    <2> QED
      BY <2>1, <2>2
  <1>4. Follows(row, row)
    <2>1. row.boots \in Nat /\ row.count \in Nat
      BY DEF Row
    <2>2. \A c \in Classes : row.req[c] \in Nat /\ row.ever[c] \in Nat
      BY DEF Row
    <2> QED
      BY <2>1, <2>2 DEF Follows
  <1> QED
    BY <1>2, <1>3, <1>4 DEF Chain, more

\* What Caddy has counted so far is never less than what was stored of it.
LEMMA TrafficInvariant == TrafficSpec => []TrafficInv
  <1>1. TrafficInit => TrafficInv
    <2> SUFFICES ASSUME TrafficInit PROVE TrafficInv
      OBVIOUS
    <2>1. TrafficTypeOK
      BY TrafficAssumption DEF TrafficInit, TrafficTypeOK
    <2>2. Chain(samples, ParseSnapshot(now))
      BY DEF TrafficInit, Chain
    <2> QED
      BY <2>1, <2>2 DEF TrafficInv
  <1>2. TrafficInv /\ [TrafficNext]_trafficVars => TrafficInv'
    <2> SUFFICES ASSUME TrafficInv, [TrafficNext]_trafficVars PROVE TrafficInv'
      OBVIOUS
    <2> DEFINE cur == ParseSnapshot(now)
               next == ParseSnapshot(now)'
    <2>1. /\ live \in [Codes \X LeIndex -> Nat] /\ ever \in [Classes -> Nat]
          /\ boots \in Nat /\ now \in Nat /\ MaxTime \in Nat /\ MaxRestarts \in Nat
          /\ boots \in 0 .. MaxRestarts /\ now \in 0 .. MaxTime
      BY TrafficAssumption DEF TrafficInv, TrafficTypeOK
    <2>2. /\ TrafficTypeOK /\ samples \in Seq(Row) /\ Len(samples) \in Nat
          /\ Chain(samples, cur)
      BY DEF TrafficInv, Chain
    <2>3. ASSUME samples' = samples, now' \in now .. MaxTime,
                 \A prev \in Row : Follows(prev, cur) => Follows(prev, next),
                 live' \in [Codes \X LeIndex -> Nat], ever' \in [Classes -> Nat],
                 boots' \in 0 .. MaxRestarts
          PROVE  TrafficInv'
      <3>1. TrafficTypeOK'
        BY <2>1, <2>2, <2>3 DEF TrafficTypeOK
      <3>2. samples # <<>> => samples[Len(samples)] \in Row
        BY <2>2
      <3>3. Chain(samples, next)
        BY <2>2, <2>3, <3>2 DEF Chain
      <3> QED
        BY <2>3, <3>1, <3>3 DEF TrafficInv
    <2>4. ASSUME NEW code \in Codes, NEW b \in LeIndex, Serve(code, b) PROVE TrafficInv'
      <3>1. /\ live' = [live EXCEPT ![<<code, b>>] = @ + 1]
            /\ ever' = [ever EXCEPT ![ClassOf(code)] = @ + 1]
            /\ UNCHANGED <<boots, now, samples>>
        BY <2>4 DEF Serve
      <3>2. live' \in [Codes \X LeIndex -> Nat] /\ ever' \in [Classes -> Nat]
        BY <2>1, <3>1, ClassOfType
      <3>3. \A prev \in Row : Follows(prev, cur) => Follows(prev, next)
        BY <2>1, <3>1, FollowsServe DEF Served
      <3> QED
        BY <2>1, <2>3, <3>1, <3>2, <3>3
    <2>5. CASE CaddyRestarts
      <3>1. /\ live' = [s \in DOMAIN live |-> 0] /\ boots' = boots + 1 /\ boots < MaxRestarts
            /\ UNCHANGED <<ever, now, samples>>
        BY <2>5 DEF CaddyRestarts
      <3>2. live' \in [Codes \X LeIndex -> Nat] /\ boots' \in 0 .. MaxRestarts
        BY <2>1, <3>1
      <3>3. \A prev \in Row : Follows(prev, cur) => Follows(prev, next)
        BY <2>1, <3>1, FollowsRestart
      <3> QED
        BY <2>1, <2>3, <3>1, <3>2, <3>3
    <2>6. CASE ScrapeFails
      <3>1. UNCHANGED <<live, ever, boots, samples>> /\ now' \in now .. MaxTime
        BY <2>1, <2>6 DEF ScrapeFails
      <3>2. \A prev \in Row : Follows(prev, cur) => Follows(prev, next)
        BY <3>1, FollowsSame
      <3> QED
        BY <2>1, <2>3, <3>1, <3>2
    <2>7. CASE Scrape
      <3> DEFINE rows == Append(samples, ParseSnapshot(now'))
      <3>1. /\ UNCHANGED <<live, ever, boots>> /\ now' = now + 1 /\ now' \in 0 .. MaxTime
            /\ samples' = KeptSince(rows, now' - KeepFor) \/ samples' = rows
        BY <2>1, <2>7 DEF Scrape
      <3>2. next = ParseSnapshot(now') /\ next \in Row /\ next.at = now'
        <4>1. ParseSnapshot(now') \in Row
          BY <2>1, <3>1, SnapshotType
        <4> QED
          BY <3>1, <4>1 DEF ParseSnapshot
      <3>3. samples # <<>> => samples[Len(samples)] \in Row
        BY <2>2
      <3>4. Chain(samples, next)
        BY <2>2, <3>1, <3>3, FollowsSame DEF Chain
      <3>5. Chain(rows, next) /\ rows = Append(samples, next)
        BY <3>2, <3>4, ChainAppend
      <3>6. \A i \in DOMAIN rows : rows[i].at \in 1 .. now'
        <4>1. /\ DOMAIN rows = 1 .. Len(samples) + 1 /\ rows[Len(samples) + 1] = next
              /\ \A i \in 1 .. Len(samples) : rows[i] = samples[i]
          BY <2>2, <3>2, <3>5, AppendProperties
        <4>2. \A i \in 1 .. Len(samples) : samples[i].at \in 1 .. now
          BY <2>2 DEF TrafficTypeOK
        <4> HIDE DEF rows
        <4> QED
          BY <2>1, <2>2, <3>1, <3>2, <4>1, <4>2
      <3> HIDE DEF rows, next
      <3>7. Chain(samples', next)
        BY <3>1, <3>5, ChainKept
      <3>8. \A i \in DOMAIN samples' : samples'[i] \in Row /\ samples'[i].at \in 1 .. now'
        <4>1. rows \in Seq(Row) /\ DOMAIN rows = 1 .. Len(rows) /\ Len(rows) \in Nat
          BY <3>5, SMTT(40) DEF Chain
        <4>2. CASE samples' = rows
          BY <3>6, <4>1, <4>2
        <4>3. CASE samples' = KeptSince(rows, now' - KeepFor)
          <5>1. PICK k \in 0 .. Len(rows) :
                    /\ samples' \in Seq(Row)
                    /\ Len(samples') = Len(rows) - k
                    /\ \A i \in 1 .. Len(rows) - k : samples'[i] = rows[k + i]
            BY <4>1, <4>3, KeptRows
          <5>2. DOMAIN samples' = 1 .. Len(rows) - k
            BY <5>1
          <5>3. \A i \in 1 .. Len(rows) - k : k + i \in DOMAIN rows
            BY <4>1
          <5> QED
            BY <3>6, <4>1, <5>1, <5>2, <5>3
        <4> QED
          BY <3>1, <4>2, <4>3
      <3>9. TrafficTypeOK'
        BY <2>1, <3>1, <3>8 DEF TrafficTypeOK, Row
      <3> QED
        BY <3>7, <3>9 DEF TrafficInv, next
    <2>8. CASE UNCHANGED trafficVars
      <3>1. UNCHANGED <<live, ever, boots, now, samples>>
        BY <2>8 DEF trafficVars
      <3>2. \A prev \in Row : Follows(prev, cur) => Follows(prev, next)
        BY <3>1, FollowsSame
      <3> QED
        BY <2>1, <2>3, <3>1, <3>2
    <2> QED
      BY <2>4, <2>5, <2>6, <2>7, <2>8 DEF TrafficNext
  <1> QED
    BY <1>1, <1>2, PTL DEF TrafficSpec

\* Through restarts of Caddy and failing scrapes, counters and rows keep their types,
\* and no row is dated before the first scrape or after the last.
THEOREM TrafficTypeCorrect == TrafficSpec => []TrafficTypeOK
  <1>1. TrafficInv => TrafficTypeOK
    BY DEF TrafficInv
  <1> QED
    BY <1>1, TrafficInvariant, PTL

\* What a pair of rows adds to a class.
LEMMA DeltaReq ==
    ASSUME NEW prev \in Row, NEW cur \in Row, Follows(prev, cur), NEW c \in Classes
    PROVE  /\ Delta(prev, cur).req[c] \in Nat
           /\ cur.ever[c] - prev.ever[c] \in Int
           /\ Delta(prev, cur).req[c] <= cur.ever[c] - prev.ever[c]
           /\ cur.boots = prev.boots => Delta(prev, cur).req[c] = cur.ever[c] - prev.ever[c]
  <1>1. /\ prev.req[c] \in Nat /\ cur.req[c] \in Nat /\ prev.ever[c] \in Nat /\ cur.ever[c] \in Nat
        /\ prev.count \in Nat /\ cur.count \in Nat
    BY DEF Row
  <1>2. Delta(prev, cur).req[c] = IF Reset(prev, cur) THEN 0 ELSE clampNeg(cur.req[c] - prev.req[c])
    BY DEF Delta
  <1>3. prev.ever[c] <= cur.ever[c]
    BY DEF Follows
  <1>4. CASE cur.boots = prev.boots
    <2>1. prev.count <= cur.count /\ cur.req[c] - prev.req[c] = cur.ever[c] - prev.ever[c]
      BY <1>4 DEF Follows
    <2>2. ~ Reset(prev, cur)
      BY <1>1, <2>1 DEF Reset
    <2> QED
      BY <1>1, <1>2, <1>3, <2>1, <2>2 DEF clampNeg
  <1>5. CASE cur.boots # prev.boots
    <2>1. cur.req[c] <= cur.ever[c] - prev.ever[c]
      BY <1>5 DEF Follows
    <2> QED
      BY <1>1, <1>2, <1>3, <1>5, <2>1 DEF clampNeg
  <1> QED
    BY <1>4, <1>5

\* A series counts each pair once, at the boundary of its step.
LEMMA ReportedSum ==
    ASSUME NEW rows \in Seq(Row), NEW step, NEW c \in Classes, NEW f,
           f = [i \in 2 .. Len(rows) |-> Delta(rows[i - 1], rows[i]).req[c]],
           \A i \in 2 .. Len(rows) : f[i] \in Int
    PROVE  Reported(ComputeSeries(rows, step), c) = SumFunctionOnSet(f, 2 .. Len(rows))
  <1> DEFINE pairs == 2 .. Len(rows)
             part == [i \in pairs |-> Truncate(rows[i].at, step)]
             T == {Truncate(rows[i].at, step) : i \in pairs}
             series == ComputeSeries(rows, step)
             F == [t \in T |-> SumFunctionOnSet(f, {i \in pairs : part[i] = t})]
  <1>1. IsFiniteSet(pairs)
    <2>1. Len(rows) \in Int /\ 2 \in Int
      OBVIOUS
    <2> QED
      BY <2>1, FS_Interval
  <1>2. part \in [pairs -> T]
    OBVIOUS
  <1>3. IsFiniteSet(T)
    <2>1. part \in Surjection(pairs, T)
      BY <1>2 DEF Surjection
    <2> QED
      BY <1>1, <2>1, FS_Surjection
  <1>4. DOMAIN series = T
    BY DEF ComputeSeries
  <1>5. ASSUME NEW t \in T
        PROVE  series[t].req[c] = SumFunctionOnSet(f, {i \in pairs : part[i] = t})
    <2>1. {i \in pairs : Truncate(rows[i].at, step) = t} = {i \in pairs : part[i] = t}
      OBVIOUS
    <2>2. series[t].req[c] = SumFunctionOnSet([i \in pairs |-> Delta(rows[i - 1], rows[i]).req[c]],
                                 {i \in pairs : Truncate(rows[i].at, step) = t})
      BY DEF ComputeSeries
    <2> HIDE DEF series, part
    <2> QED
      BY <2>1, <2>2
  <1>6. [t \in DOMAIN series |-> series[t].req[c]] = F
    BY <1>4, <1>5
  <1>7. Reported(series, c) = SumFunctionOnSet(F, T)
    BY <1>6 DEF Reported, SumFunction
  <1>8. SumFunctionOnSet(F, T) = SumFunctionOnSet(f, pairs)
    <2>1. \A i \in pairs : f[i] \in Int
      OBVIOUS
    <2> HIDE DEF pairs, part, T
    <2> QED
      BY ONLY <1>1, <1>2, <1>3, <2>1, SumParts
  <1> QED
    BY <1>7, <1>8

LEMMA ChainMatches ==
    ASSUME NEW rows, NEW cur, Chain(rows, cur), NEW step, NEW c \in Classes,
           NEW g, g = [i \in 2 .. Len(rows) |-> rows[i].ever[c] - rows[i - 1].ever[c]],
           NEW steady, steady = {i \in 2 .. Len(rows) : rows[i].boots = rows[i - 1].boots}
    PROVE  /\ Reported(ComputeSeries(rows, step), c) <= SumFunction(g)
           /\ Reported(ComputeSeries(rows, step), c) >= SumFunctionOnSet(g, steady)
  <1> DEFINE pairs == 2 .. Len(rows)
             f == [i \in pairs |-> Delta(rows[i - 1], rows[i]).req[c]]
  <1>1. rows \in Seq(Row) /\ Len(rows) \in Nat
    BY DEF Chain
  <1>2. ASSUME NEW i \in pairs
        PROVE  /\ f[i] \in Nat /\ g[i] \in Int /\ f[i] <= g[i]
               /\ i \in steady => f[i] = g[i]
    <2>1. i - 1 \in 1 .. Len(rows) /\ i \in 1 .. Len(rows)
      BY <1>1
    <2>2. rows[i - 1] \in Row /\ rows[i] \in Row
      BY <1>1, <2>1
    <2>3. Follows(rows[i - 1], rows[i])
      BY DEF Chain
    <2>4. /\ f[i] = Delta(rows[i - 1], rows[i]).req[c]
          /\ g[i] = rows[i].ever[c] - rows[i - 1].ever[c]
          /\ i \in steady => rows[i].boots = rows[i - 1].boots
      OBVIOUS
    <2> HIDE DEF f
    <2> QED
      BY <2>2, <2>3, <2>4, DeltaReq
  <1>3. IsFiniteSet(pairs) /\ IsFiniteSet(steady) /\ steady \in SUBSET pairs
    <2>1. 2 \in Int /\ Len(rows) \in Int
      BY <1>1
    <2>2. IsFiniteSet(pairs)
      BY <2>1, FS_Interval
    <2> QED
      BY <2>2, FS_Subset
  <1>4. Reported(ComputeSeries(rows, step), c) = SumFunctionOnSet(f, pairs)
    <2>1. \A i \in 2 .. Len(rows) : f[i] \in Int
      BY <1>2
    <2> QED
      BY <1>1, <2>1, ReportedSum
  <1>5. SumFunction(g) = SumFunctionOnSet(g, pairs)
    BY DEF SumFunction
  <1> HIDE DEF f, pairs
  <1>6. SumFunctionOnSet(f, pairs) <= SumFunctionOnSet(g, pairs)
    <2>1. \A i \in pairs : f[i] \in Int /\ g[i] \in Int /\ f[i] <= g[i]
      BY <1>2
    <2> QED
      BY ONLY <1>3, <2>1, SumLess
  <1>7. SumFunctionOnSet(f, steady) = SumFunctionOnSet(g, steady)
    <2>1. \A i \in steady : f[i] \in Int /\ f[i] = g[i]
      BY <1>2, <1>3
    <2> QED
      BY ONLY <1>3, <2>1, SumSame
  <1>8. SumFunctionOnSet(f, steady) <= SumFunctionOnSet(f, pairs)
    <2>1. \A i \in pairs : f[i] \in Nat
      BY <1>2
    <2> QED
      BY ONLY <1>3, <2>1, SumNat
  <1>9. SumFunctionOnSet(f, steady) \in Int /\ SumFunctionOnSet(f, pairs) \in Int
    <2>1. /\ \A i \in pairs : f[i] \in Int
          /\ \A i \in steady : f[i] \in Int
      <3>1. \A i \in pairs : f[i] \in Int
        <4>1. \A i \in pairs : f[i] \in Nat
          BY <1>2
        <4> QED
          BY ONLY <4>1
      <3>2. steady \subseteq pairs
        BY <1>3
      <3> QED
        BY ONLY <3>1, <3>2
    <2>2. SumFunctionOnSet(f, steady) \in Int
      BY ONLY <1>3, <2>1, SumInt
    <2>3. SumFunctionOnSet(f, pairs) \in Int
      BY ONLY <1>3, <2>1, SumInt
    <2> QED
      BY <2>2, <2>3
  <1> QED
    BY <1>4, <1>5, <1>6, <1>7, <1>8, <1>9

\* However Caddy restarts and scrapes fail, a series lies between what was surely
\* and what was at most served between its first and last row.
THEOREM SeriesMatchesTrafficHolds == TrafficSpec => []SeriesMatchesTraffic
  <1>1. TrafficInv => SeriesMatchesTraffic
    <2> SUFFICES ASSUME TrafficInv, NEW r \in Ranges, NEW c \in Classes
                 PROVE  LET rows == InRange(r)
                            g == [i \in 2 .. Len(rows) |-> rows[i].ever[c] - rows[i - 1].ever[c]]
                            steady == {i \in 2 .. Len(rows) : rows[i].boots = rows[i - 1].boots}
                        IN  /\ Reported(GetTraffic(r), c) <= SumFunction(g)
                            /\ Reported(GetTraffic(r), c) >= SumFunctionOnSet(g, steady)
      BY DEF SeriesMatchesTraffic
    <2>1. Chain(InRange(r), ParseSnapshot(now))
      BY ChainKept DEF TrafficInv, InRange
    <2> QED
      BY <2>1, ChainMatches DEF GetTraffic
  <1> QED
    BY <1>1, TrafficInvariant, PTL
-----------------------------------------------------------------------------
(* Quantiles *)

\* Products.
LEMMA TimesLess ==
    ASSUME NEW m \in Int, NEW n \in Int, NEW k \in Nat, m <= n
    PROVE  m * k <= n * k /\ k * m <= k * n
  OBVIOUS

LEMMA TimesTimes ==
    ASSUME NEW m \in Int, NEW n \in Int, NEW k \in Int
    PROVE  (m * n) * k = m * (n * k) /\ m * (n * k) = (m * k) * n /\ m * n = n * m
  OBVIOUS

LEMMA TimesPlus ==
    ASSUME NEW m \in Int, NEW n \in Int, NEW k \in Int
    PROVE  (m - n) * k = m * k - n * k
  OBVIOUS

\* A point on the way from one bound to the next.
LEMMA Between ==
    ASSUME NEW lo \in Nat, NEW up \in Nat, NEW d \in Nat, NEW part \in Nat,
           lo <= up, part <= 100 * d,
           NEW num, num = lo * 100 * d + part * (up - lo)
    PROVE  /\ num \in Nat
           /\ lo * (100 * d) <= num /\ num <= up * (100 * d)
  <1>1. lo * 100 * d = lo * (100 * d) /\ lo * (100 * d) \in Nat
    BY TimesTimes
  <1>2. PICK w \in Nat, e \in Nat : w = up - lo /\ e = 100 * d /\ part <= e
    OBVIOUS
  <1>3. part * w \in Nat /\ part * w <= e * w
    BY <1>2, TimesLess
  <1>4. w * e = up * e - lo * e /\ w * e = e * w
    <2>1. (up - lo) * e = up * e - lo * e
      BY <1>2, TimesPlus
    <2> QED
      BY <1>2, <2>1, TimesTimes
  <1>5. PICK x \in Nat, y \in Nat, z \in Nat : x = lo * e /\ y = up * e /\ z = part * w
    BY <1>2, <1>3
  <1>6. num = x + z /\ z <= y - x
    BY <1>1, <1>2, <1>3, <1>4, <1>5
  <1> QED
    BY <1>1, <1>2, <1>5, <1>6

\* Fractions on both sides of a number.
LEMMA AcrossBound ==
    ASSUME NEW n \in Nat, NEW d \in Nat, NEW m \in Nat, NEW e \in Nat,
           NEW up \in Nat, NEW lo \in Nat, n <= up * d, up <= lo, lo * e <= m
    PROVE  n * e <= m * d
  <1>1. n * e <= (up * d) * e
    BY TimesLess
  <1>2. (up * d) * e = up * (d * e) /\ d * e \in Nat
    BY TimesTimes
  <1>3. up * (d * e) <= lo * (d * e)
    BY <1>2, TimesLess
  <1>4. lo * (d * e) = (lo * e) * d
    BY TimesTimes
  <1>5. (lo * e) * d <= m * d
    BY TimesLess
  <1>6. n * e \in Int /\ (up * d) * e \in Int /\ lo * (d * e) \in Int /\ m * d \in Int
    OBVIOUS
  <1> QED
    BY <1>1, <1>2, <1>3, <1>4, <1>5, <1>6

\* The bounds rise.
LEMMA LesRise ==
    /\ \A i \in 1 .. Len(Les) : Les[i] \in Nat
    /\ Len(Les) \in Nat \ {0} /\ Inf = Len(Les) + 1
    /\ \A i, j \in 1 .. Len(Les) : i <= j => Les[i] <= Les[j]
  <1>1. /\ \A i \in 1 .. Len(Les) : Les[i] \in Nat
        /\ Len(Les) \in Nat \ {0} /\ Inf = Len(Les) + 1
    BY TrafficAssumption DEF Inf
  <1>2. ASSUME NEW i \in 1 .. Len(Les) PROVE \A j \in 1 .. Len(Les) : i <= j => Les[i] <= Les[j]
    <2> DEFINE bad == {j \in 1 .. Len(Les) : i <= j /\ ~ (Les[i] <= Les[j])}
    <2> SUFFICES ASSUME bad # {} PROVE FALSE
      OBVIOUS
    <2>1. bad \in SUBSET Nat
      BY <1>1
    <2>2. PICK j \in bad : \A k \in bad : j <= k
      <3> HIDE DEF bad
      <3> QED
        BY <2>1, SomeLeast
    <2>3. j \in 1 .. Len(Les) /\ i <= j /\ ~ (Les[i] <= Les[j]) /\ j - 1 \notin bad
      BY <2>1, <2>2
    <2>4. i # j
      BY <1>1, <2>3
    <2>5. j - 1 \in 1 .. Len(Les) /\ i <= j - 1 /\ j \in 2 .. Len(Les)
      BY <1>1, <2>3, <2>4
    <2>6. Les[i] <= Les[j - 1]
      BY <2>3, <2>5
    <2>7. Les[j - 1] < Les[j]
      BY <2>5, TrafficAssumption
    <2> QED
      BY <1>1, <2>3, <2>5, <2>6, <2>7, SMTT(40)
  <1> QED
    BY <1>1, <1>2

\* The bucket of a quantile.
Reach(q, le) == {b \in LeIndex : 100 * le[b] >= q * le[Inf]}
LowerAt(b) == IF b = 1 THEN 0 ELSE Les[b - 1]
CountBelow(le, b) == IF b = 1 THEN 0 ELSE le[b - 1]

LEMMA QuantileBucket ==
    ASSUME NEW le \in [LeIndex -> Nat], NEW q \in {50, 95}
    PROVE  /\ Min(Reach(q, le)) \in Reach(q, le)
           /\ \A k \in LeIndex : k < Min(Reach(q, le)) => 100 * le[k] < q * le[Inf]
  <1>1. le[Inf] \in Nat /\ Inf \in LeIndex
    BY Finite
  <1>2. Inf \in Reach(q, le)
    <2>1. CASE q = 50
      BY <1>1, <2>1 DEF Reach
    <2>2. CASE q = 95
      BY <1>1, <2>2 DEF Reach
    <2> QED
      BY <2>1, <2>2
  <1>3. Reach(q, le) \in SUBSET Nat
    BY Finite DEF Reach
  <1>4. PICK x \in Reach(q, le) : \A y \in Reach(q, le) : x <= y
    BY <1>2, <1>3, SomeLeast
  <1>5. /\ Min(Reach(q, le)) \in Reach(q, le)
        /\ \A y \in Reach(q, le) : Min(Reach(q, le)) <= y
    BY <1>4 DEF Min
  <1>6. ASSUME NEW k \in LeIndex, k < Min(Reach(q, le)) PROVE 100 * le[k] < q * le[Inf]
    <2>1. k \notin Reach(q, le)
      BY <1>3, <1>5, <1>6, Finite
    <2>2. ~ (100 * le[k] >= q * le[Inf])
      BY <2>1 DEF Reach
    <2>3. 100 * le[k] \in Int /\ q * le[Inf] \in Int
      BY <1>1
    <2> QED
      BY <2>2, <2>3
  <1> QED
    BY <1>5, <1>6

\* A quantile of rank r in bucket b.
Interpolated(le, r, b) ==
    IF b = Inf THEN [num |-> Les[Inf - 1], den |-> 1]
    ELSE IF le[b] = CountBelow(le, b) THEN [num |-> LowerAt(b), den |-> 1]
    ELSE [num |-> LowerAt(b) * 100 * (le[b] - CountBelow(le, b))
                     + (r - 100 * CountBelow(le, b)) * (Les[b] - LowerAt(b)),
          den |-> 100 * (le[b] - CountBelow(le, b))]

LEMMA BucketTypes ==
    ASSUME NEW le \in [LeIndex -> Nat], NEW b \in LeIndex
    PROVE  /\ b \in 1 .. Inf /\ le[b] \in Nat /\ LowerAt(b) \in Nat /\ CountBelow(le, b) \in Nat
           /\ b # Inf => Les[b] \in Nat /\ LowerAt(b) <= Les[b]
           /\ LowerAt(Inf) = Les[Len(Les)] /\ Inf - 1 = Len(Les)
  <1>1. b \in 1 .. Inf /\ Inf = Len(Les) + 1 /\ Len(Les) \in Nat \ {0} /\ le[b] \in Nat
    BY Finite, LesRise
  <1>2. LowerAt(b) \in Nat /\ (b # Inf => Les[b] \in Nat /\ LowerAt(b) <= Les[b])
    <2>1. CASE b = 1
      BY <1>1, <2>1, LesRise DEF LowerAt
    <2>2. CASE b # 1
      <3>1. b - 1 \in 1 .. Len(Les) /\ (b # Inf => b \in 1 .. Len(Les))
        BY <1>1, <2>2
      <3>2. Les[b - 1] \in Nat /\ (b # Inf => Les[b] \in Nat /\ Les[b - 1] <= Les[b])
        BY <1>1, <3>1, LesRise
      <3> QED
        BY <2>2, <3>2 DEF LowerAt
    <2> QED
      BY <2>1, <2>2
  <1>3. CountBelow(le, b) \in Nat
    <2>1. b = 1 \/ b - 1 \in LeIndex
      BY <1>1, Finite
    <2> QED
      BY <2>1 DEF CountBelow
  <1>4. LowerAt(Inf) = Les[Len(Les)] /\ Inf - 1 = Len(Les)
    BY <1>1 DEF LowerAt
  <1> QED
    BY <1>1, <1>2, <1>3, <1>4

\* It lies between the bounds of its bucket.
InBucket(b, h) ==
    /\ h.den \in Nat \ {0} /\ h.num \in Nat
    /\ LowerAt(b) * h.den <= h.num
    /\ b # Inf => h.num <= Les[b] * h.den

LEMMA QuantileBounds ==
    ASSUME NEW le \in [LeIndex -> Nat], NEW b \in LeIndex, NEW r \in Nat,
           r <= 100 * le[b], 100 * CountBelow(le, b) <= r
    PROVE  InBucket(b, Interpolated(le, r, b))
  <1>1. PICK lo, below, up, n, h :
            /\ lo = LowerAt(b) /\ below = CountBelow(le, b) /\ up = Les[b] /\ n = le[b]
            /\ h = Interpolated(le, r, b)
    OBVIOUS
  <1>2. /\ lo \in Nat /\ below \in Nat /\ n \in Nat /\ (b # Inf => up \in Nat /\ lo <= up)
        /\ r <= 100 * n /\ 100 * below <= r
    BY <1>1, BucketTypes
  <1>3. CASE b = Inf
    <2>1. h = [num |-> lo, den |-> 1]
      BY <1>1, <1>3, BucketTypes DEF Interpolated
    <2>2. h.num = lo /\ h.den = 1 /\ lo * 1 = lo
      BY <1>2, <2>1
    <2> QED
      BY <1>1, <1>2, <1>3, <2>2 DEF InBucket
  <1>4. CASE b # Inf /\ n = below
    <2>1. h = [num |-> lo, den |-> 1]
      BY <1>1, <1>4 DEF Interpolated
    <2>2. h.num = lo /\ h.den = 1 /\ lo * 1 = lo /\ up * 1 = up
      BY <1>2, <1>4, <2>1
    <2> QED
      BY <1>1, <1>2, <1>4, <2>2 DEF InBucket
  <1>5. CASE b # Inf /\ n # below
    <2>1. h = [num |-> lo * 100 * (n - below) + (r - 100 * below) * (up - lo),
               den |-> 100 * (n - below)]
      BY <1>1, <1>5 DEF Interpolated
    <2>2. PICK d \in Nat, part \in Nat : d = n - below /\ part = r - 100 * below
      BY <1>2
    <2>3. d # 0 /\ part <= 100 * d /\ lo <= up /\ up \in Nat
      BY <1>2, <1>5, <2>2
    <2>4. h.num = lo * 100 * d + part * (up - lo) /\ h.den = 100 * d
      BY <2>1, <2>2
    <2>5. PICK num : num = h.num
      OBVIOUS
    <2>6. num \in Nat /\ lo * (100 * d) <= num /\ num <= up * (100 * d)
      <3>1. lo \in Nat /\ up \in Nat /\ lo <= up
        BY <1>2, <2>3
      <3>2. d \in Nat /\ part \in Nat /\ part <= 100 * d
        BY <2>2, <2>3
      <3>3. num = lo * 100 * d + part * (up - lo)
        BY ONLY <2>4, <2>5
      <3> QED
        BY ONLY <3>1, <3>2, <3>3, Between, ZenonT(60)
    <2>7. h.den \in Nat \ {0}
      BY <2>2, <2>3, <2>4
    <2> QED
      BY <1>1, <2>4, <2>5, <2>6, <2>7 DEF InBucket
  <1> QED
    BY <1>3, <1>4, <1>5

LEMMA QuantileIn ==
    ASSUME NEW le \in [LeIndex -> Nat], le[Inf] # 0, NEW q \in {50, 95}
    PROVE  \E b \in LeIndex : LET h == histogramQuantile(q, le) IN
              /\ b = Min(Reach(q, le))
              /\ h = Interpolated(le, q * le[Inf], b) /\ InBucket(b, h)
  <1>1. PICK r \in Nat : r = q * le[Inf]
    <2>1. q \in Nat /\ le[Inf] \in Nat
      BY Finite
    <2> QED
      BY <2>1
  <1>2. PICK b \in LeIndex : b = Min(Reach(q, le)) /\ 100 * le[b] >= r
    <2>1. Min(Reach(q, le)) \in Reach(q, le)
      BY QuantileBucket
    <2>2. PICK b : b = Min(Reach(q, le))
      OBVIOUS
    <2>3. b \in LeIndex /\ 100 * le[b] >= q * le[Inf]
      BY ONLY <2>1, <2>2 DEF Reach
    <2> QED
      BY ONLY <1>1, <2>2, <2>3
  <1>3. \A k \in LeIndex : k < b => 100 * le[k] < r
    BY <1>1, <1>2, QuantileBucket
  <1>4. histogramQuantile(q, le) = Interpolated(le, r, b)
    BY <1>1, <1>2 DEF histogramQuantile, Interpolated, Reach, LowerAt, CountBelow
  <1>5. 100 * CountBelow(le, b) <= r
    <2>1. CASE b = 1
      BY <2>1 DEF CountBelow
    <2>2. CASE b # 1
      <3>1. b - 1 \in LeIndex /\ b - 1 < b
        BY <2>2, Finite
      <3>2. 100 * le[b - 1] < r /\ le[b - 1] \in Nat
        BY <1>3, <3>1
      <3> QED
        BY <2>2, <3>2 DEF CountBelow
    <2> QED
      BY <2>1, <2>2
  <1>6. r <= 100 * le[b]
    <2>1. le[b] \in Nat
      OBVIOUS
    <2> QED
      BY <1>2, <2>1
  <1>7. InBucket(b, Interpolated(le, r, b))
    BY <1>5, <1>6, QuantileBounds
  <1> QED
    BY <1>1, <1>2, <1>4, <1>7

LEMMA InterpolatedRises ==
    ASSUME NEW le \in [LeIndex -> Nat], NEW b \in LeIndex, NEW r \in Int, NEW s \in Int, r <= s,
           NEW h, h = Interpolated(le, r, b), NEW k, k = Interpolated(le, s, b)
    PROVE  h.den = k.den /\ (h = k \/ h.num <= k.num)
  <1>1. PICK lo, below, up, n :
            lo = LowerAt(b) /\ below = CountBelow(le, b) /\ up = Les[b] /\ n = le[b]
    OBVIOUS
  <1>2. /\ lo \in Nat /\ below \in Nat /\ n \in Nat /\ (b # Inf => up \in Nat /\ lo <= up)
    BY <1>1, BucketTypes
  <1>3. CASE b = Inf \/ n = below
    BY <1>1, <1>3 DEF Interpolated
  <1>4. CASE b # Inf /\ n # below
    <2>1. PICK w \in Nat : w = up - lo
      BY <1>2, <1>4
    <2> DEFINE x == lo * 100 * (n - below)
               y == r - 100 * below
               z == s - 100 * below
    <2>2. h = [num |-> x + y * w, den |-> 100 * (n - below)]
      BY ONLY h = Interpolated(le, r, b), <1>1, <1>4, <2>1 DEF Interpolated
    <2>3. k = [num |-> x + z * w, den |-> 100 * (n - below)]
      BY ONLY k = Interpolated(le, s, b), <1>1, <1>4, <2>1 DEF Interpolated
    <2>4. x \in Int
      <3>1. PICK d \in Int : d = n - below
        BY <1>2
      <3> QED
        BY <1>2, <3>1
    <2>5. y \in Int /\ z \in Int /\ y <= z
      BY <1>2
    <2> HIDE DEF x, y, z
    <2>6. y * w <= z * w /\ y * w \in Int /\ z * w \in Int
      BY <2>5, TimesLess
    <2> QED
      BY <2>2, <2>3, <2>4, <2>6
  <1> QED
    BY <1>3, <1>4

LEMMA QuantileOrder ==
    ASSUME NEW le \in [LeIndex -> Nat],
           NEW p50, p50 = histogramQuantile(50, le), NEW p95, p95 = histogramQuantile(95, le)
    PROVE  /\ p50.den > 0 /\ p95.den > 0 /\ p50.num >= 0
           /\ AtMost(p50, p95)
           /\ AtMost(p95, [num |-> Les[Len(Les)], den |-> 1])
  <1>1. Len(Les) \in Nat \ {0} /\ Les[Len(Les)] \in Nat /\ Inf = Len(Les) + 1
    BY LesRise
  <1>2. CASE le[Inf] = 0
    <2>1. p50 = [num |-> 0, den |-> 1] /\ p95 = [num |-> 0, den |-> 1]
      BY <1>2 DEF histogramQuantile
    <2> QED
      BY <1>1, <2>1 DEF AtMost
  <1>3. CASE le[Inf] # 0
    <2>1. PICK b \in LeIndex : /\ b = Min(Reach(50, le)) /\ InBucket(b, p50)
                               /\ p50 = Interpolated(le, 50 * le[Inf], b)
      BY <1>3, QuantileIn
    <2>2. PICK c \in LeIndex : /\ c = Min(Reach(95, le)) /\ InBucket(c, p95)
                               /\ p95 = Interpolated(le, 95 * le[Inf], c)
      BY <1>3, QuantileIn
    <2>3. /\ p50.den \in Nat \ {0} /\ p50.num \in Nat /\ p95.den \in Nat \ {0} /\ p95.num \in Nat
      BY <2>1, <2>2 DEF InBucket
    <2>4. b \in 1 .. Inf /\ c \in 1 .. Inf /\ le[Inf] \in Nat /\ le[c] \in Nat
      BY Finite
    <2>5. b <= c
      <3>1. 100 * le[c] >= 95 * le[Inf]
        BY <2>2, QuantileBucket DEF Reach
      <3>2. c < b => 100 * le[c] < 50 * le[Inf]
        BY <2>1, QuantileBucket
      <3> HIDE <2>1, <2>2
      <3> QED
        BY <2>4, <3>1, <3>2
    <2>6. AtMost(p50, p95)
      <3>1. CASE b < c
        <4>1. b \in 1 .. Len(Les) /\ c - 1 \in 1 .. Len(Les) /\ b <= c - 1 /\ c # 1
          BY <1>1, <2>4, <3>1
        <4>2. Les[b] \in Nat /\ Les[b] <= LowerAt(c) /\ LowerAt(c) \in Nat
          BY <4>1, LesRise DEF LowerAt
        <4>3. p50.num <= Les[b] * p50.den
          BY <1>1, <2>1, <4>1 DEF InBucket
        <4>4. LowerAt(c) * p95.den <= p95.num
          BY <2>2 DEF InBucket
        <4>5. p50.num * p95.den <= p95.num * p50.den
          <5>1. PICK n, d, m, e, up, lo :
                    /\ n = p50.num /\ d = p50.den /\ m = p95.num /\ e = p95.den
                    /\ up = Les[b] /\ lo = LowerAt(c)
            OBVIOUS
          <5>2. /\ n \in Nat /\ d \in Nat /\ m \in Nat /\ e \in Nat /\ up \in Nat /\ lo \in Nat
                /\ n <= up * d /\ up <= lo /\ lo * e <= m
            BY <2>3, <4>2, <4>3, <4>4, <5>1
          <5>3. n * e <= m * d
            BY ONLY <5>2, AcrossBound
          <5> QED
            BY <5>1, <5>3
        <4> QED
          BY <4>5 DEF AtMost
      <3>2. CASE b = c
        <4>1. PICK r \in Int, s \in Int : r = 50 * le[Inf] /\ s = 95 * le[Inf] /\ r <= s
          BY <2>4
        <4>2. p50 = Interpolated(le, r, b) /\ p95 = Interpolated(le, s, b)
          BY <2>1, <2>2, <3>2, <4>1
        <4>3. p50.den = p95.den /\ (p50 = p95 \/ p50.num <= p95.num)
          BY ONLY le \in [LeIndex -> Nat], b \in LeIndex, <4>1, <4>2, InterpolatedRises
        <4>4. PICK n \in Nat, d \in Nat, m \in Nat :
                  n = p50.num /\ d = p50.den /\ d = p95.den /\ m = p95.num /\ n <= m
          BY <2>3, <4>3
        <4>5. n * d <= m * d
          BY <4>4, TimesLess
        <4> QED
          BY <4>4, <4>5 DEF AtMost
      <3> QED
        BY <2>4, <2>5, <3>1, <3>2
    <2>7. AtMost(p95, [num |-> Les[Len(Les)], den |-> 1])
      <3>1. PICK n \in Nat, d \in Nat, last \in Nat :
                n = p95.num /\ d = p95.den /\ last = Les[Len(Les)]
        BY <1>1, <2>3
      <3>2. n <= last * d
        <4>1. CASE c = Inf
          <5>1. p95 = [num |-> last, den |-> 1]
            BY <2>2, <3>1, <4>1, BucketTypes DEF Interpolated
          <5> QED
            BY <3>1, <5>1
        <4>2. CASE c # Inf
          <5>1. c \in 1 .. Len(Les) /\ Len(Les) \in 1 .. Len(Les) /\ c <= Len(Les)
            BY <1>1, <2>4, <4>2
          <5>2. PICK up \in Nat : up = Les[c] /\ up <= last
            BY <1>1, <3>1, <5>1, LesRise
          <5>3. n <= up * d
            BY <2>2, <3>1, <4>2, <5>2 DEF InBucket
          <5>4. up * d <= last * d
            BY <5>2, TimesLess
          <5>5. up * d \in Nat /\ last * d \in Nat
            OBVIOUS
          <5> QED
            BY <5>3, <5>4, <5>5
        <4> QED
          BY <4>1, <4>2
      <3>3. n * 1 = n
        OBVIOUS
      <3> QED
        BY <3>1, <3>2, <3>3 DEF AtMost
    <2> QED
      BY <2>3, <2>6, <2>7
  <1> QED
    BY <1>2, <1>3

\* The points of a series count nothing below zero.
LEMMA PointCounts ==
    ASSUME NEW rows, NEW cur, Chain(rows, cur), NEW step,
           NEW t \in DOMAIN ComputeSeries(rows, step)
    PROVE  ComputeSeries(rows, step)[t].le \in [LeIndex -> Nat]
  <1> DEFINE pairs == 2 .. Len(rows)
             in == {i \in pairs : Truncate(rows[i].at, step) = t}
             f(b) == [i \in pairs |-> Delta(rows[i - 1], rows[i]).le[b]]
  <1>1. ComputeSeries(rows, step)[t].le = [b \in LeIndex |-> SumFunctionOnSet(f(b), in)]
    BY DEF ComputeSeries
  <1>2. IsFiniteSet(in)
    <2>1. 2 \in Int /\ Len(rows) \in Int
      BY DEF Chain
    <2>2. IsFiniteSet(pairs)
      BY <2>1, FS_Interval
    <2> QED
      BY <2>2, FS_Subset
  <1>3. ASSUME NEW b \in LeIndex PROVE SumFunctionOnSet(f(b), in) \in Nat
    <2>1. ASSUME NEW i \in pairs PROVE f(b)[i] \in Nat
      <3>1. rows[i - 1] \in Row /\ rows[i] \in Row
        <4>1. i - 1 \in 1 .. Len(rows) /\ i \in 1 .. Len(rows)
          BY DEF Chain
        <4> QED
          BY <4>1 DEF Chain
      <3>2. PICK m \in Nat, n \in Nat : m = rows[i - 1].le[b] /\ n = rows[i].le[b]
        BY <3>1 DEF Row
      <3>3. f(b)[i] = IF Reset(rows[i - 1], rows[i]) THEN 0 ELSE clampNeg(n - m)
        BY <3>2 DEF Delta
      <3>4. clampNeg(n - m) \in Nat
        BY <3>2 DEF clampNeg
      <3> QED
        BY <3>3, <3>4
    <2>2. \A i \in in : f(b)[i] \in Nat
      BY <2>1
    <2> HIDE DEF f, in
    <2> QED
      BY <1>2, <2>2, SumNat
  <1> HIDE DEF f, in
  <1> QED
    BY <1>1, <1>3

\* The latencies of every point of every series are fractions in order, within the
\* buckets Caddy knows, whatever restarts the scraper missed.
THEOREM QuantilesOrderedHolds == TrafficSpec => []QuantilesOrdered
  <1>1. TrafficInv => QuantilesOrdered
    <2> SUFFICES ASSUME TrafficInv, NEW r \in Ranges, NEW t \in DOMAIN GetTraffic(r),
                        NEW le, le = GetTraffic(r)[t].le,
                        NEW p50, p50 = histogramQuantile(50, le),
                        NEW p95, p95 = histogramQuantile(95, le)
                 PROVE  /\ p50.den > 0 /\ p95.den > 0 /\ p50.num >= 0
                        /\ AtMost(p50, p95)
                        /\ AtMost(p95, [num |-> Les[Len(Les)], den |-> 1])
      BY DEF QuantilesOrdered
    <2>1. Chain(InRange(r), ParseSnapshot(now))
      BY ChainKept DEF TrafficInv, InRange
    <2>2. le \in [LeIndex -> Nat]
      BY <2>1, PointCounts DEF GetTraffic
    <2> QED
      BY ONLY <2>2, p50 = histogramQuantile(50, le), p95 = histogramQuantile(95, le),
              QuantileOrder
  <1> QED
    BY <1>1, TrafficInvariant, PTL
-----------------------------------------------------------------------------
(* Both stores *)

\* A behaviour of the two stores is one of each, so that every theorem above is
\* one about it.
LEMMA StoresArePart == StoresSpec => FileSpec /\ TrafficSpec
  <1>1. StoresInit => FileInit /\ TrafficInit
    BY DEF StoresInit
  <1>2. [StoresNext]_storeVars => [FileNext]_fileVars /\ [TrafficNext]_trafficVars
    BY DEF StoresNext, storeVars
  <1> QED
    BY <1>1, <1>2, PTL DEF StoresSpec, FileSpec, TrafficSpec

\* Whatever the file manager and the scraper do, crashes and restarts included,
\* the files, backups, counters and rows keep their types, and no row is dated
\* ahead of the scrape that stored it.
THEOREM StoreTypesHold == StoresSpec => []StoreTypes
  BY StoresArePart, FileTypeCorrect, TrafficTypeCorrect, PTL DEF StoreTypes
=============================================================================
