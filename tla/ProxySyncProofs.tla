-------------------------- MODULE ProxySyncProofs --------------------------
(***************************************************************************)
(* Machine-checked proofs about SyncService, for any number of workers,    *)
(* proxies, hostnames and settings and for every set of faults, and about  *)
(* its composition with the request handlers, for any number of handlers,  *)
(* triggers, keys and hostnames.                                           *)
(*                                                                         *)
(* FileReachesCaddy is not inductive: a worker may post a config that it   *)
(* read before another worker renamed a newer one into place.  What saves  *)
(* it is r.mu: as long as that worker is posting nobody else can pass      *)
(* Reload, so the one who wrote the newer file is still before its reload  *)
(* (PostFresh), and r.mu itself is exclusive (ReloadsExclusive).           *)
(*                                                                         *)
(* The composition restricted to the handlers' variables is a behaviour of *)
(* ProxyService, so its invariants hold here too (PSP); with them every    *)
(* commit is one DbWrite of SyncService.                                   *)
(***************************************************************************)
EXTENDS ProxySync, TLAPS

\* r.mu: two reloads never overlap between validating and the end of the POST.
ReloadsExclusive ==
    \A v, w \in Workers :
        pc[v] \in {"read", "post"} /\ pc[w] \in {"read", "post"} => v = w

\* A worker that posts an outdated file is followed by one that has the newer
\* one still to reload, unless that one gave up.
PostFresh ==
    \A w \in Workers :
        pc[w] = "post" => \/ rd[w] = file
                          \/ abandoned
                          \/ \E v \in Workers : pc[v] \in {"validate", "reload"}

\* The inductive invariant behind FileReachesCaddy.
ReloadInv == TypeOK /\ ReloadsExclusive /\ PostFresh /\ FileReachesCaddy

----------------------------------------------------------------------------
(* Helpers *)

\* buildHTTPRoutes yields routes.
LEMMA RoutesType ==
    ASSUME NEW rows \in [ProxyIDs -> Row \cup {Absent}]
    PROVE  HTTPRoutes(rows) \subseteq Route
  BY DEF HTTPRoutes, Row, Route

\* Every configuration a build can produce is a Config.
LEMMA ConfigType ==
    ASSUME NEW rs \in SUBSET Route, NEW s \in Sides, NEW o \in {1, 2}
    PROVE  [routes |-> rs, side |-> s, order |-> o] \in Config
  BY DEF Config

\* The config that ensureInitialJSONConfig writes is a Config.
LEMMA InitialConfigType == InitialConfig \in Config
  BY SidesAssumption DEF InitialConfig, Config

----------------------------------------------------------------------------
(* Type correctness *)

\* The initial state is well typed.
LEMMA InitTypeOK == Init => TypeOK
<1> SUFFICES ASSUME Init
             PROVE  TypeOK
  OBVIOUS
<1> USE DEF Init
<1>1. /\ proxies \in [ProxyIDs -> Row \cup {Absent}]
      /\ side \in Sides
      /\ file \in Config
      /\ live \in Config \cup {NoConfig}
  BY InitialConfigType, SidesAssumption
<1>2. /\ pc \in [Workers -> Control]
      /\ cfg \in [Workers -> Config \cup {NoConfig}]
      /\ rd \in [Workers -> Config \cup {NoConfig}]
  BY DEF Control
<1>3. /\ status \in [IsSyncing : BOOLEAN, LastSyncSuccess : BOOLEAN]
      /\ abandoned \in BOOLEAN
      /\ calm \in BOOLEAN
  OBVIOUS
<1>4. ASSUME NEW w \in Workers
      PROVE  /\ cfg[w] # NoConfig <=> pc[w] \in {"rest", "compare", "write"}
             /\ rd[w] # NoConfig <=> pc[w] = "post"
             /\ pc[w] = "release" => w \in Syncers
  OBVIOUS
<1>5. QED
  BY <1>1, <1>2, <1>3, <1>4 DEF TypeOK, TableTypeOK

\* Every step of FullSync, of a build, of a write and of a reload keeps the
\* types, and keeps a worker's cfg and rd in step with its control point.
LEMMA StepTypeOK ==
    ASSUME TypeOK, NEW w \in Workers,
           FullSyncBegin(w) \/ HandlerBegin(w) \/ Step(w)
    PROVE  TypeOK'
<1> USE NoConfigAssumption DEF TypeOK, TableTypeOK, Control
<1>1. CASE FullSyncBegin(w)
  BY <1>1 DEF FullSyncBegin
<1>2. CASE HandlerBegin(w)
  BY <1>2 DEF HandlerBegin
<1>3. CASE FullSyncRecord(w)
  BY <1>3 DEF FullSyncRecord
<1>4. CASE FullSyncRelease(w)
  BY <1>4 DEF FullSyncRelease
<1>5. CASE HandlerReturn(w)
  BY <1>5 DEF HandlerReturn
<1>6. CASE BuildProxies(w)
  <2>1. [routes |-> HTTPRoutes(proxies), side |-> DefaultSide, order |-> 1] \in Config
    BY RoutesType, ConfigType, SidesAssumption
  <2>2. QED
    BY <1>6, <2>1 DEF BuildProxies
<1>7. CASE BuildFails(w)
  BY <1>7 DEF BuildFails
<1>8. CASE BuildRest(w)
  <2>1. PICK o \in OrdersOf(side) :
            cfg' = [cfg EXCEPT ![w] = [routes |-> cfg[w].routes, side |-> side, order |-> o]]
    BY <1>8 DEF BuildRest
  <2>2. cfg[w] \in Config
    BY <1>8 DEF BuildRest
  <2>3. cfg[w].routes \in SUBSET Route /\ o \in {1, 2}
    BY <2>1, <2>2 DEF Config, OrdersOf
  <2>4. [routes |-> cfg[w].routes, side |-> side, order |-> o] \in Config
    BY <2>3, ConfigType
  <2>5. QED
    BY <1>8, <2>1, <2>4 DEF BuildRest
<1>9. CASE BuildRestDegraded(w)
  BY <1>9 DEF BuildRestDegraded
<1>10. CASE Compare(w)
  BY <1>10 DEF Compare
<1>11. CASE CompareFails(w)
  BY <1>11 DEF CompareFails
<1>12. CASE Write(w)
  BY <1>12 DEF Write
<1>13. CASE WriteFails(w)
  BY <1>13 DEF WriteFails
<1>14. CASE Validate(w)
  BY <1>14 DEF Validate, GiveUp
<1>15. CASE Reload(w)
  BY <1>15 DEF Reload, GiveUp
<1>16. CASE ReadFile(w)
  BY <1>16 DEF ReadFile
<1>17. CASE PostLoad(w)
  BY <1>17 DEF PostLoad, Applied
<1>18. CASE PostRejected(w)
  BY <1>18 DEF PostRejected, GiveUp
<1>19. CASE PostTimeout(w)
  BY <1>19 DEF PostTimeout, Applied
<1>20. QED
  BY <1>1, <1>2, <1>3, <1>4, <1>5, <1>6, <1>7, <1>8, <1>9, <1>10, <1>11, <1>12,
     <1>13, <1>14, <1>15, <1>16, <1>17, <1>18, <1>19 DEF Step, Work

\* A restart keeps the types.
LEMMA RebootTypeOK ==
    ASSUME TypeOK, Reboot
    PROVE  TypeOK'
  BY NoConfigAssumption DEF Reboot, TypeOK, TableTypeOK, Control

\* TypeOK is inductive.
LEMMA NextTypeOK == TypeOK /\ [Next]_vars => TypeOK'
<1> SUFFICES ASSUME TypeOK, [Next]_vars
             PROVE  TypeOK'
  OBVIOUS
<1>1. CASE DbWrite
  BY <1>1 DEF DbWrite, TypeOK, TableTypeOK
<1>2. CASE SideWrite
  BY <1>2 DEF SideWrite, TypeOK, TableTypeOK
<1>3. CASE CalmDown
  BY <1>3 DEF CalmDown, TypeOK, TableTypeOK
<1>4. CASE \E w \in Workers : FullSyncBegin(w) \/ HandlerBegin(w) \/ Step(w)
  BY <1>4, StepTypeOK
<1>5. CASE Crash \/ EntrypointExit
  BY <1>5, RebootTypeOK DEF Crash, EntrypointExit
<1>6. CASE UNCHANGED vars
  BY <1>6 DEF vars, TypeOK, TableTypeOK
<1>7. QED
  BY <1>1, <1>2, <1>3, <1>4, <1>5, <1>6 DEF Next

\* Every variable keeps its type, and a worker holds a built config exactly
\* between build and write, a read-back one exactly while it posts.
THEOREM TypeCorrect == Spec => []TypeOK
<1>1. Init => TypeOK
  BY InitTypeOK
<1>2. TypeOK /\ [Next]_vars => TypeOK'
  BY NextTypeOK
<1>3. QED
  BY <1>1, <1>2, PTL DEF Spec

----------------------------------------------------------------------------
(* The file reaches Caddy *)

\* The initial state satisfies the invariant: Caddy was started from the file.
LEMMA InitReloadInv == Init => ReloadInv
  BY InitTypeOK DEF Init, ReloadInv, ReloadsExclusive, PostFresh, FileReachesCaddy

\* Control points at which a worker is between its write and the end of its
\* reload.
Reloading == {"validate", "reload", "read", "post"}

\* A step that stays clear of the reload and of what it works on.
QuietStep(w) ==
    /\ UNCHANGED <<file, live, rd, abandoned>>
    /\ pc[w] \notin Reloading
    /\ \E c \in Control \ Reloading : pc' = [pc EXCEPT ![w] = c]

\* FullSync's own steps, the build and the comparison are quiet.
LEMMA QuietSteps ==
    ASSUME TypeOK, NEW w \in Workers,
           \/ FullSyncBegin(w) \/ HandlerBegin(w)
           \/ FullSyncRecord(w) \/ FullSyncRelease(w) \/ HandlerReturn(w)
           \/ BuildProxies(w) \/ BuildFails(w) \/ BuildRest(w) \/ BuildRestDegraded(w)
           \/ Compare(w) \/ CompareFails(w) \/ WriteFails(w)
    PROVE  QuietStep(w)
<1> USE DEF QuietStep, Reloading, Control
<1>1. CASE FullSyncBegin(w) \/ HandlerBegin(w)
  BY <1>1 DEF FullSyncBegin, HandlerBegin
<1>2. CASE FullSyncRecord(w) \/ FullSyncRelease(w) \/ HandlerReturn(w)
  BY <1>2 DEF FullSyncRecord, FullSyncRelease, HandlerReturn
<1>3. CASE BuildProxies(w) \/ BuildFails(w)
  BY <1>3 DEF BuildProxies, BuildFails
<1>4. CASE BuildRest(w) \/ BuildRestDegraded(w)
  BY <1>4 DEF BuildRest, BuildRestDegraded
<1>5. CASE Compare(w)
  BY <1>5 DEF Compare
<1>6. CASE CompareFails(w) \/ WriteFails(w)
  BY <1>6 DEF CompareFails, WriteFails
<1>7. QED
  BY <1>1, <1>2, <1>3, <1>4, <1>5, <1>6

\* A quiet step leaves every worker's part in the reload as it was.
LEMMA QuietReloadInv ==
    ASSUME ReloadInv, NEW w \in Workers, QuietStep(w)
    PROVE  (ReloadsExclusive /\ PostFresh /\ FileReachesCaddy)'
<1>1. \A v \in Workers : pc'[v] = pc[v] \/ (pc[v] \notin Reloading /\ pc'[v] \notin Reloading)
  BY DEF ReloadInv, TypeOK, QuietStep
<1>2. UNCHANGED <<file, live, rd, abandoned>>
  BY DEF QuietStep
<1>3. ReloadsExclusive'
  BY <1>1 DEF ReloadInv, ReloadsExclusive, Reloading
<1>4. PostFresh'
  BY <1>1, <1>2 DEF ReloadInv, PostFresh, Reloading
<1>5. FileReachesCaddy'
  BY <1>1, <1>2 DEF ReloadInv, FileReachesCaddy, HasToReload, Reloading
<1>6. QED
  BY <1>3, <1>4, <1>5

\* Giving up is recorded in abandoned, which covers both claims.
LEMMA GiveUpReloadInv ==
    ASSUME ReloadInv, NEW w \in Workers, GiveUp(w)
    PROVE  (ReloadsExclusive /\ PostFresh /\ FileReachesCaddy)'
<1>1. \A v \in Workers : pc'[v] = pc[v] \/ pc'[v] = "err"
  BY DEF ReloadInv, TypeOK, GiveUp
<1>2. abandoned'
  BY DEF GiveUp
<1>3. QED
  BY <1>1, <1>2 DEF ReloadInv, ReloadsExclusive, PostFresh, FileReachesCaddy

\* Caddy applies what w read: either that is the file, or the worker that
\* wrote the file since is still before its reload (PostFresh).
LEMMA AppliedReloadInv ==
    ASSUME ReloadInv, NEW w \in Workers, NEW c \in {"ok", "err"},
           pc[w] = "post", Applied(w), pc' = [pc EXCEPT ![w] = c]
    PROVE  (ReloadsExclusive /\ PostFresh /\ FileReachesCaddy)'
<1>1. \A v \in Workers : v # w => pc'[v] = pc[v]
  BY DEF ReloadInv, TypeOK
<1>2. pc'[w] = c
  BY DEF ReloadInv, TypeOK
<1>3. \A v \in Workers : pc'[v] # "post"
  BY <1>1, <1>2 DEF ReloadInv, ReloadsExclusive
<1>4. ReloadsExclusive'
  BY <1>1, <1>2 DEF ReloadInv, ReloadsExclusive
<1>5. PostFresh'
  BY <1>3 DEF PostFresh
<1>6. live' = rd[w] /\ file' = file /\ abandoned' = (abandoned /\ rd[w] # file)
  BY DEF Applied
<1>7. FileReachesCaddy'
  <2>1. CASE rd[w] = file
    BY <2>1, <1>6 DEF FileReachesCaddy
  <2>2. CASE rd[w] # file /\ abandoned
    BY <2>2, <1>6 DEF FileReachesCaddy
  <2>3. CASE \E v \in Workers : pc[v] \in {"validate", "reload"}
    <3>1. PICK v \in Workers : pc[v] \in {"validate", "reload"}
      BY <2>3
    <3>2. pc'[v] \in {"validate", "reload"}
      BY <3>1, <1>1
    <3>3. QED
      BY <3>2 DEF FileReachesCaddy, HasToReload
  <2>4. QED
    BY <2>1, <2>2, <2>3 DEF ReloadInv, PostFresh
<1>8. QED
  BY <1>4, <1>5, <1>7

\* Every step of a worker keeps the invariant.
LEMMA StepReloadInv ==
    ASSUME ReloadInv, NEW w \in Workers,
           FullSyncBegin(w) \/ HandlerBegin(w) \/ Step(w)
    PROVE  (ReloadsExclusive /\ PostFresh /\ FileReachesCaddy)'
<1> DEFINE Goal == ReloadsExclusive /\ PostFresh /\ FileReachesCaddy
<1> USE DEF ReloadInv
<1>1. CASE \/ FullSyncBegin(w) \/ HandlerBegin(w)
           \/ FullSyncRecord(w) \/ FullSyncRelease(w) \/ HandlerReturn(w)
           \/ BuildProxies(w) \/ BuildFails(w) \/ BuildRest(w) \/ BuildRestDegraded(w)
           \/ Compare(w) \/ CompareFails(w) \/ WriteFails(w)
  BY <1>1, QuietSteps, QuietReloadInv
<1>2. CASE Write(w)
  <2>1. /\ pc'[w] = "validate"
        /\ \A v \in Workers : v # w => pc'[v] = pc[v]
    BY <1>2 DEF Write, TypeOK
  <2>2. ReloadsExclusive'
    BY <2>1 DEF ReloadsExclusive
  <2>3. PostFresh' /\ FileReachesCaddy'
    BY <2>1 DEF PostFresh, FileReachesCaddy, HasToReload
  <2>4. QED
    BY <2>2, <2>3
<1>3. CASE Validate(w) /\ ~GiveUp(w)
  <2>1. /\ pc'[w] = "reload" /\ UNCHANGED <<file, live, rd, abandoned>>
        /\ \A v \in Workers : v # w => pc'[v] = pc[v]
    BY <1>3 DEF Validate, TypeOK
  <2>2. QED
    BY <2>1 DEF ReloadsExclusive, PostFresh, FileReachesCaddy, HasToReload
<1>4. CASE Reload(w) /\ ~GiveUp(w)
  <2>1. /\ pc'[w] = "read" /\ UNCHANGED <<file, live, rd, abandoned>>
        /\ \A v \in Workers : v # w => pc'[v] = pc[v]
        /\ \A v \in Workers : pc[v] \notin {"read", "post"}
    BY <1>4 DEF Reload, ReloadLockFree, TypeOK
  <2>2. QED
    BY <2>1 DEF ReloadsExclusive, PostFresh, FileReachesCaddy, HasToReload
<1>5. CASE ReadFile(w)
  <2>1. /\ pc[w] = "read" /\ pc'[w] = "post" /\ rd'[w] = file
        /\ UNCHANGED <<file, live, abandoned>>
        /\ \A v \in Workers : v # w => pc'[v] = pc[v]
    BY <1>5 DEF ReadFile, TypeOK
  <2>2. \A v \in Workers : v # w => pc[v] # "post"
    BY <2>1 DEF ReloadsExclusive
  <2>3. QED
    BY <2>1, <2>2 DEF ReloadsExclusive, PostFresh, FileReachesCaddy
<1>6. CASE GiveUp(w)
  BY <1>6, GiveUpReloadInv
<1>7. CASE PostLoad(w) \/ PostTimeout(w)
  BY <1>7, AppliedReloadInv DEF PostLoad, PostTimeout
<1>8. CASE PostRejected(w)
  BY <1>8, GiveUpReloadInv DEF PostRejected
<1>9. QED
  BY <1>1, <1>2, <1>3, <1>4, <1>5, <1>6, <1>7, <1>8 DEF Step, Work

\* ReloadInv is inductive.
LEMMA NextReloadInv == ReloadInv /\ [Next]_vars => ReloadInv'
<1> SUFFICES ASSUME ReloadInv, [Next]_vars
             PROVE  ReloadInv'
  OBVIOUS
<1>1. TypeOK'
  BY NextTypeOK DEF ReloadInv
<1>2. (ReloadsExclusive /\ PostFresh /\ FileReachesCaddy)'
  <2> USE DEF ReloadInv, ReloadsExclusive, PostFresh, FileReachesCaddy, HasToReload
  <2>1. CASE DbWrite
    BY <2>1 DEF DbWrite
  <2>2. CASE SideWrite
    BY <2>2 DEF SideWrite
  <2>3. CASE CalmDown
    BY <2>3 DEF CalmDown
  <2>4. CASE \E w \in Workers : FullSyncBegin(w) \/ HandlerBegin(w) \/ Step(w)
    BY <2>4, StepReloadInv
  <2>5. CASE Crash \/ EntrypointExit
    BY <2>5 DEF Crash, EntrypointExit, Reboot
  <2>6. CASE UNCHANGED vars
    BY <2>6 DEF vars
  <2>7. QED
    BY <2>1, <2>2, <2>3, <2>4, <2>5, <2>6 DEF Next
<1>3. QED
  BY <1>1, <1>2 DEF ReloadInv

\* Whatever the interleaving of handler syncs, the ticker, failures and
\* restarts: Caddy runs the file, or somebody is still going to load it, or a
\* sync gave up on it.
THEOREM FileReachesCaddyHolds == Spec => []FileReachesCaddy
<1>1. Init => ReloadInv
  BY InitReloadInv
<1>2. ReloadInv /\ [Next]_vars => ReloadInv'
  BY NextReloadInv
<1>3. ReloadInv => FileReachesCaddy
  BY DEF ReloadInv
<1>4. QED
  BY <1>1, <1>2, <1>3, PTL DEF Spec

----------------------------------------------------------------------------
(* FullSync excludes itself *)

\* A step of a worker keeps the guard: only FullSyncBegin leaves "idle" for a
\* syncer, and only FullSyncRelease comes back.
LEMMA StepExclusive ==
    ASSUME TypeOK, FullSyncExclusive, NEW w \in Workers,
           FullSyncBegin(w) \/ HandlerBegin(w) \/ Step(w)
    PROVE  FullSyncExclusive'
<1> USE WorkersAssumption DEF TypeOK, FullSyncExclusive, Workers, Syncers
<1>1. CASE FullSyncBegin(w)
  BY <1>1 DEF FullSyncBegin
<1>2. CASE HandlerBegin(w) \/ HandlerReturn(w)
  BY <1>2 DEF HandlerBegin, HandlerReturn
<1>3. CASE FullSyncRecord(w)
  BY <1>3 DEF FullSyncRecord
<1>4. CASE FullSyncRelease(w)
  BY <1>4 DEF FullSyncRelease
<1>5. ASSUME status' = status, pc[w] # "idle",
             NEW c \in Control \ {"idle"}, pc' = [pc EXCEPT ![w] = c]
      PROVE  FullSyncExclusive'
  BY <1>5
<1>6. CASE BuildProxies(w) \/ BuildFails(w) \/ BuildRest(w) \/ BuildRestDegraded(w)
  BY <1>6, <1>5 DEF BuildProxies, BuildFails, BuildRest, BuildRestDegraded, Control
<1>7. CASE Compare(w) \/ CompareFails(w) \/ Write(w) \/ WriteFails(w)
  BY <1>7, <1>5 DEF Compare, CompareFails, Write, WriteFails, Control
<1>8. CASE Validate(w) \/ Reload(w) \/ ReadFile(w)
  BY <1>8, <1>5 DEF Validate, Reload, ReadFile, GiveUp, Control
<1>9. CASE PostLoad(w) \/ PostRejected(w) \/ PostTimeout(w)
  BY <1>9, <1>5 DEF PostLoad, PostRejected, PostTimeout, Applied, GiveUp, Control
<1>10. QED
  BY <1>1, <1>2, <1>3, <1>4, <1>6, <1>7, <1>8, <1>9 DEF Step, Work

\* At most one FullSync runs at any time, and IsSyncing says so exactly.
THEOREM FullSyncExclusiveHolds == Spec => []FullSyncExclusive
<1>1. Init => FullSyncExclusive
  BY DEF Init, FullSyncExclusive, Workers, Syncers
<1>2. TypeOK /\ FullSyncExclusive /\ [Next]_vars => FullSyncExclusive'
  <2> SUFFICES ASSUME TypeOK, FullSyncExclusive, [Next]_vars
               PROVE  FullSyncExclusive'
    OBVIOUS
  <2>1. CASE DbWrite \/ SideWrite \/ CalmDown \/ UNCHANGED vars
    BY <2>1 DEF DbWrite, SideWrite, CalmDown, vars, FullSyncExclusive
  <2>2. CASE \E w \in Workers : FullSyncBegin(w) \/ HandlerBegin(w) \/ Step(w)
    BY <2>2, StepExclusive
  <2>3. CASE Crash \/ EntrypointExit
    BY <2>3 DEF Crash, EntrypointExit, Reboot, FullSyncExclusive, Workers, Syncers
  <2>4. QED
    BY <2>1, <2>2, <2>3 DEF Next
<1>3. QED
  BY <1>1, <1>2, TypeCorrect, PTL DEF Spec

----------------------------------------------------------------------------
(* The composition with the request handlers *)

PSP == INSTANCE ProxyServiceProofs

\* Handlers are at rest once the environment has calmed down.
CalmHandlers == calm => \A h \in Handlers : hp[h] = "idle"

----------------------------------------------------------------------------

\* ProxyService's assumptions hold of the composition's constants.
LEMMA Assumptions ==
    DbFails \in BOOLEAN /\ Absent \notin PSP!Row /\ Absent \notin ProxyIDs
  BY JointAssumption, AbsentAssumption DEF PSP!Row, Row

\* What a handler does outside the pipeline is a step of ProxyService.
LEMMA SameSteps ==
    ASSUME NEW h \in Handlers
    PROVE  /\ PS!Arrive(h) => PSP!Arrive(h)
           /\ PS!DbStep(h) => PSP!DbStep(h)
           /\ PS!SyncCall(h) => PSP!SyncCall(h)
           /\ \A ok \in BOOLEAN : PS!SyncReturn(h, ok) => PSP!SyncReturn(h, ok)
<1>1. PS!Arrive(h) => PSP!Arrive(h)
  BY Zenon DEF PS!Arrive, PSP!Arrive, PS!Row, PSP!Row
<1>2. PS!GetByID(h) => PSP!GetByID(h)
  BY Zenon DEF PS!GetByID, PSP!GetByID, PS!Finish, PSP!Finish, PS!Goto, PSP!Goto,
         PS!NoCommit, PSP!NoCommit
<1>3. PS!HostnameExists(h) => PSP!HostnameExists(h)
  BY Zenon DEF PS!HostnameExists, PSP!HostnameExists, PS!Taken, PSP!Taken, PS!Finish,
         PSP!Finish, PS!Goto, PSP!Goto, PS!NoCommit, PSP!NoCommit
<1>4. PS!CreateStore(h) => PSP!CreateStore(h)
  BY Zenon DEF PS!CreateStore, PSP!CreateStore, PS!Taken, PSP!Taken, PS!Finish,
         PSP!Finish, PS!Goto, PSP!Goto, PS!NoCommit, PSP!NoCommit, PS!Commit,
         PSP!Commit
<1>5. PS!UpdateStore(h) => PSP!UpdateStore(h)
  BY Zenon DEF PS!UpdateStore, PSP!UpdateStore, PS!Taken, PSP!Taken, PS!Finish,
         PSP!Finish, PS!Goto, PSP!Goto, PS!NoCommit, PSP!NoCommit, PS!Commit,
         PSP!Commit, PS!UpdatedRow, PSP!UpdatedRow
<1>6. PS!DeleteStore(h) => PSP!DeleteStore(h)
  BY Zenon DEF PS!DeleteStore, PSP!DeleteStore, PS!Commit, PSP!Commit, PS!Goto, PSP!Goto
<1>7. PS!StatusStore(h) => PSP!StatusStore(h)
  BY Zenon DEF PS!StatusStore, PSP!StatusStore, PS!Commit, PSP!Commit, PS!Goto, PSP!Goto,
         PS!StatusRow, PSP!StatusRow
<1>8. PS!DbError(h) => PSP!DbError(h)
  BY Zenon DEF PS!DbError, PSP!DbError, PS!Finish, PSP!Finish, PS!NoCommit, PSP!NoCommit
<1>9. PS!Rollback(h) => PSP!Rollback(h)
  BY Zenon DEF PS!Rollback, PSP!Rollback, PS!Commit, PSP!Commit, PS!Finish, PSP!Finish,
         PS!StatusRow, PSP!StatusRow
<1>10. PS!RollbackFails(h) => PSP!RollbackFails(h)
  BY Zenon DEF PS!RollbackFails, PSP!RollbackFails, PS!Finish, PSP!Finish, PS!NoCommit,
         PSP!NoCommit
<1>11. PS!SyncCall(h) => PSP!SyncCall(h)
  BY Zenon DEF PS!SyncCall, PSP!SyncCall, PS!Goto, PSP!Goto, PS!NoCommit, PSP!NoCommit
<1>12. ASSUME NEW ok \in BOOLEAN, PS!SyncReturn(h, ok)
       PROVE  PSP!SyncReturn(h, ok)
  BY <1>12, Zenon DEF PS!SyncReturn, PSP!SyncReturn, PS!Goto, PSP!Goto, PS!Finish, PSP!Finish,
         PS!NoCommit, PSP!NoCommit
<1>13. QED
  BY <1>1, <1>2, <1>3, <1>4, <1>5, <1>6, <1>7, <1>8, <1>9, <1>10, <1>11, <1>12 DEF PS!DbStep, PSP!DbStep

\* The pipeline's own steps write neither the table nor the handlers' state.
LEMMA PipelineKeepsTable ==
    ASSUME NEW w \in Workers, FullSyncBegin(w) \/ HandlerBegin(w) \/ Step(w)
    PROVE  UNCHANGED proxies
  BY DEF FullSyncBegin, HandlerBegin, Step, Work, FullSyncRecord, FullSyncRelease, HandlerReturn,
         BuildProxies, BuildFails, BuildRest, BuildRestDegraded, Compare, CompareFails,
         Write, WriteFails, Validate, Reload, GiveUp, ReadFile, Applied,
         PostLoad, PostRejected, PostTimeout

\* A step of the composition is one of ProxyService, or leaves it alone.
LEMMA JointStepOfHandlers == [JointNext]_jointVars => [PSP!Next]_(PSP!pvars)
<1> SUFFICES ASSUME [JointNext]_jointVars
             PROVE  [PSP!Next]_(PSP!pvars)
  OBVIOUS
<1>1. ASSUME NEW h \in Handlers, Request(h) \/ Database(h) \/ CallSync(h) \/ SyncDone(h)
      PROVE  PSP!Next
  <2>1. \/ PSP!Arrive(h) \/ PSP!DbStep(h) \/ PSP!SyncCall(h)
        \/ \E ok \in BOOLEAN : PSP!SyncReturn(h, ok)
    BY <1>1, SameSteps DEF Request, Database, CallSync, SyncDone
  <2>2. QED
    BY <2>1 DEF PSP!Next
<1>2. ASSUME NEW w \in Workers, Pipeline(w)
      PROVE  UNCHANGED PSP!pvars
  BY <1>2, PipelineKeepsTable DEF Pipeline, Step, handlerVars, PSP!pvars
<1>3. CASE Tick
  BY <1>3, PipelineKeepsTable DEF Tick, Workers, handlerVars, PSP!pvars
<1>4. CASE Settings \/ Calm
  BY <1>4 DEF Settings, Calm, SideWrite, CalmDown, handlerVars, PSP!pvars
<1>5. CASE Restart
  <2>1. PSP!Restart
    BY <1>5, Zenon DEF Restart, PS!Restart, PSP!Restart, PS!NoRequest, PSP!NoRequest
  <2>2. QED
    BY <2>1 DEF PSP!Next
<1>6. CASE UNCHANGED jointVars
  BY <1>6 DEF jointVars, vars, handlerVars, PSP!pvars
<1>7. QED
  BY <1>1, <1>2, <1>3, <1>4, <1>5, <1>6 DEF JointNext

\* The composition behaves, to the handlers, as ProxyService.
LEMMA JointHandlers == JointSpec => PSP!Spec
<1>1. JointInit => PSP!Init
  BY Zenon DEF JointInit, PS!Init, PSP!Init, PS!NoRequest, PSP!NoRequest
<1>2. QED
  BY <1>1, JointStepOfHandlers, PTL DEF JointSpec, PSP!Spec

\* Requests arrive only before the environment calms down, which it does only
\* when none is under way.
LEMMA CalmInv ==
    ASSUME PSP!PTypeOK, CalmHandlers, [JointNext]_jointVars
    PROVE  CalmHandlers'
<1>1. ASSUME NEW h \in Handlers, Request(h) \/ Database(h) \/ CallSync(h) \/ SyncDone(h)
      PROVE  ~calm /\ ~calm'
  <2>1. CASE Request(h)
    BY <2>1 DEF Request, pipelineVars
  <2>2. CASE Database(h)
    <3>1. hp[h] # "idle"
      BY <2>2 DEF Database, PS!DbStep, PS!GetByID, PS!HostnameExists, PS!CreateStore,
         PS!UpdateStore, PS!DeleteStore, PS!StatusStore, PS!Rollback, PS!DbError,
         PS!RollbackFails
    <3>2. QED
      BY <2>2, <3>1 DEF Database, pipelineVars, CalmHandlers
  <2>3. CASE CallSync(h)
    BY <2>3 DEF CallSync, PS!SyncCall, HandlerBegin, CalmHandlers
  <2>4. CASE SyncDone(h)
    BY <2>4 DEF SyncDone, PS!SyncReturn, HandlerReturn, CalmHandlers
  <2>5. QED
    BY <1>1, <2>1, <2>2, <2>3, <2>4
<1>2. ASSUME NEW w \in Workers, Pipeline(w)
      PROVE  UNCHANGED <<hp, calm>>
  BY <1>2 DEF Pipeline, handlerVars, Work, FullSyncRecord, FullSyncRelease,
         BuildProxies, BuildFails, BuildRest, BuildRestDegraded, Compare, CompareFails,
         Write, WriteFails, Validate, Reload, GiveUp, ReadFile, Applied,
         PostLoad, PostRejected, PostTimeout
<1>3. CASE Tick \/ Settings
  BY <1>3 DEF Tick, FullSyncBegin, Settings, SideWrite, handlerVars, CalmHandlers
<1>4. CASE Calm
  BY <1>4 DEF Calm, handlerVars, CalmHandlers
<1>5. CASE Restart
  BY <1>5 DEF Restart, PS!Restart, CalmHandlers
<1>6. CASE UNCHANGED jointVars
  BY <1>6 DEF jointVars, vars, handlerVars, CalmHandlers
<1>7. QED
  BY <1>1, <1>2, <1>3, <1>4, <1>5, <1>6 DEF JointNext, CalmHandlers

\* A commit is a DbWrite, or writes what the row already held.
LEMMA CommitIsDbWrite ==
    ASSUME PSP!PTypeOK, PSP!HostnamesUnique', CalmHandlers,
           NEW h \in Handlers, Database(h)
    PROVE  DbWrite \/ UNCHANGED vars
<1>1. hp[h] # "idle"
  BY DEF Database, PS!DbStep, PS!GetByID, PS!HostnameExists, PS!CreateStore,
         PS!UpdateStore, PS!DeleteStore, PS!StatusStore, PS!Rollback, PS!DbError,
         PS!RollbackFails
<1>2. ~calm /\ UNCHANGED <<side, file, live, pc, cfg, rd, status, abandoned, calm>>
  BY <1>1 DEF CalmHandlers, Database, pipelineVars
<1>3. PSP!Next
  BY SameSteps DEF Database, PSP!Next
<1>4. HostnamesUnique'
  BY DEF PSP!HostnamesUnique, PSP!Taken, HostnamesUnique, Taken
<1>5. CASE UNCHANGED proxies
  BY <1>2, <1>5 DEF vars
<1>6. ASSUME NEW p \in ProxyIDs, NEW r \in Row \cup {Absent},
             proxies' = [proxies EXCEPT ![p] = r], ~UNCHANGED proxies
      PROVE  DbWrite
  <2>1. r # proxies[p]
    BY <1>6 DEF PSP!PTypeOK, PSP!TableTypeOK
  <2>2. QED
    BY <1>2, <1>4, <1>6, <2>1 DEF DbWrite
<1>7. \/ UNCHANGED proxies
      \/ \E p \in ProxyIDs, r \in Row \cup {Absent} : proxies' = [proxies EXCEPT ![p] = r]
  BY <1>3, Assumptions, PSP!OneCommit DEF PSP!Row, Row
<1>8. QED
  BY <1>5, <1>6, <1>7

\* Every step of the composition is a step of SyncService, or leaves it alone.
LEMMA JointStepOfSync ==
    ASSUME PSP!PTypeOK, PSP!HostnamesUnique', CalmHandlers, [JointNext]_jointVars
    PROVE  [Next]_vars
<1>1. ASSUME NEW h \in Handlers, Request(h)
      PROVE  UNCHANGED vars
  BY <1>1 DEF Request, PS!Arrive, pipelineVars, vars
<1>2. ASSUME NEW h \in Handlers, CallSync(h) \/ SyncDone(h)
      PROVE  Next
  BY <1>2 DEF CallSync, SyncDone, Next, Step, Workers
<1>3. ASSUME NEW w \in Workers, Pipeline(w)
      PROVE  Next
  BY <1>3 DEF Pipeline, Next, Step
<1>4. CASE Tick \/ Settings \/ Calm \/ Restart
  BY <1>4 DEF Tick, Settings, Calm, Restart, Next, Workers
<1>5. CASE UNCHANGED jointVars
  BY <1>5 DEF jointVars
<1>6. ASSUME NEW h \in Handlers, Database(h)
      PROVE  Next \/ UNCHANGED vars
  BY <1>6, CommitIsDbWrite DEF Next
<1>7. QED
  BY <1>1, <1>2, <1>3, <1>4, <1>5, <1>6 DEF JointNext

\* The composition of request handlers and pipeline implements SyncService: what
\* is proved there of arbitrary database writes holds of the real operations.
THEOREM SyncImplementedHolds == JointSpec => SyncImplemented
<1>1. JointSpec => []PSP!PTypeOK /\ []PSP!HostnamesUnique
  <2>1. PSP!Spec => []PSP!PTypeOK
    BY Assumptions, PSP!HandlersTypeCorrect
  <2>2. PSP!Spec => []PSP!HostnamesUnique
    BY Assumptions, PSP!HostnamesUniqueHolds
  <2>3. QED
    BY <2>1, <2>2, JointHandlers, PTL
<1>2. JointInit => CalmHandlers
  BY DEF JointInit, Init, CalmHandlers
<1>3. PSP!PTypeOK /\ CalmHandlers /\ [JointNext]_jointVars => CalmHandlers'
  BY CalmInv
<1>4. PSP!PTypeOK /\ PSP!HostnamesUnique' /\ CalmHandlers /\ [JointNext]_jointVars => [Next]_vars
  BY JointStepOfSync
<1>5. JointInit => Init
  BY DEF JointInit
<1>6. QED
  BY <1>1, <1>2, <1>3, <1>4, <1>5, PTL DEF JointSpec, SyncImplemented, Spec

\* So whatever requests do, Caddy ends up with the file unless a sync gave up.
THEOREM JointFileReachesCaddy == JointSpec => []FileReachesCaddy
  BY SyncImplementedHolds, FileReachesCaddyHolds, PTL DEF SyncImplemented
============================================================================
