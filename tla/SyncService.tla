---------------------------- MODULE SyncService ----------------------------
(***************************************************************************)
(* The pipeline that carries the database to the running Caddy server:     *)
(*                                                                         *)
(*   database --build--> config --write--> caddy.json --reload--> Caddy    *)
(*                                                                         *)
(* backend/internal/service/sync_service.go drives it, with                *)
(* caddy/file_manager.go owning the file and caddy/reloader.go the reload. *)
(* Every worker below is a goroutine.  The Periodic ticker and the         *)
(* Triggers (the initial sync and POST /api/sync/trigger) go through       *)
(* FullSync, which an IsSyncing flag guards.  The Handlers (requests that  *)
(* changed a proxy, an ACL group or a setting) call performFullSyncJSON    *)
(* directly, without the guard, so their pipelines run beside a FullSync.  *)
(*                                                                         *)
(* Two mutexes exist.  s.mu covers a build, so at most one worker is       *)
(* between its first and its last database read; r.mu covers a whole       *)
(* ReloadJSON (validate, read the file, POST /load).  Neither covers the   *)
(* distance from the build to the write, or from the write to the reload.  *)
(* Both are held exactly while a worker is at certain control points, so   *)
(* they need no variable of their own: see BuildLockFree, ReloadLockFree.  *)
(***************************************************************************)
EXTENDS ProxyTable, Naturals

CONSTANTS
    Unbuildable,    \* bodies the builder cannot turn into a route
    BadBodies,      \* bodies whose route Caddy refuses to load
    Sides,          \* contents of the tables read after the proxies
    MultiSides,     \* those with several layer-4 TLS hostnames
    DefaultSide,    \* what a build falls back to when it cannot read them
    NoConfig,       \* no configuration: Caddy is down, or nothing was read
    Periodic,       \* the ticker goroutine
    Triggers,       \* the initial sync, and manual triggers
    Handlers,       \* request goroutines that sync without FullSync
    Faults          \* kinds of failure the environment may produce

FaultKinds == {"db", "side", "compare", "write", "exec", "lost", "timeout", "crash"}

ASSUME BodiesAssumption == BadBodies \subseteq Bodies /\ Unbuildable \subseteq Bodies
ASSUME SidesAssumption == DefaultSide \in Sides /\ MultiSides \subseteq Sides \ {DefaultSide}
ASSUME WorkersAssumption == /\ Periodic \notin Triggers \cup Handlers
                            /\ Triggers \cap Handlers = {}
ASSUME FaultsAssumption == Faults \subseteq FaultKinds

Syncers == {Periodic} \cup Triggers
Workers == Syncers \cup Handlers

Route == [host : Hosts, body : Bodies]
Config == [routes : SUBSET Route, side : Sides, order : {1, 2}]

ASSUME NoConfigAssumption == NoConfig \notin Config

\* Where a worker is inside FullSync / performFullSyncJSON.
Control == {"idle", "build", "rest", "compare", "write", "validate", "reload",
            "read", "post", "ok", "err", "release"}

VARIABLES
    side,       \* 404 settings, ACL groups and assignments, L4 proxies, metrics
    file,       \* contents of caddy.json
    live,       \* the configuration Caddy is running, NoConfig when it is down
    pc,         \* control point of each worker
    cfg,        \* configBytes: what each worker built and means to write
    rd,         \* configData: what each worker read back inside ReloadJSON
    status,     \* SyncStatus, the fields later steps or clients depend on
    abandoned,  \* history: a sync gave up between writing the file and
                \* loading it, and no later reload applied the file since
    calm        \* from now on: no database write, no failure, no crash

vars == <<proxies, side, file, live, pc, cfg, rd, status, abandoned, calm>>

----------------------------------------------------------------------------
(* What a build and Caddy make of their inputs. *)

\* extractL4TLSHostnames ranges over a Go map, so the routes of several
\* layer-4 TLS hostnames come out in any order.
OrdersOf(s) == IF s \in MultiSides THEN {1, 2} ELSE {1}

\* buildHTTPRoutes: one route per ACTIVE proxy; a proxy whose routes cannot
\* be built is logged and skipped.  Hostnames are unique, so the order of
\* these routes is immaterial.
HTTPRoutes(rows) ==
    {[host |-> rows[p].host, body |-> rows[p].body] :
        p \in {q \in ProxyIDs : /\ rows[q] # Absent
                                /\ rows[q].active
                                /\ rows[q].body \notin Unbuildable}}

\* The configurations the database calls for now.
Wanted == {[routes |-> HTTPRoutes(proxies), side |-> side, order |-> o] : o \in OrdersOf(side)}

\* What ensureInitialJSONConfig writes: no proxies, default settings.
InitialConfig == [routes |-> {}, side |-> DefaultSide, order |-> 1]

\* `caddy validate`, `caddy run` and POST /load agree on what is loadable.
Accepted(c) == \A r \in c.routes : r.body \notin BadBodies

\* A kind of failure that may happen now.
MayFail(kind) == ~calm /\ kind \in Faults

\* Mutant of ReloadLockFree: a reloader without its mutex.
ReloadUnlocked == TRUE

BuildLockFree == \A v \in Workers : pc[v] # "rest"
ReloadLockFree == \A v \in Workers : pc[v] \notin {"read", "post"}

----------------------------------------------------------------------------
(* Start: the first boot, once ensureInitialConfigs has written the file   *)
(* and the entrypoint has started Caddy from it.                           *)

Init ==
    /\ proxies = [p \in ProxyIDs |-> Absent]
    /\ side = DefaultSide
    /\ file = InitialConfig
    /\ live = InitialConfig
    /\ pc = [w \in Workers |-> "idle"]
    /\ cfg = [w \in Workers |-> NoConfig]
    /\ rd = [w \in Workers |-> NoConfig]
    /\ status = [IsSyncing |-> FALSE, LastSyncSuccess |-> TRUE]
    /\ abandoned = FALSE
    /\ calm = FALSE

----------------------------------------------------------------------------
(* The database, written by request handlers one committed row at a time.  *)

DbWrite ==
    /\ ~calm
    /\ \E p \in ProxyIDs, r \in Row \cup {Absent} :
          /\ r # proxies[p]
          /\ proxies' = [proxies EXCEPT ![p] = r]
          /\ HostnamesUnique'
    /\ UNCHANGED <<side, file, live, pc, cfg, rd, status, abandoned, calm>>

SideWrite ==
    /\ ~calm
    /\ \E s \in Sides : s # side /\ side' = s
    /\ UNCHANGED <<proxies, file, live, pc, cfg, rd, status, abandoned, calm>>

\* The environment stops interfering: what every liveness claim is about.
CalmDown ==
    /\ ~calm
    /\ calm' = TRUE
    /\ UNCHANGED <<proxies, side, file, live, pc, cfg, rd, status, abandoned>>

----------------------------------------------------------------------------
(* FullSync *)

\* Mutant of FullSyncBegin: the flag is set but not looked at.
FullSyncBeginUnguarded(w) ==
    /\ w \in Syncers
    /\ pc[w] = "idle"
    /\ BuildLockFree
    /\ status' = [status EXCEPT !.IsSyncing = TRUE]
    /\ pc' = [pc EXCEPT ![w] = "build"]
    /\ UNCHANGED <<proxies, side, file, live, cfg, rd, abandoned, calm>>

\* With IsSyncing set, FullSync returns "sync already in progress" and
\* changes nothing, hence the guard.
FullSyncBegin(w) ==
    /\ w \in Syncers
    /\ pc[w] = "idle"
    /\ BuildLockFree
    /\ ~status.IsSyncing
    /\ status' = [status EXCEPT !.IsSyncing = TRUE]
    /\ pc' = [pc EXCEPT ![w] = "build"]
    /\ UNCHANGED <<proxies, side, file, live, cfg, rd, abandoned, calm>>

\* The outcome is recorded in one critical section of s.mu ...
FullSyncRecord(w) ==
    /\ w \in Syncers
    /\ pc[w] \in {"ok", "err"}
    /\ BuildLockFree
    /\ status' = [status EXCEPT !.LastSyncSuccess = (pc[w] = "ok")]
    /\ pc' = [pc EXCEPT ![w] = "release"]
    /\ UNCHANGED <<proxies, side, file, live, cfg, rd, abandoned, calm>>

\* Mutant of FullSyncRelease: the error return forgets to clear the flag.
FullSyncReleaseOnSuccess(w) ==
    /\ w \in Syncers
    /\ pc[w] = "release"
    /\ BuildLockFree
    /\ status' = [status EXCEPT !.IsSyncing = ~status.LastSyncSuccess]
    /\ pc' = [pc EXCEPT ![w] = "idle"]
    /\ UNCHANGED <<proxies, side, file, live, cfg, rd, abandoned, calm>>

\* ... and the flag cleared by the deferred function in another.
FullSyncRelease(w) ==
    /\ w \in Syncers
    /\ pc[w] = "release"
    /\ BuildLockFree
    /\ status' = [status EXCEPT !.IsSyncing = FALSE]
    /\ pc' = [pc EXCEPT ![w] = "idle"]
    /\ UNCHANGED <<proxies, side, file, live, cfg, rd, abandoned, calm>>

\* SyncProxy, SyncProxyByID, RemoveProxy, EnableProxy, DisableProxy and
\* UpdateCatchAll all go straight to performFullSyncJSON.
HandlerBegin(w) ==
    /\ w \in Handlers
    /\ pc[w] = "idle"
    /\ pc' = [pc EXCEPT ![w] = "build"]
    /\ UNCHANGED <<proxies, side, file, live, cfg, rd, status, abandoned, calm>>

HandlerReturn(w) ==
    /\ w \in Handlers
    /\ pc[w] \in {"ok", "err"}
    /\ pc' = [pc EXCEPT ![w] = "idle"]
    /\ UNCHANGED <<proxies, side, file, live, cfg, rd, status, abandoned, calm>>

----------------------------------------------------------------------------
(* performFullSyncJSON, one action per step that other workers can see.    *)

\* s.mu.Lock, then proxyRepo.List: the first of several reads, in no
\* transaction.  cfg holds the rows until the rest has been read.
BuildProxies(w) ==
    /\ pc[w] = "build"
    /\ BuildLockFree
    /\ cfg' = [cfg EXCEPT ![w] = [routes |-> HTTPRoutes(proxies), side |-> DefaultSide, order |-> 1]]
    /\ pc' = [pc EXCEPT ![w] = "rest"]
    /\ UNCHANGED <<proxies, side, file, live, rd, status, abandoned, calm>>

\* Listing the proxies fails, or, at the end, the builder does.
BuildFails(w) ==
    /\ MayFail("db")
    /\ \/ pc[w] = "build" /\ BuildLockFree
       \/ pc[w] = "rest"
    /\ cfg' = [cfg EXCEPT ![w] = NoConfig]
    /\ pc' = [pc EXCEPT ![w] = "err"]
    /\ UNCHANGED <<proxies, side, file, live, rd, status, abandoned, calm>>

\* The remaining tables are read, the config is built, s.mu is released.
BuildRest(w) ==
    /\ pc[w] = "rest"
    /\ \E o \in OrdersOf(side) :
          cfg' = [cfg EXCEPT ![w] = [routes |-> cfg[w].routes, side |-> side, order |-> o]]
    /\ pc' = [pc EXCEPT ![w] = "compare"]
    /\ UNCHANGED <<proxies, side, file, live, rd, status, abandoned, calm>>

\* A failed read of settings, ACL groups or L4 proxies is only logged: the
\* build goes on without that part.
BuildRestDegraded(w) ==
    /\ MayFail("side")
    /\ pc[w] = "rest"
    /\ pc' = [pc EXCEPT ![w] = "compare"]
    /\ UNCHANGED <<proxies, side, file, live, cfg, rd, status, abandoned, calm>>

\* Mutants of Compare: one looks at the routes alone, one only for routes that
\* the file does not have yet.
CompareWith(w, same) ==
    /\ pc[w] = "compare"
    /\ pc' = [pc EXCEPT ![w] = IF same THEN "ok" ELSE "write"]
    /\ cfg' = [cfg EXCEPT ![w] = IF same THEN NoConfig ELSE cfg[w]]
    /\ UNCHANGED <<proxies, side, file, live, rd, status, abandoned, calm>>
CompareRoutes(w) == CompareWith(w, file.routes = cfg[w].routes)
CompareAdditions(w) == CompareWith(w, cfg[w].routes \subseteq file.routes)

\* ConfigChanged: an unchanged file means nothing to do, and no reload.
Compare(w) ==
    /\ pc[w] = "compare"
    /\ IF file = cfg[w]
         THEN /\ pc' = [pc EXCEPT ![w] = "ok"]
              /\ cfg' = [cfg EXCEPT ![w] = NoConfig]
         ELSE /\ pc' = [pc EXCEPT ![w] = "write"]
              /\ UNCHANGED cfg
    /\ UNCHANGED <<proxies, side, file, live, rd, status, abandoned, calm>>

\* When the file cannot be read, the code assumes that it changed.
CompareFails(w) ==
    /\ MayFail("compare")
    /\ pc[w] = "compare"
    /\ pc' = [pc EXCEPT ![w] = "write"]
    /\ UNCHANGED <<proxies, side, file, live, cfg, rd, status, abandoned, calm>>

\* Mutant of Write: the built bytes outlive the write.
WriteKeepsBuild(w) ==
    /\ pc[w] = "write"
    /\ file' = cfg[w]
    /\ pc' = [pc EXCEPT ![w] = "validate"]
    /\ UNCHANGED <<proxies, side, live, cfg, rd, status, abandoned, calm>>

\* Backup and clean-up (their errors are ignored), then the atomic write.
Write(w) ==
    /\ pc[w] = "write"
    /\ file' = cfg[w]
    /\ cfg' = [cfg EXCEPT ![w] = NoConfig]
    /\ pc' = [pc EXCEPT ![w] = "validate"]
    /\ UNCHANGED <<proxies, side, live, rd, status, abandoned, calm>>

WriteFails(w) ==
    /\ MayFail("write")
    /\ pc[w] = "write"
    /\ cfg' = [cfg EXCEPT ![w] = NoConfig]
    /\ pc' = [pc EXCEPT ![w] = "err"]
    /\ UNCHANGED <<proxies, side, file, live, rd, status, abandoned, calm>>

\* Giving up after the write: the file stays as it was written.
GiveUp(w) ==
    /\ pc' = [pc EXCEPT ![w] = "err"]
    /\ rd' = [rd EXCEPT ![w] = NoConfig]
    /\ abandoned' = TRUE
    /\ UNCHANGED <<proxies, side, file, live, cfg, status, calm>>

\* ValidateJSON: `caddy validate` on whatever the file now holds, under r.mu.
Validate(w) ==
    /\ pc[w] = "validate"
    /\ ReloadLockFree
    /\ \/ /\ Accepted(file)
          /\ pc' = [pc EXCEPT ![w] = "reload"]
          /\ UNCHANGED <<proxies, side, file, live, cfg, rd, status, abandoned, calm>>
       \/ /\ ~Accepted(file) \/ MayFail("exec")
          /\ GiveUp(w)

\* ReloadJSON takes r.mu and validates once more ...
Reload(w) ==
    /\ pc[w] = "reload"
    /\ ReloadLockFree
    /\ \/ /\ Accepted(file)
          /\ pc' = [pc EXCEPT ![w] = "read"]
          /\ UNCHANGED <<proxies, side, file, live, cfg, rd, status, abandoned, calm>>
       \/ /\ ~Accepted(file) \/ MayFail("exec")
          /\ GiveUp(w)

\* ... reads the file, which another worker may have renamed since ...
ReadFile(w) ==
    /\ pc[w] = "read"
    /\ rd' = [rd EXCEPT ![w] = file]
    /\ pc' = [pc EXCEPT ![w] = "post"]
    /\ UNCHANGED <<proxies, side, file, live, cfg, status, abandoned, calm>>

\* Caddy has applied what w posted.
Applied(w) ==
    /\ live' = rd[w]
    /\ rd' = [rd EXCEPT ![w] = NoConfig]
    /\ abandoned' = (abandoned /\ rd[w] # file)
    /\ UNCHANGED <<proxies, side, file, cfg, status, calm>>

\* ... and posts it: status 200.
PostLoad(w) ==
    /\ pc[w] = "post"
    /\ live # NoConfig
    /\ Accepted(rd[w])
    /\ Applied(w)
    /\ pc' = [pc EXCEPT ![w] = "ok"]

\* Caddy is down, refuses the config, or the request never reaches it.
PostRejected(w) ==
    /\ pc[w] = "post"
    /\ live = NoConfig \/ ~Accepted(rd[w]) \/ MayFail("lost")
    /\ GiveUp(w)

\* Caddy loads the config but the answer misses the client's 30s timeout.
PostTimeout(w) ==
    /\ MayFail("timeout")
    /\ pc[w] = "post"
    /\ live # NoConfig
    /\ Accepted(rd[w])
    /\ Applied(w)
    /\ pc' = [pc EXCEPT ![w] = "err"]

----------------------------------------------------------------------------
(* The container: backend and Caddy live and die together (entrypoint.sh). *)

\* Everything in memory is gone; Caddy starts from the file, or cannot.
Reboot ==
    /\ live' = IF Accepted(file) THEN file ELSE NoConfig
    /\ abandoned' = ~Accepted(file)
    /\ pc' = [w \in Workers |-> "idle"]
    /\ cfg' = [w \in Workers |-> NoConfig]
    /\ rd' = [w \in Workers |-> NoConfig]
    /\ status' = [IsSyncing |-> FALSE, LastSyncSuccess |-> TRUE]
    /\ UNCHANGED <<proxies, side, file, calm>>

Crash == MayFail("crash") /\ Reboot

\* Caddy never came up: after its retries the entrypoint exits and the
\* container is started again.
EntrypointExit == live = NoConfig /\ Reboot

----------------------------------------------------------------------------

\* What a worker does on its own once it has begun.
Work(w) ==
    \/ FullSyncRecord(w) \/ FullSyncRelease(w)
    \/ BuildProxies(w) \/ BuildFails(w)
    \/ BuildRest(w) \/ BuildRestDegraded(w)
    \/ Compare(w) \/ CompareFails(w) \/ Write(w) \/ WriteFails(w)
    \/ Validate(w) \/ Reload(w) \/ ReadFile(w)
    \/ PostLoad(w) \/ PostRejected(w) \/ PostTimeout(w)

Step(w) == Work(w) \/ HandlerReturn(w)

Next ==
    \/ DbWrite \/ SideWrite \/ CalmDown
    \/ \E w \in Workers : FullSyncBegin(w) \/ HandlerBegin(w) \/ Step(w)
    \/ Crash \/ EntrypointExit

(***************************************************************************)
(* The ticker fires for ever: a tick starts a FullSync or finds one under  *)
(* way, so FullSyncs keep starting.  A started goroutine runs to its end.  *)
(* A worker waiting for s.mu or r.mu sees it free again and again, and     *)
(* Go's sync.Mutex hands a starving waiter the lock: strong fairness.      *)
(* Nothing obliges a client to send a request, or the environment to fail. *)
(***************************************************************************)
Fairness ==
    /\ SF_vars(\E w \in Syncers : FullSyncBegin(w))
    /\ \A w \in Workers : SF_vars(Step(w))

Spec == Init /\ [][Next]_vars
FairSpec == Spec /\ Fairness

----------------------------------------------------------------------------
(* Properties *)

\* The type of every variable; a worker holds a built config exactly from the
\* build to the write, and a read-back one exactly while it posts it.
TypeOK ==
    /\ TableTypeOK
    /\ side \in Sides
    /\ file \in Config
    /\ live \in Config \cup {NoConfig}
    /\ pc \in [Workers -> Control]
    /\ cfg \in [Workers -> Config \cup {NoConfig}]
    /\ rd \in [Workers -> Config \cup {NoConfig}]
    /\ status \in [IsSyncing : BOOLEAN, LastSyncSuccess : BOOLEAN]
    /\ abandoned \in BOOLEAN
    /\ calm \in BOOLEAN
    /\ \A w \in Workers :
          /\ cfg[w] # NoConfig <=> pc[w] \in {"rest", "compare", "write"}
          /\ rd[w] # NoConfig <=> pc[w] = "post"
          /\ pc[w] = "release" => w \in Syncers

\* A worker that has written the file and has still to read it back.
HasToReload(w) == pc[w] \in {"validate", "reload", "read"}

\* FullSync's guard: IsSyncing is set exactly while a FullSync is under way,
\* and at most one is.  Handler syncs are outside the guard.
FullSyncExclusive ==
    /\ status.IsSyncing <=> \E w \in Syncers : pc[w] # "idle"
    /\ \A v, w \in Syncers : pc[v] # "idle" /\ pc[w] # "idle" => v = w

\* The file reaches Caddy: whenever Caddy runs something else than the file
\* says, some worker is still going to load the file, or a sync gave up on it.
\* However handler syncs, the ticker and restarts interleave, an old config
\* read before another worker's write is never the last one posted.
FileReachesCaddy ==
    live = file \/ abandoned \/ \E w \in Workers : HasToReload(w) \/ rd[w] = file

\* Once the database is left alone and the environment behaves, the file
\* becomes and stays what the database calls for, and Caddy runs it unless a
\* sync had given up on exactly that file (see PeriodicReconciles).
Converges ==
    <>[](calm => file \in Wanted /\ (live = file \/ abandoned))

\* What README.md and DeleteProxy promise: whatever happened before, the
\* periodic sync brings Caddy back to the database.  The code does not: after a
\* failed reload the file already equals the build, Compare finds it unchanged
\* and no worker ever reloads it.
PeriodicReconciles == <>[](calm => live \in Wanted)

\* IsSyncing is never left set: a FullSync that started ends, whatever fails.
SyncEnds == status.IsSyncing ~> ~status.IsSyncing
============================================================================
