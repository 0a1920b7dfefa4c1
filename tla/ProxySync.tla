----------------------------- MODULE ProxySync -----------------------------
(***************************************************************************)
(* The proxy operations of ProxyService running on the pipeline of         *)
(* SyncService: the same table, the same handlers.  A handler's SyncCall   *)
(* is the start of its own performFullSyncJSON, and its SyncReturn carries *)
(* that pipeline's outcome; in between, the table is written by handlers   *)
(* only, one commit at a time.  The ticker and the manual triggers run     *)
(* beside them.                                                            *)
(***************************************************************************)
EXTENDS SyncService

CONSTANT DbFails    \* TRUE when a repository call may return an error

ASSUME JointAssumption == DbFails \in BOOLEAN

VARIABLES used, hp, req, seen, out, disturbed   \* see ProxyService

PS == INSTANCE ProxyService

handlerVars == <<used, hp, req, seen, out, disturbed>>
pipelineVars == <<side, file, live, pc, cfg, rd, status, abandoned, calm>>
jointVars == <<vars, handlerVars>>

JointInit == Init /\ PS!Init

----------------------------------------------------------------------------

\* A request, and what it does in the database, outside the pipeline.
Request(h) == ~calm /\ PS!Arrive(h) /\ UNCHANGED pipelineVars
Database(h) == PS!DbStep(h) /\ UNCHANGED pipelineVars

\* Mutants of SyncDone: the handler's pipeline is cut off half way; only success
\* comes back.
SyncDoneCut(h) ==
    /\ PS!SyncReturn(h, FALSE)
    /\ pc' = [pc EXCEPT ![h] = "idle"]
    /\ UNCHANGED <<side, file, live, cfg, rd, status, abandoned, calm>>
SyncDoneOnSuccess(h) == pc[h] = "ok" /\ PS!SyncReturn(h, TRUE) /\ HandlerReturn(h)

\* syncService.SyncProxy, RemoveProxy, EnableProxy or DisableProxy is called,
\* and comes back with an error or without.
CallSync(h) == PS!SyncCall(h) /\ HandlerBegin(h)
SyncDone(h) == PS!SyncReturn(h, pc[h] = "ok") /\ HandlerReturn(h)

\* The pipeline moves on: every worker's steps, settings changed by others.
Pipeline(w) == Work(w) /\ UNCHANGED handlerVars
Tick == (\E w \in Syncers : FullSyncBegin(w)) /\ UNCHANGED handlerVars
Settings == SideWrite /\ UNCHANGED handlerVars

\* The environment calms down once no request is under way.
Calm == (\A h \in Handlers : hp[h] = "idle") /\ CalmDown /\ UNCHANGED handlerVars

\* The container restarts: requests and syncs under way are gone.
Restart == (Crash \/ EntrypointExit) /\ PS!Restart

JointNext ==
    \/ \E h \in Handlers : Request(h) \/ Database(h) \/ CallSync(h) \/ SyncDone(h)
    \/ \E w \in Workers : Pipeline(w)
    \/ Tick \/ Settings \/ Calm \/ Restart

\* As in SyncService; a handler that is under way also runs to its end.
JointFairness ==
    /\ SF_jointVars(Tick)
    /\ \A w \in Workers : SF_jointVars(Pipeline(w))
    /\ \A h \in Handlers : WF_jointVars(Database(h) \/ CallSync(h) \/ SyncDone(h))

JointSpec == JointInit /\ [][JointNext]_jointVars
FairJointSpec == JointSpec /\ JointFairness

----------------------------------------------------------------------------
(* Properties *)

\* The handlers are what SyncService takes them for: every commit of theirs,
\* roll-backs included, is a DbWrite that keeps hostnames unique, and they
\* enter and leave the pipeline as its workers do.
SyncImplemented == Spec

\* Every request is answered: no sync or mutex holds a handler for ever.
RequestsEnd == \A h \in Handlers : hp[h] # "idle" ~> hp[h] = "idle"

\* "the row must be gone before we sync; otherwise the deleted proxy is
\* re-emitted into the config": when DeleteProxy's own sync has succeeded, Caddy
\* does not route the deleted hostname (unless another proxy took it over).  A
\* worker that listed the proxies before the delete can still write its config
\* after it, and either reload then loads that one.
DeletedNotServed ==
    \A h \in Handlers :
        /\ hp[h] = "syncing" /\ req[h].kind = "delete" /\ pc[h] = "ok"
        /\ \A p \in ProxyIDs : proxies[p] # Absent => proxies[p].host # seen[h].host
        => \A r \in live.routes : r.host # seen[h].host
============================================================================
