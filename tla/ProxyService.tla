---------------------------- MODULE ProxyService ----------------------------
(***************************************************************************)
(* The request handlers that change proxies: CreateProxy, UpdateProxy,     *)
(* DeleteProxy, EnableProxy and DisableProxy of                            *)
(* backend/internal/service/proxy_service.go over the repository of        *)
(* repository/proxy_repository.go.                                         *)
(*                                                                         *)
(* No operation runs in a transaction: each repository call commits on its *)
(* own, and other requests run between any two of them.  The call into the *)
(* sync service is left open here (SyncCall, SyncReturn); module ProxySync *)
(* closes it with the pipeline of SyncService.  A bulk operation or an     *)
(* import is one handler running these operations one after another.       *)
(*                                                                         *)
(* A request that does not pass Proxy.Validate returns before it touches   *)
(* anything, so requests carry valid rows only.                            *)
(***************************************************************************)
EXTENDS ProxyTable

CONSTANTS
    Handlers,   \* request goroutines
    DbFails     \* TRUE when a repository call may return an error

ASSUME DbFailsAssumption == DbFails \in BOOLEAN

Kinds == {"create", "update", "delete", "enable", "disable"}

\* row holds the fields the client sent (for "update" its active column is
\* ignored); id is Absent until a create has got its key.
Request == [kind : Kinds, id : ProxyIDs \cup {Absent}, row : Row \cup {Absent}]

\* Where a handler is; "removing" and "syncing" are inside the sync service.
Points == {"idle", "read", "check", "store", "remove", "removing", "sync", "syncing", "rollback"}

\* How its last request ended: refused before any write, done, failed with
\* what the code undoes undone, or failed with the undo failing as well.
Outcomes == {"none", "refused", "ok", "err", "stuck"}

VARIABLES
    used,       \* keys handed out by the id sequence, never reused
    hp,         \* control point of each handler
    req,        \* the request it works on, or worked on last
    seen,       \* existing: the row GetByID returned
    out,        \* how that request ended
    disturbed   \* history: somebody else wrote the row since it began

pvars == <<proxies, used, hp, req, seen, out, disturbed>>

NoRequest == [kind |-> "create", id |-> Absent, row |-> Absent]

Init ==
    /\ proxies = [p \in ProxyIDs |-> Absent]
    /\ used = {}
    /\ hp = [h \in Handlers |-> "idle"]
    /\ req = [h \in Handlers |-> NoRequest]
    /\ seen = [h \in Handlers |-> Absent]
    /\ out = [h \in Handlers |-> "none"]
    /\ disturbed = [h \in Handlers |-> FALSE]

----------------------------------------------------------------------------
(* Helpers *)

Goto(h, c) == hp' = [hp EXCEPT ![h] = c] /\ UNCHANGED out

Finish(h, o) == hp' = [hp EXCEPT ![h] = "idle"] /\ out' = [out EXCEPT ![h] = o]

\* Commit row p on behalf of h.
Commit(h, p, r) ==
    /\ proxies' = [proxies EXCEPT ![p] = r]
    /\ disturbed' = [g \in Handlers |-> disturbed[g] \/ (g # h /\ req[g].id = p)]

NoCommit == UNCHANGED <<proxies, disturbed>>

\* UpdateStatus: UPDATE ... WHERE id, which does nothing to a missing row.
StatusRow(p, a) == IF proxies[p] = Absent THEN Absent ELSE [proxies[p] EXCEPT !.active = a]

\* The row UpdateProxy saves: the client's, with is_active as it was read.
UpdatedRow(h) == [req[h].row EXCEPT !.active = seen[h].active]

----------------------------------------------------------------------------
(* A request arrives.  ProxyIDs bounds the number of proxies ever created. *)

Arrive(h) ==
    /\ hp[h] = "idle"
    /\ \/ \E r \in Row :
             /\ used # ProxyIDs
             /\ req' = [req EXCEPT ![h] = [kind |-> "create", id |-> Absent, row |-> r]]
             /\ hp' = [hp EXCEPT ![h] = "check"]
       \/ \E p \in used, r \in Row :
             /\ ~r.active
             /\ req' = [req EXCEPT ![h] = [kind |-> "update", id |-> p, row |-> r]]
             /\ hp' = [hp EXCEPT ![h] = "read"]
       \/ \E p \in used, k \in {"delete", "enable", "disable"} :
             /\ req' = [req EXCEPT ![h] = [kind |-> k, id |-> p, row |-> Absent]]
             /\ hp' = [hp EXCEPT ![h] = "read"]
    /\ seen' = [seen EXCEPT ![h] = Absent]
    /\ out' = [out EXCEPT ![h] = "none"]
    /\ disturbed' = [disturbed EXCEPT ![h] = FALSE]
    /\ UNCHANGED <<proxies, used>>

\* GetByID, and the decisions taken on the row it returns.
GetByID(h) ==
    /\ hp[h] = "read"
    /\ LET r == proxies[req[h].id] k == req[h].kind IN
       /\ seen' = [seen EXCEPT ![h] = r]
       /\ IF \/ r = Absent
             \/ k = "enable" /\ r.active
             \/ k = "disable" /\ ~r.active
            THEN Finish(h, "refused")
            ELSE Goto(h, IF k = "update" /\ req[h].row.host # r.host THEN "check" ELSE "store")
    /\ NoCommit
    /\ UNCHANGED <<used, req>>

\* HostnameExists: the answer may be stale when the row is stored.
HostnameExists(h) ==
    /\ hp[h] = "check"
    /\ IF Taken(req[h].row.host, req[h].id)
         THEN Finish(h, "refused")
         ELSE Goto(h, "store")
    /\ NoCommit
    /\ UNCHANGED <<used, req, seen>>

\* Mutants of CreateStore: no UNIQUE(hostname); the new key not taken over from
\* the INSERT.
CreateStoreUnchecked(h) ==
    /\ hp[h] = "store" /\ req[h].kind = "create"
    /\ \E p \in ProxyIDs \ used :
          /\ Commit(h, p, req[h].row)
          /\ used' = used \cup {p}
          /\ req' = [req EXCEPT ![h].id = p]
    /\ Goto(h, "sync")
    /\ UNCHANGED seen
CreateStoreNoKey(h) ==
    /\ hp[h] = "store" /\ req[h].kind = "create"
    /\ ~Taken(req[h].row.host, Absent)
    /\ \E p \in ProxyIDs \ used :
          /\ Commit(h, p, req[h].row)
          /\ used' = used \cup {p}
    /\ Goto(h, "sync")
    /\ UNCHANGED <<req, seen>>

\* repo.Create: INSERT under a fresh key, refused by UNIQUE(hostname).
CreateStore(h) ==
    /\ hp[h] = "store" /\ req[h].kind = "create"
    /\ IF Taken(req[h].row.host, Absent)
         THEN Finish(h, "refused") /\ NoCommit /\ UNCHANGED <<used, req>>
         ELSE \E p \in ProxyIDs \ used :
                 /\ Commit(h, p, req[h].row)
                 /\ used' = used \cup {p}
                 /\ req' = [req EXCEPT ![h].id = p]
                 /\ Goto(h, "sync")
    /\ UNCHANGED seen

\* repo.Update is GORM's Save: every column is written, and a row that is gone
\* is inserted again.
UpdateStore(h) ==
    /\ hp[h] = "store" /\ req[h].kind = "update"
    /\ IF Taken(req[h].row.host, req[h].id)
         THEN Finish(h, "refused") /\ NoCommit
         ELSE /\ Commit(h, req[h].id, UpdatedRow(h))
              /\ Goto(h, IF seen[h].host # req[h].row.host THEN "remove" ELSE "sync")
    /\ UNCHANGED <<used, req, seen>>

DeleteStore(h) ==
    /\ hp[h] = "store" /\ req[h].kind = "delete"
    /\ Commit(h, req[h].id, Absent)
    /\ Goto(h, "sync")
    /\ UNCHANGED <<used, req, seen>>

StatusStore(h) ==
    /\ hp[h] = "store" /\ req[h].kind \in {"enable", "disable"}
    /\ Commit(h, req[h].id, StatusRow(req[h].id, req[h].kind = "enable"))
    /\ Goto(h, "sync")
    /\ UNCHANGED <<used, req, seen>>

\* A repository call before the write, or the write itself, returns an error.
DbError(h) ==
    /\ DbFails
    /\ hp[h] \in {"read", "check", "store"}
    /\ Finish(h, "refused")
    /\ NoCommit
    /\ UNCHANGED <<used, req, seen>>

\* Into the sync service.  A renamed proxy is synced twice.
SyncCall(h) ==
    /\ \/ hp[h] = "remove" /\ Goto(h, "removing")
       \/ hp[h] = "sync" /\ Goto(h, "syncing")
    /\ NoCommit
    /\ UNCHANGED <<used, req, seen>>

\* Mutant of SyncReturn: nothing is undone.
SyncReturnNoUndo(h, ok) ==
    /\ \/ hp[h] = "removing" /\ Goto(h, "sync")
       \/ hp[h] = "syncing" /\ Finish(h, IF ok THEN "ok" ELSE "err")
    /\ NoCommit
    /\ UNCHANGED <<used, req, seen>>

\* Back from it.  The first sync of a rename is best effort.  Create and
\* enable undo their write, update reports the error, delete and disable
\* report success.
SyncReturn(h, ok) ==
    /\ \/ hp[h] = "removing" /\ Goto(h, "sync")
       \/ hp[h] = "syncing" /\ (ok \/ req[h].kind \in {"delete", "disable"}) /\ Finish(h, "ok")
       \/ hp[h] = "syncing" /\ ~ok /\ req[h].kind = "update" /\ Finish(h, "err")
       \/ hp[h] = "syncing" /\ ~ok /\ req[h].kind \in {"create", "enable"} /\ Goto(h, "rollback")
    /\ NoCommit
    /\ UNCHANGED <<used, req, seen>>

\* Delete what was created, or switch off what was switched on.
Rollback(h) ==
    /\ hp[h] = "rollback"
    /\ Commit(h, req[h].id, IF req[h].kind = "create" THEN Absent ELSE StatusRow(req[h].id, FALSE))
    /\ Finish(h, "err")
    /\ UNCHANGED <<used, req, seen>>

RollbackFails(h) ==
    /\ DbFails
    /\ hp[h] = "rollback"
    /\ Finish(h, "stuck")
    /\ NoCommit
    /\ UNCHANGED <<used, req, seen>>

----------------------------------------------------------------------------

\* The backend restarts: requests in flight are gone, rows are not.
Restart ==
    /\ hp' = [h \in Handlers |-> "idle"]
    /\ req' = [h \in Handlers |-> NoRequest]
    /\ seen' = [h \in Handlers |-> Absent]
    /\ out' = [h \in Handlers |-> "none"]
    /\ disturbed' = [h \in Handlers |-> FALSE]
    /\ UNCHANGED <<proxies, used>>

\* Everything a handler does outside the sync service.
DbStep(h) ==
    \/ GetByID(h) \/ HostnameExists(h)
    \/ CreateStore(h) \/ UpdateStore(h) \/ DeleteStore(h) \/ StatusStore(h)
    \/ Rollback(h) \/ DbError(h) \/ RollbackFails(h)

Next ==
    \/ \E h \in Handlers : \/ Arrive(h) \/ DbStep(h) \/ SyncCall(h)
                           \/ \E ok \in BOOLEAN : SyncReturn(h, ok)
    \/ Restart

Spec == Init /\ [][Next]_pvars

----------------------------------------------------------------------------
(* Properties *)

\* The type of every variable; a handler past its first read knows the row it
\* read and works under the key of that row.
PTypeOK ==
    /\ TableTypeOK
    /\ used \subseteq ProxyIDs
    /\ hp \in [Handlers -> Points]
    /\ req \in [Handlers -> Request]
    /\ seen \in [Handlers -> Row \cup {Absent}]
    /\ out \in [Handlers -> Outcomes]
    /\ disturbed \in [Handlers -> BOOLEAN]
    /\ \A p \in ProxyIDs : proxies[p] # Absent => p \in used
    /\ \A h \in Handlers :
          /\ req[h].kind # "create" => req[h].id \in used
          /\ req[h].kind \in {"create", "update"} /\ hp[h] # "idle" => req[h].row \in Row
          /\ req[h].kind = "create" => /\ hp[h] \notin {"read", "remove", "removing"}
                                       /\ hp[h] \in {"check", "store"} => req[h].id = Absent
          /\ hp[h] \in {"sync", "syncing", "rollback"} => req[h].id \in used
          /\ req[h].kind # "create" /\ hp[h] \notin {"idle", "read"} => seen[h] \in Row

\* The row a request is answerable for once it has ended as o, provided nobody
\* else wrote that row meanwhile.
Promised(h, o) ==
    CASE req[h].kind = "create"  -> IF o = "err" THEN Absent ELSE req[h].row
      [] req[h].kind = "update"  -> IF o = "refused" THEN seen[h] ELSE UpdatedRow(h)
      [] req[h].kind = "delete"  -> IF o = "refused" THEN seen[h] ELSE Absent
      [] req[h].kind = "enable"  -> IF o \in {"ok", "stuck"} THEN [seen[h] EXCEPT !.active = TRUE] ELSE seen[h]
      [] req[h].kind = "disable" -> IF o = "ok" THEN [seen[h] EXCEPT !.active = FALSE] ELSE seen[h]

\* What the client was told is what the table holds: a refused request changed
\* nothing, a create or an enable whose sync failed was undone, a delete or a
\* disable is final whatever the sync did, and only an update whose sync failed
\* (or an undo that failed too) leaves a change behind an error.
AnswerMatchesTable ==
    \A h \in Handlers :
        /\ out[h] # "none"
        /\ ~disturbed[h]
        /\ req[h].id # Absent
        /\ out[h] = "refused" => seen[h] # Absent
        => proxies[req[h].id] = Promised(h, out[h])
============================================================================
