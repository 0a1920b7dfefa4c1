------------------------------ MODULE L4Proxy ------------------------------
(***************************************************************************)
(* Layer-4 (TCP/UDP) proxies: L4ProxyHandler, L4ProxyService and           *)
(* L4ProxyRepository.  A request reads, decides and writes in separate     *)
(* accesses without a lock; Update is a transaction around GORM's Save.    *)
(* None of these requests starts a sync: the next one, whoever asks for    *)
(* it, picks the table up.                                                 *)
(*                                                                         *)
(* A listening endpoint (port and protocol) is one value; a route is its   *)
(* pair of TLS switches.                                                   *)
(***************************************************************************)
EXTENDS Naturals, Sequences, FiniteSets

CONSTANTS
    Endpoints,      \* (listen_port, protocol)
    L4Inputs,       \* the rows requests may carry
    BulkLists,      \* the lists of ids bulk requests may carry
    MaxL4,          \* bound: rows ever created
    L4Handlers,     \* request goroutines
    NoL4,           \* no row, no request
    PageSize        \* l4ExportListLimit

Route == [terminate : BOOLEAN, passthrough : BOOLEAN]
L4Ids == 1 .. MaxL4
L4Row == [at : Endpoints, active : BOOLEAN, routes : SUBSET Route]

ASSUME L4Assumption ==
    /\ L4Inputs \subseteq L4Row /\ BulkLists \subseteq Seq(L4Ids) \ {<<>>}
    /\ MaxL4 \in Nat /\ PageSize \in Nat \ {0}
    /\ NoL4 \notin L4Row /\ NoL4 \notin L4Ids /\ NoL4 \notin L4Handlers

L4Points == {"idle", "load", "check", "store", "page", "find", "exported"}

VARIABLES
    l4,         \* table l4_proxies with its routes, by id
    l4Next,     \* the last id the sequence handed out
    l4pc, l4op, \* control point and operation of each request
    l4id,       \* the id it is about
    l4in,       \* proxy: the row it will write
    l4todo,     \* ids of a bulk request still to do
    exports,    \* ids an export has collected, its answer once it is done
    rowsRead, pagesRead,    \* len(exports) and page - 1
    total,      \* what List has counted for the next page
    there,      \* ghost: ids in the table since the export began
    moved       \* ghost: rows went since then, or came between a count and its page

l4Vars == <<l4, l4Next, l4pc, l4op, l4id, l4in, l4todo, exports, rowsRead, pagesRead,
            total, there, moved>>
exportVars == <<exports, rowsRead, pagesRead, total, there>>

Present == {i \in L4Ids : l4[i] # NoL4}
AtPort(e) == {i \in Present : l4[i].at = e}

L4Init ==
    /\ l4 = [i \in L4Ids |-> NoL4]
    /\ l4Next = 0
    /\ l4pc = [h \in L4Handlers |-> "idle"]
    /\ l4op = [h \in L4Handlers |-> "none"]
    /\ l4id = [h \in L4Handlers |-> NoL4]
    /\ l4in = [h \in L4Handlers |-> NoL4]
    /\ l4todo = [h \in L4Handlers |-> <<>>]
    /\ exports = [h \in L4Handlers |-> {}]
    /\ rowsRead = [h \in L4Handlers |-> 0]
    /\ pagesRead = [h \in L4Handlers |-> 0]
    /\ total = [h \in L4Handlers |-> 0]
    /\ there = [h \in L4Handlers |-> {}]
    /\ moved = [h \in L4Handlers |-> FALSE]

L4At(h, point) == l4pc[h] = point
L4Goto(h, point) == l4pc' = [l4pc EXCEPT ![h] = point]

Bulk == {"enable", "disable", "remove"}
L4Ops == {"none", "create", "update", "toggle", "delete", "export"} \cup Bulk

\* An operation has its answer, good or bad (the answers are not told apart); a
\* bulk request notes it and goes on with its next id, runL4Bulk.
L4Done(h) ==
    IF l4todo[h] # <<>>
    THEN /\ L4Goto(h, "load")
         /\ l4id' = [l4id EXCEPT ![h] = Head(l4todo[h])]
         /\ l4todo' = [l4todo EXCEPT ![h] = Tail(@)]
         /\ l4in' = [l4in EXCEPT ![h] = NoL4]
         /\ UNCHANGED l4op
    ELSE /\ L4Goto(h, "idle")
         /\ l4op' = [l4op EXCEPT ![h] = "none"]
         /\ l4id' = [l4id EXCEPT ![h] = NoL4]
         /\ l4in' = [l4in EXCEPT ![h] = NoL4]
         /\ UNCHANGED l4todo

\* The request was decoded, dtoToCreateL4ProxyRequest and its likes.
L4Begin(h, op, point) ==
    /\ L4At(h, "idle")
    /\ L4Goto(h, point)
    /\ l4op' = [l4op EXCEPT ![h] = op]
    /\ UNCHANGED <<l4, l4Next>>

\* Validate, of the proxy and its routes.
RouteValid(r) == ~(r.terminate /\ r.passthrough)
L4Valid(row) == \A r \in row.routes : RouteValid(r)

\* The columns is_active and tls_passthrough are declared default:true, and GORM
\* stores the default where a row to be inserted has the zero value.
Stored(routes) == {[terminate |-> r.terminate, passthrough |-> TRUE] : r \in routes}
Inserted(row) == [at |-> row.at, active |-> TRUE, routes |-> Stored(row.routes)]
Updated(row) == [at |-> row.at, active |-> row.active, routes |-> Stored(row.routes)]
-----------------------------------------------------------------------------
L4Create(h, row) ==
    /\ L4Begin(h, "create", "check")
    /\ l4in' = [l4in EXCEPT ![h] = row]
    /\ UNCHANGED <<l4id, l4todo, exportVars, moved>>

L4Request(h, op, id, row) ==
    /\ L4Begin(h, op, "load")
    /\ l4id' = [l4id EXCEPT ![h] = id]
    /\ l4in' = [l4in EXCEPT ![h] = row]
    /\ UNCHANGED <<l4todo, exportVars, moved>>

\* BulkEnable, BulkDisable, BulkDelete; an id may be named twice.
L4Bulk(h, op, ids) ==
    /\ L4Begin(h, op, "load")
    /\ l4id' = [l4id EXCEPT ![h] = Head(ids)]
    /\ l4todo' = [l4todo EXCEPT ![h] = Tail(ids)]
    /\ UNCHANGED <<l4in, exportVars, moved>>

\* What SetActive and ToggleActive make of the row they read.
Switched(op, row) ==
    [at |-> row.at, routes |-> row.routes,
     active |-> CASE op = "toggle" -> ~row.active [] op = "enable" -> TRUE
                  [] op = "disable" -> FALSE [] OTHER -> row.active]

\* GetByID, which may fail or find nothing.  Update validates what it will write
\* and goes on to the port check only if the endpoint changes.
L4Load(h) ==
    /\ L4At(h, "load")
    /\ \/ L4Done(h)
       \/ /\ l4[l4id[h]] # NoL4
          /\ l4op[h] = "update" => L4Valid(l4in[h])
          /\ L4Goto(h, IF l4op[h] = "update" /\ l4in[h].at # l4[l4id[h]].at
                       THEN "check" ELSE "store")
          /\ l4in' = [l4in EXCEPT ![h] =
                         IF l4op[h] = "update" THEN @ ELSE Switched(l4op[h], l4[l4id[h]])]
          /\ UNCHANGED <<l4op, l4id, l4todo>>
    /\ UNCHANGED <<l4, l4Next, exportVars, moved>>

\* Validate (in Create) and checkPortConflict.
L4Check(h) ==
    /\ L4At(h, "check")
    /\ \/ L4Done(h)
       \/ /\ L4Valid(l4in[h]) /\ AtPort(l4in[h].at) \ {l4id[h]} = {}
          /\ L4Goto(h, "store")
          /\ UNCHANGED <<l4op, l4id, l4in, l4todo>>
    /\ UNCHANGED <<l4, l4Next, exportVars, moved>>

\* The table changes under the exports.
Moves ==
    moved' = [g \in L4Handlers |-> \/ moved[g]
                                   \/ L4At(g, "page") /\ ~(Present \subseteq Present')
                                   \/ L4At(g, "find") /\ Present # Present']

\* Mutant of L4Insert: no unique index.
L4InsertAny(h) ==
    /\ L4At(h, "store") /\ l4op[h] = "create" /\ l4Next < MaxL4
    /\ l4Next' = l4Next + 1
    /\ l4' = [l4 EXCEPT ![l4Next'] = Inserted(l4in[h])]
    /\ L4Done(h) /\ Moves
    /\ UNCHANGED exportVars

\* repo.Create: the sequence moves, the UNIQUE constraint may refuse the row.
L4Insert(h) ==
    /\ L4At(h, "store") /\ l4op[h] = "create" /\ l4Next < MaxL4
    /\ l4Next' = l4Next + 1
    /\ \/ /\ AtPort(l4in[h].at) = {}
          /\ l4' = [l4 EXCEPT ![l4Next'] = Inserted(l4in[h])]
       \/ l4' = l4
    /\ L4Done(h) /\ Moves
    /\ UNCHANGED exportVars

\* Mutant of L4Save: no foreign key.
L4SaveAny(h) ==
    /\ L4At(h, "store") /\ l4op[h] \in {"update", "toggle", "enable", "disable"}
    /\ AtPort(l4in[h].at) \ {l4id[h]} = {}
    /\ l4' = [l4 EXCEPT ![l4id[h]] = Updated(l4in[h])]
    /\ L4Done(h) /\ Moves
    /\ UNCHANGED <<l4Next, exportVars>>

\* The transaction of repo.Update: the routes are deleted, Save updates the row
\* and inserts the routes.  Where the row is gone Save inserts it again, unless it
\* has routes, which the foreign key refuses; an error rolls everything back.
\* The service's Update then reads the row again for its answer.
L4Save(h) ==
    /\ L4At(h, "store") /\ l4op[h] \in {"update", "toggle", "enable", "disable"}
    /\ LET i == l4id[h]
       IN  \/ /\ AtPort(l4in[h].at) \ {i} = {}
              /\ l4[i] = NoL4 => l4in[h].routes = {}
              /\ l4' = [l4 EXCEPT ![i] = IF @ = NoL4 THEN Inserted(l4in[h]) ELSE Updated(l4in[h])]
           \/ l4' = l4
    /\ L4Done(h) /\ Moves
    /\ UNCHANGED <<l4Next, exportVars>>

\* repo.Delete; a row that is gone already is no error.
L4Delete(h) ==
    /\ L4At(h, "store") /\ l4op[h] \in {"delete", "remove"}
    /\ l4' = [l4 EXCEPT ![l4id[h]] = NoL4] \/ l4' = l4
    /\ L4Done(h) /\ Moves
    /\ UNCHANGED <<l4Next, exportVars>>
-----------------------------------------------------------------------------
\* ExportL4Proxies of everything: page after page, newest first.
L4Export(h) ==
    /\ L4Begin(h, "export", "page")
    /\ there' = [there EXCEPT ![h] = Present]
    /\ UNCHANGED <<l4id, l4in, l4todo, exports, rowsRead, pagesRead, total, moved>>

\* The answer is sent, the rows if they were all read.
L4Answer(h) ==
    /\ L4Done(h)
    /\ exports' = [exports EXCEPT ![h] = {}]
    /\ rowsRead' = [rowsRead EXCEPT ![h] = 0]
    /\ pagesRead' = [pagesRead EXCEPT ![h] = 0]
    /\ total' = [total EXCEPT ![h] = 0]
    /\ there' = [there EXCEPT ![h] = {}]
    /\ moved' = [moved EXCEPT ![h] = FALSE]

\* List counts the rows first, in a query of its own, which may fail.
L4Count(h) ==
    /\ L4At(h, "page")
    /\ \/ /\ total' = [total EXCEPT ![h] = Cardinality(Present)]
          /\ L4Goto(h, "find")
          /\ UNCHANGED <<l4op, l4id, l4in, l4todo, exports, rowsRead, pagesRead, there, moved>>
       \/ L4Answer(h)
    /\ UNCHANGED <<l4, l4Next>>

\* The n newest of some rows, all of them where there are fewer.
Newest(rows, n) ==
    {S \in SUBSET rows :
        /\ \A i \in S, j \in rows \ S : j < i
        /\ Cardinality(S) = n \/ (S = rows /\ Cardinality(S) < n)}

\* The loop ends with an empty page or once as many rows are collected as were
\* counted.
\* Mutant of ExportEnds: one row short.
ExportEndsEarly(page, rows, counted) == page = {} \/ rows + 1 >= counted
ExportEnds(page, rows, counted) == page = {} \/ rows >= counted

\* List: ORDER BY, OFFSET and LIMIT, of the rows there are by now.
L4Find(h) ==
    /\ L4At(h, "find")
    /\ \/ \E skip \in Newest(Present, pagesRead[h] * PageSize) :
          \E page \in Newest(Present \ skip, PageSize) :
             /\ exports' = [exports EXCEPT ![h] = @ \cup page]
             /\ rowsRead' = [rowsRead EXCEPT ![h] = @ + Cardinality(page)]
             /\ pagesRead' = [pagesRead EXCEPT ![h] = @ + 1]
             /\ L4Goto(h, IF ExportEnds(page, rowsRead[h] + Cardinality(page), total[h])
                          THEN "exported" ELSE "page")
             /\ UNCHANGED <<l4op, l4id, l4in, l4todo, total, there, moved>>
       \/ L4Answer(h)
    /\ UNCHANGED <<l4, l4Next>>

L4Exported(h) == L4At(h, "exported") /\ L4Answer(h) /\ UNCHANGED <<l4, l4Next>>

L4Step(h) ==
    \/ \E row \in L4Inputs : L4Create(h, row)
    \/ \E i \in 1 .. l4Next :
          \/ \E row \in L4Inputs : L4Request(h, "update", i, row)
          \/ \E op \in {"toggle", "delete"} : L4Request(h, op, i, NoL4)
    \/ \E op \in Bulk, ids \in BulkLists : L4Bulk(h, op, ids)
    \/ L4Export(h)
    \/ L4Load(h) \/ L4Check(h) \/ L4Insert(h) \/ L4Save(h) \/ L4Delete(h)
    \/ L4Count(h) \/ L4Find(h) \/ L4Exported(h)

L4Steps == \E h \in L4Handlers : L4Step(h)

L4Spec == L4Init /\ [][L4Steps]_l4Vars
-----------------------------------------------------------------------------
\* Type correctness.
L4TypeOK ==
    /\ l4 \in [L4Ids -> L4Row \cup {NoL4}]
    /\ l4Next \in 0 .. MaxL4
    /\ l4pc \in [L4Handlers -> L4Points] /\ l4op \in [L4Handlers -> L4Ops]
    /\ l4id \in [L4Handlers -> L4Ids \cup {NoL4}] /\ l4in \in [L4Handlers -> L4Row \cup {NoL4}]
    /\ l4todo \in [L4Handlers -> Seq(L4Ids)]
    /\ exports \in [L4Handlers -> SUBSET L4Ids] /\ there \in [L4Handlers -> SUBSET L4Ids]
    /\ rowsRead \in [L4Handlers -> Nat] /\ pagesRead \in [L4Handlers -> Nat]
    /\ total \in [L4Handlers -> Nat] /\ moved \in [L4Handlers -> BOOLEAN]

\* No two rows listen on one endpoint, although creates, updates and saves of old
\* rows overlap between the port check and the write: two listeners on one port
\* would make Caddy refuse the whole configuration.
EndpointsUnique == \A i, j \in Present : l4[i].at = l4[j].at => i = j

\* A deleted proxy that had routes stays deleted: a save that read it before can
\* bring back no row with routes (and with them a listener that forwards).
RoutesNeverReturn ==
    [][\A i \in 1 .. l4Next : (l4[i] = NoL4 /\ l4'[i] # NoL4) => l4'[i].routes = {}]_l4Vars

\* An export that ends well has every row that was in the table from its first
\* page on, although rows are created and shift the pages meanwhile; only a
\* deletion can hide one, or a row that comes between the count and the rows of a
\* page.
ExportCovers ==
    \A h \in L4Handlers : (L4At(h, "exported") /\ ~moved[h]) => there[h] \subseteq exports[h]
=============================================================================
