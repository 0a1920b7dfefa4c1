---------------------------- MODULE AclService ----------------------------
(***************************************************************************)
(* The administration of ACL groups: the handlers of                       *)
(* backend/internal/api/handlers/acl_handler.go and proxy_acl_handler.go   *)
(* with the operations of service/acl_service.go behind them.  Every       *)
(* database access is a step; between two of them other requests commit.   *)
(*                                                                         *)
(* IP rules, basic auth users and external providers are rows of a group   *)
(* that are added, changed and deleted one by one in the same way: they    *)
(* are the items below.  Waygates auth is one row per group.  Names,       *)
(* patterns and passwords decide nothing here: a request they fail ends    *)
(* without a change, as it does when the database returns an error.        *)
(*                                                                         *)
(* A change must reach Caddy: after its commit the handler asks for a sync *)
(* of the proxies concerned, each sync a rebuild of the whole              *)
(* configuration (SyncService has what becomes of it).  `asked' holds the  *)
(* tables as they were when a sync was last asked for.                     *)
(***************************************************************************)
CONSTANTS
    GroupIDs, ItemIDs, AssignIDs,   \* primary keys: none is handed out twice, so
                                    \* these sets bound the number of inserts
    ProxyIDs,   \* proxies
    Values,     \* contents of a row
    Modes,      \* combination modes
    Absent,     \* no such row, no such field in a request
    Admins,     \* request goroutines
    Kinds,      \* operations that are asked for
    DbFails     \* TRUE when a repository call may return an error

ItemKinds == {"addItem", "updateItem", "deleteItem"}
AssignKinds == {"assign", "updateAssign", "remove"}
AllKinds == {"createGroup", "updateGroup", "deleteGroup", "configure"} \cup ItemKinds \cup AssignKinds

Item == [group : GroupIDs, value : Values]
Assign == [proxy : ProxyIDs, group : GroupIDs, value : Values]
Tables == [groups : [GroupIDs -> Modes \cup {Absent}], items : [ItemIDs -> Item \cup {Absent}],
           waygates : [GroupIDs -> Values \cup {Absent}], assigns : [AssignIDs -> Assign \cup {Absent}]]

Request ==
    {r \in      [kind : {"createGroup"}, mode : Modes \cup {Absent}]
           \cup [kind : {"updateGroup"}, group : GroupIDs, mode : Modes \cup {Absent}]
           \cup [kind : {"deleteGroup"}, group : GroupIDs]
           \cup [kind : {"configure", "addItem"}, group : GroupIDs, value : Values]
           \cup [kind : {"updateItem"}, item : ItemIDs, value : Values]
           \cup [kind : {"deleteItem"}, item : ItemIDs]
           \cup [kind : {"assign"}, proxy : ProxyIDs, group : GroupIDs, value : Values]
           \cup [kind : {"updateAssign"}, proxy : ProxyIDs, assign : AssignIDs, value : Values]
           \cup [kind : {"remove"}, proxy : ProxyIDs, group : GroupIDs] : r.kind \in Kinds}

ASSUME AclKindsAssumption == Kinds \subseteq AllKinds /\ DbFails \in BOOLEAN
ASSUME AclAbsentAssumption == Absent \notin Item \cup Assign \cup Values \cup Modes

Points == {"idle", "load", "collect", "write", "usage", "reread", "sync"}

VARIABLES
    db,     \* the ACL tables
    used,   \* primary keys handed out
    ap,     \* control point of each request
    req,    \* the request, or Absent
    seen,   \* the tables it uses, as they were when it read them
    todo,   \* the proxies it has yet to sync
    asked,  \* history: the tables when a sync was last asked for
    drift   \* history: groups stored since by UpdateGroup, which asks for no
            \* sync, or by a request whose read before its sync failed

vars == <<db, used, ap, req, seen, todo, asked, drift>>

NoTables == [groups |-> [g \in GroupIDs |-> Absent], items |-> [i \in ItemIDs |-> Absent],
             waygates |-> [g \in GroupIDs |-> Absent], assigns |-> [a \in AssignIDs |-> Absent]]

Init ==
    /\ db = NoTables /\ used = {} /\ asked = NoTables /\ drift = {}
    /\ ap = [h \in Admins |-> "idle"]
    /\ req = [h \in Admins |-> Absent]
    /\ seen = [h \in Admins |-> NoTables]
    /\ todo = [h \in Admins |-> {}]

----------------------------------------------------------------------------
(* The tables *)

ItemsOf(d, g) == {i \in ItemIDs : d.items[i] # Absent /\ d.items[i].group = g}
AssignsOf(d, g) == {a \in AssignIDs : d.assigns[a] # Absent /\ d.assigns[a].group = g}
ProxiesOf(d, g) == {d.assigns[a].proxy : a \in AssignsOf(d, g)}

\* uq_proxy_acl_assignments_proxy_group
Assigned(p, g) == \E a \in AssignsOf(db, g) : db.assigns[a].proxy = p

\* DeleteGroupWithTx: the rows of all tables go together; what was inserted
\* after its DELETE of that table goes with the group (ON DELETE CASCADE).
DeleteGroupRows(g) ==
    [groups |-> [db.groups EXCEPT ![g] = Absent],
     items |-> [i \in ItemIDs |-> IF i \in ItemsOf(db, g) THEN Absent ELSE db.items[i]],
     waygates |-> [db.waygates EXCEPT ![g] = Absent],
     assigns |-> [a \in AssignIDs |-> IF a \in AssignsOf(db, g) THEN Absent ELSE db.assigns[a]]]

\* GORM's Save of a group that was read with its associations: the row is
\* updated, and an associated row that is gone by now is inserted again.
SaveGroup(g, m, s) ==
    [db EXCEPT !.groups[g] = m,
               !.items = [i \in ItemIDs |-> IF i \in ItemsOf(s, g) /\ db.items[i] = Absent
                                            THEN s.items[i] ELSE db.items[i]]]

----------------------------------------------------------------------------
(* A request, up to its write *)

Goto(h, p) == ap' = [ap EXCEPT ![h] = p]

\* The answer goes out.
Return(h) ==
    /\ Goto(h, "idle")
    /\ req' = [req EXCEPT ![h] = Absent]
    /\ seen' = [seen EXCEPT ![h] = NoTables]
    /\ todo' = [todo EXCEPT ![h] = {}]

Arrive(h) ==
    /\ ap[h] = "idle"
    /\ \E r \in Request : req' = [req EXCEPT ![h] = r]
    /\ Goto(h, "load")
    /\ UNCHANGED <<db, used, seen, todo, asked, drift>>

\* The row a request asks for exists: otherwise it answers "not found".
Found(r) ==
    \/ r.kind \in {"createGroup", "remove"}
    \/ r.kind \in {"updateItem", "deleteItem"} /\ db.items[r.item] # Absent
    \/ r.kind = "updateAssign" /\ db.assigns[r.assign] # Absent /\ db.assigns[r.assign].proxy = r.proxy
    \/ /\ r.kind \in {"updateGroup", "deleteGroup", "configure", "addItem", "assign"}
       /\ db.groups[r.group] # Absent

\* The tables whose rows it goes on to use, besides knowing that they exist.
Uses(kind) ==
    [groups |-> IF kind = "updateGroup" THEN db.groups ELSE NoTables.groups,
     items |-> IF kind \in {"updateGroup", "updateItem", "deleteItem"} THEN db.items ELSE NoTables.items,
     waygates |-> IF kind \in {"updateGroup", "configure"} THEN db.waygates ELSE NoTables.waygates,
     assigns |-> IF kind = "updateAssign" THEN db.assigns ELSE NoTables.assigns]

\* Some handlers read the row before the service does; its group is all they
\* use, and that never changes.
Load(h) ==
    /\ ap[h] = "load"
    /\ IF Found(req[h])
       THEN /\ Goto(h, IF req[h].kind = "deleteGroup" THEN "collect" ELSE "write")
            /\ seen' = [seen EXCEPT ![h] = Uses(req[h].kind)]
            /\ UNCHANGED <<req, todo>>
       ELSE Return(h)
    /\ UNCHANGED <<db, used, asked, drift>>

\* DeleteGroupWithSync, the first query of its transaction: the proxies that
\* use the group.  At READ COMMITTED it keeps nobody from assigning the group.
Collect(h) ==
    /\ ap[h] = "collect"
    /\ todo' = [todo EXCEPT ![h] = ProxiesOf(db, req[h].group)]
    /\ Goto(h, "write")
    /\ UNCHANGED <<db, used, req, seen, asked, drift>>

----------------------------------------------------------------------------
(* What each request writes: r is the request, s what it has read.  The guards   *)
(* are the constraints of the tables.                                        *)

CreateGroup(r) ==
    /\ r.kind = "createGroup"
    /\ \E g \in GroupIDs \ used, m \in Modes :
          r.mode \in {m, Absent} /\ db' = [db EXCEPT !.groups[g] = m]

\* Mutant of UpdateGroup: an empty combination mode is stored as it is.
UpdateGroupBlank(r, s) ==
    /\ r.kind = "updateGroup" /\ db.groups[r.group] # Absent
    /\ db' = SaveGroup(r.group, IF r.mode = Absent THEN "" ELSE r.mode, s)

\* Save inserts a group that is gone, unless it came with rows of other tables:
\* they are stored first and refer to a group that is not there.
UpdateGroup(r, s) ==
    /\ r.kind = "updateGroup"
    /\ \/ db.groups[r.group] # Absent
       \/ ItemsOf(s, r.group) = {} /\ s.waygates[r.group] = Absent
    /\ db' = SaveGroup(r.group, IF r.mode = Absent THEN s.groups[r.group] ELSE r.mode, s)

DeleteGroup(r) == r.kind = "deleteGroup" /\ db' = DeleteGroupRows(r.group)

AddItem(r) ==
    /\ r.kind = "addItem" /\ db.groups[r.group] # Absent
    /\ \E i \in ItemIDs \ used : db' = [db EXCEPT !.items[i] = [group |-> r.group, value |-> r.value]]

\* Save again: the row is inserted if it is gone, while its group is there.
UpdateItem(r, s) ==
    /\ r.kind = "updateItem" /\ db.groups[s.items[r.item].group] # Absent
    /\ db' = [db EXCEPT !.items[r.item] = [s.items[r.item] EXCEPT !.value = r.value]]

DeleteItem(r) == r.kind = "deleteItem" /\ db' = [db EXCEPT !.items[r.item] = Absent]

\* An update of the row it found, or the first row of the group.
ConfigureWaygatesAuth(r, s) ==
    /\ r.kind = "configure" /\ db.groups[r.group] # Absent
    /\ s.waygates[r.group] # Absent \/ db.waygates[r.group] = Absent
    /\ db' = [db EXCEPT !.waygates[r.group] = r.value]

AssignToProxy(r) ==
    /\ r.kind = "assign" /\ db.groups[r.group] # Absent
    /\ ~Assigned(r.proxy, r.group)
    /\ \E a \in AssignIDs \ used :
          db' = [db EXCEPT !.assigns[a] = [proxy |-> r.proxy, group |-> r.group, value |-> r.value]]

UpdateProxyAssignment(r, s) ==
    /\ r.kind = "updateAssign"
    /\ LET row == s.assigns[r.assign]
       IN  /\ db.groups[row.group] # Absent
           /\ db.assigns[r.assign] # Absent \/ ~Assigned(row.proxy, row.group)
           /\ db' = [db EXCEPT !.assigns[r.assign] = [row EXCEPT !.value = r.value]]

RemoveFromProxy(r) ==
    /\ r.kind = "remove"
    /\ db' = [db EXCEPT !.assigns = [a \in AssignIDs |->
                IF a \in AssignsOf(db, r.group) /\ db.assigns[a].proxy = r.proxy
                THEN Absent ELSE db.assigns[a]]]

Writes(r, s) ==
    \/ CreateGroup(r) \/ UpdateGroup(r, s) \/ DeleteGroup(r)
    \/ AddItem(r) \/ UpdateItem(r, s) \/ DeleteItem(r)
    \/ ConfigureWaygatesAuth(r, s)
    \/ AssignToProxy(r) \/ UpdateProxyAssignment(r, s) \/ RemoveFromProxy(r)

Keys(d) == {g \in GroupIDs : d.groups[g] # Absent} \cup {i \in ItemIDs : d.items[i] # Absent}
           \cup {a \in AssignIDs : d.assigns[a] # Absent}

\* Mutant of NextPoint: deleting an item forgets the proxies that use its group.
NextPointNoDelete(kind) ==
    IF kind \in {"createGroup", "updateGroup", "deleteItem"} THEN "idle"
    ELSE IF kind \in {"addItem", "updateItem", "configure"} THEN "usage"
    ELSE IF kind = "assign" THEN "reread" ELSE "sync"

\* What the handler does after the commit.
NextPoint(kind) ==
    IF kind \in {"createGroup", "updateGroup"} THEN "idle"
    ELSE IF kind \in ItemKinds \cup {"configure"} THEN "usage"
    ELSE IF kind = "assign" THEN "reread" ELSE "sync"

----------------------------------------------------------------------------
(* The rest of a request *)

\* The commit.  The assignment handlers go on to sync the proxy of their route.
Write(h) ==
    LET r == req[h]
    IN  /\ ap[h] = "write"
        /\ Writes(r, seen[h])
        /\ used' = used \cup Keys(db')
        /\ drift' = IF r.kind = "updateGroup" THEN drift \cup {r.group} ELSE drift
        /\ IF NextPoint(r.kind) = "idle"
           THEN Return(h)
           ELSE /\ Goto(h, NextPoint(r.kind))
                /\ todo' = IF r.kind \in AssignKinds THEN [todo EXCEPT ![h] = {r.proxy}] ELSE todo
                /\ UNCHANGED <<req, seen>>
        /\ UNCHANGED asked

\* Validation, a constraint or the database stops it: nothing is written.
WriteFails(h) ==
    /\ ap[h] = "write"
    /\ Return(h)
    /\ UNCHANGED <<db, used, asked, drift>>

GroupOf(h) == IF req[h].kind \in {"updateItem", "deleteItem"}
              THEN seen[h].items[req[h].item].group ELSE req[h].group

\* syncProxiesUsingGroup: the proxies that use the group by now.
Usage(h) ==
    /\ ap[h] = "usage"
    /\ todo' = [todo EXCEPT ![h] = ProxiesOf(db, GroupOf(h))]
    /\ Goto(h, "sync")
    /\ UNCHANGED <<db, used, req, seen, asked, drift>>

\* AssignACLToProxy reads the assignments again for its answer.
Reread(h) ==
    /\ ap[h] = "reread"
    /\ Goto(h, "sync")
    /\ UNCHANGED <<db, used, req, seen, todo, asked, drift>>

\* Either read may fail, and then there is no sync.
ReadFails(h) ==
    /\ DbFails /\ ap[h] \in {"usage", "reread"}
    /\ drift' = drift \cup {GroupOf(h)}
    /\ Return(h)
    /\ UNCHANGED <<db, used, asked>>

\* SyncProxyByID for the next proxy; an error is logged and the loop goes on.
Sync(h) ==
    /\ ap[h] = "sync"
    /\ IF todo[h] = {}
       THEN Return(h) /\ UNCHANGED <<asked, drift>>
       ELSE /\ \E p \in todo[h] : todo' = [todo EXCEPT ![h] = @ \ {p}]
            /\ asked' = db /\ drift' = {}
            /\ UNCHANGED <<ap, req, seen>>
    /\ UNCHANGED <<db, used>>

Next ==
    \E h \in Admins :
        \/ Arrive(h) \/ Load(h) \/ Collect(h) \/ Write(h) \/ WriteFails(h)
        \/ Usage(h) \/ Reread(h) \/ ReadFails(h) \/ Sync(h)

Spec == Init /\ [][Next]_vars

----------------------------------------------------------------------------
(* Properties *)

\* Every variable has its type: what UpdateGroup, ConfigureWaygatesAuth and the
\* other operations store is a row of its table.
ATypeOK ==
    /\ db \in Tables /\ asked \in Tables
    /\ used \subseteq GroupIDs \cup ItemIDs \cup AssignIDs
    /\ ap \in [Admins -> Points]
    /\ req \in [Admins -> Request \cup {Absent}]
    /\ seen \in [Admins -> Tables]
    /\ todo \in [Admins -> SUBSET ProxyIDs]
    /\ drift \subseteq GroupIDs

Quiet == \A h \in Admins : ap[h] = "idle"

\* "This ensures that changes to ACL group content (IP rules, basic auth, etc.)
\* are reflected in the Caddy configuration without requiring manual proxy
\* re-save" (acl_handler.go:44): when no request is under way, a sync has been
\* asked for since every assignment, and all content of its group, was stored;
\* whichever of two requests commits first, and whether or not the proxies were
\* collected before an assignment that commits meanwhile.  A group is excused
\* while UpdateGroup or a failed read has left it unsynced.
EditsSynced ==
    Quiet => \A a \in AssignIDs : db.assigns[a] # Absent /\ db.assigns[a].group \notin drift =>
        LET g == db.assigns[a].group
        IN  /\ asked.assigns[a] = db.assigns[a]
            /\ asked.groups[g] = db.groups[g] /\ asked.waygates[g] = db.waygates[g]
            /\ \A i \in ItemsOf(db, g) \cup ItemsOf(asked, g) : asked.items[i] = db.items[i]

\* "no new assignments can be created during this window" (acl_service.go:304):
\* when no request is under way, every assignment that the last sync put into
\* the configuration is still there.
RemovalsSynced ==
    Quiet => \A a \in AssignIDs : asked.assigns[a] # Absent => db.assigns[a] # Absent
============================================================================
