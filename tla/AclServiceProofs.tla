-------------------------- MODULE AclServiceProofs --------------------------
(***************************************************************************)
(* When the administrators are done, a sync has been asked for since every *)
(* change of an ACL group that is in use, for any number of them.          *)
(***************************************************************************)
EXTENDS AclService, TLAPS

\* Two copies of the tables give every row they both have the same owner: the
\* columns that say where a row belongs never change, and no key is used twice.
SameOwners(d, e) ==
    /\ \A i \in ItemIDs : d.items[i] # Absent /\ e.items[i] # Absent => d.items[i].group = e.items[i].group
    /\ \A a \in AssignIDs : d.assigns[a] # Absent /\ e.assigns[a] # Absent =>
          d.assigns[a].group = e.assigns[a].group

Copies == {db, asked} \cup {seen[h] : h \in Admins}

KeyInv ==
    /\ \A d \in Copies : Keys(d) \subseteq used
    /\ \A d, e \in Copies : SameOwners(d, e)

\* An assignment refers to a group that exists.
RefInv == \A a \in AssignIDs : db.assigns[a] # Absent => db.groups[db.assigns[a].group] # Absent

\* Where a request has got to says what it has found and what comes next.
PointOK(h) ==
    LET r == req[h]
        s == seen[h]
    IN  /\ ap[h] # "idle" => r \in Request
        /\ ap[h] = "collect" => r.kind = "deleteGroup"
        /\ ap[h] = "write" =>
              /\ r.kind = "updateGroup" => s.groups[r.group] # Absent
              /\ r.kind = "updateAssign" => s.assigns[r.assign] # Absent
        /\ ap[h] \in {"write", "usage"} /\ r.kind \in {"updateItem", "deleteItem"} =>
              s.items[r.item] # Absent
        /\ ap[h] = "usage" => r.kind \in ItemKinds \cup {"configure"}
        /\ ap[h] = "reread" => r.kind = "assign" /\ todo[h] # {}

\* The last sync saw assignment a and its group as they are.
Synced(a, g) ==
    /\ asked.assigns[a] = db.assigns[a]
    /\ asked.groups[g] = db.groups[g] /\ asked.waygates[g] = db.waygates[g]
    /\ \A i \in ItemIDs : /\ db.items[i] # Absent /\ db.items[i].group = g => asked.items[i] = db.items[i]
                          /\ asked.items[i] # Absent /\ asked.items[i].group = g => asked.items[i] = db.items[i]

\* A request that is bound to sync the proxies of group g, or to admit that it
\* could not.
Pending(h, g) ==
    \/ ap[h] \in {"usage", "reread"} /\ GroupOf(h) = g
    \/ ap[h] = "sync" /\ todo[h] # {}

PendingInv ==
    \A a \in AssignIDs : db.assigns[a] # Absent =>
        LET g == db.assigns[a].group
        IN  g \in drift \/ Synced(a, g) \/ \E h \in Admins : Pending(h, g)

AclInv == ATypeOK /\ KeyInv /\ RefInv /\ PendingInv /\ \A h \in Admins : PointOK(h)

----------------------------------------------------------------------------
(* Requests and tables *)

\* The fields of a request.
LEMMA RequestFields ==
    ASSUME NEW r \in Request
    PROVE  /\ r.kind \in AllKinds
           /\ r.kind \in {"createGroup", "updateGroup"} => r.mode \in Modes \cup {Absent}
           /\ r.kind \in {"updateGroup", "deleteGroup", "configure", "addItem", "assign", "remove"} =>
                 r.group \in GroupIDs
           /\ r.kind \in {"configure", "addItem", "updateItem", "assign", "updateAssign"} => r.value \in Values
           /\ r.kind \in {"updateItem", "deleteItem"} => r.item \in ItemIDs
           /\ r.kind \in AssignKinds => r.proxy \in ProxyIDs
           /\ r.kind = "updateAssign" => r.assign \in AssignIDs
  <1>0. r.kind \in AllKinds
    BY AclKindsAssumption DEF Request
  <1>1. CASE r \in [kind : {"createGroup"}, mode : Modes \cup {Absent}]
    BY <1>0, <1>1 DEF AssignKinds
  <1>2. CASE r \in [kind : {"updateGroup"}, group : GroupIDs, mode : Modes \cup {Absent}]
    BY <1>0, <1>2 DEF AssignKinds
  <1>3. CASE r \in [kind : {"deleteGroup"}, group : GroupIDs]
    BY <1>0, <1>3 DEF AssignKinds
  <1>4. CASE r \in [kind : {"configure", "addItem"}, group : GroupIDs, value : Values]
    BY <1>0, <1>4 DEF AssignKinds
  <1>5. CASE r \in [kind : {"updateItem"}, item : ItemIDs, value : Values]
    BY <1>0, <1>5 DEF AssignKinds
  <1>6. CASE r \in [kind : {"deleteItem"}, item : ItemIDs]
    BY <1>0, <1>6 DEF AssignKinds
  <1>7. CASE r \in [kind : {"assign"}, proxy : ProxyIDs, group : GroupIDs, value : Values]
    BY <1>0, <1>7 DEF AssignKinds
  <1>8. CASE r \in [kind : {"updateAssign"}, proxy : ProxyIDs, assign : AssignIDs, value : Values]
    BY <1>0, <1>8 DEF AssignKinds
  <1>9. CASE r \in [kind : {"remove"}, proxy : ProxyIDs, group : GroupIDs]
    BY <1>0, <1>9 DEF AssignKinds
  <1> QED
    BY <1>1, <1>2, <1>3, <1>4, <1>5, <1>6, <1>7, <1>8, <1>9 DEF Request

LEMMA NoTablesTyped == NoTables \in Tables
  BY DEF NoTables, Tables

\* The components of a tables record.
LEMMA TableTypes ==
    ASSUME NEW d \in Tables
    PROVE  /\ d.groups \in [GroupIDs -> Modes \cup {Absent}]
           /\ d.items \in [ItemIDs -> Item \cup {Absent}]
           /\ d.waygates \in [GroupIDs -> Values \cup {Absent}]
           /\ d.assigns \in [AssignIDs -> Assign \cup {Absent}]
           /\ \A i \in ItemIDs : d.items[i] # Absent => d.items[i] \in Item /\ d.items[i].group \in GroupIDs
           /\ \A a \in AssignIDs : d.assigns[a] # Absent =>
                 /\ d.assigns[a] \in Assign
                 /\ d.assigns[a].group \in GroupIDs /\ d.assigns[a].proxy \in ProxyIDs
  BY DEF Tables, Item, Assign

----------------------------------------------------------------------------
(* What a commit changes *)

\* The tables d differ from db in rows of group g only, wherever a request still
\* has a copy of them; and g exists in d or nothing is assigned to it.
Changes(g, d) ==
    /\ d \in Tables
    /\ \A x \in GroupIDs \ {g} : d.groups[x] = db.groups[x] /\ d.waygates[x] = db.waygates[x]
    /\ \A i \in ItemIDs : d.items[i] # db.items[i] =>
          \A e \in Copies \cup {d} : e.items[i] # Absent => e.items[i].group = g
    /\ \A a \in AssignIDs : d.assigns[a] # db.assigns[a] =>
          \A e \in Copies \cup {d} : e.assigns[a] # Absent => e.assigns[a].group = g
    /\ d.groups[g] # Absent \/ \A a \in AssignIDs : d.assigns[a] # Absent => d.assigns[a].group # g

LEMMA CopiesTyped ==
    ASSUME ATypeOK
    PROVE  /\ \A d \in Copies : d \in Tables
           /\ db \in Copies /\ asked \in Copies /\ \A h \in Admins : seen[h] \in Copies
  BY DEF ATypeOK, Copies

\* A key that was never handed out is in no copy.
LEMMA Fresh ==
    ASSUME KeyInv, NEW d \in Copies
    PROVE  /\ \A g \in GroupIDs \ used : d.groups[g] = Absent
           /\ \A i \in ItemIDs \ used : d.items[i] = Absent
           /\ \A a \in AssignIDs \ used : d.assigns[a] = Absent
  BY DEF KeyInv, Keys

\* The group a request is about.
Concerns(h) ==
    IF req[h].kind = "updateAssign" THEN seen[h].assigns[req[h].assign].group ELSE GroupOf(h)

\* Each operation's commit changes its own group only.
LEMMA WriteChanges ==
    ASSUME AclInv, NEW h \in Admins, ap[h] = "write", Writes(req[h], seen[h])
    PROVE  IF req[h].kind = "createGroup"
           THEN \E g \in GroupIDs : /\ Changes(g, db')
                                    /\ \A a \in AssignIDs : db'.assigns[a] # Absent => db'.assigns[a].group # g
           ELSE /\ Concerns(h) \in GroupIDs /\ Changes(Concerns(h), db')
                /\ req[h].kind = "deleteGroup" =>
                      \A a \in AssignIDs : db'.assigns[a] # Absent => db'.assigns[a].group # Concerns(h)
  <1> DEFINE r == req[h]
             s == seen[h]
  <1>1. /\ r \in Request /\ s \in Tables /\ db \in Tables /\ s \in Copies /\ db \in Copies
        /\ \A e \in Copies : e \in Tables
    BY CopiesTyped DEF AclInv, PointOK, ATypeOK
  <1>2. /\ r.kind = "updateGroup" => s.groups[r.group] # Absent
        /\ r.kind = "updateAssign" => s.assigns[r.assign] # Absent
        /\ r.kind \in {"updateItem", "deleteItem"} => s.items[r.item] # Absent
    BY DEF AclInv, PointOK
  <1>3. KeyInv /\ RefInv
    BY DEF AclInv
  <1>4. \A d, e \in Copies : SameOwners(d, e)
    BY <1>3 DEF KeyInv
  <1> HIDE DEF r, s
  <1>5. CASE CreateGroup(r)
    <2>1. PICK g \in GroupIDs \ used, m \in Modes : db' = [db EXCEPT !.groups[g] = m]
      BY <1>5 DEF CreateGroup
    <2>2. /\ db' \in Tables /\ db'.groups = [db.groups EXCEPT ![g] = m]
          /\ db'.items = db.items /\ db'.waygates = db.waygates /\ db'.assigns = db.assigns
      BY <1>1, <2>1 DEF Tables
    <2>3. m # Absent /\ db.groups[g] = Absent
      BY <1>1, <1>3, Fresh, AclAbsentAssumption
    <2>4. \A a \in AssignIDs : db'.assigns[a] # Absent => db'.assigns[a].group # g
      BY <1>3, <2>2, <2>3 DEF RefInv
    <2>5. Changes(g, db')
      BY <1>1, <2>2, <2>3, <2>4, TableTypes DEF Changes
    <2> QED
      BY <1>5, <2>4, <2>5 DEF CreateGroup, r
  <1>6. CASE UpdateGroup(r, s)
    <2> DEFINE g == r.group
               m == IF r.mode = Absent THEN s.groups[g] ELSE r.mode
    <2>1. r.kind = "updateGroup" /\ g \in GroupIDs /\ db' = SaveGroup(g, m, s)
      BY <1>1, <1>6, RequestFields DEF UpdateGroup
    <2>2. m \in Modes
      BY <1>1, <1>2, <2>1, RequestFields, TableTypes
    <2> HIDE DEF m
    <2>3. m # Absent
      BY <2>2, AclAbsentAssumption
    <2>4. \A i \in ItemIDs : IF i \in ItemsOf(s, g) /\ db.items[i] = Absent
                             THEN s.items[i] \in Item ELSE db.items[i] \in Item \cup {Absent}
      BY <1>1, TableTypes DEF ItemsOf
    <2>5. /\ db' \in Tables /\ db'.groups = [db.groups EXCEPT ![g] = m]
          /\ db'.waygates = db.waygates /\ db'.assigns = db.assigns
          /\ db'.items = [i \in ItemIDs |-> IF i \in ItemsOf(s, g) /\ db.items[i] = Absent
                                            THEN s.items[i] ELSE db.items[i]]
      BY <1>1, <2>1, <2>2, <2>4 DEF SaveGroup, Tables
    <2>6. \A i \in ItemIDs : db'.items[i] # db.items[i] =>
              /\ s.items[i] # Absent /\ s.items[i].group = g /\ db'.items[i] = s.items[i]
      BY <2>5 DEF ItemsOf
    <2>7. Changes(g, db')
      BY <1>1, <1>4, <2>1, <2>3, <2>5, <2>6, TableTypes DEF Changes, SameOwners
    <2>8. Concerns(h) = g
      BY <2>1 DEF Concerns, GroupOf, r
    <2> QED
      BY <2>1, <2>7, <2>8 DEF r
  <1>7. CASE DeleteGroup(r)
    <2> DEFINE g == r.group
    <2>1. r.kind = "deleteGroup" /\ g \in GroupIDs /\ db' = DeleteGroupRows(g)
      BY <1>1, <1>7, RequestFields DEF DeleteGroup
    <2>2. /\ db'.groups = [db.groups EXCEPT ![g] = Absent]
          /\ db'.waygates = [db.waygates EXCEPT ![g] = Absent]
          /\ db'.items = [i \in ItemIDs |-> IF i \in ItemsOf(db, g) THEN Absent ELSE db.items[i]]
          /\ db'.assigns = [a \in AssignIDs |-> IF a \in AssignsOf(db, g) THEN Absent ELSE db.assigns[a]]
          /\ db' \in Tables
      BY <1>1, <2>1 DEF DeleteGroupRows, Tables
    <2>3. \A a \in AssignIDs : db'.assigns[a] # Absent => db'.assigns[a].group # g
      BY <2>2 DEF AssignsOf
    <2>4. \A i \in ItemIDs : db'.items[i] # db.items[i] =>
              db.items[i] # Absent /\ db.items[i].group = g /\ db'.items[i] = Absent
      BY <2>2 DEF ItemsOf
    <2>5. \A a \in AssignIDs : db'.assigns[a] # db.assigns[a] =>
              db.assigns[a] # Absent /\ db.assigns[a].group = g /\ db'.assigns[a] = Absent
      BY <2>2 DEF AssignsOf
    <2>6. \A x \in GroupIDs \ {g} : db'.groups[x] = db.groups[x] /\ db'.waygates[x] = db.waygates[x]
      BY <1>1, <2>1, <2>2, TableTypes
    <2>7. Changes(g, db')
      BY <1>1, <1>4, <2>1, <2>2, <2>3, <2>4, <2>5, <2>6 DEF Changes, SameOwners
    <2>8. Concerns(h) = g
      BY <2>1 DEF Concerns, GroupOf, r
    <2> QED
      BY <2>1, <2>3, <2>7, <2>8 DEF r
  <1>c. ASSUME NEW g \in GroupIDs, NEW i \in ItemIDs, NEW x \in Item \cup {Absent}, x # Absent => x.group = g,
               \A e \in Copies : e.items[i] # Absent => e.items[i].group = g,
               db.groups[g] # Absent \/ x = Absent, db' = [db EXCEPT !.items[i] = x]
        PROVE  Changes(g, db')
    <2>1. /\ db' \in Tables /\ db'.items = [db.items EXCEPT ![i] = x]
          /\ db'.groups = db.groups /\ db'.waygates = db.waygates /\ db'.assigns = db.assigns
      BY <1>1, <1>c DEF Tables
    <2>2. \A j \in ItemIDs : db'.items[j] # db.items[j] => j = i /\ db'.items[j] = x
      BY <1>1, <2>1, TableTypes
    <2>3. db'.groups[g] # Absent \/ \A a \in AssignIDs : db'.assigns[a] # Absent => db'.assigns[a].group # g
      BY <1>3, <2>1 DEF RefInv
    <2> QED
      BY <1>c, <2>1, <2>2, <2>3 DEF Changes
  <1>8. CASE AddItem(r)
    <2>1. r.kind = "addItem" /\ db.groups[r.group] # Absent /\ r.group \in GroupIDs /\ r.value \in Values
      BY <1>1, <1>8, RequestFields DEF AddItem
    <2>2. PICK i \in ItemIDs \ used : db' = [db EXCEPT !.items[i] = [group |-> r.group, value |-> r.value]]
      BY <1>8 DEF AddItem
    <2>3. \A e \in Copies : e.items[i] = Absent
      BY <1>3, Fresh
    <2>4. [group |-> r.group, value |-> r.value] \in Item
      BY <2>1 DEF Item
    <2>5. Changes(r.group, db')
      BY <1>c, <2>1, <2>2, <2>3, <2>4
    <2>6. Concerns(h) = r.group
      BY <2>1 DEF Concerns, GroupOf, r
    <2> QED
      BY <2>1, <2>5, <2>6 DEF r
  <1>9. CASE UpdateItem(r, s)
    <2> DEFINE g == s.items[r.item].group
               x == [s.items[r.item] EXCEPT !.value = r.value]
    <2>1. r.kind = "updateItem" /\ r.item \in ItemIDs /\ r.value \in Values /\ db.groups[g] # Absent
      BY <1>1, <1>9, RequestFields DEF UpdateItem
    <2>2. s.items[r.item] \in Item /\ g \in GroupIDs
      BY <1>1, <1>2, <2>1, TableTypes
    <2>3. x \in Item /\ x.group = g
      BY <2>1, <2>2 DEF Item
    <2>4. \A e \in Copies : e.items[r.item] # Absent => e.items[r.item].group = g
      BY <1>1, <1>2, <1>4, <2>1 DEF SameOwners
    <2>5. db' = [db EXCEPT !.items[r.item] = x]
      BY <1>9 DEF UpdateItem
    <2> HIDE DEF x
    <2>6. Changes(g, db')
      BY <1>c, <2>1, <2>2, <2>3, <2>4, <2>5
    <2>7. Concerns(h) = g
      BY <2>1 DEF Concerns, GroupOf, r, s
    <2> QED
      BY <2>1, <2>2, <2>6, <2>7 DEF r
  <1>10. CASE DeleteItem(r)
    <2> DEFINE g == s.items[r.item].group
    <2>1. r.kind = "deleteItem" /\ r.item \in ItemIDs
      BY <1>1, <1>10, RequestFields DEF DeleteItem
    <2>2. g \in GroupIDs
      BY <1>1, <1>2, <2>1, TableTypes
    <2>3. \A e \in Copies : e.items[r.item] # Absent => e.items[r.item].group = g
      BY <1>1, <1>2, <1>4, <2>1 DEF SameOwners
    <2>4. db' = [db EXCEPT !.items[r.item] = Absent]
      BY <1>10 DEF DeleteItem
    <2>5. Changes(g, db')
      BY <1>c, <2>1, <2>2, <2>3, <2>4
    <2>6. Concerns(h) = g
      BY <2>1 DEF Concerns, GroupOf, r, s
    <2> QED
      BY <2>1, <2>2, <2>5, <2>6 DEF r
  <1>11. CASE ConfigureWaygatesAuth(r, s)
    <2>1. /\ r.kind = "configure" /\ r.group \in GroupIDs /\ r.value \in Values
          /\ db.groups[r.group] # Absent /\ db' = [db EXCEPT !.waygates[r.group] = r.value]
      BY <1>1, <1>11, RequestFields DEF ConfigureWaygatesAuth
    <2>2. /\ db' \in Tables /\ db'.waygates = [db.waygates EXCEPT ![r.group] = r.value]
          /\ db'.groups = db.groups /\ db'.items = db.items /\ db'.assigns = db.assigns
      BY <1>1, <2>1 DEF Tables
    <2>3. Changes(r.group, db')
      BY <1>1, <2>1, <2>2, TableTypes DEF Changes
    <2>4. Concerns(h) = r.group
      BY <2>1 DEF Concerns, GroupOf, r
    <2> QED
      BY <2>1, <2>3, <2>4 DEF r
  <1>d. ASSUME NEW g \in GroupIDs, NEW a \in AssignIDs, NEW x \in Assign, x.group = g,
               \A e \in Copies : e.assigns[a] # Absent => e.assigns[a].group = g,
               db.groups[g] # Absent, db' = [db EXCEPT !.assigns[a] = x]
        PROVE  Changes(g, db')
    <2>1. /\ db' \in Tables /\ db'.assigns = [db.assigns EXCEPT ![a] = x]
          /\ db'.groups = db.groups /\ db'.waygates = db.waygates /\ db'.items = db.items
      BY <1>1, <1>d DEF Tables
    <2>2. \A b \in AssignIDs : db'.assigns[b] # db.assigns[b] => b = a /\ db'.assigns[b] = x
      BY <1>1, <2>1, TableTypes
    <2> QED
      BY <1>d, <2>1, <2>2 DEF Changes
  <1>12. CASE AssignToProxy(r)
    <2>1. /\ r.kind = "assign" /\ db.groups[r.group] # Absent /\ r.group \in GroupIDs
          /\ r.value \in Values /\ r.proxy \in ProxyIDs
      BY <1>1, <1>12, RequestFields DEF AssignToProxy, AssignKinds
    <2> DEFINE x == [proxy |-> r.proxy, group |-> r.group, value |-> r.value]
    <2>2. PICK a \in AssignIDs \ used : db' = [db EXCEPT !.assigns[a] = x]
      BY <1>12 DEF AssignToProxy
    <2>3. \A e \in Copies : e.assigns[a] = Absent
      BY <1>3, Fresh
    <2>4. x \in Assign /\ x.group = r.group
      BY <2>1 DEF Assign
    <2> HIDE DEF x
    <2>5. Changes(r.group, db')
      BY <1>d, <2>1, <2>2, <2>3, <2>4
    <2>6. Concerns(h) = r.group
      BY <2>1 DEF Concerns, GroupOf, r
    <2> QED
      BY <2>1, <2>5, <2>6 DEF r
  <1>13. CASE UpdateProxyAssignment(r, s)
    <2> DEFINE row == s.assigns[r.assign]
               g == row.group
               x == [row EXCEPT !.value = r.value]
    <2>1. /\ r.kind = "updateAssign" /\ r.assign \in AssignIDs /\ r.value \in Values
          /\ db.groups[g] # Absent /\ db' = [db EXCEPT !.assigns[r.assign] = x]
      BY <1>1, <1>13, RequestFields DEF UpdateProxyAssignment
    <2>2. row \in Assign /\ g \in GroupIDs
      BY <1>1, <1>2, <2>1, TableTypes
    <2>3. x \in Assign /\ x.group = g
      BY <2>1, <2>2 DEF Assign
    <2>4. \A e \in Copies : e.assigns[r.assign] # Absent => e.assigns[r.assign].group = g
      BY <1>1, <1>2, <1>4, <2>1 DEF SameOwners
    <2> HIDE DEF x
    <2>5. Changes(g, db')
      BY <1>d, <2>1, <2>2, <2>3, <2>4
    <2>6. Concerns(h) = g
      BY <2>1 DEF Concerns, r, s
    <2> QED
      BY <2>1, <2>2, <2>5, <2>6 DEF r
  <1>14. CASE RemoveFromProxy(r)
    <2> DEFINE g == r.group
               rows == [a \in AssignIDs |-> IF a \in AssignsOf(db, g) /\ db.assigns[a].proxy = r.proxy
                                            THEN Absent ELSE db.assigns[a]]
    <2>1. r.kind = "remove" /\ g \in GroupIDs /\ db' = [db EXCEPT !.assigns = rows]
      BY <1>1, <1>14, RequestFields DEF RemoveFromProxy
    <2>2. rows \in [AssignIDs -> Assign \cup {Absent}]
      BY <1>1, TableTypes
    <2>3. \A a \in AssignIDs : rows[a] # db.assigns[a] =>
              rows[a] = Absent /\ db.assigns[a] # Absent /\ db.assigns[a].group = g
      BY DEF AssignsOf
    <2> HIDE DEF rows
    <2>4. /\ db' \in Tables /\ db'.assigns = rows
          /\ db'.groups = db.groups /\ db'.waygates = db.waygates /\ db'.items = db.items
      BY <1>1, <2>1, <2>2 DEF Tables
    <2>5. db'.groups[g] # Absent \/ \A a \in AssignIDs : db'.assigns[a] # Absent => db'.assigns[a].group # g
      BY <1>3, <2>3, <2>4 DEF RefInv
    <2>6. Changes(g, db')
      <3>1. \A a \in AssignIDs : db'.assigns[a] # db.assigns[a] =>
                \A e \in Copies \cup {db'} : e.assigns[a] # Absent => e.assigns[a].group = g
        BY <1>1, <1>4, <2>3, <2>4 DEF SameOwners
      <3> QED
        BY <2>4, <2>5, <3>1 DEF Changes
    <2>7. Concerns(h) = g
      BY <2>1 DEF Concerns, GroupOf, r
    <2> QED
      BY <2>1, <2>6, <2>7 DEF r
  <1> QED
    BY <1>5, <1>6, <1>7, <1>8, <1>9, <1>10, <1>11, <1>12, <1>13, <1>14 DEF Writes, r, s

----------------------------------------------------------------------------
(* A request's own state *)

\* Request h alone moves: to point p, with request q, copy s and proxies t.
Moves(h, p, q, s, t) ==
    /\ ap' = [ap EXCEPT ![h] = p] /\ req' = [req EXCEPT ![h] = q]
    /\ seen' = [seen EXCEPT ![h] = s] /\ todo' = [todo EXCEPT ![h] = t]

LEMMA MovesTyped ==
    ASSUME ATypeOK, NEW h \in Admins, NEW p \in Points, NEW q \in Request \cup {Absent}, NEW s \in Tables,
           NEW t \in SUBSET ProxyIDs, Moves(h, p, q, s, t)
    PROVE  /\ ap' \in [Admins -> Points] /\ req' \in [Admins -> Request \cup {Absent}]
           /\ seen' \in [Admins -> Tables] /\ todo' \in [Admins -> SUBSET ProxyIDs]
           /\ ap'[h] = p /\ req'[h] = q /\ seen'[h] = s /\ todo'[h] = t
           /\ \A k \in Admins \ {h} : /\ ap'[k] = ap[k] /\ req'[k] = req[k]
                                      /\ seen'[k] = seen[k] /\ todo'[k] = todo[k]
  BY DEF ATypeOK, Moves

\* The other requests stay where they are.
LEMMA OthersStay ==
    ASSUME NEW k, ap'[k] = ap[k], req'[k] = req[k], seen'[k] = seen[k], todo'[k] = todo[k]
    PROVE  /\ PointOK(k) => PointOK(k)'
           /\ \A g : Pending(k, g) => Pending(k, g)'
  BY DEF PointOK, Pending, GroupOf

LEMMA StayingMoves ==
    ASSUME ATypeOK, NEW h \in Admins
    PROVE  /\ ap = [ap EXCEPT ![h] = ap[h]] /\ req = [req EXCEPT ![h] = req[h]]
           /\ seen = [seen EXCEPT ![h] = seen[h]] /\ todo = [todo EXCEPT ![h] = todo[h]]
  BY DEF ATypeOK

LEMMA NoOwners ==
    /\ Keys(NoTables) = {}
    /\ \A e : SameOwners(NoTables, e)
  BY DEF NoTables, Keys, SameOwners

LEMMA SameOwnersSymmetric ==
    ASSUME NEW d, NEW e, SameOwners(d, e)
    PROVE  SameOwners(e, d)
  BY DEF SameOwners

\* The copies after a step.
LEMMA KeysNext ==
    ASSUME ATypeOK, KeyInv, NEW h \in Admins, NEW s, seen' = [seen EXCEPT ![h] = s], asked' \in {asked, db},
           used \subseteq used', Keys(db') \subseteq used', Keys(s) \subseteq used',
           \A e \in Copies \cup {db'} : SameOwners(s, e), \A e \in Copies : SameOwners(db', e)
    PROVE  KeyInv'
  <1>1. \A k \in Admins : seen'[k] = IF k = h THEN s ELSE seen[k]
    BY DEF ATypeOK
  <1>2. \A d \in Copies' : d \in Copies \/ d = db' \/ d = s
    BY <1>1 DEF Copies
  <1>3. \A d \in Copies' : Keys(d) \subseteq used'
    BY <1>2 DEF KeyInv
  <1>4. SameOwners(s, s) /\ SameOwners(db', db')
    BY DEF SameOwners
  <1>5. ASSUME NEW d \in Copies', NEW e \in Copies'
        PROVE  SameOwners(d, e)
    <2>1. CASE d = s
      BY <1>2, <1>4, <2>1
    <2>2. CASE e = s
      BY <1>2, <1>4, <2>2, SameOwnersSymmetric
    <2>3. CASE d # s /\ e # s
      BY <1>2, <1>4, <2>3, SameOwnersSymmetric DEF KeyInv
    <2> QED
      BY <2>1, <2>2, <2>3
  <1> QED
    BY <1>3, <1>5 DEF KeyInv

\* A step that leaves the tables alone: it may drop its duty to sync a group only
\* if it owns up to it, or if nothing uses the group.
LEMMA OwnStep ==
    ASSUME AclInv, NEW h \in Admins, NEW p \in Points, NEW q \in Request \cup {Absent}, NEW s \in Tables,
           NEW t \in SUBSET ProxyIDs, Moves(h, p, q, s, t), UNCHANGED <<db, used, asked>>,
           drift \subseteq drift', drift' \subseteq GroupIDs,
           Keys(s) \subseteq used, \A e \in Copies : SameOwners(s, e), PointOK(h)',
           \A a \in AssignIDs : db.assigns[a] # Absent /\ Pending(h, db.assigns[a].group) =>
               Pending(h, db.assigns[a].group)' \/ db.assigns[a].group \in drift'
    PROVE  AclInv'
  <1>1. ATypeOK
    BY DEF AclInv
  <1>2. ATypeOK'
    BY <1>1, MovesTyped DEF ATypeOK
  <1>3. KeyInv'
    <2>1. db \in Copies /\ KeyInv
      BY DEF Copies, AclInv
    <2>2. Keys(db') \subseteq used /\ \A e \in Copies : SameOwners(db', e)
      BY <2>1 DEF KeyInv
    <2> QED
      BY <1>1, <2>1, <2>2, KeysNext DEF Moves
  <1>4. RefInv'
    BY DEF AclInv, RefInv
  <1>5. \A k \in Admins : PointOK(k)'
    BY <1>1, MovesTyped, OthersStay DEF AclInv
  <1>6. ASSUME NEW a \in AssignIDs, db.assigns[a] # Absent, NEW k \in Admins, Pending(k, db.assigns[a].group)
        PROVE  db.assigns[a].group \in drift' \/ \E j \in Admins : Pending(j, db.assigns[a].group)'
    <2>1. CASE k = h
      BY <1>6, <2>1
    <2>2. CASE k # h
      BY <1>1, <1>6, <2>2, MovesTyped, OthersStay
    <2> QED
      BY <2>1, <2>2
  <1>7. \A a, g : Synced(a, g) => Synced(a, g)'
    BY DEF Synced
  <1>8. PendingInv'
    BY <1>6, <1>7 DEF AclInv, PendingInv
  <1> QED
    BY <1>2, <1>3, <1>4, <1>5, <1>8 DEF AclInv

LEMMA ReturnMoves ==
    ASSUME NEW h, Return(h)
    PROVE  Moves(h, "idle", Absent, NoTables, {})
  BY DEF Return, Goto, Moves

\* A request that ends without having stored anything that calls for a sync.
LEMMA ReturnStep ==
    ASSUME AclInv, NEW h \in Admins, Return(h), UNCHANGED <<db, used, asked>>,
           drift \subseteq drift', drift' \subseteq GroupIDs, \A g \in GroupIDs : Pending(h, g) => g \in drift'
    PROVE  AclInv'
  <1>1. Moves(h, "idle", Absent, NoTables, {}) /\ "idle" \in Points
    BY ReturnMoves DEF Points
  <1>2. ap'[h] = "idle"
    BY <1>1, MovesTyped, NoTablesTyped DEF AclInv
  <1>3. PointOK(h)'
    BY <1>2 DEF PointOK
  <1>4. \A a \in AssignIDs : db.assigns[a] # Absent => db.assigns[a].group \in GroupIDs
    BY TableTypes DEF AclInv, ATypeOK
  <1> QED
    BY <1>1, <1>3, <1>4, OwnStep, NoTablesTyped, NoOwners

\* What a request has read is a part of the tables.
LEMMA UsesPart ==
    ASSUME ATypeOK, KeyInv, NEW kind
    PROVE  /\ Uses(kind) \in Tables
           /\ Keys(Uses(kind)) \subseteq used
           /\ \A e \in Copies : SameOwners(Uses(kind), e)
           /\ kind = "updateGroup" => Uses(kind).groups = db.groups
           /\ kind \in {"updateItem", "deleteItem"} => Uses(kind).items = db.items
           /\ kind = "updateAssign" => Uses(kind).assigns = db.assigns
  <1>1. db \in Tables /\ NoTables \in Tables /\ db \in Copies
    BY NoTablesTyped DEF ATypeOK, Copies
  <1>2. Uses(kind) \in Tables
    BY <1>1 DEF Uses, Tables
  <1>3. /\ \A g \in GroupIDs : Uses(kind).groups[g] \in {Absent, db.groups[g]}
        /\ \A i \in ItemIDs : Uses(kind).items[i] \in {Absent, db.items[i]}
        /\ \A a \in AssignIDs : Uses(kind).assigns[a] \in {Absent, db.assigns[a]}
    BY DEF Uses, NoTables
  <1>4. Keys(Uses(kind)) \subseteq used
    BY <1>1, <1>3 DEF KeyInv, Keys
  <1>5. \A e \in Copies : SameOwners(Uses(kind), e)
    BY <1>1, <1>3 DEF KeyInv, SameOwners
  <1> QED
    BY <1>2, <1>4, <1>5 DEF Uses

LEMMA ArriveStep ==
    ASSUME AclInv, NEW h \in Admins, Arrive(h)
    PROVE  AclInv'
  <1>1. PICK r \in Request : req' = [req EXCEPT ![h] = r]
    BY DEF Arrive
  <1>2. Moves(h, "load", r, seen[h], todo[h]) /\ "load" \in Points
    BY <1>1, StayingMoves DEF AclInv, Arrive, Goto, Moves, Points
  <1>3. seen[h] \in Tables /\ todo[h] \in SUBSET ProxyIDs /\ drift \subseteq GroupIDs
    BY DEF AclInv, ATypeOK
  <1>4. Keys(seen[h]) \subseteq used /\ \A e \in Copies : SameOwners(seen[h], e)
    BY CopiesTyped DEF AclInv, KeyInv
  <1>5. ap'[h] = "load" /\ req'[h] = r
    BY <1>2, <1>3, MovesTyped DEF AclInv
  <1>6. PointOK(h)' /\ \A g : ~Pending(h, g)
    BY <1>5 DEF PointOK, Pending, Arrive
  <1> QED
    BY <1>2, <1>3, <1>4, <1>6, OwnStep DEF Arrive

LEMMA LoadStep ==
    ASSUME AclInv, NEW h \in Admins, Load(h)
    PROVE  AclInv'
  <1> DEFINE r == req[h]
             p == IF r.kind = "deleteGroup" THEN "collect" ELSE "write"
  <1>0. \A g : ~Pending(h, g)
    BY DEF Pending, Load
  <1>1. CASE Found(r)
    <2>1. Moves(h, p, r, Uses(r.kind), todo[h]) /\ p \in Points
      BY <1>1, StayingMoves DEF AclInv, Load, Goto, Moves, Points
    <2>2. r \in Request /\ todo[h] \in SUBSET ProxyIDs /\ drift \subseteq GroupIDs
      BY DEF AclInv, ATypeOK, PointOK, Load
    <2>3. /\ Uses(r.kind) \in Tables /\ Keys(Uses(r.kind)) \subseteq used
          /\ \A e \in Copies : SameOwners(Uses(r.kind), e)
          /\ r.kind = "updateGroup" => Uses(r.kind).groups = db.groups
          /\ r.kind \in {"updateItem", "deleteItem"} => Uses(r.kind).items = db.items
          /\ r.kind = "updateAssign" => Uses(r.kind).assigns = db.assigns
      BY UsesPart DEF AclInv
    <2>4. ap'[h] = p /\ req'[h] = r /\ seen'[h] = Uses(r.kind)
      BY <2>1, <2>2, <2>3, MovesTyped DEF AclInv
    <2>5. /\ r.kind = "updateGroup" => db.groups[r.group] # Absent
          /\ r.kind = "updateAssign" => db.assigns[r.assign] # Absent
          /\ r.kind \in {"updateItem", "deleteItem"} => db.items[r.item] # Absent
      BY <1>1 DEF Found
    <2>6. PointOK(h)'
      BY <2>2, <2>3, <2>4, <2>5 DEF PointOK
    <2> QED
      BY <1>0, <2>1, <2>2, <2>3, <2>6, OwnStep DEF Load
  <1>2. CASE ~Found(r)
    BY <1>0, <1>2, ReturnStep DEF Load, AclInv, ATypeOK
  <1> QED
    BY <1>1, <1>2

\* Collecting proxies, after which they are synced.
LEMMA ProxiesTyped ==
    ASSUME ATypeOK, NEW g
    PROVE  ProxiesOf(db, g) \in SUBSET ProxyIDs
  BY TableTypes DEF ATypeOK, ProxiesOf, AssignsOf

LEMMA CollectStep ==
    ASSUME AclInv, NEW h \in Admins, Collect(h)
    PROVE  AclInv'
  <1> DEFINE t == ProxiesOf(db, req[h].group)
  <1>1. Moves(h, "write", req[h], seen[h], t) /\ "write" \in Points
    BY StayingMoves DEF AclInv, Collect, Goto, Moves, Points
  <1>2. req[h] \in Request /\ req[h].kind = "deleteGroup" /\ seen[h] \in Tables /\ drift \subseteq GroupIDs
    BY DEF AclInv, ATypeOK, PointOK, Collect
  <1>3. Keys(seen[h]) \subseteq used /\ \A e \in Copies : SameOwners(seen[h], e)
    BY CopiesTyped DEF AclInv, KeyInv
  <1>4. t \in SUBSET ProxyIDs
    BY ProxiesTyped DEF AclInv
  <1>5. ap'[h] = "write" /\ req'[h] = req[h]
    BY <1>1, <1>2, <1>4, MovesTyped DEF AclInv
  <1>6. PointOK(h)' /\ \A g : ~Pending(h, g)
    BY <1>2, <1>5 DEF PointOK, Pending, Collect
  <1> QED
    BY <1>1, <1>2, <1>3, <1>4, <1>6, OwnStep DEF Collect

LEMMA UsageStep ==
    ASSUME AclInv, NEW h \in Admins, Usage(h)
    PROVE  AclInv'
  <1> DEFINE t == ProxiesOf(db, GroupOf(h))
  <1>1. Moves(h, "sync", req[h], seen[h], t) /\ "sync" \in Points
    BY StayingMoves DEF AclInv, Usage, Goto, Moves, Points
  <1>2. req[h] \in Request /\ seen[h] \in Tables /\ drift \subseteq GroupIDs
    BY DEF AclInv, ATypeOK, PointOK, Usage
  <1>3. Keys(seen[h]) \subseteq used /\ \A e \in Copies : SameOwners(seen[h], e)
    BY CopiesTyped DEF AclInv, KeyInv
  <1>4. t \in SUBSET ProxyIDs
    BY ProxiesTyped DEF AclInv
  <1>5. ap'[h] = "sync" /\ req'[h] = req[h] /\ todo'[h] = t
    BY <1>1, <1>2, <1>4, MovesTyped DEF AclInv
  <1>6. PointOK(h)'
    BY <1>2, <1>5 DEF PointOK
  <1>7. ASSUME NEW a \in AssignIDs, db.assigns[a] # Absent, Pending(h, db.assigns[a].group)
        PROVE  Pending(h, db.assigns[a].group)'
    <2>1. GroupOf(h) = db.assigns[a].group
      BY <1>7 DEF Pending, Usage
    <2>2. db.assigns[a].proxy \in t
      BY <1>7, <2>1 DEF ProxiesOf, AssignsOf
    <2> QED
      BY <1>5, <2>2 DEF Pending
  <1> QED
    BY <1>1, <1>2, <1>3, <1>4, <1>6, <1>7, OwnStep DEF Usage

LEMMA RereadStep ==
    ASSUME AclInv, NEW h \in Admins, Reread(h)
    PROVE  AclInv'
  <1>1. Moves(h, "sync", req[h], seen[h], todo[h]) /\ "sync" \in Points
    BY StayingMoves DEF AclInv, Reread, Goto, Moves, Points
  <1>2. /\ req[h] \in Request /\ seen[h] \in Tables /\ drift \subseteq GroupIDs
        /\ todo[h] \in SUBSET ProxyIDs /\ todo[h] # {}
    BY DEF AclInv, ATypeOK, PointOK, Reread
  <1>3. Keys(seen[h]) \subseteq used /\ \A e \in Copies : SameOwners(seen[h], e)
    BY CopiesTyped DEF AclInv, KeyInv
  <1>5. ap'[h] = "sync" /\ req'[h] = req[h] /\ todo'[h] = todo[h]
    BY <1>1, <1>2, MovesTyped DEF AclInv
  <1>6. PointOK(h)' /\ \A g : Pending(h, g)'
    BY <1>2, <1>5 DEF PointOK, Pending
  <1> QED
    BY <1>1, <1>2, <1>3, <1>6, OwnStep DEF Reread

LEMMA ReadFailsStep ==
    ASSUME AclInv, NEW h \in Admins, ReadFails(h)
    PROVE  AclInv'
  <1>1. req[h] \in Request /\ seen[h] \in Tables /\ drift \subseteq GroupIDs /\ ap[h] \in {"usage", "reread"}
    BY DEF AclInv, ATypeOK, PointOK, ReadFails
  <1>2. GroupOf(h) \in GroupIDs
    <2>1. req[h].kind \in {"addItem", "updateItem", "deleteItem", "configure", "assign"}
      BY <1>1 DEF AclInv, PointOK, ItemKinds
    <2>2. CASE req[h].kind \in {"updateItem", "deleteItem"}
      <3>1. ap[h] = "usage"
        BY <1>1, <2>2 DEF AclInv, PointOK
      <3>2. seen[h].items[req[h].item] # Absent
        BY <2>2, <3>1 DEF AclInv, PointOK
      <3> QED
        BY <1>1, <2>2, <3>2, TableTypes, RequestFields DEF GroupOf
    <2>3. CASE req[h].kind \in {"addItem", "configure", "assign"}
      BY <1>1, <2>3, RequestFields DEF GroupOf
    <2> QED
      BY <2>1, <2>2, <2>3
  <1>3. \A g : Pending(h, g) => g = GroupOf(h)
    BY <1>1 DEF Pending
  <1> QED
    BY <1>1, <1>2, <1>3, ReturnStep DEF ReadFails

LEMMA WriteFailsStep ==
    ASSUME AclInv, NEW h \in Admins, WriteFails(h)
    PROVE  AclInv'
  <1>1. \A g : ~Pending(h, g)
    BY DEF Pending, WriteFails
  <1> QED
    BY <1>1, ReturnStep DEF WriteFails, AclInv, ATypeOK

\* A sync puts the tables as they are into the configuration: nobody owes one.
LEMMA SyncStep ==
    ASSUME AclInv, NEW h \in Admins, Sync(h)
    PROVE  AclInv'
  <1>1. CASE todo[h] = {}
    <2>1. \A g : ~Pending(h, g)
      BY <1>1 DEF Pending, Sync
    <2> QED
      BY <1>1, <2>1, ReturnStep DEF Sync, AclInv, ATypeOK
  <1>2. CASE todo[h] # {}
    <2>1. PICK x \in todo[h] : todo' = [todo EXCEPT ![h] = @ \ {x}]
      BY <1>2 DEF Sync
    <2> DEFINE t == todo[h] \ {x}
    <2>2. Moves(h, ap[h], req[h], seen[h], t)
      BY <1>2, <2>1, StayingMoves DEF AclInv, Sync, Moves
    <2>3. /\ ap[h] = "sync" /\ "sync" \in Points /\ req[h] \in Request /\ seen[h] \in Tables
          /\ todo[h] \in SUBSET ProxyIDs /\ db \in Tables
      BY DEF AclInv, ATypeOK, PointOK, Sync, Points
    <2>4. asked' = db /\ drift' = {} /\ UNCHANGED <<db, used, ap, req, seen>>
      BY <1>2 DEF Sync
    <2>5. ATypeOK'
      BY <2>2, <2>3, <2>4, MovesTyped DEF AclInv, ATypeOK
    <2>6. KeyInv'
      <3>1. db \in Copies /\ seen[h] \in Copies /\ KeyInv /\ ATypeOK
        BY CopiesTyped DEF AclInv
      <3>2. /\ Keys(db) \subseteq used /\ Keys(seen[h]) \subseteq used
            /\ \A e \in Copies : SameOwners(db, e) /\ SameOwners(seen[h], e)
        BY <3>1 DEF KeyInv
      <3> QED
        BY <2>2, <2>4, <3>1, <3>2, KeysNext DEF Moves
    <2>7. RefInv'
      BY <2>4 DEF AclInv, RefInv
    <2>8. \A a \in AssignIDs : Synced(a, db.assigns[a].group)'
      BY <2>4 DEF Synced
    <2>9. PendingInv'
      BY <2>4, <2>8 DEF PendingInv
    <2>10. PointOK(h)'
      BY <2>2, <2>3, <2>4 DEF AclInv, PointOK
    <2>11. \A k \in Admins : PointOK(k)'
      BY <2>2, <2>3, <2>10, MovesTyped, OthersStay DEF AclInv
    <2> QED
      BY <2>5, <2>6, <2>7, <2>9, <2>11 DEF AclInv
  <1> QED
    BY <1>1, <1>2

\* Where the commit leaves the request.
LEMMA WriteMoves ==
    ASSUME AclInv, NEW h \in Admins, Write(h)
    PROVE  \E p \in Points, q \in Request \cup {Absent}, t \in SUBSET ProxyIDs, s \in {NoTables, seen[h]} :
              /\ Moves(h, p, q, s, t) /\ PointOK(h)'
              /\ \/ req[h].kind \in {"createGroup", "deleteGroup"}
                 \/ req[h].kind = "updateGroup" /\ Concerns(h) \in drift'
                 \/ \A g : g = Concerns(h) => Pending(h, g)'
  <1> DEFINE r == req[h]
  <1>1. /\ ap[h] = "write" /\ r \in Request /\ seen[h] \in Tables /\ todo[h] \in SUBSET ProxyIDs /\ ATypeOK
        /\ (r.kind \in {"updateItem", "deleteItem"} => seen[h].items[r.item] # Absent)
    BY DEF AclInv, ATypeOK, PointOK, Write
  <1>2. r.kind \in AllKinds /\ (r.kind \in AssignKinds => r.proxy \in ProxyIDs)
    BY <1>1, RequestFields
  <1>3. CASE NextPoint(r.kind) = "idle"
    <2>1. Moves(h, "idle", Absent, NoTables, {}) /\ "idle" \in Points
      BY <1>3, ReturnMoves DEF Write, Points
    <2>2. PointOK(h)'
      <3>1. ap'[h] = "idle"
        BY <1>1, <2>1 DEF Moves, ATypeOK
      <3> QED
        BY <3>1 DEF PointOK
    <2>3. r.kind \in {"createGroup", "updateGroup"}
      BY <1>3 DEF NextPoint
    <2>4. r.kind = "updateGroup" => Concerns(h) \in drift'
      BY DEF Write, Concerns, GroupOf
    <2> QED
      BY <2>1, <2>2, <2>3, <2>4
  <1>4. CASE NextPoint(r.kind) # "idle"
    <2> DEFINE t == IF r.kind \in AssignKinds THEN {r.proxy} ELSE todo[h]
               p == NextPoint(r.kind)
    <2>1. Moves(h, p, r, seen[h], t)
      BY <1>1, <1>4, StayingMoves DEF Write, Goto, Moves
    <2>2. p \in Points /\ t \in SUBSET ProxyIDs
      BY <1>1, <1>2 DEF NextPoint, Points
    <2>3. ap'[h] = p /\ req'[h] = r /\ seen'[h] = seen[h] /\ todo'[h] = t
      BY <1>1, <2>1, <2>2, MovesTyped
    <2>4. /\ p = "usage" <=> r.kind \in ItemKinds \cup {"configure"}
          /\ p = "reread" <=> r.kind = "assign"
          /\ p \in {"usage", "reread", "sync"}
      BY <1>4 DEF NextPoint, ItemKinds
    <2>5. r.kind = "assign" => t # {}
      BY DEF AssignKinds
    <2>6. PointOK(h)'
      BY <1>1, <2>3, <2>4, <2>5 DEF PointOK
    <2>7. r.kind = "deleteGroup" \/ \A g : g = Concerns(h) => Pending(h, g)'
      <3>1. CASE p \in {"usage", "reread"}
        <4>1. r.kind # "updateAssign" /\ GroupOf(h)' = GroupOf(h)
          BY <2>3, <2>4, <3>1 DEF GroupOf, ItemKinds
        <4> QED
          BY <2>3, <3>1, <4>1 DEF Pending, Concerns
      <3>2. CASE p = "sync"
        <4>1. r.kind \in {"deleteGroup", "updateAssign", "remove"}
          BY <1>2, <1>4, <2>4, <3>2 DEF NextPoint, AllKinds, ItemKinds, AssignKinds
        <4> QED
          BY <2>3, <3>2, <4>1 DEF Pending, AssignKinds
      <3> QED
        BY <2>4, <3>1, <3>2
    <2> QED
      BY <1>1, <2>1, <2>2, <2>6, <2>7
  <1> QED
    BY <1>3, <1>4

\* The commit: the groups it does not concern are as synced as before, and its
\* own group is used by nobody, or known to drift, or the request will sync it.
LEMMA WriteStep ==
    ASSUME AclInv, NEW h \in Admins, Write(h)
    PROVE  AclInv'
  <1>1. /\ ap[h] = "write" /\ Writes(req[h], seen[h]) /\ used' = used \cup Keys(db') /\ asked' = asked
        /\ drift \subseteq drift' /\ drift' \subseteq drift \cup {req[h].group}
        /\ req[h].kind # "updateGroup" => drift' = drift
    BY DEF Write
  <1>2. /\ ATypeOK /\ KeyInv /\ RefInv /\ PendingInv /\ req[h] \in Request
    BY <1>1 DEF AclInv, PointOK
  <1>3. PICK p \in Points, q \in Request \cup {Absent}, t \in SUBSET ProxyIDs, s \in {NoTables, seen[h]} :
              /\ Moves(h, p, q, s, t) /\ PointOK(h)'
              /\ \/ req[h].kind \in {"createGroup", "deleteGroup"}
                 \/ req[h].kind = "updateGroup" /\ Concerns(h) \in drift'
                 \/ \A g : g = Concerns(h) => Pending(h, g)'
    BY WriteMoves
  <1>4. PICK g \in GroupIDs :
              /\ Changes(g, db')
              /\ \/ g \in drift'
                 \/ Pending(h, g)'
                 \/ \A a \in AssignIDs : db'.assigns[a] # Absent => db'.assigns[a].group # g
    <2>1. CASE req[h].kind = "createGroup"
      BY <1>1, <2>1, WriteChanges
    <2>2. CASE req[h].kind # "createGroup"
      <3>1. /\ Concerns(h) \in GroupIDs /\ Changes(Concerns(h), db')
            /\ req[h].kind = "deleteGroup" =>
                  \A a \in AssignIDs : db'.assigns[a] # Absent => db'.assigns[a].group # Concerns(h)
        BY <1>1, <2>2, WriteChanges
      <3> QED
        BY <1>3, <2>2, <3>1
    <2> QED
      BY <2>1, <2>2
  <1>5. /\ s \in Tables /\ db' \in Tables /\ asked \in Copies /\ db \in Copies
        /\ seen[h] \in Copies
    BY <1>2, <1>4, CopiesTyped, NoTablesTyped DEF Changes, ATypeOK
  <1>6. ATypeOK'
    <2>1. /\ used' \subseteq GroupIDs \cup ItemIDs \cup AssignIDs /\ asked' \in Tables
      BY <1>1, <1>2 DEF ATypeOK, Keys
    <2>2. drift' \subseteq GroupIDs
      BY <1>1, <1>2, RequestFields DEF ATypeOK
    <2> QED
      BY <1>2, <1>3, <1>5, <2>1, <2>2, MovesTyped DEF ATypeOK
  <1>7. KeyInv'
    <2>1. \A e \in Copies : SameOwners(db', e)
      BY <1>2, <1>4, <1>5 DEF Changes, SameOwners, KeyInv
    <2>2. Keys(s) \subseteq used /\ \A e \in Copies : SameOwners(s, e)
      BY <1>2, <1>5, NoOwners DEF KeyInv
    <2>3. SameOwners(s, db')
      BY <1>5, <2>1, NoOwners, SameOwnersSymmetric
    <2> QED
      BY <1>1, <1>2, <1>3, <2>1, <2>2, <2>3, KeysNext DEF Moves
  <1>8. ASSUME NEW a \in AssignIDs, db'.assigns[a] # Absent, db'.assigns[a].group # g
        PROVE  db'.assigns[a] = db.assigns[a] /\ db'.assigns[a].group \in GroupIDs
    BY <1>4, <1>5, <1>8, TableTypes DEF Changes
  <1>9. RefInv'
    <2> SUFFICES ASSUME NEW a \in AssignIDs, db'.assigns[a] # Absent
                 PROVE  db'.groups[db'.assigns[a].group] # Absent
      BY DEF RefInv
    <2>1. CASE db'.assigns[a].group = g
      BY <1>4, <2>1 DEF Changes
    <2>2. CASE db'.assigns[a].group # g
      BY <1>2, <1>4, <1>8, <2>2 DEF Changes, RefInv
    <2> QED
      BY <2>1, <2>2
  <1>10. \A k \in Admins : PointOK(k)'
    BY <1>2, <1>3, <1>5, MovesTyped, OthersStay DEF AclInv
  <1>11. PendingInv'
    <2> SUFFICES ASSUME NEW a \in AssignIDs, db'.assigns[a] # Absent
                 PROVE  \/ db'.assigns[a].group \in drift'
                        \/ Synced(a, db.assigns[a].group)'
                        \/ \E k \in Admins : Pending(k, db.assigns[a].group)'
      BY DEF PendingInv
    <2> DEFINE x == db.assigns[a].group
    <2>1. CASE db'.assigns[a].group = g
      BY <1>4, <2>1
    <2>2. CASE db'.assigns[a].group # g
      <3>1. db'.assigns[a] = db.assigns[a] /\ x # g /\ x \in GroupIDs
        BY <1>8, <2>2
      <3>2. x \in drift \/ Synced(a, x) \/ \E k \in Admins : Pending(k, x)
        BY <1>2, <3>1 DEF PendingInv
      <3>3. ASSUME NEW k \in Admins, Pending(k, x)
            PROVE  Pending(k, x)' /\ x' = x
        <4>1. k # h
          BY <1>1, <3>3 DEF Pending
        <4>2. \A y : Pending(k, y) => Pending(k, y)'
          BY <1>2, <1>3, <1>5, <4>1, MovesTyped, OthersStay
        <4> QED
          BY <3>1, <3>3, <4>2
      <3>4. ASSUME Synced(a, x)
            PROVE  Synced(a, x)'
        <4>1. /\ db'.groups[x] = db.groups[x] /\ db'.waygates[x] = db.waygates[x]
          BY <1>4, <3>1 DEF Changes
        <4>2. \A i \in ItemIDs : db'.items[i] # db.items[i] =>
                  /\ db'.items[i] # Absent => db'.items[i].group = g
                  /\ asked.items[i] # Absent => asked.items[i].group = g
          BY <1>4, <1>5 DEF Changes
        <4> QED
          BY <1>1, <3>1, <3>4, <4>1, <4>2 DEF Synced
      <3> QED
        BY <1>1, <3>1, <3>2, <3>3, <3>4
    <2> QED
      BY <2>1, <2>2
  <1> QED
    BY <1>6, <1>7, <1>9, <1>10, <1>11 DEF AclInv

----------------------------------------------------------------------------
(* The theorems *)

LEMMA InitAcl == Init => AclInv
  <1> SUFFICES ASSUME Init PROVE AclInv
    OBVIOUS
  <1>1. ATypeOK
    BY NoTablesTyped DEF Init, ATypeOK, Points
  <1>2. \A d \in Copies : d = NoTables
    BY DEF Init, Copies
  <1>3. KeyInv
    BY <1>2, NoOwners DEF KeyInv
  <1>4. \A a \in AssignIDs : db.assigns[a] = Absent
    BY DEF Init, NoTables
  <1>5. RefInv /\ PendingInv
    BY <1>4 DEF RefInv, PendingInv
  <1>6. \A h \in Admins : PointOK(h)
    BY DEF Init, PointOK
  <1> QED
    BY <1>1, <1>3, <1>5, <1>6 DEF AclInv

LEMMA AclStep == AclInv /\ [Next]_vars => AclInv'
  <1> SUFFICES ASSUME AclInv, [Next]_vars PROVE AclInv'
    OBVIOUS
  <1>1. CASE UNCHANGED vars
    <2>1. ATypeOK' /\ RefInv' /\ KeyInv'
      BY <1>1 DEF vars, AclInv, ATypeOK, RefInv, KeyInv, Copies, Keys
    <2>2. \A h \in Admins : PointOK(h)'
      BY <1>1, OthersStay DEF vars, AclInv
    <2>3. PendingInv'
      BY <1>1 DEF vars, AclInv, PendingInv, Synced, Pending, GroupOf
    <2> QED
      BY <2>1, <2>2, <2>3 DEF AclInv
  <1>2. CASE Next
    <2> PICK h \in Admins :
            \/ Arrive(h) \/ Load(h) \/ Collect(h) \/ Write(h) \/ WriteFails(h)
            \/ Usage(h) \/ Reread(h) \/ ReadFails(h) \/ Sync(h)
      BY <1>2 DEF Next
    <2> QED
      BY ArriveStep, LoadStep, CollectStep, WriteStep, WriteFailsStep, UsageStep, RereadStep,
         ReadFailsStep, SyncStep
  <1> QED
    BY <1>1, <1>2

LEMMA AclInvariant == Spec => []AclInv
  BY InitAcl, AclStep, PTL DEF Spec

\* Whatever the handlers of acl_handler.go and proxy_acl_handler.go store, for any
\* number of requests at a time, is a row of its table.
THEOREM AclTypeCorrect == Spec => []ATypeOK
  <1>1. AclInv => ATypeOK
    BY DEF AclInv
  <1> QED
    BY <1>1, AclInvariant, PTL

\* syncProxiesUsingGroup and the syncs of the assignment handlers reach every
\* change of a group in use, however the requests of any number of administrators
\* interleave: what no sync has seen is known to drift or still has a request
\* under way that will ask for one.
THEOREM EditsSyncedHolds == Spec => []EditsSynced
  <1>1. ASSUME AclInv
        PROVE  EditsSynced
    <2> SUFFICES ASSUME Quiet, NEW a \in AssignIDs, db.assigns[a] # Absent, db.assigns[a].group \notin drift
                 PROVE  LET g == db.assigns[a].group
                        IN  /\ asked.assigns[a] = db.assigns[a]
                            /\ asked.groups[g] = db.groups[g] /\ asked.waygates[g] = db.waygates[g]
                            /\ \A i \in ItemsOf(db, g) \cup ItemsOf(asked, g) : asked.items[i] = db.items[i]
      BY DEF EditsSynced
    <2>1. \A h \in Admins : ~Pending(h, db.assigns[a].group)
      BY DEF Quiet, Pending
    <2>2. Synced(a, db.assigns[a].group)
      BY <1>1, <2>1 DEF AclInv, PendingInv
    <2> QED
      BY <2>2 DEF Synced, ItemsOf
  <1> QED
    BY <1>1, AclInvariant, PTL
=============================================================================
