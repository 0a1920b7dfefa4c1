------------------------ MODULE ProxyServiceProofs ------------------------
(***************************************************************************)
(* Machine-checked proofs about ProxyService, for any number of requests,  *)
(* keys and hostnames.                                                     *)
(*                                                                         *)
(* AnswerMatchesTable speaks of ended requests only.  Its strengthening    *)
(* says which row an undisturbed request counts on at every point on its   *)
(* way: the one it read up to its write, the one it wrote from then on.    *)
(***************************************************************************)
EXTENDS ProxyService, TLAPS

\* The row h takes to be in the table.
CountedOn(h) ==
    CASE hp[h] = "idle" -> Promised(h, out[h])
      [] hp[h] \in {"check", "store"} -> seen[h]
      [] OTHER -> Promised(h, "ok")

\* h has read its row, nobody else wrote it since, and h knows its key.
Counts(h) ==
    /\ ~disturbed[h] /\ req[h].id # Absent /\ hp[h] # "read"
    /\ hp[h] = "idle" => out[h] # "none" /\ (out[h] = "refused" => seen[h] # Absent)

HandlerInv(h) ==
    /\ Counts(h) => proxies[req[h].id] = CountedOn(h)
    /\ hp[h] # "idle" => out[h] = "none"
    /\ hp[h] = "read" => seen[h] = Absent
    /\ hp[h] = "rollback" => req[h].kind \in {"create", "enable"}
    /\ req[h].kind = "enable" /\ hp[h] \notin {"idle", "read"} => ~seen[h].active

AnswerInv == \A h \in Handlers : HandlerInv(h)

\* The initial state is well typed.
LEMMA InitPTypeOK == Init => PTypeOK
  BY AbsentAssumption DEF Init, PTypeOK, TableTypeOK, Points, Outcomes, Request, Kinds, NoRequest

\* A commit of a row, or of its removal, keeps the table's type.
LEMMA CommitType ==
    ASSUME PTypeOK, NEW h \in Handlers, NEW p \in ProxyIDs, NEW r \in Row \cup {Absent},
           Commit(h, p, r)
    PROVE  /\ proxies' \in [ProxyIDs -> Row \cup {Absent}]
           /\ disturbed' \in [Handlers -> BOOLEAN]
           /\ (r = Absent \/ p \in used') /\ used \subseteq used'
              => \A q \in ProxyIDs : proxies'[q] # Absent => q \in used'
<1>1. disturbed' \in [Handlers -> BOOLEAN]
  BY Zenon DEF Commit
<1>2. QED
  BY <1>1 DEF PTypeOK, TableTypeOK, Commit

\* What the operations store is a row, or nothing.
LEMMA StoredRows ==
    ASSUME PTypeOK, NEW h \in Handlers
    PROVE  /\ \A p \in ProxyIDs, a \in BOOLEAN : StatusRow(p, a) \in Row \cup {Absent}
           /\ req[h].row \in Row /\ seen[h] \in Row => UpdatedRow(h) \in Row
  BY DEF PTypeOK, TableTypeOK, StatusRow, UpdatedRow, Row

\* Every action keeps the types.
LEMMA NextPTypeOK == PTypeOK /\ [Next]_pvars => PTypeOK'
<1> SUFFICES ASSUME PTypeOK, [Next]_pvars
             PROVE  PTypeOK'
  OBVIOUS
<1> USE AbsentAssumption
<1>a. ASSUME NEW h \in Handlers, Arrive(h)
      PROVE  PTypeOK'
  <2>1. req'[h] \in Request /\ req' = [req EXCEPT ![h] = req'[h]]
    BY <1>a DEF Arrive, PTypeOK, Request, Kinds
  <2>2. hp'[h] \in {"check", "read"} /\ hp' = [hp EXCEPT ![h] = hp'[h]]
    BY <1>a DEF Arrive, PTypeOK
  <2>3. /\ req'[h].kind = "create" => hp'[h] = "check" /\ req'[h].id = Absent /\ req'[h].row \in Row
        /\ req'[h].kind # "create" => hp'[h] = "read" /\ req'[h].id \in used
        /\ req'[h].kind = "update" => req'[h].row \in Row
    BY <1>a DEF Arrive, PTypeOK
  <2>4. /\ seen' = [seen EXCEPT ![h] = Absent]
        /\ out' = [out EXCEPT ![h] = "none"]
        /\ disturbed' = [disturbed EXCEPT ![h] = FALSE]
        /\ UNCHANGED <<proxies, used>>
    BY <1>a DEF Arrive
  <2>5. /\ TableTypeOK' /\ used' \subseteq ProxyIDs
        /\ hp' \in [Handlers -> Points]
        /\ req' \in [Handlers -> Request]
        /\ seen' \in [Handlers -> Row \cup {Absent}]
        /\ out' \in [Handlers -> Outcomes]
        /\ disturbed' \in [Handlers -> BOOLEAN]
        /\ \A p \in ProxyIDs : proxies'[p] # Absent => p \in used'
    BY <2>1, <2>2, <2>4 DEF PTypeOK, TableTypeOK, Points, Outcomes
  <2>6. QED
    BY <2>1, <2>2, <2>3, <2>4, <2>5 DEF PTypeOK
<1>b. ASSUME NEW h \in Handlers,
             GetByID(h) \/ HostnameExists(h) \/ SyncCall(h) \/ DbError(h) \/ RollbackFails(h)
      PROVE  PTypeOK'
  <2> USE DEF PTypeOK, TableTypeOK, Points, Outcomes, Goto, Finish, NoCommit
  <2>1. CASE GetByID(h)
    BY <1>b, <2>1 DEF GetByID, Request
  <2>2. CASE HostnameExists(h)
    BY <1>b, <2>2 DEF HostnameExists
  <2>3. CASE SyncCall(h)
    BY <1>b, <2>3 DEF SyncCall
  <2>4. CASE DbError(h)
    BY <1>b, <2>4 DEF DbError
  <2>5. CASE RollbackFails(h)
    BY <1>b, <2>5 DEF RollbackFails
  <2>6. QED
    BY <1>b, <2>1, <2>2, <2>3, <2>4, <2>5
<1>c. ASSUME NEW h \in Handlers, NEW ok \in BOOLEAN, SyncReturn(h, ok)
      PROVE  PTypeOK'
  BY <1>c DEF SyncReturn, PTypeOK, TableTypeOK, Points, Outcomes, Goto, Finish, NoCommit
<1>d. ASSUME NEW h \in Handlers, CreateStore(h)
      PROVE  PTypeOK'
  <2>1. CASE Taken(req[h].row.host, Absent)
    BY <1>d, <2>1 DEF CreateStore, PTypeOK, TableTypeOK, Points, Outcomes, Finish, NoCommit
  <2>2. CASE ~Taken(req[h].row.host, Absent)
    <3>1. PICK p \in ProxyIDs \ used : /\ Commit(h, p, req[h].row)
                                       /\ used' = used \cup {p}
                                       /\ req' = [req EXCEPT ![h].id = p]
                                       /\ Goto(h, "sync")
      BY <1>d, <2>2 DEF CreateStore
    <3>2. req[h].row \in Row /\ req[h] \in Request /\ req[h].kind = "create"
      BY <1>d DEF CreateStore, PTypeOK
    <3>3. /\ proxies' \in [ProxyIDs -> Row \cup {Absent}]
          /\ disturbed' \in [Handlers -> BOOLEAN]
          /\ \A q \in ProxyIDs : proxies'[q] # Absent => q \in used'
      BY <3>1, <3>2, CommitType
    <3>4. /\ req' \in [Handlers -> Request]
          /\ req'[h].id = p /\ req'[h].kind = "create" /\ req'[h].row = req[h].row
          /\ \A g \in Handlers \ {h} : req'[g] = req[g]
      BY <3>1, <3>2 DEF PTypeOK, Request
    <3>5. QED
      BY <1>d, <3>1, <3>2, <3>3, <3>4 DEF CreateStore, PTypeOK, TableTypeOK, Points, Goto
  <2>3. QED
    BY <2>1, <2>2
<1>e. ASSUME NEW h \in Handlers, UpdateStore(h)
      PROVE  PTypeOK'
  <2>1. CASE Taken(req[h].row.host, req[h].id)
    BY <1>e, <2>1 DEF UpdateStore, PTypeOK, TableTypeOK, Points, Outcomes, Finish, NoCommit
  <2>2. CASE ~Taken(req[h].row.host, req[h].id)
    <3>1. /\ req[h].id \in ProxyIDs /\ req[h].id \in used
          /\ UpdatedRow(h) \in Row
      BY <1>e, StoredRows DEF UpdateStore, PTypeOK
    <3>2. Commit(h, req[h].id, UpdatedRow(h)) /\ UNCHANGED <<used, req, seen, out>>
      BY <1>e, <2>2 DEF UpdateStore, Goto
    <3>3. /\ proxies' \in [ProxyIDs -> Row \cup {Absent}]
          /\ disturbed' \in [Handlers -> BOOLEAN]
          /\ \A q \in ProxyIDs : proxies'[q] # Absent => q \in used'
      BY <3>1, <3>2, CommitType
    <3>4. QED
      BY <1>e, <2>2, <3>1, <3>2, <3>3 DEF UpdateStore, PTypeOK, TableTypeOK, Points, Goto
  <2>3. QED
    BY <2>1, <2>2
<1>f. ASSUME NEW h \in Handlers, DeleteStore(h) \/ StatusStore(h) \/ Rollback(h)
      PROVE  PTypeOK'
  <2>1. req[h].id \in used /\ req[h].id \in ProxyIDs
    BY <1>f DEF DeleteStore, StatusStore, Rollback, PTypeOK
  <2>2. PICK r \in Row \cup {Absent} : Commit(h, req[h].id, r)
    BY <1>f, <2>1, StoredRows DEF DeleteStore, StatusStore, Rollback
  <2>3. /\ proxies' \in [ProxyIDs -> Row \cup {Absent}]
        /\ disturbed' \in [Handlers -> BOOLEAN]
        /\ UNCHANGED <<used, req, seen>>
        /\ \A q \in ProxyIDs : proxies'[q] # Absent => q \in used'
    BY <1>f, <2>1, <2>2, CommitType DEF DeleteStore, StatusStore, Rollback
  <2>4. CASE DeleteStore(h)
    BY <2>1, <2>3, <2>4 DEF DeleteStore, PTypeOK, TableTypeOK, Points, Goto
  <2>5. CASE StatusStore(h)
    BY <2>1, <2>3, <2>5 DEF StatusStore, PTypeOK, TableTypeOK, Points, Goto
  <2>6. CASE Rollback(h)
    BY <2>1, <2>3, <2>6 DEF Rollback, PTypeOK, TableTypeOK, Points, Outcomes, Finish
  <2>7. QED
    BY <1>f, <2>4, <2>5, <2>6
<1>g. CASE Restart
  BY <1>g DEF Restart, PTypeOK, TableTypeOK, Points, Outcomes, Request, Kinds, NoRequest
<1>h. CASE UNCHANGED pvars
  BY <1>h DEF pvars, PTypeOK, TableTypeOK
<1>q. QED
  BY <1>a, <1>b, <1>c, <1>d, <1>e, <1>f, <1>g, <1>h DEF Next, DbStep

\* Type correctness of the request handlers.
THEOREM HandlersTypeCorrect == Spec => []PTypeOK
  BY InitPTypeOK, NextPTypeOK, PTL DEF Spec

\* A step writes at most one row.
LEMMA OneCommit ==
    ASSUME PTypeOK, [Next]_pvars
    PROVE  \/ UNCHANGED proxies
           \/ \E p \in ProxyIDs, r \in Row \cup {Absent} : proxies' = [proxies EXCEPT ![p] = r]
<1>1. ASSUME NEW h \in Handlers, CreateStore(h)
      PROVE  \/ UNCHANGED proxies
             \/ \E p \in ProxyIDs, r \in Row \cup {Absent} : proxies' = [proxies EXCEPT ![p] = r]
  BY <1>1 DEF CreateStore, Commit, NoCommit, PTypeOK
<1>2. ASSUME NEW h \in Handlers, UpdateStore(h)
      PROVE  \/ UNCHANGED proxies
             \/ \E p \in ProxyIDs, r \in Row \cup {Absent} : proxies' = [proxies EXCEPT ![p] = r]
  BY <1>2, StoredRows DEF UpdateStore, Commit, NoCommit, PTypeOK
<1>3. ASSUME NEW h \in Handlers, DeleteStore(h) \/ StatusStore(h) \/ Rollback(h)
      PROVE  \E p \in ProxyIDs, r \in Row \cup {Absent} : proxies' = [proxies EXCEPT ![p] = r]
  <2>1. req[h].id \in ProxyIDs
    BY <1>3 DEF DeleteStore, StatusStore, Rollback, PTypeOK
  <2>2. QED
    BY <1>3, <2>1, StoredRows DEF DeleteStore, StatusStore, Rollback, Commit
<1>4. \/ UNCHANGED proxies
      \/ \E h \in Handlers : \/ CreateStore(h) \/ UpdateStore(h)
                             \/ DeleteStore(h) \/ StatusStore(h) \/ Rollback(h)
  BY DEF Next, DbStep, pvars, Arrive, GetByID, HostnameExists, SyncCall, SyncReturn, DbError,
         RollbackFails, Restart, NoCommit
<1>5. QED
  BY <1>1, <1>2, <1>3, <1>4

----------------------------------------------------------------------------
(* Hostnames *)

\* Storing a row whose hostname no other row holds keeps hostnames unique.
LEMMA StoreUnique ==
    ASSUME TableTypeOK, HostnamesUnique, NEW h \in Handlers, NEW p \in ProxyIDs,
           NEW r \in Row \cup {Absent}, Commit(h, p, r),
           r # Absent => ~Taken(r.host, p)
    PROVE  HostnamesUnique'
  BY DEF TableTypeOK, HostnamesUnique, Taken, Commit

\* Every action keeps hostnames unique: an INSERT or an UPDATE that would not
\* is refused, the others never change a hostname.
LEMMA NextUnique == PTypeOK /\ HostnamesUnique /\ [Next]_pvars => HostnamesUnique'
<1> SUFFICES ASSUME PTypeOK, HostnamesUnique, [Next]_pvars
             PROVE  HostnamesUnique'
  OBVIOUS
<1>1. CASE UNCHANGED proxies
  BY <1>1 DEF HostnamesUnique, Taken
<1>2. ASSUME NEW h \in Handlers, CreateStore(h), ~Taken(req[h].row.host, Absent)
      PROVE  HostnamesUnique'
  <2>1. PICK p \in ProxyIDs \ used : Commit(h, p, req[h].row)
    BY <1>2 DEF CreateStore
  <2>2. req[h].row \in Row
    BY <1>2 DEF CreateStore, PTypeOK
  <2>3. ~Taken(req[h].row.host, p)
    BY <1>2, AbsentAssumption DEF Taken
  <2>4. QED
    BY <2>1, <2>2, <2>3, StoreUnique DEF PTypeOK
<1>3. ASSUME NEW h \in Handlers, UpdateStore(h), ~Taken(req[h].row.host, req[h].id)
      PROVE  HostnamesUnique'
  <2>1. /\ req[h].id \in ProxyIDs /\ req[h].row \in Row /\ seen[h] \in Row
        /\ Commit(h, req[h].id, UpdatedRow(h))
    BY <1>3 DEF UpdateStore, PTypeOK
  <2>2. UpdatedRow(h) \in Row /\ UpdatedRow(h).host = req[h].row.host
    BY <2>1 DEF UpdatedRow, Row
  <2>3. QED
    BY <1>3, <2>1, <2>2, StoreUnique DEF PTypeOK
<1>4. ASSUME NEW h \in Handlers, DeleteStore(h) \/ StatusStore(h) \/ Rollback(h)
      PROVE  HostnamesUnique'
  <2>1. req[h].id \in ProxyIDs
    BY <1>4 DEF DeleteStore, StatusStore, Rollback, PTypeOK
  <2>2. PICK a \in BOOLEAN : \/ Commit(h, req[h].id, Absent)
                             \/ Commit(h, req[h].id, StatusRow(req[h].id, a))
    BY <1>4 DEF DeleteStore, StatusStore, Rollback
  <2>3. StatusRow(req[h].id, a) # Absent => ~Taken(StatusRow(req[h].id, a).host, req[h].id)
    BY <2>1 DEF StatusRow, HostnamesUnique, PTypeOK, TableTypeOK, Row
  <2>4. StatusRow(req[h].id, a) \in Row \cup {Absent}
    BY <2>1, StoredRows
  <2>5. QED
    BY <2>1, <2>2, <2>3, <2>4, StoreUnique DEF PTypeOK
<1>5. \/ UNCHANGED proxies
      \/ \E h \in Handlers :
            \/ CreateStore(h) /\ ~Taken(req[h].row.host, Absent)
            \/ UpdateStore(h) /\ ~Taken(req[h].row.host, req[h].id)
            \/ DeleteStore(h) \/ StatusStore(h) \/ Rollback(h)
  BY DEF Next, DbStep, pvars, Arrive, GetByID, HostnameExists, CreateStore, UpdateStore,
         SyncCall, SyncReturn, DbError, RollbackFails, Restart, NoCommit
<1>6. QED
  BY <1>1, <1>2, <1>3, <1>4, <1>5

\* No two rows ever share a hostname, although HostnameExists is asked some time
\* before the row is stored: UNIQUE(hostname) closes the gap.
THEOREM HostnamesUniqueHolds == Spec => []HostnamesUnique
<1>1. Init => HostnamesUnique
  BY DEF Init, HostnamesUnique
<1>2. QED
  BY <1>1, InitPTypeOK, NextPTypeOK, NextUnique, PTL DEF Spec

----------------------------------------------------------------------------
(* What the client is told *)

\* A step of h leaves what another handler g counts on alone, or marks g as
\* disturbed.
LEMMA OthersKeep ==
    ASSUME PTypeOK, NEW h \in Handlers, NEW g \in Handlers, g # h, HandlerInv(g),
           hp'[g] = hp[g], req'[g] = req[g], seen'[g] = seen[g], out'[g] = out[g],
           \/ UNCHANGED proxies /\ disturbed'[g] = disturbed[g]
           \/ \E p \in ProxyIDs, r \in Row \cup {Absent} : Commit(h, p, r)
    PROVE  HandlerInv(g)'
<1>1. CountedOn(g)' = CountedOn(g)
  BY DEF CountedOn, Promised, UpdatedRow
<1>2. CASE UNCHANGED proxies /\ disturbed'[g] = disturbed[g]
  BY <1>1, <1>2 DEF HandlerInv, Counts
<1>3. ASSUME NEW p \in ProxyIDs, NEW r \in Row \cup {Absent}, Commit(h, p, r)
      PROVE  HandlerInv(g)'
  <2>1. ~disturbed'[g] => ~disturbed[g] /\ req[g].id # p
    BY <1>3 DEF Commit
  <2>2. req[g].id # p => proxies'[req[g].id] = proxies[req[g].id]
    BY <1>3 DEF Commit, PTypeOK, TableTypeOK
  <2>3. QED
    BY <1>1, <2>1, <2>2 DEF HandlerInv, Counts
<1>4. QED
  BY <1>2, <1>3

\* Steps of h that commit nothing.
LEMMA QuietAnswer ==
    ASSUME PTypeOK, NEW h \in Handlers, HandlerInv(h),
           \/ Arrive(h) \/ GetByID(h) \/ HostnameExists(h) \/ SyncCall(h)
           \/ (\E ok \in BOOLEAN : SyncReturn(h, ok)) \/ DbError(h) \/ RollbackFails(h)
    PROVE  HandlerInv(h)'
<1> USE DEF HandlerInv, Counts, CountedOn, Promised, UpdatedRow, Goto, Finish, NoCommit, PTypeOK,
            Request, Kinds
<1>1. CASE Arrive(h)
  <2>1. /\ hp'[h] \in {"check", "read"} /\ out'[h] = "none"
        /\ seen'[h] = Absent
        /\ hp'[h] = "check" => req'[h].id = Absent /\ req'[h].kind = "create"
    BY <1>1 DEF Arrive
  <2>2. QED
    BY <2>1
<1>2. CASE GetByID(h)
  BY <1>2 DEF GetByID, TableTypeOK, Row
<1>3. CASE HostnameExists(h)
  BY <1>3 DEF HostnameExists
<1>4. CASE SyncCall(h)
  BY <1>4 DEF SyncCall
<1>5. ASSUME NEW ok \in BOOLEAN, SyncReturn(h, ok)
      PROVE  HandlerInv(h)'
  BY <1>5 DEF SyncReturn
<1>6. CASE DbError(h)
  BY <1>6 DEF DbError
<1>7. CASE RollbackFails(h)
  BY <1>7 DEF RollbackFails
<1>8. QED
  BY <1>1, <1>2, <1>3, <1>4, <1>5, <1>6, <1>7

\* Steps of h that commit, or are refused by UNIQUE.
LEMMA CommitAnswer ==
    ASSUME PTypeOK, NEW h \in Handlers, HandlerInv(h),
           CreateStore(h) \/ UpdateStore(h) \/ DeleteStore(h) \/ StatusStore(h) \/ Rollback(h)
    PROVE  HandlerInv(h)'
<1> USE AbsentAssumption
    DEF HandlerInv, Counts, CountedOn, Promised, UpdatedRow, PTypeOK, TableTypeOK, Commit
<1>1. CASE CreateStore(h)
  <2>1. req[h] \in Request /\ req[h].kind = "create" /\ req[h].id = Absent /\ req[h].row \in Row
    BY <1>1 DEF CreateStore
  <2>2. CASE Taken(req[h].row.host, Absent)
    BY <1>1, <2>1, <2>2 DEF CreateStore, Finish, NoCommit
  <2>3. CASE ~Taken(req[h].row.host, Absent)
    <3>1. PICK p \in ProxyIDs : /\ proxies' = [proxies EXCEPT ![p] = req[h].row]
                                /\ req' = [req EXCEPT ![h] = [req[h] EXCEPT !.id = p]]
                                /\ Goto(h, "sync")
      BY <1>1, <2>3 DEF CreateStore
    <3>2. [req[h] EXCEPT !.id = p] = [kind |-> "create", id |-> p, row |-> req[h].row]
      BY <2>1 DEF Request
    <3>3. /\ req'[h].id = p /\ req'[h].kind = "create" /\ req'[h].row = req[h].row
          /\ hp'[h] = "sync" /\ out'[h] = "none" /\ proxies'[p] = req[h].row
      BY <1>1, <3>1, <3>2 DEF Goto, CreateStore
    <3>4. QED
      BY <3>3
  <2>4. QED
    BY <2>2, <2>3
<1>2. CASE UpdateStore(h)
  BY <1>2 DEF UpdateStore, Goto, Finish, NoCommit
<1>3. CASE DeleteStore(h)
  BY <1>3 DEF DeleteStore, Goto
<1>4. CASE StatusStore(h)
  BY <1>4 DEF StatusStore, StatusRow, Goto, Row
<1>5. CASE Rollback(h)
  <2>1. /\ req[h].id \in ProxyIDs /\ hp'[h] = "idle" /\ out'[h] = "err"
        /\ req' = req /\ seen' = seen /\ disturbed'[h] = disturbed[h]
        /\ req[h].kind \in {"create", "enable"}
    BY <1>5 DEF Rollback, Finish
  <2>2. CASE req[h].kind = "create"
    BY <1>5, <2>1, <2>2 DEF Rollback
  <2>3. CASE req[h].kind = "enable"
    <3>1. proxies'[req[h].id] = StatusRow(req[h].id, FALSE)
      BY <1>5, <2>1, <2>3 DEF Rollback
    <3>2. seen[h] \in Row /\ seen[h].active = FALSE
      BY <1>5, <2>3 DEF Rollback, Row
    <3>3. ~disturbed[h] => proxies[req[h].id] = [seen[h] EXCEPT !.active = TRUE]
      BY <1>5, <2>1, <2>3 DEF Rollback
    <3>4. /\ [seen[h] EXCEPT !.active = TRUE] \in Row
          /\ [[seen[h] EXCEPT !.active = TRUE] EXCEPT !.active = FALSE] = seen[h]
      BY <3>2 DEF Row
    <3>5. ~disturbed[h] => StatusRow(req[h].id, FALSE) = seen[h]
      BY <3>3, <3>4 DEF StatusRow
    <3>6. QED
      BY <2>1, <2>3, <3>1, <3>5
  <2>4. QED
    BY <2>1, <2>2, <2>3
<1>6. QED
  BY <1>1, <1>2, <1>3, <1>4, <1>5

\* Every action keeps AnswerInv.
LEMMA NextAnswer == PTypeOK /\ AnswerInv /\ [Next]_pvars => AnswerInv'
<1> SUFFICES ASSUME PTypeOK, AnswerInv, [Next]_pvars, NEW g \in Handlers
             PROVE  HandlerInv(g)'
  BY DEF AnswerInv
<1>1. HandlerInv(g)
  BY DEF AnswerInv
<1>2. ASSUME NEW h \in Handlers, g # h,
             \/ Arrive(h) \/ GetByID(h) \/ HostnameExists(h) \/ SyncCall(h)
             \/ (\E ok \in BOOLEAN : SyncReturn(h, ok)) \/ DbError(h) \/ RollbackFails(h)
      PROVE  HandlerInv(g)'
  <2>1. /\ hp'[g] = hp[g] /\ req'[g] = req[g] /\ seen'[g] = seen[g] /\ out'[g] = out[g]
        /\ UNCHANGED proxies /\ disturbed'[g] = disturbed[g]
    BY <1>2 DEF Arrive, GetByID, HostnameExists, SyncCall, SyncReturn, DbError, RollbackFails,
                Goto, Finish, NoCommit, PTypeOK
  <2>2. QED
    BY <1>1, <1>2, <2>1, OthersKeep
<1>3. ASSUME NEW h \in Handlers, g # h,
             CreateStore(h) \/ UpdateStore(h) \/ DeleteStore(h) \/ StatusStore(h) \/ Rollback(h)
      PROVE  HandlerInv(g)'
  <2>1. hp'[g] = hp[g] /\ req'[g] = req[g] /\ seen'[g] = seen[g] /\ out'[g] = out[g]
    BY <1>3 DEF CreateStore, UpdateStore, DeleteStore, StatusStore, Rollback,
                Goto, Finish, PTypeOK
  <2>2. \/ UNCHANGED proxies /\ disturbed'[g] = disturbed[g]
        \/ \E p \in ProxyIDs, r \in Row \cup {Absent} : Commit(h, p, r)
    <3>1. CASE CreateStore(h)
      BY <3>1 DEF CreateStore, NoCommit, PTypeOK
    <3>2. CASE UpdateStore(h)
      BY <3>2, StoredRows DEF UpdateStore, NoCommit, PTypeOK
    <3>3. CASE DeleteStore(h) \/ StatusStore(h) \/ Rollback(h)
      <4>1. req[h].id \in ProxyIDs
        BY <3>3 DEF DeleteStore, StatusStore, Rollback, PTypeOK
      <4>2. QED
        BY <3>3, <4>1, StoredRows DEF DeleteStore, StatusStore, Rollback
    <3>4. QED
      BY <1>3, <3>1, <3>2, <3>3
  <2>3. QED
    BY <1>1, <1>3, <2>1, <2>2, OthersKeep
<1>4. CASE Restart
  BY <1>4 DEF Restart, HandlerInv, Counts, NoRequest
<1>5. CASE UNCHANGED pvars
  BY <1>1, <1>5 DEF pvars, HandlerInv, Counts, CountedOn, Promised, UpdatedRow
<1>6. QED
  BY <1>1, <1>2, <1>3, <1>4, <1>5, QuietAnswer, CommitAnswer DEF Next, DbStep

\* However requests interleave and whatever fails, what the client was told
\* about a row nobody else wrote is what the table holds: refused requests
\* change nothing, failed creates and enables are undone.
THEOREM AnswerMatchesTableHolds == Spec => []AnswerMatchesTable
<1>1. Init => AnswerInv
  BY DEF Init, AnswerInv, HandlerInv, Counts, NoRequest
<1>2. PTypeOK /\ AnswerInv => AnswerMatchesTable
  <2> SUFFICES ASSUME PTypeOK, AnswerInv, NEW h \in Handlers, out[h] # "none", ~disturbed[h],
                      req[h].id # Absent, out[h] = "refused" => seen[h] # Absent
               PROVE  proxies[req[h].id] = Promised(h, out[h])
    BY DEF AnswerMatchesTable
  <2>1. HandlerInv(h) /\ hp[h] = "idle"
    BY DEF AnswerInv, HandlerInv
  <2>2. CountedOn(h) = Promised(h, out[h])
    BY <2>1 DEF CountedOn
  <2>3. QED
    BY <2>1, <2>2 DEF HandlerInv, Counts
<1>3. QED
  BY <1>1, <1>2, InitPTypeOK, NextPTypeOK, NextAnswer, PTL DEF Spec
============================================================================
