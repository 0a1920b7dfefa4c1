------------------------- MODULE AdminTablesProofs -------------------------
(***************************************************************************)
(* Layer-4 proxies, settings and the audit log, whose requests take no     *)
(* lock around what they read and write, for any number of requests; and   *)
(* the five parts of the admin API together.                               *)
(***************************************************************************)
EXTENDS AdminTables, AccountProofs, SequenceTheorems, FiniteSetTheorems, TLAPS

-----------------------------------------------------------------------------
(* Layer-4 proxies *)

\* A request has what its point needs: the id it is about and the row to write.
L4Ready(h) ==
    /\ l4todo[h] # <<>> => l4op[h] \in Bulk /\ l4pc[h] # "idle"
    /\ l4pc[h] = "load" => l4id[h] \in L4Ids /\ (l4op[h] = "update" => l4in[h] \in L4Row)
    /\ l4pc[h] = "check" => l4in[h] \in L4Row /\ (l4op[h] # "create" => l4id[h] \in L4Ids)
    /\ l4pc[h] = "store" => l4in[h] \in L4Row /\ (l4op[h] # "create" => l4id[h] \in L4Ids)

L4Inv == L4TypeOK /\ \A h \in L4Handlers : L4Ready(h)

LEMMA RowsStored ==
    ASSUME NEW r \in L4Row
    PROVE  /\ Inserted(r) \in L4Row /\ Inserted(r).at = r.at
           /\ Updated(r) \in L4Row /\ Updated(r).at = r.at
           /\ \A op \in L4Ops : Switched(op, r) \in L4Row /\ Switched(op, r).at = r.at
           /\ r.routes = {} => Inserted(r).routes = {}
  <1>1. r.at \in Endpoints /\ r.active \in BOOLEAN /\ r.routes \in SUBSET Route
    BY DEF L4Row
  <1>2. Stored(r.routes) \in SUBSET Route
    <2>1. \A x \in Route : [terminate |-> x.terminate, passthrough |-> TRUE] \in Route
      BY DEF Route
    <2> QED
      BY <1>1, <2>1 DEF Stored
  <1>3. Inserted(r) \in L4Row /\ Inserted(r).at = r.at
    BY <1>1, <1>2 DEF Inserted, L4Row
  <1>4. Updated(r) \in L4Row /\ Updated(r).at = r.at
    BY <1>1, <1>2 DEF Updated, L4Row
  <1>5. \A op \in L4Ops : Switched(op, r) \in L4Row /\ Switched(op, r).at = r.at
    BY <1>1 DEF Switched, L4Row
  <1>6. r.routes = {} => Inserted(r).routes = {}
    BY DEF Inserted, Stored
  <1> QED
    BY <1>3, <1>4, <1>5, <1>6

\* An operation that has its answer leaves its request ready for the next id, or idle.
LEMMA L4DoneKeeps ==
    ASSUME L4Inv, NEW h \in L4Handlers, L4Done(h)
    PROVE  /\ l4pc' \in [L4Handlers -> L4Points] /\ l4op' \in [L4Handlers -> L4Ops]
           /\ l4id' \in [L4Handlers -> L4Ids \cup {NoL4}]
           /\ l4in' \in [L4Handlers -> L4Row \cup {NoL4}]
           /\ l4todo' \in [L4Handlers -> Seq(L4Ids)]
           /\ \A g \in L4Handlers : L4Ready(g)'
  <1>1. CASE l4todo[h] # <<>>
    <2>1. Head(l4todo[h]) \in L4Ids /\ Tail(l4todo[h]) \in Seq(L4Ids)
      BY <1>1, HeadTailProperties DEF L4Inv, L4TypeOK
    <2>2. l4op[h] \in Bulk
      BY <1>1 DEF L4Inv, L4Ready
    <2>3. /\ l4pc' \in [L4Handlers -> L4Points] /\ l4op' = l4op
          /\ l4id' \in [L4Handlers -> L4Ids \cup {NoL4}]
          /\ l4in' \in [L4Handlers -> L4Row \cup {NoL4}]
      BY <1>1, <2>1 DEF L4Inv, L4TypeOK, L4Done, L4Goto, L4Points
    <2>7. l4todo' \in [L4Handlers -> Seq(L4Ids)]
      <3>1. l4todo' = [l4todo EXCEPT ![h] = Tail(l4todo[h])]
        BY <1>1 DEF L4Done
      <3> QED
        BY <3>1, <2>1 DEF L4Inv, L4TypeOK
    <2>4. l4pc'[h] = "load" /\ l4id'[h] \in L4Ids
      BY <1>1, <2>1 DEF L4Inv, L4TypeOK, L4Done, L4Goto
    <2>5. L4Ready(h)'
      BY <2>2, <2>3, <2>4 DEF L4Ready, Bulk
    <2>6. \A g \in L4Handlers \ {h} : L4Ready(g)'
      BY <1>1 DEF L4Inv, L4TypeOK, L4Done, L4Goto, L4Ready
    <2> QED
      BY <2>3, <2>5, <2>6, <2>7 DEF L4Inv, L4TypeOK
  <1>2. CASE l4todo[h] = <<>>
    <2>1. /\ l4pc' \in [L4Handlers -> L4Points] /\ l4op' \in [L4Handlers -> L4Ops]
          /\ l4id' \in [L4Handlers -> L4Ids \cup {NoL4}]
          /\ l4in' \in [L4Handlers -> L4Row \cup {NoL4}] /\ l4todo' = l4todo
      BY <1>2 DEF L4Inv, L4TypeOK, L4Done, L4Goto, L4Points, L4Ops
    <2>2. L4Ready(h)'
      BY <1>2 DEF L4Inv, L4TypeOK, L4Done, L4Goto, L4Ready
    <2>3. \A g \in L4Handlers \ {h} : L4Ready(g)'
      BY <1>2 DEF L4Inv, L4TypeOK, L4Done, L4Goto, L4Ready
    <2> QED
      BY <2>1, <2>2, <2>3 DEF L4Inv, L4TypeOK
  <1> QED
    BY <1>1, <1>2
\* A step of one request leaves the others as ready as they were.
LEMMA L4OthersKeep ==
    ASSUME L4Inv, NEW h \in L4Handlers, L4Ready(h)',
           \A g \in L4Handlers \ {h} :
              /\ l4pc'[g] = l4pc[g] /\ l4op'[g] = l4op[g] /\ l4id'[g] = l4id[g]
              /\ l4in'[g] = l4in[g] /\ l4todo'[g] = l4todo[g]
    PROVE  \A g \in L4Handlers : L4Ready(g)'
  BY DEF L4Inv, L4Ready

LEMMA L4BeginTyped ==
    ASSUME L4Inv, NEW h \in L4Handlers, NEW op \in L4Ops, NEW point \in L4Points,
           L4Begin(h, op, point)
    PROVE  /\ l4pc' \in [L4Handlers -> L4Points] /\ l4pc'[h] = point
           /\ l4op' \in [L4Handlers -> L4Ops] /\ l4op'[h] = op
           /\ \A g \in L4Handlers \ {h} : l4pc'[g] = l4pc[g] /\ l4op'[g] = l4op[g]
  BY DEF L4Inv, L4TypeOK, L4Begin, L4Goto

LEMMA L4CreateKeeps ==
    ASSUME L4Inv, NEW h \in L4Handlers, NEW r \in L4Inputs, L4Create(h, r)
    PROVE  L4Inv'
  <1>1. r \in L4Row
    BY L4Assumption
  <1>2. L4Begin(h, "create", "check") /\ "create" \in L4Ops /\ "check" \in L4Points
    BY DEF L4Create, L4Ops, L4Points
  <1>3. /\ l4in' \in [L4Handlers -> L4Row \cup {NoL4}] /\ l4in'[h] = r
        /\ \A g \in L4Handlers \ {h} : l4in'[g] = l4in[g]
    BY <1>1 DEF L4Inv, L4TypeOK, L4Create
  <1>4. UNCHANGED <<l4, l4Next, l4id, l4todo, exportVars, moved>>
    BY DEF L4Create, L4Begin
  <1>5. l4todo[h] = <<>>
    BY DEF L4Inv, L4Ready, L4Create, L4Begin, L4At
  <1>6. L4Ready(h)'
    BY <1>1, <1>2, <1>3, <1>4, <1>5, L4BeginTyped DEF L4Ready
  <1>7. \A g \in L4Handlers : L4Ready(g)'
    BY <1>2, <1>3, <1>4, <1>6, L4BeginTyped, L4OthersKeep
  <1> QED
    BY <1>2, <1>3, <1>4, <1>7, L4BeginTyped DEF L4Inv, L4TypeOK, exportVars

LEMMA L4RequestKeeps ==
    ASSUME L4Inv, NEW h \in L4Handlers, NEW i \in L4Ids,
           NEW op \in {"update", "toggle", "delete"}, NEW r \in L4Row \cup {NoL4},
           op = "update" => r \in L4Row, L4Request(h, op, i, r)
    PROVE  L4Inv'
  <1>1. L4Begin(h, op, "load") /\ op \in L4Ops /\ "load" \in L4Points
    BY DEF L4Request, L4Ops, L4Points
  <1>2. /\ l4in' \in [L4Handlers -> L4Row \cup {NoL4}] /\ l4in'[h] = r
        /\ l4id' \in [L4Handlers -> L4Ids \cup {NoL4}] /\ l4id'[h] = i
        /\ \A g \in L4Handlers \ {h} : l4in'[g] = l4in[g] /\ l4id'[g] = l4id[g]
    BY DEF L4Inv, L4TypeOK, L4Request
  <1>3. UNCHANGED <<l4, l4Next, l4todo, exportVars, moved>>
    BY DEF L4Request, L4Begin
  <1>4. l4todo[h] = <<>>
    BY DEF L4Inv, L4Ready, L4Request, L4Begin, L4At
  <1>5. L4Ready(h)'
    BY <1>1, <1>2, <1>3, <1>4, L4BeginTyped DEF L4Ready
  <1>6. \A g \in L4Handlers : L4Ready(g)'
    BY <1>1, <1>2, <1>3, <1>5, L4BeginTyped, L4OthersKeep
  <1> QED
    BY <1>1, <1>2, <1>3, <1>6, L4BeginTyped DEF L4Inv, L4TypeOK, exportVars

LEMMA L4BulkKeeps ==
    ASSUME L4Inv, NEW h \in L4Handlers, NEW op \in Bulk, NEW ids \in BulkLists,
           L4Bulk(h, op, ids)
    PROVE  L4Inv'
  <1>1. L4Begin(h, op, "load") /\ op \in L4Ops /\ "load" \in L4Points
    BY DEF L4Bulk, L4Ops, L4Points
  <1>2. Head(ids) \in L4Ids /\ Tail(ids) \in Seq(L4Ids)
    BY L4Assumption, HeadTailProperties
  <1>3. /\ l4todo' \in [L4Handlers -> Seq(L4Ids)]
        /\ l4id' \in [L4Handlers -> L4Ids \cup {NoL4}] /\ l4id'[h] \in L4Ids
        /\ \A g \in L4Handlers \ {h} : l4todo'[g] = l4todo[g] /\ l4id'[g] = l4id[g]
    BY <1>2 DEF L4Inv, L4TypeOK, L4Bulk
  <1>4. UNCHANGED <<l4, l4Next, l4in, exportVars, moved>>
    BY DEF L4Bulk, L4Begin
  <1>5. L4Ready(h)'
    BY <1>1, <1>3, <1>4, L4BeginTyped DEF L4Ready, Bulk
  <1>6. \A g \in L4Handlers : L4Ready(g)'
    BY <1>1, <1>3, <1>4, <1>5, L4BeginTyped, L4OthersKeep
  <1> QED
    BY <1>1, <1>3, <1>4, <1>6, L4BeginTyped DEF L4Inv, L4TypeOK, exportVars

LEMMA L4LoadKeeps ==
    ASSUME L4Inv, NEW h \in L4Handlers, L4Load(h) PROVE L4Inv'
  <1>1. UNCHANGED <<l4, l4Next, exportVars, moved>> /\ l4pc[h] = "load" /\ l4id[h] \in L4Ids
    BY DEF L4Load, L4At, L4Inv, L4Ready
  <1>2. CASE L4Done(h)
    BY <1>1, <1>2, L4DoneKeeps DEF L4Inv, L4TypeOK, exportVars
  <1>3. CASE /\ l4[l4id[h]] # NoL4
             /\ L4Goto(h, IF l4op[h] = "update" /\ l4in[h].at # l4[l4id[h]].at
                          THEN "check" ELSE "store")
             /\ l4in' = [l4in EXCEPT ![h] =
                            IF l4op[h] = "update" THEN @ ELSE Switched(l4op[h], l4[l4id[h]])]
             /\ UNCHANGED <<l4op, l4id, l4todo>>
    <2> DEFINE r == IF l4op[h] = "update" THEN l4in[h] ELSE Switched(l4op[h], l4[l4id[h]])
    <2>1. l4[l4id[h]] \in L4Row /\ l4op[h] \in L4Ops
      BY <1>1, <1>3 DEF L4Inv, L4TypeOK
    <2>2. r \in L4Row
      BY <1>1, <2>1, RowsStored DEF L4Inv, L4Ready
    <2>3. /\ l4in' \in [L4Handlers -> L4Row \cup {NoL4}] /\ l4in'[h] = r
          /\ \A g \in L4Handlers \ {h} : l4in'[g] = l4in[g]
      BY <1>3, <2>2 DEF L4Inv, L4TypeOK
    <2>4. /\ l4pc' \in [L4Handlers -> L4Points] /\ l4pc'[h] \in {"check", "store"}
          /\ \A g \in L4Handlers \ {h} : l4pc'[g] = l4pc[g]
      BY <1>3 DEF L4Inv, L4TypeOK, L4Goto, L4Points
    <2>5. L4Ready(h)'
      BY <1>1, <1>3, <2>2, <2>3, <2>4 DEF L4Inv, L4Ready
    <2>6. \A g \in L4Handlers : L4Ready(g)'
      BY <1>3, <2>3, <2>4, <2>5, L4OthersKeep
    <2> QED
      BY <1>1, <1>3, <2>3, <2>4, <2>6 DEF L4Inv, L4TypeOK, exportVars
  <1> QED
    BY <1>2, <1>3 DEF L4Load

LEMMA L4CheckKeeps ==
    ASSUME L4Inv, NEW h \in L4Handlers, L4Check(h) PROVE L4Inv'
  <1>1. UNCHANGED <<l4, l4Next, exportVars, moved>> /\ l4pc[h] = "check"
    BY DEF L4Check, L4At
  <1>2. CASE L4Done(h)
    BY <1>1, <1>2, L4DoneKeeps DEF L4Inv, L4TypeOK, exportVars
  <1>3. CASE L4Goto(h, "store") /\ UNCHANGED <<l4op, l4id, l4in, l4todo>>
    <2>1. /\ l4pc' \in [L4Handlers -> L4Points] /\ l4pc'[h] = "store"
          /\ \A g \in L4Handlers \ {h} : l4pc'[g] = l4pc[g]
      BY <1>3 DEF L4Inv, L4TypeOK, L4Goto, L4Points
    <2>2. L4Ready(h)'
      BY <1>1, <1>3, <2>1 DEF L4Inv, L4Ready
    <2>3. \A g \in L4Handlers : L4Ready(g)'
      BY <1>3, <2>1, <2>2, L4OthersKeep
    <2> QED
      BY <1>1, <1>3, <2>1, <2>3 DEF L4Inv, L4TypeOK, exportVars
  <1> QED
    BY <1>2, <1>3 DEF L4Check

\* What a write makes of the table.
LEMMA L4WriteTable ==
    ASSUME L4Inv, NEW h \in L4Handlers, L4Insert(h) \/ L4Save(h) \/ L4Delete(h)
    PROVE  /\ l4' \in [L4Ids -> L4Row \cup {NoL4}] /\ l4Next' \in 0 .. MaxL4
           /\ L4Done(h) /\ Moves /\ UNCHANGED exportVars
  <1>1. L4Done(h) /\ Moves /\ UNCHANGED exportVars
    BY DEF L4Insert, L4Save, L4Delete
  <1>3. CASE L4Insert(h)
    <2>1. l4in[h] \in L4Row /\ Inserted(l4in[h]) \in L4Row
      BY <1>3, RowsStored DEF L4Inv, L4Ready, L4Insert, L4At
    <2> QED
      BY <1>1, <1>3, <2>1, L4Assumption, SMTT(60) DEF L4Inv, L4TypeOK, L4Insert, L4Ids
  <1>4. CASE L4Save(h)
    <2>1. /\ l4in[h] \in L4Row /\ Inserted(l4in[h]) \in L4Row /\ Updated(l4in[h]) \in L4Row
          /\ l4id[h] \in L4Ids
      BY <1>4, RowsStored DEF L4Inv, L4Ready, L4Save, L4At
    <2>2. l4Next' \in 0 .. MaxL4
      BY <1>4 DEF L4Inv, L4TypeOK, L4Save
    <2>3. \/ l4' = l4
          \/ \E r \in L4Row : l4' = [l4 EXCEPT ![l4id[h]] = r]
      BY <1>4, <2>1 DEF L4Save
    <2>4. l4' \in [L4Ids -> L4Row \cup {NoL4}]
      BY <2>1, <2>3 DEF L4Inv, L4TypeOK
    <2> QED
      BY <1>1, <2>2, <2>4
  <1>5. CASE L4Delete(h)
    BY <1>1, <1>5 DEF L4Inv, L4TypeOK, L4Delete
  <1> QED
    BY <1>3, <1>4, <1>5

LEMMA L4WriteKeeps ==
    ASSUME L4Inv, NEW h \in L4Handlers, L4Insert(h) \/ L4Save(h) \/ L4Delete(h)
    PROVE  L4Inv'
  <1>1. moved' \in [L4Handlers -> BOOLEAN]
    BY L4WriteTable DEF Moves
  <1> QED
    BY <1>1, L4WriteTable, L4DoneKeeps DEF L4Inv, L4TypeOK, exportVars
LEMMA PresentFinite ==
    /\ Present \subseteq L4Ids /\ IsFiniteSet(Present) /\ Cardinality(Present) \in Nat
    /\ \A S \in SUBSET L4Ids : IsFiniteSet(S) /\ Cardinality(S) \in Nat
  <1>1. IsFiniteSet(L4Ids)
    BY L4Assumption, FS_Interval DEF L4Ids
  <1>2. \A S \in SUBSET L4Ids : IsFiniteSet(S) /\ Cardinality(S) \in Nat
    BY <1>1, FS_Subset, FS_CardinalityType
  <1>3. Present \subseteq L4Ids
    BY DEF Present
  <1> QED
    BY <1>2, <1>3

LEMMA L4AnswerKeeps ==
    ASSUME L4Inv, NEW h \in L4Handlers, L4Answer(h), UNCHANGED <<l4, l4Next>> PROVE L4Inv'
  <1>1. /\ exports' \in [L4Handlers -> SUBSET L4Ids] /\ there' \in [L4Handlers -> SUBSET L4Ids]
        /\ rowsRead' \in [L4Handlers -> Nat] /\ pagesRead' \in [L4Handlers -> Nat]
        /\ total' \in [L4Handlers -> Nat] /\ moved' \in [L4Handlers -> BOOLEAN]
    BY DEF L4Inv, L4TypeOK, L4Answer
  <1>2. L4Done(h)
    BY DEF L4Answer
  <1> QED
    BY <1>1, <1>2, L4DoneKeeps DEF L4Inv, L4TypeOK

\* A request that pages goes on.
LEMMA L4PagingKeeps ==
    ASSUME L4Inv, NEW h \in L4Handlers, NEW point \in {"find", "page", "exported"},
           L4Goto(h, point), UNCHANGED <<l4op, l4id, l4in, l4todo>>
    PROVE  l4pc' \in [L4Handlers -> L4Points] /\ \A g \in L4Handlers : L4Ready(g)'
  <1>1. /\ l4pc' \in [L4Handlers -> L4Points] /\ l4pc'[h] = point
        /\ \A g \in L4Handlers \ {h} : l4pc'[g] = l4pc[g]
    BY DEF L4Inv, L4TypeOK, L4Goto, L4Points
  <1>2. L4Ready(h)'
    BY <1>1 DEF L4Inv, L4Ready
  <1> QED
    BY <1>1, <1>2, L4OthersKeep

LEMMA L4ExportKeeps ==
    ASSUME L4Inv, NEW h \in L4Handlers,
           L4Export(h) \/ L4Count(h) \/ L4Find(h) \/ L4Exported(h)
    PROVE  L4Inv'
  <1>1. CASE L4Export(h)
    <2>1. L4Begin(h, "export", "page") /\ "export" \in L4Ops /\ "page" \in L4Points
      BY <1>1 DEF L4Export, L4Ops, L4Points
    <2>2. UNCHANGED <<l4, l4Next, l4id, l4in, l4todo, exports, rowsRead, pagesRead, total, moved>>
      BY <1>1 DEF L4Export, L4Begin
    <2>3. l4todo[h] = <<>>
      BY <2>1 DEF L4Inv, L4Ready, L4Begin, L4At
    <2>4. L4Ready(h)'
      BY <2>1, <2>2, <2>3, L4BeginTyped DEF L4Ready
    <2>5. \A g \in L4Handlers : L4Ready(g)'
      BY <2>1, <2>2, <2>4, L4BeginTyped, L4OthersKeep
    <2>6. there' \in [L4Handlers -> SUBSET L4Ids]
      BY <1>1, PresentFinite DEF L4Inv, L4TypeOK, L4Export
    <2> QED
      BY <2>1, <2>2, <2>5, <2>6, L4BeginTyped DEF L4Inv, L4TypeOK
  <1>2. CASE L4Count(h) /\ ~L4Answer(h)
    <2>1. total' \in [L4Handlers -> Nat]
      BY <1>2, PresentFinite DEF L4Inv, L4TypeOK, L4Count
    <2>2. L4Goto(h, "find") /\ UNCHANGED <<l4op, l4id, l4in, l4todo>>
      BY <1>2 DEF L4Count
    <2>3. UNCHANGED <<l4, l4Next, exports, rowsRead, pagesRead, there, moved>>
      BY <1>2 DEF L4Count
    <2> QED
      BY <2>1, <2>2, <2>3, L4PagingKeeps DEF L4Inv, L4TypeOK
  <1>3. CASE L4Find(h) /\ ~L4Answer(h)
    <2>1. PICK page \in SUBSET Present :
             /\ exports' = [exports EXCEPT ![h] = @ \cup page]
             /\ rowsRead' = [rowsRead EXCEPT ![h] = @ + Cardinality(page)]
             /\ pagesRead' = [pagesRead EXCEPT ![h] = @ + 1]
             /\ \E point \in {"page", "exported"} : L4Goto(h, point)
      BY <1>3 DEF L4Find, Newest
    <2>2. UNCHANGED <<l4, l4Next, l4op, l4id, l4in, l4todo, total, there, moved>>
      BY <1>3 DEF L4Find
    <2>3. page \subseteq L4Ids /\ Cardinality(page) \in Nat
      BY PresentFinite
    <2>4. /\ exports' \in [L4Handlers -> SUBSET L4Ids]
          /\ rowsRead' \in [L4Handlers -> Nat] /\ pagesRead' \in [L4Handlers -> Nat]
      BY <2>1, <2>3 DEF L4Inv, L4TypeOK
    <2>5. l4pc' \in [L4Handlers -> L4Points] /\ \A g \in L4Handlers : L4Ready(g)'
      BY <2>1, <2>2, L4PagingKeeps
    <2> QED
      BY <2>2, <2>4, <2>5 DEF L4Inv, L4TypeOK
  <1> QED
    BY <1>1, <1>2, <1>3, L4AnswerKeeps DEF L4Count, L4Find, L4Exported

LEMMA L4InitInv == L4Init => L4Inv
  <1> SUFFICES ASSUME L4Init PROVE L4Inv
    OBVIOUS
  <1>1. \A h \in L4Handlers : L4Ready(h)
    BY DEF L4Init, L4Ready
  <1>2. <<>> \in Seq(L4Ids)
    BY EmptySeq
  <1> QED
    BY <1>1, <1>2, L4Assumption DEF L4Init, L4Inv, L4TypeOK, L4Points, L4Ops

LEMMA L4StepKeeps == L4Inv /\ [L4Steps]_l4Vars => L4Inv'
  <1> SUFFICES ASSUME L4Inv, [L4Steps]_l4Vars PROVE L4Inv'
    OBVIOUS
  <1>1. ASSUME NEW h \in L4Handlers, L4Step(h) PROVE L4Inv'
    <2>1. CASE \E w \in L4Inputs : L4Create(h, w)
      BY <2>1, L4CreateKeeps
    <2>2. ASSUME NEW i \in 1 .. l4Next, NEW w \in L4Inputs, L4Request(h, "update", i, w)
          PROVE  L4Inv'
      <3>1. i \in L4Ids /\ w \in L4Row
        BY L4Assumption DEF L4Inv, L4TypeOK, L4Ids
      <3> QED
        BY <2>2, <3>1, L4RequestKeeps
    <2>3. ASSUME NEW i \in 1 .. l4Next, NEW op \in {"toggle", "delete"},
                 L4Request(h, op, i, NoL4)
          PROVE  L4Inv'
      <3>1. i \in L4Ids
        BY L4Assumption DEF L4Inv, L4TypeOK, L4Ids
      <3> QED
        BY <2>3, <3>1, L4RequestKeeps
    <2>4. CASE \E op \in Bulk, ids \in BulkLists : L4Bulk(h, op, ids)
      BY <2>4, L4BulkKeeps
    <2> QED
      BY <1>1, <2>1, <2>2, <2>3, <2>4, L4LoadKeeps, L4CheckKeeps, L4WriteKeeps, L4ExportKeeps
         DEF L4Step
  <1>2. CASE UNCHANGED l4Vars
    BY <1>2 DEF l4Vars, L4Inv, L4TypeOK, L4Ready
  <1> QED
    BY <1>1, <1>2 DEF L4Steps

LEMMA L4Inductive == L4Spec => []L4Inv
  BY L4InitInv, L4StepKeeps, PTL DEF L4Spec

\* Every request keeps the table and its own notes well typed.
THEOREM L4TypeCorrect == L4Spec => []L4TypeOK
  BY L4Inductive, PTL DEF L4Inv
\* The only steps that touch the table are the writes.
LEMMA L4TableFrame ==
    ASSUME NEW h \in L4Handlers, L4Step(h), ~(L4Insert(h) \/ L4Save(h) \/ L4Delete(h))
    PROVE  UNCHANGED <<l4, l4Next>>
  BY DEF L4Step, L4Create, L4Request, L4Bulk, L4Begin, L4Export, L4Load, L4Check, L4Count,
     L4Find, L4Exported

\* A write that puts a row at i finds no other row at its endpoint.
LEMMA L4WriteOne ==
    ASSUME L4Inv, NEW h \in L4Handlers, L4Insert(h) \/ L4Save(h) \/ L4Delete(h)
    PROVE  \/ l4' = l4
           \/ \E i \in L4Ids : l4' = [l4 EXCEPT ![i] = NoL4]
           \/ \E i \in L4Ids, r \in L4Row :
                 /\ l4' = [l4 EXCEPT ![i] = r]
                 /\ AtPort(r.at) \ {i} = {}
                 /\ l4[i] = NoL4 => i > l4Next \/ r.routes = {}
  <1>1. CASE L4Insert(h)
    <2>1. l4in[h] \in L4Row /\ Inserted(l4in[h]) \in L4Row /\ Inserted(l4in[h]).at = l4in[h].at
      BY <1>1, RowsStored DEF L4Inv, L4Ready, L4Insert, L4At
    <2>2. l4Next + 1 \in L4Ids /\ l4Next + 1 > l4Next
      BY <1>1, L4Assumption DEF L4Inv, L4TypeOK, L4Insert, L4Ids
    <2>3. \/ l4' = l4
          \/ AtPort(l4in[h].at) = {} /\ l4' = [l4 EXCEPT ![l4Next + 1] = Inserted(l4in[h])]
      BY <1>1 DEF L4Insert
    <2> QED
      BY <2>1, <2>2, <2>3
  <1>2. CASE L4Save(h)
    <2>1. /\ l4in[h] \in L4Row /\ l4id[h] \in L4Ids
          /\ Inserted(l4in[h]) \in L4Row /\ Inserted(l4in[h]).at = l4in[h].at
          /\ Updated(l4in[h]) \in L4Row /\ Updated(l4in[h]).at = l4in[h].at
          /\ l4in[h].routes = {} => Inserted(l4in[h]).routes = {}
      BY <1>2, RowsStored DEF L4Inv, L4Ready, L4Save, L4At
    <2>2. \/ l4' = l4
          \/ /\ AtPort(l4in[h].at) \ {l4id[h]} = {}
             /\ l4[l4id[h]] = NoL4 => l4in[h].routes = {}
             /\ l4' = [l4 EXCEPT ![l4id[h]] = IF l4[l4id[h]] = NoL4 THEN Inserted(l4in[h])
                                             ELSE Updated(l4in[h])]
      BY <1>2 DEF L4Save
    <2>3. CASE l4[l4id[h]] = NoL4
      BY <2>1, <2>2, <2>3
    <2>4. CASE l4[l4id[h]] # NoL4
      BY <2>1, <2>2, <2>4
    <2> QED
      BY <2>3, <2>4
  <1>3. CASE L4Delete(h)
    <2>1. l4id[h] \in L4Ids
      BY <1>3 DEF L4Inv, L4Ready, L4Delete, L4At
    <2> QED
      BY <1>3, <2>1 DEF L4Delete
  <1> QED
    BY <1>1, <1>2, <1>3

LEMMA L4StepUnique == L4Inv /\ EndpointsUnique /\ [L4Steps]_l4Vars => EndpointsUnique'
  <1> SUFFICES ASSUME L4Inv, EndpointsUnique, [L4Steps]_l4Vars PROVE EndpointsUnique'
    OBVIOUS
  <1>0. l4' = l4 => EndpointsUnique'
    BY DEF EndpointsUnique, Present
  <1>1. ASSUME NEW h \in L4Handlers, L4Insert(h) \/ L4Save(h) \/ L4Delete(h)
        PROVE  EndpointsUnique'
    <2>1. ASSUME NEW i \in L4Ids, l4' = [l4 EXCEPT ![i] = NoL4] PROVE EndpointsUnique'
      BY <2>1, L4Assumption DEF EndpointsUnique, Present, L4Inv, L4TypeOK
    <2>2. ASSUME NEW i \in L4Ids, NEW r \in L4Row, l4' = [l4 EXCEPT ![i] = r],
                 AtPort(r.at) \ {i} = {}
          PROVE  EndpointsUnique'
      <3>1. \A j \in L4Ids : l4'[j] = IF j = i THEN r ELSE l4[j]
        BY <2>2 DEF L4Inv, L4TypeOK
      <3>2. \A j \in L4Ids \ {i} : l4[j] # NoL4 => l4[j].at # r.at
        BY <2>2 DEF AtPort, Present
      <3> QED
        BY <3>1, <3>2 DEF EndpointsUnique, Present
    <2> QED
      BY <1>0, <1>1, <2>1, <2>2, L4WriteOne
  <1> QED
    BY <1>0, <1>1, L4TableFrame DEF L4Steps, l4Vars

\* However creates, updates and saves of old rows overlap between the port check
\* and the write, no two rows listen on one endpoint.
THEOREM EndpointsUniqueHolds == L4Spec => []EndpointsUnique
  <1>1. L4Init => EndpointsUnique
    BY DEF L4Init, EndpointsUnique, Present
  <1> QED
    BY <1>1, L4Inductive, L4StepUnique, PTL DEF L4Spec

\* A save of a row that was deleted since it was read brings back no routes.
THEOREM RoutesNeverReturnHolds == L4Spec => RoutesNeverReturn
  <1>1. L4Inv /\ [L4Steps]_l4Vars =>
           [\A i \in 1 .. l4Next : (l4[i] = NoL4 /\ l4'[i] # NoL4) => l4'[i].routes = {}]_l4Vars
    <2> SUFFICES ASSUME L4Inv, NEW h \in L4Handlers, L4Step(h), NEW i \in 1 .. l4Next,
                        l4[i] = NoL4, l4'[i] # NoL4
                 PROVE  l4'[i].routes = {}
      BY DEF L4Steps
    <2>1. L4Insert(h) \/ L4Save(h) \/ L4Delete(h)
      BY L4TableFrame
    <2>2. i \in L4Ids /\ ~(i > l4Next)
      BY L4Assumption DEF L4Inv, L4TypeOK, L4Ids
    <2>3. PICK j \in L4Ids, r \in L4Row \cup {NoL4} :
             /\ l4' = [l4 EXCEPT ![j] = r]
             /\ r = NoL4 \/ (l4[j] = NoL4 => j > l4Next \/ r.routes = {})
      BY <2>1, L4WriteOne
    <2>4. j = i /\ l4'[i] = r
      BY <2>2, <2>3 DEF L4Inv, L4TypeOK
    <2> QED
      BY <2>2, <2>3, <2>4
  <1> QED
    BY <1>1, L4Inductive, PTL DEF L4Spec, RoutesNeverReturn
\* The rows a listing has before row i.
Above(rows, i) == {j \in rows : j > i}

\* An export nothing was deleted under has whole pages, and a row it has not
\* collected has at least as many rows before it as were collected.
ExportInv(h) ==
    /\ l4pc[h] \notin {"page", "find", "exported"} => rowsRead[h] = 0 /\ pagesRead[h] = 0
    /\ l4pc[h] \in {"page", "find"} /\ ~moved[h] =>
          /\ rowsRead[h] = pagesRead[h] * PageSize
          /\ there[h] \subseteq Present
          /\ \A i \in there[h] \ exports[h] : Cardinality(Above(Present, i)) >= rowsRead[h]
    /\ l4pc[h] = "find" /\ ~moved[h] => total[h] = Cardinality(Present)
    /\ l4pc[h] = "exported" /\ ~moved[h] => there[h] \subseteq exports[h]

\* A row of the table that is on none of the pages so far comes after all of them,
\* and this page was full.
LEMMA PageRead ==
    ASSUME NEW P \in SUBSET L4Ids, NEW n \in Nat, NEW skip \in Newest(P, n),
           NEW page \in Newest(P \ skip, PageSize), NEW i \in P, i \notin page,
           Cardinality(Above(P, i)) >= n
    PROVE  /\ Cardinality(page) = PageSize
           /\ Cardinality(Above(P, i)) >= n + Cardinality(page)
           /\ Cardinality(P) > n + Cardinality(page)
  <1>1. /\ \A S \in SUBSET P : IsFiniteSet(S) /\ Cardinality(S) \in Nat
        /\ P \subseteq Nat /\ PageSize \in Nat
    BY PresentFinite, L4Assumption DEF L4Ids
  <1>2. /\ skip \subseteq P /\ \A j \in skip, k \in P \ skip : k < j
        /\ Cardinality(skip) = n \/ (skip = P /\ Cardinality(skip) < n)
    BY DEF Newest
  <1>3. /\ page \subseteq P \ skip /\ \A j \in page, k \in (P \ skip) \ page : k < j
        /\ Cardinality(page) = PageSize \/ page = P \ skip
    BY DEF Newest
  <1>4. Above(P, i) \subseteq P
    BY DEF Above
  <1>5. i \notin skip
    <2> SUFFICES ASSUME i \in skip PROVE FALSE
      OBVIOUS
    <2>1. Above(P, i) \subseteq skip \ {i}
      <3> SUFFICES ASSUME NEW j \in P, j > i PROVE j \in skip /\ j # i
        BY DEF Above
      <3>1. i \in Nat /\ j \in Nat
        BY <1>1
      <3>2. j \notin skip => j < i
        BY <1>2
      <3> QED
        BY <3>1, <3>2
    <2>2. IsFiniteSet(skip) /\ IsFiniteSet(skip \ {i}) /\ Cardinality(skip) \in Nat
      BY <1>1, <1>2
    <2>3. Cardinality(skip \ {i}) = Cardinality(skip) - 1
      BY <2>2, FS_RemoveElement
    <2>4. Cardinality(Above(P, i)) <= Cardinality(skip \ {i})
      BY <2>1, <2>2, FS_Subset
    <2>5. Cardinality(Above(P, i)) \in Nat
      BY <1>1, <1>4
    <2> QED
      BY <2>2, <2>3, <2>4, <2>5, <1>2
  <1>6. Cardinality(skip) = n
    BY <1>2, <1>5
  <1>7. Cardinality(page) = PageSize
    BY <1>3, <1>5
  <1>8. skip \cup page \subseteq Above(P, i)
    BY <1>1, <1>2, <1>3, <1>5 DEF Above
  <1>9. Cardinality(skip \cup page) = n + Cardinality(page)
    <2>1. IsFiniteSet(skip) /\ IsFiniteSet(page) /\ skip \cap page = {}
      BY <1>1, <1>2, <1>3
    <2>2. Cardinality(skip \cap page) = 0
      BY <2>1, FS_EmptySet
    <2>3. Cardinality(skip \cup page) = Cardinality(skip) + Cardinality(page) - Cardinality(skip \cap page)
      BY <2>1, FS_Union
    <2>4. Cardinality(page) \in Nat
      BY <1>1, <1>3
    <2> QED
      BY <2>2, <2>3, <2>4, <1>6
  <1>10. Cardinality(Above(P, i)) >= n + Cardinality(page)
    <2>1. Cardinality(skip \cup page) <= Cardinality(Above(P, i))
      BY <1>1, <1>4, <1>8, FS_Subset
    <2>2. Cardinality(Above(P, i)) \in Nat /\ Cardinality(page) \in Nat
      BY <1>1, <1>3, <1>4
    <2> QED
      BY <2>1, <2>2, <1>9
  <1>11. Cardinality(P) > n + Cardinality(page)
    <2>1. Above(P, i) \subseteq P \ {i}
      BY <1>1 DEF Above
    <2>2. Cardinality(P \ {i}) = Cardinality(P) - 1 /\ IsFiniteSet(P \ {i}) /\ Cardinality(P) \in Nat
      BY <1>1, FS_RemoveElement
    <2>3. Cardinality(Above(P, i)) <= Cardinality(P \ {i})
      BY <2>1, <2>2, FS_Subset
    <2>4. Cardinality(Above(P, i)) \in Nat /\ Cardinality(page) \in Nat
      BY <1>1, <1>3, <1>4
    <2> QED
      BY <2>2, <2>3, <2>4, <1>10
  <1> QED
    BY <1>7, <1>10, <1>11

LEMMA AboveGrows ==
    ASSUME NEW P \in SUBSET L4Ids, NEW Q \in SUBSET L4Ids, P \subseteq Q, NEW i, NEW n \in Nat,
           Cardinality(Above(P, i)) >= n
    PROVE  Cardinality(Above(Q, i)) >= n
  <1>1. Above(P, i) \subseteq Above(Q, i) /\ Above(Q, i) \subseteq L4Ids
    BY DEF Above
  <1>2. Above(P, i) \subseteq L4Ids
    BY <1>1
  <1>3. /\ IsFiniteSet(Above(Q, i)) /\ Cardinality(Above(Q, i)) \in Nat
        /\ Cardinality(Above(P, i)) \in Nat
    BY <1>1, <1>2, PresentFinite
  <1>4. Cardinality(Above(P, i)) <= Cardinality(Above(Q, i))
    BY <1>1, <1>3, FS_Subset
  <1> QED
    BY <1>3, <1>4

\* A step that is not the export's own.
LEMMA ExportSurvives ==
    ASSUME L4Inv, NEW g \in L4Handlers, ExportInv(g), l4pc'[g] = l4pc[g],
           rowsRead'[g] = rowsRead[g], pagesRead'[g] = pagesRead[g], total'[g] = total[g],
           there'[g] = there[g], exports'[g] = exports[g],
           \/ l4' = l4 /\ moved'[g] = moved[g]
           \/ Moves
    PROVE  ExportInv(g)'
  <1>1. Present \subseteq L4Ids /\ Present' \subseteq L4Ids /\ rowsRead[g] \in Nat
    BY DEF Present, L4Inv, L4TypeOK
  <1>2. /\ ~moved'[g] => ~moved[g]
        /\ l4pc[g] = "page" /\ ~moved'[g] => Present \subseteq Present'
        /\ l4pc[g] = "find" /\ ~moved'[g] => Present = Present'
    <2>1. CASE l4' = l4 /\ moved'[g] = moved[g]
      BY <2>1 DEF Present
    <2>2. CASE Moves
      BY <2>2 DEF Moves, L4At
    <2> QED
      BY <2>1, <2>2
  <1>3. ASSUME l4pc[g] \in {"page", "find"}, ~moved'[g], NEW i \in there[g] \ exports[g]
        PROVE  Cardinality(Above(Present', i)) >= rowsRead[g]
    <2>1. Cardinality(Above(Present, i)) >= rowsRead[g] /\ Present \subseteq Present'
      BY <1>2, <1>3 DEF ExportInv
    <2> QED
      BY <1>1, <2>1, AboveGrows
  <1> QED
    BY <1>2, <1>3 DEF ExportInv
LEMMA ExportOthers ==
    ASSUME L4Inv, NEW h \in L4Handlers, L4Step(h), NEW g \in L4Handlers \ {h}, ExportInv(g)
    PROVE  ExportInv(g)'
  <1>1. l4pc'[g] = l4pc[g]
    <2>1. \A point : L4Goto(h, point) => l4pc'[g] = l4pc[g]
      BY DEF L4Goto, L4Inv, L4TypeOK
    <2>2. (L4Done(h) \/ L4Answer(h)) => l4pc'[g] = l4pc[g]
      BY <2>1 DEF L4Done, L4Answer
    <2>3. CASE L4Insert(h) \/ L4Save(h) \/ L4Delete(h) \/ L4Exported(h)
      BY <2>2, <2>3 DEF L4Insert, L4Save, L4Delete, L4Exported
    <2>4. CASE ~(L4Insert(h) \/ L4Save(h) \/ L4Delete(h) \/ L4Exported(h))
      BY <2>1, <2>2, <2>4 DEF L4Step, L4Create, L4Request, L4Bulk, L4Begin, L4Export, L4Load,
         L4Check, L4Count, L4Find
    <2> QED
      BY <2>3, <2>4
  <1>2. CASE L4Insert(h) \/ L4Save(h) \/ L4Delete(h)
    BY <1>1, <1>2, ExportSurvives, L4WriteTable DEF exportVars
  <1>3. CASE ~(L4Insert(h) \/ L4Save(h) \/ L4Delete(h))
    <2>1. /\ rowsRead'[g] = rowsRead[g] /\ pagesRead'[g] = pagesRead[g] /\ total'[g] = total[g]
          /\ there'[g] = there[g] /\ exports'[g] = exports[g] /\ moved'[g] = moved[g]
      <3>1. CASE UNCHANGED <<exportVars, moved>>
        BY <3>1 DEF exportVars
      <3>2. CASE L4Answer(h)
        BY <3>2 DEF L4Answer, L4Inv, L4TypeOK
      <3>3. CASE L4Export(h)
        BY <3>3 DEF L4Export, L4Inv, L4TypeOK
      <3>4. CASE L4Count(h)
        BY <3>2, <3>4 DEF L4Count, L4Inv, L4TypeOK
      <3>5. CASE L4Find(h)
        <4>1. L4Answer(h) \/ \E page, n :
                 /\ exports' = [exports EXCEPT ![h] = @ \cup page]
                 /\ rowsRead' = [rowsRead EXCEPT ![h] = n]
                 /\ pagesRead' = [pagesRead EXCEPT ![h] = @ + 1]
                 /\ UNCHANGED <<total, there, moved>>
          BY <3>5, Zenon DEF L4Find
        <4>2. ASSUME NEW page, NEW n,
                     exports' = [exports EXCEPT ![h] = @ \cup page],
                     rowsRead' = [rowsRead EXCEPT ![h] = n],
                     pagesRead' = [pagesRead EXCEPT ![h] = @ + 1]
              PROVE  exports'[g] = exports[g] /\ rowsRead'[g] = rowsRead[g]
                     /\ pagesRead'[g] = pagesRead[g]
          BY <4>2 DEF L4Inv, L4TypeOK
        <4> QED
          BY <3>2, <4>1, <4>2
      <3> QED
        BY <1>3, <3>1, <3>2, <3>3, <3>4, <3>5
           DEF L4Step, L4Create, L4Request, L4Bulk, L4Load, L4Check, L4Exported
    <2>2. l4' = l4
      BY <1>3, L4TableFrame
    <2> QED
      BY <1>1, <2>1, <2>2, ExportSurvives
  <1> QED
    BY <1>2, <1>3

\* The answer is sent.
LEMMA AnswerEndsExport ==
    ASSUME L4Inv, NEW h \in L4Handlers, L4Answer(h) PROVE ExportInv(h)'
  <1>1. l4pc'[h] \in {"idle", "load"}
    BY DEF L4Answer, L4Done, L4Goto, L4Inv, L4TypeOK
  <1>2. rowsRead'[h] = 0 /\ pagesRead'[h] = 0
    BY DEF L4Answer, L4Inv, L4TypeOK
  <1> QED
    BY <1>1, <1>2 DEF ExportInv

LEMMA FindKeepsExport ==
    ASSUME L4Inv, NEW h \in L4Handlers, ExportInv(h), L4Find(h), ~L4Answer(h)
    PROVE  ExportInv(h)'
  <1>1. PICK skip \in Newest(Present, pagesRead[h] * PageSize), page \in SUBSET Present :
           /\ page \in Newest(Present \ skip, PageSize)
           /\ exports' = [exports EXCEPT ![h] = @ \cup page]
           /\ rowsRead' = [rowsRead EXCEPT ![h] = @ + Cardinality(page)]
           /\ pagesRead' = [pagesRead EXCEPT ![h] = @ + 1]
           /\ L4Goto(h, IF ExportEnds(page, rowsRead[h] + Cardinality(page), total[h])
                        THEN "exported" ELSE "page")
    BY DEF L4Find, Newest
  <1>2. l4pc[h] = "find" /\ UNCHANGED <<l4, total, there, moved>>
    BY DEF L4Find, L4At
  <1>3. /\ exports'[h] = exports[h] \cup page
        /\ rowsRead'[h] = rowsRead[h] + Cardinality(page)
        /\ pagesRead'[h] = pagesRead[h] + 1
        /\ l4pc'[h] = IF ExportEnds(page, rowsRead[h] + Cardinality(page), total[h])
                      THEN "exported" ELSE "page"
    BY <1>1 DEF L4Inv, L4TypeOK, L4Goto
  <1>4. Present' = Present
    BY <1>2 DEF Present
  <1>5. CASE moved[h]
    BY <1>2, <1>3, <1>5 DEF ExportInv
  <1>6. CASE ~moved[h]
    <2>1. /\ rowsRead[h] = pagesRead[h] * PageSize /\ there[h] \subseteq Present
          /\ total[h] = Cardinality(Present) /\ rowsRead[h] \in Nat /\ pagesRead[h] \in Nat
          /\ PageSize \in Nat \ {0}
      BY <1>2, <1>6, L4Assumption DEF ExportInv, L4Inv, L4TypeOK
    <2>2. page \subseteq Present /\ Cardinality(page) \in Nat
      <3>1. page \subseteq Present
        OBVIOUS
      <3>2. page \subseteq L4Ids
        BY <3>1, PresentFinite
      <3> QED
        BY <3>1, <3>2, PresentFinite
    <2>3. ASSUME NEW i \in there[h], i \notin exports'[h]
          PROVE  /\ Cardinality(page) = PageSize
                 /\ Cardinality(Above(Present, i)) >= rowsRead[h] + Cardinality(page)
                 /\ Cardinality(Present) > rowsRead[h] + Cardinality(page)
      <3>1. i \in Present /\ i \notin page /\ Cardinality(Above(Present, i)) >= rowsRead[h]
        BY <1>2, <1>3, <1>6, <2>1, <2>3 DEF ExportInv
      <3>2. skip \in Newest(Present, rowsRead[h]) /\ Present \in SUBSET L4Ids
        BY <2>1, PresentFinite
      <3> QED
        BY <1>1, <2>1, <3>1, <3>2, PageRead
    <2>4. CASE there[h] \subseteq exports'[h]
      <3>1. l4pc'[h] = "page" => Cardinality(page) = PageSize
        <4> SUFFICES ASSUME l4pc'[h] = "page", Cardinality(page) # PageSize PROVE FALSE
          OBVIOUS
        <4>1. page # {} /\ ~(rowsRead[h] + Cardinality(page) >= total[h])
          BY <1>3 DEF ExportEnds
        <4>2. page = Present \ skip /\ skip \subseteq Present
          BY <1>1 DEF Newest
        <4>3. Cardinality(skip) <= rowsRead[h] /\ IsFiniteSet(skip) /\ Cardinality(skip) \in Nat
          <5>1. skip \subseteq L4Ids
            BY <4>2, PresentFinite
          <5>2. IsFiniteSet(skip) /\ Cardinality(skip) \in Nat
            BY <5>1, PresentFinite
          <5> QED
            BY <2>1, <5>2 DEF Newest
        <4>4. Cardinality(Present) = Cardinality(skip) + Cardinality(page)
          <5>1. IsFiniteSet(page) /\ skip \cup page = Present /\ skip \cap page = {}
            BY <2>2, <4>2, PresentFinite
          <5>2. Cardinality(skip \cap page) = 0
            BY <5>1, FS_EmptySet
          <5>3. Cardinality(skip \cup page) =
                   Cardinality(skip) + Cardinality(page) - Cardinality(skip \cap page)
            BY <4>3, <5>1, FS_Union
          <5>4. Cardinality(skip \cup page) = Cardinality(Present)
            BY <5>1
          <5> QED
            BY <4>3, <5>2, <5>3, <5>4, <2>2
        <4> QED
          BY <2>1, <2>2, <4>1, <4>3, <4>4
      <3>2. l4pc'[h] = "page" => rowsRead'[h] = pagesRead'[h] * PageSize
        BY <1>3, <2>1, <3>1
      <3> QED
        BY <1>2, <1>3, <1>4, <2>1, <2>4, <3>2 DEF ExportInv
    <2>5. CASE ~(there[h] \subseteq exports'[h])
      <3>1. Cardinality(page) = PageSize /\ Cardinality(Present) > rowsRead[h] + Cardinality(page)
        BY <2>3, <2>5
      <3>2. page # {}
        BY <2>1, <3>1, FS_EmptySet
      <3>3. l4pc'[h] = "page"
        BY <1>3, <2>1, <2>2, <3>1, <3>2, PresentFinite DEF ExportEnds
      <3>4. rowsRead'[h] = pagesRead'[h] * PageSize
        BY <1>3, <2>1, <3>1
      <3> QED
        BY <1>2, <1>3, <1>4, <2>1, <2>3, <3>3, <3>4 DEF ExportInv
    <2> QED
      BY <2>4, <2>5
  <1> QED
    BY <1>5, <1>6

LEMMA ExportOwn ==
    ASSUME L4Inv, NEW h \in L4Handlers, L4Step(h), ExportInv(h) PROVE ExportInv(h)'
  <1>1. CASE L4Count(h) \/ L4Find(h) \/ L4Exported(h)
    <2>1. CASE L4Answer(h)
      BY <2>1, AnswerEndsExport
    <2>2. CASE L4Count(h) /\ ~L4Answer(h)
      <3>1. l4pc[h] = "page" /\ l4pc'[h] = "find" /\ total'[h] = Cardinality(Present)
        BY <2>2 DEF L4Count, L4At, L4Goto, L4Inv, L4TypeOK
      <3>2. UNCHANGED <<l4, exports, rowsRead, pagesRead, there, moved>>
        BY <2>2 DEF L4Count
      <3> QED
        BY <3>1, <3>2 DEF ExportInv, Present
    <2> QED
      BY <1>1, <2>1, <2>2, FindKeepsExport DEF L4Exported
  <1>2. CASE L4Export(h)
    <2>1. /\ l4pc[h] = "idle" /\ l4pc'[h] = "page" /\ there'[h] = Present
          /\ rowsRead' = rowsRead /\ pagesRead' = pagesRead /\ l4' = l4
      BY <1>2 DEF L4Export, L4Begin, L4At, L4Goto, L4Inv, L4TypeOK
    <2>2. rowsRead[h] = 0 /\ pagesRead[h] = 0 /\ 0 = 0 * PageSize
      BY <2>1, L4Assumption DEF ExportInv
    <2>3. \A i \in Present : Cardinality(Above(Present, i)) >= 0
      <3>1. \A i \in Present : Above(Present, i) \in SUBSET L4Ids
        BY PresentFinite DEF Above
      <3>2. \A S \in SUBSET L4Ids : Cardinality(S) >= 0
        BY PresentFinite
      <3> QED
        BY <3>1, <3>2
    <2> QED
      BY <2>1, <2>2, <2>3 DEF ExportInv, Present
  <1>3. CASE ~(L4Count(h) \/ L4Find(h) \/ L4Exported(h) \/ L4Export(h))
    <2>1. /\ l4pc[h] \notin {"page", "find", "exported"}
          /\ l4pc'[h] \notin {"page", "find", "exported"}
      BY <1>3 DEF L4Step, L4Create, L4Request, L4Bulk, L4Begin, L4Load, L4Check, L4Insert,
         L4Save, L4Delete, L4Done, L4At, L4Goto, L4Inv, L4TypeOK
    <2>2. rowsRead' = rowsRead /\ pagesRead' = pagesRead
      BY <1>3 DEF L4Step, L4Create, L4Request, L4Bulk, L4Load, L4Check, L4Insert, L4Save,
         L4Delete, exportVars
    <2> QED
      BY <2>1, <2>2 DEF ExportInv
  <1> QED
    BY <1>1, <1>2, <1>3

\* An export that paged while rows came, and none went, is complete, unless a row
\* came between the two queries of one page.
THEOREM ExportCoversHolds == L4Spec => []ExportCovers
  <1> DEFINE AllExports == \A h \in L4Handlers : ExportInv(h)
  <1>1. L4Init => AllExports
    BY DEF L4Init, ExportInv
  <1>2. L4Inv /\ AllExports /\ [L4Steps]_l4Vars => AllExports'
    <2> SUFFICES ASSUME L4Inv, AllExports, [L4Steps]_l4Vars PROVE AllExports'
      OBVIOUS
    <2>1. ASSUME NEW h \in L4Handlers, L4Step(h) PROVE AllExports'
      BY <2>1, ExportOwn, ExportOthers
    <2>2. CASE UNCHANGED l4Vars
      BY <2>2 DEF l4Vars, ExportInv, Present
    <2> QED
      BY <2>1, <2>2 DEF L4Steps
  <1>3. AllExports => ExportCovers
    BY DEF ExportInv, ExportCovers, L4At
  <1> QED
    BY <1>1, <1>2, <1>3, L4Inductive, PTL DEF L4Spec
-----------------------------------------------------------------------------
(* The audit log *)

\* What a request holds and nobody has overtaken is the setting, and so is the
\* cache, unless it is stale or about to be overwritten.
CacheInv ==
    /\ \A h \in Loggers : apc[h] \in {"cache", "fill"} /\ ~raced[h] => config[h] = auditConfig
    /\ ~stale /\ configCache # NoConfig /\ (\A h \in Loggers : apc[h] # "cache") =>
          configCache = auditConfig

AuditInv == AuditTypeOK /\ CacheInv

LEMMA AuditInitInv == AuditInit => AuditInv
  <1> SUFFICES ASSUME AuditInit PROVE AuditInv
    OBVIOUS
  <1>1. NoAction \in Actions
    BY AuditAssumption DEF NoAction
  <1>2. AuditTypeOK
    <2>1. raced \in [Loggers -> BOOLEAN] /\ (\A h \in Loggers : ~raced[h]) /\ stale \in BOOLEAN
      BY DEF AuditInit
    <2>2. /\ action \in [Loggers -> Actions] /\ config \in [Loggers -> SUBSET Actions]
          /\ apc \in [Loggers -> {"idle", "cache", "event", "load", "fill", "insert"}]
          /\ auditConfig \in SUBSET Actions /\ configCache = NoConfig
      BY <1>1 DEF AuditInit, DefaultAuditConfig
    <2>3. lost \in 0 .. MaxLost
      BY AuditAssumption DEF AuditInit
    <2> QED
      BY <2>1, <2>2, <2>3 DEF AuditTypeOK
  <1>3. CacheInv
    BY DEF AuditInit, CacheInv
  <1> QED
    BY <1>2, <1>3 DEF AuditInv

LEMMA AuditEndsTyped ==
    ASSUME AuditTypeOK, NEW h \in Loggers, AuditEnds(h)
    PROVE  /\ apc' \in [Loggers -> {"idle", "cache", "event", "load", "fill", "insert"}]
           /\ apc'[h] = "idle" /\ action' \in [Loggers -> Actions]
           /\ config' \in [Loggers -> SUBSET Actions]
           /\ raced' \in [Loggers -> BOOLEAN] /\ ~raced'[h]
           /\ \A x \in Loggers \ {h} :
                 apc'[x] = apc[x] /\ config'[x] = config[x] /\ raced'[x] = raced[x]
  <1>1. NoAction \in Actions
    BY AuditAssumption DEF NoAction
  <1> QED
    BY <1>1 DEF AuditTypeOK, AuditEnds, AuditTo, DefaultAuditConfig

LEMMA DecideTyped ==
    ASSUME AuditTypeOK, NEW h \in Loggers, NEW c, Decide(h, c)
    PROVE  /\ apc' \in [Loggers -> {"idle", "cache", "event", "load", "fill", "insert"}]
           /\ apc'[h] = (IF isEventEnabled(c, action[h]) THEN "insert" ELSE "idle")
           /\ action' \in [Loggers -> Actions] /\ config' \in [Loggers -> SUBSET Actions]
           /\ raced' \in [Loggers -> BOOLEAN] /\ (raced'[h] => apc'[h] = "insert")
           /\ \A x \in Loggers \ {h} :
                 apc'[x] = apc[x] /\ config'[x] = config[x] /\ raced'[x] = raced[x]
  <1>1. CASE isEventEnabled(c, action[h])
    <2>1. AuditTo(h, "insert") /\ UNCHANGED <<action, config, raced>>
      BY <1>1 DEF Decide
    <2> QED
      BY <1>1, <2>1 DEF AuditTypeOK, AuditTo
  <1>2. CASE ~isEventEnabled(c, action[h])
    BY <1>2, AuditEndsTyped DEF Decide
  <1> QED
    BY <1>1, <1>2

LEMMA StoreTyped ==
    ASSUME AuditInv, NEW h \in Loggers, apc[h] = "idle", Overtaken(h)
    PROVE  /\ raced' \in [Loggers -> BOOLEAN] /\ ~raced'[h]
           /\ \A x \in Loggers \ {h} : apc[x] \in {"cache", "fill"} => raced'[x]
           /\ \A x \in Loggers : raced'[x] => apc[x] \in {"cache", "fill", "insert"}
  BY DEF AuditInv, AuditTypeOK, Overtaken

LEMMA AuditStepInv == AuditInv /\ [AuditNext]_auditVars => AuditInv'
  <1> SUFFICES ASSUME AuditInv, [AuditNext]_auditVars PROVE AuditInv'
    OBVIOUS
  <1> USE AuditAssumption
  <1>0. AuditTypeOK /\ CacheInv
    BY DEF AuditInv
  <1>1. ASSUME NEW h \in Loggers, NEW c \in AuditInputs, SetConfigStore(h, c) PROVE AuditInv'
    <2>1. /\ apc[h] = "idle" /\ Overtaken(h) /\ auditConfig' = c /\ c \in SUBSET Actions
          /\ UNCHANGED <<configCache, action, stale, lost>>
      BY <1>1 DEF SetConfigStore
    <2>2. /\ apc' \in [Loggers -> {"idle", "cache", "event", "load", "fill", "insert"}]
          /\ apc'[h] = "cache" /\ config' \in [Loggers -> SUBSET Actions] /\ config'[h] = c
          /\ \A x \in Loggers \ {h} : apc'[x] = apc[x] /\ config'[x] = config[x]
      BY <1>0, <1>1, <2>1 DEF SetConfigStore, AuditTo, AuditTypeOK
    <2>3. AuditTypeOK'
      BY <1>0, <2>1, <2>2, StoreTyped DEF AuditTypeOK
    <2>4. CacheInv'
      BY <2>1, <2>2, StoreTyped DEF CacheInv
    <2> QED
      BY <2>3, <2>4 DEF AuditInv
  <1>2. ASSUME NEW h \in Loggers, NEW c \in AuditInputs, StoreElsewhere(h, c) PROVE AuditInv'
    <2>1. /\ apc[h] = "idle" /\ Overtaken(h) /\ auditConfig' = c /\ c \in SUBSET Actions
          /\ UNCHANGED <<configCache, apc, action, config, lost>>
          /\ stale' = (stale \/ configCache # NoConfig)
      BY <1>2 DEF StoreElsewhere
    <2>2. AuditTypeOK'
      BY <1>0, <2>1, StoreTyped DEF AuditTypeOK
    <2>3. CacheInv'
      BY <2>1, StoreTyped DEF CacheInv
    <2> QED
      BY <2>2, <2>3 DEF AuditInv
  <1>3. ASSUME NEW h \in Loggers, NEW a \in Actions, LogEvent(h, a) PROVE AuditInv'
    <2>1. AuditTypeOK'
      BY <1>0, <1>3 DEF LogEvent, AuditTo, AuditTypeOK
    <2>2. CacheInv'
      BY <1>0, <1>3 DEF LogEvent, AuditTo, AuditTypeOK, CacheInv
    <2> QED
      BY <2>1, <2>2 DEF AuditInv
  <1>4. ASSUME NEW h \in Loggers, SetConfigCache(h) PROVE AuditInv'
    <2>1. /\ apc[h] = "cache" /\ configCache' = config[h] /\ stale' = raced[h] /\ AuditEnds(h)
          /\ UNCHANGED <<auditConfig, lost>>
      BY <1>4 DEF SetConfigCache
    <2>2. AuditTypeOK'
      BY <1>0, <2>1, AuditEndsTyped DEF AuditTypeOK
    <2>3. CacheInv'
      BY <1>0, <2>1, AuditEndsTyped DEF CacheInv
    <2> QED
      BY <2>2, <2>3 DEF AuditInv
  <1>5. ASSUME NEW h \in Loggers, FromCache(h) PROVE AuditInv'
    <2>1. Decide(h, configCache) /\ UNCHANGED <<auditConfig, configCache, stale, lost>> /\ apc[h] = "event"
      BY <1>5 DEF FromCache
    <2>2. AuditTypeOK'
      BY <1>0, <2>1, DecideTyped DEF AuditTypeOK
    <2>3. CacheInv'
      BY <1>0, <2>1, DecideTyped DEF CacheInv
    <2> QED
      BY <2>2, <2>3 DEF AuditInv
  <1>6. ASSUME NEW h \in Loggers, NotCached(h) PROVE AuditInv'
    <2>1. AuditTypeOK'
      BY <1>0, <1>6 DEF NotCached, AuditTo, AuditTypeOK
    <2>2. CacheInv'
      BY <1>0, <1>6 DEF NotCached, AuditTo, AuditTypeOK, CacheInv
    <2> QED
      BY <2>1, <2>2 DEF AuditInv
  <1>7. ASSUME NEW h \in Loggers, LoadConfig(h) PROVE AuditInv'
    <2>1. /\ apc[h] = "load" /\ UNCHANGED <<auditConfig, configCache, action, stale>>
          /\ apc' \in [Loggers -> {"idle", "cache", "event", "load", "fill", "insert"}]
          /\ apc'[h] = "fill" /\ \A x \in Loggers \ {h} : apc'[x] = apc[x]
      BY <1>0, <1>7 DEF LoadConfig, AuditTo, AuditTypeOK
    <2>2. /\ config' \in [Loggers -> SUBSET Actions] /\ raced' \in [Loggers -> BOOLEAN]
          /\ \A x \in Loggers \ {h} : config'[x] = config[x] /\ raced'[x] = raced[x]
          /\ ~raced'[h] => config'[h] = auditConfig
      <3>1. CASE /\ config' = [config EXCEPT ![h] = auditConfig]
                 /\ raced' = [raced EXCEPT ![h] = FALSE]
        BY <1>0, <3>1 DEF AuditTypeOK
      <3>2. CASE /\ config' = [config EXCEPT ![h] = Actions]
                 /\ raced' = [raced EXCEPT ![h] = TRUE]
        <4>1. raced' \in [Loggers -> BOOLEAN] /\ raced'[h]
          BY <1>0, <3>2 DEF AuditTypeOK
        <4>2. config' \in [Loggers -> SUBSET Actions]
          BY <1>0, <3>2 DEF AuditTypeOK
        <4>3. \A x \in Loggers \ {h} : config'[x] = config[x] /\ raced'[x] = raced[x]
          BY <1>0, <3>2 DEF AuditTypeOK
        <4> QED
          BY <4>1, <4>2, <4>3
      <3> QED
        BY <1>7, <3>1, <3>2 DEF LoadConfig, DefaultAuditConfig
    <2>3. lost' \in 0 .. MaxLost
      BY <1>0, <1>7 DEF LoadConfig, Mishap, AuditTypeOK
    <2>4. AuditTypeOK'
      BY <1>0, <2>1, <2>2, <2>3 DEF AuditTypeOK
    <2>5. CacheInv'
      BY <1>0, <2>1, <2>2 DEF CacheInv
    <2> QED
      BY <2>4, <2>5 DEF AuditInv
  <1>8. ASSUME NEW h \in Loggers, FillCache(h) PROVE AuditInv'
    <2>1. /\ apc[h] = "fill" /\ configCache' = config[h] /\ stale' = raced[h]
          /\ Decide(h, config[h]) /\ UNCHANGED <<auditConfig, lost>>
      BY <1>8 DEF FillCache
    <2>2. AuditTypeOK'
      BY <1>0, <2>1, DecideTyped DEF AuditTypeOK
    <2>3. CacheInv'
      BY <1>0, <2>1, DecideTyped DEF CacheInv
    <2> QED
      BY <2>2, <2>3 DEF AuditInv
  <1>9. ASSUME NEW h \in Loggers, InsertEntry(h) PROVE AuditInv'
    <2>1. AuditEnds(h) /\ UNCHANGED <<auditConfig, configCache, stale, lost>> /\ apc[h] = "insert"
      BY <1>9 DEF InsertEntry
    <2>2. AuditTypeOK'
      BY <1>0, <2>1, AuditEndsTyped DEF AuditTypeOK
    <2>3. CacheInv'
      BY <1>0, <2>1, AuditEndsTyped DEF CacheInv
    <2> QED
      BY <2>2, <2>3 DEF AuditInv
  <1>10. CASE AuditRestart
    <2>0. NoAction \in Actions
      BY DEF NoAction
    <2>1. AuditTypeOK'
      <3>1. /\ raced' \in [Loggers -> BOOLEAN] /\ (\A h \in Loggers : ~raced'[h])
            /\ stale' \in BOOLEAN
        BY <1>10 DEF AuditRestart
      <3>2. /\ action' \in [Loggers -> Actions] /\ config' \in [Loggers -> SUBSET Actions]
            /\ apc' \in [Loggers -> {"idle", "cache", "event", "load", "fill", "insert"}]
            /\ auditConfig' \in SUBSET Actions /\ configCache' = NoConfig
        BY <1>0, <1>10, <2>0 DEF AuditRestart, AuditTypeOK, DefaultAuditConfig
      <3>3. lost' \in 0 .. MaxLost
        BY <1>0, <1>10 DEF AuditRestart, Mishap, AuditTypeOK
      <3> QED
        BY <3>1, <3>2, <3>3 DEF AuditTypeOK
    <2>2. CacheInv'
      BY <1>10 DEF AuditRestart, CacheInv
    <2> QED
      BY <2>1, <2>2 DEF AuditInv
  <1>11. CASE UNCHANGED auditVars
    BY <1>0, <1>11 DEF auditVars, AuditInv, AuditTypeOK, CacheInv
  <1> QED
    BY <1>1, <1>2, <1>3, <1>4, <1>5, <1>6, <1>7, <1>8, <1>9, <1>10, <1>11 DEF AuditNext

LEMMA AuditInductive == AuditSpec => []AuditInv
  BY AuditInitInv, AuditStepInv, PTL DEF AuditSpec

\* Every request keeps setting, cache and its own copy well typed, and only those
\* that hold a configuration can be overtaken.
THEOREM AuditTypeCorrect == AuditSpec => []AuditTypeOK
  BY AuditInductive, PTL DEF AuditInv

\* An event is written or left out as the setting says, unless the request is
\* behind it in one of the ways Behind names.
THEOREM EventsAsConfiguredHolds == AuditSpec => EventsAsConfigured
  <1> DEFINE Obeyed(h) ==
          (apc[h] \in {"event", "fill"} /\ ~Behind(h) /\ lost' = lost) =>
              /\ apc'[h] = "insert" => isEventEnabled(auditConfig, action[h])
              /\ apc'[h] = "idle" => ~isEventEnabled(auditConfig, action[h])
  <1>1. AuditInv /\ [AuditNext]_auditVars => [\A h \in Loggers : Obeyed(h)]_auditVars
    <2> SUFFICES ASSUME AuditInv, AuditNext, NEW h \in Loggers, apc[h] \in {"event", "fill"},
                        ~Behind(h), lost' = lost
                 PROVE  /\ apc'[h] = "insert" => isEventEnabled(auditConfig, action[h])
                        /\ apc'[h] = "idle" => ~isEventEnabled(auditConfig, action[h])
      OBVIOUS
    <2>0. /\ AuditTypeOK /\ CacheInv /\ ~stale /\ ~raced[h]
          /\ \A x \in Loggers : apc[x] # "cache"
      BY DEF AuditInv, Behind
    <2>1. CASE FromCache(h)
      <3>1. configCache = auditConfig
        BY <2>0, <2>1 DEF FromCache, CacheInv
      <3> QED
        BY <2>0, <2>1, <3>1, DecideTyped DEF FromCache
    <2>2. CASE FillCache(h)
      <3>1. config[h] = auditConfig
        BY <2>0, <2>2 DEF FillCache, CacheInv
      <3> QED
        BY <2>0, <2>2, <3>1, DecideTyped DEF FillCache
    <2>3. CASE NotCached(h)
      BY <2>0, <2>3 DEF NotCached, AuditTo, AuditTypeOK
    <2>4. ASSUME NEW x \in Loggers \ {h},
                 \/ \E c \in AuditInputs : SetConfigStore(x, c) \/ StoreElsewhere(x, c)
                 \/ \E a \in Actions : LogEvent(x, a)
                 \/ SetConfigCache(x) \/ FromCache(x) \/ NotCached(x) \/ LoadConfig(x)
                 \/ FillCache(x) \/ InsertEntry(x)
          PROVE  apc'[h] = apc[h]
      BY <2>0, <2>4 DEF SetConfigStore, StoreElsewhere, LogEvent, SetConfigCache, FromCache,
         NotCached, LoadConfig, FillCache, InsertEntry, Decide, AuditEnds, AuditTo, AuditTypeOK
    <2>5. ~AuditRestart
      BY <2>0 DEF AuditRestart, Mishap, AuditTypeOK
    <2>6. /\ \A c \in AuditInputs : ~SetConfigStore(h, c) /\ ~StoreElsewhere(h, c)
          /\ \A a \in Actions : ~LogEvent(h, a)
          /\ ~SetConfigCache(h) /\ ~LoadConfig(h) /\ ~InsertEntry(h)
      BY DEF SetConfigStore, StoreElsewhere, LogEvent, SetConfigCache, LoadConfig, InsertEntry
    <2> QED
      BY <2>1, <2>2, <2>3, <2>4, <2>5, <2>6 DEF AuditNext
  <1> QED
    BY <1>1, AuditInductive, PTL DEF AuditSpec, EventsAsConfigured
-----------------------------------------------------------------------------
(* Settings *)

\* The keys a request has stored, and those the running build has read.
StoredKeys(r) == {job[r].keys[i] : i \in 1 .. job[r].next - 1}
ReadKeys == {BuildKeys[i] : i \in 1 .. mu.next - 1}

\* What a request has to store, by its kind and control point.
JobOK(r) ==
    /\ stp[r] \in {"sync", "build"} => job[r].kind \in {"page", "metrics"}
    /\ job[r].kind = "page" => job[r].keys = PageKeys
    /\ job[r].kind = "metrics" => job[r].keys = MetricsKeys
    /\ stp[r] # "idle" => \A i \in 1 .. Len(job[r].keys) : job[r].keys[i] \in Keys
    /\ stp[r] = "existing" => job[r].kind = "metrics" /\ job[r].next = 1
    /\ Len(job[r].keys) \in Nat /\ job[r].next \in 1 .. Len(job[r].keys) + 1
    /\ stp[r] = "store" => job[r].next <= Len(job[r].keys)
    /\ stp[r] \in {"sync", "build", "answer"} => job[r].next = Len(job[r].keys) + 1

\* Whoever has a page or an endpoint to store.
Serves(r, points) == stp[r] \in points /\ job[r].kind \in {"page", "metrics"}

\* A key that was stored keeps its value until somebody else stores it; so does
\* one that a build has read since, and one that was built.
TableInv(r) ==
    Serves(r, {"store", "sync", "build", "answer"}) =>
        \A k \in StoredKeys(r) : k \in touched[r] \/ settings[k] = job[r].want[k]
GotInv(r) ==
    Serves(r, {"build", "answer"}) =>
        \A k \in StoredKeys(r) \cap ReadKeys :
            k \in touched[r] \cup mu.missing \/ mu.got[k] = job[r].want[k]
BuiltInv(r) ==
    Serves(r, {"answer"}) =>
        \A k \in StoredKeys(r) : k \in touched[r] \cup missed \/ built[k] = job[r].want[k]

SetInv ==
    /\ SetTypeOK
    /\ \A r \in Requests : JobOK(r) /\ TableInv(r) /\ GotInv(r) /\ BuiltInv(r)

LEMMA KeyFacts ==
    /\ Len(BuildKeys) = 6 /\ (\A i \in 1 .. 6 : BuildKeys[i] \in Keys)
    /\ {BuildKeys[i] : i \in 1 .. 6} = Keys
    /\ Len(PageKeys) = 2 /\ (\A i \in 1 .. 2 : PageKeys[i] \in Keys)
    /\ Len(MetricsKeys) = 4 /\ (\A i \in 1 .. 4 : MetricsKeys[i] \in Keys)
    /\ DOMAIN Defaults = Keys
  <1>1. Keys = {"mode", "url", "enabled", "cidrs", "host", "hash"}
    BY DEF Keys, BuildKeys
  <1>2. Len(BuildKeys) = 6 /\ (\A i \in 1 .. 6 : BuildKeys[i] \in Keys)
    BY <1>1 DEF BuildKeys
  <1>3. {BuildKeys[i] : i \in 1 .. 6} = Keys
    BY DEF BuildKeys, Keys
  <1>4. Len(PageKeys) = 2 /\ (\A i \in 1 .. 2 : PageKeys[i] \in Keys)
    BY <1>1 DEF PageKeys
  <1>5. Len(MetricsKeys) = 4 /\ (\A i \in 1 .. 4 : MetricsKeys[i] \in Keys)
    BY <1>1 DEF MetricsKeys
  <1>6. DOMAIN Defaults = Keys
    BY DEF Defaults
  <1> QED
    BY <1>2, <1>3, <1>4, <1>5, <1>6

RequestInv(r) == JobOK(r) /\ TableInv(r) /\ GotInv(r) /\ BuiltInv(r)

\* A request that rests has nothing stored and waits for nothing.
LEMMA Rests ==
    ASSUME NEW r \in Requests, stp'[r] = "idle", job'[r] = NoJob PROVE RequestInv(r)'
  <1>1. job'[r].kind = "none" /\ job'[r].keys = <<>> /\ job'[r].next = 1
    BY DEF NoJob
  <1>2. JobOK(r)'
    BY <1>1 DEF JobOK
  <1> QED
    BY <1>2 DEF RequestInv, TableInv, GotInv, BuiltInv, Serves

LEMMA StoredInKeys ==
    ASSUME NEW r \in Requests, JobOK(r), stp[r] # "idle" PROVE StoredKeys(r) \subseteq Keys
  <1> SUFFICES ASSUME NEW i \in 1 .. job[r].next - 1 PROVE job[r].keys[i] \in Keys
    BY DEF StoredKeys
  <1> QED
    BY DEF JobOK

\* A step of somebody else leaves a request alone.
LEMMA LeftAlone ==
    ASSUME NEW r \in Requests, RequestInv(r), stp'[r] = stp[r], job'[r] = job[r],
           touched[r] \subseteq touched'[r],
           \A k \in Keys : settings'[k] = settings[k] \/ k \in touched'[r],
           UNCHANGED <<mu, built, missed>>
    PROVE  RequestInv(r)'
  <1>1. JobOK(r)' /\ StoredKeys(r)' = StoredKeys(r) /\ ReadKeys' = ReadKeys
    BY DEF RequestInv, JobOK, StoredKeys, ReadKeys
  <1>2. stp[r] # "idle" => StoredKeys(r) \subseteq Keys
    BY StoredInKeys DEF RequestInv
  <1>3. TableInv(r)'
    BY <1>1, <1>2 DEF RequestInv, TableInv, Serves
  <1>4. GotInv(r)'
    BY <1>1 DEF RequestInv, GotInv, Serves
  <1>5. BuiltInv(r)'
    BY <1>1 DEF RequestInv, BuiltInv, Serves
  <1> QED
    BY <1>1, <1>3, <1>4, <1>5 DEF RequestInv

LEMMA SetInitInv == SetInit => SetInv
  <1> SUFFICES ASSUME SetInit PROVE SetInv
    OBVIOUS
  <1>1. mu.by = Free /\ mu.got = Defaults /\ mu.next = 1 /\ mu.missing = {}
    BY DEF SetInit, NoBuild, BuildOf
  <1>2. SetTypeOK
    BY <1>1, KeyFacts, SettingsAssumption DEF SetInit, SetTypeOK, SetPoints
  <1>3. ASSUME NEW r \in Requests PROVE RequestInv(r)
    <2>1. stp[r] = "idle" /\ job[r].kind = "none" /\ job[r].keys = <<>> /\ job[r].next = 1
      BY DEF SetInit, NoJob
    <2>2. JobOK(r)
      BY <2>1 DEF JobOK
    <2> QED
      BY <2>1, <2>2 DEF RequestInv, TableInv, GotInv, BuiltInv, Serves
  <1> QED
    BY <1>2, <1>3 DEF SetInv, RequestInv

\* A request that begins to store has stored nothing.
LEMMA Begins ==
    ASSUME NEW r \in Requests, NEW kind \in {"page", "metrics", "key"}, NEW keys, NEW want,
           NEW point \in {"existing", "store"},
           kind = "page" => keys = PageKeys, kind = "metrics" => keys = MetricsKeys,
           Len(keys) \in Nat \ {0}, \A i \in 1 .. Len(keys) : keys[i] \in Keys,
           point = "existing" => kind = "metrics",
           job'[r] = [kind |-> kind, keys |-> keys, want |-> want, next |-> 1], stp'[r] = point
    PROVE  RequestInv(r)'
  <1>1. /\ job'[r].kind = kind /\ job'[r].keys = keys /\ job'[r].next = 1
    OBVIOUS
  <1>2. JobOK(r)'
    BY <1>1 DEF JobOK
  <1>3. StoredKeys(r)' = {}
    BY <1>1 DEF StoredKeys
  <1> QED
    BY <1>2, <1>3 DEF RequestInv, TableInv, GotInv, BuiltInv

LEMMA ArriveInv ==
    ASSUME SetInv, NEW r \in Requests, NEW kind \in {"page", "metrics", "key"}, NEW keys,
           NEW want, NEW point \in {"existing", "store"},
           kind = "page" => keys = PageKeys, kind = "metrics" => keys = MetricsKeys,
           Len(keys) \in Nat \ {0}, \A i \in 1 .. Len(keys) : keys[i] \in Keys,
           point = "existing" => kind = "metrics",
           Arrive(r, kind, keys, want, point)
    PROVE  SetInv'
  <1>1. SetTypeOK /\ \A x \in Requests : RequestInv(x)
    BY DEF SetInv, RequestInv
  <1>2. /\ stp[r] = "idle" /\ changes < MaxChanges /\ changes' = changes + 1
        /\ stp' = [stp EXCEPT ![r] = point]
        /\ job' = [job EXCEPT ![r] = [kind |-> kind, keys |-> keys, want |-> want, next |-> 1]]
        /\ UNCHANGED <<settings, mu, built, missed, touched, setFaults>>
    BY DEF Arrive, To, buildVars
  <1>3. SetTypeOK'
    BY <1>1, <1>2, SettingsAssumption DEF SetTypeOK, SetPoints
  <1>4. RequestInv(r)'
    BY <1>1, <1>2, Begins DEF SetTypeOK
  <1>5. ASSUME NEW x \in Requests \ {r} PROVE RequestInv(x)'
    <2>1. stp'[x] = stp[x] /\ job'[x] = job[x]
      BY <1>1, <1>2 DEF SetTypeOK
    <2> QED
      BY <1>1, <1>2, <2>1, LeftAlone
  <1> QED
    BY <1>3, <1>4, <1>5 DEF SetInv, RequestInv

LEMMA HandlersArrive ==
    ASSUME SetInv, NEW r \in Requests, UpdateNotFound(r) \/ UpdateMetricsPublish(r) \/ Update(r)
    PROVE  SetInv'
  <1>1. CASE UpdateNotFound(r)
    <2>1. PICK p \in PageInputs :
             Arrive(r, "page", PageKeys, [Defaults EXCEPT !.mode = p.mode, !.url = p.url], "store")
      BY <1>1 DEF UpdateNotFound
    <2> QED
      BY <2>1, KeyFacts, ArriveInv
  <1>2. CASE UpdateMetricsPublish(r)
    <2>1. PICK m \in MetricsInputs :
             Arrive(r, "metrics", MetricsKeys,
                    [Defaults EXCEPT !.enabled = m.enabled, !.host = m.host, !.hash = m.password,
                                     !.cidrs = m.cidrs], "existing")
      BY <1>2 DEF UpdateMetricsPublish
    <2> QED
      BY <2>1, KeyFacts, ArriveInv
  <1>3. CASE Update(r)
    <2>1. PICK x \in KeyInputs :
             Arrive(r, "key", <<x.key>>, [Defaults EXCEPT ![x.key] = x.value], "store")
      BY <1>3 DEF Update
    <2>2. x.key \in Keys
      BY SettingsAssumption
    <2>3. Len(<<x.key>>) \in Nat \ {0} /\ \A i \in 1 .. Len(<<x.key>>) : <<x.key>>[i] \in Keys
      BY <2>2
    <2> QED
      BY <2>1, <2>3, ArriveInv
  <1> QED
    BY <1>1, <1>2, <1>3

\* A request that ends leaves the others as they were.
LEMMA EndsInv ==
    ASSUME SetInv, NEW r \in Requests, Ends(r), stp[r] # "build", changes' = changes,
           setFaults' \in 0 .. MaxFaults, UNCHANGED <<settings, buildVars>>
    PROVE  SetInv'
  <1>1. SetTypeOK /\ \A x \in Requests : RequestInv(x)
    BY DEF SetInv, RequestInv
  <1>2. /\ stp' = [stp EXCEPT ![r] = "idle"] /\ job' = [job EXCEPT ![r] = NoJob]
        /\ touched' = [touched EXCEPT ![r] = {}]
        /\ UNCHANGED <<settings, mu, built, missed>>
    BY DEF Ends, buildVars
  <1>3. SetTypeOK'
    BY <1>1, <1>2, SettingsAssumption DEF SetTypeOK, SetPoints
  <1>4. RequestInv(r)'
    BY <1>1, <1>2, Rests DEF SetTypeOK
  <1>5. ASSUME NEW x \in Requests \ {r} PROVE RequestInv(x)'
    <2>1. stp'[x] = stp[x] /\ job'[x] = job[x] /\ touched'[x] = touched[x]
      BY <1>1, <1>2 DEF SetTypeOK
    <2> QED
      BY <1>1, <1>2, <2>1, LeftAlone
  <1> QED
    BY <1>3, <1>4, <1>5 DEF SetInv, RequestInv

LEMMA ReadExistingInv ==
    ASSUME SetInv, NEW r \in Requests, ReadExisting(r) PROVE SetInv'
  <1>1. SetTypeOK /\ \A x \in Requests : RequestInv(x)
    BY DEF SetInv, RequestInv
  <1>2. /\ stp[r] = "existing" /\ setFaults' \in 0 .. MaxFaults /\ changes' = changes
        /\ UNCHANGED <<settings, mu, built, missed>>
    <2>1. Sound \/ Faulty
      BY DEF ReadExisting
    <2>2. setFaults' \in 0 .. MaxFaults
      BY <1>1, <2>1, SettingsAssumption DEF Sound, Faulty, SetTypeOK
    <2>3. stp[r] = "existing" /\ UNCHANGED <<settings, buildVars, changes>>
      BY DEF ReadExisting
    <2> QED
      BY <2>2, <2>3 DEF buildVars
  <1>3. CASE Ends(r)
    BY <1>2, <1>3, EndsInv DEF buildVars
  <1>4. ASSUME NEW want,
               job' = [job EXCEPT ![r] = [kind |-> "metrics", keys |-> MetricsKeys,
                                          want |-> want, next |-> 1]],
               stp' = [stp EXCEPT ![r] = "store"], touched' = touched
        PROVE  SetInv'
    <2>1. SetTypeOK'
      BY <1>1, <1>2, <1>4 DEF SetTypeOK, SetPoints
    <2>2. RequestInv(r)'
      <3>1. /\ stp'[r] = "store"
            /\ job'[r] = [kind |-> "metrics", keys |-> MetricsKeys, want |-> want, next |-> 1]
        BY <1>1, <1>4 DEF SetTypeOK
      <3>2. Len(MetricsKeys) \in Nat \ {0} /\ \A i \in 1 .. Len(MetricsKeys) : MetricsKeys[i] \in Keys
        BY KeyFacts
      <3> QED
        BY <3>1, <3>2, Begins
    <2>3. ASSUME NEW x \in Requests \ {r} PROVE RequestInv(x)'
      <3>1. stp'[x] = stp[x] /\ job'[x] = job[x] /\ touched'[x] = touched[x]
        BY <1>1, <1>4 DEF SetTypeOK
      <3> QED
        BY <1>1, <1>2, <3>1, LeftAlone
    <2> QED
      BY <2>1, <2>2, <2>3 DEF SetInv, RequestInv
  <1> QED
    BY <1>3, <1>4 DEF ReadExisting, To

LEMMA StoreKeyInv ==
    ASSUME SetInv, NEW r \in Requests, StoreKey(r) PROVE SetInv'
  <1> DEFINE k == job[r].keys[job[r].next]
             last == job[r].next = Len(job[r].keys)
             done == IF last THEN AfterStore(job[r].kind) ELSE "store"
  <1>1. SetTypeOK /\ \A x \in Requests : RequestInv(x)
    BY DEF SetInv, RequestInv
  <1>2. /\ stp[r] = "store" /\ stp' = [stp EXCEPT ![r] = done]
        /\ settings' = [settings EXCEPT ![k] = job[r].want[k]]
        /\ job' = [job EXCEPT ![r] = [kind |-> job[r].kind, keys |-> job[r].keys,
                                      want |-> job[r].want, next |-> job[r].next + 1]]
        /\ touched' = [x \in Requests |->
              touched[x] \cup (IF x = r \/ stp[x] = "idle" THEN {} ELSE {k})]
        /\ UNCHANGED <<mu, built, missed, changes, setFaults>>
    BY DEF StoreKey, To, Holds, buildVars
  <1>3. /\ JobOK(r) /\ k \in Keys /\ job[r].next \in Nat \ {0}
        /\ Len(job[r].keys) \in Nat /\ job[r].next <= Len(job[r].keys)
    BY <1>1, <1>2 DEF RequestInv, JobOK
  <1>4. done \in {"store", "sync", "answer"}
    BY DEF AfterStore
  <1>5. /\ stp'[r] = done /\ job'[r].kind = job[r].kind /\ job'[r].keys = job[r].keys
        /\ job'[r].want = job[r].want /\ job'[r].next = job[r].next + 1
        /\ touched'[r] = touched[r]
        /\ \A x \in Requests \ {r} :
              /\ stp'[x] = stp[x] /\ job'[x] = job[x] /\ touched[x] \subseteq touched'[x]
              /\ stp[x] # "idle" => k \in touched'[x]
    <2> HIDE DEF done, k
    <2> QED
      BY <1>1, <1>2 DEF SetTypeOK
  <1>6. SetTypeOK'
    <2>1. touched' \in [Requests -> SUBSET Keys]
      <3> HIDE DEF k
      <3> QED
        BY <1>1, <1>2, <1>3 DEF SetTypeOK
    <2>2. stp' \in [Requests -> SetPoints] /\ \A x \in Requests : stp'[x] = "build" <=> mu'.by = x
      <3> HIDE DEF done
      <3> QED
        BY <1>1, <1>2, <1>4, <1>5 DEF SetTypeOK, SetPoints
    <2>3. DOMAIN settings' = Keys /\ DOMAIN job' = Requests
      BY <1>1, <1>2 DEF SetTypeOK
    <2> QED
      BY <1>1, <1>2, <2>1, <2>2, <2>3 DEF SetTypeOK
  <1>7. RequestInv(r)'
    <2>1. StoredKeys(r)' = StoredKeys(r) \cup {k}
      BY <1>3, <1>5 DEF StoredKeys
    <2>2. JobOK(r)'
      BY <1>2, <1>3, <1>5 DEF JobOK, AfterStore
    <2>3. job[r].kind \in {"page", "metrics"} => done \in {"store", "sync"}
      BY DEF AfterStore
    <2>4. TableInv(r)'
      <3>1. ASSUME job[r].kind \in {"page", "metrics"}, NEW y \in StoredKeys(r)
            PROVE  y \in touched[r] \/ settings[y] = job[r].want[y]
        BY <1>1, <1>2, <3>1 DEF RequestInv, TableInv, Serves
      <3>2. StoredKeys(r) \subseteq Keys
        BY <1>2, <1>3, StoredInKeys
      <3>3. \A y \in Keys : settings'[y] = IF y = k THEN job[r].want[k] ELSE settings[y]
        <4> HIDE DEF k
        <4> QED
          BY <1>1, <1>2 DEF SetTypeOK
      <3> HIDE DEF k
      <3> QED
        BY <1>3, <1>5, <2>1, <3>1, <3>2, <3>3 DEF TableInv, Serves
    <2>5. GotInv(r)' /\ BuiltInv(r)'
      BY <1>5, <2>3 DEF GotInv, BuiltInv, Serves
    <2> QED
      BY <2>2, <2>4, <2>5 DEF RequestInv
  <1>8. ASSUME NEW x \in Requests \ {r} PROVE RequestInv(x)'
    <2>1. CASE stp[x] # "idle"
      <3>1. \A y \in Keys : settings'[y] = settings[y] \/ y \in touched'[x]
        <4> HIDE DEF k
        <4> QED
          BY <1>1, <1>2, <1>5, <2>1 DEF SetTypeOK
      <3> QED
        BY <1>1, <1>2, <1>5, <3>1, LeftAlone
    <2>2. CASE stp[x] = "idle"
      BY <1>1, <1>5, <2>2 DEF RequestInv, JobOK, TableInv, GotInv, BuiltInv, Serves
    <2> QED
      BY <2>1, <2>2
  <1> QED
    BY <1>6, <1>7, <1>8 DEF SetInv, RequestInv

\* What the running build has read grows by one key; a new one has read nothing.
LEMMA ReadGrows ==
    ASSUME SetTypeOK, mu.next <= 6, mu'.next = mu.next + 1
    PROVE  BuildKeys[mu.next] \in Keys /\ ReadKeys' = ReadKeys \cup {BuildKeys[mu.next]}
  <1>1. mu.next \in 1 .. 6
    BY KeyFacts DEF SetTypeOK
  <1> QED
    BY <1>1, KeyFacts DEF ReadKeys

LEMMA BuildReadsInv == ASSUME SetInv, BuildReads PROVE SetInv'
  <1> DEFINE k == BuildKeys[mu.next]
  <1>1. SetTypeOK /\ \A x \in Requests : RequestInv(x)
    BY DEF SetInv, RequestInv
  <1>2. /\ mu.by # Free /\ mu.next <= 6
        /\ UNCHANGED <<settings, stp, job, built, missed, touched, changes>>
    BY KeyFacts DEF BuildReads
  <1>3. PICK value, failed :
           /\ \/ value = settings[k] /\ failed = {} /\ Sound
              \/ value = Defaults[k] /\ failed = {k} /\ Faulty
           /\ mu' = HasRead(k, value, failed)
    BY DEF BuildReads
  <1>4. /\ mu'.by = mu.by /\ mu'.got = [mu.got EXCEPT ![k] = value]
        /\ mu'.next = mu.next + 1 /\ mu'.missing = mu.missing \cup failed
    BY <1>3 DEF HasRead
  <1>5. k \in Keys /\ ReadKeys' = ReadKeys \cup {k}
    BY <1>1, <1>2, <1>4, ReadGrows
  <1> HIDE DEF k
  <1>6. failed \subseteq {k} /\ (value = settings[k] \/ k \in failed)
    BY <1>3
  <1>7. setFaults' \in 0 .. MaxFaults
    BY <1>1, <1>3, SettingsAssumption DEF Sound, Faulty, SetTypeOK
  <1>8. SetTypeOK'
    BY <1>1, <1>2, <1>4, <1>5, <1>6, <1>7, KeyFacts DEF SetTypeOK
  <1>9. ASSUME NEW x \in Requests PROVE RequestInv(x)'
    <2>1. JobOK(x)' /\ StoredKeys(x)' = StoredKeys(x)
      BY <1>1, <1>2 DEF RequestInv, JobOK, StoredKeys
    <2>2. TableInv(x)' /\ BuiltInv(x)'
      BY <1>1, <1>2, <2>1 DEF RequestInv, TableInv, BuiltInv, Serves
    <2>3. GotInv(x)'
      <3> SUFFICES ASSUME Serves(x, {"build", "answer"}), NEW y \in StoredKeys(x),
                          y \in ReadKeys \cup {k}
                   PROVE  y \in touched[x] \cup mu'.missing \/ mu'.got[y] = job[x].want[y]
        BY <1>2, <1>5, <2>1 DEF GotInv, Serves
      <3>1. y \in Keys
        BY <1>1, StoredInKeys DEF Serves, RequestInv
      <3>2. y \in touched[x] \/ settings[y] = job[x].want[y]
        BY <1>1 DEF RequestInv, TableInv, Serves
      <3>3. CASE y = k
        <4>1. mu'.got[k] = value
          BY <1>1, <1>4, <1>5 DEF SetTypeOK
        <4> QED
          BY <1>4, <1>6, <3>2, <3>3, <4>1
      <3>4. CASE y # k
        <4>1. mu'.got[y] = mu.got[y]
          BY <1>1, <1>4, <3>1, <3>4 DEF SetTypeOK
        <4>2. y \in touched[x] \cup mu.missing \/ mu.got[y] = job[x].want[y]
          BY <1>1, <3>4 DEF RequestInv, GotInv
        <4> QED
          BY <1>4, <4>1, <4>2
      <3> QED
        BY <3>3, <3>4
    <2> QED
      BY <2>1, <2>2, <2>3 DEF RequestInv
  <1> QED
    BY <1>8, <1>9 DEF SetInv, RequestInv

\* A build that has just begun, or nobody's, asks nothing of anybody.
LEMMA FreshBuild ==
    ASSUME NEW r \in Requests, mu'.next = 1 PROVE GotInv(r)'
  BY DEF GotInv, ReadKeys

LEMMA BuildBeginsInv ==
    ASSUME SetInv, OtherSyncs \/ \E r \in Requests : RequestSyncs(r) PROVE SetInv'
  <1>1. SetTypeOK /\ \A x \in Requests : RequestInv(x)
    BY DEF SetInv, RequestInv
  <1>2. PICK by \in Requests \cup {Ticker} :
           /\ BuildBegins(by)
           /\ \/ by = Ticker /\ stp' = stp
              \/ by \in Requests /\ stp[by] = "sync" /\ stp' = [stp EXCEPT ![by] = "build"]
    BY DEF OtherSyncs, RequestSyncs, Holds, To
  <1>3. /\ mu.by = Free /\ mu'.by = by /\ mu'.got = Defaults /\ mu'.next = 1
        /\ mu'.missing = {}
        /\ UNCHANGED <<settings, job, built, missed, touched, changes, setFaults>>
    BY <1>2 DEF BuildBegins, BuildOf
  <1>4. /\ stp' \in [Requests -> SetPoints]
        /\ \A x \in Requests : stp'[x] = stp[x] \/ (stp[x] = "sync" /\ stp'[x] = "build")
        /\ \A x \in Requests : stp'[x] = "build" <=> by = x
    BY <1>1, <1>2, <1>3, SettingsAssumption DEF SetTypeOK, SetPoints
  <1>5. SetTypeOK'
    BY <1>1, <1>3, <1>4, KeyFacts DEF SetTypeOK
  <1>6. ASSUME NEW x \in Requests PROVE RequestInv(x)'
    <2>1. JobOK(x)' /\ StoredKeys(x)' = StoredKeys(x)
      BY <1>1, <1>3, <1>4 DEF RequestInv, JobOK, StoredKeys
    <2>2. TableInv(x)'
      BY <1>1, <1>3, <1>4, <2>1 DEF RequestInv, TableInv, Serves
    <2>3. BuiltInv(x)'
      BY <1>1, <1>3, <1>4, <2>1 DEF RequestInv, BuiltInv, Serves
    <2> QED
      BY <1>3, <2>1, <2>2, <2>3, FreshBuild DEF RequestInv
  <1> QED
    BY <1>5, <1>6 DEF SetInv, RequestInv

LEMMA BuildEndsInv == ASSUME SetInv, BuildEnds PROVE SetInv'
  <1>1. SetTypeOK /\ \A x \in Requests : RequestInv(x)
    BY DEF SetInv, RequestInv
  <1>2. /\ mu.by # Free /\ mu.next > 6 /\ built' = mu.got /\ missed' = mu.missing
        /\ mu'.by = Free /\ mu'.got = Defaults /\ mu'.next = 1 /\ mu'.missing = {}
        /\ UNCHANGED <<settings, changes>>
    BY KeyFacts DEF BuildEnds, NoBuild, BuildOf
  <1>3. ReadKeys = Keys
    <2>1. mu.next = 7
      BY <1>1, <1>2, KeyFacts DEF SetTypeOK
    <2> QED
      BY <2>1, KeyFacts DEF ReadKeys
  <1>4. \/ /\ mu.by \in Requests /\ stp' = [stp EXCEPT ![mu.by] = "answer"]
           /\ UNCHANGED <<job, touched, setFaults>>
        \/ mu.by \in Requests /\ Ends(mu.by) /\ Faulty
        \/ mu.by = Ticker /\ UNCHANGED <<stp, job, touched, setFaults>>
    BY DEF BuildEnds, To
  <1>5. setFaults' \in 0 .. MaxFaults
    BY <1>1, <1>4, SettingsAssumption DEF Faulty, SetTypeOK
  <1>6. /\ stp' \in [Requests -> SetPoints] /\ DOMAIN job' = Requests
        /\ touched' \in [Requests -> SUBSET Keys]
        /\ \A x \in Requests :
              \/ /\ job'[x] = job[x] /\ touched'[x] = touched[x]
                 /\ stp'[x] = stp[x] \/ (stp[x] = "build" /\ stp'[x] = "answer")
              \/ stp'[x] = "idle" /\ job'[x] = NoJob
        /\ \A x \in Requests : stp'[x] # "build"
    BY <1>1, <1>4, SettingsAssumption DEF SetTypeOK, SetPoints, Ends
  <1>7. SetTypeOK'
    BY <1>1, <1>2, <1>5, <1>6, KeyFacts, SettingsAssumption DEF SetTypeOK
  <1>8. ASSUME NEW x \in Requests PROVE RequestInv(x)'
    <2>1. CASE stp'[x] = "idle" /\ job'[x] = NoJob
      BY <2>1, Rests
    <2>2. CASE /\ job'[x] = job[x] /\ touched'[x] = touched[x]
               /\ stp'[x] = stp[x] \/ (stp[x] = "build" /\ stp'[x] = "answer")
      <3>1. JobOK(x)' /\ StoredKeys(x)' = StoredKeys(x)
        BY <1>1, <2>2 DEF RequestInv, JobOK, StoredKeys
      <3>2. TableInv(x)'
        BY <1>1, <1>2, <2>2, <3>1 DEF RequestInv, TableInv, Serves
      <3>3. BuiltInv(x)'
        <4> SUFFICES ASSUME Serves(x, {"build", "answer"}), NEW y \in StoredKeys(x)
                     PROVE  y \in touched[x] \cup mu.missing \/ mu.got[y] = job[x].want[y]
          BY <1>2, <2>2, <3>1 DEF BuiltInv, Serves
        <4>1. y \in ReadKeys
          BY <1>1, <1>3, StoredInKeys DEF Serves, RequestInv
        <4> QED
          BY <1>1, <4>1 DEF RequestInv, GotInv
      <3> QED
        BY <1>2, <3>1, <3>2, <3>3, FreshBuild DEF RequestInv
    <2> QED
      BY <1>6, <2>1, <2>2
  <1> QED
    BY <1>7, <1>8 DEF SetInv, RequestInv

LEMMA BuildStopsInv == ASSUME SetInv, BuildStops PROVE SetInv'
  <1>1. SetTypeOK /\ \A x \in Requests : RequestInv(x)
    BY DEF SetInv, RequestInv
  <1>2. /\ mu.by # Free /\ mu'.by = Free /\ mu'.got = Defaults /\ mu'.next = 1
        /\ mu'.missing = {} /\ Faulty /\ UNCHANGED <<settings, built, missed, changes>>
        /\ IF mu.by = Ticker THEN UNCHANGED <<stp, job, touched>> ELSE Ends(mu.by)
    BY DEF BuildStops, NoBuild, BuildOf
  <1>3. setFaults' \in 0 .. MaxFaults
    BY <1>1, <1>2, SettingsAssumption DEF Faulty, SetTypeOK
  <1>4. /\ stp' \in [Requests -> SetPoints] /\ DOMAIN job' = Requests
        /\ touched' \in [Requests -> SUBSET Keys]
        /\ \A x \in Requests :
              \/ job'[x] = job[x] /\ touched'[x] = touched[x] /\ stp'[x] = stp[x]
              \/ stp'[x] = "idle" /\ job'[x] = NoJob
        /\ \A x \in Requests : stp'[x] # "build"
    BY <1>1, <1>2, SettingsAssumption DEF SetTypeOK, SetPoints, Ends
  <1>5. SetTypeOK'
    BY <1>1, <1>2, <1>3, <1>4, KeyFacts, SettingsAssumption DEF SetTypeOK
  <1>6. ASSUME NEW x \in Requests PROVE RequestInv(x)'
    <2>1. CASE stp'[x] = "idle" /\ job'[x] = NoJob
      BY <2>1, Rests
    <2>2. CASE job'[x] = job[x] /\ touched'[x] = touched[x] /\ stp'[x] = stp[x]
      <3>1. JobOK(x)' /\ StoredKeys(x)' = StoredKeys(x)
        BY <1>1, <2>2 DEF RequestInv, JobOK, StoredKeys
      <3>2. TableInv(x)' /\ BuiltInv(x)'
        BY <1>1, <1>2, <2>2, <3>1 DEF RequestInv, TableInv, BuiltInv, Serves
      <3> QED
        BY <1>2, <3>1, <3>2, FreshBuild DEF RequestInv
    <2> QED
      BY <1>4, <2>1, <2>2
  <1> QED
    BY <1>5, <1>6 DEF SetInv, RequestInv

LEMMA SetStepInv == SetInv /\ [SetNext]_setVars => SetInv'
  <1> SUFFICES ASSUME SetInv, [SetNext]_setVars PROVE SetInv'
    OBVIOUS
  <1>0. SetTypeOK /\ \A x \in Requests : RequestInv(x)
    BY DEF SetInv, RequestInv
  <1>1. ASSUME NEW r \in Requests, StoreKeyFails(r) PROVE SetInv'
    <2>1. setFaults' \in 0 .. MaxFaults
      BY <1>0, <1>1, SettingsAssumption DEF StoreKeyFails, Faulty, SetTypeOK
    <2> QED
      BY <1>1, <2>1, EndsInv DEF StoreKeyFails
  <1>2. ASSUME NEW r \in Requests, Answer(r) PROVE SetInv'
    <2>1. setFaults' \in 0 .. MaxFaults
      BY <1>0, <1>2 DEF Answer, SetTypeOK
    <2> QED
      BY <1>2, <2>1, EndsInv DEF Answer
  <1>3. CASE SetRestart
    <2>1. /\ mu'.by = Free /\ mu'.got = Defaults /\ mu'.next = 1 /\ mu'.missing = {}
          /\ UNCHANGED <<settings, built, missed, changes>>
      BY <1>3 DEF SetRestart, NoBuild, BuildOf
    <2>2. setFaults' \in 0 .. MaxFaults
      BY <1>0, <1>3, SettingsAssumption DEF SetRestart, Faulty, SetTypeOK
    <2>3. /\ stp' = [r \in Requests |-> "idle"] /\ job' = [r \in Requests |-> NoJob]
          /\ touched' = [r \in Requests |-> {}]
      BY <1>3 DEF SetRestart
    <2>4. SetTypeOK'
      BY <1>0, <2>1, <2>2, <2>3, KeyFacts, SettingsAssumption DEF SetTypeOK, SetPoints
    <2>5. \A r \in Requests : RequestInv(r)'
      BY <2>3, Rests
    <2> QED
      BY <2>4, <2>5 DEF SetInv, RequestInv
  <1>4. CASE UNCHANGED setVars
    <2>1. SetTypeOK'
      BY <1>0, <1>4 DEF setVars, SetTypeOK
    <2>2. \A r \in Requests : RequestInv(r)'
      BY <1>0, <1>4, LeftAlone DEF setVars
    <2> QED
      BY <2>1, <2>2 DEF SetInv, RequestInv
  <1> QED
    BY <1>1, <1>2, <1>3, <1>4, HandlersArrive, ReadExistingInv, StoreKeyInv, BuildReadsInv,
       BuildBeginsInv, BuildEndsInv, BuildStopsInv DEF SetNext

LEMMA SetInductive == SetSpec => []SetInv
  BY SetInitInv, SetStepInv, PTL DEF SetSpec

\* The table has every key, whatever is stored and whatever fails, and s.mu has one
\* owner: the request that builds, or the ticker.
THEOREM SetTypeCorrect == SetSpec => []SetTypeOK
  BY SetInductive, PTL DEF SetInv

\* Whatever else is stored and built: an update that is answered is in the last
\* configuration built, but for keys stored by others and reads that failed.
THEOREM AnsweredIsBuiltHolds == SetSpec => []AnsweredIsBuilt
  <1>1. SetInv => AnsweredIsBuilt
    <2> SUFFICES ASSUME SetInv, NEW r \in Requests, job[r].kind \in {"page", "metrics"},
                        stp[r] = "answer", NEW i \in DOMAIN job[r].keys
                 PROVE  LET k == job[r].keys[i]
                        IN  k \in touched[r] \cup missed \/ built[k] = job[r].want[k]
      BY DEF AnsweredIsBuilt
    <2>1. JobOK(r) /\ BuiltInv(r)
      BY DEF SetInv
    <2>2. i \in 1 .. Len(job[r].keys) /\ job[r].next = Len(job[r].keys) + 1
          /\ Len(job[r].keys) \in Nat
      <3>1. job[r].keys \in {PageKeys, MetricsKeys}
        BY <2>1 DEF JobOK
      <3>2. DOMAIN PageKeys = 1 .. Len(PageKeys) /\ DOMAIN MetricsKeys = 1 .. Len(MetricsKeys)
        BY DEF PageKeys, MetricsKeys
      <3> QED
        BY <2>1, <3>1, <3>2 DEF JobOK
    <2>3. job[r].keys[i] \in StoredKeys(r)
      BY <2>2 DEF StoredKeys
    <2> QED
      BY <2>1, <2>3 DEF BuiltInv, Serves
  <1> QED
    BY <1>1, SetInductive, PTL
-----------------------------------------------------------------------------
(* The five parts *)

\* A behaviour of the admin API is one of each of its parts.
LEMMA TablesArePart ==
    TablesSpec => Spec /\ L4Spec /\ SsoSpec /\ SetSpec /\ AuditSpec
  <1>1. TablesInit => Init /\ L4Init /\ SsoInit /\ SetInit /\ AuditInit
    BY DEF TablesInit
  <1>2. [TablesNext]_tableVars =>
           [Next]_uvars /\ [L4Steps]_l4Vars /\ [SsoNext]_ssoVars /\ [SetNext]_setVars
             /\ [AuditNext]_auditVars
    BY DEF TablesNext, tableVars
  <1> QED
    BY <1>1, <1>2, PTL DEF TablesSpec, Spec, L4Spec, SsoSpec, SetSpec, AuditSpec

\* Accounts, layer-4 rows, sign-on flows, settings jobs and audit events keep their
\* types, and so do the requests under way on them, through every failing store,
\* restart and lost update.
THEOREM TableTypesHold == TablesSpec => []TableTypes
  BY TablesArePart, UserTypeCorrect, L4TypeCorrect, SsoTypeCorrect, SetTypeCorrect,
     AuditTypeCorrect, PTL DEF TableTypes
=============================================================================
