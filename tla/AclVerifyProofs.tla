-------------------------- MODULE AclVerifyProofs --------------------------
(***************************************************************************)
(* What VerifyAccess promises, for every number of groups, people and      *)
(* edits: a deny rule that stays in force is honoured; an undisturbed      *)
(* request gets the answer of the union; a session that had ended is worth *)
(* nothing; a client that is known is not sent to log in.                  *)
(***************************************************************************)
EXTENDS AclVerify, TLAPS

\* The tables a request starts from, and an emptied group, are well-typed.
LEMMA EmptyTyped ==
    NoTables \in Tables /\ Unrestricted \in Restrictions
  BY DEF NoTables, Tables, Unrestricted, Restrictions, Assignment

\* Loading one table keeps the copy well-typed and leaves the others as they were.
LEMMA LoadTyped ==
    ASSUME NEW s \in Tables, NEW d \in Tables, NEW t \in Content
    PROVE  /\ [s EXCEPT ![t] = d[t]] \in Tables
           /\ [s EXCEPT ![t] = d[t]].assigns = s.assigns
           /\ [s EXCEPT ![t] = d[t]].modes = s.modes
           /\ [s EXCEPT ![t] = d[t]].rules = IF t = "rules" THEN d.rules ELSE s.rules
           /\ [s EXCEPT ![t] = d[t]].basic = IF t = "basic" THEN d.basic ELSE s.basic
           /\ [s EXCEPT ![t] = d[t]].waygates = IF t = "waygates" THEN d.waygates ELSE s.waygates
           /\ [s EXCEPT ![t] = d[t]].restrictions =
                 IF t = "restrictions" THEN d.restrictions ELSE s.restrictions
  <1>1. CASE t = "rules"
    BY <1>1 DEF Tables
  <1>2. CASE t = "basic"
    BY <1>2 DEF Tables
  <1>3. CASE t = "waygates"
    BY <1>3 DEF Tables
  <1>4. CASE t = "restrictions"
    BY <1>4 DEF Tables
  <1> QED
    BY <1>1, <1>2, <1>3, <1>4 DEF Content

\* An administrator's step: the tables stay well-typed, and no group changes
\* that stays in steady.
Administers ==
    \E g \in Groups :
        \/ UpdateGroup(g) \/ EditIPRules(g) \/ EditBasicAuth(g) \/ ConfigureWaygatesAuth(g)
        \/ EditRestrictions(g) \/ EditAssignment(g) \/ DeleteGroup(g)

SameRow(d, e, h) ==
    /\ d.assigns[h] = e.assigns[h] /\ d.modes[h] = e.modes[h] /\ d.rules[h] = e.rules[h]
    /\ d.basic[h] = e.basic[h] /\ d.waygates[h] = e.waygates[h]
    /\ d.restrictions[h] = e.restrictions[h]

Keeps ==
    /\ db' \in Tables /\ steady' \subseteq steady /\ steady' # Groups
    /\ \A h \in steady' : SameRow(db', db, h)
    /\ edits' \in 0 .. MaxEdits
    /\ UNCHANGED <<session, sessionSteady, requestVars>>

LEMMA AdministersKeeps ==
    ASSUME VTypeOK, Administers
    PROVE  Keeps
  <1> PICK g \in Groups :
        \/ UpdateGroup(g) \/ EditIPRules(g) \/ EditBasicAuth(g) \/ ConfigureWaygatesAuth(g)
        \/ EditRestrictions(g) \/ EditAssignment(g) \/ DeleteGroup(g)
    BY DEF Administers
  <1> DEFINE Changes(d) == /\ d \in Tables
                           /\ \A h \in Groups \ {g} : SameRow(d, db, h)
  <1>t. db \in Tables /\ steady \subseteq Groups /\ edits \in 0 .. MaxEdits /\ MaxEdits \in Nat
    BY BoundAssumption DEF VTypeOK
  <1>c. ASSUME NEW d, Changes(d), Commit(g, d)
        PROVE  Keeps
    <2>1. db' = d /\ steady' = steady \ {g} /\ edits' = edits + 1 /\ edits < MaxEdits
      BY <1>c DEF Commit
    <2>2. edits' \in 0 .. MaxEdits
      BY <1>t, <2>1
    <2> QED
      BY <1>c, <1>t, <2>1, <2>2 DEF Commit, Keeps
  <1>e. ASSUME NEW row \in Rows
        PROVE  /\ Changes([db EXCEPT !["modes"][g] = row["modes"]])
               /\ Changes([db EXCEPT !["rules"][g] = row["rules"]])
               /\ Changes([db EXCEPT !["basic"][g] = row["basic"]])
               /\ Changes([db EXCEPT !["waygates"][g] = row["waygates"]])
               /\ Changes([db EXCEPT !["restrictions"][g] = row["restrictions"]])
               /\ Changes([db EXCEPT !["assigns"][g] = row["assigns"]])
    <2> row \in GroupRow
      BY RowsAssumption
    <2>1. Changes([db EXCEPT !["modes"][g] = row["modes"]])
      BY <1>t DEF Tables, GroupRow, SameRow
    <2>2. Changes([db EXCEPT !["rules"][g] = row["rules"]])
      BY <1>t DEF Tables, GroupRow, SameRow
    <2>3. Changes([db EXCEPT !["basic"][g] = row["basic"]])
      BY <1>t DEF Tables, GroupRow, SameRow
    <2>4. Changes([db EXCEPT !["waygates"][g] = row["waygates"]])
      BY <1>t DEF Tables, GroupRow, SameRow
    <2>5. Changes([db EXCEPT !["restrictions"][g] = row["restrictions"]])
      BY <1>t DEF Tables, GroupRow, SameRow
    <2>6. Changes([db EXCEPT !["assigns"][g] = row["assigns"]])
      BY <1>t DEF Tables, GroupRow, SameRow
    <2> HIDE DEF Changes
    <2> QED
      BY <2>1, <2>2, <2>3, <2>4, <2>5, <2>6
  <1>d. Changes([db EXCEPT !.assigns[g] = Absent, !.modes[g] = Absent, !.rules[g] = {}, !.basic[g] = {},
                           !.waygates[g] = Absent, !.restrictions[g] = Unrestricted])
    BY <1>t, EmptyTyped DEF Tables, Assignment, SameRow
  <1> HIDE DEF Changes
  <1>1. CASE UpdateGroup(g)
    BY <1>1, <1>c, <1>e DEF UpdateGroup, Edit
  <1>2. CASE EditIPRules(g)
    BY <1>2, <1>c, <1>e DEF EditIPRules, Edit
  <1>3. CASE EditBasicAuth(g)
    BY <1>3, <1>c, <1>e DEF EditBasicAuth, Edit
  <1>4. CASE ConfigureWaygatesAuth(g)
    BY <1>4, <1>c, <1>e DEF ConfigureWaygatesAuth, Edit
  <1>5. CASE EditRestrictions(g)
    BY <1>5, <1>c, <1>e DEF EditRestrictions, Edit
  <1>6. CASE EditAssignment(g)
    BY <1>6, <1>c, <1>e DEF EditAssignment, Edit
  <1>7. CASE DeleteGroup(g)
    BY <1>7, <1>c, <1>d DEF DeleteGroup
  <1> QED
    BY <1>1, <1>2, <1>3, <1>4, <1>5, <1>6, <1>7

\* A step of the session: it alone changes.
SessionStep == Login \/ OAuthCallback \/ Expire \/ Logout \/ GetSession

LEMMA SessionStepKeeps ==
    ASSUME VTypeOK, SessionStep
    PROVE  /\ session' \in Session /\ sessionSteady' \in BOOLEAN
           /\ UNCHANGED <<db, edits, steady, requestVars>>
  BY DEF VTypeOK, SessionStep, Session, SessionChange, Login, OAuthCallback, Expire, Logout, GetSession

----------------------------------------------------------------------------
(* Types *)

LEMMA InitTyped == Init => VTypeOK
  <1> SUFFICES ASSUME Init PROVE VTypeOK
    OBVIOUS
  <1>1. db \in Tables
    BY RowsAssumption DEF Init, GroupRow, Tables
  <1>2. session \in Session /\ req \in Request /\ snap \in Tables
    BY EmptyTyped DEF Init, Session, Request
  <1>3. edits \in 0 .. MaxEdits
    BY BoundAssumption DEF Init
  <1>4. /\ pc \in Points /\ answer \in Answers
        /\ left \subseteq Content /\ todo \subseteq Groups /\ steady \subseteq Groups
    BY DEF Init, Points, Answers
  <1> QED
    BY <1>1, <1>2, <1>3, <1>4 DEF Init, VTypeOK

\* Answering a request.
LEMMA AnswerTyped ==
    ASSUME VTypeOK, NEW a \in Answers, Answer(a)
    PROVE  /\ pc' \in Points /\ answer' \in Answers /\ snap' \in Tables
           /\ left' \subseteq Content /\ todo' \subseteq Groups
           /\ unauthorized' \in BOOLEAN /\ req' \in Request /\ dead' \in BOOLEAN
  BY EmptyTyped DEF VTypeOK, Answer, Points

LEMMA NextTyped == VTypeOK /\ [Next]_vars => VTypeOK'
  <1> SUFFICES ASSUME VTypeOK, [Next]_vars PROVE VTypeOK'
    OBVIOUS
  <1>a. {"allow", "forbidden", "login", "error"} \subseteq Answers
    BY DEF Answers
  <1>1. CASE Verify
    BY <1>1 DEF Verify, VTypeOK, Points, Answers
  <1>2. CASE FindProxy
    BY <1>2, <1>a, AnswerTyped DEF FindProxy, VTypeOK, Points
  <1>3. CASE LoadAssignments
    <2>1. [snap EXCEPT !.assigns = db.assigns] \in Tables
      BY DEF VTypeOK, Tables
    <2> QED
      BY <1>3, <1>a, <2>1, AnswerTyped DEF LoadAssignments, VTypeOK, Points
  <1>4. CASE LoadGroups
    <2>1. [snap EXCEPT !.modes = db.modes] \in Tables
      BY DEF VTypeOK, Tables
    <2> QED
      BY <1>4, <2>1 DEF LoadGroups, VTypeOK, Points
  <1>5. CASE LoadFails
    BY <1>5, <1>a, AnswerTyped DEF LoadFails, VTypeOK
  <1>6. CASE Decide
    BY <1>6, <1>a, AnswerTyped DEF Decide, VTypeOK, Points, groupsOf
  <1>7. CASE Refuse
    BY <1>7, <1>a, AnswerTyped DEF Refuse, VTypeOK
  <1>8. ASSUME NEW t \in Content, LoadContent(t)
        PROVE  VTypeOK'
    BY <1>8, LoadTyped DEF LoadContent, VTypeOK, Points
  <1>9. ASSUME NEW g \in Groups, EvaluateGroup(g) \/ SessionLookupFails(g)
        PROVE  VTypeOK'
    <2>1. PICK sn : TryGroup(g, sn)
      BY <1>9 DEF EvaluateGroup, SessionLookupFails
    <2>2. sessionSteady' \in BOOLEAN
      BY <1>9 DEF EvaluateGroup, SessionLookupFails, VTypeOK
    <2> QED
      BY <2>1, <2>2, <1>a, AnswerTyped DEF TryGroup, VTypeOK
  <1>10. CASE SessionStep
    BY <1>10, SessionStepKeeps DEF VTypeOK, requestVars
  <1>11. CASE Administers
    <2>1. Keeps
      BY <1>11, AdministersKeeps
    <2> QED
      BY <2>1 DEF Keeps, VTypeOK, requestVars
  <1>12. CASE UNCHANGED vars
    BY <1>12 DEF vars, VTypeOK
  <1> QED
    BY <1>1, <1>2, <1>3, <1>4, <1>5, <1>6, <1>7, <1>8, <1>9, <1>10, <1>11, <1>12
    DEF Next, SessionStep, Administers

\* The request, its copy of the tables and the session keep their types,
\* whichever edits and failures come in between (VerifyAccess).
THEOREM VerifyTypeCorrect == Spec => []VTypeOK
  BY InitTyped, NextTyped, PTL DEF Spec

----------------------------------------------------------------------------
(* Deny rules *)

\* No group that has not changed denies the client, by the tables as they are.
NoDeny ==
    \A g \in steady : g \in groupsOf(db) => \A r \in db.rules[g] : r.type # "deny"

\* While it loads, the request's copy is right about the groups that have not
\* changed since it began, as far as it has got; once it tries credentials, it
\* has seen that none of them denies.
DenyInv ==
    /\ pc # "idle" => answer = "none"
    /\ pc \in {"groups", "content", "decide"} => \A g \in steady : snap.assigns[g] = db.assigns[g]
    /\ pc \in {"content", "decide"} =>
          \A g \in steady : /\ snap.modes[g] = db.modes[g]
                            /\ "rules" \notin left => snap.rules[g] = db.rules[g]
    /\ pc = "decide" => left = {}
    /\ pc = "auth" => NoDeny
    /\ DenyHonoured

\* An answer is fine if it is a refusal, or nothing that lasted denies.
LEMMA AnswerDeny ==
    ASSUME VTypeOK, DenyInv, NEW a, Answer(a), a # "allow" \/ NoDeny, UNCHANGED <<db, steady>>
    PROVE  DenyInv'
  BY DEF VTypeOK, DenyInv, Answer, NoDeny, DenyHonoured, groupsOf

LEMMA DenyStep == VTypeOK /\ DenyInv /\ [Next]_vars => DenyInv'
  <1> SUFFICES ASSUME VTypeOK, DenyInv, [Next]_vars PROVE DenyInv'
    OBVIOUS
  <1>1. CASE Verify
    BY <1>1 DEF Verify, DenyInv, DenyHonoured
  <1>2. CASE FindProxy
    <2>1. CASE req.host
      BY <1>2, <2>1 DEF FindProxy, DenyInv, DenyHonoured
    <2>2. CASE ~req.host
      BY <1>2, <2>2, AnswerDeny DEF FindProxy
    <2> QED
      BY <2>1, <2>2
  <1>3. CASE LoadAssignments
    <2>1. CASE \A g \in Groups : db.assigns[g] = Absent
      <3>1. groupsOf(db) = {}
        BY <2>1, AbsentAclAssumption DEF groupsOf
      <3> QED
        BY <1>3, <2>1, <3>1, AnswerDeny DEF LoadAssignments, NoDeny
    <2>2. CASE ~\A g \in Groups : db.assigns[g] = Absent
      <3>1. snap'.assigns = db.assigns
        BY <1>3, <2>2 DEF LoadAssignments, VTypeOK, Tables
      <3> QED
        BY <1>3, <2>2, <3>1 DEF LoadAssignments, DenyInv, DenyHonoured
    <2> QED
      BY <2>1, <2>2
  <1>4. CASE LoadGroups
    <2>1. snap'.modes = db.modes /\ snap'.assigns = snap.assigns
      BY <1>4 DEF LoadGroups, VTypeOK, Tables
    <2>2. "rules" \in left'
      BY <1>4 DEF LoadGroups, Content
    <2> QED
      BY <1>4, <2>1, <2>2 DEF LoadGroups, DenyInv, DenyHonoured
  <1>5. CASE LoadFails
    BY <1>5, AnswerDeny DEF LoadFails
  <1>6. CASE Decide
    <2> DEFINE gs == groupsOf(snap)
               denied == ~req.ip \/ checkIPDenyAcrossGroups(snap, gs)
    <2>1. ASSUME NEW g \in steady
          PROVE  /\ g \in groupsOf(db) <=> g \in gs
                 /\ snap.rules[g] = db.rules[g]
      BY <1>6 DEF Decide, DenyInv, groupsOf
    <2>2. gs = {} \/ ~denied => NoDeny
      BY <2>1 DEF NoDeny, checkIPDenyAcrossGroups
    <2>3. UNCHANGED <<db, steady>>
      BY <1>6 DEF Decide
    <2>4. CASE Answer("allow") /\ (gs = {} \/ ~denied)
      BY <2>2, <2>3, <2>4, AnswerDeny
    <2>5. CASE Answer("forbidden")
      BY <2>3, <2>5, AnswerDeny
    <2>6. CASE ~denied /\ pc' = "auth" /\ UNCHANGED answer
      BY <1>6, <2>2, <2>3, <2>6 DEF Decide, DenyInv, DenyHonoured, NoDeny, groupsOf
    <2> QED
      BY <1>6, <2>4, <2>5, <2>6 DEF Decide
  <1>7. CASE Refuse
    BY <1>7, AnswerDeny DEF Refuse
  <1>8. ASSUME NEW t \in Content, LoadContent(t)
        PROVE  DenyInv'
    <2>1. /\ snap'.assigns = snap.assigns /\ snap'.modes = snap.modes
          /\ snap'.rules = IF t = "rules" THEN db.rules ELSE snap.rules
      BY <1>8, LoadTyped DEF LoadContent, VTypeOK
    <2> QED
      BY <1>8, <2>1 DEF LoadContent, DenyInv, DenyHonoured
  <1>9. ASSUME NEW g \in Groups, EvaluateGroup(g) \/ SessionLookupFails(g)
        PROVE  DenyInv'
    <2>1. PICK sn : TryGroup(g, sn)
      BY <1>9 DEF EvaluateGroup, SessionLookupFails
    <2>2. NoDeny /\ UNCHANGED <<db, steady>>
      BY <2>1 DEF TryGroup, DenyInv
    <2>3. CASE Answer("allow")
      BY <2>2, <2>3, AnswerDeny
    <2>4. CASE UNCHANGED <<pc, answer, snap, left>>
      BY <2>1, <2>2, <2>4 DEF TryGroup, DenyInv, DenyHonoured, NoDeny, groupsOf
    <2> QED
      BY <2>1, <2>3, <2>4 DEF TryGroup
  <1>10. CASE SessionStep
    <2>1. UNCHANGED <<db, edits, steady, requestVars>>
      BY <1>10, SessionStepKeeps
    <2> QED
      BY <2>1 DEF requestVars, DenyInv, DenyHonoured, NoDeny, groupsOf
  <1>11. CASE Administers
    <2>1. Keeps
      BY <1>11, AdministersKeeps
    <2>2. UNCHANGED <<pc, snap, left, answer>>
      BY <2>1 DEF Keeps, requestVars
    <2>3. ASSUME NEW g \in steady'
          PROVE  /\ g \in steady /\ (g \in groupsOf(db)' <=> g \in groupsOf(db))
                 /\ db'.assigns[g] = db.assigns[g] /\ db'.modes[g] = db.modes[g]
                 /\ db'.rules[g] = db.rules[g]
      BY <2>1 DEF Keeps, SameRow, groupsOf
    <2> QED
      BY <2>2, <2>3 DEF DenyInv, DenyHonoured, NoDeny
  <1>12. CASE UNCHANGED vars
    BY <1>12 DEF vars, DenyInv, DenyHonoured, NoDeny, groupsOf
  <1> QED
    BY <1>1, <1>2, <1>3, <1>4, <1>5, <1>6, <1>7, <1>8, <1>9, <1>10, <1>11, <1>12
    DEF Next, SessionStep, Administers

\* evaluateUnionAccess honours a deny rule that is in force from the request to
\* its answer, although the tables are read one after another and edited
\* meanwhile.
THEOREM DenyHonouredHolds == Spec => []DenyHonoured
  <1>1. Init => DenyInv
    BY DEF Init, DenyInv, DenyHonoured
  <1>2. DenyInv => DenyHonoured
    BY DEF DenyInv
  <1> QED
    BY <1>1, <1>2, DenyStep, VerifyTypeCorrect, PTL DEF Spec

----------------------------------------------------------------------------
(* The answer of the union *)

\* While it loads, the request's copy is right about every group that has not
\* changed since it began, in the tables it has read so far.
CopyInv ==
    /\ pc \in {"groups", "content", "decide", "auth"} => \A g \in steady : snap.assigns[g] = db.assigns[g]
    /\ pc \in {"content", "decide", "auth"} =>
          \A g \in steady : /\ snap.modes[g] = db.modes[g]
                            /\ "rules" \notin left => snap.rules[g] = db.rules[g]
                            /\ "basic" \notin left => snap.basic[g] = db.basic[g]
                            /\ "waygates" \notin left => snap.waygates[g] = db.waygates[g]
                            /\ "restrictions" \notin left => snap.restrictions[g] = db.restrictions[g]
    /\ pc \in {"decide", "auth"} => left = {}

\* What phases 1 and 2 leave to phase 3: some groups apply, none denies the
\* address and none lets it bypass.
PhaseInv ==
    /\ pc # "idle" => answer = "none"
    /\ pc \notin {"idle", "proxy"} => req.host
    /\ pc # "auth" => unauthorized = FALSE
    /\ pc = "auth" =>
          /\ req.ip /\ groupsOf(snap) # {} /\ todo \subseteq groupsOf(snap)
          /\ ~checkIPDenyAcrossGroups(snap, groupsOf(snap))
          /\ ~checkIPBypassAcrossGroups(snap, groupsOf(snap))

\* A session as an ended one, and as the request shows it.
Blank(sn) == [sn EXCEPT !.status = "none"]
Shown(r, sn) == IF r.token THEN sn ELSE Blank(sn)

\* The groups tried so far, all but gs, do not admit a client with session sn
\* by the copy s, and u says whether one of them knows it.
Tried(s, gs, c, u, sn) ==
    /\ \A g \in groupsOf(s) \ gs : ~evaluateGroupAuth(s, g, sn, c)
    /\ u => \E g \in groupsOf(s) \ gs : Identified(s, g, sn)
    /\ ~u => \A g \in groupsOf(s) \ gs : ~Identified(s, g, sn)

\* As the session is looked up again for each group, this holds of a session
\* that stayed the same; and a session that had ended never comes back.
TriedInv ==
    /\ pc = "auth" /\ sessionSteady => Tried(snap, todo, req.basic, unauthorized, Shown(req, session))
    /\ pc = "auth" /\ dead => Tried(snap, todo, req.basic, unauthorized, Blank(session))
    /\ dead /\ req.token => session.status \in {"expired", "gone"}

\* The union, said of any copy s of the tables, request r and session sn.
AdmitsBy(s, r, g, sn) ==
    \/ SessionPasses(s, g, sn)
    \/ BasicPasses(s, g, r.basic)
    \/ \E x \in s.rules[g] : s.modes[g] = "ip_bypass" \/ (s.modes[g] = "any" /\ x.cidr)
    \/ s.modes[g] = "all" /\ ~groupHasSecureAuth(s, g) /\ s.basic[g] = {}

Denies(s, r) == ~r.ip \/ \E g \in groupsOf(s) : \E x \in s.rules[g] : x.type = "deny"

UnionOf(s, r, sn) ==
    IF ~r.host THEN "forbidden"
    ELSE IF groupsOf(s) = {} \/ (~Denies(s, r) /\ \E g \in groupsOf(s) : AdmitsBy(s, r, g, sn)) THEN "allow"
    ELSE IF Denies(s, r) \/ \E g \in groupsOf(s) : Identified(s, g, sn) THEN "forbidden"
    ELSE "login"

LEMMA UnionIs ==
    ASSUME NEW sn
    PROVE  Union(sn) = UnionOf(db, req, sn)
  BY DEF Union, UnionOf, Denies, Admits, AdmitsBy, groupsOf

LEMMA BlankNotLive ==
    ASSUME NEW sn \in Session
    PROVE  Blank(sn) \in Session /\ Blank(sn).status = "none"
  BY DEF Blank, Session

\* A session that is not live identifies nobody.
LEMMA NotLive ==
    ASSUME NEW s, NEW g, NEW sn, sn.status # "live"
    PROVE  ~Identified(s, g, sn) /\ ~SessionPasses(s, g, sn)
  BY DEF Identified, SessionPasses

\* evaluateGroupAuth without its list of successes.
LEMMA EvaluateIs ==
    ASSUME NEW s, NEW g, NEW sn, NEW c
    PROVE  evaluateGroupAuth(s, g, sn, c) <=>
              \/ SessionPasses(s, g, sn)
              \/ BasicPasses(s, g, c)
              \/ s.modes[g] = "any" /\ evaluateIPRules(s.rules[g]) = "allow"
              \/ /\ s.modes[g] = "all" /\ ~groupHasSecureAuth(s, g) /\ s.basic[g] = {}
                 /\ evaluateIPRules(s.rules[g]) # "deny"
  <1> DEFINE results == {m \in {"session", "basic"} :
                           IF m = "session" THEN SessionPasses(s, g, sn) ELSE BasicPasses(s, g, c)}
  <1>1. results # {} <=> SessionPasses(s, g, sn) \/ BasicPasses(s, g, c)
    OBVIOUS
  <1> HIDE DEF results
  <1>2. evaluateGroupAuth(s, g, sn, c) <=>
              \/ s.modes[g] = "any" /\ evaluateIPRules(s.rules[g]) = "allow"
              \/ /\ s.modes[g] = "all" /\ ~(groupHasSecureAuth(s, g) \/ s.basic[g] # {})
                 /\ evaluateIPRules(s.rules[g]) # "deny"
              \/ results # {}
    BY DEF evaluateGroupAuth, results
  <1> QED
    BY <1>1, <1>2

\* The rules of one group, seen without the set of their types.
LEMMA RulesAre ==
    ASSUME NEW rs
    PROVE  /\ evaluateIPRules(rs) = "allow" =>
                 (\E x \in rs : x.cidr) /\ \A x \in rs : x.cidr => x.type # "deny"
           /\ (\E x \in rs : x.cidr) /\ (\A x \in rs : x.type # "deny") => evaluateIPRules(rs) = "allow"
           /\ (\A x \in rs : x.type # "deny") => evaluateIPRules(rs) # "deny"
  BY DEF evaluateIPRules

\* Phase 3 admits whom the union admits, once phases 1 and 2 have passed.
LEMMA AllowedIsAdmitted ==
    ASSUME NEW s, NEW r, NEW g, NEW sn, evaluateGroupAuth(s, g, sn, r.basic)
    PROVE  AdmitsBy(s, r, g, sn)
  BY EvaluateIs, RulesAre DEF AdmitsBy

LEMMA AdmittedIsAllowed ==
    ASSUME NEW s \in Tables, NEW r, NEW sn, NEW g \in groupsOf(s), AdmitsBy(s, r, g, sn),
           ~checkIPDenyAcrossGroups(s, groupsOf(s)), ~checkIPBypassAcrossGroups(s, groupsOf(s))
    PROVE  evaluateGroupAuth(s, g, sn, r.basic)
  <1>1. \A x \in s.rules[g] : x.type # "deny"
    BY DEF checkIPDenyAcrossGroups
  <1>2. g \in Groups /\ s.rules[g] \subseteq IPRule
    BY DEF groupsOf, Tables
  <1>3. s.modes[g] = "ip_bypass" => s.rules[g] = {}
    BY <1>1, <1>2 DEF checkIPBypassAcrossGroups, IPRule
  <1> QED
    BY <1>1, <1>3, EvaluateIs, RulesAre DEF AdmitsBy

\* Ended sessions are all alike.
LEMMA UnionNotLive ==
    ASSUME NEW s, NEW r, NEW sn, NEW tn, sn.status # "live", tn.status # "live"
    PROVE  /\ UnionOf(s, r, sn) = UnionOf(s, r, tn)
           /\ \A g, c : evaluateGroupAuth(s, g, sn, c) <=> evaluateGroupAuth(s, g, tn, c)
  <1>1. \A g : /\ ~Identified(s, g, sn) /\ ~SessionPasses(s, g, sn)
               /\ ~Identified(s, g, tn) /\ ~SessionPasses(s, g, tn)
    BY NotLive
  <1>2. \A g : AdmitsBy(s, r, g, sn) <=> AdmitsBy(s, r, g, tn)
    BY <1>1 DEF AdmitsBy
  <1>3. UnionOf(s, r, sn) = UnionOf(s, r, tn)
    BY <1>1, <1>2 DEF UnionOf
  <1> QED
    BY <1>1, <1>3, EvaluateIs

\* The answer the three properties ask for, of answer a, tables d, request r,
\* session sn and the histories.
Right(a, d, r, sn, st, ss, dd) ==
    /\ a \notin {"none", "error"} /\ st = Groups /\ ss => a = UnionOf(d, r, Shown(r, sn))
    /\ a \notin {"none", "error"} /\ st = Groups /\ dd => a = UnionOf(d, r, Blank(sn))
    /\ a = "login" /\ r.token /\ ss => \A g \in st \cap groupsOf(d) : ~Identified(d, g, sn)

LEMMA RightNow ==
    Right(answer, db, req, session, steady, sessionSteady, dead) <=>
        UnionDecision /\ DeadSessionIsNone /\ NoLoginLoop
  <1>1. GetSessionByToken = Shown(req, session) /\ NoSession = Blank(session)
    BY DEF GetSessionByToken, NoSession, Shown, Blank
  <1>2. UnionDecision <=>
           (answer \notin {"none", "error"} /\ steady = Groups /\ sessionSteady =>
               answer = UnionOf(db, req, Shown(req, session)))
    BY <1>1, UnionIs DEF UnionDecision
  <1>3. DeadSessionIsNone <=>
           (answer \notin {"none", "error"} /\ steady = Groups /\ dead =>
               answer = UnionOf(db, req, Blank(session)))
    BY <1>1, UnionIs DEF DeadSessionIsNone
  <1> QED
    BY <1>2, <1>3 DEF NoLoginLoop, Right

\* The invariant without the answer, and with it in this form.
RequestInv ==
    CopyInv /\ PhaseInv /\ TriedInv /\ Right(answer, db, req, session, steady, sessionSteady, dead)

\* Once everything is read, an undisturbed request has the tables as they are,
\* and any request the rows of the groups that stayed as they were.
LEMMA CopyIs ==
    ASSUME VTypeOK, CopyInv, pc \in {"decide", "auth"}
    PROVE  /\ \A g \in steady : SameRow(snap, db, g)
           /\ steady = Groups => snap = db
  <1>1. \A g \in steady : SameRow(snap, db, g)
    BY DEF CopyInv, SameRow
  <1>2. ASSUME steady = Groups
        PROVE  snap = db
    <2>1. snap \in Tables /\ db \in Tables
      BY DEF VTypeOK
    <2>2. snap.assigns = db.assigns
      BY <1>1, <1>2, <2>1 DEF SameRow, Tables
    <2>3. snap.modes = db.modes
      BY <1>1, <1>2, <2>1 DEF SameRow, Tables
    <2>4. snap.rules = db.rules
      BY <1>1, <1>2, <2>1 DEF SameRow, Tables
    <2>5. snap.basic = db.basic
      BY <1>1, <1>2, <2>1 DEF SameRow, Tables
    <2>6. snap.waygates = db.waygates
      BY <1>1, <1>2, <2>1 DEF SameRow, Tables
    <2>7. snap.restrictions = db.restrictions
      BY <1>1, <1>2, <2>1 DEF SameRow, Tables
    <2> QED
      BY <2>1, <2>2, <2>3, <2>4, <2>5, <2>6, <2>7 DEF Tables
  <1> QED
    BY <1>1, <1>2

LEMMA SameRowKnows ==
    ASSUME NEW s, NEW d, NEW g, SameRow(s, d, g), NEW sn
    PROVE  /\ g \in groupsOf(s) <=> g \in groupsOf(d)
           /\ Identified(s, g, sn) <=> Identified(d, g, sn)
  BY DEF SameRow, groupsOf, Identified

\* An answer that is right now ends the request well.
LEMMA AnswerRight ==
    ASSUME VTypeOK, RequestInv, NEW a, Answer(a), UNCHANGED <<db, session, steady>>,
           Right(a, db, req, session, steady, sessionSteady', dead)
    PROVE  RequestInv'
  <1>1. CopyInv' /\ PhaseInv'
    BY DEF Answer, CopyInv, PhaseInv
  <1>2. TriedInv'
    BY DEF Answer, TriedInv, RequestInv
  <1>3. Right(answer, db, req, session, steady, sessionSteady, dead)'
    BY DEF Answer
  <1> QED
    BY <1>1, <1>2, <1>3 DEF RequestInv

\* What the union says once phases 1 and 2 have passed.
LEMMA UnionAllows ==
    ASSUME NEW s, NEW r, NEW sn, r.host, r.ip, ~checkIPDenyAcrossGroups(s, groupsOf(s)),
           NEW g \in groupsOf(s), AdmitsBy(s, r, g, sn)
    PROVE  UnionOf(s, r, sn) = "allow"
  BY DEF UnionOf, Denies, checkIPDenyAcrossGroups

LEMMA UnionRefuses ==
    ASSUME NEW s \in Tables, NEW r, NEW sn, r.host, r.ip, groupsOf(s) # {},
           ~checkIPDenyAcrossGroups(s, groupsOf(s)), ~checkIPBypassAcrossGroups(s, groupsOf(s)),
           \A g \in groupsOf(s) : ~evaluateGroupAuth(s, g, sn, r.basic)
    PROVE  UnionOf(s, r, sn) = IF \E g \in groupsOf(s) : Identified(s, g, sn) THEN "forbidden" ELSE "login"
  <1>1. \A g \in groupsOf(s) : ~AdmitsBy(s, r, g, sn)
    BY AdmittedIsAllowed
  <1>2. ~Denies(s, r)
    BY DEF Denies, checkIPDenyAcrossGroups
  <1> QED
    BY <1>1, <1>2 DEF UnionOf

\* The session that is looked up for a group, or the failure to.
LEMMA LookedUp ==
    ASSUME VTypeOK, TriedInv, NEW sn, sn = GetSessionByToken \/ sn = NoSession
    PROVE  /\ sn = Shown(req, session) \/ sn = Blank(session)
           /\ GetSessionByToken = Shown(req, session)
           /\ dead => sn.status # "live"
           /\ Blank(session).status # "live"
  <1>1. session \in Session
    BY DEF VTypeOK
  <1>2. Blank(session).status = "none"
    BY <1>1, BlankNotLive
  <1>3. GetSessionByToken = Shown(req, session) /\ NoSession = Blank(session)
    BY DEF GetSessionByToken, NoSession, Shown, Blank
  <1>4. dead => Shown(req, session).status # "live"
    BY <1>2 DEF TriedInv, Shown
  <1> QED
    BY <1>2, <1>3, <1>4

\* Another group is tried in vain.
LEMMA TriedOneMore ==
    ASSUME NEW s, NEW gs, NEW c, NEW u \in BOOLEAN, NEW sn, Tried(s, gs, c, u, sn),
           NEW g \in groupsOf(s), ~evaluateGroupAuth(s, g, sn, c),
           NEW v \in BOOLEAN, v <=> u \/ Identified(s, g, sn)
    PROVE  Tried(s, gs \ {g}, c, v, sn)
  <1>1. \A h \in groupsOf(s) \ (gs \ {g}) : h = g \/ h \in groupsOf(s) \ gs
    OBVIOUS
  <1>2. \A h \in groupsOf(s) \ (gs \ {g}) : ~evaluateGroupAuth(s, h, sn, c)
    BY <1>1 DEF Tried
  <1>3. ASSUME v PROVE \E h \in groupsOf(s) \ (gs \ {g}) : Identified(s, h, sn)
    <2>1. CASE u
      BY <2>1 DEF Tried
    <2>2. CASE Identified(s, g, sn)
      BY <2>2
    <2> QED
      BY <1>3, <2>1, <2>2
  <1>4. ASSUME ~v PROVE \A h \in groupsOf(s) \ (gs \ {g}) : ~Identified(s, h, sn)
    BY <1>1, <1>4 DEF Tried
  <1> QED
    BY <1>2, <1>3, <1>4 DEF Tried

\* Phase 3 with one more group.
LEMMA TryGroupRight ==
    ASSUME VTypeOK, RequestInv, NEW g \in Groups, NEW sn, TryGroup(g, sn), UNCHANGED session,
           sn = GetSessionByToken \/ sn = NoSession,
           sessionSteady' => sessionSteady /\ sn = GetSessionByToken
    PROVE  RequestInv'
  <1> DEFINE s == snap
             gs == groupsOf(snap)
             shown == Shown(req, session)
             blank == Blank(session)
  <1>1. /\ pc = "auth" /\ g \in todo /\ g \in gs /\ req.host /\ req.ip
        /\ ~checkIPDenyAcrossGroups(s, gs) /\ UNCHANGED <<db, steady>>
    BY DEF TryGroup, RequestInv, PhaseInv
  <1>2. /\ sessionSteady' => sessionSteady /\ sn = shown
        /\ dead => sn.status # "live"
        /\ blank.status # "live"
    BY LookedUp DEF RequestInv
  <1>3. /\ dead => (evaluateGroupAuth(s, g, sn, req.basic) <=> evaluateGroupAuth(s, g, blank, req.basic))
        /\ dead => ~Identified(s, g, sn) /\ ~Identified(s, g, blank)
    BY <1>2, UnionNotLive, NotLive
  <1>4. CASE evaluateGroupAuth(s, g, sn, req.basic)
    <2>1. Answer("allow")
      BY <1>4 DEF TryGroup
    <2>2. steady = Groups => s = db
      BY <1>1, CopyIs DEF RequestInv
    <2>3. sessionSteady' => UnionOf(s, req, shown) = "allow"
      BY <1>1, <1>2, <1>4, AllowedIsAdmitted, UnionAllows
    <2>4. dead => UnionOf(s, req, blank) = "allow"
      BY <1>1, <1>3, <1>4, AllowedIsAdmitted, UnionAllows
    <2>5. Right("allow", db, req, session, steady, sessionSteady', dead)
      BY <2>2, <2>3, <2>4 DEF Right
    <2> QED
      BY <1>1, <2>1, <2>5, AnswerRight
  <1>5. CASE ~evaluateGroupAuth(s, g, sn, req.basic)
    <2>1. /\ todo' = todo \ {g}
          /\ unauthorized' = (unauthorized \/ (Identified(s, g, sn) /\ ~SessionPasses(s, g, sn)))
          /\ UNCHANGED <<pc, req, snap, left, answer, dead>>
      BY <1>5 DEF TryGroup
    <2>2. unauthorized \in BOOLEAN /\ unauthorized' \in BOOLEAN
      BY <2>1 DEF VTypeOK
    <2>3. ~SessionPasses(s, g, sn)
      BY <1>5, EvaluateIs
    <2>4. unauthorized' <=> unauthorized \/ Identified(s, g, sn)
      BY <2>1, <2>3
    <2>5. sessionSteady' => Tried(s, todo \ {g}, req.basic, unauthorized', shown)
      BY <1>1, <1>2, <1>5, <2>2, <2>4, TriedOneMore DEF RequestInv, TriedInv
    <2>6. dead => Tried(s, todo \ {g}, req.basic, unauthorized', blank)
      BY <1>1, <1>3, <1>5, <2>2, <2>4, TriedOneMore DEF RequestInv, TriedInv
    <2>7. TriedInv'
      BY <1>1, <2>1, <2>5, <2>6 DEF RequestInv, TriedInv
    <2>8. CopyInv' /\ PhaseInv'
      BY <1>1, <2>1 DEF RequestInv, CopyInv, PhaseInv
    <2>9. answer' = "none"
      BY <1>1, <2>1 DEF RequestInv, PhaseInv
    <2>10. Right(answer, db, req, session, steady, sessionSteady, dead)'
      BY <2>9 DEF Right
    <2> QED
      BY <2>7, <2>8, <2>10 DEF RequestInv
  <1> QED
    BY <1>4, <1>5

\* Phase 4.
LEMMA RefuseRight ==
    ASSUME VTypeOK, RequestInv, Refuse
    PROVE  RequestInv'
  <1> DEFINE gs == groupsOf(snap)
             a == IF unauthorized THEN "forbidden" ELSE "login"
             shown == Shown(req, session)
             blank == Blank(session)
  <1>1. /\ pc = "auth" /\ todo = {} /\ Answer(a)
        /\ UNCHANGED <<db, session, steady, sessionSteady>>
    BY DEF Refuse
  <1>2. /\ req.host /\ req.ip /\ gs # {} /\ snap \in Tables
        /\ ~checkIPDenyAcrossGroups(snap, gs) /\ ~checkIPBypassAcrossGroups(snap, gs)
    BY <1>1 DEF RequestInv, PhaseInv, VTypeOK
  <1>3. ASSUME NEW sn, Tried(snap, todo, req.basic, unauthorized, sn)
        PROVE  a = UnionOf(snap, req, sn) /\ (a = "login" => \A g \in gs : ~Identified(snap, g, sn))
    <2>1. gs \ todo = gs
      BY <1>1
    <2>2. \A g \in gs : ~evaluateGroupAuth(snap, g, sn, req.basic)
      BY <1>3, <2>1 DEF Tried
    <2>3. UnionOf(snap, req, sn) = IF \E g \in gs : Identified(snap, g, sn) THEN "forbidden" ELSE "login"
      BY <1>2, <2>2, UnionRefuses
    <2>4. /\ unauthorized => \E g \in gs : Identified(snap, g, sn)
          /\ ~unauthorized => \A g \in gs : ~Identified(snap, g, sn)
      BY <1>3, <2>1 DEF Tried
    <2> QED
      BY <2>3, <2>4
  <1>4. sessionSteady => /\ a = UnionOf(snap, req, shown)
                         /\ a = "login" => \A g \in gs : ~Identified(snap, g, shown)
    BY <1>1, <1>3 DEF RequestInv, TriedInv
  <1>5. dead => a = UnionOf(snap, req, blank)
    BY <1>1, <1>3 DEF RequestInv, TriedInv
  <1>6. /\ \A g \in steady : SameRow(snap, db, g)
        /\ steady = Groups => snap = db
    BY <1>1, CopyIs DEF RequestInv
  <1>7. ASSUME a = "login", req.token, sessionSteady, NEW g \in steady \cap groupsOf(db)
        PROVE  ~Identified(db, g, session)
    BY <1>4, <1>6, <1>7, SameRowKnows DEF Shown
  <1>8. Right(a, db, req, session, steady, sessionSteady', dead)
    BY <1>1, <1>4, <1>5, <1>6, <1>7 DEF Right
  <1> QED
    BY <1>1, <1>8, AnswerRight

\* Phases 1 and 2.
LEMMA DecideRight ==
    ASSUME VTypeOK, RequestInv, Decide
    PROVE  RequestInv'
  <1> DEFINE gs == groupsOf(snap)
             denied == ~req.ip \/ checkIPDenyAcrossGroups(snap, gs)
             bypass == checkIPBypassAcrossGroups(snap, gs)
  <1>1. pc = "decide" /\ req.host /\ UNCHANGED <<db, session, steady, sessionSteady>>
    BY DEF Decide, RequestInv, PhaseInv
  <1>2. steady = Groups => snap = db
    BY <1>1, CopyIs DEF RequestInv
  <1>3. denied <=> Denies(snap, req)
    BY DEF Denies, checkIPDenyAcrossGroups
  <1>4. ASSUME NEW a, Answer(a), a # "login", \A sn : UnionOf(snap, req, sn) = a
        PROVE  RequestInv'
    <2>1. Right(a, db, req, session, steady, sessionSteady', dead)
      BY <1>2, <1>4 DEF Right
    <2> QED
      BY <1>1, <1>4, <2>1, AnswerRight
  <1>5. CASE gs = {}
    <2>1. Answer("allow")
      BY <1>5 DEF Decide
    <2>2. \A sn : UnionOf(snap, req, sn) = "allow"
      BY <1>1, <1>5 DEF UnionOf
    <2> QED
      BY <1>4, <2>1, <2>2
  <1>6. CASE gs # {} /\ denied
    <2>1. Answer("forbidden")
      BY <1>6 DEF Decide
    <2>2. \A sn : UnionOf(snap, req, sn) = "forbidden"
      BY <1>3, <1>6 DEF UnionOf
    <2> QED
      BY <1>4, <2>1, <2>2
  <1>7. CASE gs # {} /\ ~denied /\ bypass
    <2>1. Answer("allow")
      BY <1>7 DEF Decide
    <2>2. PICK g \in gs : \E x \in snap.rules[g] : snap.modes[g] = "ip_bypass"
      BY <1>7 DEF checkIPBypassAcrossGroups
    <2>3. \A sn : AdmitsBy(snap, req, g, sn)
      BY <2>2 DEF AdmitsBy
    <2>4. \A sn : UnionOf(snap, req, sn) = "allow"
      BY <1>1, <1>7, <2>3, UnionAllows
    <2> QED
      BY <1>4, <2>1, <2>4
  <1>8. CASE gs # {} /\ ~denied /\ ~bypass
    <2>1. pc' = "auth" /\ todo' = gs /\ UNCHANGED <<req, snap, left, unauthorized, answer, dead>>
      BY <1>8 DEF Decide
    <2>2. ~unauthorized /\ answer' = "none"
      BY <1>1, <2>1 DEF RequestInv, PhaseInv
    <2>3. \A sn : Tried(snap, gs, req.basic, unauthorized, sn)
      BY <2>2 DEF Tried
    <2>4. TriedInv'
      BY <1>1, <2>1, <2>3 DEF RequestInv, TriedInv
    <2>5. CopyInv'
      BY <1>1, <2>1 DEF RequestInv, CopyInv
    <2>6. PhaseInv'
      BY <1>1, <1>8, <2>1, <2>2 DEF PhaseInv
    <2>7. Right(answer, db, req, session, steady, sessionSteady, dead)'
      BY <2>2 DEF Right
    <2> QED
      BY <2>4, <2>5, <2>6, <2>7 DEF RequestInv
  <1> QED
    BY <1>5, <1>6, <1>7, <1>8

\* While the request loads nothing is answered, so only its copy matters.
LEMMA LoadingRight ==
    ASSUME VTypeOK, RequestInv, pc # "idle", pc \notin {"decide", "auth"},
           UNCHANGED <<db, session, steady, sessionSteady, req, unauthorized, answer, dead>>,
           pc' \in {"assignments", "groups", "content", "decide"}, req.host, CopyInv'
    PROVE  RequestInv'
  <1>1. answer' = "none" /\ unauthorized' = FALSE
    BY DEF RequestInv, PhaseInv
  <1>2. PhaseInv'
    BY <1>1 DEF PhaseInv
  <1>3. TriedInv'
    BY DEF RequestInv, TriedInv
  <1>4. Right(answer, db, req, session, steady, sessionSteady, dead)'
    BY <1>1 DEF Right
  <1> QED
    BY <1>2, <1>3, <1>4 DEF RequestInv

LEMMA SessionRight ==
    ASSUME VTypeOK, RequestInv, SessionStep
    PROVE  RequestInv'
  <1>1. /\ session' \in Session /\ ~sessionSteady'
        /\ UNCHANGED <<db, steady, pc, req, snap, left, todo, unauthorized, answer, dead>>
    BY SessionStepKeeps DEF requestVars, SessionStep, SessionChange,
                            Login, OAuthCallback, Expire, Logout, GetSession
  <1>2. Blank(session).status = "none" /\ Blank(session').status = "none"
    BY <1>1, BlankNotLive DEF VTypeOK
  <1>3. \A g : ~Identified(snap, g, Blank(session)) /\ ~Identified(snap, g, Blank(session'))
    BY <1>2, NotLive
  <1>4. dead /\ req.token => session.status \in {"expired", "gone"}
    BY DEF RequestInv, TriedInv
  <1>5. session.status \in {"expired", "gone"} => session'.status \in {"expired", "gone"}
    BY DEF VTypeOK, Session, SessionStep, SessionChange, Login, OAuthCallback, Expire, Logout, GetSession
  <1>6. Tried(snap, todo, req.basic, unauthorized, Blank(session)) =>
           Tried(snap, todo, req.basic, unauthorized, Blank(session'))
    BY <1>2, <1>3, UnionNotLive DEF Tried
  <1>7. TriedInv'
    BY <1>1, <1>4, <1>5, <1>6 DEF RequestInv, TriedInv
  <1>8. CopyInv' /\ PhaseInv'
    BY <1>1 DEF RequestInv, CopyInv, PhaseInv
  <1>9. UnionOf(db, req, Blank(session)) = UnionOf(db, req, Blank(session'))
    BY <1>2, UnionNotLive
  <1>10. Right(answer, db, req, session, steady, sessionSteady, dead)'
    BY <1>1, <1>9 DEF RequestInv, Right
  <1> QED
    BY <1>7, <1>8, <1>10 DEF RequestInv

LEMMA AdministersRight ==
    ASSUME VTypeOK, RequestInv, Administers
    PROVE  RequestInv'
  <1>1. Keeps
    BY AdministersKeeps
  <1>2. UNCHANGED <<session, sessionSteady, pc, req, snap, left, todo, unauthorized, answer, dead>>
    BY <1>1 DEF Keeps, requestVars
  <1>3. ASSUME NEW g \in steady'
        PROVE  g \in steady /\ SameRow(db', db, g)
    BY <1>1 DEF Keeps
  <1>4. CopyInv'
    BY <1>2, <1>3 DEF RequestInv, CopyInv, SameRow
  <1>5. PhaseInv' /\ TriedInv'
    BY <1>2 DEF RequestInv, PhaseInv, TriedInv
  <1>6. ASSUME NEW g \in steady' \cap groupsOf(db')
        PROVE  /\ g \in steady \cap groupsOf(db)
               /\ Identified(db, g, session) <=> Identified(db', g, session')
    BY <1>2, <1>3, SameRowKnows
  <1>7. steady' # Groups
    BY <1>1 DEF Keeps
  <1>8. Right(answer, db, req, session, steady, sessionSteady, dead)'
    BY <1>2, <1>6, <1>7 DEF RequestInv, Right
  <1> QED
    BY <1>4, <1>5, <1>8 DEF RequestInv

LEMMA RequestStep == VTypeOK /\ RequestInv /\ [Next]_vars => RequestInv'
  <1> SUFFICES ASSUME VTypeOK, RequestInv, [Next]_vars PROVE RequestInv'
    OBVIOUS
  <1>1. CASE Verify
    <2>1. CopyInv' /\ PhaseInv' /\ Right(answer, db, req, session, steady, sessionSteady, dead)'
      BY <1>1 DEF Verify, RequestInv, CopyInv, PhaseInv, Right
    <2>2. dead' /\ req'.token => session.status \notin {"none", "live"}
      BY <1>1 DEF Verify
    <2>3. TriedInv'
      BY <1>1, <2>2 DEF Verify, TriedInv, VTypeOK, Session
    <2> QED
      BY <2>1, <2>3 DEF RequestInv
  <1>2. CASE FindProxy
    <2>1. CASE req.host
      <3>1. CopyInv'
        BY <1>2, <2>1 DEF FindProxy, CopyInv
      <3> QED
        BY <1>2, <2>1, <3>1, LoadingRight DEF FindProxy
    <2>2. CASE ~req.host
      <3>1. Right("forbidden", db, req, session, steady, sessionSteady', dead)
        BY <2>2 DEF Right, UnionOf
      <3> QED
        BY <1>2, <2>2, <3>1, AnswerRight DEF FindProxy
    <2> QED
      BY <2>1, <2>2
  <1>3. CASE LoadAssignments
    <2>0. req.host
      BY <1>3 DEF LoadAssignments, RequestInv, PhaseInv
    <2>1. CASE \A g \in Groups : db.assigns[g] = Absent
      <3>1. groupsOf(db) = {}
        BY <2>1, AbsentAclAssumption DEF groupsOf
      <3>2. Right("allow", db, req, session, steady, sessionSteady', dead)
        BY <2>0, <3>1 DEF Right, UnionOf
      <3> QED
        BY <1>3, <2>1, <3>2, AnswerRight DEF LoadAssignments
    <2>2. CASE ~\A g \in Groups : db.assigns[g] = Absent
      <3>1. snap'.assigns = db.assigns
        BY <1>3, <2>2 DEF LoadAssignments, VTypeOK, Tables
      <3>2. CopyInv'
        BY <1>3, <2>2, <3>1 DEF LoadAssignments, CopyInv
      <3> QED
        BY <1>3, <2>0, <2>2, <3>2, LoadingRight DEF LoadAssignments
    <2> QED
      BY <2>1, <2>2
  <1>4. CASE LoadGroups
    <2>0. req.host
      BY <1>4 DEF LoadGroups, RequestInv, PhaseInv
    <2>1. snap'.modes = db.modes /\ snap'.assigns = snap.assigns
      BY <1>4 DEF LoadGroups, VTypeOK, Tables
    <2>2. {"rules", "basic", "waygates", "restrictions"} \subseteq left'
      BY <1>4 DEF LoadGroups, Content
    <2>3. CopyInv'
      BY <1>4, <2>1, <2>2 DEF LoadGroups, RequestInv, CopyInv
    <2> QED
      BY <1>4, <2>0, <2>3, LoadingRight DEF LoadGroups
  <1>5. CASE LoadFails
    <2>1. Right("error", db, req, session, steady, sessionSteady', dead)
      BY DEF Right
    <2> QED
      BY <1>5, <2>1, AnswerRight DEF LoadFails
  <1>6. CASE Decide
    BY <1>6, DecideRight
  <1>7. CASE Refuse
    BY <1>7, RefuseRight
  <1>8. ASSUME NEW t \in Content, LoadContent(t)
        PROVE  RequestInv'
    <2>0. req.host
      BY <1>8 DEF LoadContent, RequestInv, PhaseInv
    <2>1. /\ snap'.assigns = snap.assigns /\ snap'.modes = snap.modes
          /\ snap'.rules = IF t = "rules" THEN db.rules ELSE snap.rules
          /\ snap'.basic = IF t = "basic" THEN db.basic ELSE snap.basic
          /\ snap'.waygates = IF t = "waygates" THEN db.waygates ELSE snap.waygates
          /\ snap'.restrictions = IF t = "restrictions" THEN db.restrictions ELSE snap.restrictions
      BY <1>8, LoadTyped DEF LoadContent, VTypeOK
    <2>2. CopyInv'
      BY <1>8, <2>1 DEF LoadContent, RequestInv, CopyInv
    <2> QED
      BY <1>8, <2>0, <2>2, LoadingRight DEF LoadContent
  <1>9. ASSUME NEW g \in Groups, EvaluateGroup(g) \/ SessionLookupFails(g)
        PROVE  RequestInv'
    <2>1. CASE EvaluateGroup(g)
      BY <2>1, TryGroupRight DEF EvaluateGroup, TryGroup
    <2>2. CASE SessionLookupFails(g)
      BY <2>2, TryGroupRight DEF SessionLookupFails, TryGroup
    <2> QED
      BY <1>9, <2>1, <2>2
  <1>10. CASE SessionStep
    BY <1>10, SessionRight
  <1>11. CASE Administers
    BY <1>11, AdministersRight
  <1>12. CASE UNCHANGED vars
    BY <1>12 DEF vars, RequestInv, CopyInv, PhaseInv, TriedInv
  <1> QED
    BY <1>1, <1>2, <1>3, <1>4, <1>5, <1>6, <1>7, <1>8, <1>9, <1>10, <1>11, <1>12
    DEF Next, SessionStep, Administers

LEMMA InitRight == Init => RequestInv
  <1> SUFFICES ASSUME Init PROVE RequestInv
    OBVIOUS
  <1>1. CopyInv /\ PhaseInv /\ TriedInv
    BY DEF Init, CopyInv, PhaseInv, TriedInv
  <1>2. Right(answer, db, req, session, steady, sessionSteady, dead)
    BY DEF Init, Right
  <1> QED
    BY <1>1, <1>2 DEF RequestInv

LEMMA RequestInvariant == Spec => [](UnionDecision /\ DeadSessionIsNone /\ NoLoginLoop)
  <1>1. RequestInv => UnionDecision /\ DeadSessionIsNone /\ NoLoginLoop
    BY RightNow DEF RequestInv
  <1> QED
    BY <1>1, InitRight, RequestStep, VerifyTypeCorrect, PTL DEF Spec

\* evaluateUnionAccess, which works in phases and group by group, gives a request
\* nothing disturbs the answer of the union, for any number of groups.
THEOREM UnionDecisionHolds == Spec => []UnionDecision
  BY RequestInvariant, PTL

\* VerifyAccess takes a session that had ended when the request began for none,
\* although it is looked up again for every group and its row may go meanwhile.
THEOREM DeadSessionIsNoneHolds == Spec => []DeadSessionIsNone
  BY RequestInvariant, PTL

\* VerifyAccess never sends a client to log in whose session stays live and whom
\* a group that stays as it is knows, whatever is edited meanwhile.
THEOREM NoLoginLoopHolds == Spec => []NoLoginLoop
  BY RequestInvariant, PTL
============================================================================
