---------------------------- MODULE AclVerify ----------------------------
(***************************************************************************)
(* One forward_auth request of Caddy: ACLVerifyHandler.Verify and          *)
(* ACLService.VerifyAccess (backend/internal/service/acl_service.go), and  *)
(* what may happen meanwhile: an administrator edits the ACL groups, the   *)
(* session in the request's cookie expires or is revoked.                  *)
(*                                                                         *)
(* The request first reads the assignments of its proxy, then their        *)
(* groups, then each table of a group's content, in queries of their own   *)
(* (GORM preloads, no transaction).  It decides on that copy, but looks    *)
(* the session up again for every group it tries.                          *)
(*                                                                         *)
(* The client's address and path are fixed, so an IP rule is kept only if  *)
(* its network contains the address, and an assignment only says whether   *)
(* it applies.  Lists of names, e-mail addresses and domains are the sets  *)
(* of people they match; the empty list restricts nobody, as in the code.  *)
(* Verification writes no ACL table, so one request at a time is as good   *)
(* as many.                                                                *)
(***************************************************************************)
EXTENDS Naturals

CONSTANTS
    Groups,     \* ACL groups
    People,     \* Waygates users and OAuth identities
    Client,     \* the one who logs in
    Providers,  \* OAuth providers
    Creds,      \* basic auth credentials (a name with its password)
    Rows,       \* the contents an ACL group and its assignment may have
    Absent,     \* no such row, no such credential
    MaxEdits,   \* bound on the administrator's commits
    DbFails     \* TRUE when a repository call may return an error

Modes == {"any", "all", "ip_bypass"}
IPRule == [type : {"allow", "deny", "bypass"}, cidr : BOOLEAN]  \* or a single address
WaygatesAuth == [enabled : BOOLEAN, users : SUBSET People,
                 providers : SUBSET Providers, emails : SUBSET People]
Restriction == [enabled : BOOLEAN, emails : SUBSET People]
Restrictions == [Providers -> Restriction \cup {Absent}]

\* Enabled with a pattern that matches the path, or not; or no assignment.
Assignment == {"applies", "skipped", Absent}

GroupRow == [assigns : Assignment, modes : Modes, rules : SUBSET IPRule,
             basic : SUBSET Creds, waygates : WaygatesAuth \cup {Absent},
             restrictions : Restrictions]

ASSUME RowsAssumption == Rows \subseteq GroupRow
ASSUME ClientAssumption == Client \in People
ASSUME BoundAssumption == MaxEdits \in Nat /\ DbFails \in BOOLEAN
ASSUME AbsentAclAssumption ==
    Absent \notin WaygatesAuth \cup Restriction \cup Modes \cup Creds \cup {"applies", "skipped"}

\* The tables preloaded for every group.
Content == {"rules", "basic", "waygates", "restrictions"}

Tables == [assigns : [Groups -> Assignment], modes : [Groups -> Modes \cup {Absent}],
           rules : [Groups -> SUBSET IPRule], basic : [Groups -> SUBSET Creds],
           waygates : [Groups -> WaygatesAuth \cup {Absent}],
           restrictions : [Groups -> Restrictions]]

Session == [status : {"none", "live", "expired", "gone"}, kind : {"user", "oauth"},
            provider : Providers]

\* What a request brings along: a session cookie, basic auth credentials, an
\* address that can be parsed, the hostname of a proxy.
Request == [token : BOOLEAN, basic : Creds \cup {Absent}, ip : BOOLEAN, host : BOOLEAN]

Answers == {"none", "allow", "forbidden", "login", "error"}  \* 200, 403, 401, 500
Points == {"idle", "proxy", "assignments", "groups", "content", "decide", "auth"}

VARIABLES
    db,             \* the ACL tables, for the proxy asked for
    session,        \* the session whose token the client holds
    edits,          \* commits so far
    pc,             \* control point of the request
    req,            \* the request
    snap,           \* what it has read
    left,           \* tables of Content it has yet to read
    todo,           \* groups it has yet to try
    unauthorized,   \* hasAuthenticatedButUnauthorized
    answer,         \* how it ended
    steady,         \* history: groups not changed since it began
    sessionSteady,  \* history: the same of the session, and its reads succeeded
    dead            \* history: the session was not live when it began

vars == <<db, session, edits, pc, req, snap, left, todo, unauthorized, answer,
          steady, sessionSteady, dead>>
requestVars == <<pc, req, snap, left, todo, unauthorized, answer, dead>>

----------------------------------------------------------------------------
(* Deciding on a copy s of the tables. *)

\* What is read of a proxy without assignments, and of a group without content.
Unrestricted == [p \in Providers |-> Absent]
NoTables ==
    [assigns |-> [g \in Groups |-> Absent], modes |-> [g \in Groups |-> Absent],
     rules |-> [g \in Groups |-> {}], basic |-> [g \in Groups |-> {}],
     waygates |-> [g \in Groups |-> Absent], restrictions |-> [g \in Groups |-> Unrestricted]]

\* filterAssignmentsByPath, and the loop that collects the groups: an assignment
\* whose group was not there to be loaded is left out.
groupsOf(s) == {g \in Groups : s.assigns[g] = "applies" /\ s.modes[g] # Absent}

\* Mutant of checkIPDenyAcrossGroups: only rules in CIDR form are found.
DenyByCIDR(s, gs) == \E g \in gs : \E r \in s.rules[g] : r.type = "deny" /\ r.cidr

\* Phases 1 and 2 take a single address for a network of its own.
checkIPDenyAcrossGroups(s, gs) == \E g \in gs : \E r \in s.rules[g] : r.type = "deny"
checkIPBypassAcrossGroups(s, gs) ==
    \E g \in gs : /\ s.modes[g] = "ip_bypass"
                  /\ \E r \in s.rules[g] : r.type \in {"allow", "bypass"}

\* The rules of one group, those in CIDR form only: a deny rule comes first.
evaluateIPRules(rs) ==
    LET types == {r.type : r \in {x \in rs : x.cidr}}
    IN  IF "deny" \in types THEN "deny" ELSE IF types # {} THEN "allow" ELSE "none"

isUserAllowedByWaygatesAuth(w) == w.users = {} \/ Client \in w.users

checkEmailAgainstRestrictions(emails) == emails = {} \/ Client \in emails

\* A restriction of the session's own provider takes the place of the global
\* list, unless it is switched off.
isOAuthUserAllowed(sn, w, rs) ==
    /\ w.providers = {} \/ sn.provider \in w.providers
    /\ IF rs[sn.provider] # Absent /\ rs[sn.provider].enabled
       THEN checkEmailAgainstRestrictions(rs[sn.provider].emails)
       ELSE checkEmailAgainstRestrictions(w.emails)

\* Mutant of Identified: IsExpired is not asked.
IdentifiedByRow(s, g, sn) ==
    /\ s.waygates[g] # Absent
    /\ sn.status \in {"live", "expired"}
    /\ sn.kind = "oauth" \/ s.waygates[g].enabled

\* The session says who the client is, as far as this group cares: a password
\* session needs Waygates auth enabled, an OAuth session only its configuration.
Identified(s, g, sn) ==
    /\ s.waygates[g] # Absent
    /\ sn.status = "live"
    /\ sn.kind = "oauth" \/ s.waygates[g].enabled

SessionPasses(s, g, sn) ==
    /\ Identified(s, g, sn)
    /\ IF sn.kind = "oauth"
       THEN isOAuthUserAllowed(sn, s.waygates[g], s.restrictions[g])
       ELSE isUserAllowedByWaygatesAuth(s.waygates[g])

groupHasSecureAuth(s, g) ==
    \/ s.waygates[g] # Absent /\ s.waygates[g].enabled
    \/ \E p \in Providers : s.restrictions[g][p] # Absent

BasicPasses(s, g, c) == ~groupHasSecureAuth(s, g) /\ c \in s.basic[g]

\* Mutant of evaluateGroupAuth: in mode "all" a group without any method of
\* authentication admits nobody.
EvaluateStrictly(s, g, sn, c) ==
    LET authResults == {m \in {"session", "basic"} :
                          IF m = "session" THEN SessionPasses(s, g, sn) ELSE BasicPasses(s, g, c)}
    IN  \/ s.modes[g] = "any" /\ evaluateIPRules(s.rules[g]) = "allow"
        \/ authResults # {}

\* evaluateGroupAuth's result.Allowed.  Only successes are collected, so "all"
\* asks for one of them, and for none where the group has no method at all.
evaluateGroupAuth(s, g, sn, c) ==
    LET authResults == {m \in {"session", "basic"} :
                          IF m = "session" THEN SessionPasses(s, g, sn) ELSE BasicPasses(s, g, c)}
        hasAuthRequirements == groupHasSecureAuth(s, g) \/ s.basic[g] # {}
    IN  \/ s.modes[g] = "any" /\ evaluateIPRules(s.rules[g]) = "allow"
        \/ s.modes[g] = "all" /\ ~hasAuthRequirements /\ evaluateIPRules(s.rules[g]) # "deny"
        \/ authResults # {}

----------------------------------------------------------------------------
(* The request, ACLVerifyHandler.Verify *)

Init ==
    /\ \E row \in [Groups -> Rows] :
          db = [assigns |-> [g \in Groups |-> row[g].assigns],
                modes |-> [g \in Groups |-> row[g].modes],
                rules |-> [g \in Groups |-> row[g].rules],
                basic |-> [g \in Groups |-> row[g].basic],
                waygates |-> [g \in Groups |-> row[g].waygates],
                restrictions |-> [g \in Groups |-> row[g].restrictions]]
    /\ session \in [status : {"none"}, kind : {"user"}, provider : Providers]
    /\ edits = 0
    /\ pc = "idle"
    /\ req = [token |-> FALSE, basic |-> Absent, ip |-> TRUE, host |-> TRUE]
    /\ snap = NoTables
    /\ left = {} /\ todo = {} /\ unauthorized = FALSE
    /\ answer = "none"
    /\ steady = {} /\ sessionSteady = FALSE /\ dead = TRUE

\* The answer goes out; what the request knew is gone.
Answer(a) ==
    /\ pc' = "idle" /\ answer' = a
    /\ snap' = NoTables /\ left' = {} /\ todo' = {} /\ unauthorized' = FALSE
    /\ UNCHANGED <<req, dead>>

\* Caddy asks.  The client may hold the session's token once it has been issued.
Verify ==
    /\ pc = "idle"
    /\ pc' = "proxy" /\ answer' = "none"
    /\ req' \in Request
    /\ req'.token => session.status # "none"
    /\ steady' = Groups /\ sessionSteady' = TRUE /\ dead' = (session.status # "live")
    /\ UNCHANGED <<db, session, edits, snap, left, todo, unauthorized>>

\* proxyRepo.GetByHostname
FindProxy ==
    /\ pc = "proxy"
    /\ IF req.host THEN pc' = "assignments" /\ UNCHANGED <<req, snap, left, todo, unauthorized, answer, dead>>
                   ELSE Answer("forbidden")
    /\ UNCHANGED <<db, session, edits, steady, sessionSteady>>

\* GetProxyACLAssignments: the rows of the proxy; without any the request passes.
LoadAssignments ==
    /\ pc = "assignments"
    /\ IF \A g \in Groups : db.assigns[g] = Absent
       THEN Answer("allow")
       ELSE /\ pc' = "groups" /\ snap' = [snap EXCEPT !.assigns = db.assigns]
            /\ UNCHANGED <<req, left, todo, unauthorized, answer, dead>>
    /\ UNCHANGED <<db, session, edits, steady, sessionSteady>>

\* Preload("ACLGroup")
LoadGroups ==
    /\ pc = "groups"
    /\ pc' = "content" /\ left' = Content
    /\ snap' = [snap EXCEPT !.modes = db.modes]
    /\ UNCHANGED <<db, session, edits, req, todo, unauthorized, answer, steady, sessionSteady, dead>>

\* Preload("ACLGroup.IPRules") and so on: GORM takes the names in alphabetical
\* order (BasicAuthUsers, IPRules, OAuthProviderRestrictions, WaygatesAuth).
PreloadRank == [basic |-> 1, rules |-> 2, restrictions |-> 3, waygates |-> 4]
LoadContent(t) ==
    /\ pc = "content" /\ t \in left
    /\ \A u \in left : PreloadRank[t] <= PreloadRank[u]
    /\ left' = left \ {t}
    /\ pc' = IF left' = {} THEN "decide" ELSE "content"
    /\ snap' = [snap EXCEPT ![t] = db[t]]
    /\ UNCHANGED <<db, session, edits, req, todo, unauthorized, answer, steady, sessionSteady, dead>>

\* Any of these queries may fail.
LoadFails ==
    /\ DbFails /\ pc \in {"proxy", "assignments", "groups", "content"}
    /\ Answer("error")
    /\ UNCHANGED <<db, session, edits, steady, sessionSteady>>

\* The rest of VerifyAccess, and phases 1 and 2 of evaluateUnionAccess.
Decide ==
    LET gs == groupsOf(snap)
        denied == ~req.ip \/ checkIPDenyAcrossGroups(snap, gs)
    IN  /\ pc = "decide"
        /\ CASE gs = {} -> Answer("allow")
             [] gs # {} /\ denied -> Answer("forbidden")
             [] gs # {} /\ ~denied /\ checkIPBypassAcrossGroups(snap, gs) -> Answer("allow")
             [] OTHER -> /\ pc' = "auth" /\ todo' = gs
                         /\ UNCHANGED <<req, snap, left, unauthorized, answer, dead>>
        /\ UNCHANGED <<db, session, edits, steady, sessionSteady>>

\* GetSessionByToken, as the loop over the groups uses it: an error is the same
\* as no session.
NoSession == [session EXCEPT !.status = "none"]
GetSessionByToken == IF req.token THEN session ELSE NoSession

\* Phase 3, for the next group by priority (any order: priorities are free).
TryGroup(g, sn) ==
    /\ pc = "auth" /\ g \in todo
    /\ IF evaluateGroupAuth(snap, g, sn, req.basic)
       THEN Answer("allow")
       ELSE /\ todo' = todo \ {g}
            /\ unauthorized' = (unauthorized \/ (Identified(snap, g, sn) /\ ~SessionPasses(snap, g, sn)))
            /\ UNCHANGED <<pc, req, snap, left, answer, dead>>
    /\ UNCHANGED <<db, session, edits, steady>>

EvaluateGroup(g) == TryGroup(g, GetSessionByToken) /\ UNCHANGED sessionSteady
SessionLookupFails(g) == DbFails /\ req.token /\ TryGroup(g, NoSession) /\ sessionSteady' = FALSE

\* Mutant of Refuse: a client it knows is sent to log in again.
RefuseToLogin ==
    /\ pc = "auth" /\ todo = {}
    /\ Answer("login")
    /\ UNCHANGED <<db, session, edits, steady, sessionSteady>>

\* Phase 4: a client no group admits is sent to log in, unless it has.
Refuse ==
    /\ pc = "auth" /\ todo = {}
    /\ Answer(IF unauthorized THEN "forbidden" ELSE "login")
    /\ UNCHANGED <<db, session, edits, steady, sessionSteady>>

----------------------------------------------------------------------------
(* The session: Login, the OAuth callback, Logout, GetSession *)

SessionChange(sn) ==
    /\ session' = sn
    /\ sessionSteady' = FALSE
    /\ UNCHANGED <<db, edits, steady, requestVars>>

\* CreateSessionWithParams; a token is random, so it is never issued twice.
Login == session.status = "none" /\ SessionChange([session EXCEPT !.status = "live"])
OAuthCallback ==
    /\ session.status = "none"
    /\ SessionChange([session EXCEPT !.status = "live", !.kind = "oauth"])

\* ExpiresAt passes.
Expire == session.status = "live" /\ SessionChange([session EXCEPT !.status = "expired"])

\* RevokeSession
Logout == session.status \in {"live", "expired"} /\ SessionChange([session EXCEPT !.status = "gone"])

\* ValidateSession deletes an expired session.
GetSession == session.status = "expired" /\ SessionChange([session EXCEPT !.status = "gone"])

----------------------------------------------------------------------------
(* The administrator, one committed change at a time *)

Commit(g, d) ==
    /\ edits < MaxEdits
    /\ edits' = edits + 1
    /\ d # db /\ db' = d
    /\ steady' = steady \ {g}
    /\ UNCHANGED <<session, sessionSteady, requestVars>>

\* A group that exists gets another value in one table.
Edit(g, t) ==
    /\ db.modes[g] # Absent
    /\ \E row \in Rows : Commit(g, [db EXCEPT ![t][g] = row[t]])

UpdateGroup(g) == Edit(g, "modes")
EditIPRules(g) == Edit(g, "rules")
EditBasicAuth(g) == Edit(g, "basic")
ConfigureWaygatesAuth(g) == Edit(g, "waygates")
EditRestrictions(g) == Edit(g, "restrictions")
EditAssignment(g) == Edit(g, "assigns")

\* Mutant of DeleteGroup: the row stays, with its mode blanked.
DeleteContent(g) ==
    Commit(g, [db EXCEPT !.assigns[g] = Absent, !.modes[g] = "", !.rules[g] = {}, !.basic[g] = {},
                         !.waygates[g] = Absent, !.restrictions[g] = Unrestricted])

\* The rows of all tables go in one transaction.
DeleteGroup(g) ==
    Commit(g, [db EXCEPT !.assigns[g] = Absent, !.modes[g] = Absent, !.rules[g] = {}, !.basic[g] = {},
                         !.waygates[g] = Absent, !.restrictions[g] = Unrestricted])

----------------------------------------------------------------------------

Next ==
    \/ Verify \/ FindProxy \/ LoadAssignments \/ LoadGroups \/ LoadFails \/ Decide \/ Refuse
    \/ \E t \in Content : LoadContent(t)
    \/ \E g \in Groups : EvaluateGroup(g) \/ SessionLookupFails(g)
    \/ Login \/ OAuthCallback \/ Expire \/ Logout \/ GetSession
    \/ \E g \in Groups :
          \/ UpdateGroup(g) \/ EditIPRules(g) \/ EditBasicAuth(g) \/ ConfigureWaygatesAuth(g)
          \/ EditRestrictions(g) \/ EditAssignment(g) \/ DeleteGroup(g)

Spec == Init /\ [][Next]_vars

----------------------------------------------------------------------------
(* Properties *)

\* Every variable has its type: the tables, whatever UpdateGroup, DeleteGroup and
\* the other operations leave in them, and the copy that VerifyAccess decides on.
VTypeOK ==
    /\ db \in Tables /\ snap \in Tables
    /\ session \in Session /\ req \in Request
    /\ edits \in 0 .. MaxEdits
    /\ pc \in Points /\ answer \in Answers
    /\ left \subseteq Content /\ todo \subseteq Groups /\ steady \subseteq Groups
    /\ unauthorized \in BOOLEAN /\ sessionSteady \in BOOLEAN /\ dead \in BOOLEAN

\* What VerifyAccess promises, said without phases or loops: a deny rule of any
\* group that applies wins; otherwise one group that lets the address, the
\* session or the credentials in is enough; a client who has logged in is told
\* no, the others are sent to log in.
Admits(g, sn) ==
    \/ SessionPasses(db, g, sn)
    \/ BasicPasses(db, g, req.basic)
    \/ \E r \in db.rules[g] : db.modes[g] = "ip_bypass" \/ (db.modes[g] = "any" /\ r.cidr)
    \/ db.modes[g] = "all" /\ ~groupHasSecureAuth(db, g) /\ db.basic[g] = {}

Union(sn) ==
    LET gs == {g \in Groups : db.assigns[g] = "applies" /\ db.modes[g] # Absent}
        deny == ~req.ip \/ \E g \in gs : \E r \in db.rules[g] : r.type = "deny"
    IN  IF ~req.host THEN "forbidden"
        ELSE IF gs = {} \/ (~deny /\ \E g \in gs : Admits(g, sn)) THEN "allow"
        ELSE IF deny \/ \E g \in gs : Identified(db, g, sn) THEN "forbidden"
        ELSE "login"

\* A request that nothing disturbed gets the answer of the union.
UnionDecision ==
    answer \notin {"none", "error"} /\ steady = Groups /\ sessionSteady =>
        answer = Union(GetSessionByToken)

\* A session that had ended when the request began is worth nothing: the answer
\* is the one a request without the cookie gets, however the session's row
\* expires, is deleted or cannot be read meanwhile.
DeadSessionIsNone ==
    answer \notin {"none", "error"} /\ steady = Groups /\ dead => answer = Union(NoSession)

\* A deny rule that was in force all the while is honoured, whatever else was
\* edited while the tables were read one after another.
DenyHonoured ==
    answer = "allow" => \A g \in steady : g \in groupsOf(db) => \A r \in db.rules[g] : r.type # "deny"

\* "don't redirect to login (it would be a loop)": a client whose session stays
\* live, and whom some group that stays as it is identifies by it, is never sent
\* to log in, whatever happens to the other groups.
NoLoginLoop ==
    answer = "login" /\ req.token /\ sessionSteady =>
        \A g \in steady \cap groupsOf(db) : ~Identified(db, g, session)
============================================================================
