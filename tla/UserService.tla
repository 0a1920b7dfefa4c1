---------------------------- MODULE UserService ----------------------------
(***************************************************************************)
(* Accounts: Create, Update, ResetPassword and Delete of user management   *)
(* (backend/internal/service/user_service.go), Register and ChangePassword *)
(* (api/handlers/auth_handler.go) and the default user of a start          *)
(* (cmd/server/main.go), over two stores that share no transaction, the    *)
(* users table (repository/user_repository.go) and goauth's role           *)
(* assignments.  Store accesses are steps of their own, and the guards     *)
(* (last admin, own account, first user) decide on what an earlier step    *)
(* read.                                                                   *)
(*                                                                         *)
(* Names, e-mail addresses and passwords decide nothing here and are left  *)
(* out; a UNIQUE violation is one more store error.  Any user may be the   *)
(* actor: tokens outlive changes to the account.  The setting that opens   *)
(* registration has any value at any time.                                 *)
(***************************************************************************)
EXTENDS Naturals, FiniteSets

CONSTANTS
    UserIDs,    \* primary keys
    Absent,     \* no such row
    Handlers,   \* request goroutines
    StoreFails  \* TRUE when a store access may return an error

ASSUME UsersAssumption == UserIDs # {} /\ IsFiniteSet(UserIDs) /\ StoreFails \in BOOLEAN

Roles == {"admin", "operator"}      \* "viewer" is to the guards what "operator" is
User == [active : BOOLEAN, mustChange : BOOLEAN]

ASSUME AbsentUserAssumption == Absent \notin User /\ Absent \notin UserIDs

\* The inputs of the operations in one record; each uses its part.
Input == [kind : {"create", "update", "reset", "delete", "register", "password"}, id : UserIDs \cup {Absent},
          actor : UserIDs, role : Roles, active : BOOLEAN, mustChange : BOOLEAN]

Points == {"idle", "gate", "load", "role", "count", "password", "store", "assign", "undo"}

VARIABLES
    users,      \* the users table
    roles,      \* goauth: role label of each key, "" without one
    used,       \* keys handed out
    up,         \* control point of each handler
    in,         \* its input
    row,        \* u: the row GetByID returned
    oldRole,    \* the role loadAppUser returned
    hadAdmin,   \* history: there has been an active administrator
    stranded    \* history: a row was left without a role by an undo that failed or a stop

uvars == <<users, roles, used, up, in, row, oldRole, hadAdmin, stranded>>

Idle == [kind |-> "delete", id |-> Absent, actor |-> CHOOSE u \in UserIDs : TRUE,
         role |-> "operator", active |-> FALSE, mustChange |-> FALSE]

NewUser == [active |-> TRUE, mustChange |-> FALSE]

\* A new database, or one in which a start has created the first administrator.
Init ==
    /\ \E S \in SUBSET UserIDs :
          /\ Cardinality(S) <= 1
          /\ used = S
          /\ users = [v \in UserIDs |-> IF v \in S THEN NewUser ELSE Absent]
          /\ roles = [v \in UserIDs |-> IF v \in S THEN "admin" ELSE ""]
          /\ hadAdmin = (S # {})
    /\ stranded = FALSE
    /\ up = [h \in Handlers |-> "idle"]
    /\ in = [h \in Handlers |-> Idle]
    /\ row = [h \in Handlers |-> Absent]
    /\ oldRole = [h \in Handlers |-> ""]

----------------------------------------------------------------------------
(* Helpers *)

\* The request goes on; it ends, with or without an error.
Goto(h, c) == up' = [up EXCEPT ![h] = c] /\ UNCHANGED <<in, row, oldRole>>
Return(h) ==
    /\ up' = [up EXCEPT ![h] = "idle"]
    /\ in' = [in EXCEPT ![h] = Idle]
    /\ row' = [row EXCEPT ![h] = Absent]
    /\ oldRole' = [oldRole EXCEPT ![h] = ""]

\* The input of h, once it knows the key or the role of its account.
With(h, id, role) ==
    [kind |-> in[h].kind, id |-> id, actor |-> in[h].actor, role |-> role,
     active |-> in[h].active, mustChange |-> in[h].mustChange]

Creates(kind) == kind \in {"create", "register"}

ActiveAdmins == {u \in UserIDs : users[u] # Absent /\ users[u].active /\ roles[u] = "admin"}

\* UPDATE ... WHERE id, which does nothing to a missing row.
Save(u, r) == users' = [users EXCEPT ![u] = IF users[u] = Absent THEN Absent ELSE r]

\* Update's two reasons to look closer.
LosingAdmin(h, r) == r = "admin" /\ in[h].role # "admin"
Deactivating(h) == row[h].active /\ ~in[h].active

\* Mutant of LastAdmin: an off-by-one in the count.
NoAdmin(n) == n < 1
LastAdmin(n) == n <= 1

----------------------------------------------------------------------------
(* A request arrives; one of user management needs an administrator's token.
   Delete refuses the actor's own account at once. *)

Begin(h) ==
    /\ up[h] = "idle"
    /\ \E i \in Input :
          /\ Creates(i.kind) => i.id = Absent /\ i.active
          /\ ~Creates(i.kind) => i.id \in used
          /\ i.kind \in {"reset", "delete", "password"} => i.role = "operator" /\ ~i.active
          /\ i.kind \in {"update", "delete", "register", "password"} => ~i.mustChange
          /\ i.kind = "delete" => i.id # i.actor
          /\ i.kind = "password" => i.id = i.actor
          /\ i.kind = "register" => i.role = "operator"
          /\ IF i.kind \in {"create", "reset", "register"} THEN i.actor = Idle.actor
             ELSE i.actor \in used
          /\ i.kind \notin {"register", "password"} => hadAdmin
          /\ in' = [in EXCEPT ![h] = i]
          /\ up' = [up EXCEPT ![h] = IF i.kind = "create" THEN "store"
                                     ELSE IF i.kind = "register" THEN "gate" ELSE "load"]
    /\ UNCHANGED <<users, roles, used, row, oldRole>>

\* Register's decision under firstUserRegistrationMu: the first user is to be
\* admin, others come in while registration is open.  The error of Count is
\* dropped, and its result then 0.  The row is created after the mutex is released.
RegisterGate(h) ==
    /\ up[h] = "gate"
    /\ \E open \in BOOLEAN, counted \in BOOLEAN :
          /\ counted \/ StoreFails
          /\ LET first == ~counted \/ \A u \in UserIDs : users[u] = Absent
             IN  \/ /\ first \/ open
                    /\ in' = [in EXCEPT ![h] =
                                 With(h, in[h].id, IF first THEN "admin" ELSE "operator")]
                    /\ up' = [up EXCEPT ![h] = "store"]
                    /\ UNCHANGED <<row, oldRole>>
                 \/ ~first /\ ~open /\ Return(h)
    /\ UNCHANGED <<users, roles, used>>

\* GetByID: the first half of loadAppUser, and of ChangePassword, which then
\* compares the current password.
LoadUser(h) ==
    /\ up[h] = "load"
    /\ \/ /\ users[in[h].id] # Absent
          /\ row' = [row EXCEPT ![h] = users[in[h].id]]
          /\ up' = [up EXCEPT ![h] = IF in[h].kind = "password" THEN "password" ELSE "role"]
          /\ UNCHANGED <<in, oldRole>>
       \/ (users[in[h].id] = Absent \/ in[h].kind = "password") /\ Return(h)
    /\ UNCHANGED <<users, roles, used>>

\* loadAppUser, second half: the role, "" on any error; then what the
\* operation decides on them.
LoadRole(h) ==
    /\ up[h] = "role"
    /\ \E r \in {roles[in[h].id]} \cup (IF StoreFails THEN {""} ELSE {}) :
          LET guarded == /\ r = "admin"
                         /\ \/ in[h].kind = "delete"
                            \/ in[h].kind = "update" /\ (LosingAdmin(h, r) \/ Deactivating(h))
              own == /\ r # "admin" /\ in[h].kind = "update" /\ Deactivating(h)
                     /\ in[h].id = in[h].actor
          IN  \/ (r = "" \/ own) /\ Return(h)
              \/ /\ r # "" /\ ~own
                 /\ oldRole' = [oldRole EXCEPT ![h] = r]
                 /\ up' = [up EXCEPT ![h] = IF guarded THEN "count" ELSE "store"]
                 /\ UNCHANGED <<in, row>>
    /\ UNCHANGED <<users, roles, used>>

\* The last-admin guard, then Update's own-account guard.  adminCount's reads
\* (the users, then the role of each) are one step here; a failed look-up of a
\* role leaves its user uncounted.
CountAdmins(h) ==
    /\ up[h] = "count"
    /\ \E S \in SUBSET ActiveAdmins :
          /\ S = ActiveAdmins \/ StoreFails
          /\ IF \/ LastAdmin(Cardinality(S))
                \/ in[h].kind = "update" /\ in[h].id = in[h].actor
             THEN Return(h) ELSE Goto(h, "store")
    /\ UNCHANGED <<users, roles, used>>

\* ChangePassword: UpdatePassword, which writes the hash and nothing else.
ChangeHash(h) ==
    /\ up[h] = "password"
    /\ Goto(h, "store")
    /\ UNCHANGED <<users, roles, used>>

\* repo.Create.  UserIDs bounds the number of users: none left is an error.
CreateUser(h) ==
    /\ up[h] = "store" /\ Creates(in[h].kind)
    /\ \/ \E u \in UserIDs \ used :
             /\ users' = [users EXCEPT ![u] = [active |-> TRUE, mustChange |-> in[h].mustChange]]
             /\ used' = used \cup {u}
             /\ in' = [in EXCEPT ![h] = With(h, u, in[h].role)]
             /\ up' = [up EXCEPT ![h] = "assign"]
             /\ UNCHANGED <<row, oldRole>>
       \/ /\ used = UserIDs
          /\ Return(h)
          /\ UNCHANGED <<users, used>>
    /\ UNCHANGED roles

\* repo.Update writes name, e-mail, active and must-change from the struct that
\* loadAppUser filled and Update overwrote.
StoreUser(h) ==
    /\ up[h] = "store" /\ in[h].kind = "update"
    /\ Save(in[h].id, [active |-> in[h].active, mustChange |-> row[h].mustChange])
    /\ IF in[h].role # oldRole[h] THEN Goto(h, "assign") ELSE Return(h)
    /\ UNCHANGED <<roles, used>>

\* ResetPassword: the new hash, then the same repo.Update.
StorePassword(h) ==
    /\ up[h] = "store" /\ in[h].kind = "reset"
    /\ Save(in[h].id, [active |-> row[h].active, mustChange |-> in[h].mustChange])
    /\ Return(h)
    /\ UNCHANGED <<roles, used>>

\* ChangePassword: the flag is cleared with the same repo.Update, by the row as it
\* was read before the password was hashed; an error is only logged.
ClearFlag(h) ==
    /\ up[h] = "store" /\ in[h].kind = "password"
    /\ \/ Save(in[h].id, [active |-> row[h].active, mustChange |-> FALSE])
       \/ StoreFails /\ UNCHANGED users
    /\ Return(h)
    /\ UNCHANGED <<roles, used>>

\* repo.Delete; the role assignment stays behind.
DeleteUser(h) ==
    /\ up[h] = "store" /\ in[h].kind = "delete"
    /\ users' = [users EXCEPT ![in[h].id] = Absent]
    /\ Return(h)
    /\ UNCHANGED <<roles, used>>

AssignRole(h) ==
    /\ up[h] = "assign"
    /\ roles' = [roles EXCEPT ![in[h].id] = in[h].role]
    /\ Return(h)
    /\ UNCHANGED <<users, used>>

\* Mutant of Undoes: Register leaves the row it has created.
UndoesCreate(kind) == kind = "create"
\* Create and Register delete their row again, Update keeps what it stored.
Undoes(kind) == Creates(kind)

AssignFails(h) ==
    /\ StoreFails
    /\ up[h] = "assign"
    /\ IF Undoes(in[h].kind) THEN Goto(h, "undo") ELSE Return(h)
    /\ UNCHANGED <<users, roles, used>>

\* The delete may fail as well.
UndoCreate(h) ==
    /\ up[h] = "undo"
    /\ users' = [users EXCEPT ![in[h].id] = Absent]
    /\ Return(h)
    /\ UNCHANGED <<roles, used>>

UndoFails(h) ==
    /\ StoreFails
    /\ up[h] = "undo"
    /\ Return(h)
    /\ UNCHANGED <<users, roles, used>>

\* GetByID (reported as not found), the listing of users, or a write fails.
StoreError(h) ==
    /\ StoreFails
    /\ up[h] \in {"gate", "load", "count", "password", "store"}
    /\ up[h] = "store" => in[h].kind # "password"
    /\ Return(h)
    /\ UNCHANGED <<users, roles, used>>

\* createDefaultUserIfNeeded, where the configuration names one: a row in an empty
\* table and its role, whose failure is only logged.
DefaultUser(withRole) ==
    /\ \A u \in UserIDs : users[u] = Absent
    /\ \E u \in UserIDs \ used :
          /\ users' = [users EXCEPT ![u] = NewUser]
          /\ used' = used \cup {u}
          /\ roles' = [roles EXCEPT ![u] = IF withRole THEN "admin" ELSE ""]

\* A row without its role yet, whose request the process may not live to finish.
HalfMade(h) == up[h] \in {"assign", "undo"} /\ Creates(in[h].kind)

\* The backend stops, in the middle of any requests, and starts again.
Restart ==
    /\ StoreFails
    /\ up' = [h \in Handlers |-> "idle"]
    /\ in' = [h \in Handlers |-> Idle]
    /\ row' = [h \in Handlers |-> Absent]
    /\ oldRole' = [h \in Handlers |-> ""]
    /\ \/ /\ UNCHANGED <<users, roles, used>>
          /\ stranded' = (stranded \/ \E h \in Handlers : HalfMade(h))
       \/ \E withRole \in BOOLEAN :
             DefaultUser(withRole) /\ stranded' = (stranded \/ ~withRole)

Step(h) ==
    \/ Begin(h) \/ RegisterGate(h) \/ LoadUser(h) \/ LoadRole(h) \/ CountAdmins(h)
    \/ CreateUser(h) \/ StoreUser(h) \/ StorePassword(h) \/ ChangeHash(h) \/ ClearFlag(h)
    \/ DeleteUser(h) \/ AssignRole(h) \/ AssignFails(h) \/ UndoCreate(h) \/ StoreError(h)

Next ==
    /\ \/ \E h \in Handlers : Step(h) /\ UNCHANGED stranded
       \/ \E h \in Handlers : UndoFails(h) /\ stranded' = TRUE
       \/ Restart
    /\ hadAdmin' = (hadAdmin \/ ActiveAdmins' # {})

Spec == Init /\ [][Next]_uvars

----------------------------------------------------------------------------
(* Properties *)

\* The type of every variable; a handler that stores knows the row and the role
\* it read.
UTypeOK ==
    /\ users \in [UserIDs -> User \cup {Absent}]
    /\ roles \in [UserIDs -> Roles \cup {""}]
    /\ used \subseteq UserIDs
    /\ up \in [Handlers -> Points]
    /\ in \in [Handlers -> Input]
    /\ row \in [Handlers -> User \cup {Absent}]
    /\ oldRole \in [Handlers -> Roles \cup {""}]
    /\ \A h \in Handlers :
          /\ up[h] \in {"load", "role", "count", "password"} =>
                ~Creates(in[h].kind) /\ in[h].id \in used
          /\ up[h] = "store" /\ ~Creates(in[h].kind) => in[h].id \in used /\ row[h] \in User
          /\ up[h] = "gate" => in[h].kind = "register"
          /\ up[h] = "password" => in[h].kind = "password"
          /\ up[h] = "assign" => in[h].id \in used
          /\ up[h] = "undo" => in[h].id \in used /\ Creates(in[h].kind)
    /\ hadAdmin \in BOOLEAN /\ stranded \in BOOLEAN

\* Somebody can always administer the system: once there is an active
\* administrator, the last one is not deleted, demoted or deactivated, not even
\* half way.  True when requests come one at a time; two that overlap each count
\* the other's administrator.
AdminRemains == hadAdmin => ActiveAdmins # {}

\* "first-ever user bootstraps as admin (prevents lockout)" (auth_handler.go:124):
\* as long as nobody has become administrator, the next to register finds an empty
\* table and can, whatever registrations failed before; unless one could not be
\* undone or the backend stopped in the middle of one.
SetupStaysOpen ==
    (~hadAdmin /\ ~stranded /\ \A h \in Handlers : up[h] = "idle") =>
        \A u \in UserIDs : users[u] = Absent
============================================================================
