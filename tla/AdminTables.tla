---------------------------- MODULE AdminTables ----------------------------
(***************************************************************************)
(* Five parts of the admin API that share no state in these models:        *)
(* accounts, layer-4 proxies, single sign-on, settings and the audit log.  *)
(* A behaviour is one of the part its first state picks; the others rest.  *)
(***************************************************************************)
EXTENDS UserService, L4Proxy, SsoService, SettingsService, AuditService

VARIABLE part

tableVars == <<part, uvars, l4Vars, ssoVars, setVars, auditVars>>

TablesInit ==
    /\ part \in {"users", "l4", "sso", "settings", "audit"}
    /\ Init /\ L4Init /\ SsoInit /\ SetInit /\ AuditInit
    /\ part # "users" => used = {}
    /\ part # "sso" => ssoSet = CHOOSE s \in SsoInputs : TRUE

TablesNext ==
    /\ part' = part
    /\ \/ part = "users" /\ Next /\ UNCHANGED <<l4Vars, ssoVars, setVars, auditVars>>
       \/ part = "l4" /\ L4Steps /\ UNCHANGED <<uvars, ssoVars, setVars, auditVars>>
       \/ part = "sso" /\ SsoNext /\ UNCHANGED <<uvars, l4Vars, setVars, auditVars>>
       \/ part = "settings" /\ SetNext /\ UNCHANGED <<uvars, l4Vars, ssoVars, auditVars>>
       \/ part = "audit" /\ AuditNext /\ UNCHANGED <<uvars, l4Vars, ssoVars, setVars>>

TablesSpec == TablesInit /\ [][TablesNext]_tableVars

\* Type correctness of the five parts and of the requests on them, each in the
\* part of its own; a provisioned user gets the local part of the address as name.
TableTypes == UTypeOK /\ L4TypeOK /\ SsoTypeOK /\ SetTypeOK /\ AuditTypeOK
=============================================================================
