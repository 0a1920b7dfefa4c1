--------------------------- MODULE AuditService ----------------------------
(***************************************************************************)
(* AuditService and its handler (service/audit_service.go,                 *)
(* api/handlers/audit_handler.go): which events are written is one setting *)
(* that is cached in memory.  It is stored and cached in two steps, and a  *)
(* reader that finds no cache loads the setting and caches it in two steps *)
(* as well; configMutex covers the access to the cache only.  The generic  *)
(* endpoint for settings stores the same key and knows of no cache.        *)
(*                                                                         *)
(* A configuration is the set of actions that are written.  The contents   *)
(* of an entry decide nothing; the log is appended to and listed.          *)
(***************************************************************************)
EXTENDS Naturals

CONSTANTS
    Loggers,        \* request goroutines
    Actions,        \* audited actions
    Unlisted,       \* those isEventEnabled has no case for
    AuditInputs,    \* configurations that are stored
    NoConfig,       \* configCache is nil
    MaxLost         \* bound: failing reads, restarts

ASSUME AuditAssumption ==
    /\ AuditInputs \subseteq SUBSET Actions /\ Unlisted \subseteq Actions
    /\ Actions # {}
    /\ MaxLost \in Nat

\* DefaultAuditConfig, and what a missing or unreadable setting counts as.
DefaultAuditConfig == Actions
NoAction == CHOOSE a \in Actions : TRUE

VARIABLES
    auditConfig,    \* the setting audit_config
    configCache,
    apc,            \* control point of each request
    action,         \* the event it logs
    config,         \* the configuration it stores or has loaded
    raced,          \* ghost: somebody else has stored one since it stored or loaded its own
    stale,          \* ghost: the cache is not the setting, or was not when it was filled
    lost            \* failing reads and restarts so far

auditVars == <<auditConfig, configCache, apc, action, config, raced, stale, lost>>

AuditInit ==
    /\ auditConfig = DefaultAuditConfig
    /\ configCache = NoConfig
    /\ apc = [h \in Loggers |-> "idle"]
    /\ action = [h \in Loggers |-> NoAction]
    /\ config = [h \in Loggers |-> DefaultAuditConfig]
    /\ raced = [h \in Loggers |-> FALSE]
    /\ stale = FALSE
    /\ lost = 0

AuditTo(h, point) == apc' = [apc EXCEPT ![h] = point]
AuditEnds(h) ==
    /\ AuditTo(h, "idle")
    /\ config' = [config EXCEPT ![h] = DefaultAuditConfig]
    /\ action' = [action EXCEPT ![h] = NoAction]
    /\ raced' = [raced EXCEPT ![h] = FALSE]
Mishap == lost < MaxLost /\ lost' = lost + 1

\* The setting changes under whoever has stored or loaded one and not cached it yet.
Overtaken(h) ==
    raced' = [x \in Loggers |-> raced[x] \/ (x # h /\ apc[x] \in {"cache", "fill"})]

-----------------------------------------------------------------------------
\* SetConfig: the setting; an error ends it here.
SetConfigStore(h, c) ==
    /\ apc[h] = "idle"
    /\ auditConfig' = c
    /\ config' = [config EXCEPT ![h] = c]
    /\ AuditTo(h, "cache")
    /\ Overtaken(h)
    /\ UNCHANGED <<configCache, action, stale, lost>>

\* Mutant of SetConfigCache: the cache is left as it was.
SetConfigNoCache(h) ==
    /\ apc[h] = "cache"
    /\ AuditEnds(h)
    /\ UNCHANGED <<auditConfig, configCache, stale, lost>>

\* SetConfig: the cache.
SetConfigCache(h) ==
    /\ apc[h] = "cache"
    /\ configCache' = config[h]
    /\ stale' = raced[h]
    /\ AuditEnds(h)
    /\ UNCHANGED <<auditConfig, lost>>

\* PUT /api/settings/audit_config: InvalidateConfigCache is not called.  A text that
\* does not parse means the default.
StoreElsewhere(h, c) ==
    /\ apc[h] = "idle"
    /\ auditConfig' = c
    /\ stale' = (stale \/ configCache # NoConfig)
    /\ Overtaken(h)
    /\ UNCHANGED <<configCache, apc, action, config, lost>>

\* LogEvent, called by a handler when its work is done.
LogEvent(h, a) ==
    /\ apc[h] = "idle"
    /\ action' = [action EXCEPT ![h] = a]
    /\ AuditTo(h, "event")
    /\ UNCHANGED <<auditConfig, configCache, config, raced, stale, lost>>

\* An action without a case is always written.
isEventEnabled(c, a) == a \in c \cup Unlisted

\* LogEvent has its configuration: the event is written or left out.
Decide(h, c) ==
    IF isEventEnabled(c, action[h])
    THEN AuditTo(h, "insert") /\ UNCHANGED <<action, config, raced>>
    ELSE AuditEnds(h)

\* getConfig: from the cache ...
FromCache(h) ==
    /\ apc[h] = "event" /\ configCache # NoConfig
    /\ Decide(h, configCache)
    /\ UNCHANGED <<auditConfig, configCache, stale, lost>>

\* ... or, when there is none, ...
NotCached(h) ==
    /\ apc[h] = "event" /\ configCache = NoConfig
    /\ AuditTo(h, "load")
    /\ UNCHANGED <<auditConfig, configCache, action, config, raced, stale, lost>>

\* ... from the setting (GetConfig), the default where it cannot be read, ...
LoadConfig(h) ==
    /\ apc[h] = "load"
    /\ \/ /\ config' = [config EXCEPT ![h] = auditConfig]
          /\ raced' = [raced EXCEPT ![h] = FALSE] /\ lost' = lost
       \/ /\ config' = [config EXCEPT ![h] = DefaultAuditConfig]
          /\ raced' = [raced EXCEPT ![h] = TRUE] /\ Mishap
    /\ AuditTo(h, "fill")
    /\ UNCHANGED <<auditConfig, configCache, action, stale>>

\* ... which fills the cache, whatever is in it by now.
FillCache(h) ==
    /\ apc[h] = "fill"
    /\ configCache' = config[h]
    /\ stale' = raced[h]
    /\ Decide(h, config[h])
    /\ UNCHANGED <<auditConfig, lost>>

\* repo.Create; no caller looks at its error.
InsertEntry(h) ==
    /\ apc[h] = "insert"
    /\ AuditEnds(h)
    /\ UNCHANGED <<auditConfig, configCache, stale, lost>>

\* The backend starts again, without a cache.
AuditRestart ==
    /\ Mishap
    /\ configCache' = NoConfig /\ stale' = FALSE
    /\ apc' = [h \in Loggers |-> "idle"]
    /\ action' = [h \in Loggers |-> NoAction]
    /\ config' = [h \in Loggers |-> DefaultAuditConfig]
    /\ raced' = [h \in Loggers |-> FALSE]
    /\ UNCHANGED auditConfig

AuditNext ==
    \/ \E h \in Loggers :
          \/ \E c \in AuditInputs : SetConfigStore(h, c) \/ StoreElsewhere(h, c)
          \/ \E a \in Actions : LogEvent(h, a)
          \/ SetConfigCache(h) \/ FromCache(h) \/ NotCached(h) \/ LoadConfig(h)
          \/ FillCache(h) \/ InsertEntry(h)
    \/ AuditRestart

AuditSpec == AuditInit /\ [][AuditNext]_auditVars

-----------------------------------------------------------------------------
(* Properties *)

\* The type of every variable; nobody fills the cache but who has loaded or
\* stored a configuration.
AuditTypeOK ==
    /\ auditConfig \in SUBSET Actions
    /\ configCache = NoConfig \/ configCache \in SUBSET Actions
    /\ apc \in [Loggers -> {"idle", "cache", "event", "load", "fill", "insert"}]
    /\ action \in [Loggers -> Actions]
    /\ config \in [Loggers -> SUBSET Actions]
    /\ raced \in [Loggers -> BOOLEAN]
    /\ \A h \in Loggers : raced[h] => apc[h] \in {"cache", "fill", "insert"}
    /\ stale \in BOOLEAN /\ lost \in 0 .. MaxLost

\* A configuration is stored and not cached yet, or what h has loaded is behind.
Behind(h) == stale \/ raced[h] \/ \E x \in Loggers : apc[x] = "cache"

\* An event is written or left out as the stored configuration says at that
\* moment, through the cache and whatever fills it.  Behind the setting are only:
\* a cache after the generic endpoint or between the two steps of SetConfig, and
\* one that was filled with a failed read or after another configuration had been
\* stored; and those until the next update or restart.
EventsAsConfigured ==
    [][\A h \in Loggers :
          (apc[h] \in {"event", "fill"} /\ ~Behind(h) /\ lost' = lost) =>
              /\ apc'[h] = "insert" => isEventEnabled(auditConfig, action[h])
              /\ apc'[h] = "idle" => ~isEventEnabled(auditConfig, action[h])]_auditVars
=============================================================================
