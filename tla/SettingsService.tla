-------------------------- MODULE SettingsService --------------------------
(***************************************************************************)
(* The settings table, one row per key, SettingsService and its handler    *)
(* (service/settings_service.go, repository/settings_repository.go,        *)
(* api/handlers/settings_handler.go).  A setting of several keys is stored *)
(* and read one key at a time in no transaction, and a read that fails     *)
(* counts as the default.                                                  *)
(*                                                                         *)
(* A missing row reads as its default, so the table starts with those.     *)
(* "host" stands for host, path and user of the metrics endpoint, which    *)
(* are stored and read next to each other and alike.  What becomes of a    *)
(* build is the subject of SyncService; the audit event that ends a        *)
(* request is that of AuditService.                                        *)
(***************************************************************************)
EXTENDS Naturals, Sequences

CONSTANTS
    Requests,               \* request goroutines
    Ticker,                 \* every other sync: the periodic one, those of other handlers
    Free,                   \* s.mu is not held
    PageInputs, MetricsInputs, KeyInputs,       \* bodies of requests
    MaxChanges, MaxFaults   \* bounds: requests, accesses that fail

PageKeys == <<"mode", "url">>
MetricsKeys == <<"enabled", "host", "hash", "cidrs">>
\* The keys a build reads, in the order of the getters.
BuildKeys == <<"mode", "url", "enabled", "cidrs", "host", "hash">>
Keys == {BuildKeys[i] : i \in DOMAIN BuildKeys}

\* A hash is <<>>, the empty string, or made of a password.
HashOf(password) == <<password>>
Defaults == [k \in Keys |->
    CASE k = "mode" -> "default" [] k = "enabled" -> FALSE [] k = "hash" -> <<>>
      [] k = "cidrs" -> {} [] OTHER -> ""]

\* IsSensitiveSettingKey: out of the generic endpoint's reach.
Sensitive == {"hash"}

ASSUME SettingsAssumption ==
    /\ Ticker \notin Requests /\ Free \notin Requests \cup {Ticker}
    /\ \A x \in KeyInputs : x.key \in Keys
    /\ MaxChanges \in Nat /\ MaxFaults \in Nat

VARIABLES
    settings,   \* the table
    stp,        \* control point of each request
    job,        \* its kind, the keys and values to store, how many it has stored
    mu,         \* s.mu: who builds, and what it has read
    built,      \* what the last build had read
    touched,    \* ghost: keys somebody else has stored since the request began
    missed,     \* ghost: keys whose read failed in the last build
    changes, setFaults

setVars == <<settings, stp, job, mu, built, touched, missed, changes, setFaults>>

SetPoints == {"idle", "existing", "store", "sync", "build", "answer"}
NoJob == [kind |-> "none", keys |-> <<>>, want |-> Defaults, next |-> 1]
BuildOf(x) == [by |-> x, got |-> Defaults, next |-> 1, missing |-> {}]
NoBuild == BuildOf(Free)

SetInit ==
    /\ settings = Defaults
    /\ stp = [r \in Requests |-> "idle"]
    /\ job = [r \in Requests |-> NoJob]
    /\ mu = NoBuild
    /\ built = Defaults
    /\ touched = [r \in Requests |-> {}]
    /\ missed = {}
    /\ changes = 0 /\ setFaults = 0

Holds(x, point) == stp[x] = point
To(r, point) == stp' = [stp EXCEPT ![r] = point]
Ends(r) ==
    /\ stp' = [stp EXCEPT ![r] = "idle"]
    /\ job' = [job EXCEPT ![r] = NoJob]
    /\ touched' = [touched EXCEPT ![r] = {}]
Faulty == setFaults < MaxFaults /\ setFaults' = setFaults + 1
Sound == UNCHANGED setFaults
buildVars == <<mu, built, missed>>
-----------------------------------------------------------------------------
(* The handlers begin *)

Arrive(r, kind, keys, want, point) ==
    /\ stp[r] = "idle" /\ changes < MaxChanges
    /\ changes' = changes + 1
    /\ job' = [job EXCEPT ![r] = [kind |-> kind, keys |-> keys, want |-> want, next |-> 1]]
    /\ To(r, point)
    /\ UNCHANGED <<settings, buildVars, touched, setFaults>>

\* UpdateNotFound; its own read of the old settings is for the audit text only.
UpdateNotFound(r) ==
    \E p \in PageInputs :
        /\ p.mode = "redirect" => p.url # ""
        /\ Arrive(r, "page", PageKeys, [Defaults EXCEPT !.mode = p.mode, !.url = p.url], "store")

\* UpdateMetricsPublish, up to the read of the settings there are.
UpdateMetricsPublish(r) ==
    \E m \in MetricsInputs :
        Arrive(r, "metrics", MetricsKeys,
               [Defaults EXCEPT !.enabled = m.enabled, !.host = m.host, !.hash = m.password,
                                !.cidrs = m.cidrs], "existing")

\* Update, the generic endpoint: any key but the secrets, no sync.
Update(r) ==
    \E x \in KeyInputs :
        /\ x.key \notin Sensitive
        /\ Arrive(r, "key", <<x.key>>, [Defaults EXCEPT ![x.key] = x.value], "store")

-----------------------------------------------------------------------------
(* Validation and storing *)

\* hashToStore: the hash of a new password, else the one that was read.
HashToStore(password, existing) == IF password = <<>> THEN existing ELSE HashOf(password[1])

\* GetMetricsPublishSettings for the hash, then the validation of the request.
ReadExisting(r) ==
    /\ stp[r] = "existing"
    /\ \E existing \in {settings.hash, <<>>} :
          /\ IF existing = settings.hash THEN Sound ELSE Faulty
          /\ LET want == [job[r].want EXCEPT !["hash"] = HashToStore(@, existing)]
             IN  \/ /\ want.enabled => want.host # "" /\ want.hash # <<>>
                    /\ job' = [job EXCEPT ![r] = [kind |-> "metrics", keys |-> MetricsKeys,
                                                   want |-> want, next |-> 1]]
                    /\ To(r, "store") /\ UNCHANGED touched
                 \/ /\ want.enabled /\ (want.host = "" \/ want.hash = <<>>)
                    /\ Ends(r)
    /\ UNCHANGED <<settings, buildVars, changes>>

\* Mutant of AfterStore: the setter of the metrics endpoint forgets the rebuild.
AfterStoreNoSync(kind) ==
    IF kind = "page" THEN "sync" ELSE "answer"
AfterStore(kind) ==
    IF kind \in {"page", "metrics"} THEN "sync" ELSE "answer"

\* repo.Set, an upsert of one row, for one key after the other.
StoreKey(r) ==
    /\ stp[r] = "store"
    /\ LET k == job[r].keys[job[r].next]
           last == job[r].next = Len(job[r].keys)
       IN  /\ settings' = [settings EXCEPT ![k] = job[r].want[k]]
           /\ job' = [job EXCEPT ![r] = [kind |-> job[r].kind, keys |-> job[r].keys,
                                          want |-> job[r].want, next |-> job[r].next + 1]]
           /\ To(r, IF last THEN AfterStore(job[r].kind) ELSE "store")
           /\ touched' = [x \in Requests |->
                 touched[x] \cup (IF x = r \/ Holds(x, "idle") THEN {} ELSE {k})]
    /\ UNCHANGED <<buildVars, changes, setFaults>>

\* An error ends the request, without a sync and with the keys before it stored.
StoreKeyFails(r) ==
    /\ stp[r] = "store" /\ Faulty
    /\ Ends(r)
    /\ UNCHANGED <<settings, buildVars, changes>>

-----------------------------------------------------------------------------
(* UpdateCatchAll: a build under s.mu, of a request or of anybody else *)

BuildBegins(x) ==
    /\ mu.by = Free
    /\ mu' = BuildOf(x)
    /\ UNCHANGED <<settings, job, built, missed, touched, changes, setFaults>>

RequestSyncs(r) == Holds(r, "sync") /\ To(r, "build") /\ BuildBegins(r)
OtherSyncs == stp' = stp /\ BuildBegins(Ticker)

\* The build goes on to its next key.
HasRead(k, value, failed) ==
    [by |-> mu.by, got |-> [mu.got EXCEPT ![k] = value], next |-> mu.next + 1,
     missing |-> mu.missing \cup failed]

\* GetNotFoundSettings and GetMetricsPublishSettings, key by key.
BuildReads ==
    /\ mu.by # Free /\ mu.next <= Len(BuildKeys)
    /\ LET k == BuildKeys[mu.next]
       IN  \/ Sound /\ mu' = HasRead(k, settings[k], {})
           \/ Faulty /\ mu' = HasRead(k, Defaults[k], {k})
    /\ UNCHANGED <<settings, stp, job, built, missed, touched, changes>>

\* The build is done; the rest of the sync may still fail, and so the request.
BuildEnds ==
    /\ mu.by # Free /\ mu.next > Len(BuildKeys)
    /\ built' = mu.got /\ missed' = mu.missing /\ mu' = NoBuild
    /\ \/ mu.by \in Requests /\ To(mu.by, "answer") /\ UNCHANGED <<job, touched, setFaults>>
       \/ mu.by \in Requests /\ Ends(mu.by) /\ Faulty
       \/ mu.by = Ticker /\ UNCHANGED <<stp, job, touched, setFaults>>
    /\ UNCHANGED <<settings, changes>>

\* The proxies cannot be listed: no build.
BuildStops ==
    /\ mu.by # Free /\ mu.next = 1 /\ Faulty
    /\ mu' = NoBuild
    /\ IF mu.by = Ticker THEN UNCHANGED <<stp, job, touched>> ELSE Ends(mu.by)
    /\ UNCHANGED <<settings, built, missed, changes>>

-----------------------------------------------------------------------------
\* The request is answered.
Answer(r) ==
    /\ stp[r] = "answer"
    /\ Ends(r)
    /\ UNCHANGED <<settings, buildVars, changes, setFaults>>

\* The backend starts again: what is in memory is gone.
SetRestart ==
    /\ Faulty
    /\ stp' = [r \in Requests |-> "idle"]
    /\ job' = [r \in Requests |-> NoJob]
    /\ mu' = NoBuild
    /\ touched' = [r \in Requests |-> {}]
    /\ UNCHANGED <<settings, built, missed, changes>>

SetNext ==
    \/ \E r \in Requests :
          \/ UpdateNotFound(r) \/ UpdateMetricsPublish(r) \/ Update(r) \/ ReadExisting(r)
          \/ StoreKey(r) \/ StoreKeyFails(r) \/ RequestSyncs(r) \/ Answer(r)
    \/ OtherSyncs \/ BuildReads \/ BuildEnds \/ BuildStops \/ SetRestart

SetSpec == SetInit /\ [][SetNext]_setVars

-----------------------------------------------------------------------------
(* Properties *)

\* The type of every variable; a request that builds holds s.mu, and nobody else
\* does but the ticker.
SetTypeOK ==
    /\ DOMAIN settings = Keys /\ DOMAIN built = Keys /\ DOMAIN mu.got = Keys
    /\ DOMAIN job = Requests
    /\ stp \in [Requests -> SetPoints]
    /\ \A r \in Requests : stp[r] = "build" <=> mu.by = r
    /\ mu.by \in Requests \cup {Ticker, Free} /\ mu.next \in 1 .. Len(BuildKeys) + 1
    /\ touched \in [Requests -> SUBSET Keys]
    /\ missed \subseteq Keys /\ mu.missing \subseteq Keys
    /\ changes \in 0 .. MaxChanges /\ setFaults \in 0 .. MaxFaults

\* When an update of the 404 page or of the metrics endpoint has been synced, all
\* of it is in the last configuration built, whatever builds and updates run
\* beside it: but for keys somebody else stored too, or whose read failed.
AnsweredIsBuilt ==
    \A r \in Requests :
        (job[r].kind \in {"page", "metrics"} /\ stp[r] = "answer") =>
            \A i \in DOMAIN job[r].keys :
                LET k == job[r].keys[i]
                IN  k \in touched[r] \cup missed \/ built[k] = job[r].want[k]
=============================================================================
