----------------------------- MODULE SsoService -----------------------------
(***************************************************************************)
(* Administrator sign-on over OIDC: SSOHandler (Login, Callback, Exchange, *)
(* UpdateConfig), SSOService and OneTimeCodeStore                          *)
(* (backend/internal/service/sso_service.go, sso_code_store.go,            *)
(* sso_config.go, api/handlers/sso_handler.go).  A flow reads the          *)
(* configuration key by key while an administrator may be storing it key   *)
(* by key; the discovered provider is cached under s.mu; accounts are      *)
(* matched and provisioned in separate accesses; the tokens travel through *)
(* a one-time code in memory.                                              *)
(*                                                                         *)
(* The identity provider, goauth and the browser are external: a provider  *)
(* vouches for an e-mail address or does not.  A user name is the local    *)
(* part of the address and a number.  A step that touches nothing shared   *)
(* (the exchange with the provider, the minting of tokens) is part of the  *)
(* step after it.                                                          *)
(***************************************************************************)
EXTENDS Naturals, FiniteSets

CONSTANTS
    Emails, LocalPart,      \* e-mail addresses and the user name each suggests
    Issuers,                \* OIDC issuers
    SsoInputs,              \* bound: the configurations that are stored
    Flows,                  \* requests of Login or Callback in progress
    NoValue,                \* no account, no provider, no setting
    CodeTTL,                \* lifetime of a code
    MaxCode, MaxTry, MaxNow, MaxEdits     \* bounds: updates, restarts and edits of accounts

\* The keys of sso.* that decide anything, in the order UpdateConfig stores them.
SsoConfig == [enabled : BOOLEAN, issuer : Issuers, auto : BOOLEAN]
\* The value of the i-th of them, and a configuration with another value there.
SsoValue(c, i) == IF i = 1 THEN c.enabled ELSE IF i = 2 THEN c.issuer ELSE c.auto
WithValue(c, i, value) ==
    [enabled |-> IF i = 1 THEN value ELSE c.enabled,
     issuer |-> IF i = 2 THEN value ELSE c.issuer,
     auto |-> IF i = 3 THEN value ELSE c.auto]
Names == {LocalPart[e] : e \in Emails} \X (0 .. MaxTry)
Account == [active : BOOLEAN, name : Names, role : BOOLEAN]
CodeIds == 1 .. MaxCode

ASSUME SsoAssumption ==
    /\ CodeTTL \in Nat /\ MaxCode \in Nat /\ MaxTry \in Nat /\ MaxNow \in Nat
    /\ MaxEdits \in Nat
    /\ SsoInputs \subseteq SsoConfig
    /\ NoValue \notin Emails /\ NoValue \notin Issuers

SsoPoints == {"idle", "config", "provider", "match", "username", "create", "role", "issue"}

VARIABLES
    ssoSet,     \* the stored settings
    upd,        \* UpdateConfig: what it stores and how far it is
    provider,   \* s.provider, by its issuer
    accounts,   \* users by e-mail, with or without a role in goauth
    spc, who,   \* each flow: control point, the address the browser comes back with
    cfg, seen,  \* the configuration it has read, and how many keys of it
    using,      \* the provider it uses
    attempt,    \* number of the user name it tries
    settled,    \* ghost: no update was under way since it began
    entries,    \* OneTimeCodeStore.entries: the expiry by code
    issued,     \* codes handed out
    spent,      \* ghost: exchanges of each code that were answered with tokens
    late,       \* ghost: codes that worked after they had expired
    roleLost,   \* ghost: addresses whose AssignRole failed
    ssoNow, ssoEdits

flowVars == <<spc, who, cfg, seen, using, attempt, settled>>
codeVars == <<entries, issued, spent, late>>
confVars == <<ssoSet, upd>>
boundVars == <<ssoNow, ssoEdits>>
ssoVars == <<confVars, provider, accounts, flowVars, codeVars, roleLost, boundVars>>

\* LoadSSOConfig's defaults, also what a key whose read fails is taken for.
Unread == [enabled |-> FALSE, issuer |-> NoValue, auto |-> FALSE]
NoUpdate == [want |-> NoValue, next |-> 1]

SsoInit ==
    /\ ssoSet \in SsoInputs
    /\ upd = NoUpdate
    /\ provider = NoValue
    /\ accounts = [e \in Emails |-> NoValue]
    /\ spc = [f \in Flows |-> "idle"]
    /\ who = [f \in Flows |-> NoValue]
    /\ cfg = [f \in Flows |-> Unread]
    /\ seen = [f \in Flows |-> 0]
    /\ using = [f \in Flows |-> NoValue]
    /\ attempt = [f \in Flows |-> 0]
    /\ settled = [f \in Flows |-> FALSE]
    /\ entries = [c \in {} |-> 0]
    /\ issued = 0
    /\ spent = [c \in CodeIds |-> 0]
    /\ late = {} /\ roleLost = {}
    /\ ssoNow = 0 /\ ssoEdits = 0

FlowAt(f, point) == spc[f] = point
\* The flow goes on; it ends: fail, back to the login page, or its answer is sent.
FlowTo(f, point) ==
    spc' = [spc EXCEPT ![f] = point] /\ UNCHANGED <<who, cfg, seen, using, attempt, settled>>
\* It goes on without configuration and provider, which it is done with.
FlowLeaves(f, point) ==
    /\ spc' = [spc EXCEPT ![f] = point]
    /\ cfg' = [cfg EXCEPT ![f] = Unread]
    /\ seen' = [seen EXCEPT ![f] = 0]
    /\ using' = [using EXCEPT ![f] = NoValue]
    /\ UNCHANGED <<who, attempt, settled>>
FlowEnds(f) ==
    /\ spc' = [spc EXCEPT ![f] = "idle"]
    /\ who' = [who EXCEPT ![f] = NoValue]
    /\ cfg' = [cfg EXCEPT ![f] = Unread]
    /\ seen' = [seen EXCEPT ![f] = 0]
    /\ using' = [using EXCEPT ![f] = NoValue]
    /\ attempt' = [attempt EXCEPT ![f] = 0]
    /\ settled' = [settled EXCEPT ![f] = FALSE]
-----------------------------------------------------------------------------
\* UpdateConfig: one key at a time, an error leaves the rest; then Invalidate.
UpdateStart ==
    /\ upd = NoUpdate /\ ssoEdits < MaxEdits
    /\ ssoEdits' = ssoEdits + 1
    /\ \E want \in SsoInputs : upd' = [want |-> want, next |-> 1]
    /\ settled' = [f \in Flows |-> FALSE]
    /\ UNCHANGED <<ssoSet, provider, accounts, spc, who, cfg, seen, using, attempt, codeVars,
                   roleLost, ssoNow>>

UpdateKey ==
    /\ upd.want # NoValue /\ upd.next <= 3
    /\ \/ /\ ssoSet' = WithValue(ssoSet, upd.next, SsoValue(upd.want, upd.next))
          /\ upd' = [want |-> upd.want, next |-> upd.next + 1]
       \/ upd' = NoUpdate /\ ssoSet' = ssoSet
    /\ UNCHANGED <<provider, accounts, flowVars, codeVars, roleLost, boundVars>>

Invalidate ==
    /\ upd.next = 4
    /\ upd' = NoUpdate
    /\ provider' = NoValue
    /\ UNCHANGED <<ssoSet, accounts, flowVars, codeVars, roleLost, boundVars>>
-----------------------------------------------------------------------------
\* Callback with the right state cookie: the browser comes back from the provider.
\* A request of Login has no address.
FlowStart(f, e) ==
    /\ FlowAt(f, "idle") /\ issued < MaxCode
    /\ spc' = [spc EXCEPT ![f] = "config"]
    /\ who' = [who EXCEPT ![f] = e]
    /\ settled' = [settled EXCEPT ![f] = upd = NoUpdate]
    /\ UNCHANGED <<confVars, provider, accounts, cfg, seen, using, attempt, codeVars, roleLost,
                   boundVars>>

\* LoadSSOConfig, key by key; the flow goes on when it has found SSO enabled.
ReadConfig(f) ==
    /\ FlowAt(f, "config")
    /\ LET key == seen[f] + 1
       IN  \E from \in {ssoSet, Unread} :
              \/ /\ seen[f] < 2
                 /\ cfg' = [cfg EXCEPT ![f] = WithValue(@, key, SsoValue(from, key))]
                 /\ seen' = [seen EXCEPT ![f] = key]
                 /\ UNCHANGED <<spc, who, using, attempt, settled>>
              \/ /\ seen[f] = 2 /\ cfg[f].enabled
                 /\ cfg' = [cfg EXCEPT ![f] = WithValue(@, key, SsoValue(from, key))]
                 /\ seen' = [seen EXCEPT ![f] = key]
                 /\ spc' = [spc EXCEPT ![f] = "provider"]
                 /\ UNCHANGED <<who, using, attempt, settled>>
              \/ seen[f] = 2 /\ ~cfg[f].enabled /\ FlowEnds(f)
    /\ UNCHANGED <<confVars, provider, accounts, codeVars, roleLost, boundVars>>

\* Mutant of CacheHit: the issuer is not compared.
CacheHitAny(issuer) == provider # NoValue
CacheHit(issuer) == provider # NoValue /\ provider = issuer

\* providerFor, under s.mu: the cached provider, else discovery, which may fail.
\* Login has its redirect then.
ProviderFor(f) ==
    /\ FlowAt(f, "provider")
    /\ \/ /\ provider' = IF CacheHit(cfg[f].issuer) THEN provider ELSE cfg[f].issuer
          /\ provider' # NoValue
          /\ IF who[f] = NoValue THEN FlowEnds(f)
             ELSE /\ using' = [using EXCEPT ![f] = provider']
                  /\ spc' = [spc EXCEPT ![f] = "match"]
                  /\ UNCHANGED <<who, cfg, seen, attempt, settled>>
       \/ FlowEnds(f) /\ UNCHANGED provider
    /\ UNCHANGED <<confVars, accounts, codeVars, roleLost, boundVars>>

\* The exchange with the provider and the ID token with its UserInfo fallback may
\* refuse the flow; then matchOrProvision up to the look-up, which may fail.
MatchUser(f) ==
    /\ FlowAt(f, "match")
    /\ LET u == accounts[who[f]]
       IN  \/ u # NoValue /\ u.active /\ FlowLeaves(f, "issue")
           \/ u = NoValue /\ cfg[f].auto /\ FlowLeaves(f, "username")
           \/ FlowEnds(f)
    /\ UNCHANGED <<confVars, provider, accounts, codeVars, roleLost, boundVars>>

\* Mutant of Candidate: the whole address.
CandidateWhole(f) == <<who[f], attempt[f]>>
Candidate(f) == <<LocalPart[who[f]], attempt[f]>>
NameTaken(name) == \E e \in Emails : accounts[e] # NoValue /\ accounts[e].name = name

\* uniqueUsername: any answer but "not found", an error too, tries the next number.
UniqueUsername(f) ==
    /\ FlowAt(f, "username")
    /\ \/ ~NameTaken(Candidate(f)) /\ FlowTo(f, "create")
       \/ /\ attempt[f] < MaxTry
          /\ attempt' = [attempt EXCEPT ![f] = @ + 1]
          /\ UNCHANGED <<spc, who, cfg, seen, using, settled>>
    /\ UNCHANGED <<confVars, provider, accounts, codeVars, roleLost, boundVars>>

\* users.Create: address and user name are unique.
Provision(f) ==
    /\ FlowAt(f, "create")
    /\ \/ /\ accounts[who[f]] = NoValue /\ ~NameTaken(Candidate(f))
          /\ accounts' = [accounts EXCEPT ![who[f]] =
                             [active |-> TRUE, name |-> Candidate(f), role |-> FALSE]]
          /\ FlowTo(f, "role")
       \/ FlowEnds(f) /\ UNCHANGED accounts
    /\ UNCHANGED <<confVars, provider, codeVars, roleLost, boundVars>>

\* The account with a role; what became of it meanwhile stays.
WithRole(u) ==
    IF u = NoValue THEN NoValue ELSE [active |-> u.active, name |-> u.name, role |-> TRUE]

\* Mutant of GiveRole: the error of AssignRole is dropped.
GiveRoleNoError(f) ==
    /\ FlowAt(f, "role")
    /\ FlowTo(f, "issue")
    /\ \/ accounts' = [accounts EXCEPT ![who[f]] = WithRole(@)]
       \/ UNCHANGED accounts
    /\ UNCHANGED <<confVars, provider, codeVars, roleLost, boundVars>>

\* AssignRole; where the account was deleted meanwhile, the role has no owner.
GiveRole(f) ==
    /\ FlowAt(f, "role")
    /\ \/ /\ accounts' = [accounts EXCEPT ![who[f]] = WithRole(@)]
          /\ FlowTo(f, "issue")
          /\ UNCHANGED roleLost
       \/ /\ FlowEnds(f)
          /\ roleLost' = roleLost \cup {who[f]}
          /\ UNCHANGED accounts
    /\ UNCHANGED <<confVars, provider, codeVars, boundVars>>

Lapsed(c) == ssoNow > entries[c]

\* mint, then Issue: expired entries go, the pair is stored under a new code.
IssueCode(f) ==
    /\ FlowAt(f, "issue")
    /\ \/ /\ issued < MaxCode
          /\ issued' = issued + 1
          /\ entries' = [c \in {d \in DOMAIN entries : ~Lapsed(d)} \cup {issued'} |->
                            IF c = issued' THEN ssoNow + CodeTTL ELSE entries[c]]
       \/ UNCHANGED <<entries, issued>>
    /\ FlowEnds(f)
    /\ UNCHANGED <<confVars, provider, accounts, spent, late, roleLost, boundVars>>

\* Mutant of Consume: an expired code is answered.
ConsumeAny(c) ==
    /\ c \in DOMAIN entries
    /\ entries' = [d \in DOMAIN entries \ {c} |-> entries[d]]
    /\ spent' = [spent EXCEPT ![c] = @ + 1]
    /\ late' = late \cup {d \in {c} : Lapsed(d)}
    /\ UNCHANGED <<confVars, provider, accounts, flowVars, issued, roleLost, boundVars>>

\* Exchange: Consume takes the entry away, then looks at the expiry.
Consume(c) ==
    /\ c \in DOMAIN entries
    /\ entries' = [d \in DOMAIN entries \ {c} |-> entries[d]]
    /\ \/ Lapsed(c) /\ UNCHANGED <<spent, late>>
       \/ /\ ~Lapsed(c)
          /\ spent' = [spent EXCEPT ![c] = @ + 1]
          /\ late' = late \cup {d \in {c} : Lapsed(d)}
    /\ UNCHANGED <<confVars, provider, accounts, flowVars, issued, roleLost, boundVars>>
-----------------------------------------------------------------------------
\* Time matters while there are codes.
TimePasses ==
    /\ ssoNow < MaxNow /\ DOMAIN entries # {}
    /\ ssoNow' = ssoNow + 1
    /\ UNCHANGED <<confVars, provider, accounts, flowVars, codeVars, roleLost, ssoEdits>>

\* UserService, meanwhile: an account is deactivated, activated or deleted.
EditAccount(e) ==
    /\ ssoEdits < MaxEdits /\ accounts[e] # NoValue
    /\ ssoEdits' = ssoEdits + 1
    /\ \/ /\ accounts' = [accounts EXCEPT ![e] =
                             [active |-> ~@.active, name |-> @.name, role |-> @.role]]
          /\ UNCHANGED roleLost
       \/ accounts' = [accounts EXCEPT ![e] = NoValue] /\ roleLost' = roleLost \ {e}
    /\ UNCHANGED <<confVars, provider, flowVars, codeVars, ssoNow>>

\* The backend restarts: requests, cache and codes are gone.
SsoRestart ==
    /\ ssoEdits < MaxEdits
    /\ ssoEdits' = ssoEdits + 1
    /\ provider' = NoValue
    /\ entries' = [c \in {} |-> 0]
    /\ spc' = [f \in Flows |-> "idle"]
    /\ who' = [f \in Flows |-> NoValue]
    /\ cfg' = [f \in Flows |-> Unread]
    /\ seen' = [f \in Flows |-> 0]
    /\ using' = [f \in Flows |-> NoValue]
    /\ attempt' = [f \in Flows |-> 0]
    /\ settled' = [f \in Flows |-> FALSE]
    /\ upd' = NoUpdate
    /\ roleLost' = roleLost \cup {who[f] : f \in {g \in Flows : FlowAt(g, "role")}}
    /\ UNCHANGED <<ssoSet, accounts, issued, spent, late, ssoNow>>

FlowStep(f) ==
    \/ ReadConfig(f) \/ ProviderFor(f) \/ MatchUser(f) \/ UniqueUsername(f)
    \/ Provision(f) \/ GiveRole(f) \/ IssueCode(f)

SsoNext ==
    \/ UpdateStart \/ UpdateKey \/ Invalidate
    \/ \E f \in Flows : FlowStep(f) \/ \E e \in Emails \cup {NoValue} : FlowStart(f, e)
    \/ \E c \in CodeIds : Consume(c)
    \/ TimePasses \/ SsoRestart \/ \E e \in Emails : EditAccount(e)

SsoSpec == SsoInit /\ [][SsoNext]_ssoVars
-----------------------------------------------------------------------------
\* The type of every variable; a flow that has read its configuration has read
\* all of it, and one that has a provider has an address.
SsoTypeOK ==
    /\ ssoSet \in SsoConfig
    /\ upd \in [want : SsoConfig \cup {NoValue}, next : 1 .. 4]
    /\ provider \in Issuers \cup {NoValue}
    /\ accounts \in [Emails -> Account \cup {NoValue}]
    /\ spc \in [Flows -> SsoPoints] /\ who \in [Flows -> Emails \cup {NoValue}]
    /\ cfg \in [Flows -> [enabled : BOOLEAN, issuer : Issuers \cup {NoValue}, auto : BOOLEAN]]
    /\ seen \in [Flows -> 0 .. 3]
    /\ using \in [Flows -> Issuers \cup {NoValue}]
    /\ attempt \in [Flows -> 0 .. MaxTry] /\ settled \in [Flows -> BOOLEAN]
    /\ \A f \in Flows :
          /\ spc[f] \in {"match", "username", "create", "role", "issue"} => who[f] \in Emails
          /\ spc[f] \in {"provider", "match"} => seen[f] = 3
          /\ spc[f] = "config" => seen[f] < 3
          /\ spc[f] = "idle" => seen[f] = 0
    /\ issued \in 0 .. MaxCode /\ DOMAIN entries \subseteq 1 .. issued
    /\ spent \in [CodeIds -> Nat] /\ late \subseteq CodeIds /\ roleLost \subseteq Emails
    /\ ssoNow \in 0 .. MaxNow /\ ssoEdits \in 0 .. MaxEdits

\* A code buys one pair of tokens, however many exchanges race for it, none once it
\* has expired, and none after it was spent or a restart has wiped it out.
CodeUsedOnce ==
    /\ late = {}
    /\ \A c \in CodeIds : spent[c] + (IF c \in DOMAIN entries THEN 1 ELSE 0) <= 1

\* A flow that met no update is vouched for by the saved issuer and no other, with
\* sign-on enabled, and makes an account only where provisioning is on: the provider
\* another flow or an older configuration left in the cache is not used, and a
\* setting whose read fails never opens anything.
SavedIssuerVouches ==
    \A f \in Flows :
        settled[f] =>
            /\ FlowAt(f, "match") => using[f] = ssoSet.issuer
            /\ spc[f] \in {"match", "username", "create", "role", "issue"} => ssoSet.enabled
            /\ spc[f] \in {"username", "create", "role"} => ssoSet.auto

\* Concurrent first logins of one address: an account without a role is about to
\* get it from the flow that made it, unless giving it failed, and then that flow
\* came back with an error.
RoleComes ==
    \A e \in Emails :
        (accounts[e] # NoValue /\ ~accounts[e].role) =>
            e \in roleLost \/ \E f \in Flows : FlowAt(f, "role") /\ who[f] = e
=============================================================================
