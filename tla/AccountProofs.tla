--------------------------- MODULE AccountProofs ---------------------------
(***************************************************************************)
(* What sign-on and user management promise, for any number of flows,      *)
(* accounts, issuers and codes.  The two modules share no variables.       *)
(***************************************************************************)
EXTENDS UserService, SsoService, FiniteSetTheorems, TLAPS

-----------------------------------------------------------------------------
(* Single sign-on *)

\* A code that can still be exchanged was not spent, and none is before it exists.
CodeInv ==
    /\ late = {}
    /\ \A c \in CodeIds :
          /\ spent[c] \in {0, 1}
          /\ c \in DOMAIN entries \/ c > issued => spent[c] = 0

\* What a flow that met no update has read is what is stored, or the default that
\* opens nothing; and it is no further than that allows.
Reads(f) ==
    /\ seen[f] > 0 /\ cfg[f].enabled => ssoSet.enabled
    /\ seen[f] > 1 => cfg[f].issuer \in {ssoSet.issuer, NoValue}
    /\ seen[f] > 2 /\ cfg[f].auto => ssoSet.auto
FlowInv(f) ==
    settled[f] =>
        /\ upd = NoUpdate
        /\ Reads(f)
        /\ spc[f] = "provider" => cfg[f].enabled
        /\ spc[f] = "match" => using[f] = ssoSet.issuer
        /\ spc[f] \in {"match", "username", "create", "role", "issue"} => ssoSet.enabled
        /\ spc[f] \in {"username", "create", "role"} => ssoSet.auto

SsoInv == SsoTypeOK /\ CodeInv /\ RoleComes /\ \A f \in Flows : FlowInv(f)

\* The types, by what changes together.
ConfType ==
    /\ ssoSet \in SsoConfig
    /\ upd \in [want : SsoConfig \cup {NoValue}, next : 1 .. 4]
FlowType ==
    /\ spc \in [Flows -> SsoPoints] /\ who \in [Flows -> Emails \cup {NoValue}]
    /\ cfg \in [Flows -> [enabled : BOOLEAN, issuer : Issuers \cup {NoValue}, auto : BOOLEAN]]
    /\ seen \in [Flows -> 0 .. 3]
    /\ using \in [Flows -> Issuers \cup {NoValue}]
    /\ attempt \in [Flows -> 0 .. MaxTry] /\ settled \in [Flows -> BOOLEAN]
    /\ \A f \in Flows :
          /\ spc[f] \in {"match", "username", "create", "role", "issue"} => who[f] \in Emails
          /\ spc[f] \in {"provider", "match"} => seen[f] = 3
          /\ spc[f] = "config" => seen[f] < 3
          /\ spc[f] = "idle" => seen[f] = 0
CodeType ==
    /\ issued \in 0 .. MaxCode /\ DOMAIN entries \subseteq 1 .. issued
    /\ spent \in [CodeIds -> Nat] /\ late \subseteq CodeIds
UserType ==
    accounts \in [Emails -> Account \cup {NoValue}] /\ roleLost \subseteq Emails
BoundType == ssoNow \in 0 .. MaxNow /\ ssoEdits \in 0 .. MaxEdits

LEMMA SsoTypes ==
    SsoTypeOK <=> /\ ConfType /\ provider \in Issuers \cup {NoValue}
                  /\ FlowType /\ CodeType /\ UserType /\ BoundType
  BY DEF SsoTypeOK, ConfType, FlowType, CodeType, UserType, BoundType

LEMMA SsoTypesNext ==
    ASSUME ConfType', provider' \in Issuers \cup {NoValue}, FlowType', CodeType', UserType',
           BoundType'
    PROVE  SsoTypeOK'
  BY DEF SsoTypeOK, ConfType, FlowType, CodeType, UserType, BoundType

\* Nobody but f moves.
Alone(f) ==
    \A g \in Flows \ {f} :
        /\ spc'[g] = spc[g] /\ who'[g] = who[g] /\ cfg'[g] = cfg[g] /\ seen'[g] = seen[g]
        /\ using'[g] = using[g] /\ settled'[g] = settled[g]

LEMMA FlowInvKept ==
    ASSUME NEW f \in Flows, FlowInv(f), UNCHANGED confVars, spc'[f] = spc[f],
           cfg'[f] = cfg[f], seen'[f] = seen[f], using'[f] = using[f], settled'[f] = settled[f]
    PROVE  FlowInv(f)'
  BY DEF FlowInv, Reads, confVars

LEMMA FlowEndsFacts ==
    ASSUME NEW f \in Flows, FlowType, FlowEnds(f)
    PROVE  /\ FlowType' /\ Alone(f) /\ spc'[f] = "idle" /\ ~settled'[f]
  <1>1. /\ spc' \in [Flows -> SsoPoints] /\ who' \in [Flows -> Emails \cup {NoValue}]
        /\ seen' \in [Flows -> 0 .. 3] /\ using' \in [Flows -> Issuers \cup {NoValue}]
        /\ spc'[f] = "idle" /\ seen'[f] = 0
        /\ \A g \in Flows \ {f} : /\ spc'[g] = spc[g] /\ who'[g] = who[g]
                                  /\ seen'[g] = seen[g] /\ using'[g] = using[g]
    BY DEF FlowType, FlowEnds, SsoPoints
  <1>2. /\ cfg' \in [Flows -> [enabled : BOOLEAN, issuer : Issuers \cup {NoValue}, auto : BOOLEAN]]
        /\ \A g \in Flows \ {f} : cfg'[g] = cfg[g]
    <2>1. Unread \in [enabled : BOOLEAN, issuer : Issuers \cup {NoValue}, auto : BOOLEAN]
      BY DEF Unread
    <2> QED
      BY <2>1 DEF FlowType, FlowEnds
  <1>3. attempt' \in [Flows -> 0 .. MaxTry]
    BY SsoAssumption DEF FlowType, FlowEnds
  <1>4. /\ settled' \in [Flows -> BOOLEAN] /\ ~settled'[f]
        /\ \A g \in Flows \ {f} : settled'[g] = settled[g]
    BY DEF FlowType, FlowEnds
  <1>5. \A g \in Flows :
            /\ spc'[g] \in {"match", "username", "create", "role", "issue"} => who'[g] \in Emails
            /\ spc'[g] \in {"provider", "match"} => seen'[g] = 3
            /\ spc'[g] = "config" => seen'[g] < 3
            /\ spc'[g] = "idle" => seen'[g] = 0
    BY <1>1 DEF FlowType
  <1> QED
    BY <1>1, <1>2, <1>3, <1>4, <1>5 DEF FlowType, Alone

LEMMA FlowToFacts ==
    ASSUME NEW f \in Flows, NEW point \in {"create", "role", "issue"},
           FlowType, FlowTo(f, point), who[f] \in Emails
    PROVE  /\ FlowType' /\ Alone(f) /\ spc'[f] = point
           /\ UNCHANGED <<who, cfg, seen, using, settled>>
  <1>1. /\ spc' \in [Flows -> SsoPoints] /\ spc'[f] = point
        /\ \A g \in Flows \ {f} : spc'[g] = spc[g]
        /\ UNCHANGED <<who, cfg, seen, using, attempt, settled>>
    BY DEF FlowType, FlowTo, SsoPoints
  <1> QED
    BY <1>1 DEF FlowType, Alone

LEMMA FlowLeavesFacts ==
    ASSUME NEW f \in Flows, NEW point \in {"username", "issue"},
           FlowType, FlowLeaves(f, point), who[f] \in Emails
    PROVE  /\ FlowType' /\ Alone(f) /\ spc'[f] = point /\ seen'[f] = 0 /\ settled' = settled
           /\ who' = who
  <1>1. /\ spc' \in [Flows -> SsoPoints] /\ spc'[f] = point
        /\ seen' \in [Flows -> 0 .. 3] /\ seen'[f] = 0
        /\ using' \in [Flows -> Issuers \cup {NoValue}]
        /\ \A g \in Flows \ {f} : spc'[g] = spc[g] /\ seen'[g] = seen[g] /\ using'[g] = using[g]
        /\ UNCHANGED <<who, attempt, settled>>
    BY DEF FlowType, FlowLeaves, SsoPoints
  <1>2. /\ cfg' \in [Flows -> [enabled : BOOLEAN, issuer : Issuers \cup {NoValue}, auto : BOOLEAN]]
        /\ \A g \in Flows \ {f} : cfg'[g] = cfg[g]
    <2>1. Unread \in [enabled : BOOLEAN, issuer : Issuers \cup {NoValue}, auto : BOOLEAN]
      BY DEF Unread
    <2> QED
      BY <2>1 DEF FlowType, FlowLeaves
  <1> QED
    BY <1>1, <1>2 DEF FlowType, Alone

\* A role is still on its way to every account it was on its way to.
LEMMA RolesKept ==
    ASSUME RoleComes, UNCHANGED accounts, roleLost \subseteq roleLost',
           \A f \in Flows : spc[f] = "role" => spc'[f] = "role" /\ who'[f] = who[f]
    PROVE  RoleComes'
  BY DEF RoleComes, FlowAt

LEMMA SsoInitInv == SsoInit => SsoInv
  <1> SUFFICES ASSUME SsoInit PROVE SsoInv
    OBVIOUS
  <1> USE SsoAssumption
  <1>1. ConfType /\ provider \in Issuers \cup {NoValue} /\ BoundType
    BY DEF SsoInit, ConfType, NoUpdate, BoundType
  <1>2. FlowType
    <2>1. Unread \in [enabled : BOOLEAN, issuer : Issuers \cup {NoValue}, auto : BOOLEAN]
      BY DEF Unread
    <2>2. settled \in [Flows -> BOOLEAN]
      BY DEF SsoInit
    <2> QED
      BY <2>1, <2>2 DEF SsoInit, FlowType, SsoPoints
  <1>3. CodeType /\ CodeInv
    BY DEF SsoInit, CodeType, CodeInv, CodeIds
  <1>4. UserType
    BY DEF SsoInit, UserType
  <1>5. RoleComes
    BY DEF SsoInit, RoleComes
  <1>6. \A f \in Flows : FlowInv(f)
    BY DEF SsoInit, FlowInv
  <1> QED
    BY <1>1, <1>2, <1>3, <1>4, <1>5, <1>6, SsoTypes DEF SsoInv

\* The stored settings change only while no flow counts as settled.
LEMMA SsoUpdates ==
    ASSUME SsoInv, UpdateStart \/ UpdateKey \/ Invalidate PROVE SsoInv'
  <1>0. /\ ConfType /\ provider \in Issuers \cup {NoValue} /\ FlowType /\ CodeType
        /\ UserType /\ BoundType /\ CodeInv /\ RoleComes /\ \A f \in Flows : FlowInv(f)
    BY SsoTypes DEF SsoInv
  <1>1. /\ UNCHANGED <<accounts, spc, who, cfg, seen, using, attempt, codeVars, roleLost, ssoNow>>
        /\ ssoEdits' \in 0 .. MaxEdits /\ provider' \in Issuers \cup {NoValue}
    BY <1>0, SsoAssumption DEF UpdateStart, UpdateKey, Invalidate, flowVars, boundVars, BoundType
  <1>2. CodeType' /\ UserType' /\ BoundType' /\ CodeInv' /\ RoleComes'
    BY <1>0, <1>1 DEF CodeType, UserType, BoundType, CodeInv, RoleComes, codeVars, FlowAt
  <1>3. CASE UpdateStart
    <2>1. PICK want \in SsoInputs : upd' = [want |-> want, next |-> 1]
      BY <1>3 DEF UpdateStart
    <2>2. ConfType'
      BY <1>0, <1>3, <2>1, SsoAssumption DEF UpdateStart, ConfType
    <2>3. settled' \in [Flows -> BOOLEAN] /\ \A f \in Flows : ~settled'[f]
      BY <1>3 DEF UpdateStart
    <2>4. FlowType' /\ \A f \in Flows : FlowInv(f)'
      BY <1>0, <1>1, <2>3 DEF FlowType, FlowInv
    <2> QED
      BY <1>1, <1>2, <2>2, <2>4, SsoTypesNext DEF SsoInv
  <1>4. CASE UpdateKey \/ Invalidate
    <2>1. upd # NoUpdate /\ settled' = settled
      BY <1>4 DEF UpdateKey, Invalidate, NoUpdate, flowVars
    <2>2. FlowType' /\ \A f \in Flows : ~settled'[f]
      BY <1>0, <1>1, <2>1 DEF FlowType, FlowInv
    <2>3. ConfType'
      <3>1. CASE ssoSet' = ssoSet /\ upd' = NoUpdate
        BY <1>0, <3>1 DEF ConfType, NoUpdate
      <3>2. CASE /\ upd.want # NoValue /\ upd.next <= 3
                 /\ ssoSet' = WithValue(ssoSet, upd.next, SsoValue(upd.want, upd.next))
                 /\ upd' = [want |-> upd.want, next |-> upd.next + 1]
        <4>1. upd.want \in SsoConfig /\ upd.next \in 1 .. 3
          BY <1>0, <3>2 DEF ConfType
        <4>2. ssoSet' \in SsoConfig
          BY <1>0, <3>2, <4>1 DEF ConfType, WithValue, SsoValue, SsoConfig
        <4> QED
          BY <3>2, <4>1, <4>2 DEF ConfType
      <3> QED
        BY <1>4, <3>1, <3>2 DEF UpdateKey, Invalidate
    <2> QED
      BY <1>1, <1>2, <2>2, <2>3, SsoTypesNext DEF SsoInv, FlowInv
  <1> QED
    BY <1>3, <1>4

\* A step of a flow that touches neither settings, codes nor accounts.
LEMMA FlowMoves ==
    ASSUME SsoInv, NEW f \in Flows, FlowType', Alone(f), FlowInv(f)',
           provider' \in Issuers \cup {NoValue}, spc[f] # "role",
           UNCHANGED <<confVars, accounts, codeVars, roleLost, boundVars>>
    PROVE  SsoInv'
  <1>0. /\ ConfType /\ FlowType /\ CodeType
        /\ UserType /\ BoundType /\ CodeInv /\ RoleComes /\ \A g \in Flows : FlowInv(g)
    BY SsoTypes DEF SsoInv
  <1>1. ConfType' /\ CodeType' /\ UserType' /\ BoundType' /\ CodeInv'
    BY <1>0 DEF ConfType, CodeType, UserType, BoundType, CodeInv, codeVars, confVars, boundVars
  <1>2. RoleComes'
    BY <1>0, RolesKept DEF Alone
  <1>3. \A g \in Flows : FlowInv(g)'
    BY <1>0, FlowInvKept DEF Alone
  <1> QED
    BY <1>1, <1>2, <1>3, SsoTypesNext DEF SsoInv

LEMMA FlowStarts ==
    ASSUME SsoInv, NEW f \in Flows, NEW e \in Emails \cup {NoValue}, FlowStart(f, e)
    PROVE  SsoInv'
  <1>0. FlowType /\ provider \in Issuers \cup {NoValue} /\ \A g \in Flows : FlowInv(g)
    BY SsoTypes DEF SsoInv
  <1>1. /\ spc[f] = "idle"
        /\ UNCHANGED <<confVars, provider, accounts, cfg, seen, using, attempt, codeVars,
                       roleLost, boundVars>>
        /\ spc' = [spc EXCEPT ![f] = "config"] /\ who' = [who EXCEPT ![f] = e]
        /\ settled' = [settled EXCEPT ![f] = (upd = NoUpdate)]
    BY DEF FlowStart, FlowAt
  <1>2. /\ settled' \in [Flows -> BOOLEAN] /\ (settled'[f] => upd = NoUpdate)
        /\ \A g \in Flows \ {f} : settled'[g] = settled[g]
    BY <1>0, <1>1 DEF FlowType
  <1>3. /\ spc' \in [Flows -> SsoPoints] /\ spc'[f] = "config"
        /\ who' \in [Flows -> Emails \cup {NoValue}]
        /\ \A g \in Flows \ {f} : spc'[g] = spc[g] /\ who'[g] = who[g]
    BY <1>0, <1>1 DEF FlowType, SsoPoints
  <1>4. seen[f] = 0
    BY <1>0, <1>1 DEF FlowType
  <1>5. FlowType' /\ Alone(f)
    BY <1>0, <1>1, <1>2, <1>3, <1>4 DEF FlowType, Alone
  <1>6. FlowInv(f)'
    BY <1>1, <1>2, <1>3, <1>4 DEF FlowInv, Reads, confVars
  <1> QED
    BY <1>0, <1>1, <1>5, <1>6, FlowMoves

\* One more key, from the store or, where its read fails, from the defaults.
LEMMA ConfigRead ==
    ASSUME SsoInv, NEW f \in Flows, NEW from \in {ssoSet, Unread}, spc[f] = "config",
           cfg' = [cfg EXCEPT ![f] = WithValue(cfg[f], seen[f] + 1, SsoValue(from, seen[f] + 1))],
           seen' = [seen EXCEPT ![f] = seen[f] + 1],
           \/ seen[f] < 2 /\ spc' = spc
           \/ seen[f] = 2 /\ cfg[f].enabled /\ spc' = [spc EXCEPT ![f] = "provider"],
           UNCHANGED <<who, using, attempt, settled, confVars>>
    PROVE  FlowType' /\ Alone(f) /\ FlowInv(f)'
  <1>0. ConfType /\ FlowType /\ FlowInv(f)
    BY SsoTypes DEF SsoInv
  <1> DEFINE read == WithValue(cfg[f], seen[f] + 1, SsoValue(from, seen[f] + 1))
             Conf == [enabled : BOOLEAN, issuer : Issuers \cup {NoValue}, auto : BOOLEAN]
  <1>1. cfg[f] \in Conf /\ seen[f] \in {0, 1, 2} /\ from \in Conf
    <2>1. ssoSet \in Conf /\ Unread \in Conf
      BY <1>0 DEF ConfType, SsoConfig, Unread
    <2> QED
      BY <1>0, <2>1 DEF FlowType
  <1>2. read \in Conf
    BY <1>1 DEF WithValue, SsoValue
  <1>3. /\ seen[f] = 0 => read.enabled = from.enabled
        /\ seen[f] = 1 => read.enabled = cfg[f].enabled /\ read.issuer = from.issuer
        /\ seen[f] = 2 => /\ read.enabled = cfg[f].enabled /\ read.issuer = cfg[f].issuer
                          /\ read.auto = from.auto
    BY <1>1 DEF WithValue, SsoValue
  <1> HIDE DEF read
  <1>4. cfg' \in [Flows -> Conf] /\ cfg'[f] = read /\ \A g \in Flows \ {f} : cfg'[g] = cfg[g]
    BY <1>0, <1>2 DEF FlowType, read
  <1>5. /\ seen' \in [Flows -> 0 .. 3] /\ seen'[f] = seen[f] + 1
        /\ \A g \in Flows \ {f} : seen'[g] = seen[g]
    BY <1>0, <1>1 DEF FlowType
  <1>6. /\ spc' \in [Flows -> SsoPoints] /\ \A g \in Flows \ {f} : spc'[g] = spc[g]
        /\ \/ seen[f] < 2 /\ spc'[f] = "config"
           \/ seen[f] = 2 /\ spc'[f] = "provider" /\ cfg[f].enabled
    BY <1>0 DEF FlowType, SsoPoints
  <1>7. FlowType'
    <2>1. \A g \in Flows :
            /\ spc'[g] \in {"match", "username", "create", "role", "issue"} => who'[g] \in Emails
            /\ spc'[g] \in {"provider", "match"} => seen'[g] = 3
            /\ spc'[g] = "config" => seen'[g] < 3
            /\ spc'[g] = "idle" => seen'[g] = 0
      BY <1>0, <1>1, <1>5, <1>6 DEF FlowType
    <2> QED
      BY <1>0, <1>4, <1>5, <1>6, <2>1 DEF FlowType
  <1>8. Alone(f)
    BY <1>4, <1>5, <1>6 DEF Alone
  <1>9. FlowInv(f)'
    <2> SUFFICES ASSUME settled[f] PROVE FlowInv(f)'
      BY DEF FlowInv
    <2>1. upd = NoUpdate /\ Reads(f) /\ upd' = upd /\ ssoSet' = ssoSet
      BY <1>0 DEF FlowInv, confVars
    <2>2. /\ from.enabled => ssoSet.enabled
          /\ from.issuer \in {ssoSet.issuer, NoValue}
          /\ from.auto => ssoSet.auto
      <3>1. CASE from = ssoSet
        BY <3>1
      <3>2. CASE from = Unread
        BY <3>2 DEF Unread
      <3> QED
        BY <3>1, <3>2
    <2>3. Reads(f)'
      BY <1>1, <1>3, <1>4, <1>5, <2>1, <2>2 DEF Reads
    <2>4. spc'[f] = "provider" => cfg'[f].enabled
      BY <1>3, <1>4, <1>6
    <2> QED
      BY <1>6, <2>1, <2>3, <2>4 DEF FlowInv
  <1> QED
    BY <1>7, <1>8, <1>9

LEMMA ReadConfigInv == ASSUME SsoInv, NEW f \in Flows, ReadConfig(f) PROVE SsoInv'
  <1>0. FlowType /\ provider \in Issuers \cup {NoValue}
    BY SsoTypes DEF SsoInv
  <1>1. /\ spc[f] = "config"
        /\ UNCHANGED <<confVars, provider, accounts, codeVars, roleLost, boundVars>>
    BY DEF ReadConfig, FlowAt
  <1>2. CASE FlowEnds(f)
    <2>1. FlowType' /\ Alone(f) /\ ~settled'[f]
      BY <1>0, <1>2, FlowEndsFacts
    <2> QED
      BY <1>0, <1>1, <2>1, FlowMoves DEF FlowInv
  <1>3. CASE ~FlowEnds(f)
    <2>1. PICK from \in {ssoSet, Unread} :
            /\ cfg' = [cfg EXCEPT ![f] = WithValue(cfg[f], seen[f] + 1,
                                                   SsoValue(from, seen[f] + 1))]
            /\ seen' = [seen EXCEPT ![f] = seen[f] + 1]
            /\ \/ seen[f] < 2 /\ spc' = spc
               \/ seen[f] = 2 /\ cfg[f].enabled /\ spc' = [spc EXCEPT ![f] = "provider"]
            /\ UNCHANGED <<who, using, attempt, settled>>
      BY <1>3 DEF ReadConfig
    <2>2. FlowType' /\ Alone(f) /\ FlowInv(f)'
      BY <1>1, <2>1, ConfigRead
    <2> QED
      BY <1>0, <1>1, <2>2, FlowMoves
  <1> QED
    BY <1>2, <1>3

LEMMA ProviderForInv == ASSUME SsoInv, NEW f \in Flows, ProviderFor(f) PROVE SsoInv'
  <1>0. ConfType /\ FlowType /\ provider \in Issuers \cup {NoValue} /\ FlowInv(f)
    BY SsoTypes DEF SsoInv
  <1>1. /\ spc[f] = "provider" /\ seen[f] = 3
        /\ UNCHANGED <<confVars, accounts, codeVars, roleLost, boundVars>>
    BY <1>0 DEF ProviderFor, FlowAt, FlowType
  <1>2. provider' \in Issuers \cup {NoValue}
    BY <1>0 DEF ProviderFor, CacheHit, FlowType
  <1>3. CASE FlowEnds(f)
    <2>1. FlowType' /\ Alone(f) /\ ~settled'[f]
      BY <1>0, <1>3, FlowEndsFacts
    <2> QED
      BY <1>1, <1>2, <2>1, FlowMoves DEF FlowInv
  <1>4. CASE ~FlowEnds(f)
    <2>1. /\ provider' = cfg[f].issuer /\ provider' # NoValue /\ who[f] # NoValue
          /\ using' = [using EXCEPT ![f] = provider'] /\ spc' = [spc EXCEPT ![f] = "match"]
          /\ UNCHANGED <<who, cfg, seen, attempt, settled>>
      BY <1>4 DEF ProviderFor, CacheHit
    <2>2. /\ using' \in [Flows -> Issuers \cup {NoValue}] /\ using'[f] = cfg[f].issuer
          /\ spc' \in [Flows -> SsoPoints] /\ spc'[f] = "match" /\ who[f] \in Emails
          /\ \A g \in Flows \ {f} : using'[g] = using[g] /\ spc'[g] = spc[g]
      BY <1>0, <1>2, <2>1 DEF FlowType, SsoPoints
    <2>3. FlowType'
      BY <1>0, <1>1, <2>1, <2>2 DEF FlowType
    <2>4. Alone(f)
      BY <2>1, <2>2 DEF Alone
    <2>5. FlowInv(f)'
      BY <1>0, <1>1, <2>1, <2>2 DEF FlowInv, Reads, confVars
    <2> QED
      BY <1>1, <1>2, <2>3, <2>4, <2>5, FlowMoves
  <1> QED
    BY <1>3, <1>4

LEMMA MatchUserInv == ASSUME SsoInv, NEW f \in Flows, MatchUser(f) PROVE SsoInv'
  <1>0. ConfType /\ FlowType /\ provider \in Issuers \cup {NoValue} /\ FlowInv(f)
    BY SsoTypes DEF SsoInv
  <1>1. /\ spc[f] = "match" /\ seen[f] = 3 /\ who[f] \in Emails
        /\ UNCHANGED <<confVars, provider, accounts, codeVars, roleLost, boundVars>>
    BY <1>0 DEF MatchUser, FlowAt, FlowType
  <1>2. CASE FlowEnds(f)
    <2>1. FlowType' /\ Alone(f) /\ ~settled'[f]
      BY <1>0, <1>2, FlowEndsFacts
    <2> QED
      BY <1>0, <1>1, <2>1, FlowMoves DEF FlowInv
  <1>3. ASSUME NEW point \in {"username", "issue"}, FlowLeaves(f, point),
               point = "username" => cfg[f].auto
        PROVE  SsoInv'
    <2>1. /\ FlowType' /\ Alone(f) /\ spc'[f] = point /\ seen'[f] = 0 /\ settled' = settled
      BY <1>0, <1>1, <1>3, FlowLeavesFacts
    <2>2. FlowInv(f)'
      BY <1>0, <1>1, <1>3, <2>1 DEF FlowInv, Reads, confVars
    <2> QED
      BY <1>0, <1>1, <2>1, <2>2, FlowMoves
  <1> QED
    BY <1>2, <1>3 DEF MatchUser

LEMMA UniqueUsernameInv == ASSUME SsoInv, NEW f \in Flows, UniqueUsername(f) PROVE SsoInv'
  <1>0. ConfType /\ FlowType /\ provider \in Issuers \cup {NoValue} /\ FlowInv(f)
    BY SsoTypes DEF SsoInv
  <1>1. /\ spc[f] = "username" /\ who[f] \in Emails
        /\ UNCHANGED <<confVars, provider, accounts, codeVars, roleLost, boundVars>>
    BY <1>0 DEF UniqueUsername, FlowAt, FlowType
  <1>2. CASE FlowTo(f, "create")
    <2>1. /\ FlowType' /\ Alone(f) /\ spc'[f] = "create"
          /\ UNCHANGED <<who, cfg, seen, using, settled>>
      BY <1>0, <1>1, <1>2, FlowToFacts
    <2>2. FlowInv(f)'
      BY <1>0, <1>1, <2>1 DEF FlowInv, Reads, confVars
    <2> QED
      BY <1>0, <1>1, <2>1, <2>2, FlowMoves
  <1>3. CASE /\ attempt[f] < MaxTry /\ attempt' = [attempt EXCEPT ![f] = attempt[f] + 1]
             /\ UNCHANGED <<spc, who, cfg, seen, using, settled>>
    <2>1. attempt' \in [Flows -> 0 .. MaxTry]
      BY <1>0, <1>3, SsoAssumption DEF FlowType
    <2>2. FlowType' /\ Alone(f)
      BY <1>0, <1>3, <2>1 DEF FlowType, Alone
    <2>3. FlowInv(f)'
      BY <1>0, <1>1, <1>3, FlowInvKept
    <2> QED
      BY <1>0, <1>1, <2>2, <2>3, FlowMoves
  <1> QED
    BY <1>2, <1>3 DEF UniqueUsername

\* A step of a flow that leaves settings, cache and codes alone.
LEMMA AccountMoves ==
    ASSUME SsoInv, NEW f \in Flows, FlowType', Alone(f), FlowInv(f)', UserType', RoleComes',
           UNCHANGED <<confVars, provider, codeVars, boundVars>>
    PROVE  SsoInv'
  <1>0. /\ ConfType /\ provider \in Issuers \cup {NoValue} /\ CodeType /\ BoundType /\ CodeInv
        /\ \A g \in Flows : FlowInv(g)
    BY SsoTypes DEF SsoInv
  <1>1. /\ ConfType' /\ provider' \in Issuers \cup {NoValue} /\ CodeType' /\ BoundType'
        /\ CodeInv'
    BY <1>0 DEF ConfType, CodeType, BoundType, CodeInv, codeVars, confVars, boundVars
  <1>2. \A g \in Flows : FlowInv(g)'
    BY <1>0, FlowInvKept DEF Alone
  <1> QED
    BY <1>1, <1>2, SsoTypesNext DEF SsoInv

LEMMA ProvisionInv == ASSUME SsoInv, NEW f \in Flows, Provision(f) PROVE SsoInv'
  <1>0. /\ FlowType /\ UserType /\ provider \in Issuers \cup {NoValue} /\ FlowInv(f) /\ RoleComes
    BY SsoTypes DEF SsoInv
  <1>1. /\ spc[f] = "create" /\ who[f] \in Emails /\ roleLost' = roleLost
        /\ UNCHANGED <<confVars, provider, codeVars, roleLost, boundVars>>
    BY <1>0 DEF Provision, FlowAt, FlowType
  <1>2. CASE FlowEnds(f) /\ UNCHANGED accounts
    <2>1. FlowType' /\ Alone(f) /\ ~settled'[f]
      BY <1>0, <1>2, FlowEndsFacts
    <2> QED
      BY <1>0, <1>1, <1>2, <2>1, FlowMoves DEF FlowInv
  <1>3. CASE /\ accounts' = [accounts EXCEPT ![who[f]] =
                                [active |-> TRUE, name |-> Candidate(f), role |-> FALSE]]
             /\ FlowTo(f, "role")
    <2>1. /\ FlowType' /\ Alone(f) /\ spc'[f] = "role"
          /\ UNCHANGED <<who, cfg, seen, using, settled>>
      BY <1>0, <1>1, <1>3, FlowToFacts
    <2>2. FlowInv(f)'
      BY <1>0, <1>1, <2>1 DEF FlowInv, Reads, confVars
    <2>3. [active |-> TRUE, name |-> Candidate(f), role |-> FALSE] \in Account
      <3>1. Candidate(f) \in Names
        BY <1>0, <1>1 DEF Candidate, Names, FlowType
      <3> QED
        BY <3>1 DEF Account
    <2>4. UserType'
      BY <1>0, <1>1, <1>3, <2>3 DEF UserType
    <2>5. RoleComes'
      <3>1. \A e \in Emails \ {who[f]} : accounts'[e] = accounts[e]
        BY <1>0, <1>1, <1>3 DEF UserType
      <3>2. \A g \in Flows : spc[g] = "role" => spc'[g] = "role"
        BY <1>1, <2>1 DEF Alone
      <3> QED
        BY <1>0, <1>1, <2>1, <3>1, <3>2 DEF RoleComes, FlowAt
    <2> QED
      BY <1>1, <2>1, <2>2, <2>4, <2>5, AccountMoves
  <1> QED
    BY <1>2, <1>3 DEF Provision

LEMMA GiveRoleInv == ASSUME SsoInv, NEW f \in Flows, GiveRole(f) PROVE SsoInv'
  <1>0. FlowType /\ UserType /\ FlowInv(f) /\ RoleComes
    BY SsoTypes DEF SsoInv
  <1>1. /\ spc[f] = "role" /\ who[f] \in Emails
        /\ UNCHANGED <<confVars, provider, codeVars, boundVars>>
    BY <1>0 DEF GiveRole, FlowAt, FlowType
  <1>2. CASE FlowEnds(f) /\ roleLost' = roleLost \cup {who[f]} /\ UNCHANGED accounts
    <2>1. FlowType' /\ Alone(f) /\ ~settled'[f]
      BY <1>0, <1>2, FlowEndsFacts
    <2>2. UserType'
      BY <1>0, <1>1, <1>2 DEF UserType
    <2>3. RoleComes'
      BY <1>0, <1>2, <2>1 DEF RoleComes, FlowAt, Alone
    <2> QED
      BY <1>1, <2>1, <2>2, <2>3, AccountMoves DEF FlowInv
  <1>3. CASE /\ accounts' = [accounts EXCEPT ![who[f]] = WithRole(accounts[who[f]])]
             /\ FlowTo(f, "issue") /\ UNCHANGED roleLost
    <2>1. /\ FlowType' /\ Alone(f) /\ spc'[f] = "issue"
          /\ UNCHANGED <<who, cfg, seen, using, settled>>
      BY <1>0, <1>1, <1>3, FlowToFacts
    <2>2. FlowInv(f)'
      BY <1>0, <1>1, <2>1 DEF FlowInv, Reads, confVars
    <2>3. /\ WithRole(accounts[who[f]]) \in Account \cup {NoValue}
          /\ WithRole(accounts[who[f]]) = NoValue \/ WithRole(accounts[who[f]]).role
      <3>1. accounts[who[f]] \in Account \cup {NoValue}
        BY <1>0, <1>1 DEF UserType
      <3>2. CASE accounts[who[f]] = NoValue
        BY <3>2 DEF WithRole
      <3>3. CASE accounts[who[f]] # NoValue
        BY <3>1, <3>3 DEF WithRole, Account
      <3> QED
        BY <3>2, <3>3
    <2>4. /\ UserType' /\ accounts'[who[f]] = WithRole(accounts[who[f]])
          /\ \A e \in Emails \ {who[f]} : accounts'[e] = accounts[e]
      <3> HIDE DEF WithRole
      <3> QED
        BY <1>0, <1>1, <1>3, <2>3 DEF UserType
    <2>5. RoleComes'
      <3> SUFFICES ASSUME NEW e \in Emails, accounts'[e] # NoValue, ~accounts'[e].role
                   PROVE  e \in roleLost' \/ \E g \in Flows : spc'[g] = "role" /\ who'[g] = e
        BY DEF RoleComes, FlowAt
      <3>1. e # who[f] /\ accounts'[e] = accounts[e]
        BY <2>3, <2>4
      <3>2. e \in roleLost \/ \E g \in Flows : spc[g] = "role" /\ who[g] = e
        BY <1>0, <3>1 DEF RoleComes, FlowAt
      <3> QED
        BY <1>3, <2>1, <3>1, <3>2 DEF Alone
    <2> QED
      BY <1>1, <2>1, <2>2, <2>4, <2>5, AccountMoves
  <1> QED
    BY <1>2, <1>3 DEF GiveRole

\* The codes change, the rest does not, but for one flow that may end.
LEMMA CodeMoves ==
    ASSUME SsoInv, CodeType', CodeInv', FlowType', BoundType', RoleComes',
           \A f \in Flows : FlowInv(f)',
           UNCHANGED <<confVars, provider, accounts, roleLost>>
    PROVE  SsoInv'
  <1>0. /\ ConfType /\ provider \in Issuers \cup {NoValue} /\ UserType
    BY SsoTypes DEF SsoInv
  <1>1. ConfType' /\ provider' \in Issuers \cup {NoValue} /\ UserType'
    BY <1>0 DEF ConfType, UserType, confVars
  <1> QED
    BY <1>1, SsoTypesNext DEF SsoInv

LEMMA IssueCodeInv == ASSUME SsoInv, NEW f \in Flows, IssueCode(f) PROVE SsoInv'
  <1>0. /\ FlowType /\ CodeType /\ BoundType /\ CodeInv /\ RoleComes /\ \A g \in Flows : FlowInv(g)
    BY SsoTypes DEF SsoInv
  <1>1. /\ spc[f] = "issue" /\ FlowEnds(f)
        /\ UNCHANGED <<confVars, provider, accounts, spent, late, roleLost, boundVars>>
    BY DEF IssueCode, FlowAt
  <1>2. FlowType' /\ Alone(f) /\ ~settled'[f]
    BY <1>0, <1>1, FlowEndsFacts
  <1>3. RoleComes' /\ BoundType'
    BY <1>0, <1>1, <1>2, RolesKept DEF Alone, BoundType, boundVars
  <1>4. \A g \in Flows : FlowInv(g)'
    <2>1. FlowInv(f)'
      BY <1>2 DEF FlowInv
    <2> QED
      BY <1>0, <1>1, <1>2, <2>1, FlowInvKept DEF Alone
  <1>5. CodeType' /\ CodeInv'
    <2>1. CASE UNCHANGED <<entries, issued>>
      BY <1>0, <1>1, <2>1 DEF CodeType, CodeInv
    <2>2. CASE issued < MaxCode /\ issued' = issued + 1
               /\ DOMAIN entries' \subseteq DOMAIN entries \cup {issued'}
      BY <1>0, <1>1, <2>2, SsoAssumption DEF CodeType, CodeInv, CodeIds
    <2> QED
      BY <2>1, <2>2 DEF IssueCode
  <1> QED
    BY <1>1, <1>2, <1>3, <1>4, <1>5, CodeMoves

LEMMA ConsumeInv == ASSUME SsoInv, NEW c \in CodeIds, Consume(c) PROVE SsoInv'
  <1>0. /\ FlowType /\ CodeType /\ BoundType /\ CodeInv /\ RoleComes /\ \A g \in Flows : FlowInv(g)
    BY SsoTypes DEF SsoInv
  <1>1. /\ c \in DOMAIN entries /\ DOMAIN entries' = DOMAIN entries \ {c}
        /\ UNCHANGED <<confVars, provider, accounts, flowVars, issued, roleLost, boundVars>>
    BY DEF Consume
  <1>2. late' = {}
    BY <1>0 DEF Consume, CodeInv
  <1>3. /\ spent' \in [CodeIds -> Nat] /\ spent'[c] \in {0, 1}
        /\ \A d \in CodeIds \ {c} : spent'[d] = spent[d]
    BY <1>0, <1>1 DEF Consume, CodeType, CodeInv
  <1>4. CodeType' /\ CodeInv'
    BY <1>0, <1>1, <1>2, <1>3 DEF CodeType, CodeInv, CodeIds
  <1>5. FlowType' /\ BoundType' /\ RoleComes' /\ \A f \in Flows : FlowInv(f)'
    BY <1>0, <1>1 DEF FlowType, BoundType, RoleComes, FlowInv, Reads, flowVars, boundVars,
       confVars, FlowAt
  <1> QED
    BY <1>1, <1>4, <1>5, CodeMoves

LEMMA EditAccountInv == ASSUME SsoInv, NEW e \in Emails, EditAccount(e) PROVE SsoInv'
  <1>0. /\ ConfType /\ provider \in Issuers \cup {NoValue} /\ FlowType /\ CodeType
        /\ UserType /\ BoundType /\ CodeInv /\ RoleComes /\ \A f \in Flows : FlowInv(f)
    BY SsoTypes DEF SsoInv
  <1>1. /\ UNCHANGED <<confVars, provider, flowVars, codeVars, ssoNow>> /\ accounts[e] \in Account
        /\ accounts[e] # NoValue /\ ssoEdits < MaxEdits /\ ssoEdits' = ssoEdits + 1
    BY <1>0 DEF EditAccount, UserType
  <1>2. /\ ConfType' /\ provider' \in Issuers \cup {NoValue} /\ FlowType' /\ CodeType'
        /\ BoundType' /\ CodeInv' /\ \A f \in Flows : FlowInv(f)'
    BY <1>0, <1>1, SsoAssumption DEF ConfType, FlowType, CodeType, BoundType, CodeInv, FlowInv,
       Reads, confVars, flowVars, codeVars
  <1>3. UserType' /\ RoleComes'
    <2>1. CASE /\ accounts' = [accounts EXCEPT ![e] =
                    [active |-> ~accounts[e].active, name |-> accounts[e].name,
                     role |-> accounts[e].role]]
               /\ UNCHANGED roleLost
      <3>1. /\ [active |-> ~accounts[e].active, name |-> accounts[e].name,
                role |-> accounts[e].role] \in Account
        BY <1>1 DEF Account
      <3>2. /\ UserType' /\ accounts'[e].role = accounts[e].role
            /\ \A x \in Emails \ {e} : accounts'[x] = accounts[x]
        BY <1>0, <2>1, <3>1 DEF UserType
      <3> QED
        BY <1>0, <1>1, <2>1, <3>2 DEF RoleComes, FlowAt, flowVars
    <2>2. CASE accounts' = [accounts EXCEPT ![e] = NoValue] /\ roleLost' = roleLost \ {e}
      <3>1. /\ UserType' /\ accounts'[e] = NoValue
            /\ \A x \in Emails \ {e} : accounts'[x] = accounts[x]
        BY <1>0, <2>2 DEF UserType
      <3> QED
        BY <1>0, <1>1, <2>2, <3>1 DEF RoleComes, FlowAt, flowVars
    <2> QED
      BY <2>1, <2>2 DEF EditAccount
  <1> QED
    BY <1>2, <1>3, SsoTypesNext DEF SsoInv

LEMMA SsoRestartInv == ASSUME SsoInv, SsoRestart PROVE SsoInv'
  <1>0. /\ ConfType /\ provider \in Issuers \cup {NoValue} /\ FlowType /\ CodeType
        /\ UserType /\ BoundType /\ CodeInv /\ RoleComes
    BY SsoTypes DEF SsoInv
  <1>1. /\ UNCHANGED <<ssoSet, accounts, issued, spent, late, ssoNow>> /\ upd' = NoUpdate
        /\ DOMAIN entries' = {} /\ provider' = NoValue
        /\ ssoEdits < MaxEdits /\ ssoEdits' = ssoEdits + 1
        /\ roleLost' = roleLost \cup {who[f] : f \in {g \in Flows : FlowAt(g, "role")}}
    BY DEF SsoRestart
  <1>2. ConfType' /\ CodeType' /\ CodeInv' /\ BoundType'
    BY <1>0, <1>1, SsoAssumption DEF ConfType, NoUpdate, CodeType, CodeInv, BoundType
  <1>3. settled' \in [Flows -> BOOLEAN] /\ \A f \in Flows : ~settled'[f]
    BY DEF SsoRestart
  <1>4. FlowType'
    <2>1. Unread \in [enabled : BOOLEAN, issuer : Issuers \cup {NoValue}, auto : BOOLEAN]
      BY DEF Unread
    <2>2. /\ spc' = [f \in Flows |-> "idle"] /\ who' = [f \in Flows |-> NoValue]
          /\ cfg' = [f \in Flows |-> Unread] /\ seen' = [f \in Flows |-> 0]
          /\ using' = [f \in Flows |-> NoValue] /\ attempt' = [f \in Flows |-> 0]
      BY DEF SsoRestart
    <2> QED
      BY <1>3, <2>1, <2>2, SsoAssumption DEF FlowType, SsoPoints
  <1>5. UserType'
    BY <1>0, <1>1 DEF UserType, FlowType, FlowAt
  <1>6. RoleComes'
    BY <1>0, <1>1 DEF RoleComes, FlowAt
  <1> QED
    BY <1>1, <1>2, <1>3, <1>4, <1>5, <1>6, SsoTypesNext DEF SsoInv, FlowInv

LEMMA SsoStepInv == SsoInv /\ [SsoNext]_ssoVars => SsoInv'
  <1> SUFFICES ASSUME SsoInv, [SsoNext]_ssoVars PROVE SsoInv'
    OBVIOUS
  <1>1. CASE TimePasses
    <2>0. /\ FlowType /\ CodeType /\ BoundType /\ CodeInv /\ RoleComes
          /\ \A g \in Flows : FlowInv(g)
      BY SsoTypes DEF SsoInv
    <2>1. /\ UNCHANGED <<confVars, provider, accounts, flowVars, codeVars, roleLost, ssoEdits>>
          /\ ssoNow < MaxNow /\ ssoNow' = ssoNow + 1
      BY <1>1 DEF TimePasses
    <2>2. /\ FlowType' /\ CodeType' /\ BoundType' /\ CodeInv' /\ RoleComes'
          /\ \A g \in Flows : FlowInv(g)'
      BY <2>0, <2>1, SsoAssumption DEF FlowType, CodeType, BoundType, CodeInv, RoleComes, FlowInv,
         Reads, flowVars, codeVars, confVars, FlowAt
    <2> QED
      BY <2>1, <2>2, CodeMoves
  <1>2. CASE UNCHANGED ssoVars
    BY <1>2 DEF SsoInv, SsoTypeOK, CodeInv, RoleComes, FlowInv, Reads, ssoVars, flowVars,
       codeVars, confVars, boundVars, FlowAt
  <1>3. ASSUME NEW f \in Flows, FlowStep(f) PROVE SsoInv'
    BY <1>3, ReadConfigInv, ProviderForInv, MatchUserInv, UniqueUsernameInv, ProvisionInv,
       GiveRoleInv, IssueCodeInv DEF FlowStep
  <1> QED
    BY <1>1, <1>2, <1>3, SsoUpdates, FlowStarts, ConsumeInv, EditAccountInv, SsoRestartInv
       DEF SsoNext

LEMMA SsoInductive == SsoSpec => []SsoInv
  BY SsoInitInv, SsoStepInv, PTL DEF SsoSpec

\* Every flow is well typed wherever an update, an edited account or a restart
\* meets it.
THEOREM SsoTypeCorrect == SsoSpec => []SsoTypeOK
  BY SsoInductive, PTL DEF SsoInv

\* However many exchanges race for a code, one at most is answered with tokens, and
\* none late.
THEOREM CodeUsedOnceHolds == SsoSpec => []CodeUsedOnce
  <1>1. SsoInv => CodeUsedOnce
    <2> SUFFICES ASSUME SsoInv, NEW c \in CodeIds
                 PROVE  late = {} /\ spent[c] + (IF c \in DOMAIN entries THEN 1 ELSE 0) <= 1
      BY DEF CodeUsedOnce, SsoInv, CodeInv
    <2>1. CodeInv
      BY DEF SsoInv
    <2>2. spent[c] \in {0, 1} /\ (c \in DOMAIN entries => spent[c] = 0) /\ late = {}
      BY <2>1 DEF CodeInv
    <2> QED
      BY <2>2
  <1> QED
    BY <1>1, SsoInductive, PTL

\* No cache, no failing read and no other flow lets anybody in whom the saved
\* issuer does not vouch for, while the settings stay as they are.
THEOREM SavedIssuerVouchesHolds == SsoSpec => []SavedIssuerVouches
  <1>1. SsoInv => SavedIssuerVouches
    BY DEF SsoInv, FlowInv, SavedIssuerVouches, FlowAt
  <1> QED
    BY <1>1, SsoInductive, PTL

\* An account that was provisioned gets its role, or the failure was reported.
THEOREM RoleComesHolds == SsoSpec => []RoleComes
  BY SsoInductive, PTL DEF SsoInv
-----------------------------------------------------------------------------
(* User management *)

\* Requests come one at a time: what the guards of user management need.
OneAtATime == \A g, h \in Handlers : g = h

\* An administrator other than the one the request is about.
Spare(h) == \E v \in ActiveAdmins : v # in[h].id

\* What a request has read is still so, and one that may take an administrator
\* away leaves another.  A row being created is in nobody's way.
Current(h) ==
    /\ up[h] \in {"role", "count", "password"} \/ (up[h] = "store" /\ ~Creates(in[h].kind)) =>
          users[in[h].id] # Absent /\ row[h] = users[in[h].id]
    /\ up[h] = "count" \/ (up[h] = "store" /\ in[h].kind \in {"update", "delete"}) =>
          oldRole[h] = roles[in[h].id]
    /\ up[h] = "count" => oldRole[h] = "admin" /\ in[h].kind \in {"update", "delete"}
    /\ up[h] = "store" /\ in[h].kind = "delete" /\ oldRole[h] = "admin" => Spare(h)
    /\ up[h] = "store" /\ in[h].kind = "update" =>
          (LosingAdmin(h, oldRole[h]) \/ (oldRole[h] = "admin" /\ Deactivating(h)) => Spare(h))
    /\ up[h] = "assign" /\ roles[in[h].id] = "admin" /\ in[h].role # "admin" => Spare(h)
    /\ HalfMade(h) => /\ roles[in[h].id] = "" /\ users[in[h].id] # Absent
                      /\ users[in[h].id].active

\* Until somebody is administrator, a request registers or changes a password; it
\* finds an empty table, and whom it creates is to be administrator.
Setup ==
    ~hadAdmin /\ ~stranded =>
        /\ \A h \in Handlers :
              /\ up[h] # "idle" => in[h].kind \in {"register", "password"}
              /\ up[h] \in {"store", "assign"} /\ in[h].kind = "register" => in[h].role = "admin"
        /\ \A u \in UserIDs :
              users[u] # Absent => \E h \in Handlers : HalfMade(h) /\ in[h].id = u

\* A key that was never used has no role.
Unassigned == \A u \in UserIDs \ used : roles[u] = ""

UserInv == Unassigned /\ AdminRemains /\ Setup /\ \A h \in Handlers : Current(h)

\* The types, by what changes together.
Tables ==
    /\ users \in [UserIDs -> User \cup {Absent}]
    /\ roles \in [UserIDs -> Roles \cup {""}]
    /\ used \subseteq UserIDs
Locals ==
    /\ up \in [Handlers -> Points]
    /\ in \in [Handlers -> Input]
    /\ row \in [Handlers -> User \cup {Absent}]
    /\ oldRole \in [Handlers -> Roles \cup {""}]
HandlerType(h) ==
    /\ up[h] \in {"load", "role", "count", "password"} =>
          ~Creates(in[h].kind) /\ in[h].id \in used
    /\ up[h] = "store" /\ ~Creates(in[h].kind) => in[h].id \in used /\ row[h] \in User
    /\ up[h] = "gate" => in[h].kind = "register"
    /\ up[h] = "password" => in[h].kind = "password"
    /\ up[h] = "assign" => in[h].id \in used
    /\ up[h] = "undo" => in[h].id \in used /\ Creates(in[h].kind)
    /\ up[h] \in {"role", "count", "password"} => row[h] \in User

UserTypes ==
    /\ Tables /\ Locals /\ (\A h \in Handlers : HandlerType(h))
    /\ hadAdmin \in BOOLEAN /\ stranded \in BOOLEAN

LEMMA UserTypesOK == UserTypes => UTypeOK
  BY DEF UserTypes, UTypeOK, Tables, Locals, HandlerType

\* Only h moves.
Alone1(h) ==
    \A g \in Handlers \ {h} :
        up'[g] = up[g] /\ in'[g] = in[g] /\ row'[g] = row[g] /\ oldRole'[g] = oldRole[g]

LEMMA IdleTyped == Idle \in Input
  <1>1. (CHOOSE u \in UserIDs : TRUE) \in UserIDs
    BY UsersAssumption
  <1> QED
    BY <1>1 DEF Idle, Input, Roles

LEMMA Returns ==
    ASSUME NEW h \in Handlers, Locals, Return(h)
    PROVE  Locals' /\ HandlerType(h)' /\ Alone1(h) /\ up'[h] = "idle"
  BY IdleTyped DEF Locals, Return, HandlerType, Alone1, Points

LEMMA Goes ==
    ASSUME NEW h \in Handlers, NEW c \in Points, Locals, Goto(h, c)
    PROVE  Locals' /\ Alone1(h) /\ up'[h] = c /\ UNCHANGED <<in, row, oldRole>>
  BY DEF Locals, Goto, Alone1

LEMMA OthersTyped ==
    ASSUME NEW h \in Handlers, Alone1(h), used \subseteq used', HandlerType(h)',
           \A g \in Handlers : HandlerType(g)
    PROVE  \A g \in Handlers : HandlerType(g)'
  BY DEF Alone1, HandlerType

LEMMA WithTyped ==
    ASSUME NEW h \in Handlers, Locals, NEW id \in UserIDs \cup {Absent}, NEW role \in Roles
    PROVE  /\ With(h, id, role) \in Input /\ With(h, id, role).kind = in[h].kind
           /\ With(h, id, role).id = id /\ With(h, id, role).role = role
           /\ With(h, id, role).mustChange = in[h].mustChange
  BY DEF With, Locals, Input

LEMMA UserInitTyped == Init => UserTypes
  <1> SUFFICES ASSUME Init PROVE UserTypes
    OBVIOUS
  <1>1. PICK S \in SUBSET UserIDs :
           /\ used = S
           /\ users = [v \in UserIDs |-> IF v \in S THEN NewUser ELSE Absent]
           /\ roles = [v \in UserIDs |-> IF v \in S THEN "admin" ELSE ""]
           /\ hadAdmin = (S # {})
    BY DEF Init
  <1>2. Tables
    <2>1. NewUser \in User
      BY DEF NewUser, User
    <2> QED
      BY <1>1, <2>1 DEF Tables, Roles
  <1>3. Locals
    BY IdleTyped DEF Init, Locals, Points
  <1>4. \A h \in Handlers : HandlerType(h)
    BY DEF Init, HandlerType
  <1> QED
    BY <1>1, <1>2, <1>3, <1>4 DEF UserTypes, Init

\* Save leaves a table.
LEMMA SaveTyped ==
    ASSUME Tables, NEW u \in UserIDs, NEW r \in User, Save(u, r), UNCHANGED <<roles, used>>
    PROVE  /\ Tables' /\ (\A v \in UserIDs \ {u} : users'[v] = users[v])
           /\ users'[u] = IF users[u] = Absent THEN Absent ELSE r
  BY DEF Tables, Save

\* Every step of a request, and what it leaves of tables and locals.
StepTyped(h) == Tables' /\ Locals' /\ HandlerType(h)' /\ Alone1(h) /\ used \subseteq used'

LEMMA ReturnStep ==
    ASSUME UserTypes, NEW h \in Handlers, Return(h), UNCHANGED <<users, roles, used>>
    PROVE  StepTyped(h)
  <1>1. Locals' /\ HandlerType(h)' /\ Alone1(h)
    BY Returns DEF UserTypes
  <1> QED
    BY <1>1 DEF StepTyped, UserTypes, Tables

LEMMA BeginTyped == ASSUME UserTypes, NEW h \in Handlers, Begin(h) PROVE StepTyped(h)
  <1>1. PICK i \in Input :
           /\ ~Creates(i.kind) => i.id \in used
           /\ in' = [in EXCEPT ![h] = i]
           /\ up' = [up EXCEPT ![h] = IF i.kind = "create" THEN "store"
                                      ELSE IF i.kind = "register" THEN "gate" ELSE "load"]
    BY DEF Begin
  <1>2. Tables' /\ UNCHANGED <<used, row, oldRole>>
    BY DEF Begin, UserTypes, Tables
  <1>3. /\ Locals' /\ Alone1(h) /\ in'[h] = i
        /\ up'[h] = IF i.kind = "create" THEN "store"
                    ELSE IF i.kind = "register" THEN "gate" ELSE "load"
    BY <1>1, <1>2 DEF UserTypes, Locals, Points, Alone1
  <1>4. HandlerType(h)'
    BY <1>1, <1>2, <1>3 DEF HandlerType, Creates
  <1> QED
    BY <1>2, <1>3, <1>4 DEF StepTyped

LEMMA GateTyped == ASSUME UserTypes, NEW h \in Handlers, RegisterGate(h) PROVE StepTyped(h)
  <1>0. Locals /\ HandlerType(h) /\ in[h] \in Input /\ UNCHANGED <<users, roles, used>>
    BY DEF UserTypes, Locals, RegisterGate
  <1>1. CASE Return(h)
    BY <1>0, <1>1, ReturnStep
  <1>2. CASE ~Return(h)
    <2>1. PICK role \in Roles :
             /\ in' = [in EXCEPT ![h] = With(h, in[h].id, role)]
             /\ up' = [up EXCEPT ![h] = "store"] /\ UNCHANGED <<row, oldRole>>
      BY <1>2 DEF RegisterGate, Roles
    <2>2. With(h, in[h].id, role) \in Input /\ With(h, in[h].id, role).kind = in[h].kind
      BY <1>0, WithTyped DEF Input
    <2>3. Locals' /\ Alone1(h) /\ up'[h] = "store" /\ in'[h].kind = in[h].kind
      BY <1>0, <2>1, <2>2 DEF Locals, Points, Alone1
    <2>4. in[h].kind = "register"
      BY <1>0 DEF RegisterGate, HandlerType
    <2>5. HandlerType(h)'
      BY <2>3, <2>4 DEF HandlerType, Creates
    <2> QED
      BY <1>0, <2>3, <2>5 DEF StepTyped, UserTypes, Tables
  <1> QED
    BY <1>1, <1>2

LEMMA LoadUserTyped == ASSUME UserTypes, NEW h \in Handlers, LoadUser(h) PROVE StepTyped(h)
  <1>0. Tables /\ Locals /\ HandlerType(h) /\ up[h] = "load" /\ UNCHANGED <<users, roles, used>>
    BY DEF UserTypes, LoadUser
  <1>1. CASE Return(h)
    BY <1>0, <1>1, ReturnStep
  <1>2. CASE ~Return(h)
    <2>1. /\ users[in[h].id] # Absent /\ row' = [row EXCEPT ![h] = users[in[h].id]]
          /\ up' = [up EXCEPT ![h] = IF in[h].kind = "password" THEN "password" ELSE "role"]
          /\ UNCHANGED <<in, oldRole>>
      BY <1>2 DEF LoadUser
    <2>2. ~Creates(in[h].kind) /\ in[h].id \in used /\ in[h].id \in UserIDs
      BY <1>0 DEF HandlerType, Tables
    <2>3. users[in[h].id] \in User
      BY <1>0, <2>1, <2>2 DEF Tables
    <2>4. /\ Locals' /\ Alone1(h) /\ row'[h] = users[in[h].id]
          /\ up'[h] = IF in[h].kind = "password" THEN "password" ELSE "role"
      BY <1>0, <2>1, <2>3 DEF Locals, Points, Alone1
    <2>5. HandlerType(h)'
      BY <1>0, <2>1, <2>2, <2>3, <2>4 DEF HandlerType
    <2> QED
      BY <1>0, <2>4, <2>5 DEF StepTyped, Tables
  <1> QED
    BY <1>1, <1>2

LEMMA LoadRoleTyped == ASSUME UserTypes, NEW h \in Handlers, LoadRole(h) PROVE StepTyped(h)
  <1>0. Tables /\ Locals /\ HandlerType(h) /\ up[h] = "role" /\ UNCHANGED <<users, roles, used>>
    BY DEF UserTypes, LoadRole
  <1>1. CASE Return(h)
    BY <1>0, <1>1, ReturnStep
  <1>2. CASE ~Return(h)
    <2>1. PICK r \in {roles[in[h].id], ""}, point \in {"count", "store"} :
             /\ oldRole' = [oldRole EXCEPT ![h] = r] /\ up' = [up EXCEPT ![h] = point]
             /\ UNCHANGED <<in, row>>
      BY <1>2 DEF LoadRole
    <2>2. ~Creates(in[h].kind) /\ in[h].id \in used /\ in[h].id \in UserIDs
      BY <1>0 DEF HandlerType, Tables
    <2>3. r \in Roles \cup {""}
      BY <1>0, <2>2 DEF Tables
    <2>4. Locals' /\ Alone1(h) /\ up'[h] = point
      BY <1>0, <2>1, <2>3 DEF Locals, Points, Alone1
    <2>5. HandlerType(h)'
      BY <1>0, <2>1, <2>2, <2>4 DEF HandlerType
    <2> QED
      BY <1>0, <2>4, <2>5 DEF StepTyped, Tables
  <1> QED
    BY <1>1, <1>2

LEMMA GotoTyped ==
    ASSUME UserTypes, NEW h \in Handlers, CountAdmins(h) \/ ChangeHash(h) \/ AssignFails(h)
    PROVE  StepTyped(h)
  <1>0. Tables /\ Locals /\ HandlerType(h) /\ UNCHANGED <<users, roles, used>>
    BY DEF UserTypes, CountAdmins, ChangeHash, AssignFails
  <1>1. CASE Return(h)
    BY <1>0, <1>1, ReturnStep
  <1>2. CASE Goto(h, "store") /\ up[h] \in {"count", "password"}
    <2>1. Locals' /\ Alone1(h) /\ up'[h] = "store" /\ UNCHANGED <<in, row, oldRole>>
      BY <1>0, <1>2, Goes DEF Points
    <2>2. HandlerType(h)'
      BY <1>0, <1>2, <2>1 DEF HandlerType
    <2> QED
      BY <1>0, <2>1, <2>2 DEF StepTyped, Tables
  <1>3. CASE Goto(h, "undo") /\ up[h] = "assign" /\ Creates(in[h].kind)
    <2>1. Locals' /\ Alone1(h) /\ up'[h] = "undo" /\ UNCHANGED <<in, row, oldRole>>
      BY <1>0, <1>3, Goes DEF Points
    <2>2. HandlerType(h)'
      BY <1>0, <1>3, <2>1 DEF HandlerType
    <2> QED
      BY <1>0, <2>1, <2>2 DEF StepTyped, Tables
  <1> QED
    BY <1>1, <1>2, <1>3 DEF CountAdmins, ChangeHash, AssignFails, Undoes

LEMMA CreateTyped == ASSUME UserTypes, NEW h \in Handlers, CreateUser(h) PROVE StepTyped(h)
  <1>0. Tables /\ Locals /\ HandlerType(h) /\ roles' = roles /\ in[h] \in Input
    BY DEF UserTypes, CreateUser, Locals
  <1>1. CASE Return(h)
    <2>1. CASE UNCHANGED <<users, used>>
      BY <1>0, <1>1, <2>1, ReturnStep
    <2>2. CASE up' = [up EXCEPT ![h] = "assign"]
      BY <1>0, <1>1, <2>2 DEF Return, Locals
    <2> QED
      BY <2>1, <2>2 DEF CreateUser
  <1>2. CASE ~Return(h)
    <2>1. PICK u \in UserIDs \ used :
             /\ users' = [users EXCEPT ![u] = [active |-> TRUE, mustChange |-> in[h].mustChange]]
             /\ used' = used \cup {u} /\ in' = [in EXCEPT ![h] = With(h, u, in[h].role)]
             /\ up' = [up EXCEPT ![h] = "assign"] /\ UNCHANGED <<row, oldRole>>
      BY <1>2 DEF CreateUser
    <2>2. With(h, u, in[h].role) \in Input /\ With(h, u, in[h].role).id = u
      BY <1>0, WithTyped DEF Input
    <2>3. [active |-> TRUE, mustChange |-> in[h].mustChange] \in User
      BY <1>0 DEF User, Input
    <2>4. Tables'
      BY <1>0, <2>1, <2>3 DEF Tables
    <2>5. Locals' /\ Alone1(h) /\ up'[h] = "assign" /\ in'[h].id = u
      BY <1>0, <2>1, <2>2 DEF Locals, Points, Alone1
    <2>6. HandlerType(h)'
      BY <2>1, <2>5 DEF HandlerType
    <2> QED
      BY <2>1, <2>4, <2>5, <2>6 DEF StepTyped
  <1> QED
    BY <1>1, <1>2

\* The row each of the three writers saves.
Saved(h) ==
    IF in[h].kind = "update" THEN [active |-> in[h].active, mustChange |-> row[h].mustChange]
    ELSE IF in[h].kind = "reset" THEN [active |-> row[h].active, mustChange |-> in[h].mustChange]
    ELSE [active |-> row[h].active, mustChange |-> FALSE]

LEMMA Saves ==
    ASSUME UserTypes, NEW h \in Handlers,
           StoreUser(h) \/ StorePassword(h) \/ ClearFlag(h)
    PROVE  /\ in[h].kind \in {"update", "reset", "password"} /\ up[h] = "store"
           /\ in[h].id \in UserIDs /\ in[h].id \in used /\ UNCHANGED <<roles, used>>
           /\ Tables' /\ \A v \in UserIDs \ {in[h].id} : users'[v] = users[v]
           /\ \/ users'[in[h].id] = (IF users[in[h].id] = Absent THEN Absent ELSE Saved(h))
              \/ in[h].kind = "password" /\ users'[in[h].id] = users[in[h].id]
  <1>0. Tables /\ Locals /\ HandlerType(h) /\ in[h] \in Input
    BY DEF UserTypes, Locals
  <1>1. /\ in[h].kind \in {"update", "reset", "password"} /\ up[h] = "store"
        /\ UNCHANGED <<roles, used>>
        /\ Save(in[h].id, Saved(h)) \/ (in[h].kind = "password" /\ UNCHANGED users)
    BY DEF StoreUser, StorePassword, ClearFlag, Saved
  <1>2. in[h].id \in UserIDs /\ in[h].id \in used /\ row[h] \in User
    BY <1>0, <1>1 DEF HandlerType, Tables, Creates
  <1>3. Saved(h) \in User
    BY <1>0, <1>2 DEF Saved, User, Input
  <1>4. CASE Save(in[h].id, Saved(h))
    BY <1>0, <1>1, <1>2, <1>3, <1>4, SaveTyped
  <1>5. CASE in[h].kind = "password" /\ UNCHANGED users
    BY <1>0, <1>1, <1>2, <1>5 DEF Tables
  <1> QED
    BY <1>1, <1>2, <1>4, <1>5

LEMMA SavesTyped ==
    ASSUME UserTypes, NEW h \in Handlers,
           StoreUser(h) \/ StorePassword(h) \/ ClearFlag(h)
    PROVE  StepTyped(h)
  <1>0. Locals /\ in[h].id \in used /\ Tables' /\ used' = used
    BY Saves DEF UserTypes
  <1>1. CASE Return(h)
    BY <1>0, <1>1, Returns DEF StepTyped
  <1>2. CASE Goto(h, "assign")
    <2>1. Locals' /\ Alone1(h) /\ up'[h] = "assign" /\ in' = in
      BY <1>0, <1>2, Goes DEF Points
    <2>2. HandlerType(h)'
      BY <1>0, <2>1 DEF HandlerType
    <2> QED
      BY <1>0, <2>1, <2>2 DEF StepTyped
  <1> QED
    BY <1>1, <1>2 DEF StoreUser, StorePassword, ClearFlag

LEMMA EndsTyped ==
    ASSUME UserTypes, NEW h \in Handlers,
           DeleteUser(h) \/ AssignRole(h) \/ UndoCreate(h) \/ StoreError(h) \/ UndoFails(h)
    PROVE  StepTyped(h)
  <1>0. /\ Tables /\ Locals /\ HandlerType(h) /\ in[h] \in Input /\ Return(h) /\ used' = used
    BY DEF UserTypes, Locals, DeleteUser, AssignRole, UndoCreate, StoreError, UndoFails
  <1>1. Tables'
    <2>1. CASE DeleteUser(h) \/ UndoCreate(h)
      <3>1. users' = [users EXCEPT ![in[h].id] = Absent] /\ roles' = roles
        BY <2>1 DEF DeleteUser, UndoCreate
      <3> QED
        BY <1>0, <3>1 DEF Tables
    <2>2. CASE AssignRole(h)
      <3>1. roles' = [roles EXCEPT ![in[h].id] = in[h].role] /\ users' = users
            /\ in[h].role \in Roles
        BY <1>0, <2>2 DEF AssignRole, Input
      <3> QED
        BY <1>0, <3>1 DEF Tables
    <2>3. CASE StoreError(h) \/ UndoFails(h)
      BY <1>0, <2>3 DEF StoreError, UndoFails, Tables
    <2> QED
      BY <2>1, <2>2, <2>3
  <1> QED
    BY <1>0, <1>1, Returns DEF StepTyped

LEMMA AnyStepTyped ==
    ASSUME UserTypes, NEW h \in Handlers, Step(h) \/ UndoFails(h) PROVE StepTyped(h)
  BY BeginTyped, GateTyped, LoadUserTyped, LoadRoleTyped, GotoTyped, CreateTyped, SavesTyped,
     EndsTyped DEF Step

LEMMA RestartTyped ==
    ASSUME UserTypes, Restart
    PROVE  Tables' /\ Locals' /\ (\A h \in Handlers : HandlerType(h)') /\ stranded' \in BOOLEAN
  <1>0. Tables /\ stranded \in BOOLEAN
    BY DEF UserTypes
  <1>1. Locals' /\ \A h \in Handlers : HandlerType(h)'
    <2>1. /\ up' = [h \in Handlers |-> "idle"] /\ in' = [h \in Handlers |-> Idle]
          /\ row' = [h \in Handlers |-> Absent] /\ oldRole' = [h \in Handlers |-> ""]
      BY DEF Restart
    <2> QED
      BY <2>1, IdleTyped DEF Locals, HandlerType, Points
  <1>2. stranded' \in BOOLEAN
    BY <1>0 DEF Restart
  <1>3. CASE UNCHANGED <<users, roles, used>>
    BY <1>0, <1>1, <1>2, <1>3 DEF Tables
  <1>4. ASSUME NEW withRole \in BOOLEAN, DefaultUser(withRole) PROVE Tables'
    <2>1. PICK u \in UserIDs, role \in {"admin", ""} :
             /\ users' = [users EXCEPT ![u] = NewUser] /\ used' = used \cup {u}
             /\ roles' = [roles EXCEPT ![u] = role]
      BY <1>4 DEF DefaultUser
    <2>2. NewUser \in User
      BY DEF NewUser, User
    <2> QED
      BY <1>0, <2>1, <2>2 DEF Tables, Roles
  <1> QED
    BY <1>1, <1>2, <1>3, <1>4 DEF Restart

LEMMA UserTypesStep == UserTypes /\ [Next]_uvars => UserTypes'
  <1> SUFFICES ASSUME UserTypes, [Next]_uvars PROVE UserTypes'
    OBVIOUS
  <1>0. \A h \in Handlers : HandlerType(h)
    BY DEF UserTypes
  <1>1. CASE UNCHANGED uvars
    BY <1>1 DEF UserTypes, Tables, Locals, HandlerType, uvars
  <1>2. CASE Next
    <2>1. hadAdmin' \in BOOLEAN
      BY <1>2 DEF Next
    <2>2. ASSUME NEW h \in Handlers, Step(h) \/ UndoFails(h), stranded' \in BOOLEAN
          PROVE  UserTypes'
      <3>1. Tables' /\ Locals' /\ HandlerType(h)' /\ Alone1(h) /\ used \subseteq used'
        BY <2>2, AnyStepTyped DEF StepTyped
      <3>2. \A g \in Handlers : HandlerType(g)'
        BY <1>0, <3>1, OthersTyped
      <3> QED
        BY <2>1, <2>2, <3>1, <3>2 DEF UserTypes
    <2>3. CASE Restart
      BY <2>1, <2>3, RestartTyped DEF UserTypes
    <2>4. stranded \in BOOLEAN
      BY DEF UserTypes
    <2> QED
      BY <1>2, <2>2, <2>3, <2>4 DEF Next
  <1> QED
    BY <1>1, <1>2

LEMMA UserTypesHold == Spec => []UserTypes
  BY UserInitTyped, UserTypesStep, PTL DEF Spec

\* Whatever requests overlap, fail or are cut off: the tables are tables, and a
\* request that stores has what it needs.
THEOREM UserTypeCorrect == Spec => []UTypeOK
  BY UserTypesHold, UserTypesOK, PTL

\* What Next adds to a step of a request.
History == hadAdmin' = (hadAdmin \/ ActiveAdmins' # {})

\* With one request at a time, the invariant is about that request.
LEMMA OneHandler ==
    ASSUME OneAtATime, NEW h \in Handlers, History, Unassigned', Current(h)', Setup',
           hadAdmin => ActiveAdmins' # {}
    PROVE  UserInv'
  <1>1. \A g \in Handlers : Current(g)'
    BY DEF OneAtATime
  <1>2. AdminRemains'
    BY DEF AdminRemains, History
  <1> QED
    BY <1>1, <1>2 DEF UserInv

LEMMA UserInitInv == Init => UserInv
  <1> SUFFICES ASSUME Init PROVE UserInv
    OBVIOUS
  <1>1. PICK S \in SUBSET UserIDs :
           /\ used = S
           /\ users = [v \in UserIDs |-> IF v \in S THEN NewUser ELSE Absent]
           /\ roles = [v \in UserIDs |-> IF v \in S THEN "admin" ELSE ""]
           /\ hadAdmin = (S # {})
    BY DEF Init
  <1>2. \A h \in Handlers : up[h] = "idle"
    BY DEF Init
  <1>3. Unassigned
    BY <1>1 DEF Unassigned
  <1>4. \A u \in S : u \in ActiveAdmins
    <2>1. NewUser # Absent /\ NewUser.active
      <3>1. NewUser \in User /\ NewUser.active
        BY DEF NewUser, User
      <3> QED
        BY <3>1, AbsentUserAssumption
    <2> QED
      BY <1>1, <2>1 DEF ActiveAdmins
  <1>5. AdminRemains
    BY <1>1, <1>4 DEF AdminRemains
  <1>6. Setup
    BY <1>1, <1>2 DEF Setup
  <1>7. \A h \in Handlers : Current(h)
    BY <1>2 DEF Current, HalfMade
  <1> QED
    BY <1>3, <1>5, <1>6, <1>7 DEF UserInv

\* A request ends and leaves the tables alone; the row it was making, if any,
\* counts as stranded.
LEMMA Quits ==
    ASSUME OneAtATime, UserTypes, UserInv, NEW h \in Handlers, Return(h), History,
           UNCHANGED <<users, roles, used>>,
           (stranded' = stranded /\ ~HalfMade(h)) \/ stranded' = TRUE
    PROVE  UserInv'
  <1>0. up'[h] = "idle" /\ Unassigned /\ Setup /\ AdminRemains
    BY Returns DEF UserTypes, UserInv
  <1>1. Unassigned' /\ Current(h)'
    BY <1>0 DEF Unassigned, Current, HalfMade
  <1>2. ActiveAdmins' = ActiveAdmins
    BY DEF ActiveAdmins
  <1>3. hadAdmin => ActiveAdmins' # {}
    BY <1>0, <1>2 DEF AdminRemains
  <1>4. Setup'
    <2> SUFFICES ASSUME ~hadAdmin, ~stranded', stranded' = stranded, ~HalfMade(h) PROVE Setup'
      BY DEF Setup, History
    <2>1. \A g \in Handlers : ~HalfMade(g) /\ up'[g] = "idle"
      BY <1>0 DEF OneAtATime
    <2> QED
      BY <1>0, <2>1 DEF Setup
  <1> QED
    BY <1>1, <1>3, <1>4, OneHandler

\* A request goes on and leaves the tables alone.
LEMMA Proceeds ==
    ASSUME OneAtATime, UserTypes, UserInv, NEW h \in Handlers, History,
           UNCHANGED <<users, roles, used, stranded>>, Current(h)',
           HalfMade(h) => HalfMade(h)' /\ in'[h].id = in[h].id,
           ~hadAdmin /\ ~stranded =>
               /\ in'[h].kind \in {"register", "password"}
               /\ up'[h] \in {"store", "assign"} /\ in'[h].kind = "register" =>
                     in'[h].role = "admin"
    PROVE  UserInv'
  <1>0. Unassigned /\ Setup /\ AdminRemains
    BY DEF UserInv
  <1>1. Unassigned'
    BY <1>0 DEF Unassigned
  <1>2. hadAdmin => ActiveAdmins' # {}
    BY <1>0 DEF AdminRemains, ActiveAdmins
  <1>3. Setup'
    <2> SUFFICES ASSUME ~hadAdmin, ~stranded PROVE Setup'
      BY DEF Setup, History
    <2>1. \A g \in Handlers : g = h
      BY DEF OneAtATime
    <2> QED
      BY <1>0, <2>1 DEF Setup
  <1> QED
    BY <1>1, <1>2, <1>3, OneHandler

\* While there is no administrator and no request is half way, there is no row.
LEMMA SetupEmpty ==
    ASSUME OneAtATime, UserInv, NEW h \in Handlers, ~HalfMade(h), ~hadAdmin, ~stranded
    PROVE  \A u \in UserIDs : users[u] = Absent
  BY DEF OneAtATime, UserInv, Setup

LEMMA BeginInv ==
    ASSUME OneAtATime, UserTypes, UserInv, NEW h \in Handlers, Begin(h), History,
           stranded' = stranded
    PROVE  UserInv'
  <1>1. PICK i \in Input :
           /\ i.kind \notin {"register", "password"} => hadAdmin
           /\ in' = [in EXCEPT ![h] = i]
           /\ up' = [up EXCEPT ![h] = IF i.kind = "create" THEN "store"
                                      ELSE IF i.kind = "register" THEN "gate" ELSE "load"]
    BY DEF Begin
  <1>2. up[h] = "idle" /\ UNCHANGED <<users, roles, used, row, oldRole>>
    BY DEF Begin
  <1>3. /\ in'[h] = i
        /\ up'[h] = IF i.kind = "create" THEN "store"
                    ELSE IF i.kind = "register" THEN "gate" ELSE "load"
    BY <1>1 DEF UserTypes, Locals
  <1>4. Current(h)'
    BY <1>3 DEF Current, Creates, HalfMade
  <1> QED
    BY <1>1, <1>2, <1>3, <1>4, Proceeds DEF HalfMade

LEMMA GateInv ==
    ASSUME OneAtATime, UserTypes, UserInv, NEW h \in Handlers, RegisterGate(h), History,
           stranded' = stranded
    PROVE  UserInv'
  <1>0. /\ Locals /\ HandlerType(h) /\ in[h] \in Input /\ up[h] = "gate"
        /\ UNCHANGED <<users, roles, used>> /\ in[h].kind = "register" /\ ~HalfMade(h)
    BY DEF UserTypes, Locals, RegisterGate, HandlerType, HalfMade
  <1>1. CASE Return(h)
    BY <1>0, <1>1, Quits
  <1>2. CASE ~Return(h)
    <2>1. PICK counted \in BOOLEAN, role \in Roles :
             /\ role = IF ~counted \/ (\A u \in UserIDs : users[u] = Absent)
                       THEN "admin" ELSE "operator"
             /\ in' = [in EXCEPT ![h] = With(h, in[h].id, role)]
             /\ up' = [up EXCEPT ![h] = "store"] /\ UNCHANGED <<row, oldRole>>
      BY <1>2 DEF RegisterGate, Roles
    <2>2. in'[h].kind = "register" /\ in'[h].role = role /\ up'[h] = "store"
      <3>1. With(h, in[h].id, role).kind = "register" /\ With(h, in[h].id, role).role = role
        BY <1>0, WithTyped DEF Input
      <3> QED
        BY <1>0, <2>1, <3>1 DEF Locals
    <2>3. ~hadAdmin /\ ~stranded => role = "admin"
      BY <1>0, <2>1, SetupEmpty
    <2>4. Current(h)'
      BY <2>2 DEF Current, Creates, HalfMade
    <2> QED
      BY <1>0, <2>2, <2>3, <2>4, Proceeds
  <1> QED
    BY <1>1, <1>2

LEMMA LoadUserInv ==
    ASSUME OneAtATime, UserTypes, UserInv, NEW h \in Handlers, LoadUser(h), History,
           stranded' = stranded
    PROVE  UserInv'
  <1>0. /\ Locals /\ HandlerType(h) /\ up[h] = "load" /\ UNCHANGED <<users, roles, used>>
        /\ ~HalfMade(h) /\ Setup
    BY DEF UserTypes, LoadUser, HalfMade, UserInv
  <1>1. CASE Return(h)
    BY <1>0, <1>1, Quits
  <1>2. CASE ~Return(h)
    <2>1. /\ users[in[h].id] # Absent /\ row' = [row EXCEPT ![h] = users[in[h].id]]
          /\ up' = [up EXCEPT ![h] = IF in[h].kind = "password" THEN "password" ELSE "role"]
          /\ UNCHANGED <<in, oldRole>>
      BY <1>2 DEF LoadUser
    <2>2. row'[h] = users[in[h].id] /\ up'[h] \in {"password", "role"}
      BY <1>0, <2>1 DEF Locals
    <2>3. Current(h)'
      BY <1>0, <2>1, <2>2 DEF Current, HalfMade
    <2>4. ~hadAdmin /\ ~stranded => in'[h].kind \in {"register", "password"}
      BY <1>0, <2>1 DEF Setup
    <2> QED
      BY <1>0, <2>2, <2>3, <2>4, Proceeds
  <1> QED
    BY <1>1, <1>2

LEMMA LoadRoleInv ==
    ASSUME OneAtATime, UserTypes, UserInv, NEW h \in Handlers, LoadRole(h), History,
           stranded' = stranded
    PROVE  UserInv'
  <1>0. /\ Locals /\ HandlerType(h) /\ up[h] = "role" /\ UNCHANGED <<users, roles, used>>
        /\ ~HalfMade(h) /\ Setup /\ Current(h)
    BY DEF UserTypes, LoadRole, HalfMade, UserInv
  <1>1. CASE Return(h)
    BY <1>0, <1>1, Quits
  <1>2. CASE ~Return(h)
    <2> DEFINE guarded(r) ==
            /\ r = "admin"
            /\ \/ in[h].kind = "delete"
               \/ in[h].kind = "update" /\ (LosingAdmin(h, r) \/ Deactivating(h))
    <2>1. PICK r \in {roles[in[h].id]} \cup {""} :
             /\ r # "" /\ oldRole' = [oldRole EXCEPT ![h] = r]
             /\ up' = [up EXCEPT ![h] = IF guarded(r) THEN "count" ELSE "store"]
             /\ UNCHANGED <<in, row>>
      BY <1>2 DEF LoadRole
    <2>2. /\ r = roles[in[h].id] /\ oldRole'[h] = r
          /\ up'[h] = IF guarded(r) THEN "count" ELSE "store"
      BY <1>0, <2>1 DEF Locals
    <2>3. users[in[h].id] # Absent /\ row[h] = users[in[h].id] /\ ~Creates(in[h].kind)
      BY <1>0 DEF Current, HandlerType
    <2>4. Current(h)'
      <3>1. CASE guarded(r)
        BY <1>0, <2>1, <2>2, <2>3, <3>1 DEF Current, HalfMade
      <3>2. CASE ~guarded(r)
        <4>1. up'[h] = "store" /\ oldRole'[h] = r /\ UNCHANGED <<in, row>>
          BY <2>1, <2>2, <3>2
        <4>2. in[h].kind = "delete" => r # "admin"
          BY <3>2
        <4>3. in[h].kind = "update" =>
                 ~LosingAdmin(h, oldRole[h])' /\ ~(oldRole'[h] = "admin" /\ Deactivating(h)')
          BY <3>2, <4>1 DEF LosingAdmin, Deactivating
        <4> QED
          BY <1>0, <2>2, <2>3, <4>1, <4>2, <4>3 DEF Current, HalfMade
      <3> QED
        BY <3>1, <3>2
    <2>5. ~hadAdmin /\ ~stranded => in'[h].kind = "password"
      BY <1>0, <2>1, <2>3 DEF Setup, Creates
    <2> QED
      BY <1>0, <2>4, <2>5, Proceeds
  <1> QED
    BY <1>1, <1>2

\* Two administrators are enough to spare one.
LEMMA TwoSpareOne ==
    ASSUME NEW S \in SUBSET UserIDs, ~LastAdmin(Cardinality(S)), NEW u PROVE \E v \in S : v # u
  <1> SUFFICES ASSUME \A v \in S : v = u PROVE FALSE
    OBVIOUS
  <1>1. S \subseteq {u}
    OBVIOUS
  <1>2. IsFiniteSet({u}) /\ Cardinality({u}) = 1
    BY FS_Singleton
  <1>3. Cardinality(S) <= 1 /\ Cardinality(S) \in Nat
    BY <1>1, <1>2, FS_Subset, FS_CardinalityType
  <1> QED
    BY <1>3 DEF LastAdmin

LEMMA CountInv ==
    ASSUME OneAtATime, UserTypes, UserInv, NEW h \in Handlers, CountAdmins(h), History,
           stranded' = stranded
    PROVE  UserInv'
  <1>0. /\ Locals /\ HandlerType(h) /\ up[h] = "count" /\ UNCHANGED <<users, roles, used>>
        /\ ~HalfMade(h) /\ Setup /\ Current(h)
    BY DEF UserTypes, CountAdmins, HalfMade, UserInv
  <1>1. CASE Return(h)
    BY <1>0, <1>1, Quits
  <1>2. CASE ~Return(h)
    <2>1. PICK S \in SUBSET ActiveAdmins : ~LastAdmin(Cardinality(S)) /\ Goto(h, "store")
      BY <1>2 DEF CountAdmins
    <2>2. Spare(h)
      <3>1. S \in SUBSET UserIDs
        BY DEF ActiveAdmins
      <3> QED
        BY <2>1, <3>1, TwoSpareOne DEF Spare
    <2>3. up'[h] = "store" /\ UNCHANGED <<in, row, oldRole>>
      BY <1>0, <2>1, Goes DEF Points
    <2>4. Spare(h)'
      BY <1>0, <2>2, <2>3 DEF Spare, ActiveAdmins
    <2>5. Current(h)'
      BY <1>0, <2>3, <2>4 DEF Current, HalfMade, Creates
    <2>6. hadAdmin \/ stranded
      BY <1>0 DEF Setup, Current
    <2> QED
      BY <1>0, <2>5, <2>6, Proceeds
  <1> QED
    BY <1>1, <1>2

LEMMA ChangeHashInv ==
    ASSUME OneAtATime, UserTypes, UserInv, NEW h \in Handlers, ChangeHash(h), History,
           stranded' = stranded
    PROVE  UserInv'
  <1>0. /\ Locals /\ HandlerType(h) /\ up[h] = "password" /\ UNCHANGED <<users, roles, used>>
        /\ ~HalfMade(h) /\ Current(h) /\ Goto(h, "store") /\ in[h].kind = "password"
    BY DEF UserTypes, ChangeHash, HalfMade, UserInv, HandlerType
  <1>1. up'[h] = "store" /\ UNCHANGED <<in, row, oldRole>>
    BY <1>0, Goes DEF Points
  <1>2. Current(h)'
    BY <1>0, <1>1 DEF Current, HalfMade
  <1> QED
    BY <1>0, <1>1, <1>2, Proceeds

LEMMA AssignFailsInv ==
    ASSUME OneAtATime, UserTypes, UserInv, NEW h \in Handlers, AssignFails(h), History,
           stranded' = stranded
    PROVE  UserInv'
  <1>0. /\ Locals /\ up[h] = "assign" /\ UNCHANGED <<users, roles, used>> /\ Current(h) /\ Setup
    BY DEF UserTypes, AssignFails, UserInv
  <1>1. CASE ~Creates(in[h].kind)
    BY <1>0, <1>1, Quits DEF AssignFails, Undoes, HalfMade
  <1>2. CASE Creates(in[h].kind)
    <2>1. up'[h] = "undo" /\ UNCHANGED <<in, row, oldRole>>
      BY <1>0, <1>2, Goes DEF AssignFails, Undoes, Points
    <2>2. Current(h)' /\ HalfMade(h)'
      BY <1>0, <1>2, <2>1 DEF Current, HalfMade
    <2>3. ~hadAdmin /\ ~stranded => in'[h].kind \in {"register", "password"}
      BY <1>0, <2>1 DEF Setup
    <2> QED
      BY <1>0, <2>1, <2>2, <2>3, Proceeds
  <1> QED
    BY <1>1, <1>2

LEMMA CreateInv ==
    ASSUME OneAtATime, UserTypes, UserInv, NEW h \in Handlers, CreateUser(h), History,
           stranded' = stranded
    PROVE  UserInv'
  <1>0. /\ Tables /\ Locals /\ in[h] \in Input /\ up[h] = "store" /\ Creates(in[h].kind)
        /\ ~HalfMade(h) /\ roles' = roles /\ Unassigned /\ AdminRemains /\ Setup
    BY DEF UserTypes, Locals, CreateUser, HalfMade, UserInv
  <1>1. CASE UNCHANGED <<users, used>> /\ Return(h)
    BY <1>0, <1>1, Quits
  <1>2. CASE ~(UNCHANGED <<users, used>> /\ Return(h))
    <2>1. PICK u \in UserIDs \ used :
             /\ users' = [users EXCEPT ![u] = [active |-> TRUE, mustChange |-> in[h].mustChange]]
             /\ used' = used \cup {u} /\ in' = [in EXCEPT ![h] = With(h, u, in[h].role)]
             /\ up' = [up EXCEPT ![h] = "assign"] /\ UNCHANGED <<row, oldRole>>
      BY <1>2 DEF CreateUser
    <2>2. /\ in'[h].kind = in[h].kind /\ in'[h].id = u /\ in'[h].role = in[h].role
          /\ up'[h] = "assign"
      <3>1. /\ With(h, u, in[h].role).kind = in[h].kind /\ With(h, u, in[h].role).id = u
            /\ With(h, u, in[h].role).role = in[h].role
        BY <1>0, WithTyped DEF Input
      <3> QED
        BY <1>0, <2>1, <3>1 DEF Locals
    <2>3. /\ users'[u] # Absent /\ users'[u].active
          /\ \A v \in UserIDs \ {u} : users'[v] = users[v]
      <3>1. [active |-> TRUE, mustChange |-> in[h].mustChange] \in User
        BY <1>0 DEF User, Input
      <3> QED
        BY <1>0, <2>1, <3>1, AbsentUserAssumption DEF Tables
    <2>4. roles[u] = ""
      BY <1>0, <2>1 DEF Unassigned
    <2>5. hadAdmin => ActiveAdmins' # {}
      <3>1. \A v \in ActiveAdmins : v \in ActiveAdmins'
        BY <1>0, <2>3, <2>4 DEF ActiveAdmins
      <3> QED
        BY <1>0, <3>1 DEF AdminRemains
    <2>6. Unassigned'
      BY <1>0, <2>1 DEF Unassigned
    <2>7. HalfMade(h)'
      BY <1>0, <2>2 DEF HalfMade
    <2>8. Current(h)'
      BY <1>0, <2>2, <2>3, <2>4, <2>7 DEF Current
    <2>9. Setup'
      <3> SUFFICES ASSUME ~hadAdmin, ~stranded PROVE Setup'
        BY DEF Setup, History
      <3>1. in'[h].kind = "register" /\ in'[h].role = "admin"
        BY <1>0, <2>2 DEF Setup, Creates
      <3>2. \A v \in UserIDs : users'[v] # Absent => HalfMade(h)' /\ in'[h].id = v
        BY <1>0, <2>2, <2>3, <2>7, SetupEmpty
      <3> QED
        BY <3>1, <3>2 DEF Setup, OneAtATime
    <2> QED
      BY <2>5, <2>6, <2>8, <2>9, OneHandler
  <1> QED
    BY <1>1, <1>2

\* A row that is saved is an administrator's that stays one, or another is left.
LEMMA SavesLeaveAdmin ==
    ASSUME UserTypes, UserInv, NEW h \in Handlers,
           StoreUser(h) \/ StorePassword(h) \/ ClearFlag(h)
    PROVE  /\ hadAdmin => ActiveAdmins' # {}
           /\ LosingAdmin(h, oldRole[h]) /\ in[h].kind = "update" =>
                 \E v \in ActiveAdmins' : v # in[h].id
           /\ \A v \in UserIDs : users'[v] = Absent <=> users[v] = Absent
  <1>0. /\ Tables /\ in[h].kind \in {"update", "reset", "password"} /\ up[h] = "store"
        /\ in[h].id \in UserIDs /\ roles' = roles
        /\ \A v \in UserIDs \ {in[h].id} : users'[v] = users[v]
        /\ \/ users'[in[h].id] = (IF users[in[h].id] = Absent THEN Absent ELSE Saved(h))
           \/ in[h].kind = "password" /\ users'[in[h].id] = users[in[h].id]
    BY Saves DEF UserTypes
  <1>1. /\ users[in[h].id] # Absent /\ row[h] = users[in[h].id] /\ Current(h) /\ AdminRemains
        /\ row[h] \in User /\ in[h] \in Input
    <2>1. Current(h) /\ HandlerType(h) /\ AdminRemains /\ in[h] \in Input
      BY DEF UserInv, UserTypes, Locals
    <2> QED
      BY <1>0, <2>1 DEF Current, HandlerType, Creates
  <1>2. users'[in[h].id] # Absent
    <2>1. Saved(h) \in User
      BY <1>1 DEF Saved, User, Input
    <2> QED
      BY <1>0, <1>1, <2>1, AbsentUserAssumption
  <1>3. in[h].kind # "update" => users'[in[h].id].active = users[in[h].id].active
    BY <1>0, <1>1 DEF Saved
  <1>4. in[h].kind = "update" => users'[in[h].id].active = in[h].active
    BY <1>0, <1>1 DEF Saved
  <1>5. \A v \in ActiveAdmins : v # in[h].id => v \in ActiveAdmins'
    BY <1>0 DEF ActiveAdmins
  <1>6. LosingAdmin(h, oldRole[h]) /\ in[h].kind = "update" => Spare(h)
    BY <1>0, <1>1 DEF Current
  <1>7. ASSUME hadAdmin PROVE ActiveAdmins' # {}
    <2>1. PICK v \in ActiveAdmins : TRUE
      BY <1>1, <1>7 DEF AdminRemains
    <2>2. CASE v # in[h].id \/ Spare(h)
      BY <1>5, <2>1, <2>2 DEF Spare
    <2>3. CASE v = in[h].id /\ ~Spare(h)
      <3>1. roles[in[h].id] = "admin" /\ row[h].active
        BY <1>1, <2>1, <2>3 DEF ActiveAdmins
      <3>2. in[h].kind = "update" => in[h].active
        BY <1>0, <1>1, <2>3, <3>1 DEF Current, Deactivating
      <3>3. users'[in[h].id].active
        BY <1>1, <1>3, <1>4, <3>1, <3>2
      <3> QED
        BY <1>0, <1>2, <3>1, <3>3 DEF ActiveAdmins
    <2> QED
      BY <2>2, <2>3
  <1> QED
    BY <1>0, <1>1, <1>2, <1>5, <1>6, <1>7 DEF Spare

LEMMA SavesInv ==
    ASSUME OneAtATime, UserTypes, UserInv, NEW h \in Handlers, History, stranded' = stranded,
           StoreUser(h) \/ StorePassword(h) \/ ClearFlag(h)
    PROVE  UserInv'
  <1>0. /\ Locals /\ in[h].kind \in {"update", "reset", "password"} /\ up[h] = "store"
        /\ UNCHANGED <<roles, used>> /\ Unassigned /\ Setup /\ ~HalfMade(h) /\ Current(h)
    BY Saves DEF UserTypes, UserInv, HalfMade
  <1>1. Unassigned'
    BY <1>0 DEF Unassigned
  <1>2. Setup' \/ hadAdmin \/ stranded
    <2> SUFFICES ASSUME ~hadAdmin, ~stranded PROVE Setup'
      OBVIOUS
    <2>1. \A u \in UserIDs : users'[u] = Absent
      BY <1>0, SetupEmpty, SavesLeaveAdmin
    <2>2. in[h].kind = "password"
      BY <1>0 DEF Setup
    <2>3. up'[h] = "idle"
      BY <1>0, <2>2, Returns DEF StoreUser, StorePassword, ClearFlag
    <2> QED
      BY <2>1, <2>3 DEF Setup, OneAtATime
  <1>3. Setup'
    BY <1>2 DEF Setup, History
  <1>4. Current(h)'
    <2>1. CASE Return(h)
      BY <1>0, <2>1, Returns DEF Current, HalfMade
    <2>2. CASE ~Return(h)
      <3>1. Goto(h, "assign") /\ in[h].kind = "update" /\ in[h].role # oldRole[h]
        BY <2>2 DEF StoreUser, StorePassword, ClearFlag
      <3>2. up'[h] = "assign" /\ UNCHANGED <<in, row, oldRole>>
        BY <1>0, <3>1, Goes DEF Points
      <3>3. oldRole[h] = roles[in[h].id]
        BY <1>0, <3>1 DEF Current
      <3>4. roles'[in'[h].id] = "admin" /\ in'[h].role # "admin" => Spare(h)'
        BY <1>0, <3>1, <3>2, <3>3, SavesLeaveAdmin DEF LosingAdmin, Spare
      <3>5. ~HalfMade(h)'
        BY <3>1, <3>2 DEF HalfMade, Creates
      <3> QED
        BY <3>2, <3>4, <3>5 DEF Current
    <2> QED
      BY <2>1, <2>2
  <1> QED
    BY <1>1, <1>3, <1>4, SavesLeaveAdmin, OneHandler

LEMMA DeleteInv ==
    ASSUME OneAtATime, UserTypes, UserInv, NEW h \in Handlers, History, stranded' = stranded,
           DeleteUser(h) \/ UndoCreate(h)
    PROVE  UserInv'
  <1>0. /\ Tables /\ Locals /\ HandlerType(h) /\ Unassigned /\ Setup /\ Current(h) /\ AdminRemains
    BY DEF UserTypes, UserInv
  <1>1. /\ users' = [users EXCEPT ![in[h].id] = Absent] /\ UNCHANGED <<roles, used>> /\ Return(h)
        /\ (up[h] = "store" /\ in[h].kind = "delete") \/ up[h] = "undo"
    BY DEF DeleteUser, UndoCreate
  <1>2. in[h].id \in UserIDs /\ up'[h] = "idle"
    BY <1>0, <1>1, Returns DEF HandlerType, Tables, Creates
  <1>3. /\ users'[in[h].id] = Absent
        /\ \A v \in UserIDs \ {in[h].id} : users'[v] = users[v]
    BY <1>0, <1>1, <1>2 DEF Tables
  <1>4. roles[in[h].id] = "admin" => Spare(h)
    BY <1>0, <1>1 DEF Current, HandlerType, HalfMade
  <1>5. hadAdmin => ActiveAdmins' # {}
    <2>1. \A v \in ActiveAdmins : v # in[h].id => v \in ActiveAdmins'
      BY <1>1, <1>3 DEF ActiveAdmins
    <2>2. ActiveAdmins # {} => \E v \in ActiveAdmins : v # in[h].id
      BY <1>4 DEF Spare, ActiveAdmins
    <2> QED
      BY <1>0, <2>1, <2>2 DEF AdminRemains
  <1>6. Unassigned' /\ Current(h)'
    BY <1>0, <1>1, <1>2 DEF Unassigned, Current, HalfMade
  <1>7. Setup'
    <2> SUFFICES ASSUME ~hadAdmin, ~stranded PROVE Setup'
      BY DEF Setup, History
    <2>1. \A u \in UserIDs : users'[u] = Absent
      BY <1>0, <1>3 DEF Setup, OneAtATime
    <2> QED
      BY <1>2, <2>1 DEF Setup, OneAtATime
  <1> QED
    BY <1>5, <1>6, <1>7, OneHandler

LEMMA AssignInv ==
    ASSUME OneAtATime, UserTypes, UserInv, NEW h \in Handlers, History, stranded' = stranded,
           AssignRole(h)
    PROVE  UserInv'
  <1>0. /\ Tables /\ Locals /\ HandlerType(h) /\ Unassigned /\ Setup /\ Current(h) /\ AdminRemains
    BY DEF UserTypes, UserInv
  <1>1. /\ roles' = [roles EXCEPT ![in[h].id] = in[h].role] /\ UNCHANGED <<users, used>>
        /\ Return(h) /\ up[h] = "assign"
    BY DEF AssignRole
  <1>2. in[h].id \in UserIDs /\ in[h].id \in used /\ up'[h] = "idle"
    BY <1>0, <1>1, Returns DEF HandlerType, Tables
  <1>3. /\ roles'[in[h].id] = in[h].role
        /\ \A v \in UserIDs \ {in[h].id} : roles'[v] = roles[v]
    BY <1>0, <1>1, <1>2 DEF Tables
  <1>4. roles[in[h].id] = "admin" /\ in[h].role # "admin" => Spare(h)
    BY <1>0, <1>1 DEF Current
  <1>5. hadAdmin => ActiveAdmins' # {}
    <2>1. \A v \in ActiveAdmins : v # in[h].id \/ in[h].role = "admin" => v \in ActiveAdmins'
      BY <1>1, <1>3 DEF ActiveAdmins
    <2>2. ActiveAdmins # {} => \E v \in ActiveAdmins : v # in[h].id \/ in[h].role = "admin"
      BY <1>4 DEF Spare, ActiveAdmins
    <2> QED
      BY <1>0, <2>1, <2>2 DEF AdminRemains
  <1>6. Unassigned' /\ Current(h)'
    BY <1>0, <1>1, <1>2, <1>3 DEF Unassigned, Current, HalfMade
  <1>7. Setup'
    <2> SUFFICES ASSUME ~hadAdmin, ~stranded, ActiveAdmins' = {} PROVE Setup'
      BY DEF Setup, History
    <2>1. ~HalfMade(h)
      <3> SUFFICES ASSUME HalfMade(h) PROVE FALSE
        OBVIOUS
      <3>1. in[h].role = "admin" /\ users[in[h].id] # Absent /\ users[in[h].id].active
        BY <1>0, <1>1 DEF Setup, HalfMade, Creates, Current
      <3> QED
        BY <1>1, <1>2, <1>3, <3>1 DEF ActiveAdmins
    <2>2. \A u \in UserIDs : users'[u] = Absent
      BY <1>1, <2>1, SetupEmpty
    <2> QED
      BY <1>2, <2>2 DEF Setup, OneAtATime
  <1> QED
    BY <1>5, <1>6, <1>7, OneHandler

\* A start does not lose what was stored, and leaves no request.
LEMMA RestartInv ==
    ASSUME UserTypes, UserInv, Restart, History PROVE UserInv'
  <1>0. Tables /\ Unassigned /\ Setup /\ AdminRemains
    BY DEF UserTypes, UserInv
  <1>1. \A h \in Handlers : up'[h] = "idle"
    BY DEF Restart
  <1>2. \A h \in Handlers : Current(h)'
    BY <1>1 DEF Current, HalfMade
  <1>3. CASE /\ UNCHANGED <<users, roles, used>>
             /\ stranded' = (stranded \/ \E h \in Handlers : HalfMade(h))
    <2>1. Unassigned' /\ ActiveAdmins' = ActiveAdmins
      BY <1>0, <1>3 DEF Unassigned, ActiveAdmins
    <2>2. AdminRemains'
      BY <1>0, <2>1 DEF AdminRemains, History
    <2>3. Setup'
      <3> SUFFICES ASSUME ~hadAdmin, ~stranded, \A h \in Handlers : ~HalfMade(h) PROVE Setup'
        BY <1>3 DEF Setup, History
      <3>1. \A u \in UserIDs : users'[u] = Absent
        BY <1>0, <1>3 DEF Setup
      <3> QED
        BY <1>1, <3>1 DEF Setup
    <2> QED
      BY <1>2, <2>1, <2>2, <2>3 DEF UserInv
  <1>4. ASSUME NEW withRole \in BOOLEAN, DefaultUser(withRole),
               stranded' = (stranded \/ ~withRole)
        PROVE  UserInv'
    <2>1. PICK u \in UserIDs \ used :
             /\ users' = [users EXCEPT ![u] = NewUser] /\ used' = used \cup {u}
             /\ roles' = [roles EXCEPT ![u] = IF withRole THEN "admin" ELSE ""]
      BY <1>4 DEF DefaultUser
    <2>2. ~hadAdmin
      BY <1>0, <1>4 DEF DefaultUser, AdminRemains, ActiveAdmins
    <2>3. Unassigned'
      BY <1>0, <2>1 DEF Unassigned, Tables
    <2>4. AdminRemains'
      BY <2>2 DEF AdminRemains, History
    <2>5. Setup'
      <3>1. CASE withRole
        <4>1. NewUser \in User /\ NewUser.active
          BY DEF NewUser, User
        <4>2. users'[u] = NewUser /\ roles'[u] = "admin" /\ NewUser # Absent
          BY <1>0, <2>1, <3>1, <4>1, AbsentUserAssumption DEF Tables
        <4>3. u \in ActiveAdmins'
          BY <4>1, <4>2 DEF ActiveAdmins
        <4> QED
          BY <4>3 DEF Setup, History
      <3>2. CASE ~withRole
        BY <1>4, <3>2 DEF Setup
      <3> QED
        BY <3>1, <3>2
    <2> QED
      BY <1>2, <2>3, <2>4, <2>5 DEF UserInv
  <1> QED
    BY <1>3, <1>4 DEF Restart

LEMMA UserStepInv ==
    ASSUME OneAtATime PROVE UserTypes /\ UserInv /\ [Next]_uvars => UserInv'
  <1> SUFFICES ASSUME UserTypes, UserInv, [Next]_uvars PROVE UserInv'
    OBVIOUS
  <1>1. CASE UNCHANGED uvars
    <2>1. UNCHANGED <<users, roles, used, up, in, row, oldRole, hadAdmin, stranded>>
      BY <1>1 DEF uvars
    <2>2. Unassigned' /\ AdminRemains'
      BY <2>1 DEF UserInv, Unassigned, AdminRemains, ActiveAdmins
    <2>3. Setup'
      BY <2>1 DEF UserInv, Setup, HalfMade
    <2>4. ASSUME NEW h \in Handlers PROVE Current(h)'
      <3>1. Current(h)
        BY DEF UserInv
      <3>2. /\ Spare(h)' = Spare(h) /\ HalfMade(h)' = HalfMade(h)
            /\ Deactivating(h)' = Deactivating(h)
            /\ LosingAdmin(h, oldRole[h])' = LosingAdmin(h, oldRole[h])
        BY <2>1 DEF Spare, ActiveAdmins, HalfMade, Deactivating, LosingAdmin
      <3> QED
        BY <2>1, <3>1, <3>2 DEF Current
    <2> QED
      BY <2>2, <2>3, <2>4 DEF UserInv
  <1>2. ASSUME NEW h \in Handlers, Step(h), stranded' = stranded, History PROVE UserInv'
    <2>1. CASE StoreError(h)
      BY <1>2, <2>1, Quits DEF StoreError, HalfMade
    <2> QED
      BY <1>2, <2>1, BeginInv, GateInv, LoadUserInv, LoadRoleInv, CountInv, ChangeHashInv,
         AssignFailsInv, CreateInv, SavesInv, DeleteInv, AssignInv DEF Step
  <1>3. ASSUME NEW h \in Handlers, UndoFails(h), stranded' = TRUE, History PROVE UserInv'
    BY <1>3, Quits DEF UndoFails
  <1> QED
    BY <1>1, <1>2, <1>3, RestartInv DEF Next, History

LEMMA UserInductive == ASSUME OneAtATime PROVE Spec => []UserInv
  <1>1. UserTypes /\ UserInv /\ [Next]_uvars => UserInv'
    BY UserStepInv
  <1> QED
    BY <1>1, UserInitInv, UserTypesHold, PTL DEF Spec

\* Requests that come one at a time never take the last administrator away,
\* whichever accesses fail and whenever the backend stops.
THEOREM AdminRemainsHolds == ASSUME OneAtATime PROVE Spec => []AdminRemains
  <1>1. UserInv => AdminRemains
    BY DEF UserInv
  <1> QED
    BY <1>1, UserInductive, PTL

\* ... and leave the way in open until the first of them has become one.
THEOREM SetupStaysOpenHolds == ASSUME OneAtATime PROVE Spec => []SetupStaysOpen
  <1>1. UserInv => SetupStaysOpen
    BY DEF UserInv, Setup, SetupStaysOpen, HalfMade
  <1> QED
    BY <1>1, UserInductive, PTL
=============================================================================
