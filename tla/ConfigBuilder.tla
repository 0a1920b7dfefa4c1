--------------------------- MODULE ConfigBuilder ---------------------------
(***************************************************************************)
(* The configuration a sync builds: backend/internal/caddy/config          *)
(* (builder.go, http_builder.go, acl_builder.go, security.go,              *)
(* tls_builder.go, layer4_builder.go with their matchers and handlers),    *)
(* called by buildConfigBytes of sync_service.go.  Caddy's own reading of  *)
(* the routes is external: matching routes in order up to a terminal one,  *)
(* their handlers in order until one answers.                              *)
(*                                                                         *)
(* Hostnames are unique (ProxyService), so a proxy is named by its host.   *)
(* A matcher is the set it accepts: a missing matcher is the whole set, a  *)
(* path pattern the paths it covers, a `not` matcher the complement.  A    *)
(* handler is named by what it does; how it is written down as JSON,       *)
(* headers, load balancing and transports are left out.                    *)
(***************************************************************************)
EXTENDS Naturals, Sequences, SequencesExt, FiniteSets

CONSTANTS
    Hosts,          \* hostnames, of proxies or not
    ProxyHosts,     \* hosts of the proxies
    GroupIds,       \* ACL groups
    Paths, Assets,  \* request paths; those StaticAssetPaths and extensions cover
    Ips,            \* client addresses
    L4Ports,        \* endpoints of layer-4 proxies
    ProxyRows, GroupRows, AssignSets, L4Tables, SettingRows,   \* bound: what edits may store
    RequestKinds,   \* bound: basic, verify and exploit of the requests tried
    Unbuilt         \* no configuration yet

Group == [mode : {"any", "all"},    \* ip_bypass is built like any
          bypass : SUBSET Ips, allow : SUBSET Ips, deny : SUBSET Ips,
          basic : BOOLEAN,          \* has basic auth users
          waygates : BOOLEAN,       \* Waygates auth enabled, or OAuth providers allowed
          external : BOOLEAN]       \* has external providers
ProxyRow == [type : {"reverse_proxy", "redirect", "static"}, active : BOOLEAN, ssl : BOOLEAN,
             complete : BOOLEAN,    \* upstreams, or the redirect or static config, can be parsed
             tryFiles : BOOLEAN, blockExploits : BOOLEAN]
Assignment == [host : ProxyHosts, group : GroupIds, priority : Nat, paths : SUBSET Paths,
               enabled : BOOLEAN]
L4RouteRow == [priority : Nat, matcher : {"any", "tls", "ssh", "remote_ip"}, sni : SUBSET Hosts,
               ips : SUBSET Ips, terminate : BOOLEAN, upstreams : BOOLEAN]
Settings == [redirect : BOOLEAN,            \* 404 mode redirect, with a URL
             verifyURL : BOOLEAN, loginURL : BOOLEAN,   \* they are set
             acme : {"off", "http", "dns"}, credentials : BOOLEAN,
             publish : BOOLEAN, account : BOOLEAN, metricsHost : Hosts,
             metricsPath : Paths, cidrs : SUBSET Ips]

L4ProxyRow == [active : BOOLEAN, routes : SUBSET L4RouteRow]

ASSUME ConfigAssumption ==
    /\ ProxyHosts \subseteq Hosts /\ Assets \subseteq Paths /\ IsFiniteSet(Hosts)
    /\ RequestKinds \subseteq [basic : BOOLEAN, verify : {200, 401, 403, 500}, exploit : BOOLEAN]
    /\ ProxyRows \subseteq ProxyRow /\ GroupRows \subseteq Group /\ SettingRows \subseteq Settings
    /\ \A set \in AssignSets :
          /\ set \subseteq Assignment /\ IsFiniteSet(set)
          /\ \A a, b \in set : (a.host = b.host /\ a.priority = b.priority) => a = b
    /\ L4Tables \subseteq [L4Ports -> L4ProxyRow]
    /\ \A table \in L4Tables : \A port \in L4Ports :
          /\ IsFiniteSet(table[port].routes)
          /\ \A a, b \in table[port].routes : a.priority = b.priority => a = b

VARIABLES
    rows, groups, assigns, l4table, settings,   \* the database and the environment
    config          \* what a sync built from them, Unbuilt since the last edit

configVars == <<rows, groups, assigns, l4table, settings, config>>
-----------------------------------------------------------------------------
\* HTTPRoute: a terminal route of one host without further matchers.
HostRoute(host, handle) ==
    [hosts |-> {host}, paths |-> Paths, ips |-> Ips, exploit |-> FALSE,
     handle |-> handle, terminal |-> TRUE]
When(condition, route) == IF condition THEN <<route>> ELSE <<>>

\* Handlers, by what they do: to the upstreams (buildReverseProxyHandler), to an
\* external provider, basic authentication.
Upstream == "upstream"
ExternalProvider == "external"
BasicAuth == "basic"

\* buildWaygatesForwardAuthHandler: a missing verify URL answers 503 to everyone,
\* a missing login URL to those who would have to log in.
WaygatesForwardAuth(s) ==
    IF ~s.verifyURL THEN "unavailable" ELSE IF s.loginURL THEN "forward" ELSE "forwardOnly"

\* buildForwardAuthHandler: the first external provider before Waygates.
ForwardAuth(g, s) == IF g.external THEN ExternalProvider ELSE WaygatesForwardAuth(s)

HasSecureAuth(g) == g.waygates \/ g.external
HasMethods(g) == g.bypass \cup g.allow \cup g.deny # {} \/ g.basic \/ HasSecureAuth(g)
AuthHandlers(g, s) ==
    IF HasSecureAuth(g) THEN <<ForwardAuth(g, s)>> ELSE IF g.basic THEN <<BasicAuth>> ELSE <<>>
Granted(g) == g.bypass \cup g.allow

\* The routes the modes are put together from.
IPDenyRoute(h, paths, ips) == [HostRoute(h, <<"denied">>) EXCEPT !.paths = paths, !.ips = ips]
IPPassRoute(h, paths, ips) == [HostRoute(h, <<Upstream>>) EXCEPT !.paths = paths, !.ips = ips]
\* StaticAssetPaths and StaticAssetExtensions.
AssetMatcher == Assets
\* Mutant of AssetsRoute: no host matcher.
AssetsRouteAnywhere(h) == [HostRoute(h, <<Upstream>>) EXCEPT !.paths = AssetMatcher, !.hosts = Hosts]
AssetsRoute(h) == [HostRoute(h, <<Upstream>>) EXCEPT !.paths = AssetMatcher]
\* buildAuthRoute; buildAuthRouteWithIPRestriction.
AuthRoute(h, paths, g, s) ==
    [HostRoute(h, AuthHandlers(g, s) \o <<Upstream>>) EXCEPT !.paths = paths, !.ips = Ips \ Granted(g)]
AuthRouteRestricted(h, paths, g, s) ==
    [HostRoute(h, AuthHandlers(g, s) \o <<Upstream>>) EXCEPT
        !.paths = paths, !.ips = IF Granted(g) = {} THEN Ips ELSE Granted(g)]

\* Mutant of AnyModeRoutes: the bypass before the deny rules.
AnyModeRoutesBypassFirst(h, paths, g, s) ==
    When(g.bypass # {}, IPPassRoute(h, paths, g.bypass))
        \o When(g.deny # {}, IPDenyRoute(h, paths, g.deny))
        \o When(g.allow # {}, IPPassRoute(h, paths, g.allow))
        \o <<AssetsRoute(h), AuthRoute(h, paths, g, s)>>

\* buildAnyModeRoutes, also for ip_bypass.
AnyModeRoutes(h, paths, g, s) ==
    When(g.deny # {}, IPDenyRoute(h, paths, g.deny))
        \o When(g.bypass # {}, IPPassRoute(h, paths, g.bypass))
        \o When(g.allow # {}, IPPassRoute(h, paths, g.allow))
        \o <<AssetsRoute(h), AuthRoute(h, paths, g, s)>>

\* buildAllModeRoutes.
AllModeRoutes(h, paths, g, s) ==
    When(g.deny # {}, IPDenyRoute(h, paths, g.deny))
        \o When(Granted(g) # {}, IPDenyRoute(h, paths, Ips \ Granted(g)))
        \o <<AssetsRoute(h), AuthRouteRestricted(h, paths, g, s)>>

\* BuildACLRoutes.
ACLRoutes(h, paths, g, s) ==
    IF ~HasMethods(g) THEN <<>>
    ELSE IF g.mode = "all" THEN AllModeRoutes(h, paths, g, s)
    ELSE AnyModeRoutes(h, paths, g, s)
-----------------------------------------------------------------------------
\* SetACLAssignments drops the disabled ones; the lower number comes first.
ByPriority(set) ==
    [i \in 1 .. Cardinality(set) |->
        CHOOSE a \in set : Cardinality({b \in set : b.priority < a.priority}) = i - 1]
Enabled(set, h) == {a \in set : a.host = h /\ a.enabled}

\* BuildReverseProxyRoutes, BuildReverseProxyRoutesWithACL: the routes of every
\* group that was read, then the proxy's own.
ReverseProxyRoutes(h, db) ==
    LET sorted == ByPriority(Enabled(db.assigns, h))
        aclRoutes(a) == IF a.group \in DOMAIN db.groups
                        THEN ACLRoutes(h, a.paths, db.groups[a.group], db.settings) ELSE <<>>
    IN  FlattenSeq([i \in DOMAIN sorted |-> aclRoutes(sorted[i])])
            \o <<HostRoute(h, <<Upstream>>)>>

RedirectRoutes(h) == <<HostRoute(h, <<"redirect">>)>>
\* BuildStaticRoutes: the rewrite to an existing file goes on to the file server.
StaticRoutes(h, row) ==
    When(row.tryFiles, [HostRoute(h, <<"rewrite">>) EXCEPT !.terminal = FALSE])
        \o <<HostRoute(h, <<"files">>)>>

\* SecurityRoutesForHost.
SecurityRoutes(h) == <<[HostRoute(h, <<"blocked">>) EXCEPT !.exploit = TRUE]>>

\* parseUpstreams, parseRedirectConfig and parseStaticConfig find what they need.
Buildable(row) == row.complete

\* buildProxyRoutes; a proxy that cannot be built is left out, with its security routes.
ProxyRoutes(h, row, db) ==
    IF ~row.active \/ ~Buildable(row) THEN <<>>
    ELSE (IF row.blockExploits THEN SecurityRoutes(h) ELSE <<>>)
         \o CASE row.type = "reverse_proxy" -> ReverseProxyRoutes(h, db)
              [] row.type = "redirect" -> RedirectRoutes(h)
              [] row.type = "static" -> StaticRoutes(h, row)

\* extractL4TLSHostnames.
L4TLSHostnames(table) ==
    UNION {r.sni : r \in UNION {{x \in table[port].routes : x.terminate /\ x.matcher = "tls"} :
                                    port \in {q \in DOMAIN table : table[q].active}}}

ActiveHosts(db) == {h \in DOMAIN db.rows : db.rows[h].active}

\* buildL4TLSRoutes, for hosts without a proxy.
L4TLSRoutes(db) ==
    LET hosts == SetToSeq(L4TLSHostnames(db.l4table) \ ActiveHosts(db))
    IN  [i \in DOMAIN hosts |-> [HostRoute(hosts[i], <<"l4page">>) EXCEPT !.terminal = FALSE]]

\* buildCatchAllRoute.
CatchAllRoute(s) ==
    [hosts |-> Hosts, paths |-> Paths, ips |-> Ips, exploit |-> FALSE, terminal |-> FALSE,
     handle |-> <<IF s.redirect THEN "goElsewhere" ELSE "notFound">>]

\* The metrics route, only with host and account.
MetricsRoute(s) ==
    When(s.publish /\ s.account,
         [HostRoute(s.metricsHost, <<"basic", "metrics">>) EXCEPT
             !.paths = {s.metricsPath}, !.ips = IF s.cidrs = {} THEN Ips ELSE s.cidrs])

\* buildHTTPRoutes: proxies in the order List returned them.
HTTPRoutes(db) ==
    LET hosts == SetToSeq(DOMAIN db.rows)
    IN  FlattenSeq([i \in DOMAIN hosts |-> ProxyRoutes(hosts[i], db.rows[hosts[i]], db)])
            \o L4TLSRoutes(db)

\* Build, the HTTP app.
BuildRoutes(db) ==
    MetricsRoute(db.settings) \o HTTPRoutes(db) \o <<CatchAllRoute(db.settings)>>

\* Mutant of TLSDomains: layer-4 names are left out.
TLSDomainsHTTP(db) == {h \in ActiveHosts(db) : db.rows[h].ssl}

\* collectTLSDomains and TLSBuilder.Build: nothing to issue without domains; an
\* issuer of its own unless ACME is off or the DNS provider has no credentials.
TLSDomains(db) ==
    {h \in ActiveHosts(db) : db.rows[h].ssl} \cup L4TLSHostnames(db.l4table)
DNSCredentials(s) == s.credentials
Issuer(s) ==
    CASE s.acme = "http" -> "http"
      [] s.acme = "dns" /\ DNSCredentials(s) -> "dns"
      [] OTHER -> "default"
-----------------------------------------------------------------------------
\* MapMatcherTypeToL4Matcher: protocols, server names and addresses let through.
L4Matcher(r) ==
    [protos |-> IF r.matcher \in {"tls", "ssh"} THEN {r.matcher} ELSE {"tls", "ssh"},
     sni |-> IF r.matcher = "tls" /\ r.sni # {} THEN r.sni ELSE Hosts,
     ips |-> IF r.ips = {} /\ r.matcher # "remote_ip" THEN Ips ELSE r.ips]

\* The TLS and proxy handlers of a route, which is named by its priority.
L4Handle(r) == [terminate |-> r.terminate, to |-> r.priority]

\* buildServer: routes by priority, those without upstreams left out.
L4Server(proxy) ==
    LET sorted == ByPriority({r \in proxy.routes : r.upstreams})
    IN  [i \in DOMAIN sorted |-> [match |-> L4Matcher(sorted[i]), handle |-> L4Handle(sorted[i])]]

\* BuildL4Config: active proxies with routes.
L4Config(table) ==
    [port \in {p \in DOMAIN table : table[p].active /\ table[p].routes # {}} |->
        L4Server(table[port])]
-----------------------------------------------------------------------------
Database == [rows |-> rows, groups |-> groups, assigns |-> assigns, l4table |-> l4table,
             settings |-> settings]

\* buildConfigBytes: a failing read of the groups, of a proxy's assignments, of the
\* layer-4 table or of the settings is logged, and the build goes on without them.
Read(lost) ==
    [Database EXCEPT
        !.groups = IF "groups" \in lost THEN <<>> ELSE @,
        !.assigns = {a \in @ : a.host \notin lost},
        !.l4table = IF "l4" \in lost THEN <<>> ELSE @,
        !.settings = IF "settings" \in lost
                     THEN [@ EXCEPT !.redirect = FALSE, !.publish = FALSE] ELSE @]

Built(db, lost) ==
    [routes |-> BuildRoutes(db), domains |-> TLSDomains(db), issuer |-> Issuer(db.settings),
     layer4 |-> L4Config(db.l4table), lost |-> lost]

Sync(lost) ==
    /\ config = Unbuilt
    /\ config' = Built(Read(lost), lost)
    /\ UNCHANGED <<rows, groups, assigns, l4table, settings>>

Edit ==
    /\ config' = Unbuilt
    /\ \/ /\ \E h \in ProxyHosts, row \in ProxyRows : rows' = [rows EXCEPT ![h] = row]
          /\ UNCHANGED <<groups, assigns, l4table, settings>>
       \/ /\ \E g \in GroupIds, row \in GroupRows : groups' = [groups EXCEPT ![g] = row]
          /\ UNCHANGED <<rows, assigns, l4table, settings>>
       \/ /\ assigns' \in AssignSets
          /\ UNCHANGED <<rows, groups, l4table, settings>>
       \/ /\ l4table' \in L4Tables
          /\ UNCHANGED <<rows, groups, assigns, settings>>
       \/ /\ settings' \in SettingRows
          /\ UNCHANGED <<rows, groups, assigns, l4table>>

ConfigInit ==
    /\ rows \in [ProxyHosts -> ProxyRows]
    /\ groups \in [GroupIds -> GroupRows]
    /\ assigns \in AssignSets
    /\ l4table \in L4Tables
    /\ settings \in SettingRows
    /\ config = Unbuilt

Losses == {{}, {"groups"}, {"l4"}, {"settings"}} \cup {{h} : h \in ProxyHosts}
ConfigNext == Edit \/ \E lost \in Losses : Sync(lost)
ConfigSpec == ConfigInit /\ [][ConfigNext]_configVars
-----------------------------------------------------------------------------
\* Caddy (external).  A request carries what decides its fate: whether its basic
\* credentials are right, what the forward-auth endpoint says of it, whether a
\* security pattern matches it.
Requests ==
    {[host |-> h, path |-> path, ip |-> ip, basic |-> k.basic, verify |-> k.verify,
      exploit |-> k.exploit] : h \in Hosts, path \in Paths, ip \in Ips, k \in RequestKinds}

Respond(handler, req) ==
    CASE handler = "rewrite" -> "next"
      [] handler = "basic" -> IF req.basic THEN "next" ELSE "unauthorized"
      [] handler = "external" -> IF req.verify = 200 THEN "next" ELSE "provider"
      [] handler \in {"forward", "forwardOnly"} ->
            CASE req.verify = 200 -> "next"
              [] req.verify = 401 -> IF handler = "forward" THEN "login" ELSE "unavailable"
              [] req.verify = 403 -> "denied"
              [] OTHER -> "failed"
      [] OTHER -> handler

RouteMatches(r, req) ==
    /\ req.host \in r.hosts /\ req.path \in r.paths /\ req.ip \in r.ips
    /\ r.exploit => req.exploit

LeastOf(set) == CHOOSE k \in set : \A m \in set : k <= m

\* The handlers of a route in order, up to the first that does not go on.
Answer(handle, req) ==
    LET answers == {k \in DOMAIN handle : Respond(handle[k], req) # "next"}
    IN  IF answers = {} THEN "next" ELSE Respond(handle[LeastOf(answers)], req)

Served(routes, req) ==
    LET hit == {i \in DOMAIN routes : RouteMatches(routes[i], req)}
        reached == {i \in hit : \A j \in hit : routes[j].terminal => i <= j}
        answers == {i \in reached : Answer(routes[i].handle, req) # "next"}
    IN  IF answers = {} THEN "empty" ELSE Answer(routes[LeastOf(answers)].handle, req)

L4Connections == [port : L4Ports, proto : {"tls", "ssh"}, sni : Hosts, ip : Ips]

\* The route that takes a connection, none if there is none.
L4Taken(layer4, c) ==
    LET routes == layer4[c.port]
        takes(i) == /\ c.proto \in routes[i].match.protos /\ c.ip \in routes[i].match.ips
                    /\ c.proto = "tls" => c.sni \in routes[i].match.sni
    IN  IF c.port \notin DOMAIN layer4 THEN {}
        ELSE {routes[i].handle : i \in {j \in DOMAIN routes : takes(j) /\ \A k \in 1 .. j - 1 : ~takes(k)}}
-----------------------------------------------------------------------------
\* What the groups of a proxy mean, without routes: the first group in order of
\* priority that says anything about the path decides, and every such group lets
\* static assets through, wherever it is attached.
Login(g, s, req) ==
    IF HasSecureAuth(g)
    THEN IF req.verify = 200 /\ (g.external \/ s.verifyURL) THEN "upstream"
         ELSE Respond(ForwardAuth(g, s), req)
    ELSE IF g.basic /\ ~req.basic THEN "unauthorized" ELSE "upstream"

Verdict(g, s, covered, req) ==
    CASE covered /\ req.ip \in g.deny -> "denied"
      [] covered /\ req.ip \notin g.deny /\ g.mode = "any" /\ req.ip \in Granted(g) -> "upstream"
      [] covered /\ req.ip \notin g.deny /\ g.mode = "all" /\ Granted(g) # {}
            /\ req.ip \notin Granted(g) -> "denied"
      [] OTHER -> IF req.path \in Assets THEN "upstream" ELSE Login(g, s, req)

\* The assignments of a host that say something about a request.
Heard(db, req) ==
    {a \in db.assigns : /\ a.host = req.host /\ a.enabled /\ a.group \in DOMAIN db.groups
                        /\ HasMethods(db.groups[a.group])
                        /\ req.path \in a.paths \cup Assets}

GroupsSay(db, req) ==
    LET first == CHOOSE a \in Heard(db, req) : \A b \in Heard(db, req) : a.priority <= b.priority
    IN  IF Heard(db, req) = {} THEN "upstream"
        ELSE Verdict(db.groups[first.group], db.settings, req.path \in first.paths, req)

ProxySays(db, req) ==
    LET row == db.rows[req.host]
    IN  IF row.blockExploits /\ req.exploit THEN "blocked"
        ELSE CASE row.type = "reverse_proxy" -> GroupsSay(db, req)
               [] row.type = "redirect" -> "redirect"
               [] row.type = "static" -> "files"

IsMetrics(s, req) ==
    /\ s.publish /\ s.account /\ req.host = s.metricsHost /\ req.path = s.metricsPath
    /\ s.cidrs = {} \/ req.ip \in s.cidrs

Expected(db, req) ==
    IF IsMetrics(db.settings, req) THEN (IF req.basic THEN "metrics" ELSE "unauthorized")
    ELSE IF req.host \in ActiveHosts(db) /\ db.rows[req.host].complete THEN ProxySays(db, req)
    ELSE IF req.host \in L4TLSHostnames(db.l4table) \ ActiveHosts(db) THEN "l4page"
    ELSE IF db.settings.redirect THEN "goElsewhere" ELSE "notFound"

\* Whatever is stored and whatever could be read of it, the list of routes with
\* its first-match rule answers every request as the proxies, their groups in
\* order of priority, and the settings mean it: deny before allow before login,
\* assets without login, the metrics page behind its account, nothing of an
\* inactive proxy.
RoutesMeanSettings ==
    config # Unbuilt =>
        \A req \in Requests : Served(config.routes, req) = Expected(Read(config.lost), req)

OnlyHost(h) ==
    [Read(config.lost) EXCEPT
        !.rows = [x \in ProxyHosts \cap {h} |-> rows[x]],
        !.assigns = {a \in @ : a.host = h}]

\* What a host answers does not depend on the other proxies, on what is attached
\* to them or on whether they can be built, also when reads failed.
HostsIsolated ==
    config # Unbuilt =>
        \A h \in Hosts :
            LET alone == BuildRoutes(OnlyHost(h))
            IN  \A req \in Requests : req.host = h =>
                    Served(config.routes, req) = Served(alone, req)

\* A connection whose TLS a tls route terminates finds a certificate ordered for
\* its name and, unless the proxy of that name cannot be built, somebody who
\* answers for it over HTTP while it is being issued; and the route is the first
\* in order of priority that applies.
TerminatedHasCertificate ==
    config # Unbuilt =>
        \A c \in L4Connections : \A r \in L4Taken(config.layer4, c) :
            LET mine == {x \in l4table[c.port].routes : x.upstreams}
                applies(x) == /\ x.matcher \in {"any", "remote_ip", c.proto}
                              /\ x.matcher = "tls" => (x.sni = {} \/ c.sni \in x.sni)
                              /\ x.ips = {} \/ c.ip \in x.ips
                              /\ x.matcher = "remote_ip" => x.ips # {}
            IN  /\ l4table[c.port].active
                /\ \E x \in mine :
                      /\ applies(x) /\ x.priority = r.to /\ x.terminate = r.terminate
                      /\ \A y \in mine : applies(y) => x.priority <= y.priority
                      /\ (r.terminate /\ x.matcher = "tls" /\ x.sni # {}) =>
                            /\ c.sni \in config.domains
                            /\ \/ \E i \in DOMAIN config.routes : config.routes[i].hosts = {c.sni}
                               \/ c.sni \in ProxyHosts /\ ~rows[c.sni].complete
=============================================================================
