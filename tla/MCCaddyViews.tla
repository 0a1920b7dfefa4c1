---------------------------- MODULE MCCaddyViews ----------------------------
(***************************************************************************)
(* Small instances of two parts around Caddy that share no state: the log  *)
(* view and the generated configuration.  A behaviour is one of the part   *)
(* its first state picks; the other rests.                                 *)
(***************************************************************************)
EXTENDS LogTail, ConfigBuilder, TLC

CONSTANTS p, q, l, g1, g2, x, y, asset, i1, i2, t1

\* Proxies: guarded against exploits, serving files, switched off, not buildable.
Proxy(t, on, parsed, guarded) ==
    [type |-> t, active |-> on, ssl |-> on, complete |-> parsed, tryFiles |-> TRUE,
     blockExploits |-> guarded]
SomeProxies ==
    {Proxy("reverse_proxy", TRUE, TRUE, TRUE), Proxy("static", TRUE, TRUE, FALSE),
     Proxy("redirect", FALSE, TRUE, FALSE), Proxy("reverse_proxy", TRUE, FALSE, TRUE)}

\* Groups: empty; denied and allowed addresses at once; both conditions; providers.
Acl(m, pass, ok, no, basic, way, ext) ==
    [mode |-> m, bypass |-> pass, allow |-> ok, deny |-> no, basic |-> basic,
     waygates |-> way, external |-> ext]
SomeGroups ==
    {Acl("any", {}, {}, {}, FALSE, FALSE, FALSE), Acl("any", {i1}, {i2}, {i1}, TRUE, FALSE, FALSE),
     Acl("all", {i1}, {}, {}, TRUE, TRUE, FALSE), Acl("any", {i1}, {}, {}, FALSE, TRUE, TRUE)}

\* One group; two, the second first; two hosts and a disabled assignment.
Attach(h, grp, n, where) ==
    [host |-> h, group |-> grp, priority |-> n, paths |-> where, enabled |-> TRUE]
SomeAssigns ==
    {{Attach(p, g1, 1, Paths)},
     {Attach(p, g1, 2, Paths), Attach(p, g2, 1, {x, asset})},
     {Attach(p, g1, 1, {x}), [Attach(p, g2, 2, Paths) EXCEPT !.enabled = FALSE],
      Attach(q, g2, 1, Paths)}}

\* Layer-4 routes of every matcher, one without upstreams, one behind another.
Forward(n, m, names, from, ends, ups) ==
    [priority |-> n, matcher |-> m, sni |-> names, ips |-> from, terminate |-> ends,
     upstreams |-> ups]
Table(routes) == [port \in {t1} |-> [active |-> TRUE, routes |-> routes]]
SomeTables ==
    {Table({Forward(1, "tls", {l, p}, {i1}, TRUE, TRUE), Forward(2, "ssh", {}, {}, FALSE, TRUE),
            Forward(3, "remote_ip", {}, {i2}, FALSE, TRUE)}),
     Table({Forward(2, "tls", {l}, {}, TRUE, TRUE), Forward(1, "any", {}, {i2}, FALSE, TRUE),
            Forward(0, "any", {}, {}, FALSE, FALSE)})}

\* Everything set up; next to nothing.
SomeSettings ==
    {[redirect |-> FALSE, verifyURL |-> TRUE, loginURL |-> TRUE, acme |-> "dns",
      credentials |-> TRUE, publish |-> TRUE, account |-> TRUE, metricsHost |-> p,
      metricsPath |-> x, cidrs |-> {i1}],
     [redirect |-> TRUE, verifyURL |-> FALSE, loginURL |-> FALSE, acme |-> "dns",
      credentials |-> FALSE, publish |-> TRUE, account |-> FALSE, metricsHost |-> q,
      metricsPath |-> x, cidrs |-> {}]}

Kind(right, says, bad) == [basic |-> right, verify |-> says, exploit |-> bad]
SomeKinds ==
    {Kind(FALSE, 401, FALSE), Kind(TRUE, 403, FALSE), Kind(FALSE, 200, FALSE),
     Kind(TRUE, 200, TRUE), Kind(FALSE, 500, FALSE)}
-----------------------------------------------------------------------------
VARIABLE part

Init2 ==
    /\ part \in {"log", "config"}
    /\ LogInit /\ ConfigInit
    /\ part = "config" => written = 0 /\ inPlace
    /\ part = "log" =>
          /\ rows = [host \in ProxyHosts |-> Proxy("redirect", FALSE, TRUE, FALSE)]
          /\ groups = [grp \in GroupIds |-> Acl("any", {}, {}, {}, FALSE, FALSE, FALSE)]
          /\ assigns = {Attach(p, g1, 1, Paths)}
          /\ \E r \in l4table[t1].routes : r.matcher = "ssh"
          /\ settings.redirect

Next2 ==
    /\ part' = part
    /\ \/ part = "log" /\ LogNext /\ UNCHANGED configVars
       \/ part = "config" /\ ConfigNext /\ UNCHANGED logVars

\* LogFair, where the part is the log.
Fair ==
    /\ WF_logVars(part = "log" /\ TailStep) /\ SF_logVars(part = "log" /\ TailStops)
    /\ WF_logVars(part = "log" /\ ShowLine) /\ SF_logVars(part = "log" /\ HandlerStops)

CaddyViews ==
    Init2 /\ [][Next2]_<<part, logVars, configVars>> /\ Fair
=============================================================================
