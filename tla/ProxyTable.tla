----------------------------- MODULE ProxyTable -----------------------------
(***************************************************************************)
(* The proxies table, as the services see it: at most one row per primary  *)
(* key, and a UNIQUE constraint on the hostname                            *)
(* (backend/migrations/000001_create_proxies_table.up.sql).                *)
(***************************************************************************)
CONSTANTS
    ProxyIDs,   \* primary keys
    Hosts,      \* hostnames
    Bodies,     \* the columns a proxy's route is built from, but for hostname
    Absent      \* no such row

Row == [host : Hosts, body : Bodies, active : BOOLEAN]

ASSUME AbsentAssumption == Absent \notin Row /\ Absent \notin ProxyIDs

VARIABLE proxies    \* the rows, Absent where there is none

TableTypeOK == proxies \in [ProxyIDs -> Row \cup {Absent}]

\* A row other than p's holds this hostname.
Taken(host, p) == \E q \in ProxyIDs \ {p} : proxies[q] # Absent /\ proxies[q].host = host

\* No two rows share a hostname: a request for one host reaches one proxy.
HostnamesUnique == \A p \in ProxyIDs : proxies[p] # Absent => ~Taken(proxies[p].host, p)
============================================================================
