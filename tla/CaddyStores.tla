---------------------------- MODULE CaddyStores ----------------------------
(***************************************************************************)
(* Two stores the backend keeps about Caddy and that share no state: the   *)
(* configuration file with its backups, and the traffic samples.  A        *)
(* behaviour is one of the part its first state picks; the other rests.    *)
(***************************************************************************)
EXTENDS FileManager, TrafficMetrics

VARIABLE store

storeVars == <<store, fileVars, trafficVars>>

StoresInit ==
    /\ store \in {"file", "traffic"}
    /\ FileInit /\ TrafficInit
    /\ store = "traffic" => cfgFile = Gone

StoresNext ==
    /\ store' = store
    /\ \/ store = "file" /\ FileNext /\ UNCHANGED trafficVars
       \/ store = "traffic" /\ TrafficNext /\ UNCHANGED fileVars

StoresSpec == StoresInit /\ [][StoresNext]_storeVars

\* Type correctness of both stores; no row of the samples is dated ahead of the
\* scrape that stored it.
StoreTypes == FileTypeOK /\ TrafficTypeOK
=============================================================================
