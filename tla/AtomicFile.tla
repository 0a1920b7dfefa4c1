----------------------------- MODULE AtomicFile -----------------------------
(***************************************************************************)
(* What WriteJSONConfig promises of caddy.json: whoever opens the path     *)
(* (Caddy and `caddy validate` do so without the file manager's mutex)     *)
(* finds nothing or one whole version, a version changes only to one a     *)
(* caller is writing, and a crash brings back at worst the version whose   *)
(* directory entry last reached the disk.                                  *)
(***************************************************************************)
CONSTANTS AVersions, AWriters, ANone

VARIABLES
    acontent,   \* what opening the path finds
    adisk,      \* what it would find after a crash
    awriting    \* the version each caller is writing, ANone outside a write

avars == <<acontent, adisk, awriting>>

AtomicInit ==
    /\ acontent \in AVersions \cup {ANone}
    /\ adisk = acontent
    /\ awriting = [w \in AWriters |-> ANone]

Begin(w) ==
    /\ awriting[w] = ANone
    /\ \E v \in AVersions : awriting' = [awriting EXCEPT ![w] = v]
    /\ UNCHANGED <<acontent, adisk>>

Commit(w) ==
    /\ awriting[w] # ANone
    /\ acontent' = awriting[w]
    /\ awriting' = [awriting EXCEPT ![w] = ANone]
    /\ UNCHANGED adisk

Abandon(w) ==
    /\ awriting[w] # ANone
    /\ awriting' = [awriting EXCEPT ![w] = ANone]
    /\ UNCHANGED <<acontent, adisk>>

Flush ==
    /\ adisk' = acontent
    /\ UNCHANGED <<acontent, awriting>>

Restart ==
    /\ acontent' = adisk
    /\ awriting' = [w \in AWriters |-> ANone]
    /\ UNCHANGED adisk

AtomicNext ==
    \/ \E w \in AWriters : Begin(w) \/ Commit(w) \/ Abandon(w)
    \/ Flush
    \/ Restart

AtomicSpec == AtomicInit /\ [][AtomicNext]_avars
=============================================================================
