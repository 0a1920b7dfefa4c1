--------------------------- MODULE MCCaddyStores ---------------------------
\* A small instance of CaddyStores.
EXTENDS CaddyStores, TLC

CONSTANTS x, y, p, q

Buckets == <<1, 3>>
Windows == {[duration |-> 1, step |-> 1], [duration |-> 2, step |-> 2]}

Alike == Permutations({x, y}) \cup Permutations({p, q})
=============================================================================
