--------------------------- MODULE MCAdminTables ---------------------------
\* A small instance of AdminTables: the same two or three goroutines serve every
\* part.
EXTENDS AdminTables, TLC

CONSTANTS u1, u2, u3, a, e, f, h, g, m, lp, o1, o2, v

\* An active row with a TLS-terminating route and an inactive one.
TlsRow == [at |-> e, active |-> TRUE, routes |-> {[terminate |-> TRUE, passthrough |-> FALSE]}]
OffRow == [at |-> f, active |-> FALSE, routes |-> {}]
Rows == {TlsRow, OffRow}
Lists == {<<2, 1>>}

LocalName == [x \in {m} |-> lp]
On == [enabled |-> TRUE, issuer |-> o1, auto |-> TRUE]
Off == [enabled |-> FALSE, issuer |-> o2, auto |-> FALSE]
OnOff == {On, Off}

\* A page that is stored and one that is refused; a metrics endpoint with a
\* password and one that keeps the password there is; a key, and a secret one.
NotFoundPages == {[mode |-> "redirect", url |-> "u"], [mode |-> "redirect", url |-> ""]}
MetricsPages == {[enabled |-> TRUE, host |-> "h", password |-> <<"p">>, cidrs |-> {"c"}],
                 [enabled |-> TRUE, host |-> "h", password |-> <<>>, cidrs |-> {}]}
SingleKeys == {[key |-> "url", value |-> "v"], [key |-> "hash", value |-> <<>>]}
AuditSets == {{"a"}, {"a", "b"}}     \* "u" is switched off in both, and has no case

Alike == Permutations({h, g})
=============================================================================
