---------------------------- MODULE MCAclVerify ----------------------------
(* A small instance of AclVerify for TLC. *)
EXTENDS AclVerify, TLC

CONSTANTS g1, g2, ann, bob, google, good

Rule(type, cidr) == [type |-> type, cidr |-> cidr]
Waygates(on, users, providers, emails) ==
    [enabled |-> on, users |-> users, providers |-> providers, emails |-> emails]
Restrict(on, emails) == [p \in Providers |-> [enabled |-> on, emails |-> emails]]
Content6(a, m, r, b, w, o) ==
    [assigns |-> a, modes |-> m, rules |-> r, basic |-> b, waygates |-> w, restrictions |-> o]

\* A group without methods that does not apply yet; a deny rule beside passwords
\* for the client; basic auth, and OAuth for somebody else; a bypass beside
\* passwords for somebody else and OAuth for the client.
MCRows == {
    Content6("skipped", "all", {Rule("allow", TRUE)}, {}, Absent, Unrestricted),
    Content6("applies", "any", {Rule("deny", FALSE)}, {good}, Waygates(TRUE, {ann}, {}, {}), Restrict(FALSE, {ann})),
    Content6("applies", "all", {}, {good}, Waygates(FALSE, {}, {google}, {bob}), Unrestricted),
    Content6("applies", "ip_bypass", {}, {}, Waygates(TRUE, {bob}, {}, {}), Restrict(TRUE, {ann}))}

GroupSymmetry == Permutations(Groups)
============================================================================
