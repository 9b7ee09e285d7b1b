--------------------------- MODULE MCPocDiscovery ---------------------------
(* Two people who share a name; only the first one's title is known. *)
EXTENDS PocDiscovery, TLC

CONSTANTS s1, s2, p1, p2, n1, r1, c1

MCNameOf == [p \in People |-> n1]
MCRoleOf == [p \in People |-> IF p = p1 THEN r1 ELSE NoRole]

Interchangeable == Permutations({s1, s2})
=============================================================================
