--------------------------- MODULE MCTenantGateway ---------------------------
(* Instances of TenantGateway for TLC. *)
EXTENDS TenantGateway, TLC

CONSTANTS t1, s1
MCTenants == {t1}
MCSlugs == {s1}
MCCappedTiers == {"basic"}
MCLimit == [tier \in {"basic"} |-> 1]
Symmetry == Permutations(Requests)
=============================================================================
