------------------------ MODULE MCTenantConnections ------------------------
(***************************************************************************)
(* Small instances of TenantConnections for TLC.                           *)
(***************************************************************************)
EXTENDS TenantConnections, TLC

CONSTANTS t1, t2

MCCappedTiers == {"basic", "premium"}
MCCaps == ("basic" :> 1) @@ ("premium" :> 2)
MCTenants == {t1, t2}

\* t1 may be seen with a stale tier, t2 keeps its own.
StaleTiers == (t1 :> {"basic", "vip"}) @@ (t2 :> {"basic"})
CappedOnly == (t1 :> {"basic", "premium"}) @@ (t2 :> {"vip"})

AllChanges == {"raise", "lower", "cap", "exempt", "register", "deregister"}
Raises == {"raise"}

Symmetry == Permutations(Requests) \cup Permutations(Conns) \cup Permutations(SlotIds)
=============================================================================
