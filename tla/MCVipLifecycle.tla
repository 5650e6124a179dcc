-------------------------- MODULE MCVipLifecycle --------------------------
(***************************************************************************)
(* Small instances of VipLifecycle for TLC.                                *)
(***************************************************************************)
EXTENDS VipLifecycle, TLC

OnlyBasic == {"basic"}
UpAndDown == {"basic", "vip"}
UpOnly == {"vip"}
NoStatus == {}

Everything == {"create", "offboard", "write"}
CreateAndWrite == {"create", "write"}

BeforeCommit == {"step", "transaction", "rollback", "crash"}
StepFault == {"step"}
StepAndEnqueue == {"step", "enqueue"}

Symmetry == Permutations(Admins) \cup Permutations(Rows)
=============================================================================
