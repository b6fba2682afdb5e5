------------------------------- MODULE MCMaster -------------------------------
(***************************************************************************)
(* Instances of Master for TLC.                                            *)
(***************************************************************************)
EXTENDS MasterProperties, TLC

CONSTANTS c1, c2

AllOf(ops) == [c \in Client |-> ops]

InstallCalls ==
  (c1 :> {"checkUpdate", "start"}) @@ (c2 :> {"checkUpdate", "uninstall"})
RemovalCalls ==
  (c1 :> {"uninstall", "start", "restart", "proxy"}) @@ (c2 :> {"proxy"})
ReinstallCalls   == AllOf({"checkUpdate", "uninstall"})
StartCalls       == AllOf({"start"})
StaleUnlockCalls == (c1 :> {"uninstall"}) @@ (c2 :> {"start"})

ProcSymmetry == Permutations(Proc)
=============================================================================
