----------------------------- MODULE StatusPhases -----------------------------
(***************************************************************************)
(* What the Status field of a plugin promises to those who poll it: the    *)
(* plugin list, the start and stop handlers, the proxy and CheckUpdate all *)
(* read it without the lock. An installation is a phase of its own: no     *)
(* start and no registration shows up in it, Downloading is seen in no     *)
(* other phase, and it ends with a verdict. A child's end may write        *)
(* NotStarted at any time.                                                 *)
(***************************************************************************)
VARIABLES
  status,      (* PluginInfo.Status, Unallocated before there is a record *)
  installing   (* an installer is between its first write and its verdict *)

vars == <<status, installing>>

Settled == {"NotStarted", "Starting", "Running"}
Verdict == {"NotStarted", "DownloadFailed", "InstallFailed"}

Init == status \in {"Unallocated", "NotStarted"} /\ installing = FALSE

Discover ==
  /\ status = "Unallocated"
  /\ status' = "NotStarted"
  /\ UNCHANGED installing

(* run: a child is launched, or could not be.                              *)
Launch ==
  /\ status # "Unallocated" /\ ~installing
  /\ status' \in {"Starting", "NotStarted"}
  /\ UNCHANGED installing

Register ==
  /\ status # "Unallocated" /\ ~installing
  /\ status' = "Running"
  /\ UNCHANGED installing

(* A child was killed or has ended.                                        *)
Exit ==
  /\ status # "Unallocated"
  /\ status' = "NotStarted"
  /\ UNCHANGED installing

(* A failed plugin is never downloaded again.                              *)
Begin ==
  /\ status \in Settled /\ ~installing
  /\ status' = "Downloading"
  /\ installing' = TRUE

End ==
  /\ installing
  /\ status' \in Verdict
  /\ installing' = FALSE

Next == Discover \/ Launch \/ Register \/ Exit \/ Begin \/ End

Spec == Init /\ [][Next]_vars
=============================================================================
