---------------------------- MODULE PluginInstall -----------------------------
(***************************************************************************)
(* CheckUpdate, InstallPlugin, UninstallPlugin and WaitStopPlugin of       *)
(* plugin_manager.go, with DownloadFile and Unzip as the steps they take.  *)
(* A version stands for the whole VersionInfo: its Version and its         *)
(* Manifest.Version are one number.                                        *)
(***************************************************************************)
EXTENDS PluginLifecycle

(***************************************************************************)
(* CheckUpdate                                                             *)
(***************************************************************************)

(* Does the record in the map need InstallPlugin to bring version v?       *)
Outdated(v) ==
  pmap = None \/ PluginStatus \in Failed \/ PluginVersion < v

(* The update server is asked, unless its last answer is fresh: five        *)
(* minutes are any number of steps. ver = 0 stands for the cached answer.  *)
Check(t) ==
  /\ pc[t] = "check"
  /\ \/ /\ "api" \in Events
        /\ Return(t)
     \/ /\ cached # 0
        /\ Goto(t, "compare")
     \/ /\ Move(t, "compare", [loc[t] EXCEPT !.ver = published])
  /\ UNCHANGED <<record, traffic, store, proc, up>>

Latest(t) == IF loc[t].ver = 0 THEN cached ELSE loc[t].ver

Compare(t) ==
  /\ pc[t] = "compare"
  /\ cached' = Latest(t)
  /\ \/ /\ Outdated(Latest(t))
        /\ Move(t, "snap", [loc[t] EXCEPT !.ver = Latest(t)])
     \/ /\ ~Outdated(Latest(t))
        /\ Move(t, "checkLock", [loc[t] EXCEPT !.cur = pmap])
  /\ UNCHANGED <<record, traffic, disk, published, proc, up>>

(* InstallPlugin returned nil: the record is read again ...                *)
Recheck(t) ==
  /\ pc[t] = "recheck"
  /\ \/ pmap = None /\ Return(t)
     \/ /\ pmap # None
        /\ Move(t, "checkLock", [loc[t] EXCEPT !.cur = pmap])
  /\ UNCHANGED <<record, traffic, store, proc, up>>

(* ... and its lock taken and released, to wait for another's download.    *)
CheckLock(t) ==
  /\ pc[t] = "checkLock"
  /\ lock[loc[t].cur] = None
  /\ Return(t)
  /\ UNCHANGED <<record, traffic, store, proc, up>>

(***************************************************************************)
(* InstallPlugin                                                           *)
(***************************************************************************)
Snap(t) ==
  /\ pc[t] = "snap"
  /\ Move(t, "instInit", [loc[t] EXCEPT !.snap = PluginVersion])
  /\ UNCHANGED <<record, traffic, store, proc, up>>

(* The record gets the new version, and loses its endpoint, before         *)
(* anything is downloaded.                                                 *)
InstInit(t) ==
  /\ pc[t] = "instInit"
  /\ \E o \in Obj :
       /\ InitManifest(o, loc[t].ver, None)
       /\ Move(t, "instLock", [loc[t] EXCEPT !.cur = o])
  /\ UNCHANGED <<lock, traffic, store, proc, up>>

InstLock(t) ==
  /\ pc[t] = "instLock"
  /\ Acquire(t)
  /\ Goto(t, "wsPost")
  /\ UNCHANGED <<pmap, info, traffic, store, proc, up>>

(* A failed status counts as nothing left to do, like a current version.   *)
NothingToDo(t) ==
  LET i == info[loc[t].cur]
  IN  i.status \in Failed \cup {"Downloading"} \/ loc[t].snap >= loc[t].ver

(* Mutant of Decide: the lock is given up for the time of the download.    *)
DecideUnlocks(t) ==
  /\ pc[t] = "decide"
  /\ ~NothingToDo(t)
  /\ SetStatus(loc[t].cur, "Downloading")
  /\ Goto(t, "download")
  /\ Unlock(loc[t].cur)
  /\ UNCHANGED <<pmap, traffic, store, proc>>

Decide(t) ==
  /\ pc[t] = "decide"
  /\ \/ /\ NothingToDo(t)
        /\ Unlock(loc[t].cur)
        /\ Finish(t, "recheck")
        /\ UNCHANGED info
     \/ /\ ~NothingToDo(t)
        /\ SetStatus(loc[t].cur, "Downloading")
        /\ Goto(t, "download")
        /\ UNCHANGED <<lock, up>>
  /\ UNCHANGED <<pmap, traffic, store, proc>>

(* Once downloaded, the plugin's directory is removed.                     *)
Download(t) ==
  /\ pc[t] = "download"
  /\ \/ /\ disk' = 0
        /\ Goto(t, "unzip")
        /\ UNCHANGED <<info, lock, up>>
     \/ /\ "download" \in Events
        /\ SetStatus(loc[t].cur, "DownloadFailed")
        /\ Unlock(loc[t].cur)
        /\ Return(t)
        /\ UNCHANGED disk
  /\ UNCHANGED <<pmap, traffic, published, cached, proc>>

Unzip(t) ==
  /\ pc[t] = "unzip"
  /\ \/ /\ disk' = loc[t].ver
        /\ SetStatus(loc[t].cur, "NotStarted")
        /\ Finish(t, "recheck")
     \/ /\ "unzip" \in Events
        /\ disk' = 0
        /\ SetStatus(loc[t].cur, "InstallFailed")
        /\ Return(t)
  /\ Unlock(loc[t].cur)
  /\ UNCHANGED <<pmap, traffic, published, cached, proc>>

Update(t) ==
  \/ Check(t) \/ Compare(t) \/ Recheck(t) \/ CheckLock(t) \/ Snap(t)
  \/ InstInit(t) \/ InstLock(t) \/ Decide(t) \/ Download(t) \/ Unzip(t)

(***************************************************************************)
(* WaitStopPlugin, called with the lock held                               *)
(***************************************************************************)
Stopped(t) == IF loc[t].op = "uninstall" THEN "remove" ELSE "decide"

WsPost(t) ==
  /\ pc[t] = "wsPost"
  /\ Move(t, "wsPing", [loc[t] EXCEPT !.tgt = PostTarget])
  /\ UNCHANGED <<record, traffic, store, proc, up>>

WsPing(t) ==
  /\ pc[t] = "wsPing"
  /\ \/ /\ Refused(loc[t].tgt)
        /\ Move(t, "kill", [loc[t] EXCEPT !.ret = Stopped(t), !.tgt = None])
     \/ /\ Answers(loc[t].tgt)
        /\ Move(t, "kill", [loc[t] EXCEPT !.ret = "wsAgain", !.tgt = None])
  /\ UNCHANGED <<record, traffic, store, proc, up>>

WsAgain(t) ==
  /\ pc[t] = "wsAgain"
  /\ Move(t, "wsProbe", [loc[t] EXCEPT !.tgt = PostTarget])
  /\ UNCHANGED <<record, traffic, store, proc, up>>

(* The loop of 25 attempts: any answer may have been the last one.         *)
WsProbe(t) ==
  /\ pc[t] = "wsProbe"
  /\ \/ /\ Refused(loc[t].tgt)
        /\ Move(t, Stopped(t), [loc[t] EXCEPT !.tgt = None])
        /\ UNCHANGED <<lock, up>>
     \/ /\ Answers(loc[t].tgt)
        /\ Move(t, "kill", [loc[t] EXCEPT !.tgt = None])
        /\ UNCHANGED <<lock, up>>
     \/ /\ Answers(loc[t].tgt)
        /\ Unlock(loc[t].cur)
        /\ Return(t)
  /\ UNCHANGED <<pmap, info, traffic, store, proc>>

WaitStop(t) == WsPost(t) \/ WsPing(t) \/ WsAgain(t) \/ WsProbe(t)

(***************************************************************************)
(* UninstallPlugin                                                         *)
(***************************************************************************)
UninstGet(t) ==
  /\ pc[t] = "uninstGet"
  /\ \/ /\ pmap = None
        /\ Goto(t, "rawRemove")
     \/ /\ pmap # None
        /\ Move(t, "uninstLock", [loc[t] EXCEPT !.cur = pmap])
  /\ UNCHANGED <<record, traffic, store, proc, up>>

(* No record: the directory is removed all the same, under no lock, and no *)
(* error is noticed.                                                       *)
RawRemove(t) ==
  /\ pc[t] = "rawRemove"
  /\ disk' \in {0} \cup IF "removeAll" \in Events THEN {disk} ELSE {}
  /\ Return(t)
  /\ UNCHANGED <<record, traffic, published, cached, proc, up>>

UninstLock(t) ==
  /\ pc[t] = "uninstLock"
  /\ Acquire(t)
  /\ Goto(t, "wsPost")
  /\ UNCHANGED <<pmap, info, traffic, store, proc, up>>

(* The record leaves the map when RemoveAll fails, and only then (bound:   *)
(* as long as another one can be allocated).                               *)
Remove(t) ==
  /\ pc[t] = "remove"
  /\ \/ /\ disk' = 0
        /\ UNCHANGED pmap
     \/ /\ "removeAll" \in Events
        /\ Fresh # {}
        /\ disk' \in {0, disk}
        /\ pmap' = None
  /\ Unlock(loc[t].cur)
  /\ Return(t)
  /\ UNCHANGED <<info, traffic, published, cached, proc>>

Uninstall(t) == UninstGet(t) \/ RawRemove(t) \/ UninstLock(t) \/ Remove(t)

(* The update server offers another version.                               *)
Publish ==
  /\ published < MaxVersion
  /\ published' = published + 1
  /\ UNCHANGED <<record, traffic, disk, cached, proc, up, pc, loc>>
===============================================================================
