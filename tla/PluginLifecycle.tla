--------------------------- MODULE PluginLifecycle ----------------------------
(***************************************************************************)
(* StartPlugin, StopPlugin, RestartPlugin, run and _stopPlugin of          *)
(* plugin_manager.go, the registration handler of controller.go, and the   *)
(* heartbeat and signal goroutines of master.go.                           *)
(*                                                                         *)
(* The handlers' polls for a status after StartPlugin and StopPlugin only  *)
(* read, and are left out. "kill" makes the child exit before it answers,  *)
(* so Post's error, and with it StopPlugin's, is never nil: RestartPlugin  *)
(* always goes on to StartPlugin.                                          *)
(***************************************************************************)
EXTENDS SlaveProcess

(***************************************************************************)
(* StartPlugin                                                             *)
(***************************************************************************)
StartGet(t) ==
  /\ pc[t] = "startGet"
  /\ \/ /\ pmap = None
        /\ Goto(t, "startManifest")
     \/ /\ pmap # None
        /\ Move(t, "startLock", [loc[t] EXCEPT !.cur = pmap])
  /\ UNCHANGED <<record, traffic, store, proc, up>>

StartLock(t) ==
  /\ pc[t] = "startLock"
  /\ Acquire(t)
  /\ Goto(t, "startCheck")
  /\ UNCHANGED <<pmap, info, traffic, store, proc, up>>

(* Mutant of StartCheck: a Running plugin is pinged after Unlock().        *)
StartCheckPingsUnlocked(t) ==
  /\ pc[t] = "startCheck"
  /\ \/ /\ PluginStatus = "Running"
        /\ Move(t, "startPing", [loc[t] EXCEPT !.cur = pmap, !.tgt = PostTarget])
     \/ /\ PluginStatus # "Running"
        /\ Finish(t, "startManifest")
  /\ Unlock(pmap)
  /\ UNCHANGED <<pmap, info, traffic, store, proc>>

(* Mutant of StartCheck: returns while Starting without Unlock().          *)
StartCheckKeepsLock(t) ==
  /\ pc[t] = "startCheck"
  /\ \/ /\ PluginStatus = "Starting"
        /\ Return(t)
        /\ UNCHANGED lock
     \/ /\ PluginStatus # "Starting"
        /\ Unlock(pmap)
        /\ Finish(t, "startManifest")
  /\ UNCHANGED <<pmap, info, traffic, store, proc, up>>

(* The second check reads the map again into the same variable: the record *)
(* it unlocks is the one it finds now. With no entry it follows a nil      *)
(* pointer; net/http recovers the panic and the lock stays held.           *)
StartCheck(t) ==
  /\ pc[t] = "startCheck"
  /\ \/ /\ pmap = None
        /\ Return(t)
        /\ UNCHANGED <<lock, up>>
     \/ /\ PluginStatus = "Starting"
        /\ Unlock(pmap)
        /\ Return(t)
     \/ /\ PluginStatus = "Running"
        /\ Move(t, "startPing", [loc[t] EXCEPT !.cur = pmap, !.tgt = PostTarget])
        /\ UNCHANGED <<lock, up>>
     \/ /\ pmap # None /\ PluginStatus \notin {"Starting", "Running"}
        /\ Unlock(pmap)
        /\ Finish(t, "startManifest")
  /\ UNCHANGED <<pmap, info, traffic, store, proc>>

StartPing(t) ==
  /\ pc[t] = "startPing"
  /\ \/ Answers(loc[t].tgt) /\ Return(t)
     \/ Refused(loc[t].tgt) /\ Finish(t, "startManifest")
  /\ Unlock(loc[t].cur)
  /\ UNCHANGED <<pmap, info, traffic, store, proc>>

StartManifest(t) ==
  /\ pc[t] = "startManifest"
  /\ \/ /\ disk = 0 \/ "manifest" \in Events
        /\ Return(t)
     \/ /\ disk # 0
        /\ Move(t, "startInit", [loc[t] EXCEPT !.ver = disk])
  /\ UNCHANGED <<record, traffic, store, proc, up>>

StartInit(t) ==
  /\ pc[t] = "startInit"
  /\ \E o \in Obj :
       /\ InitManifest(o, loc[t].ver, None)
       /\ Move(t, "startRun", [loc[t] EXCEPT !.cur = o, !.ver = 0])
  /\ UNCHANGED <<lock, traffic, store, proc, up>>

(* exec of the file in the plugin's directory. Running out of Proc counts  *)
(* as a failure to exec.                                                   *)
Unused == {p \in Proc : proc[p].state = "none"}

Launch(o, e, p) ==
  /\ disk # 0
  /\ p \in Unused
  /\ proc' = [proc EXCEPT ![p] =
                 [state |-> "launched", cap |-> e, obj |-> o, ver |-> 0,
                  reap |-> "wait"]]
  /\ UNCHANGED info

(* Mutant of LaunchFails: a status of its own, which nobody knows.         *)
LaunchFailsUnknown(o) ==
  /\ disk = 0 \/ "exec" \in Events \/ Unused = {}
  /\ SetStatus(o, "StartFailed")
  /\ UNCHANGED proc

(* Mutant of LaunchFails: the status of the attempt is left behind.        *)
LaunchFailsStarting(o) ==
  /\ disk = 0 \/ "exec" \in Events \/ Unused = {}
  /\ SetStatus(o, "Starting")
  /\ UNCHANGED proc

LaunchFails(o) ==
  /\ disk = 0 \/ "exec" \in Events \/ Unused = {}
  /\ SetStatus(o, "NotStarted")
  /\ UNCHANGED proc

(* run(): the status is written and the endpoint remembered ...            *)
StartRun(t) ==
  /\ pc[t] = "startRun"
  /\ Acquire(t)
  /\ SetStatus(loc[t].cur, "Starting")
  /\ Move(t, "startExec", [loc[t] EXCEPT !.tgt = info[loc[t].cur].endpoint])
  /\ UNCHANGED <<pmap, traffic, store, proc, up>>

(* ... before the child is launched.                                       *)
StartExec(t) ==
  /\ pc[t] = "startExec"
  /\ \/ \E p \in Proc : Launch(loc[t].cur, loc[t].tgt, p)
     \/ LaunchFails(loc[t].cur)
  /\ Unlock(loc[t].cur)
  /\ Return(t)
  /\ UNCHANGED <<pmap, traffic, store>>

Start(t) ==
  \/ StartGet(t) \/ StartLock(t) \/ StartCheck(t) \/ StartPing(t)
  \/ StartManifest(t) \/ StartInit(t) \/ StartRun(t) \/ StartExec(t)

(***************************************************************************)
(* StopPlugin, and _stopPlugin, which WaitStopPlugin shares                *)
(***************************************************************************)

(* What the caller of StopPlugin does next, whatever it returned.          *)
AfterStop(t) ==
  CASE t \in Proc              -> "regInit"
    [] loc[t].op = "restart"   -> "startGet"
    [] OTHER                   -> Home(t)

StopGet(t) ==
  /\ pc[t] = "stopGet"
  /\ \/ /\ pmap = None
        /\ Finish(t, AfterStop(t))
     \/ /\ pmap # None
        /\ Move(t, "stopLock", [loc[t] EXCEPT !.cur = pmap, !.tgt = None])
  /\ UNCHANGED <<record, traffic, store, proc, up>>

StopLock(t) ==
  /\ pc[t] = "stopLock"
  /\ Acquire(t)
  /\ Move(t, "kill", [loc[t] EXCEPT !.ret = "stopDone"])
  /\ UNCHANGED <<pmap, info, traffic, store, proc, up>>

(* Mutant of Kill: the test for an endpoint is turned round.               *)
KillTurnedRound(t) ==
  /\ pc[t] = "kill"
  /\ \/ /\ info[loc[t].cur].endpoint # None
        /\ Goto(t, loc[t].ret)
     \/ /\ info[loc[t].cur].endpoint = None
        /\ Goto(t, "killPost")
  /\ UNCHANGED <<record, traffic, store, proc, up>>

(* _stopPlugin: nothing is done without an endpoint; otherwise the kill is *)
(* posted ...                                                              *)
Kill(t) ==
  /\ pc[t] = "kill"
  /\ \/ /\ info[loc[t].cur].endpoint = None
        /\ Goto(t, loc[t].ret)
     \/ /\ info[loc[t].cur].endpoint # None
        /\ Goto(t, "killPost")
  /\ UNCHANGED <<record, traffic, store, proc, up>>

(* ... to whatever process Post finds when it looks for itself.            *)
KillPost(t) ==
  /\ pc[t] = "killPost"
  /\ Move(t, "killed", [loc[t] EXCEPT !.tgt = PostTarget])
  /\ UNCHANGED <<record, traffic, store, proc, up>>

(* The child's /kill handler exits without an answer ...                   *)
KillServed(t) ==
  /\ pc[t] = "killed"
  /\ Answers(loc[t].tgt)
  /\ SetState(loc[t].tgt, "dead")
  /\ UNCHANGED <<record, traffic, store, up, pc, loc>>

(* ... and Post returns with an error.                                     *)
Killed(t) ==
  /\ pc[t] = "killed"
  /\ Refused(loc[t].tgt)
  /\ SetStatus(loc[t].cur, "NotStarted")
  /\ Move(t, loc[t].ret, [loc[t] EXCEPT !.tgt = None])
  /\ UNCHANGED <<pmap, lock, traffic, store, proc, up>>

(* Mutant of StopDone: unlocks the record that is in the map by then.      *)
StopDoneLookup(t) ==
  /\ pc[t] = "stopDone"
  /\ pmap # None
  /\ Unlock(pmap)
  /\ Finish(t, AfterStop(t))
  /\ UNCHANGED <<pmap, info, traffic, store, proc>>

StopDone(t) ==
  /\ pc[t] = "stopDone"
  /\ Unlock(loc[t].cur)
  /\ Finish(t, AfterStop(t))
  /\ UNCHANGED <<pmap, info, traffic, store, proc>>

Stop(t) ==
  \/ StopGet(t) \/ StopLock(t) \/ Kill(t) \/ KillPost(t) \/ KillServed(t)
  \/ Killed(t) \/ StopDone(t)

(***************************************************************************)
(* pluginRegisterHandler, serving child p                                  *)
(***************************************************************************)
RegCheck(p) ==
  /\ pc[p] = "regCheck"
  /\ \/ /\ PluginStatus \in {"Running", "Starting"}
        /\ Goto(p, "stopGet")
     \/ /\ PluginStatus \notin {"Running", "Starting"}
        /\ Goto(p, "regInit")
  /\ UNCHANGED <<record, traffic, store, proc, up>>

RegInit(p) ==
  /\ pc[p] = "regInit"
  /\ \E o \in Obj :
       /\ InitManifest(o, proc[p].ver, p)
       /\ Move(p, "regLock", [loc[p] EXCEPT !.cur = o])
  /\ UNCHANGED <<lock, traffic, store, proc, up>>

(* Mutant of RegLock: the status is written without the lock.              *)
RegLockNoWait(p) ==
  /\ pc[p] = "regLock"
  /\ SetStatus(loc[p].cur, "Running")
  /\ Return(p)
  /\ UNCHANGED <<pmap, lock, traffic, store, proc, up>>

(* The answer is sent once the handler has returned.                       *)
RegLock(p) ==
  /\ pc[p] = "regLock"
  /\ lock[loc[p].cur] = None
  /\ SetStatus(loc[p].cur, "Running")
  /\ Return(p)
  /\ UNCHANGED <<pmap, lock, traffic, store, proc, up>>

Register(p) == RegCheck(p) \/ RegInit(p) \/ RegLock(p)

(***************************************************************************)
(* heartbeat and pluginCoDeath                                             *)
(***************************************************************************)
Idle(o) == conns[o] = 0 /\ clock - lastConn[o] >= AutoExitTimeLimit

(* The loop over pluginMap: an idle plugin is stopped by the loop itself,  *)
(* any other is pinged by a goroutine (bound: one at a time).              *)
HeartbeatTick ==
  /\ "heartbeat" \in Events
  /\ pc[Heartbeat] = "idle"
  /\ PluginStatus = "Running"
  /\ \/ /\ AutoExit /\ Idle(pmap) /\ ~Debug
        /\ Goto(Heartbeat, "stopGet")
     \/ /\ ~(AutoExit /\ Idle(pmap))
        /\ pc[Pinger] = "idle"
        /\ Goto(Pinger, "pgPost")
  /\ UNCHANGED <<record, traffic, store, proc, up>>

PingPost ==
  /\ pc[Pinger] = "pgPost"
  /\ Move(Pinger, "pgPing", [loc[Pinger] EXCEPT !.tgt = PostTarget])
  /\ UNCHANGED <<record, traffic, store, proc, up>>

(* Mutant of PingAnswer: a ping that fails is forgotten.                   *)
PingAnswerIgnored ==
  /\ pc[Pinger] = "pgPing"
  /\ Answers(loc[Pinger].tgt) \/ Refused(loc[Pinger].tgt)
  /\ Return(Pinger)
  /\ UNCHANGED <<record, traffic, store, proc, up>>

PingAnswer ==
  /\ pc[Pinger] = "pgPing"
  /\ \/ Answers(loc[Pinger].tgt) /\ Return(Pinger)
     \/ Refused(loc[Pinger].tgt) /\ Finish(Pinger, "stopGet")
  /\ UNCHANGED <<record, traffic, store, proc, up>>

Signal ==
  /\ "signal" \in Events
  /\ pc[CoDeath] = "idle"
  /\ Goto(CoDeath, IF PluginStatus = "Running" THEN "stopGet" ELSE "ended")
  /\ UNCHANGED <<record, traffic, store, proc, up>>

Background == HeartbeatTick \/ PingPost \/ PingAnswer \/ Signal
===============================================================================
