----------------------------- MODULE PluginState ------------------------------
(***************************************************************************)
(* The state shared by every goroutine of the master that handles one      *)
(* plugin (package plugin/master), and the operations several handlers     *)
(* have in common: the plugin's PluginInfo record and the map entry that   *)
(* leads to it, its mutex, the plugin's directory on disk, its child       *)
(* processes, and one program counter and one frame of locals for each     *)
(* goroutine.                                                              *)
(*                                                                         *)
(* The handlers of one plugin meet those of another only in globalLock and *)
(* in the shards of pluginMap; every section under globalLock is one step  *)
(* here, so neither lock is a variable.                                    *)
(***************************************************************************)
EXTENDS Integers, FiniteSets

CONSTANTS
  Client,             (* goroutines that serve HTTP requests to the master  *)
  Proc,               (* child processes; each listens on a port of its own *)
  Obj,                (* PluginInfo records that may be allocated           *)
  Heartbeat,          (* the goroutine of heartbeat()                       *)
  Pinger,             (* the goroutine heartbeat() spawns to ping           *)
  CoDeath,            (* the goroutine of pluginCoDeath()                   *)
  None,               (* a nil pointer, an empty endpoint, a free mutex     *)
  Calls,              (* the operations each client may ask for             *)
  Events,             (* what may happen in the environment                 *)
  MaxVersion,         (* bound: versions the update server publishes        *)
  AutoExit,           (* the AutoExit field of the plugin's manifest        *)
  Debug,              (* plugin.Debug                                       *)
  AutoExitTimeLimit,  (* idle ticks before an automatic exit                *)
  MaxClock            (* bound: the clock stops here                        *)

Op == {"start", "stop", "restart", "checkUpdate", "uninstall", "proxy"}

(* "crash": a child exits on its own; "exec", "manifest", "api",           *)
(* "download", "unzip", "removeAll": the call fails; "heartbeat": five     *)
(* minutes pass; "signal": the master is signalled; "masterDies": its      *)
(* process ends; "restart": it is started again.                           *)
Event == {"crash", "exec", "manifest", "api", "download", "unzip",
          "removeAll", "heartbeat", "signal", "masterDies", "restart"}

Special == {Heartbeat, Pinger, CoDeath}

(* A registering child is served by a goroutine named after the child.     *)
Thread == Client \cup Proc \cup Special

ASSUME ThreadAssumption ==
  /\ Client \cap Proc = {}
  /\ Special \cap (Client \cup Proc) = {}
  /\ Cardinality(Special) = 3
  /\ None \notin Thread \cup Obj

ASSUME CallAssumption ==
  /\ Calls \in [Client -> SUBSET Op]
  /\ Events \subseteq Event

ASSUME BoundAssumption ==
  /\ MaxVersion \in Nat \ {0}
  /\ AutoExitTimeLimit \in Nat \ {0}
  /\ MaxClock \in Nat /\ MaxClock >= AutoExitTimeLimit
  /\ AutoExit \in BOOLEAN /\ Debug \in BOOLEAN

VARIABLES
  pmap,       (* pluginMap's entry for the plugin: a record, or None         *)
  info,       (* the PluginInfo records                                     *)
  lock,       (* PluginInfo.lock: the goroutine that holds it, or None       *)
  conns,      (* PluginInfo.Connections                                     *)
  lastConn,   (* PluginInfo.LastConnTime                                    *)
  clock,      (* time.Now()                                                 *)
  disk,       (* version in the plugin's directory, 0 when there is none    *)
  published,  (* the version the update server offers                       *)
  cached,     (* latestInfoMap's entry, 0 when there is none                *)
  proc,       (* the child processes and the goroutines that wait for them  *)
  up,         (* the master's process is alive                              *)
  pc,         (* where each goroutine is                                    *)
  loc         (* its local variables                                        *)

record  == <<pmap, info, lock>>
traffic == <<conns, lastConn, clock>>
store   == <<disk, published, cached>>
vars    == <<pmap, info, lock, conns, lastConn, clock, disk, published, cached,
             proc, up, pc, loc>>

-----------------------------------------------------------------------------
Failed == {"DownloadFailed", "InstallFailed"}
Status == {"Unallocated", "NotStarted", "Starting", "Running", "Downloading"}
            \cup Failed

Version == 0 .. MaxVersion

Info == [status : Status, endpoint : Proc \cup {None}, version : Version]

NoInfo == [status |-> "Unallocated", endpoint |-> None, version |-> 0]

(* A child is launched by exec, registering while its POST to              *)
(* /plugin/register is unanswered (its socket listens, nobody answers),    *)
(* then serving; an orphan when the master it was started by is no more    *)
(* and another one answers at its address.                                 *)
(* cap and obj are the variables run()'s goroutine captured.               *)
ProcInfo ==
  [state : {"none", "launched", "registering", "serving", "orphan", "dead"},
   cap   : Proc \cup {None},
   obj   : Obj \cup {None},
   ver   : Version,
   reap  : {"wait", "match", "done"}]

NoProc == [state |-> "none", cap |-> None, obj |-> None, ver |-> 0,
           reap |-> "wait"]

StartLabel  == {"startGet", "startLock", "startCheck", "startPing",
                "startManifest", "startInit", "startRun", "startExec"}
StopLabel   == {"stopGet", "stopLock", "kill", "killPost", "killed", "stopDone"}
RegLabel    == {"regCheck", "regInit", "regLock"}
WaitLabel   == {"wsPost", "wsPing", "wsAgain", "wsProbe"}
UpdateLabel == {"check", "compare", "snap", "instInit", "instLock", "decide",
                "download", "unzip", "recheck", "checkLock"}
UninstLabel == {"uninstGet", "rawRemove", "uninstLock", "remove"}
PingLabel   == {"pgPost", "pgPing"}
ProxyLabel  == {"proxyEnter", "proxyRoute", "proxySend", "proxyWait"}

Label == {"idle", "ended"} \cup StartLabel \cup StopLabel \cup RegLabel
           \cup WaitLabel \cup UpdateLabel \cup UninstLabel \cup PingLabel
           \cup ProxyLabel

(* The labels between a Lock() of the record and its Unlock().             *)
Holding == {"startCheck", "startPing", "startExec", "kill", "killPost",
            "killed", "stopDone", "wsPost", "wsPing", "wsAgain", "wsProbe",
            "decide", "download", "unzip", "remove"}

(* op: the call being served, when a shared step depends on it;            *)
(* cur: the *PluginInfo in hand; tgt: the process an HTTP request went to, *)
(* in run() the endpoint before the launch;                                *)
(* ver: the manifest's version; snap: lastInfo.Version, 0 when there was   *)
(* no record; ret: where _stopPlugin returns to.                           *)
Locals ==
  [op : {"none", "restart", "uninstall"},
   cur : Obj \cup {None}, tgt : Proc \cup {None},
   ver : Version, snap : Version,
   ret : {"idle", "stopDone", "wsAgain", "decide", "remove"}]

NoLocals == [op |-> "none", cur |-> None, tgt |-> None, ver |-> 0, snap |-> 0,
             ret |-> "idle"]

TypeOK ==
  /\ pmap \in Obj \cup {None}
  /\ info \in [Obj -> Info]
  /\ lock \in [Obj -> Thread \cup {None}]
  /\ conns \in [Obj -> Int]
  /\ lastConn \in [Obj -> 0 .. MaxClock]
  /\ clock \in 0 .. MaxClock
  /\ disk \in Version
  /\ published \in Version \ {0}
  /\ cached \in Version
  /\ proc \in [Proc -> ProcInfo]
  /\ up \in BOOLEAN
  /\ pc \in [Thread -> Label]
  /\ loc \in [Thread -> Locals]

-----------------------------------------------------------------------------
(* Moving through a handler.                                               *)

Move(t, l, f) ==
  /\ pc' = [pc EXCEPT ![t] = l]
  /\ loc' = [loc EXCEPT ![t] = f]

Goto(t, l) == Move(t, l, loc[t])

(* Go on at l with nothing left in the frame.                              *)
Finish(t, l) == Move(t, l, NoLocals)

(* pluginCoDeath's goroutine handles one signal and ends.                  *)
Home(t) == IF t = CoDeath THEN "ended" ELSE "idle"

Return(t) == Finish(t, Home(t))

(* sync.Mutex: Unlock does not ask who locked; of a free mutex it is a     *)
(* fatal error that ends the master.                                       *)
Acquire(t) ==
  /\ lock[loc[t].cur] = None
  /\ lock' = [lock EXCEPT ![loc[t].cur] = t]

Unlock(o) ==
  \/ /\ lock[o] # None
     /\ lock' = [lock EXCEPT ![o] = None]
     /\ UNCHANGED up
  \/ /\ lock[o] = None
     /\ up' = FALSE
     /\ UNCHANGED lock

SetStatus(o, s) == info' = [info EXCEPT ![o].status = s]

Fresh == {o \in Obj : info[o].status = "Unallocated"}

(* initManifest of a manifest with version v and endpoint e; o is the      *)
(* record it returns. A manifest from disk or from the update server has   *)
(* no endpoint, and overwrites the one the running child registered.       *)
InitManifest(o, v, e) ==
  \/ /\ pmap # None
     /\ o = pmap
     /\ info' = [info EXCEPT ![o].version = v, ![o].endpoint = e]
     /\ UNCHANGED pmap
  \/ /\ pmap = None
     /\ o \in Fresh
     /\ pmap' = o
     /\ info' = [info EXCEPT ![o] = [status |-> "NotStarted", endpoint |-> e,
                                     version |-> v]]

(* What a look-up of the plugin finds.                                     *)
PluginStatus  == IF pmap = None THEN "Unallocated" ELSE info[pmap].status
PluginVersion == IF pmap = None THEN 0 ELSE info[pmap].version

(* Post refuses when the plugin is unknown or not Running, and has no URL  *)
(* to send to without an endpoint; otherwise the request goes to the       *)
(* endpoint read here, whatever is registered before the answer.           *)
PostTarget ==
  IF PluginStatus = "Running" THEN info[pmap].endpoint ELSE None

(* A child that listens but does not serve yet leaves the caller waiting:  *)
(* http.Client has no timeout.                                             *)
Answers(p) == p \in {q \in Proc : proc[q].state = "serving"}
Refused(p) == p \in {None} \cup {q \in Proc : proc[q].state = "dead"}

Alive(p) == proc[p].state \in {"launched", "registering", "serving", "orphan"}
===============================================================================
