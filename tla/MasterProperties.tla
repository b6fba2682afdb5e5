--------------------------- MODULE MasterProperties ---------------------------
(***************************************************************************)
(* What the master promises about one plugin.                              *)
(***************************************************************************)
EXTENDS Master

-----------------------------------------------------------------------------
(* Safety                                                                  *)

\* A record's mutex is held by the goroutine that is between its Lock() and its
\* Unlock() of that record, and by no other.
Disciplined ==
  \A o \in Obj, t \in Thread :
    lock[o] = t <=> pc[t] \in Holding /\ loc[t].cur = o

\* StartPlugin leaves its second look-up without the record it locked: the map
\* has another one by then, or none.
Strays ==
  \E t \in Thread : pc[t] = "startCheck" /\ pc'[t] # pc[t] /\ loc[t].cur # pmap

\* A step keeps the discipline, and no Unlock() in it is fatal.
KeepsDiscipline == Disciplined' /\ (up /\ ~up' => pc' = pc)

\* Nobody leaves a record locked behind, unlocks another goroutine's mutex or
\* ends the master by unlocking a free one, records removed and replaced
\* included, until StartPlugin leaves its second look-up with another record
\* than the one it locked, or with none. That alone breaks the discipline, and
\* it does (MutexGivenBack).
LockDiscipline ==
  /\ Disciplined
  /\ [][Disciplined => KeepsDiscipline \/ Strays]_vars

\* The Downloading status is only ever visible while the installer that set
\* it holds the record's lock: no StartPlugin, registration or uninstall can
\* run under it, and the test for it that InstallPlugin makes after locking
\* never succeeds.
DownloadExclusive ==
  \A o \in Obj : info[o].status = "Downloading" =>
    \E t \in Thread : pc[t] \in {"download", "unzip"} /\ loc[t].cur = o
                        /\ lock[o] = t

\* Connections counts exactly the requests being proxied, whatever starts,
\* stops and registrations happen meanwhile; the automatic exit relies on it.
ConnectionsExact ==
  \A o \in Obj :
    conns[o] = Cardinality({t \in Client : pc[t] \in ProxyLabel \ {"proxyEnter"}
                                             /\ loc[t].cur = o})

\* WaitStopPlugin never gives up: once it has sent a kill, no child answers
\* its second ping, although the endpoint may be rewritten meanwhile without
\* the lock. So "stop failed" is unreachable and uninstalling goes on, where
\* RemoveAll does not fail and leaves the record in the map.
StopNeverFails ==
  \A t \in Thread : pc[t] = "wsProbe" => ~Answers(loc[t].tgt)

\* What the polled Status field promises, whoever writes it: the handlers
\* implement StatusPhases, reapers and lock-free initManifest
\* included, as long as the record stays in the map.
Polled == INSTANCE StatusPhases WITH
  status     <- PluginStatus,
  installing <- \E t \in Thread : pc[t] \in {"download", "unzip"}

StatusInPhases == Polled!Spec

-----------------------------------------------------------------------------
(* Liveness                                                                *)

\* Go's mutex hands itself to the goroutine that has waited longest once a
\* wait takes over a millisecond, so a goroutine that keeps finding the lock
\* free in between gets it; goroutines and children that can run, do; and a
\* launched child registers or ends.
Locking(t) ==
  up /\ (StartLock(t) \/ StartRun(t) \/ StopLock(t) \/ InstLock(t)
           \/ CheckLock(t) \/ UninstLock(t))

Fairness ==
  /\ \A t \in Thread : WF_vars(Step(t)) /\ SF_vars(Locking(t))
  /\ \A p \in Proc : /\ WF_vars(Registering(p)) /\ SF_vars(up /\ RegLock(p))
                     /\ WF_vars(SlaveStart(p)) /\ WF_vars(SlaveServe(p))
                     /\ WF_vars(SlaveHeartbeat(p)) /\ WF_vars(Reaper(p))
  /\ WF_vars(up /\ HeartbeatTick) /\ WF_vars(up /\ PingPost)
  /\ WF_vars(up /\ PingAnswer)

FairSpec == Spec /\ Fairness

\* The one way to wait for ever: a goroutine holds the record's lock and has
\* sent a ping or a kill to a child that listens but will not serve before its
\* own registration, which waits for that lock, is answered.
Wedged ==
  \E t \in Thread, p \in Proc :
    /\ pc[t] \in {"startPing", "killed", "wsPing", "wsProbe"}
    /\ loc[t].tgt = p
    /\ proc[p].state = "registering" /\ pc[p] = "regLock"
    /\ loc[p].cur = loc[t].cur

\* Every call and every registration comes to an end, unless the record's lock
\* is wedged or the master dies.
CallsReturn ==
  \A t \in Client \cup Proc : pc[t] \notin {"idle", "ended"} ~>
                      (pc[t] \in {"idle", "ended"} \/ Wedged \/ ~up)

\* A plugin does not stay Starting: its child registers, or the goroutine
\* that waits for it takes the status back.
StartingResolves ==
  \A o \in Obj : info[o].status = "Starting" ~>
                   (info[o].status # "Starting" \/ Wedged \/ ~up)

\* A plugin that is Running on paper, with its child gone, does not stay so:
\* the heartbeat's ping fails and StopPlugin takes the status back.
DeadChildNoticed ==
  \A o \in Obj, p \in Proc :
    LET onPaper == info[o].status = "Running" /\ info[o].endpoint = p
    IN  (onPaper /\ proc[p].state = "dead") ~> (~onPaper \/ Wedged \/ ~up)

\* No child outlives the master it was started by: its heartbeat or its
\* registration fails, on the lost master or on the next one. (In debug mode all
\* masters have the same token, and it may stay.)
OrphansExit ==
  ~Debug => \A p \in Proc : (~up /\ Alive(p)) ~> ~Alive(p)

-----------------------------------------------------------------------------
(* What comments in the code say, and the code does not do                 *)

\* plugin_manager.go:110, "concurrent calls to start do not start it twice":
\* run() is not entered for a plugin that is already starting.
NoDoubleStart ==
  [][\A t \in Thread : pc[t] = "startRun" /\ pc'[t] = "startExec"
                         => info[loc[t].cur].status # "Starting"]_vars

\* plugin_manager.go:110, "double-checked", and lines 111-127, of which each
\* branch unlocks the record, also that for a plugin that is gone: nobody is
\* back from a call and still holds the mutex of a record.
MutexGivenBack == \A o \in Obj : lock[o] # None => pc[lock[o]] \in Holding

\* plugin_manager.go:225, "stop the process before installing": the plugin's
\* directory is not replaced under a child that is serving.
InstallStopsFirst ==
  [][\A t \in Thread, p \in Proc : pc[t] = "download" /\ pc'[t] = "unzip"
                                     => proc[p].state # "serving"]_vars

\* plugin_manager.go:193, "lest it can never be installed again": once its
\* directory is gone, installing the plugin downloads it.
ReinstallPossible ==
  [][\A t \in Thread : pc[t] = "decide" /\ pc'[t] # "decide" /\ disk = 0
                         => pc'[t] = "download"]_vars
=============================================================================
