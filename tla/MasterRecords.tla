---------------------------- MODULE MasterRecords -----------------------------
(***************************************************************************)
(* What a plugin's record is good for, for every value of the constants.   *)
(* Its count is the number of requests that are being proxied with it      *)
(* (ConnectionsExact), and, where RemoveAll does not fail, WaitStopPlugin  *)
(* does not (StopNeverFails) and the record shows a life the plugin really *)
(* has (the refinement of StatusPhases): who holds the one record in the   *)
(* map is alone in it.                                                     *)
(***************************************************************************)
EXTENDS MasterLocking, FiniteSetTheorems

USE DEF record, traffic, store

\* The requests that are counted in record o.
Proxied(o) ==
  {t \in Client : pc[t] \in ProxyLabel \ {"proxyEnter"} /\ loc[t].cur = o}

\* Only clients proxy.
ClientsProxy == \A t \in Thread : pc[t] \in ProxyLabel => t \in Client

\* Every record counts its own.
Counted == \A o \in Obj : conns[o] = Cardinality(Proxied(o))

ConnInv == ClientsProxy /\ Counted

\* The labels of a request that is counted.
CountedLabel == {"proxyRoute", "proxySend", "proxyWait"}

\* Goroutine t starts or stops being counted nowhere, and starts no proxying.
Uncounted(t) ==
  /\ \A u \in Thread \ {t} : pc'[u] = pc[u] /\ loc'[u] = loc[u]
  /\ pc[t] \notin CountedLabel /\ pc'[t] \notin ProxyLabel

\* Such a step keeps the count.
LEMMA UncountedKept ==
  ASSUME ConnInv, NEW t \in Thread, Uncounted(t), UNCHANGED conns
  PROVE  ConnInv'
<1>1. ClientsProxy'
  BY DEF ConnInv, ClientsProxy, Uncounted
<1>2. \A o \in Obj : Proxied(o)' = Proxied(o)
  BY Threads DEF Uncounted, Proxied, CountedLabel, ProxyLabel
<1>3. Counted'
  BY <1>2 DEF ConnInv, Counted
<1> QED BY <1>1, <1>3 DEF ConnInv

\* Move changes one goroutine.
LEMMA Moved ==
  ASSUME TypeInv, NEW t \in Thread, NEW l, NEW f, Move(t, l, f)
  PROVE  /\ \A u \in Thread \ {t} : pc'[u] = pc[u] /\ loc'[u] = loc[u]
         /\ pc'[t] = l /\ loc'[t] = f
BY DEF TypeInv, TypeOK, Move

\* A goroutine that moves between labels where no request is counted keeps the
\* count.
LEMMA MoveKept ==
  ASSUME TypeInv, ConnInv, NEW t \in Thread, NEW l, NEW f, Move(t, l, f),
         pc[t] \notin CountedLabel, l \notin ProxyLabel, UNCHANGED conns
  PROVE  ConnInv'
BY Moved, UncountedKept DEF Uncounted

\* ... and so does one that keeps its locals,
LEMMA GotoKept ==
  ASSUME TypeInv, ConnInv, NEW t \in Thread, NEW l, Goto(t, l),
         pc[t] \notin CountedLabel, l \notin ProxyLabel, UNCHANGED conns
  PROVE  ConnInv'
BY MoveKept DEF Goto

\* ... or clears them,
LEMMA FinishKept ==
  ASSUME TypeInv, ConnInv, NEW t \in Thread, NEW l, Finish(t, l),
         pc[t] \notin CountedLabel, l \notin ProxyLabel, UNCHANGED conns
  PROVE  ConnInv'
BY MoveKept DEF Finish

\* ... or returns.
LEMMA ReturnKept ==
  ASSUME TypeInv, ConnInv, NEW t \in Thread, Return(t),
         pc[t] \notin CountedLabel, UNCHANGED conns
  PROVE  ConnInv'
BY FinishKept, HomeTyped DEF Return, ProxyLabel

\* A step that moves nobody keeps the count.
LEMMA StillKept ==
  ASSUME ConnInv, UNCHANGED <<pc, loc, conns>> PROVE ConnInv'
BY DEF ConnInv, ClientsProxy, Counted, Proxied

\* StartPlugin's steps count nothing.
LEMMA CountStart ==
  ASSUME TypeInv, ConnInv, NEW t \in Thread, Start(t) PROVE ConnInv'
<1>1. CASE StartGet(t)
  BY <1>1, MoveKept, GotoKept
     DEF StartGet, CountedLabel, ProxyLabel
<1>2. CASE StartLock(t)
  BY <1>2, GotoKept
     DEF StartLock, CountedLabel, ProxyLabel
<1>3. CASE StartCheck(t)
  BY <1>3, MoveKept, FinishKept, ReturnKept
     DEF StartCheck, CountedLabel, ProxyLabel
<1>4. CASE StartPing(t)
  BY <1>4, FinishKept, ReturnKept
     DEF StartPing, CountedLabel, ProxyLabel
<1>5. CASE StartManifest(t)
  BY <1>5, MoveKept, ReturnKept
     DEF StartManifest, CountedLabel, ProxyLabel
<1>6. CASE StartInit(t)
  BY <1>6, MoveKept
     DEF StartInit, CountedLabel, ProxyLabel
<1>7. CASE StartRun(t)
  BY <1>7, MoveKept
     DEF StartRun, CountedLabel, ProxyLabel
<1>8. CASE StartExec(t)
  BY <1>8, ReturnKept
     DEF StartExec, CountedLabel, ProxyLabel
<1> QED BY <1>1, <1>2, <1>3, <1>4, <1>5, <1>6, <1>7, <1>8 DEF Start

\* Nor do StopPlugin's and _stopPlugin's.
LEMMA CountStop ==
  ASSUME TypeInv, ConnInv, NEW t \in Thread, Stop(t) PROVE ConnInv'
<1>a. AfterStop(t) \notin ProxyLabel
  BY HomeTyped DEF AfterStop, ProxyLabel
<1>b. loc[t].ret \notin ProxyLabel
  BY DEF TypeInv, TypeOK, Locals, ProxyLabel
<1>1. CASE StopGet(t)
  BY <1>1, MoveKept, FinishKept, <1>a
     DEF StopGet, CountedLabel, ProxyLabel
<1>2. CASE StopLock(t)
  BY <1>2, MoveKept
     DEF StopLock, CountedLabel, ProxyLabel
<1>3. CASE Kill(t)
  BY <1>3, GotoKept, <1>b
     DEF Kill, CountedLabel, ProxyLabel
<1>4. CASE KillPost(t)
  BY <1>4, MoveKept
     DEF KillPost, CountedLabel, ProxyLabel
<1>5. CASE KillServed(t)
  BY <1>5, StillKept
     DEF KillServed, CountedLabel, ProxyLabel
<1>6. CASE Killed(t)
  BY <1>6, MoveKept, <1>b
     DEF Killed, CountedLabel, ProxyLabel
<1>7. CASE StopDone(t)
  BY <1>7, FinishKept, <1>a
     DEF StopDone, CountedLabel, ProxyLabel
<1> QED BY <1>1, <1>2, <1>3, <1>4, <1>5, <1>6, <1>7 DEF Stop

\* Nor do pluginRegisterHandler's.
LEMMA CountRegister ==
  ASSUME TypeInv, ConnInv, NEW p \in Proc, Register(p) PROVE ConnInv'
<1>1. CASE RegCheck(p)
  BY <1>1, GotoKept, Threads
     DEF RegCheck, CountedLabel, ProxyLabel
<1>2. CASE RegInit(p)
  BY <1>2, MoveKept, Threads
     DEF RegInit, CountedLabel, ProxyLabel
<1>3. CASE RegLock(p)
  BY <1>3, ReturnKept, Threads
     DEF RegLock, CountedLabel, ProxyLabel
<1> QED BY <1>1, <1>2, <1>3 DEF Register

\* Nor do CheckUpdate's and InstallPlugin's.
LEMMA CountUpdate ==
  ASSUME TypeInv, ConnInv, NEW t \in Thread, Update(t) PROVE ConnInv'
<1>1. CASE Check(t)
  BY <1>1, MoveKept, GotoKept, ReturnKept
     DEF Check, CountedLabel, ProxyLabel
<1>2. CASE Compare(t)
  BY <1>2, MoveKept
     DEF Compare, CountedLabel, ProxyLabel
<1>3. CASE Recheck(t)
  BY <1>3, MoveKept, ReturnKept
     DEF Recheck, CountedLabel, ProxyLabel
<1>4. CASE CheckLock(t)
  BY <1>4, ReturnKept
     DEF CheckLock, CountedLabel, ProxyLabel
<1>5. CASE Snap(t)
  BY <1>5, MoveKept
     DEF Snap, CountedLabel, ProxyLabel
<1>6. CASE InstInit(t)
  BY <1>6, MoveKept
     DEF InstInit, CountedLabel, ProxyLabel
<1>7. CASE InstLock(t)
  BY <1>7, GotoKept
     DEF InstLock, CountedLabel, ProxyLabel
<1>8. CASE Decide(t)
  BY <1>8, GotoKept, FinishKept
     DEF Decide, CountedLabel, ProxyLabel
<1>9. CASE Download(t)
  BY <1>9, GotoKept, ReturnKept
     DEF Download, CountedLabel, ProxyLabel
<1>10. CASE Unzip(t)
  BY <1>10, FinishKept, ReturnKept
     DEF Unzip, CountedLabel, ProxyLabel
<1> QED BY <1>1, <1>2, <1>3, <1>4, <1>5, <1>6, <1>7, <1>8, <1>9, <1>10 DEF Update

\* Nor do WaitStopPlugin's.
LEMMA CountWaitStop ==
  ASSUME TypeInv, ConnInv, NEW t \in Thread, WaitStop(t) PROVE ConnInv'
<1>1. CASE WsPost(t)
  BY <1>1, MoveKept
     DEF WsPost, CountedLabel, ProxyLabel
<1>2. CASE WsPing(t)
  BY <1>2, MoveKept
     DEF WsPing, CountedLabel, ProxyLabel
<1>3. CASE WsAgain(t)
  BY <1>3, MoveKept
     DEF WsAgain, CountedLabel, ProxyLabel
<1>4. CASE WsProbe(t)
  BY <1>4, MoveKept, ReturnKept
     DEF WsProbe, Stopped, CountedLabel, ProxyLabel
<1> QED BY <1>1, <1>2, <1>3, <1>4 DEF WaitStop

\* Nor do UninstallPlugin's.
LEMMA CountUninstall ==
  ASSUME TypeInv, ConnInv, NEW t \in Thread, Uninstall(t) PROVE ConnInv'
<1>1. CASE UninstGet(t)
  BY <1>1, MoveKept, GotoKept
     DEF UninstGet, CountedLabel, ProxyLabel
<1>2. CASE RawRemove(t)
  BY <1>2, ReturnKept
     DEF RawRemove, CountedLabel, ProxyLabel
<1>3. CASE UninstLock(t)
  BY <1>3, GotoKept
     DEF UninstLock, CountedLabel, ProxyLabel
<1>4. CASE Remove(t)
  BY <1>4, ReturnKept
     DEF Remove, CountedLabel, ProxyLabel
<1> QED BY <1>1, <1>2, <1>3, <1>4 DEF Uninstall

-----------------------------------------------------------------------------
\* Finitely many clients are proxied at a time.
LEMMA ProxiedFinite ==
  ASSUME IsFiniteSet(Client), NEW o
  PROVE  IsFiniteSet(Proxied(o)) /\ Cardinality(Proxied(o)) \in Nat
BY FS_Subset, FS_CardinalityType DEF Proxied

\* A request that comes to record o is one more there, and no other record's.
LEMMA Entered ==
  ASSUME IsFiniteSet(Client), TypeInv, ConnInv, NEW t \in Client, NEW o \in Obj,
         NEW f, f.cur = o, pc[t] \notin CountedLabel, Move(t, "proxyRoute", f),
         conns' = [conns EXCEPT ![o] = @ + 1]
  PROVE  ConnInv'
<1>1. /\ \A u \in Thread \ {t} : pc'[u] = pc[u] /\ loc'[u] = loc[u]
      /\ pc'[t] = "proxyRoute" /\ loc'[t].cur = o
  BY Moved, Threads
<1>2. Proxied(o)' = Proxied(o) \cup {t} /\ t \notin Proxied(o)
  BY <1>1, Threads DEF Proxied, CountedLabel, ProxyLabel
<1>3. \A x \in Obj \ {o} : Proxied(x)' = Proxied(x)
  BY <1>1, Threads DEF Proxied, CountedLabel, ProxyLabel
<1>4. Cardinality(Proxied(o)') = Cardinality(Proxied(o)) + 1
  BY <1>2, ProxiedFinite, FS_AddElement
<1>5. Counted'
  BY <1>3, <1>4 DEF ConnInv, Counted, TypeInv, TypeOK
<1>6. ClientsProxy'
  BY <1>1 DEF ConnInv, ClientsProxy
<1> QED BY <1>5, <1>6 DEF ConnInv

\* A request that is over is one less on the record it was counted on.
LEMMA Left ==
  ASSUME IsFiniteSet(Client), TypeInv, ConnInv, NEW t \in Client,
         pc[t] \in CountedLabel, Uncount(loc[t].cur), Return(t)
  PROVE  ConnInv'
<1>1. /\ \A u \in Thread \ {t} : pc'[u] = pc[u] /\ loc'[u] = loc[u]
      /\ pc'[t] \in {"idle", "ended"}
  BY Moved, Threads, HomeTyped DEF Return, Finish
<1>2. PICK o \in Obj : o = loc[t].cur
  BY Threads DEF TypeInv, FrameOK, FrameFits, CountedLabel, NeedsRecord
<1>3. Proxied(o)' = Proxied(o) \ {t} /\ t \in Proxied(o)
  BY <1>1, <1>2, Threads DEF Proxied, CountedLabel, ProxyLabel
<1>4. \A x \in Obj \ {o} : Proxied(x)' = Proxied(x)
  BY <1>1, <1>2, Threads DEF Proxied, CountedLabel, ProxyLabel
<1>5. Cardinality(Proxied(o)') = Cardinality(Proxied(o)) - 1
  BY <1>3, ProxiedFinite, FS_RemoveElement
<1>6. conns' = [conns EXCEPT ![o] = @ - 1]
  BY <1>2 DEF Uncount
<1>7. Counted'
  BY <1>2, <1>4, <1>5, <1>6 DEF ConnInv, Counted, TypeInv, TypeOK
<1>8. ClientsProxy'
  BY <1>1 DEF ConnInv, ClientsProxy, ProxyLabel
<1> QED BY <1>7, <1>8 DEF ConnInv

\* A request that is forwarded stays counted where it is.
LEMMA Forwarded ==
  ASSUME TypeInv, ConnInv, NEW t \in Client, pc[t] \in CountedLabel,
         NEW l \in CountedLabel, NEW f, f.cur = loc[t].cur, Move(t, l, f),
         UNCHANGED conns
  PROVE  ConnInv'
<1>1. /\ \A u \in Thread \ {t} : pc'[u] = pc[u] /\ loc'[u] = loc[u]
      /\ pc'[t] = l /\ loc'[t].cur = loc[t].cur
  BY Moved, Threads
<1>2. \A o \in Obj : Proxied(o)' = Proxied(o)
  BY <1>1, Threads DEF Proxied, CountedLabel, ProxyLabel
<1> QED BY <1>1, <1>2 DEF ConnInv, ClientsProxy, Counted

\* defaultHandle's steps count each request once and uncount it where it was
\* counted.
LEMMA CountProxy ==
  ASSUME IsFiniteSet(Client), TypeInv, ConnInv, NEW t \in Thread, Proxy(t)
  PROVE  ConnInv'
<1>1. CASE ProxyEnter(t)
  <2>1. pc[t] = "proxyEnter" /\ t \in Client
    BY <1>1 DEF ProxyEnter, ConnInv, ClientsProxy, ProxyLabel
  <2>2. CASE pmap = None
    BY <1>1, <2>1, <2>2, ReturnKept DEF ProxyEnter, CountedLabel
  <2>3. CASE pmap # None
    <3>1. pmap \in Obj /\ [loc[t] EXCEPT !.cur = pmap].cur = pmap
      BY <2>3 DEF TypeInv, TypeOK, Locals
    <3> QED BY <1>1, <2>1, <2>3, <3>1, Entered DEF ProxyEnter, CountedLabel
  <2> QED BY <2>2, <2>3
<1>2. CASE ProxyRoute(t)
  <2>1. pc[t] \in CountedLabel /\ t \in Client
    BY <1>2 DEF ProxyRoute, ConnInv, ClientsProxy, ProxyLabel, CountedLabel
  <2>2. CASE Goto(t, "proxySend") /\ UNCHANGED conns
    BY <2>1, <2>2, Forwarded DEF Goto, CountedLabel
  <2> QED BY <1>2, <2>1, <2>2, Left DEF ProxyRoute
<1>3. CASE ProxySend(t)
  <2>1. pc[t] \in CountedLabel /\ t \in Client
    BY <1>3 DEF ProxySend, ConnInv, ClientsProxy, ProxyLabel, CountedLabel
  <2>2. \A x : [loc[t] EXCEPT !.tgt = x].cur = loc[t].cur
    BY DEF TypeInv, TypeOK, Locals
  <2> QED BY <1>3, <2>1, <2>2, Forwarded DEF ProxySend, CountedLabel
<1>4. CASE ProxyWait(t)
  <2>1. pc[t] \in CountedLabel /\ t \in Client
    BY <1>4 DEF ProxyWait, ConnInv, ClientsProxy, ProxyLabel, CountedLabel
  <2> QED BY <1>4, <2>1, Left DEF ProxyWait
<1> QED BY <1>1, <1>2, <1>3, <1>4 DEF Proxy

-----------------------------------------------------------------------------
\* A request arrives at no record yet, and only a client proxies.
LEMMA CountRequest ==
  ASSUME TypeInv, ConnInv, NEW t \in Client, Call(t) PROVE ConnInv'
<1>1. PICK op \in Calls[t] : \E f : Move(t, FirstLabel[op], f)
  BY DEF Call
<1>2. /\ \A u \in Thread \ {t} : pc'[u] = pc[u] /\ loc'[u] = loc[u]
      /\ pc'[t] = FirstLabel[op]
  BY <1>1, Moved, Threads
<1>3. op \in Op /\ FirstLabel[op] \notin CountedLabel
  BY CallAssumption DEF Op, FirstLabel, CountedLabel
<1>4. pc[t] \notin CountedLabel /\ conns' = conns
  BY DEF Call, CountedLabel
<1>5. \A o \in Obj : Proxied(o)' = Proxied(o)
  BY <1>2, <1>3, <1>4, Threads DEF Proxied, CountedLabel, ProxyLabel
<1> QED BY <1>2, <1>4, <1>5 DEF ConnInv, ClientsProxy, Counted

\* The heartbeat and signal goroutines count nothing.
LEMMA CountBackground ==
  ASSUME TypeInv, ConnInv, Background PROVE ConnInv'
<1>1. CASE HeartbeatTick
  BY <1>1, Threads, GotoKept DEF HeartbeatTick, CountedLabel, ProxyLabel
<1>2. CASE PingPost
  BY <1>2, Threads, MoveKept DEF PingPost, CountedLabel, ProxyLabel
<1>3. CASE PingAnswer
  BY <1>3, Threads, FinishKept, ReturnKept DEF PingAnswer, CountedLabel, ProxyLabel
<1>4. CASE Signal
  BY <1>4, Threads, GotoKept DEF Signal, CountedLabel, ProxyLabel
<1> QED BY <1>1, <1>2, <1>3, <1>4 DEF Background

\* A child counts nothing, and no request is being proxied by the goroutine
\* that will serve its registration.
LEMMA CountSlave ==
  ASSUME TypeInv, ConnInv, NEW p \in Proc, Slave(p) PROVE ConnInv'
<1>1. CASE SlaveStart(p) /\ Goto(p, "regCheck")
  <2>1. p \in Thread /\ p \notin Client
    BY Threads, ThreadAssumption
  <2>2. pc[p] \notin CountedLabel
    BY <2>1 DEF ConnInv, ClientsProxy, CountedLabel, ProxyLabel
  <2> QED BY <1>1, <2>1, <2>2, GotoKept DEF SlaveStart, ProxyLabel
<1>2. CASE UNCHANGED <<pc, loc, conns>>
  BY <1>2, StillKept
<1> QED BY <1>1, <1>2
   DEF Slave, SlaveStart, SlaveServe, SlaveHeartbeat, SlaveExit

\* The master's steps keep the count, and so does its restart, after which there
\* is nothing to count.
LEMMA CountNext ==
  ASSUME IsFiniteSet(Client), TypeInv, ConnInv, [Next]_vars PROVE ConnInv'
<1>1. CASE \E t \in Thread : Step(t)
  BY <1>1, CountStart, CountStop, CountUpdate, CountWaitStop, CountUninstall,
     CountProxy DEF Step
<1>2. CASE \E t \in Client : Request(t)
  BY <1>2, CountRequest DEF Request
<1>3. CASE \E p \in Proc : Registering(p) \/ Slave(p)
  BY <1>3, CountRegister, CountSlave DEF Registering
<1>4. CASE \E p \in Proc : Reaper(p)
  BY <1>4, StillKept DEF Reaper, ReapMatch, ReapWrite
<1>5. CASE InBackground
  BY <1>5, CountBackground DEF InBackground
<1>6. CASE MasterRestarts
  <2>1. \A t \in Thread : pc'[t] = "idle"
    BY <1>6 DEF MasterRestarts
  <2>2. \A o \in Obj : conns'[o] = 0 /\ Proxied(o)' = {}
    BY <1>6, <2>1, Threads DEF MasterRestarts, Proxied, ProxyLabel
  <2> QED BY <2>1, <2>2, FS_EmptySet DEF ConnInv, ClientsProxy, Counted, ProxyLabel
<1>7. CASE Publish \/ Tick \/ MasterDies \/ UNCHANGED vars
  BY <1>7, StillKept DEF Publish, Tick, MasterDies, vars
<1> QED BY <1>1, <1>2, <1>3, <1>4, <1>5, <1>6, <1>7 DEF Next, Environment

\* Nothing is proxied when the master starts.
LEMMA CountInit == Init => ConnInv
<1> SUFFICES ASSUME Init PROVE ConnInv
  OBVIOUS
<1>1. \A t \in Thread : pc[t] = "idle"
  BY DEF Init
<1>2. \A o \in Obj : conns[o] = 0 /\ Proxied(o) = {}
  BY <1>1, Threads DEF Init, Proxied, ProxyLabel
<1> QED BY <1>1, <1>2, FS_EmptySet DEF ConnInv, ClientsProxy, Counted, ProxyLabel

\* Connections is the number of requests being proxied with a record, for any
\* finite number of clients: no start, stop, registration, removal or restart
\* makes the automatic exit count a request twice or forget one.
THEOREM ConnectionsExactHolds ==
  IsFiniteSet(Client) => (Spec => []ConnectionsExact)
<1> SUFFICES ASSUME IsFiniteSet(Client) PROVE Spec => []ConnectionsExact
  OBVIOUS
<1>1. TypeInv /\ ConnInv /\ [Next]_vars => ConnInv'
  BY CountNext
<1>2. ConnInv => ConnectionsExact
  BY DEF ConnInv, Counted, Proxied, ConnectionsExact
<1> QED BY <1>1, <1>2, CountInit, TypeInvariant, PTL DEF Spec

-----------------------------------------------------------------------------
\* A child that serves has been answered: no goroutine serves its registration.
Answered == \A p \in Proc : proc[p].state = "serving" => pc[p] = "idle"

\* If p is a child, its registration waits for the record's lock.
Waiting(p) == p \in Proc => pc[p] = "regLock"

\* When WaitStopPlugin is about to probe again, nobody is at the endpoint
\* it will find but a child whose registration still waits.
Again == \A t \in Thread : pc[t] = "wsAgain" => Waiting(PostTarget)

\* ... and the one it has posted its probe to still waits.
Probed == \A t \in Thread : pc[t] = "wsProbe" => Waiting(loc[t].tgt)

StopInv == Answered /\ Again /\ Probed

\* The labels of a WaitStopPlugin that has sent a kill.
Probing == {"wsAgain", "wsProbe"}

\* An installer is between its first write and its verdict.
Installing == \E t \in Thread : pc[t] \in Installer

\* One step of StatusPhases, or none.
Phase ==
  \/ Polled!Next
  \/ PluginStatus' = PluginStatus /\ Installing' = Installing

\* What is proved of every step.
Good == StopInv' /\ Phase

-----------------------------------------------------------------------------
\* At most one goroutine is in a locked section.
LEMMA Alone ==
  ASSUME Inv, NEW t \in Thread, NEW u \in Thread,
         pc[t] \in Holding, pc[u] \in Holding
  PROVE  t = u
<1>1. loc[t].cur = pmap /\ loc[u].cur = pmap /\ pmap \in Obj
  BY HeldCurrent DEF Holding, NeedsRecord
<1> QED BY <1>1 DEF Inv, SafeInv, Disciplined

\* While the mutex of the record in the map is free nobody is in a locked
\* section.
LEMMA Nobody ==
  ASSUME Inv, pmap # None, lock[pmap] = None
  PROVE  \A t \in Thread : pc[t] \notin Holding
<1> SUFFICES ASSUME NEW t \in Thread, pc[t] \in Holding PROVE FALSE
  OBVIOUS
<1>1. loc[t].cur = pmap /\ pmap \in Obj
  BY HeldCurrent DEF Holding, NeedsRecord
<1> QED BY <1>1, ThreadAssumption DEF Inv, SafeInv, Disciplined

\* The phase of an installation is in a locked section, and so is the probing.
LEMMA Sections == Installer \subseteq Holding /\ Probing \subseteq Holding
BY DEF Installer, Probing, Holding

\* Whether somebody installs does not change while a goroutine moves between
\* other labels.
LEMMA InstallingKept ==
  ASSUME NEW t \in Thread, OthersKept(t), pc[t] \in Installer <=> pc'[t] \in Installer
  PROVE  Installing' = Installing
BY DEF Installing, OthersKept

\* A step of goroutine t that writes no endpoint beside a Running and does not
\* let a registration go on keeps StopInv, if it starts no probing of its own.
LEMMA KeepStop ==
  ASSUME Inv, StopInv, NEW t \in Thread, OthersKept(t),
         pc[t] # "idle" \/ t \notin Proc,
         pc[t] # "regLock" \/ (\A u \in Thread : pc[u] \notin Probing),
         \A p \in Proc : proc'[p].state = "serving" => proc[p].state = "serving",
         PostTarget' \in {None, PostTarget} \/ Waiting(PostTarget)',
         pc'[t] = "wsAgain" => Waiting(PostTarget)',
         pc'[t] = "wsProbe" => Waiting(loc[t].tgt)'
  PROVE  StopInv'
<1>1. Answered'
  BY Threads DEF StopInv, Answered, OthersKept
<1>2. ASSUME NEW p, Waiting(p), NEW u \in Thread, pc[u] \in Probing
      PROVE  Waiting(p)'
  BY <1>2, Threads DEF Waiting, OthersKept
<1>3. ~Waiting(None)' => FALSE
  BY ThreadAssumption, Threads DEF Waiting
<1>4. ASSUME NEW u \in Thread, pc'[u] = "wsAgain" PROVE Waiting(PostTarget)'
  <2>1. CASE u # t
    <3>1. pc[u] = "wsAgain" /\ Waiting(PostTarget)
      BY <1>4, <2>1 DEF OthersKept, StopInv, Again
    <3>2. CASE PostTarget' = PostTarget
      <4>1. Waiting(PostTarget')
        BY <3>1, <3>2
      <4> QED BY <3>1, <3>2, <1>2 DEF Probing
    <3> QED BY <3>2, <1>3 DEF Waiting
  <2> QED BY <1>4, <2>1
<1>5. ASSUME NEW u \in Thread, pc'[u] = "wsProbe" PROVE Waiting(loc[u].tgt)'
  <2>1. CASE u # t
    <3>1. pc[u] = "wsProbe" /\ Waiting(loc[u].tgt) /\ loc'[u] = loc[u]
      BY <1>5, <2>1 DEF OthersKept, StopInv, Probed
    <3>2. pc[u] \in Probing
      BY <3>1 DEF Probing
    <3> QED BY <3>1, <3>2, Threads DEF Waiting, OthersKept
  <2> QED BY <1>5, <2>1
<1> QED BY <1>1, <1>4, <1>5 DEF StopInv, Again, Probed

\* A step that only moves goroutine t, between labels where nobody installs
\* or probes and no registration waits, is good.
LEMMA Quiet ==
  ASSUME Inv, StopInv, NEW t \in Thread, OthersKept(t), UNCHANGED <<pmap, info>>,
         pc[t] # "idle" \/ t \notin Proc,
         pc[t] \notin Installer \cup {"regLock"},
         pc'[t] \notin Installer \cup Probing,
         \A p \in Proc : proc'[p].state = "serving" => proc[p].state = "serving"
  PROVE  Good
<1>1. PostTarget' = PostTarget /\ PluginStatus' = PluginStatus
  BY DEF PostTarget, PluginStatus
<1>2. StopInv'
  BY <1>1, KeepStop DEF Probing
<1>3. Installing' = Installing
  BY InstallingKept
<1> QED BY <1>1, <1>2, <1>3 DEF Good, Phase

\* A step that moves nobody and wakes no child keeps StopInv, if it only takes
\* a Running away.
LEMMA KeepStopStill ==
  ASSUME Inv, StopInv, UNCHANGED <<pc, loc>>,
         \A p \in Proc : proc'[p].state = "serving" => proc[p].state = "serving",
         PostTarget' \in {None, PostTarget}
  PROVE  StopInv' /\ Installing' = Installing
BY ThreadAssumption, Threads
   DEF StopInv, Answered, Again, Probed, Waiting, Installing

\* What writing a status into the record in the map shows.
LEMMA StatusShown ==
  ASSUME Inv, NEW s, pmap # None, SetStatus(pmap, s), UNCHANGED pmap
  PROVE  PluginStatus' = s /\ (s # "Running" => PostTarget' = None)
BY DEF Inv, TypeInv, TypeOK, Info, SetStatus, PluginStatus, PostTarget

\* initManifest gives a new record the status NotStarted and an old one
\* another endpoint.
LEMMA InitShown ==
  ASSUME Inv, NEW o \in Obj, NEW v, NEW e, InitManifest(o, v, e)
  PROVE  /\ PostTarget' \in {None, e}
         /\ \/ pmap = None /\ PluginStatus' = "NotStarted"
            \/ pmap # None /\ PluginStatus' = PluginStatus
<1>1. info \in [Obj -> Info] /\ o # None
  BY ThreadAssumption DEF Inv, TypeInv, TypeOK
<1>2. CASE pmap = None
  <2>1. info' = [info EXCEPT ![o] = [status |-> "NotStarted", endpoint |-> e,
                                     version |-> v]] /\ pmap' = o
    BY <1>1, <1>2 DEF InitManifest
  <2>2. pmap' # None /\ info'[pmap'].status = "NotStarted"
    BY <1>1, <2>1
  <2> QED BY <1>2, <2>2 DEF PluginStatus, PostTarget
<1>3. CASE pmap # None
  <2>1. /\ info' = [info EXCEPT ![o].version = v, ![o].endpoint = e]
        /\ pmap' = pmap /\ o = pmap
    BY <1>3 DEF InitManifest
  <2>2. info'[o].status = info[o].status /\ info'[o].endpoint = e
    BY <1>1, <2>1 DEF Info
  <2> QED BY <1>3, <2>1, <2>2 DEF PluginStatus, PostTarget
<1> QED BY <1>2, <1>3

\* Goroutine t moves between labels where nobody installs or probes and no
\* registration waits.
Elsewhere(t) ==
  /\ OthersKept(t)
  /\ pc[t] \notin {"idle", "regLock"} /\ pc[t] \notin Installer
  /\ pc'[t] \notin Installer /\ pc'[t] \notin Probing

\* Such a step, that leaves the record and the children alone, is good.
LEMMA QuietMove ==
  ASSUME Inv, StopInv, NEW t \in Thread, Elsewhere(t), UNCHANGED <<pmap, info, proc>>
  PROVE  Good
BY Quiet DEF Elsewhere

\* While there is a record its status is known to a look-up.
LEMMA Known ==
  ASSUME Inv, pmap # None
  PROVE  PluginStatus \in Status \ {"Unallocated"}
BY DEF Inv, TypeInv, TypeOK, Info, SafeInv, OneRecord, PluginStatus

\* A step of a goroutine that keeps installing, or keeps out of it, and writes
\* NotStarted is an Exit.
LEMMA PhaseExit ==
  ASSUME Inv, NEW t \in Thread, OthersKept(t), pmap # None,
         pc[t] \in Installer <=> pc'[t] \in Installer, PluginStatus' = "NotStarted"
  PROVE  Phase
BY Known, InstallingKept
   DEF Phase, Installing, Installer, Polled!Next, Polled!Exit

\* initManifest is a Discover or shows nothing.
LEMMA PhaseInit ==
  ASSUME NEW t \in Thread, OthersKept(t),
         pc[t] \in Installer <=> pc'[t] \in Installer,
         \/ pmap = None /\ PluginStatus' = "NotStarted"
         \/ pmap # None /\ PluginStatus' = PluginStatus
  PROVE  Phase
BY InstallingKept
   DEF Phase, Installing, Installer, PluginStatus, Polled!Next, Polled!Discover

-----------------------------------------------------------------------------
\* A status written by a goroutine in a locked section is the one polled.
LEMMA ShownByHolder ==
  ASSUME Inv, NEW t \in Thread, pc[t] \in Holding, NEW s, SetStatus(loc[t].cur, s),
         UNCHANGED pmap
  PROVE  PluginStatus' = s
BY HeldCurrent, StatusShown DEF Holding, NeedsRecord

\* An installer that leaves its phase with a verdict is an End.
LEMMA GoodVerdict ==
  ASSUME Inv, StopInv, NEW t \in Thread, OthersKept(t), pc[t] \in Installer,
         pc'[t] \in {"recheck", "idle", "ended"}, UNCHANGED <<pmap, proc>>,
         PluginStatus' \in Polled!Verdict
  PROVE  Good
<1>1. Installing /\ ~Installing'
  BY Alone, Sections DEF Installing, OthersKept, Installer
<1>2. PostTarget' = None
  BY DEF Polled!Verdict, PostTarget
<1>3. StopInv'
  BY <1>2, KeepStop DEF Installer
<1> QED BY <1>1, <1>3
        DEF Good, Phase, Polled!Next, Polled!End, Installing, Installer

\* StartPlugin's steps are good: the launch is a Launch or an Exit.
LEMMA GoodStart ==
  ASSUME NoRemoval, Inv, StopInv, NEW t \in Thread, Start(t)
  PROVE  Good
<1>a. TypeOK /\ SafeInv
  BY DEF Inv, TypeInv
<1> USE <1>a
<1>1. CASE StartGet(t)
  <2>1. Elsewhere(t)
    BY <1>1, Moves, Gotos DEF StartGet, Elsewhere, Installer, Probing
  <2> QED BY <1>1, <2>1, QuietMove DEF StartGet
<1>2. CASE StartLock(t)
  <2>1. Elsewhere(t)
    BY <1>2, Gotos DEF StartLock, Elsewhere, Installer, Probing
  <2> QED BY <1>2, <2>1, QuietMove DEF StartLock
<1>3. CASE StartCheck(t)
  <2>1. Elsewhere(t)
    BY <1>3, Moves, Finishes, Returns
       DEF StartCheck, Elsewhere, Installer, Probing
  <2> QED BY <1>3, <2>1, QuietMove DEF StartCheck
<1>4. CASE StartPing(t)
  <2>1. Elsewhere(t)
    BY <1>4, Finishes, Returns DEF StartPing, Elsewhere, Installer, Probing
  <2> QED BY <1>4, <2>1, QuietMove DEF StartPing
<1>5. CASE StartManifest(t)
  <2>1. Elsewhere(t)
    BY <1>5, Moves, Returns DEF StartManifest, Elsewhere, Installer, Probing
  <2> QED BY <1>5, <2>1, QuietMove DEF StartManifest
<1>6. CASE StartInit(t)
  <2>1. OthersKept(t) /\ pc'[t] = "startRun" /\ pc[t] = "startInit"
    BY <1>6, Moves DEF StartInit
  <2>2. /\ PostTarget' = None
        /\ \/ pmap = None /\ PluginStatus' = "NotStarted"
           \/ pmap # None /\ PluginStatus' = PluginStatus
    BY <1>6, InitShown DEF StartInit
  <2> QED BY <1>6, <2>1, <2>2, KeepStop, PhaseInit
          DEF StartInit, Installer, Good
<1>7. CASE StartRun(t)
  <2>1. OthersKept(t) /\ pc'[t] = "startExec" /\ pc[t] = "startRun"
    BY <1>7, Moves DEF StartRun
  <2>2. loc[t].cur = pmap /\ pmap # None
    BY <2>1, HeldCurrent DEF NeedsRecord
  <2>3. PluginStatus' = "Starting" /\ PostTarget' = None
    BY <1>7, <2>2, StatusShown DEF StartRun
  <2>4. ~Installing /\ ~Installing'
    BY <1>7, <2>1, <2>2, Nobody, Sections
       DEF StartRun, Acquire, Installing, Installer, OthersKept
  <2>5. Phase
    BY <2>2, <2>3, <2>4, Known
       DEF Phase, Polled!Next, Polled!Launch, Installing, Installer
  <2> QED BY <1>7, <2>1, <2>3, <2>5, KeepStop DEF StartRun, Good
<1>8. CASE StartExec(t)
  <2>1. /\ OthersKept(t) /\ pc'[t] \in {"idle", "ended"} /\ pc[t] = "startExec"
        /\ pmap' = pmap
    BY <1>8, Returns DEF StartExec
  <2>2. loc[t].cur = pmap /\ pmap # None
    BY <2>1, HeldCurrent DEF NeedsRecord
  <2>3. CASE \E p \in Proc : Launch(loc[t].cur, loc[t].tgt, p)
    <3>1. /\ \A p \in Proc : proc'[p].state = "serving" => proc[p].state = "serving"
          /\ info' = info
      BY <2>3 DEF Launch, TypeOK, ProcInfo
    <3> QED BY <2>1, <3>1, Quiet DEF Installer, Probing
  <2>4. CASE LaunchFails(loc[t].cur)
    <3>1. PluginStatus' = "NotStarted" /\ PostTarget' = None
      BY <2>1, <2>2, <2>4, StatusShown DEF LaunchFails
    <3>2. StopInv'
      BY <2>1, <2>4, <3>1, KeepStop DEF LaunchFails
    <3> QED BY <2>1, <2>2, <3>1, <3>2, PhaseExit DEF Good, Installer
  <2> QED BY <1>8, <2>3, <2>4 DEF StartExec
<1> QED BY <1>1, <1>2, <1>3, <1>4, <1>5, <1>6, <1>7, <1>8 DEF Start

\* StopPlugin's and _stopPlugin's steps are good: after the kill the status is
\* NotStarted, and without an endpoint there is nobody to probe.
LEMMA GoodStop ==
  ASSUME NoRemoval, Inv, StopInv, NEW t \in Thread, Stop(t)
  PROVE  Good
<1>a. TypeOK /\ SafeInv
  BY DEF Inv, TypeInv
<1> USE <1>a
<1>1. CASE StopGet(t)
  <2>1. Elsewhere(t)
    BY <1>1, Moves, Finishes, AfterStopFree, Sections
       DEF StopGet, Elsewhere, Installer, Probing
  <2> QED BY <1>1, <2>1, QuietMove DEF StopGet
<1>2. CASE StopLock(t)
  <2>1. Elsewhere(t)
    BY <1>2, Moves DEF StopLock, Elsewhere, Installer, Probing
  <2> QED BY <1>2, <2>1, QuietMove DEF StopLock
<1>3. CASE Kill(t)
  <2>1. OthersKept(t) /\ pc[t] = "kill"
    BY <1>3, Gotos DEF Kill
  <2>2. loc[t].cur = pmap /\ pmap # None
    BY <2>1, HeldCurrent DEF NeedsRecord
  <2>3. CASE info[loc[t].cur].endpoint = None /\ Goto(t, loc[t].ret)
    <3>1. pc'[t] = loc[t].ret /\ PostTarget' = PostTarget /\ PostTarget = None
      BY <1>3, <2>2, <2>3, Gotos DEF Kill, PostTarget, PluginStatus
    <3>2. pc'[t] \notin Installer \cup {"wsProbe"}
      BY <3>1 DEF TypeOK, Locals, Installer
    <3>3. StopInv'
      BY <1>3, <2>1, <3>1, <3>2, KeepStop, ThreadAssumption, Threads
         DEF Kill, Waiting
    <3>4. Installing' = Installing /\ PluginStatus' = PluginStatus
      BY <1>3, <2>1, <3>2, InstallingKept DEF Kill, Installer, PluginStatus
    <3> QED BY <3>3, <3>4 DEF Good, Phase
  <2>4. CASE Goto(t, "killPost")
    <3>1. pc'[t] = "killPost"
      BY <2>4, Gotos
    <3> QED BY <1>3, <2>1, <3>1, Quiet DEF Kill, Installer, Probing
  <2> QED BY <1>3, <2>3, <2>4 DEF Kill
<1>4. CASE KillPost(t)
  <2>1. Elsewhere(t)
    BY <1>4, Moves DEF KillPost, Elsewhere, Installer, Probing
  <2> QED BY <1>4, <2>1, QuietMove DEF KillPost
<1>5. CASE KillServed(t)
  <2>1. /\ UNCHANGED <<pc, loc>> /\ PostTarget' = PostTarget
        /\ PluginStatus' = PluginStatus
    BY <1>5 DEF KillServed, PostTarget, PluginStatus
  <2>2. \A p \in Proc : proc'[p].state = "serving" => proc[p].state = "serving"
    BY <1>5 DEF KillServed, SetState, TypeOK, ProcInfo
  <2> QED BY <2>1, <2>2, KeepStopStill DEF Good, Phase
<1>6. CASE Killed(t)
  <2>1. OthersKept(t) /\ pc[t] = "killed" /\ pc'[t] = loc[t].ret
    BY <1>6, Moves DEF Killed
  <2>2. loc[t].cur = pmap /\ pmap # None
    BY <2>1, HeldCurrent DEF NeedsRecord
  <2>3. PluginStatus' = "NotStarted" /\ PostTarget' = None
    BY <1>6, <2>2, StatusShown DEF Killed
  <2>4. pc'[t] \notin Installer \cup {"wsProbe"}
    BY <2>1 DEF TypeOK, Locals, Installer
  <2>5. StopInv'
    BY <1>6, <2>1, <2>3, <2>4, KeepStop, ThreadAssumption, Threads
       DEF Killed, Waiting
  <2> QED BY <2>1, <2>2, <2>3, <2>4, <2>5, PhaseExit DEF Good, Installer
<1>7. CASE StopDone(t)
  <2>1. Elsewhere(t)
    BY <1>7, Finishes, AfterStopFree, Sections
       DEF StopDone, Elsewhere, Installer, Probing
  <2> QED BY <1>7, <2>1, QuietMove DEF StopDone
<1> QED BY <1>1, <1>2, <1>3, <1>4, <1>5, <1>6, <1>7 DEF Stop

\* pluginRegisterHandler's steps are good: an endpoint written without the lock
\* is that of a child whose registration waits for it.
LEMMA GoodRegister ==
  ASSUME NoRemoval, Inv, StopInv, NEW p \in Proc, Register(p)
  PROVE  Good
<1>a. TypeOK /\ SafeInv
  BY DEF Inv, TypeInv
<1> USE <1>a
<1>1. CASE RegCheck(p)
  <2>1. Elsewhere(p)
    BY <1>1, Gotos, Threads DEF RegCheck, Elsewhere, Installer, Probing
  <2> QED BY <1>1, <2>1, QuietMove, Threads DEF RegCheck
<1>2. CASE RegInit(p)
  <2>1. OthersKept(p) /\ pc'[p] = "regLock" /\ pc[p] = "regInit" /\ p \in Thread
    BY <1>2, Moves, Threads DEF RegInit
  <2>2. /\ PostTarget' \in {None, p}
        /\ \/ pmap = None /\ PluginStatus' = "NotStarted"
           \/ pmap # None /\ PluginStatus' = PluginStatus
    BY <1>2, InitShown DEF RegInit
  <2>3. PostTarget' = None \/ Waiting(PostTarget)'
    BY <2>1, <2>2 DEF Waiting
  <2> QED BY <1>2, <2>1, <2>2, <2>3, KeepStop, PhaseInit
          DEF RegInit, Installer, Good
<1>3. CASE RegLock(p)
  <2>1. /\ OthersKept(p) /\ pc'[p] \in {"idle", "ended"} /\ pc[p] = "regLock"
        /\ p \in Thread
    BY <1>3, Returns, Threads DEF RegLock
  <2>2. loc[p].cur = pmap /\ pmap # None
    BY <2>1, HeldCurrent DEF NeedsRecord
  <2>3. \A u \in Thread : pc[u] \notin Holding /\ pc'[u] \notin Holding
    BY <1>3, <2>1, <2>2, Nobody DEF RegLock, OthersKept, Holding
  <2>4. StopInv'
    <3>1. Answered'
      BY <1>3, <2>1, Threads DEF RegLock, StopInv, Answered, OthersKept
    <3> QED BY <2>3, <3>1, Sections DEF StopInv, Again, Probed, Probing
  <2>5. ~Installing /\ ~Installing' /\ PluginStatus' = "Running"
    BY <1>3, <2>2, <2>3, Sections, StatusShown DEF RegLock, Installing
  <2> QED BY <2>2, <2>4, <2>5, Known
          DEF Good, Phase, Polled!Next, Polled!Register, Installing, Installer
<1> QED BY <1>1, <1>2, <1>3 DEF Register

\* CheckUpdate's and InstallPlugin's steps are good: the installer is alone
\* between its Begin and its End.
LEMMA GoodUpdate ==
  ASSUME NoRemoval, Inv, StopInv, NEW t \in Thread, Update(t)
  PROVE  Good
<1>a. TypeOK /\ SafeInv
  BY DEF Inv, TypeInv
<1> USE <1>a
<1>1. CASE Check(t)
  <2>1. Elsewhere(t)
    BY <1>1, Moves, Gotos, Returns DEF Check, Elsewhere, Installer, Probing
  <2> QED BY <1>1, <2>1, QuietMove DEF Check
<1>2. CASE Compare(t)
  <2>1. Elsewhere(t)
    BY <1>2, Moves DEF Compare, Elsewhere, Installer, Probing
  <2> QED BY <1>2, <2>1, QuietMove DEF Compare
<1>3. CASE Recheck(t)
  <2>1. Elsewhere(t)
    BY <1>3, Moves, Returns DEF Recheck, Elsewhere, Installer, Probing
  <2> QED BY <1>3, <2>1, QuietMove DEF Recheck
<1>4. CASE CheckLock(t)
  <2>1. Elsewhere(t)
    BY <1>4, Returns DEF CheckLock, Elsewhere, Installer, Probing
  <2> QED BY <1>4, <2>1, QuietMove DEF CheckLock
<1>5. CASE Snap(t)
  <2>1. Elsewhere(t)
    BY <1>5, Moves DEF Snap, Elsewhere, Installer, Probing
  <2> QED BY <1>5, <2>1, QuietMove DEF Snap
<1>6. CASE InstInit(t)
  <2>1. OthersKept(t) /\ pc'[t] = "instLock" /\ pc[t] = "instInit"
    BY <1>6, Moves DEF InstInit
  <2>2. /\ PostTarget' = None
        /\ \/ pmap = None /\ PluginStatus' = "NotStarted"
           \/ pmap # None /\ PluginStatus' = PluginStatus
    BY <1>6, InitShown DEF InstInit
  <2> QED BY <1>6, <2>1, <2>2, KeepStop, PhaseInit DEF InstInit, Installer, Good
<1>7. CASE InstLock(t)
  <2>1. Elsewhere(t)
    BY <1>7, Gotos DEF InstLock, Elsewhere, Installer, Probing
  <2> QED BY <1>7, <2>1, QuietMove DEF InstLock
<1>8. CASE Decide(t)
  <2>1. OthersKept(t) /\ pc'[t] \in {"recheck", "download"} /\ pc[t] = "decide"
    BY <1>8, Gotos, Finishes DEF Decide
  <2>2. CASE NothingToDo(t) /\ Finish(t, "recheck") /\ UNCHANGED info
    <3>1. pc'[t] = "recheck"
      BY <2>2, Finishes
    <3> QED BY <1>8, <2>1, <2>2, <3>1, Quiet DEF Decide, Installer, Probing
  <2>3. CASE ~NothingToDo(t) /\ SetStatus(loc[t].cur, "Downloading") /\ Goto(t, "download")
    <3>1. loc[t].cur = pmap /\ pmap # None
      BY <2>1, HeldCurrent DEF NeedsRecord
    <3>2. PluginStatus' = "Downloading" /\ PostTarget' = None
      BY <1>8, <2>3, <3>1, StatusShown DEF Decide
    <3>3. PluginStatus \in {"NotStarted", "Starting", "Running"}
      BY <2>3, <3>1, Known DEF NothingToDo, PluginStatus, Status
    <3>4. ~Installing /\ Installing'
      <4>1. pc'[t] = "download"
        BY <2>3, Gotos
      <4>2. ~Installing
        BY <2>1, Alone, Sections DEF Installing, Installer, Holding
      <4> QED BY <4>1, <4>2 DEF Installing, Installer
    <3>5. StopInv'
      BY <1>8, <2>1, <3>2, KeepStop DEF Decide
    <3> QED BY <3>2, <3>3, <3>4, <3>5
           
                    DEF Good, Phase, Polled!Next, Polled!Begin, Polled!Settled, Installing,
                Installer
  <2> QED BY <1>8, <2>2, <2>3 DEF Decide
<1>9. CASE Download(t)
  <2>1. OthersKept(t) /\ pc[t] = "download" /\ pc'[t] \in {"unzip", "idle", "ended"}
    BY <1>9, Gotos, Returns DEF Download
  <2>2. CASE Goto(t, "unzip") /\ UNCHANGED info
    <3>1. pc'[t] = "unzip" /\ PostTarget' = PostTarget /\ PluginStatus' = PluginStatus
      BY <1>9, <2>2, Gotos DEF Download, PostTarget, PluginStatus
    <3>2. StopInv'
      BY <1>9, <2>1, <3>1, KeepStop DEF Download
    <3> QED BY <2>1, <3>1, <3>2, InstallingKept DEF Good, Phase, Installer
  <2>3. CASE SetStatus(loc[t].cur, "DownloadFailed") /\ Return(t)
    <3>1. PluginStatus' = "DownloadFailed" /\ pc'[t] \in {"idle", "ended"} /\ proc' = proc
      BY <1>9, <2>1, <2>3, ShownByHolder, Returns DEF Download, Holding
    <3> QED BY <1>9, <2>1, <2>3, <3>1, GoodVerdict
            DEF Download, Polled!Verdict, Installer
  <2> QED BY <1>9, <2>2, <2>3 DEF Download
<1>10. CASE Unzip(t)
  <2>1. OthersKept(t) /\ pc[t] = "unzip" /\ pc'[t] \in {"recheck", "idle", "ended"}
    BY <1>10, Finishes, Returns DEF Unzip
  <2>2. PICK s \in {"NotStarted", "InstallFailed"} : SetStatus(loc[t].cur, s)
    BY <1>10 DEF Unzip
  <2>3. PluginStatus' = s
    BY <1>10, <2>1, <2>2, ShownByHolder DEF Unzip, Holding
  <2> QED BY <1>10, <2>1, <2>2, <2>3, GoodVerdict
          DEF Unzip, Polled!Verdict, Installer
<1> QED BY <1>1, <1>2, <1>3, <1>4, <1>5, <1>6, <1>7, <1>8, <1>9, <1>10
        DEF Update

\* WaitStopPlugin's steps are good: it probes whom it finds, and after a kill
\* finds nobody who answers.
LEMMA GoodWaitStop ==
  ASSUME NoRemoval, Inv, StopInv, NEW t \in Thread, WaitStop(t)
  PROVE  Good
<1>a. TypeOK /\ SafeInv
  BY DEF Inv, TypeInv
<1> USE <1>a
<1>1. CASE WsPost(t)
  <2>1. Elsewhere(t)
    BY <1>1, Moves DEF WsPost, Elsewhere, Installer, Probing
  <2> QED BY <1>1, <2>1, QuietMove DEF WsPost
<1>2. CASE WsPing(t)
  <2>1. Elsewhere(t)
    BY <1>2, Moves DEF WsPing, Elsewhere, Installer, Probing
  <2> QED BY <1>2, <2>1, QuietMove DEF WsPing
<1>3. CASE WsAgain(t)
  <2>1. OthersKept(t) /\ pc[t] = "wsAgain" /\ pc'[t] = "wsProbe"
    BY <1>3, Moves DEF WsAgain
  <2>2. loc'[t].tgt = PostTarget
    <3>1. loc'[t] = [loc[t] EXCEPT !.tgt = PostTarget]
      BY <1>3, Moves DEF WsAgain
    <3> QED BY <3>1, Frames
  <2>3. PostTarget' = PostTarget /\ PluginStatus' = PluginStatus
    BY <1>3 DEF WsAgain, PostTarget, PluginStatus
  <2>4. Waiting(loc[t].tgt)'
    BY <2>1, <2>2, Threads DEF StopInv, Again, Waiting, OthersKept
  <2>5. StopInv'
    BY <1>3, <2>1, <2>3, <2>4, KeepStop DEF WsAgain
  <2> QED BY <2>1, <2>3, <2>5, InstallingKept DEF Good, Phase, Installer
<1>4. CASE WsProbe(t)
  <2>1. OthersKept(t) /\ pc'[t] \notin Installer \cup Probing
    BY <1>4, Moves, Returns DEF WsProbe, Installer, Probing, Stopped
  <2> QED BY <1>4, <2>1, Quiet DEF WsProbe, Installer
<1> QED BY <1>1, <1>2, <1>3, <1>4 DEF WaitStop

\* UninstallPlugin's steps are good.
LEMMA GoodUninstall ==
  ASSUME NoRemoval, Inv, StopInv, NEW t \in Thread, Uninstall(t)
  PROVE  Good
<1>a. TypeOK /\ SafeInv
  BY DEF Inv, TypeInv
<1> USE <1>a
<1>1. CASE UninstGet(t)
  <2>1. Elsewhere(t)
    BY <1>1, Moves, Gotos DEF UninstGet, Elsewhere, Installer, Probing
  <2> QED BY <1>1, <2>1, QuietMove DEF UninstGet
<1>2. CASE RawRemove(t)
  <2>1. Elsewhere(t)
    BY <1>2, Returns DEF RawRemove, Elsewhere, Installer, Probing
  <2> QED BY <1>2, <2>1, QuietMove DEF RawRemove
<1>3. CASE UninstLock(t)
  <2>1. Elsewhere(t)
    BY <1>3, Gotos DEF UninstLock, Elsewhere, Installer, Probing
  <2> QED BY <1>3, <2>1, QuietMove DEF UninstLock
<1>4. CASE Remove(t)
  <2>1. Elsewhere(t)
    BY <1>4, Returns DEF Remove, Elsewhere, Installer, Probing
  <2> QED BY <1>4, <2>1, QuietMove DEF Remove, NoRemoval
<1> QED BY <1>1, <1>2, <1>3, <1>4 DEF Uninstall

\* defaultHandle's steps are good.
LEMMA GoodProxy ==
  ASSUME Inv, StopInv, NEW t \in Thread, Proxy(t)
  PROVE  Good
<1>a. TypeOK /\ SafeInv
  BY DEF Inv, TypeInv
<1> USE <1>a
<1>1. CASE ProxyEnter(t)
  <2>1. Elsewhere(t)
    BY <1>1, Moves, Returns DEF ProxyEnter, Elsewhere, Installer, Probing
  <2> QED BY <1>1, <2>1, QuietMove DEF ProxyEnter
<1>2. CASE ProxyRoute(t)
  <2>1. Elsewhere(t)
    BY <1>2, Gotos, Returns DEF ProxyRoute, Elsewhere, Installer, Probing
  <2> QED BY <1>2, <2>1, QuietMove DEF ProxyRoute
<1>3. CASE ProxySend(t)
  <2>1. Elsewhere(t)
    BY <1>3, Moves DEF ProxySend, Elsewhere, Installer, Probing
  <2> QED BY <1>3, <2>1, QuietMove DEF ProxySend
<1>4. CASE ProxyWait(t)
  <2>1. Elsewhere(t)
    BY <1>4, Returns DEF ProxyWait, Elsewhere, Installer, Probing
  <2> QED BY <1>4, <2>1, QuietMove DEF ProxyWait
<1> QED BY <1>1, <1>2, <1>3, <1>4 DEF Proxy

\* The arrival of a request is good.
LEMMA GoodRequest ==
  ASSUME Inv, StopInv, NEW t \in Client, Call(t)
  PROVE  Good
<1>1. t \in Thread /\ t \notin Proc
  BY Threads, ThreadAssumption
<1>2. OthersKept(t) /\ pc'[t] \notin Installer \cup Probing
  BY <1>1, Moves, FirstFree, CallAssumption, Sections DEF Call, Inv, TypeInv
<1> QED BY <1>1, <1>2, Quiet DEF Call, Installer

\* The heartbeat and signal goroutines' steps are good.
LEMMA GoodBackground ==
  ASSUME Inv, StopInv, Background
  PROVE  Good
<1>a. TypeOK /\ SafeInv
  BY DEF Inv, TypeInv
<1> USE <1>a
<1>0. \A t \in Special : t \in Thread /\ t \notin Proc
  BY ThreadAssumption DEF Thread
<1>1. CASE HeartbeatTick
  <2>1. PICK t \in {Heartbeat, Pinger}, l \in {"stopGet", "pgPost"} :
          pc[t] = "idle" /\ Goto(t, l)
    BY <1>1 DEF HeartbeatTick
  <2>2. t \in Thread /\ t \notin Proc
    BY <1>0 DEF Special
  <2>3. OthersKept(t) /\ pc'[t] = l
    BY <2>1, <2>2, Gotos
  <2> QED BY <1>1, <2>1, <2>2, <2>3, Quiet DEF HeartbeatTick, Installer, Probing
<1>2. CASE PingPost
  <2>1. OthersKept(Pinger) /\ pc'[Pinger] = "pgPing"
    BY <1>0, <1>2, Moves DEF PingPost, Special
  <2> QED BY <1>0, <1>2, <2>1, Quiet DEF PingPost, Special, Installer, Probing
<1>3. CASE PingAnswer
  <2>1. OthersKept(Pinger) /\ pc'[Pinger] \in {"idle", "ended", "stopGet"}
    BY <1>0, <1>3, Returns, Finishes DEF PingAnswer, Special
  <2> QED BY <1>0, <1>3, <2>1, Quiet DEF PingAnswer, Special, Installer, Probing
<1>4. CASE Signal
  <2>1. PICK l \in {"stopGet", "ended"} : Goto(CoDeath, l)
    BY <1>4 DEF Signal
  <2>2. OthersKept(CoDeath) /\ pc'[CoDeath] = l
    BY <1>0, <2>1, Gotos DEF Special
  <2> QED BY <1>0, <1>4, <2>2, Quiet DEF Signal, Special, Installer, Probing
<1> QED BY <1>1, <1>2, <1>3, <1>4 DEF Background

\* A child's steps are good: it serves once its registration is answered.
LEMMA GoodSlave ==
  ASSUME Inv, StopInv, NEW p \in Proc, Slave(p)
  PROVE  Good
<1>a. TypeOK /\ SafeInv
  BY DEF Inv, TypeInv
<1> USE <1>a
<1>0. ASSUME UNCHANGED record
      PROVE  PostTarget' = PostTarget /\ PluginStatus' = PluginStatus
  BY <1>0 DEF PostTarget, PluginStatus
<1>1. CASE SetState(p, "dead") /\ UNCHANGED <<record, pc, loc>>
  <2>1. \A q \in Proc : proc'[q].state = "serving" => proc[q].state = "serving"
    BY <1>1 DEF SetState, TypeOK, ProcInfo
  <2> QED BY <1>0, <1>1, <2>1, KeepStopStill DEF Good, Phase
<1>2. CASE SlaveStart(p) /\ Goto(p, "regCheck")
  <2>1. pc[p] = "idle" /\ p \in Thread
    BY <1>2, Threads DEF SlaveStart, SafeInv, Launched, Unborn
  <2>2. OthersKept(p) /\ pc'[p] = "regCheck"
    BY <1>2, <2>1, Gotos
  <2>3. proc' = [proc EXCEPT ![p] = [@ EXCEPT !.state = "registering", !.ver = disk]]
    BY <1>2, <2>1, <2>2 DEF SlaveStart, SetState
  <2>4. \A q \in Proc : proc'[q].state = "serving"
                          => q # p /\ proc[q].state = "serving"
    BY <2>3 DEF TypeOK, ProcInfo
  <2>5. StopInv'
    BY <1>0, <1>2, <2>1, <2>2, <2>4, Threads, ThreadAssumption
       DEF SlaveStart, StopInv, Answered, Again, Probed, Waiting, OthersKept
  <2>6. Installing' = Installing
    BY <2>1, <2>2, InstallingKept DEF Installer
  <2> QED BY <1>0, <1>2, <2>5, <2>6 DEF SlaveStart, Good, Phase
<1>3. CASE SlaveServe(p)
  <2>1. Answered'
    BY <1>3 DEF SlaveServe, SetState, StopInv, Answered, TypeOK, ProcInfo
  <2>2. Again' /\ Probed' /\ Installing' = Installing
    BY <1>0, <1>3 DEF SlaveServe, StopInv, Again, Probed, Waiting, Installing
  <2> QED BY <1>0, <1>3, <2>1, <2>2 DEF SlaveServe, Good, Phase, StopInv
<1> QED BY <1>1, <1>2, <1>3
   DEF Slave, SlaveStart, SlaveServe, SlaveHeartbeat, SlaveExit

\* The goroutine that waits for a child writes without the lock, but only
\* ends a Running: its steps are good.
LEMMA GoodReaper ==
  ASSUME Inv, StopInv, NEW p \in Proc, Reaper(p)
  PROVE  Good
<1>a. TypeOK /\ SafeInv
  BY DEF Inv, TypeInv
<1> USE <1>a
<1>1. /\ UNCHANGED <<pmap, pc, loc>>
      /\ \A q \in Proc : proc'[q].state = "serving" => proc[q].state = "serving"
  <2>1. proc[p] \in ProcInfo
    BY DEF TypeOK
  <2>2. \E r : /\ proc' = [proc EXCEPT ![p] = r] /\ r.state = proc[p].state
    BY <2>1 DEF Reaper, ReapMatch, ReapWrite, Reaped, ProcInfo
  <2>3. \A q \in Proc : proc'[q].state = proc[q].state
    BY <2>2 DEF TypeOK
  <2> QED BY <2>3 DEF Reaper, ReapMatch, ReapWrite, Reaped
<1>2. CASE UNCHANGED info
  <2>1. PostTarget' = PostTarget /\ PluginStatus' = PluginStatus
    BY <1>1, <1>2 DEF PostTarget, PluginStatus
  <2> QED BY <1>1, <2>1, KeepStopStill DEF Good, Phase
<1>3. CASE pmap # None /\ SetStatus(pmap, "NotStarted")
  <2>1. PluginStatus' = "NotStarted" /\ PostTarget' = None
    BY <1>1, <1>3, StatusShown
  <2>2. StopInv' /\ Installing' = Installing
    BY <1>1, <2>1, KeepStopStill
  <2> QED BY <1>3, <2>1, <2>2, Known
          DEF Good, Phase, Polled!Next, Polled!Exit, Installing, Installer
<1>4. CASE SetStatus(None, "NotStarted")
  <2>1. info' = info
    BY <1>4, ThreadAssumption DEF SetStatus, TypeOK
  <2> QED BY <1>2, <2>1
<1> QED BY <1>2, <1>3, <1>4 DEF Reaper, ReapMatch, ReapWrite, SafeInv, OneRecord

\* Every step of the master's own is good.
LEMMA GoodNext ==
  ASSUME NoRemoval, Inv, StopInv, [Next]_vars
  PROVE  Good \/ MasterRestarts
<1>1. CASE \E t \in Thread : Step(t)
  BY <1>1, GoodStart, GoodStop, GoodUpdate, GoodWaitStop, GoodUninstall, GoodProxy
     DEF Step
<1>2. CASE \E t \in Client : Request(t)
  BY <1>2, GoodRequest DEF Request
<1>3. CASE \E p \in Proc : Registering(p) \/ Slave(p) \/ Reaper(p)
  BY <1>3, GoodRegister, GoodSlave, GoodReaper DEF Registering
<1>4. CASE InBackground
  BY <1>4, GoodBackground DEF InBackground
<1>5. CASE Publish \/ Tick \/ MasterDies \/ UNCHANGED vars
  <2>1. UNCHANGED <<pmap, info, proc, pc, loc>>
    BY <1>5 DEF Publish, Tick, MasterDies, vars
  <2>2. PostTarget' = PostTarget /\ PluginStatus' = PluginStatus
    BY <2>1 DEF PostTarget, PluginStatus
  <2> QED BY <2>1, <2>2, KeepStopStill DEF Good, Phase
<1> QED BY <1>1, <1>2, <1>3, <1>4, <1>5 DEF Next, Environment

-----------------------------------------------------------------------------
\* After a restart nobody stops anything and nobody is in a handler.
LEMMA StopRestart == ASSUME MasterRestarts PROVE StopInv'
<1>1. \A t \in Thread : pc'[t] = "idle"
  BY DEF MasterRestarts
<1> QED BY <1>1, Threads DEF StopInv, Answered, Again, Probed

\* Nobody serves and nobody is in a handler when the master starts.
LEMMA StopInit == Init => StopInv
BY Threads DEF Init, StopInv, Answered, Again, Probed

\* Between WaitStopPlugin's kill and its second ping the endpoint belongs to
\* nobody, or to a child whose registration waits for the lock.
THEOREM StopInvariant == NoRemoval => (Spec => []StopInv)
<1> SUFFICES ASSUME NoRemoval PROVE Spec => []StopInv
  OBVIOUS
<1>1. Inv /\ StopInv /\ [Next]_vars => StopInv'
  BY GoodNext, StopRestart DEF Good
<1>2. TypeInv /\ SafeInv => Inv
  BY DEF Inv
<1> QED BY <1>1, <1>2, StopInit, SafeInvariant, TypeInvariant, PTL DEF Spec

\* WaitStopPlugin never gives up, for every number of clients, children and
\* records, with children that crash, register and are launched meanwhile: as
\* long as the record stays in the map, no child answers the ping after a kill.
THEOREM StopNeverFailsHolds == NoRemoval => (Spec => []StopNeverFails)
<1>1. StopInv => StopNeverFails
  BY DEF StopInv, Answered, Probed, Waiting, StopNeverFails, Answers
<1> QED BY <1>1, StopInvariant, PTL

\* The master is never started again.
NoRestart == "restart" \notin Events

\* In one life of the master the Status everybody polls without the lock goes
\* through the phases of StatusPhases, whatever handlers, registrations and
\* ends of children are interleaved.
THEOREM StatusPhasesRefined == NoRemoval /\ NoRestart => (Spec => StatusInPhases)
<1> SUFFICES ASSUME NoRemoval, NoRestart PROVE Spec => StatusInPhases
  OBVIOUS
<1>1. Init => Polled!Init
  BY DEF Init, Loaded, NoInfo, Polled!Init, PluginStatus
<1>2. Inv /\ StopInv /\ [Next]_vars => [Polled!Next]_(Polled!vars)
  <2> SUFFICES ASSUME Inv, StopInv, [Next]_vars PROVE [Polled!Next]_(Polled!vars)
    OBVIOUS
  <2>1. Phase
    BY GoodNext DEF Good, MasterRestarts, NoRestart
  <2> QED BY <2>1 DEF Phase, Polled!vars, Installing, Installer
<1>3. TypeInv /\ SafeInv => Inv
  BY DEF Inv
<1> QED BY <1>1, <1>2, <1>3, StopInvariant, SafeInvariant, TypeInvariant, PTL
   DEF Spec, StatusInPhases, Polled!Spec
===============================================================================
