---------------------------- MODULE MasterLocking -----------------------------
(***************************************************************************)
(* LockDiscipline, for every value of the constants: each step takes, keeps *)
(* or gives back the mutex its goroutine's labels say (Lawful), removals of *)
(* records included, unless StartPlugin strays from its record. And, where  *)
(* RemoveAll does not fail, DownloadExclusive: only then does one record    *)
(* stay in the map (OneRecord), and with it nobody strays.                  *)
(***************************************************************************)
EXTENDS MasterTyping

USE DEF record, traffic, store

\* Only goroutine t moves.
OthersKept(t) ==
  \A u \in Thread \ {t} : pc'[u] = pc[u] /\ loc'[u] = loc[u]

\* Move changes one goroutine.
LEMMA Moves ==
  ASSUME TypeOK, NEW t \in Thread, NEW l, NEW f, Move(t, l, f)
  PROVE  OthersKept(t) /\ pc'[t] = l /\ loc'[t] = f
BY DEF TypeOK, Move, OthersKept

\* A frame is the record of its six locals.
LEMMA Frames ==
  ASSUME TypeOK, NEW t \in Thread
  PROVE  loc[t] = [op |-> loc[t].op, cur |-> loc[t].cur, tgt |-> loc[t].tgt,
                   ver |-> loc[t].ver, snap |-> loc[t].snap, ret |-> loc[t].ret]
BY DEF TypeOK, Locals

\* Goto changes one program counter and no local.
LEMMA Gotos ==
  ASSUME TypeOK, NEW t \in Thread, NEW l, Goto(t, l)
  PROVE  OthersKept(t) /\ pc'[t] = l /\ loc'[t] = loc[t]
BY Moves DEF Goto

\* Finish leaves one goroutine without a record in hand.
LEMMA Finishes ==
  ASSUME TypeOK, NEW t \in Thread, NEW l, Finish(t, l)
  PROVE  OthersKept(t) /\ pc'[t] = l /\ loc'[t].cur = None
BY Moves DEF Finish, NoLocals

\* Return leaves one goroutine idle, without a record in hand.
LEMMA Returns ==
  ASSUME TypeOK, NEW t \in Thread, Return(t)
  PROVE  OthersKept(t) /\ pc'[t] \in {"idle", "ended"} /\ loc'[t].cur = None
BY Finishes, HomeTyped DEF Return

\* Whoever asks another child goes on with the same record.
LEMMA Retargets ==
  ASSUME TypeOK, NEW t \in Thread, NEW l, NEW p, Move(t, l, [loc[t] EXCEPT !.tgt = p])
  PROVE  OthersKept(t) /\ pc'[t] = l /\ loc'[t].cur = loc[t].cur
<1>1. loc'[t] = [loc[t] EXCEPT !.tgt = p]
  BY Moves
<1> QED BY <1>1, Moves, Frames

\* No operation starts with the lock held.
LEMMA FirstFree == \A op \in Op : FirstLabel[op] \notin Holding
BY DEF Op, FirstLabel, Holding

\* StopPlugin returns with the lock free.
LEMMA AfterStopFree == \A t \in Thread : AfterStop(t) \notin Holding
BY HomeTyped DEF AfterStop, Holding

\* Who is in a locked section has a record in hand.
LEMMA HoldingRecord ==
  ASSUME TypeInv, NEW t \in Thread, pc[t] \in Holding
  PROVE  loc[t].cur \in Obj
BY DEF TypeInv, FrameOK, FrameFits, Holding, NeedsRecord

-----------------------------------------------------------------------------
(* What a step does with the mutexes, whatever is in the map.              *)

\* Goroutine t stays in its locked section, or out of any.
Keeps(t) ==
  /\ UNCHANGED <<lock, up>>
  /\ pc[t] \in Holding <=> pc'[t] \in Holding
  /\ pc[t] \in Holding => loc'[t].cur = loc[t].cur

\* Goroutine t enters a locked section of the record it has in hand.
Takes(t) ==
  /\ pc[t] \in NeedsRecord \ Holding /\ pc'[t] \in Holding
  /\ loc'[t].cur = loc[t].cur
  /\ Acquire(t)
  /\ UNCHANGED up

\* Goroutine t leaves a locked section and unlocks the record it has in hand.
Gives(t) ==
  /\ pc[t] \in Holding /\ pc'[t] \notin Holding
  /\ Unlock(loc[t].cur)

\* A step of goroutine t that does one of these.
Lawful(t) == OthersKept(t) /\ (Keeps(t) \/ Takes(t) \/ Gives(t))

\* A lawful step keeps the discipline, and no Unlock() in it is fatal.
LEMMA LawfulKeeps ==
  ASSUME TypeInv, Disciplined, NEW t \in Thread, Lawful(t)
  PROVE  Disciplined' /\ up' = up
<1>a. t # None /\ None \notin Thread /\ lock \in [Obj -> Thread \cup {None}]
  BY ThreadAssumption DEF TypeInv, TypeOK
<1>1. CASE Keeps(t)
  BY <1>1 DEF Lawful, OthersKept, Keeps, Disciplined
<1>2. CASE Takes(t)
  <2>1. PICK x \in Obj : x = loc[t].cur
    BY <1>2 DEF Takes, TypeInv, FrameOK, FrameFits
  <2>2. lock[x] = None /\ lock' = [lock EXCEPT ![x] = t]
    BY <1>2, <2>1 DEF Takes, Acquire
  <2>3. pc[t] \notin Holding /\ pc'[t] \in Holding /\ loc'[t].cur = x
    BY <1>2, <2>1 DEF Takes
  <2>4. ASSUME NEW o \in Obj, NEW u \in Thread
        PROVE  lock'[o] = u <=> pc'[u] \in Holding /\ loc'[u].cur = o
    <3>1. lock[o] = u <=> pc[u] \in Holding /\ loc[u].cur = o
      BY DEF Disciplined
    <3>2. CASE u = t
      BY <1>a, <2>2, <2>3, <3>1, <3>2
    <3>3. CASE u # t
      <4>1. pc'[u] = pc[u] /\ loc'[u] = loc[u]
        BY <3>3 DEF Lawful, OthersKept
      <4> QED BY <1>a, <2>2, <3>1, <3>3, <4>1
    <3> QED BY <3>2, <3>3
  <2> QED BY <1>2, <2>4 DEF Disciplined, Takes
<1>3. CASE Gives(t)
  <2>1. PICK x \in Obj : x = loc[t].cur
    BY <1>3, HoldingRecord DEF Gives
  <2>2. pc[t] \in Holding /\ pc'[t] \notin Holding /\ lock[x] = t
    BY <1>3, <2>1 DEF Gives, Disciplined
  <2>3. lock' = [lock EXCEPT ![x] = None] /\ up' = up
    BY <1>3, <1>a, <2>1, <2>2 DEF Gives, Unlock
  <2>4. ASSUME NEW o \in Obj, NEW u \in Thread
        PROVE  lock'[o] = u <=> pc'[u] \in Holding /\ loc'[u].cur = o
    <3>1. lock[o] = u <=> pc[u] \in Holding /\ loc[u].cur = o
      BY DEF Disciplined
    <3>2. lock[o] = t <=> x = o
      BY <2>1, <2>2 DEF Disciplined
    <3>3. CASE u = t
      BY <1>a, <2>2, <2>3, <3>2, <3>3
    <3>4. CASE u # t
      <4>1. pc'[u] = pc[u] /\ loc'[u] = loc[u]
        BY <3>4 DEF Lawful, OthersKept
      <4> QED BY <1>a, <2>2, <2>3, <3>1, <3>4, <4>1
    <3> QED BY <3>3, <3>4
  <2> QED BY <2>3, <2>4 DEF Disciplined
<1> QED BY <1>1, <1>2, <1>3 DEF Lawful

\* A step between labels outside the locked sections is lawful.
LEMMA Outside ==
  ASSUME NEW t \in Thread, OthersKept(t), UNCHANGED <<lock, up>>,
         pc[t] \notin Holding, pc'[t] \notin Holding
  PROVE  Lawful(t)
BY DEF Lawful, Keeps

\* A step that stays in the locked section is lawful.
LEMMA Inside ==
  ASSUME NEW t \in Thread, OthersKept(t), UNCHANGED <<lock, up>>,
         pc[t] \in Holding, pc'[t] \in Holding, loc'[t].cur = loc[t].cur
  PROVE  Lawful(t)
BY DEF Lawful, Keeps

\* Children that no goroutine of the master serves yet.
Unborn == {"none", "launched"}

\* A child that has not reached the master has no goroutine serving it.
Launched == \A p \in Proc : proc[p].state \in Unborn => pc[p] = "idle"

\* No child goes back to before its launch's arrival.
Born ==
  \A p \in Proc : proc'[p].state \in Unborn => proc[p].state \in Unborn

\* One step of a goroutine inside a handler.
Served(t) == OthersKept(t) /\ pc[t] # "idle" /\ Born

\* Only a child that has registered has a goroutine serving it.
LEMMA KeepLaunched ==
  ASSUME Launched, NEW t \in Thread, OthersKept(t), pc[t] # "idle" \/ t \notin Proc, Born
  PROVE  Launched'
BY Threads DEF Launched, OthersKept, Born

\* A child that leaves the launched state does not come back to it.
LEMMA StateKeeps ==
  ASSUME TypeOK, NEW p, NEW s, s \notin Unborn, SetState(p, s)
  PROVE  Born /\ \A q \in Proc : proc'[q].obj = proc[q].obj
BY DEF SetState, TypeOK, ProcInfo, Born

\* The end of a waiting goroutine launches no child.
LEMMA ReapedKeeps ==
  ASSUME TypeOK, NEW p, Reaped(p)
  PROVE  Born /\ \A q \in Proc : proc'[q].obj \in {None, proc[q].obj}
BY DEF Reaped, TypeOK, ProcInfo, Born

\* run() launches a child that was not used and captures its record.
LEMMA LaunchKeeps ==
  ASSUME TypeOK, NEW o, NEW e, NEW p \in Proc, Launch(o, e, p)
  PROVE  Born /\ \A q \in Proc : proc'[q].obj \in {o, proc[q].obj}
BY DEF Launch, TypeOK, ProcInfo, Unused, Unborn, Born

\* StartPlugin's steps are lawful, but for its second look-up.
LEMMA LawfulStart ==
  ASSUME TypeInv, NEW t \in Thread, Start(t)
  PROVE  Served(t) /\ (Lawful(t) \/ Strays)
<1>a. TypeOK
  BY DEF TypeInv
<1>1. CASE StartGet(t)
  <2>1. Served(t) /\ pc'[t] \notin Holding
    BY <1>a, <1>1, Gotos, Moves DEF StartGet, Served, Born, Holding
  <2> QED BY <1>1, <2>1, Outside DEF StartGet, Served, Holding
<1>2. CASE StartLock(t)
  <2>1. Served(t) /\ pc'[t] = "startCheck" /\ loc'[t] = loc[t]
    BY <1>a, <1>2, Gotos DEF StartLock, Served, Born
  <2> QED BY <1>2, <2>1 DEF StartLock, Served, Lawful, Takes, Holding, NeedsRecord
<1>3. CASE StartCheck(t)
  <2>1. Served(t) /\ pc'[t] # "startCheck"
    BY <1>a, <1>3, Moves, Finishes, Returns DEF StartCheck, Served, Born
  <2>2. pc[t] = "startCheck" /\ pc[t] \in Holding
    BY <1>3 DEF StartCheck, Holding
  <2>3. CASE loc[t].cur # pmap
    BY <2>1, <2>2, <2>3 DEF Strays
  <2>4. CASE loc[t].cur = pmap
    <3>1. pmap # None
      BY <2>2, <2>4, HoldingRecord, ThreadAssumption
    <3>2. CASE Move(t, "startPing", [loc[t] EXCEPT !.cur = pmap, !.tgt = PostTarget])
                 /\ UNCHANGED <<lock, up>>
      <4>1. /\ OthersKept(t) /\ pc'[t] = "startPing"
            /\ loc'[t] = [loc[t] EXCEPT !.cur = pmap, !.tgt = PostTarget]
        BY <1>a, <3>2, Moves
      <4>2. loc'[t].cur = loc[t].cur
        BY <1>a, <2>4, <4>1, Frames
      <4> QED BY <2>1, <2>2, <3>2, <4>1, <4>2, Inside DEF Holding
    <3>3. CASE Unlock(pmap) /\ (Return(t) \/ Finish(t, "startManifest"))
      <4>1. pc'[t] \notin Holding
        BY <1>a, <3>3, Finishes, Returns DEF Holding
      <4> QED BY <2>1, <2>2, <2>4, <3>3, <4>1 DEF Served, Lawful, Gives
    <3> QED BY <1>3, <3>1, <3>2, <3>3 DEF StartCheck
  <2> QED BY <2>3, <2>4
<1>4. CASE StartPing(t)
  <2>1. Served(t) /\ pc'[t] \notin Holding
    BY <1>a, <1>4, Finishes, Returns DEF StartPing, Served, Born, Holding
  <2> QED BY <1>4, <2>1 DEF StartPing, Served, Lawful, Gives, Holding
<1>5. CASE StartManifest(t)
  <2>1. Served(t) /\ pc'[t] \notin Holding
    BY <1>a, <1>5, Moves, Returns DEF StartManifest, Served, Born, Holding
  <2> QED BY <1>5, <2>1, Outside DEF StartManifest, Served, Holding
<1>6. CASE StartInit(t)
  <2>1. Served(t) /\ pc'[t] \notin Holding
    BY <1>a, <1>6, Moves DEF StartInit, Served, Born, Holding
  <2> QED BY <1>6, <2>1, Outside DEF StartInit, Served, Holding
<1>7. CASE StartRun(t)
  <2>1. Served(t) /\ pc'[t] = "startExec" /\ loc'[t].cur = loc[t].cur
    BY <1>a, <1>7, Retargets DEF StartRun, Served, Born
  <2> QED BY <1>7, <2>1
          DEF StartRun, Served, Lawful, Takes, Holding, NeedsRecord
<1>8. CASE StartExec(t)
  <2>1. OthersKept(t) /\ pc[t] # "idle" /\ pc'[t] \notin Holding
    BY <1>a, <1>8, Returns DEF StartExec, Holding
  <2>2. Born
    BY <1>a, <1>8, LaunchKeeps DEF StartExec, LaunchFails, Born
  <2> QED BY <1>8, <2>1, <2>2 DEF StartExec, Served, Lawful, Gives, Holding
<1> QED BY <1>1, <1>2, <1>3, <1>4, <1>5, <1>6, <1>7, <1>8 DEF Start

\* StopPlugin's and _stopPlugin's steps are lawful.
LEMMA LawfulStop ==
  ASSUME TypeInv, NEW t \in Thread, Stop(t)
  PROVE  Served(t) /\ Lawful(t)
<1>a. TypeOK
  BY DEF TypeInv
<1>1. CASE StopGet(t)
  <2>1. Served(t) /\ pc'[t] \notin Holding
    <3>1. CASE Finish(t, AfterStop(t))
      BY <1>a, <1>1, <3>1, Finishes, AfterStopFree DEF StopGet, Served, Born
    <3>2. CASE Move(t, "stopLock", [loc[t] EXCEPT !.cur = pmap, !.tgt = None])
      BY <1>a, <1>1, <3>2, Moves DEF StopGet, Served, Born, Holding
    <3> QED BY <1>1, <3>1, <3>2 DEF StopGet
  <2> QED BY <1>1, <2>1, Outside DEF StopGet, Served, Holding
<1>2. CASE StopLock(t)
  <2>1. Served(t) /\ pc'[t] = "kill"
    BY <1>a, <1>2, Moves DEF StopLock, Served, Born
  <2>2. loc'[t].cur = loc[t].cur
    <3>1. loc'[t] = [loc[t] EXCEPT !.ret = "stopDone"]
      BY <1>a, <1>2, Moves DEF StopLock
    <3> QED BY <1>a, <3>1, Frames
  <2> QED BY <1>2, <2>1, <2>2
          DEF StopLock, Served, Lawful, Takes, Holding, NeedsRecord
<1>3. CASE Kill(t)
  <2>1. Served(t) /\ loc'[t] = loc[t] /\ pc'[t] \in {loc[t].ret, "killPost"}
    BY <1>a, <1>3, Gotos DEF Kill, Served, Born
  <2>2. pc[t] = "kill" /\ loc[t].ret \in Holding
    BY <1>3 DEF Kill, TypeInv, TypeOK, Locals, FrameOK, FrameFits, Holding
  <2> QED BY <1>3, <2>1, <2>2, Inside DEF Kill, Served, Holding
<1>4. CASE KillPost(t)
  <2>1. Served(t) /\ pc'[t] = "killed" /\ loc'[t].cur = loc[t].cur
    BY <1>a, <1>4, Retargets DEF KillPost, Served, Born
  <2> QED BY <1>4, <2>1, Inside DEF KillPost, Served, Holding
<1>5. CASE KillServed(t)
  <2>1. Born
    BY <1>a, <1>5, StateKeeps DEF KillServed, Unborn
  <2> QED BY <1>5, <2>1 DEF KillServed, Served, OthersKept, Lawful, Keeps
<1>6. CASE Killed(t)
  <2>1. Served(t) /\ pc'[t] = loc[t].ret /\ loc'[t].cur = loc[t].cur
    BY <1>a, <1>6, Retargets DEF Killed, Served, Born
  <2>2. pc[t] = "killed" /\ loc[t].ret \in Holding
    BY <1>6 DEF Killed, TypeInv, TypeOK, Locals, FrameOK, FrameFits, Holding
  <2> QED BY <1>6, <2>1, <2>2, Inside DEF Killed, Served, Holding
<1>7. CASE StopDone(t)
  <2>1. Served(t) /\ pc'[t] \notin Holding
    BY <1>a, <1>7, Finishes, AfterStopFree DEF StopDone, Served, Born
  <2> QED BY <1>7, <2>1 DEF StopDone, Served, Lawful, Gives, Holding
<1> QED BY <1>1, <1>2, <1>3, <1>4, <1>5, <1>6, <1>7 DEF Stop

\* pluginRegisterHandler's steps are lawful.
LEMMA LawfulRegister ==
  ASSUME TypeInv, NEW p \in Proc, Register(p)
  PROVE  Served(p) /\ Lawful(p)
<1>a. TypeOK /\ p \in Thread
  BY Threads DEF TypeInv
<1>1. CASE RegCheck(p)
  <2>1. Served(p) /\ pc'[p] \notin Holding
    BY <1>a, <1>1, Gotos DEF RegCheck, Served, Born, Holding
  <2> QED BY <1>a, <1>1, <2>1, Outside DEF RegCheck, Served, Holding
<1>2. CASE RegInit(p)
  <2>1. Served(p) /\ pc'[p] \notin Holding
    BY <1>a, <1>2, Moves DEF RegInit, Served, Born, Holding
  <2> QED BY <1>a, <1>2, <2>1, Outside DEF RegInit, Served, Holding
<1>3. CASE RegLock(p)
  <2>1. Served(p) /\ pc'[p] \notin Holding
    BY <1>a, <1>3, Returns DEF RegLock, Served, Born, Holding
  <2> QED BY <1>a, <1>3, <2>1, Outside DEF RegLock, Served, Holding
<1> QED BY <1>1, <1>2, <1>3 DEF Register

\* CheckUpdate's and InstallPlugin's steps are lawful.
LEMMA LawfulUpdate ==
  ASSUME TypeInv, NEW t \in Thread, Update(t)
  PROVE  Served(t) /\ Lawful(t)
<1>a. TypeOK
  BY DEF TypeInv
<1>1. CASE Check(t)
  <2>1. Served(t) /\ pc'[t] \notin Holding
    BY <1>a, <1>1, Gotos, Moves, Returns DEF Check, Served, Born, Holding
  <2> QED BY <1>1, <2>1, Outside DEF Check, Served, Holding
<1>2. CASE Compare(t)
  <2>1. Served(t) /\ pc'[t] \notin Holding
    BY <1>a, <1>2, Moves DEF Compare, Served, Born, Holding
  <2> QED BY <1>2, <2>1, Outside DEF Compare, Served, Holding
<1>3. CASE Recheck(t)
  <2>1. Served(t) /\ pc'[t] \notin Holding
    BY <1>a, <1>3, Moves, Returns DEF Recheck, Served, Born, Holding
  <2> QED BY <1>3, <2>1, Outside DEF Recheck, Served, Holding
<1>4. CASE CheckLock(t)
  <2>1. Served(t) /\ pc'[t] \notin Holding
    BY <1>a, <1>4, Returns DEF CheckLock, Served, Born, Holding
  <2> QED BY <1>4, <2>1, Outside DEF CheckLock, Served, Holding
<1>5. CASE Snap(t)
  <2>1. Served(t) /\ pc'[t] \notin Holding
    BY <1>a, <1>5, Moves DEF Snap, Served, Born, Holding
  <2> QED BY <1>5, <2>1, Outside DEF Snap, Served, Holding
<1>6. CASE InstInit(t)
  <2>1. Served(t) /\ pc'[t] \notin Holding
    BY <1>a, <1>6, Moves DEF InstInit, Served, Born, Holding
  <2> QED BY <1>6, <2>1, Outside DEF InstInit, Served, Holding
<1>7. CASE InstLock(t)
  <2>1. Served(t) /\ pc'[t] = "wsPost" /\ loc'[t] = loc[t]
    BY <1>a, <1>7, Gotos DEF InstLock, Served, Born
  <2> QED BY <1>7, <2>1 DEF InstLock, Served, Lawful, Takes, Holding, NeedsRecord
<1>8. CASE Decide(t)
  <2>1. Served(t) /\ pc[t] \in Holding
    BY <1>a, <1>8, Gotos, Finishes DEF Decide, Served, Born, Holding
  <2>2. CASE Unlock(loc[t].cur) /\ Finish(t, "recheck")
    BY <1>a, <2>1, <2>2, Finishes DEF Served, Lawful, Gives, Holding
  <2>3. CASE Goto(t, "download") /\ UNCHANGED <<lock, up>>
    BY <1>a, <2>1, <2>3, Gotos, Inside DEF Served, Holding
  <2> QED BY <1>8, <2>2, <2>3 DEF Decide
<1>9. CASE Download(t)
  <2>1. Served(t) /\ pc[t] \in Holding
    BY <1>a, <1>9, Gotos, Returns DEF Download, Served, Born, Holding
  <2>2. CASE Unlock(loc[t].cur) /\ Return(t)
    BY <1>a, <2>1, <2>2, Returns DEF Served, Lawful, Gives, Holding
  <2>3. CASE Goto(t, "unzip") /\ UNCHANGED <<lock, up>>
    BY <1>a, <2>1, <2>3, Gotos, Inside DEF Served, Holding
  <2> QED BY <1>9, <2>2, <2>3 DEF Download
<1>10. CASE Unzip(t)
  <2>1. Served(t) /\ pc'[t] \notin Holding
    BY <1>a, <1>10, Finishes, Returns DEF Unzip, Served, Born, Holding
  <2> QED BY <1>10, <2>1 DEF Unzip, Served, Lawful, Gives, Holding
<1> QED BY <1>1, <1>2, <1>3, <1>4, <1>5, <1>6, <1>7, <1>8, <1>9, <1>10
   DEF Update

\* WaitStopPlugin's steps are lawful, its give-up included.
LEMMA LawfulWaitStop ==
  ASSUME TypeInv, NEW t \in Thread, WaitStop(t)
  PROVE  Served(t) /\ Lawful(t)
<1>a. TypeOK
  BY DEF TypeInv
<1>1. CASE WsPost(t)
  <2>1. Served(t) /\ pc'[t] = "wsPing" /\ loc'[t].cur = loc[t].cur
    BY <1>a, <1>1, Retargets DEF WsPost, Served, Born
  <2> QED BY <1>1, <2>1, Inside DEF WsPost, Served, Holding
<1>2. CASE WsPing(t)
  <2>1. PICK r : Move(t, "kill", [loc[t] EXCEPT !.ret = r, !.tgt = None])
    BY <1>2 DEF WsPing
  <2>2. OthersKept(t) /\ pc'[t] = "kill" /\ loc'[t].cur = loc[t].cur
    <3>1. loc'[t] = [loc[t] EXCEPT !.ret = r, !.tgt = None]
      BY <1>a, <2>1, Moves
    <3> QED BY <1>a, <2>1, <3>1, Moves, Frames
  <2> QED BY <1>2, <2>2, Inside DEF WsPing, Served, Born, Holding
<1>3. CASE WsAgain(t)
  <2>1. Served(t) /\ pc'[t] = "wsProbe" /\ loc'[t].cur = loc[t].cur
    BY <1>a, <1>3, Retargets DEF WsAgain, Served, Born
  <2> QED BY <1>3, <2>1, Inside DEF WsAgain, Served, Holding
<1>4. CASE WsProbe(t)
  <2>1. Served(t) /\ pc[t] \in Holding
    BY <1>a, <1>4, Moves, Returns DEF WsProbe, Served, Born, Holding
  <2>2. CASE Unlock(loc[t].cur) /\ Return(t)
    BY <1>a, <2>1, <2>2, Returns DEF Served, Lawful, Gives, Holding
  <2>3. CASE /\ \E l \in {"kill", Stopped(t)} : Move(t, l, [loc[t] EXCEPT !.tgt = None])
             /\ UNCHANGED <<lock, up>>
    <3>1. pc'[t] \in Holding /\ loc'[t].cur = loc[t].cur
      BY <1>a, <2>3, Retargets DEF Stopped, Holding
    <3> QED BY <2>1, <2>3, <3>1, Inside DEF Served
  <2> QED BY <1>4, <2>2, <2>3 DEF WsProbe
<1> QED BY <1>1, <1>2, <1>3, <1>4 DEF WaitStop

\* UninstallPlugin's steps are lawful, the removal of the record included.
LEMMA LawfulUninstall ==
  ASSUME TypeInv, NEW t \in Thread, Uninstall(t)
  PROVE  Served(t) /\ Lawful(t)
<1>a. TypeOK
  BY DEF TypeInv
<1>1. CASE UninstGet(t)
  <2>1. Served(t) /\ pc'[t] \notin Holding
    BY <1>a, <1>1, Gotos, Moves DEF UninstGet, Served, Born, Holding
  <2> QED BY <1>1, <2>1, Outside DEF UninstGet, Served, Holding
<1>2. CASE RawRemove(t)
  <2>1. Served(t) /\ pc'[t] \notin Holding
    BY <1>a, <1>2, Returns DEF RawRemove, Served, Born, Holding
  <2> QED BY <1>2, <2>1, Outside DEF RawRemove, Served, Holding
<1>3. CASE UninstLock(t)
  <2>1. Served(t) /\ pc'[t] = "wsPost" /\ loc'[t] = loc[t]
    BY <1>a, <1>3, Gotos DEF UninstLock, Served, Born
  <2> QED BY <1>3, <2>1 DEF UninstLock, Served, Lawful, Takes, Holding, NeedsRecord
<1>4. CASE Remove(t)
  <2>1. Served(t) /\ pc'[t] \notin Holding
    BY <1>a, <1>4, Returns DEF Remove, Served, Born, Holding
  <2> QED BY <1>4, <2>1 DEF Remove, Served, Lawful, Gives, Holding
<1> QED BY <1>1, <1>2, <1>3, <1>4 DEF Uninstall

\* defaultHandle's steps are lawful: it takes no lock.
LEMMA LawfulProxy ==
  ASSUME TypeInv, NEW t \in Thread, Proxy(t)
  PROVE  Served(t) /\ Lawful(t)
<1>a. TypeOK
  BY DEF TypeInv
<1>1. CASE ProxyEnter(t)
  <2>1. Served(t) /\ pc'[t] \notin Holding
    BY <1>a, <1>1, Moves, Returns DEF ProxyEnter, Served, Born, Holding
  <2> QED BY <1>1, <2>1, Outside DEF ProxyEnter, Served, Holding
<1>2. CASE ProxyRoute(t)
  <2>1. Served(t) /\ pc'[t] \notin Holding
    BY <1>a, <1>2, Gotos, Returns DEF ProxyRoute, Served, Born, Holding
  <2> QED BY <1>2, <2>1, Outside DEF ProxyRoute, Served, Holding
<1>3. CASE ProxySend(t)
  <2>1. Served(t) /\ pc'[t] \notin Holding
    BY <1>a, <1>3, Moves DEF ProxySend, Served, Born, Holding
  <2> QED BY <1>3, <2>1, Outside DEF ProxySend, Served, Holding
<1>4. CASE ProxyWait(t)
  <2>1. Served(t) /\ pc'[t] \notin Holding
    BY <1>a, <1>4, Returns DEF ProxyWait, Served, Born, Holding
  <2> QED BY <1>4, <2>1, Outside DEF ProxyWait, Served, Holding
<1> QED BY <1>1, <1>2, <1>3, <1>4 DEF Proxy

-----------------------------------------------------------------------------
(* The steps that are no goroutine's inside a handler.                     *)

\* A step that begins something: one goroutine that is not a child's leaves
\* its rest, outside the locked sections.
Begins ==
  \E t \in Thread \ Proc : OthersKept(t) /\ Lawful(t) /\ UNCHANGED <<record, proc>>
                             /\ loc'[t].cur = loc[t].cur /\ pc[t] \notin Holding

\* The arrival of a request begins something.
LEMMA BeginRequest ==
  ASSUME TypeInv, NEW t \in Client, Call(t)
  PROVE  Begins
<1>a. TypeOK /\ t \in Thread \ Proc
  BY Threads, ThreadAssumption DEF TypeInv
<1>1. PICK op \in Calls[t], o \in {"none", "restart", "uninstall"} :
        Move(t, FirstLabel[op], [loc[t] EXCEPT !.op = o])
  BY DEF Call
<1>2. /\ OthersKept(t) /\ pc'[t] = FirstLabel[op]
      /\ loc'[t] = [loc[t] EXCEPT !.op = o]
  BY <1>a, <1>1, Moves
<1>3. pc'[t] \notin Holding /\ loc'[t].cur = loc[t].cur
  BY <1>a, <1>2, Frames, FirstFree, CallAssumption
<1>4. pc[t] \notin Holding /\ UNCHANGED <<record, proc, up>>
  BY DEF Call, Holding
<1> QED BY <1>a, <1>2, <1>3, <1>4, Outside DEF Begins

\* The heartbeat and signal goroutines begin something, or end a ping.
LEMMA BeginBackground ==
  ASSUME TypeInv, Background
  PROVE  \E t \in Thread \ Proc :
           /\ OthersKept(t) /\ Lawful(t) /\ UNCHANGED <<record, proc>>
           /\ loc'[t].cur \in {None, loc[t].cur} /\ pc[t] \notin Holding
<1>a. TypeOK /\ \A t \in {Heartbeat, Pinger, CoDeath} : t \in Thread \ Proc
  BY ThreadAssumption DEF TypeInv, Thread, Special
<1>1. CASE HeartbeatTick
  <2>1. PICK t \in {Heartbeat, Pinger}, l \in {"stopGet", "pgPost"} :
          pc[t] = "idle" /\ Goto(t, l) /\ UNCHANGED <<record, proc, up>>
    BY <1>1 DEF HeartbeatTick
  <2>2. OthersKept(t) /\ pc'[t] = l /\ loc'[t] = loc[t]
    BY <1>a, <2>1, Gotos
  <2>3. Lawful(t)
    BY <1>a, <2>1, <2>2, Outside DEF Holding
  <2> QED BY <1>a, <2>1, <2>2, <2>3 DEF Holding
<1>2. CASE PingPost
  <2>1. OthersKept(Pinger) /\ pc'[Pinger] = "pgPing" /\ loc'[Pinger].cur = loc[Pinger].cur
    BY <1>a, <1>2, Retargets DEF PingPost
  <2>2. Lawful(Pinger)
    BY <1>a, <1>2, <2>1, Outside DEF PingPost, Holding
  <2> QED BY <1>a, <1>2, <2>1, <2>2 DEF PingPost, Holding
<1>3. CASE PingAnswer
  <2>1. OthersKept(Pinger) /\ pc'[Pinger] \notin Holding /\ loc'[Pinger].cur = None
    BY <1>a, <1>3, Returns, Finishes DEF PingAnswer, Holding
  <2>2. Lawful(Pinger)
    BY <1>a, <1>3, <2>1, Outside DEF PingAnswer, Holding
  <2> QED BY <1>a, <1>3, <2>1, <2>2 DEF PingAnswer, Holding
<1>4. CASE Signal
  <2>1. PICK l \in {"stopGet", "ended"} : Goto(CoDeath, l)
    BY <1>4 DEF Signal
  <2>2. OthersKept(CoDeath) /\ pc'[CoDeath] = l /\ loc'[CoDeath] = loc[CoDeath]
    BY <1>a, <2>1, Gotos
  <2>3. Lawful(CoDeath)
    BY <1>a, <1>4, <2>2, Outside DEF Signal, Holding
  <2> QED BY <1>a, <1>4, <2>2, <2>3 DEF Signal, Holding
<1> QED BY <1>1, <1>2, <1>3, <1>4 DEF Background

\* A child's steps move nobody else's program counter, and begin its own
\* registration only.
LEMMA SlaveMoves ==
  ASSUME TypeInv, Launched, NEW p \in Proc, Slave(p)
  PROVE  /\ Launched' /\ UNCHANGED <<record, up>>
         /\ \A q \in Proc : proc'[q].obj = proc[q].obj
         /\ \/ UNCHANGED <<pc, loc>>
            \/ pc[p] = "idle" /\ Goto(p, "regCheck")
<1>a. TypeOK /\ p \in Thread
  BY Threads DEF TypeInv
<1>1. CASE /\ \E s \in {"serving", "dead"} : SetState(p, s)
           /\ UNCHANGED <<record, up, pc, loc>>
  BY <1>a, <1>1, StateKeeps DEF Launched, Born, Unborn
<1>2. CASE SlaveStart(p) /\ Goto(p, "regCheck")
  <2>1. pc[p] = "idle" /\ proc[p].state = "launched"
    BY <1>2 DEF SlaveStart, Launched, Unborn
  <2>2. OthersKept(p) /\ pc'[p] = "regCheck"
    BY <1>a, <1>2, Gotos
  <2>3. proc' = [proc EXCEPT ![p] = [@ EXCEPT !.state = "registering", !.ver = disk]]
    BY <1>2, <2>1, <2>2 DEF SlaveStart, SetState
  <2>4. /\ proc'[p].state = "registering" /\ proc'[p].obj = proc[p].obj
        /\ \A q \in Proc \ {p} : proc'[q] = proc[q]
    BY <1>a, <2>3 DEF TypeOK, ProcInfo
  <2>5. Launched'
    BY <2>2, <2>4, Threads DEF Launched, Unborn, OthersKept
  <2> QED BY <1>2, <2>1, <2>4, <2>5 DEF SlaveStart
<1> QED BY <1>1, <1>2
   DEF Slave, SlaveStart, SlaveServe, SlaveHeartbeat, SlaveExit

\* run()'s waiting goroutine moves nobody and takes no lock, although it writes
\* the status.
LEMMA ReaperMoves ==
  ASSUME TypeInv, NEW p \in Proc, Reaper(p)
  PROVE  /\ UNCHANGED <<pmap, lock, up, pc, loc>> /\ Born
         /\ \A q \in Proc : proc'[q].obj \in {None, proc[q].obj}
<1>1. CASE ReapMatch(p)
  <2>1. CASE proc' = [proc EXCEPT ![p].reap = "match"]
    BY <1>1, <2>1 DEF ReapMatch, TypeInv, TypeOK, ProcInfo, Born
  <2>2. CASE Reaped(p)
    BY <1>1, <2>2, ReapedKeeps DEF ReapMatch, TypeInv
  <2> QED BY <1>1, <2>1, <2>2 DEF ReapMatch
<1>2. CASE ReapWrite(p)
  BY <1>2, ReapedKeeps DEF ReapWrite, TypeInv
<1> QED BY <1>1, <1>2 DEF Reaper

\* After a restart nobody holds or serves anything.
LEMMA RestartMoves ==
  ASSUME MasterRestarts
  PROVE  Launched' /\ Disciplined' /\ up'
<1>1. \A t \in Thread : pc'[t] = "idle"
  BY DEF MasterRestarts
<1>2. \A o \in Obj : lock'[o] = None
  BY DEF MasterRestarts
<1> QED BY <1>1, <1>2, Threads, ThreadAssumption
        DEF MasterRestarts, Launched, Disciplined, Holding

\* Every step keeps the goroutines of the unborn children idle.
LEMMA LaunchedNext ==
  ASSUME TypeInv, Launched, [Next]_vars
  PROVE  Launched'
<1>1. ASSUME NEW t \in Thread, Step(t) PROVE Launched'
  BY <1>1, LawfulStart, LawfulStop, LawfulUpdate, LawfulWaitStop, LawfulUninstall,
     LawfulProxy, KeepLaunched DEF Step, Served
<1>2. ASSUME NEW t \in Client, Request(t) PROVE Launched'
  <2>1. PICK u \in Thread \ Proc : OthersKept(u) /\ UNCHANGED proc
    BY <1>2, BeginRequest DEF Request, Begins
  <2> QED BY <2>1, KeepLaunched DEF Born
<1>3. ASSUME NEW p \in Proc, Registering(p) \/ Slave(p) \/ Reaper(p) PROVE Launched'
  <2>1. CASE Registering(p)
    BY <2>1, LawfulRegister, KeepLaunched, Threads DEF Registering, Served
  <2>2. CASE Reaper(p)
    BY <2>2, ReaperMoves DEF Launched, Born
  <2> QED BY <1>3, <2>1, <2>2, SlaveMoves
<1>4. CASE InBackground
  <2>1. PICK u \in Thread \ Proc : OthersKept(u) /\ UNCHANGED proc
    BY <1>4, BeginBackground DEF InBackground
  <2> QED BY <2>1, KeepLaunched DEF Born
<1>5. CASE Environment
  BY <1>5, RestartMoves DEF Environment, Publish, Tick, MasterDies, Launched
<1>6. CASE UNCHANGED vars
  BY <1>6 DEF vars, Launched
<1> QED BY <1>1, <1>2, <1>3, <1>4, <1>5, <1>6 DEF Next

\* Every step keeps the discipline, unless StartPlugin strays.
LEMMA DisciplineNext ==
  ASSUME TypeInv, Launched, Disciplined, [Next]_vars
  PROVE  Strays \/ KeepsDiscipline
<1>1. ASSUME NEW t \in Thread, Step(t) PROVE Strays \/ KeepsDiscipline
  BY <1>1, LawfulStart, LawfulStop, LawfulUpdate, LawfulWaitStop, LawfulUninstall,
     LawfulProxy, LawfulKeeps DEF Step, KeepsDiscipline
<1>2. ASSUME NEW t \in Client, Request(t) PROVE KeepsDiscipline
  <2>1. PICK u \in Thread \ Proc : Lawful(u)
    BY <1>2, BeginRequest DEF Request, Begins
  <2> QED BY <2>1, LawfulKeeps DEF KeepsDiscipline
<1>3. ASSUME NEW p \in Proc, Registering(p) \/ Slave(p) \/ Reaper(p) PROVE KeepsDiscipline
  <2>1. CASE Registering(p)
    BY <2>1, LawfulRegister, LawfulKeeps, Threads DEF Registering, KeepsDiscipline
  <2>2. CASE Slave(p)
    <3>1. CASE UNCHANGED <<pc, loc>>
      BY <2>2, <3>1, SlaveMoves DEF KeepsDiscipline, Disciplined
    <3>2. CASE pc[p] = "idle" /\ Goto(p, "regCheck")
      <4>1. p \in Thread /\ OthersKept(p) /\ pc'[p] = "regCheck"
        BY <3>2, Gotos, Threads DEF TypeInv
      <4>2. Lawful(p)
        BY <2>2, <3>2, <4>1, SlaveMoves, Outside DEF Holding
      <4> QED BY <4>1, <4>2, LawfulKeeps DEF KeepsDiscipline
    <3> QED BY <2>2, <3>1, <3>2, SlaveMoves
  <2>3. CASE Reaper(p)
    BY <2>3, ReaperMoves DEF KeepsDiscipline, Disciplined
  <2> QED BY <1>3, <2>1, <2>2, <2>3
<1>4. CASE InBackground
  <2>1. PICK u \in Thread \ Proc : Lawful(u)
    BY <1>4, BeginBackground DEF InBackground
  <2> QED BY <2>1, LawfulKeeps DEF KeepsDiscipline
<1>5. CASE Environment
  BY <1>5, RestartMoves
     DEF Environment, Publish, Tick, MasterDies, KeepsDiscipline, Disciplined
<1>6. CASE UNCHANGED vars
  BY <1>6 DEF vars, KeepsDiscipline, Disciplined
<1> QED BY <1>1, <1>2, <1>3, <1>4, <1>5, <1>6 DEF Next

\* When the master starts nobody holds or serves anything.
LEMMA DisciplineInit == Init => Launched /\ Disciplined
BY Threads, ThreadAssumption DEF Init, Launched, Disciplined, Holding

\* A child that has not reached the master has no goroutine serving it.
THEOREM LaunchedInvariant == Spec => []Launched
BY LaunchedNext, DisciplineInit, TypeInvariant, PTL DEF Spec

\* Every mutex is held by the goroutine that is in a locked section of its
\* record, and no Unlock() is fatal, for every number of clients, children and
\* records, and whatever records UninstallPlugin takes out of the map, until
\* StartPlugin leaves its second look-up with another record than the one it
\* locked, or with none.
THEOREM LockDisciplineHolds == Spec => LockDiscipline
<1> DEFINE Lawfully == Disciplined => KeepsDiscipline \/ Strays
<1>1. TypeInv /\ Launched /\ [Next]_vars => [Lawfully]_vars
  BY DisciplineNext
<1> HIDE DEF Lawfully
<1>2. Spec => Disciplined /\ [][Lawfully]_vars
  BY <1>1, DisciplineInit, LaunchedInvariant, TypeInvariant, PTL DEF Spec
<1> QED BY <1>2 DEF LockDiscipline, Lawfully

-----------------------------------------------------------------------------
(* One record: what RemoveAll's success adds.                              *)

\* UninstallPlugin never takes a record out of the map.
NoRemoval == "removeAll" \notin Events

\* Every record anybody has in hand is the one in the map.
OneRecord ==
  /\ \A t \in Thread : loc[t].cur \in {None, pmap}
  /\ \A p \in Proc : proc[p].obj \in {None, pmap}
  /\ pmap # None => info[pmap].status # "Unallocated"

SafeInv == Disciplined /\ OneRecord /\ Launched /\ DownloadExclusive

\* What is proved inductive.
Inv == TypeInv /\ SafeInv

\* What a step has to keep beside the discipline.
Single == OneRecord /\ DownloadExclusive

\* The labels between the write of Downloading and that of the verdict.
Installer == {"download", "unzip"}

\* The record in hand is the one in the map.
LEMMA HeldCurrent ==
  ASSUME Inv, NEW t \in Thread, pc[t] \in NeedsRecord
  PROVE  loc[t].cur \in Obj /\ loc[t].cur # None /\ loc[t].cur = pmap
BY ThreadAssumption DEF Inv, SafeInv, OneRecord, TypeInv, FrameOK, FrameFits

\* With one record, StartPlugin's second look-up finds the one it locked.
LEMMA NeverStrays == ASSUME Inv PROVE ~Strays
BY HeldCurrent DEF Strays, NeedsRecord

\* A status of Downloading stays covered by an installer when one goroutine
\* moves, if the status was covered by another or is covered by this one.
LEMMA KeepExclusive ==
  ASSUME Inv, Disciplined', NEW t \in Thread, OthersKept(t),
         \A o \in Obj : info'[o].status = "Downloading" =>
           \/ info[o].status = "Downloading"
                /\ (pc[t] \notin Installer \/ loc[t].cur # o)
           \/ pc'[t] \in Installer /\ loc'[t].cur = o
  PROVE  DownloadExclusive'
<1> SUFFICES ASSUME NEW o \in Obj, info'[o].status = "Downloading"
             PROVE  \E u \in Thread : pc'[u] \in Installer /\ loc'[u].cur = o
                                        /\ lock'[o] = u
  BY DEF DownloadExclusive, Installer
<1>1. ASSUME NEW u \in Thread, pc'[u] \in Installer, loc'[u].cur = o
      PROVE  lock'[o] = u
  BY <1>1 DEF Disciplined, Installer, Holding
<1>2. CASE info[o].status = "Downloading"
             /\ (pc[t] \notin Installer \/ loc[t].cur # o)
  <2>1. PICK u \in Thread : pc[u] \in Installer /\ loc[u].cur = o
    BY <1>2 DEF Inv, SafeInv, DownloadExclusive, Installer
  <2>2. u # t
    BY <1>2, <2>1
  <2> QED BY <1>1, <2>1, <2>2 DEF OthersKept
<1> QED BY <1>1, <1>2

\* Writing another status adds no Downloading.
LEMMA NotDownloading ==
  ASSUME TypeOK, NEW o, NEW s, s # "Downloading", SetStatus(o, s)
  PROVE  \A x \in Obj : info'[x].status = "Downloading"
                          => info[x].status = "Downloading" /\ x # o
BY DEF SetStatus, TypeOK, Info

\* Writing a status leaves the record in the map allocated.
LEMMA StatusAllocated ==
  ASSUME Inv, NEW o, NEW s, s # "Unallocated", SetStatus(o, s), UNCHANGED pmap
  PROVE  pmap' # None => info'[pmap'].status # "Unallocated"
BY DEF SetStatus, Inv, SafeInv, OneRecord, TypeInv, TypeOK, Info

\* initManifest returns the record in the map, allocated, and adds no
\* Downloading.
LEMMA InitKeeps ==
  ASSUME Inv, NEW o \in Obj, NEW v, NEW e, InitManifest(o, v, e)
  PROVE  /\ \A x \in Obj : info'[x].status = "Downloading"
                             => info[x].status = "Downloading"
         /\ pmap' = o /\ pmap \in {None, o} /\ info'[o].status # "Unallocated"
<1>1. info \in [Obj -> Info] /\ o # None
  BY ThreadAssumption DEF Inv, TypeInv, TypeOK
<1>2. CASE pmap = None
  <2>1. info' = [info EXCEPT ![o] = [status |-> "NotStarted", endpoint |-> e,
                                     version |-> v]] /\ pmap' = o
    BY <1>1, <1>2 DEF InitManifest
  <2> QED BY <1>1, <1>2, <2>1
<1>3. CASE pmap # None
  <2>1. /\ info' = [info EXCEPT ![o].version = v, ![o].endpoint = e]
        /\ pmap' = pmap /\ o = pmap
    BY <1>3 DEF InitManifest
  <2>2. \A x \in Obj : info'[x].status = info[x].status
    BY <1>1, <2>1 DEF Info
  <2>3. info[o].status # "Unallocated"
    BY <1>3, <2>1 DEF Inv, SafeInv, OneRecord
  <2> QED BY <1>3, <2>1, <2>2, <2>3
<1> QED BY <1>2, <1>3

\* The records in hand stay the one in the map while it stays there.
LEMMA KeepRecord ==
  ASSUME Inv, NEW t \in Thread, OthersKept(t), UNCHANGED pmap,
         loc'[t].cur \in {None, pmap},
         \A q \in Proc : proc'[q].obj \in {None, pmap, proc[q].obj},
         pmap' # None => info'[pmap'].status # "Unallocated"
  PROVE  OneRecord'
BY DEF Inv, SafeInv, OneRecord, OthersKept

\* A step of a goroutine that is not installing, picks up no record but the
\* one in the map and writes no status keeps one record.
LEMMA SafeMove ==
  ASSUME Inv, Disciplined', NEW t \in Thread, OthersKept(t), UNCHANGED <<pmap, info>>,
         pc[t] \notin Installer, loc'[t].cur \in {None, pmap},
         \A q \in Proc : proc'[q].obj \in {None, pmap, proc[q].obj}
  PROVE  Single'
<1>1. DownloadExclusive'
  BY KeepExclusive
<1>2. OneRecord'
  BY KeepRecord DEF Inv, SafeInv, OneRecord
<1> QED BY <1>1, <1>2 DEF Single

\* So does one that goes on with the record in hand, and one that leaves it.
LEMMA SafeSame ==
  ASSUME Inv, Disciplined', NEW t \in Thread, OthersKept(t), UNCHANGED <<pmap, info>>,
         pc[t] \notin Installer, loc'[t].cur \in {None, loc[t].cur},
         \A q \in Proc : proc'[q].obj \in {None, pmap, proc[q].obj}
  PROVE  Single'
BY SafeMove DEF Inv, SafeInv, OneRecord

\* So does one that writes another status than Downloading, installing or not.
LEMMA SafeStatus ==
  ASSUME Inv, Disciplined', NEW t \in Thread, OthersKept(t), UNCHANGED <<pmap, proc>>,
         loc'[t].cur \in {None, loc[t].cur},
         NEW s, s \notin {"Downloading", "Unallocated"}, SetStatus(loc[t].cur, s)
  PROVE  Single'
<1>1. DownloadExclusive'
  BY NotDownloading, KeepExclusive DEF Inv, TypeInv
<1>2. OneRecord'
  BY StatusAllocated, KeepRecord DEF Inv, SafeInv, OneRecord
<1> QED BY <1>1, <1>2 DEF Single

\* So does one that calls initManifest.
LEMMA SafeManifest ==
  ASSUME Inv, Disciplined', NEW t \in Thread, OthersKept(t), UNCHANGED proc,
         pc[t] \notin Installer, NEW o \in Obj, NEW v, NEW e, InitManifest(o, v, e),
         loc'[t].cur = o
  PROVE  Single'
<1>1. DownloadExclusive'
  BY InitKeeps, KeepExclusive
<1>2. OneRecord'
  BY InitKeeps DEF Inv, SafeInv, OneRecord, OthersKept
<1> QED BY <1>1, <1>2 DEF Single

\* A goroutine that takes a record in hand has it in hand.
LEMMA Picks ==
  ASSUME TypeOK, NEW t \in Thread, NEW l, NEW o, NEW v, NEW p,
         \/ Move(t, l, [loc[t] EXCEPT !.cur = o])
         \/ Move(t, l, [loc[t] EXCEPT !.cur = o, !.ver = v])
         \/ Move(t, l, [loc[t] EXCEPT !.cur = o, !.tgt = p])
  PROVE  loc'[t].cur = o
<1>1. \/ loc'[t] = [loc[t] EXCEPT !.cur = o]
      \/ loc'[t] = [loc[t] EXCEPT !.cur = o, !.ver = v]
      \/ loc'[t] = [loc[t] EXCEPT !.cur = o, !.tgt = p]
  BY Moves
<1> QED BY <1>1, Frames

\* A goroutine that changes another local has the same record in hand.
LEMMA Fills ==
  ASSUME TypeOK, NEW t \in Thread, NEW l, NEW v, NEW p,
         \/ Move(t, l, [loc[t] EXCEPT !.ver = v])
         \/ Move(t, l, [loc[t] EXCEPT !.snap = v])
         \/ Move(t, l, [loc[t] EXCEPT !.ret = v])
         \/ Move(t, l, [loc[t] EXCEPT !.ret = v, !.tgt = p])
  PROVE  loc'[t].cur = loc[t].cur
<1>1. \/ loc'[t] = [loc[t] EXCEPT !.ver = v]
      \/ loc'[t] = [loc[t] EXCEPT !.snap = v]
      \/ loc'[t] = [loc[t] EXCEPT !.ret = v]
      \/ loc'[t] = [loc[t] EXCEPT !.ret = v, !.tgt = p]
  BY Moves
<1> QED BY <1>1, Frames

\* StartPlugin's steps keep one record.
LEMMA SafeStart ==
  ASSUME Inv, Disciplined', NEW t \in Thread, OthersKept(t), Start(t)
  PROVE  Single'
<1>a. TypeOK
  BY DEF Inv, TypeInv
<1>1. CASE StartGet(t)
  <2>1. loc'[t].cur \in {pmap, loc[t].cur}
    BY <1>a, <1>1, Gotos, Picks DEF StartGet
  <2> QED BY <1>1, <2>1, SafeMove, SafeSame DEF StartGet, Installer
<1>2. CASE StartLock(t)
  BY <1>a, <1>2, Gotos, SafeSame DEF StartLock, Installer
<1>3. CASE StartCheck(t)
  <2>1. loc'[t].cur \in {None, pmap}
    BY <1>a, <1>3, Picks, Finishes, Returns DEF StartCheck
  <2> QED BY <1>3, <2>1, SafeMove DEF StartCheck, Installer
<1>4. CASE StartPing(t)
  BY <1>a, <1>4, Finishes, Returns, SafeSame DEF StartPing, Installer
<1>5. CASE StartManifest(t)
  <2>1. loc'[t].cur \in {None, loc[t].cur}
    BY <1>a, <1>5, Fills, Returns DEF StartManifest
  <2> QED BY <1>5, <2>1, SafeSame DEF StartManifest, Installer
<1>6. CASE StartInit(t)
  <2>1. PICK o \in Obj : InitManifest(o, loc[t].ver, None) /\ loc'[t].cur = o
    BY <1>a, <1>6, Picks DEF StartInit
  <2> QED BY <1>6, <2>1, SafeManifest DEF StartInit, Installer
<1>7. CASE StartRun(t)
  <2>1. loc'[t].cur = loc[t].cur
    BY <1>a, <1>7, Retargets DEF StartRun
  <2> QED BY <1>7, <2>1, SafeStatus DEF StartRun
<1>8. CASE StartExec(t)
  <2>1. pc[t] \notin Installer /\ loc'[t].cur = None /\ loc[t].cur = pmap
    BY <1>a, <1>8, Returns, HeldCurrent DEF StartExec, Installer, NeedsRecord
  <2>2. CASE \E p \in Proc : Launch(loc[t].cur, loc[t].tgt, p)
    BY <1>a, <1>8, <2>1, <2>2, LaunchKeeps, SafeMove DEF StartExec, Launch
  <2>3. CASE LaunchFails(loc[t].cur)
    <3>1. PICK s \in {"NotStarted"} : SetStatus(loc[t].cur, s)
      BY <2>3 DEF LaunchFails
    <3> QED BY <1>8, <2>1, <2>3, <3>1, SafeStatus DEF StartExec, LaunchFails
  <2> QED BY <1>8, <2>2, <2>3 DEF StartExec
<1> QED BY <1>1, <1>2, <1>3, <1>4, <1>5, <1>6, <1>7, <1>8 DEF Start

\* StopPlugin's and _stopPlugin's steps keep one record.
LEMMA SafeStop ==
  ASSUME Inv, Disciplined', NEW t \in Thread, OthersKept(t), Stop(t)
  PROVE  Single'
<1>a. TypeOK
  BY DEF Inv, TypeInv
<1>1. CASE StopGet(t)
  <2>1. loc'[t].cur \in {None, pmap}
    BY <1>a, <1>1, Finishes, Picks DEF StopGet
  <2> QED BY <1>1, <2>1, SafeMove DEF StopGet, Installer
<1>2. CASE StopLock(t)
  <2>1. loc'[t].cur = loc[t].cur
    BY <1>a, <1>2, Fills DEF StopLock
  <2> QED BY <1>2, <2>1, SafeSame DEF StopLock, Installer
<1>3. CASE Kill(t)
  BY <1>a, <1>3, Gotos, SafeSame DEF Kill, Installer
<1>4. CASE KillPost(t)
  BY <1>a, <1>4, Retargets, SafeSame DEF KillPost, Installer
<1>5. CASE KillServed(t)
  BY <1>a, <1>5, StateKeeps, SafeSame
     DEF KillServed, Unborn, Inv, SafeInv, DownloadExclusive, OneRecord, Single
<1>6. CASE Killed(t)
  <2>1. loc'[t].cur = loc[t].cur
    BY <1>a, <1>6, Retargets DEF Killed
  <2>2. PICK s \in {"NotStarted"} : SetStatus(loc[t].cur, s)
    BY <1>6 DEF Killed
  <2> QED BY <1>6, <2>1, <2>2, SafeStatus DEF Killed
<1>7. CASE StopDone(t)
  BY <1>a, <1>7, Finishes, SafeSame DEF StopDone, Installer
<1> QED BY <1>1, <1>2, <1>3, <1>4, <1>5, <1>6, <1>7 DEF Stop

\* pluginRegisterHandler's steps keep one record.
LEMMA SafeRegister ==
  ASSUME Inv, Disciplined', NEW p \in Proc, OthersKept(p), Register(p)
  PROVE  Single'
<1>a. TypeOK /\ p \in Thread
  BY Threads DEF Inv, TypeInv
<1>1. CASE RegCheck(p)
  BY <1>a, <1>1, Gotos, SafeSame DEF RegCheck, Installer
<1>2. CASE RegInit(p)
  <2>1. PICK o \in Obj : InitManifest(o, proc[p].ver, p) /\ loc'[p].cur = o
    BY <1>a, <1>2, Picks DEF RegInit
  <2> QED BY <1>a, <1>2, <2>1, SafeManifest DEF RegInit, Installer
<1>3. CASE RegLock(p)
  <2>1. PICK s \in {"Running"} : SetStatus(loc[p].cur, s)
    BY <1>3 DEF RegLock
  <2> QED BY <1>a, <1>3, <2>1, Returns, SafeStatus DEF RegLock
<1> QED BY <1>1, <1>2, <1>3 DEF Register

\* CheckUpdate's and InstallPlugin's steps keep one record: Downloading is
\* written and taken back under one hold of its lock.
LEMMA SafeUpdate ==
  ASSUME Inv, Disciplined', NEW t \in Thread, OthersKept(t), Update(t)
  PROVE  Single'
<1>a. TypeOK
  BY DEF Inv, TypeInv
<1>1. CASE Check(t)
  <2>1. loc'[t].cur \in {None, loc[t].cur}
    BY <1>a, <1>1, Gotos, Fills, Returns DEF Check
  <2> QED BY <1>1, <2>1, SafeSame DEF Check, Installer
<1>2. CASE Compare(t)
  <2>1. loc'[t].cur \in {pmap, loc[t].cur}
    BY <1>a, <1>2, Fills, Picks DEF Compare
  <2> QED BY <1>2, <2>1, SafeMove, SafeSame DEF Compare, Installer
<1>3. CASE Recheck(t)
  <2>1. loc'[t].cur \in {None, pmap}
    BY <1>a, <1>3, Picks, Returns DEF Recheck
  <2> QED BY <1>3, <2>1, SafeMove DEF Recheck, Installer
<1>4. CASE CheckLock(t)
  BY <1>a, <1>4, Returns, SafeSame DEF CheckLock, Installer
<1>5. CASE Snap(t)
  <2>1. loc'[t].cur = loc[t].cur
    BY <1>a, <1>5, Fills DEF Snap
  <2> QED BY <1>5, <2>1, SafeSame DEF Snap, Installer
<1>6. CASE InstInit(t)
  <2>1. PICK o \in Obj : InitManifest(o, loc[t].ver, None) /\ loc'[t].cur = o
    BY <1>a, <1>6, Picks DEF InstInit
  <2> QED BY <1>6, <2>1, SafeManifest DEF InstInit, Installer
<1>7. CASE InstLock(t)
  BY <1>a, <1>7, Gotos, SafeSame DEF InstLock, Installer
<1>8. CASE Decide(t)
  <2>1. CASE Finish(t, "recheck") /\ UNCHANGED info
    BY <1>a, <1>8, <2>1, Finishes, SafeSame DEF Decide, Installer
  <2>2. CASE SetStatus(loc[t].cur, "Downloading") /\ Goto(t, "download")
    <3>1. pc'[t] \in Installer /\ loc'[t] = loc[t]
      BY <1>a, <2>2, Gotos DEF Installer
    <3>2. \A o \in Obj : o # loc[t].cur => info'[o] = info[o]
      BY <1>a, <2>2 DEF SetStatus, TypeOK
    <3>3. DownloadExclusive'
      BY <3>1, <3>2, KeepExclusive
    <3>4. OneRecord'
      BY <1>8, <2>2, <3>1, StatusAllocated, KeepRecord
         DEF Decide, Inv, SafeInv, OneRecord
    <3> QED BY <3>3, <3>4 DEF Single
  <2> QED BY <1>8, <2>1, <2>2 DEF Decide
<1>9. CASE Download(t)
  <2>1. CASE Goto(t, "unzip") /\ UNCHANGED info
    <3>1. pc'[t] \in Installer /\ loc'[t] = loc[t]
      BY <1>a, <2>1, Gotos DEF Installer
    <3>2. DownloadExclusive'
      BY <2>1, <3>1, KeepExclusive
    <3>3. OneRecord'
      BY <1>9, <2>1, <3>1, KeepRecord DEF Download, Inv, SafeInv, OneRecord
    <3> QED BY <3>2, <3>3 DEF Single
  <2>2. CASE SetStatus(loc[t].cur, "DownloadFailed") /\ Return(t)
    <3>1. PICK s \in {"DownloadFailed"} : SetStatus(loc[t].cur, s)
      BY <2>2
    <3> QED BY <1>a, <1>9, <2>2, <3>1, Returns, SafeStatus DEF Download
  <2> QED BY <1>9, <2>1, <2>2 DEF Download
<1>10. CASE Unzip(t)
  <2>1. PICK s \in {"NotStarted", "InstallFailed"} : SetStatus(loc[t].cur, s)
    BY <1>10 DEF Unzip
  <2>2. loc'[t].cur = None
    BY <1>a, <1>10, Finishes, Returns DEF Unzip
  <2> QED BY <1>10, <2>1, <2>2, SafeStatus DEF Unzip
<1> QED BY <1>1, <1>2, <1>3, <1>4, <1>5, <1>6, <1>7, <1>8, <1>9, <1>10
   DEF Update

\* WaitStopPlugin's steps keep one record.
LEMMA SafeWaitStop ==
  ASSUME Inv, Disciplined', NEW t \in Thread, OthersKept(t), WaitStop(t)
  PROVE  Single'
<1>a. TypeOK
  BY DEF Inv, TypeInv
<1>1. CASE WsPost(t)
  BY <1>a, <1>1, Retargets, SafeSame DEF WsPost, Installer
<1>2. CASE WsPing(t)
  <2>1. loc'[t].cur = loc[t].cur
    BY <1>a, <1>2, Fills DEF WsPing
  <2> QED BY <1>2, <2>1, SafeSame DEF WsPing, Installer
<1>3. CASE WsAgain(t)
  BY <1>a, <1>3, Retargets, SafeSame DEF WsAgain, Installer
<1>4. CASE WsProbe(t)
  <2>1. loc'[t].cur \in {None, loc[t].cur}
    BY <1>a, <1>4, Retargets, Returns DEF WsProbe
  <2> QED BY <1>4, <2>1, SafeSame DEF WsProbe, Installer
<1> QED BY <1>1, <1>2, <1>3, <1>4 DEF WaitStop

\* UninstallPlugin's steps keep one record while RemoveAll does not fail.
LEMMA SafeUninstall ==
  ASSUME NoRemoval, Inv, Disciplined', NEW t \in Thread, OthersKept(t), Uninstall(t)
  PROVE  Single'
<1>a. TypeOK
  BY DEF Inv, TypeInv
<1>1. CASE UninstGet(t)
  <2>1. loc'[t].cur \in {pmap, loc[t].cur}
    BY <1>a, <1>1, Gotos, Picks DEF UninstGet
  <2> QED BY <1>1, <2>1, SafeMove, SafeSame DEF UninstGet, Installer
<1>2. CASE RawRemove(t)
  BY <1>a, <1>2, Returns, SafeSame DEF RawRemove, Installer
<1>3. CASE UninstLock(t)
  BY <1>a, <1>3, Gotos, SafeSame DEF UninstLock, Installer
<1>4. CASE Remove(t)
  BY <1>a, <1>4, Returns, SafeSame DEF Remove, Installer, NoRemoval
<1> QED BY <1>1, <1>2, <1>3, <1>4 DEF Uninstall

\* defaultHandle's steps keep one record.
LEMMA SafeProxy ==
  ASSUME Inv, Disciplined', NEW t \in Thread, OthersKept(t), Proxy(t)
  PROVE  Single'
<1>a. TypeOK
  BY DEF Inv, TypeInv
<1>1. CASE ProxyEnter(t)
  <2>1. loc'[t].cur \in {None, pmap}
    BY <1>a, <1>1, Picks, Returns DEF ProxyEnter
  <2> QED BY <1>1, <2>1, SafeMove DEF ProxyEnter, Installer
<1>2. CASE ProxyRoute(t)
  BY <1>a, <1>2, Gotos, Returns, SafeSame DEF ProxyRoute, Installer
<1>3. CASE ProxySend(t)
  BY <1>a, <1>3, Retargets, SafeSame DEF ProxySend, Installer
<1>4. CASE ProxyWait(t)
  BY <1>a, <1>4, Returns, SafeSame DEF ProxyWait, Installer
<1> QED BY <1>1, <1>2, <1>3, <1>4 DEF Proxy

\* A child's steps keep one record.
LEMMA SafeSlave ==
  ASSUME Inv, Disciplined', NEW p \in Proc, Slave(p)
  PROVE  Single'
<1>1. /\ UNCHANGED record
      /\ \A q \in Proc : proc'[q].obj = proc[q].obj
      /\ \/ UNCHANGED <<pc, loc>>
         \/ pc[p] = "idle" /\ Goto(p, "regCheck")
  BY SlaveMoves DEF Inv, SafeInv
<1>2. CASE UNCHANGED <<pc, loc>>
  BY <1>1, <1>2 DEF Inv, SafeInv, Single, OneRecord, DownloadExclusive
<1>3. CASE pc[p] = "idle" /\ Goto(p, "regCheck")
  <2>1. p \in Thread /\ OthersKept(p) /\ loc'[p] = loc[p] /\ pc[p] \notin Installer
    BY <1>3, Gotos, Threads DEF Inv, TypeInv, Installer
  <2> QED BY <1>1, <2>1, SafeSame
<1> QED BY <1>1, <1>2, <1>3

\* run()'s waiting goroutine keeps one record, although it writes the status
\* without the lock.
LEMMA SafeReaper ==
  ASSUME Inv, NEW p \in Proc, Reaper(p)
  PROVE  Single'
<1>1. /\ UNCHANGED <<pmap, lock, pc, loc>>
      /\ \A q \in Proc : proc'[q].obj \in {None, proc[q].obj}
  BY ReaperMoves DEF Inv
<1>2. /\ \A o \in Obj : info'[o].status = "Downloading"
                          => info[o].status = "Downloading"
      /\ pmap' # None => info'[pmap'].status # "Unallocated"
  BY <1>1, NotDownloading, StatusAllocated
     DEF Reaper, ReapMatch, ReapWrite, Inv, SafeInv, OneRecord, TypeInv
<1> QED BY <1>1, <1>2 DEF Inv, SafeInv, Single, OneRecord, DownloadExclusive

\* After a restart there is one record, or none.
LEMMA SafeRestart ==
  ASSUME MasterRestarts
  PROVE  Single'
<1>1. \A t \in Thread : loc'[t].cur = None
  BY DEF MasterRestarts, NoLocals
<1>2. \A p \in Proc : proc'[p].obj = None
  BY DEF MasterRestarts, Forgotten, NoProc
<1>3. \A o \in Obj : info'[o].status = IF o = pmap' THEN "NotStarted" ELSE "Unallocated"
  BY DEF MasterRestarts, Loaded, NoInfo
<1>4. pmap' \in Obj \cup {None}
  BY DEF MasterRestarts
<1> QED BY <1>1, <1>2, <1>3, <1>4 DEF Single, OneRecord, DownloadExclusive

\* When the master starts there is one record, or none.
LEMMA SafeInit == Init => SafeInv
<1> SUFFICES ASSUME Init PROVE Single
  BY DisciplineInit DEF SafeInv, Single
<1>1. \A t \in Thread : loc[t].cur = None
  BY DEF Init, NoLocals
<1>2. \A p \in Proc : proc[p].obj = None
  BY DEF Init, NoProc
<1>3. \A o \in Obj : info[o].status = IF o = pmap THEN "NotStarted" ELSE "Unallocated"
  BY DEF Init, Loaded, NoInfo
<1>4. pmap \in Obj \cup {None}
  BY DEF Init
<1> QED BY <1>1, <1>2, <1>3, <1>4 DEF Single, OneRecord, DownloadExclusive

\* Every step of the master keeps one record.
LEMMA SingleNext ==
  ASSUME NoRemoval, Inv, Disciplined', [Next]_vars
  PROVE  Single'
<1>a. TypeInv
  BY DEF Inv
<1>1. ASSUME NEW t \in Thread, Step(t) PROVE Single'
  <2>1. OthersKept(t)
    BY <1>a, <1>1, LawfulStart, LawfulStop, LawfulUpdate, LawfulWaitStop,
       LawfulUninstall, LawfulProxy DEF Step, Served
  <2> QED BY <1>1, <2>1, SafeStart, SafeStop, SafeUpdate, SafeWaitStop,
             SafeUninstall, SafeProxy DEF Step
<1>2. ASSUME NEW t \in Client, Request(t) PROVE Single'
  <2>1. PICK u \in Thread \ Proc :
          /\ OthersKept(u) /\ UNCHANGED <<record, proc>>
          /\ loc'[u].cur = loc[u].cur /\ pc[u] \notin Holding
    BY <1>a, <1>2, BeginRequest DEF Request, Begins
  <2> QED BY <2>1, SafeSame DEF Installer, Holding
<1>3. ASSUME NEW p \in Proc, Registering(p) \/ Slave(p) \/ Reaper(p) PROVE Single'
  BY <1>a, <1>3, LawfulRegister, SafeRegister, SafeSlave, SafeReaper
     DEF Registering, Served
<1>4. CASE InBackground
  <2>1. PICK u \in Thread \ Proc :
          /\ OthersKept(u) /\ UNCHANGED <<record, proc>>
          /\ loc'[u].cur \in {None, loc[u].cur} /\ pc[u] \notin Holding
    BY <1>a, <1>4, BeginBackground DEF InBackground
  <2> QED BY <2>1, SafeSame DEF Installer, Holding
<1>5. CASE Environment
  BY <1>5, SafeRestart DEF Environment, Publish, Tick, MasterDies, Inv, SafeInv,
       Single, OneRecord, DownloadExclusive
<1>6. CASE UNCHANGED vars
  BY <1>6 DEF vars, Inv, SafeInv, Single, OneRecord, DownloadExclusive
<1> QED BY <1>1, <1>2, <1>3, <1>4, <1>5, <1>6 DEF Next

\* While RemoveAll does not fail, one record stays in the map, every mutex is
\* held by a goroutine in its locked section, and Downloading is covered by its
\* installer.
THEOREM SafeInvariant == NoRemoval => (Spec => []SafeInv)
<1> SUFFICES ASSUME NoRemoval PROVE Spec => []SafeInv
  OBVIOUS
<1>1. ASSUME TypeInv, SafeInv, [Next]_vars PROVE SafeInv'
  <2>1. Inv
    BY <1>1 DEF Inv
  <2>2. Disciplined' /\ Launched'
    BY <1>1, <2>1, NeverStrays, DisciplineNext, LaunchedNext
       DEF SafeInv, KeepsDiscipline
  <2> QED BY <1>1, <2>1, <2>2, SingleNext DEF SafeInv, Single
<1> QED BY <1>1, SafeInit, TypeInvariant, PTL DEF Spec

\* Whoever sees Downloading sees it while the installer that wrote it holds the
\* lock: a reaper, a registration or an initManifest without the lock never
\* leaves a Downloading that nobody will take back.
THEOREM DownloadExclusiveHolds == NoRemoval => (Spec => []DownloadExclusive)
<1>1. SafeInv => DownloadExclusive
  BY DEF SafeInv
<1> QED BY <1>1, SafeInvariant, PTL
===============================================================================
