----------------------------- MODULE MasterTyping -----------------------------
(***************************************************************************)
(* Type correctness of Master, for every value of its constants. TypeOK is *)
(* not inductive: a step that reads info[loc[t].cur] needs a record in     *)
(* hand. FrameOK says at which labels there is one, and CapturedOK the     *)
(* same of the goroutines that wait for the children.                      *)
(***************************************************************************)
EXTENDS MasterProperties, TLAPS

\* The labels at which a record is in hand.
NeedsRecord ==
  {"startLock", "startCheck", "startPing", "startRun", "startExec", "stopLock",
   "kill", "killPost", "killed", "stopDone", "regLock", "wsPost", "wsPing",
   "wsAgain", "wsProbe", "instLock", "decide", "download", "unzip",
   "checkLock", "uninstLock", "remove", "proxyRoute", "proxySend", "proxyWait"}

\* The locals that a goroutine at label l relies on.
FrameFits(l, f) ==
  /\ l \in NeedsRecord => f.cur \in Obj
  /\ l \in {"kill", "killPost", "killed", "wsAgain", "wsProbe"} => f.ret # "idle"

FrameOK == \A t \in Thread : FrameFits(pc[t], loc[t])

\* A goroutine that waits for a child knows its record.
CapturedOK ==
  \A p \in Proc : proc[p].state # "none" /\ proc[p].reap # "done"
                    => proc[p].obj \in Obj

TypeInv == TypeOK /\ FrameOK /\ CapturedOK

USE DEF record, traffic, store

\* Every group of program counters is made of labels.
LEMMA Labels ==
  /\ StartLabel \subseteq Label /\ StopLabel \subseteq Label
  /\ RegLabel \subseteq Label /\ WaitLabel \subseteq Label
  /\ UpdateLabel \subseteq Label /\ UninstLabel \subseteq Label
  /\ PingLabel \subseteq Label /\ ProxyLabel \subseteq Label
  /\ {"idle", "ended"} \subseteq Label
BY DEF Label

FramesOK == pc \in [Thread -> Label] /\ loc \in [Thread -> Locals] /\ FrameOK

\* Moving a goroutine to a label its frame fits keeps every frame fitting its
\* label.
LEMMA MoveOK ==
  ASSUME TypeOK, FrameOK, NEW t \in Thread, NEW l \in Label, NEW f \in Locals,
         FrameFits(l, f), Move(t, l, f)
  PROVE  FramesOK'
BY DEF Move, TypeOK, FrameOK, FramesOK

\* A step that moves no goroutine keeps every frame fitting its label.
LEMMA FramesKept ==
  ASSUME TypeOK, FrameOK, UNCHANGED <<pc, loc>> PROVE FramesOK'
BY DEF TypeOK, FrameOK, FramesOK

\* ServeHTTP starts each operation where no record is needed yet.
LEMMA FirstLabelTyped == \A op \in Op : FirstLabel[op] \in Label \ NeedsRecord
BY Labels DEF Op, FirstLabel, StartLabel, StopLabel, UpdateLabel, UninstLabel,
              ProxyLabel, NeedsRecord

\* Going on with the same locals keeps the frames right if they fit the next
\* label.
LEMMA GotoOK ==
  ASSUME TypeOK, FrameOK, NEW t \in Thread, NEW l \in Label,
         FrameFits(l, loc[t]), Goto(t, l)
  PROVE  FramesOK'
BY MoveOK DEF Goto, TypeOK

\* Clearing the locals is right wherever the next label needs no record.
LEMMA FinishOK ==
  ASSUME TypeOK, FrameOK, NEW t \in Thread, NEW l \in Label \ NeedsRecord,
         Finish(t, l)
  PROVE  FramesOK'
<1>1. NoLocals \in Locals
  BY BoundAssumption DEF NoLocals, Locals, Version
<1>2. FrameFits(l, NoLocals)
  BY DEF FrameFits, NeedsRecord
<1> QED BY <1>1, <1>2, MoveOK DEF Finish

\* A goroutine that is done is idle or has ended.
LEMMA HomeTyped == \A t \in Thread : Home(t) \in {"idle", "ended"}
BY DEF Home

\* Returning from a handler leaves the frames right.
LEMMA ReturnOK ==
  ASSUME TypeOK, FrameOK, NEW t \in Thread, Return(t)
  PROVE  FramesOK'
BY FinishOK, HomeTyped, Labels DEF Return, NeedsRecord

\* What follows StopPlugin looks its record up again.
LEMMA AfterStopTyped == \A t \in Thread : AfterStop(t) \in Label \ NeedsRecord
BY HomeTyped, Labels DEF AfterStop, StartLabel, RegLabel, NeedsRecord

\* Taking one request off Connections leaves an integer.
LEMMA UncountTyped ==
  ASSUME TypeOK, NEW o \in Obj, Uncount(o) PROVE conns' \in [Obj -> Int]
<1>1. conns[o] - 1 \in Int
  BY DEF TypeOK
<1> QED BY <1>1 DEF TypeOK, Uncount

\* Writing a status leaves the records well typed.
LEMMA StatusTyped ==
  ASSUME TypeOK, NEW o, NEW s \in Status, SetStatus(o, s)
  PROVE  info' \in [Obj -> Info]
BY DEF SetStatus, Info, TypeOK

\* Unlock leaves the mutexes and the master well typed.
LEMMA UnlockTyped ==
  ASSUME TypeOK, NEW o \in Obj, Unlock(o)
  PROVE  lock' \in [Obj -> Thread \cup {None}] /\ up' \in BOOLEAN
BY DEF Unlock, TypeOK

\* Lock leaves the mutexes well typed.
LEMMA AcquireTyped ==
  ASSUME TypeOK, NEW t \in Thread, Acquire(t)
  PROVE  lock' \in [Obj -> Thread \cup {None}]
BY DEF Acquire, TypeOK

\* initManifest leaves the records and the map entry well typed.
LEMMA InitTyped ==
  ASSUME TypeOK, NEW o \in Obj, NEW v \in Version, NEW e \in Proc \cup {None},
         InitManifest(o, v, e)
  PROVE  info' \in [Obj -> Info] /\ pmap' \in Obj \cup {None}
<1>1. [info EXCEPT ![o].version = v, ![o].endpoint = e] \in [Obj -> Info]
  BY DEF TypeOK, Info
<1>2. [status |-> "NotStarted", endpoint |-> e, version |-> v] \in Info
  BY DEF Info, Status
<1> QED BY <1>1, <1>2 DEF InitManifest, TypeOK

\* Post sends to a child or to nobody.
LEMMA PostTargetTyped == ASSUME TypeOK PROVE PostTarget \in Proc \cup {None}
BY DEF TypeOK, PostTarget, PluginStatus, Info

\* The version a look-up finds is a version.
LEMMA VersionTyped == ASSUME TypeOK PROVE PluginVersion \in Version
BY BoundAssumption DEF TypeOK, PluginVersion, Info, Version

\* A change of a child's state leaves the children well typed.
LEMMA StateTyped ==
  ASSUME TypeOK, NEW p \in Proc,
         NEW s \in {"none", "launched", "registering", "serving", "dead"},
         SetState(p, s)
  PROVE  proc' \in [Proc -> ProcInfo]
BY DEF TypeOK, SetState, ProcInfo

\* The end of a waiting goroutine leaves the children well typed.
LEMMA ReapedTyped ==
  ASSUME TypeOK, NEW p \in Proc, Reaped(p)
  PROVE  proc' \in [Proc -> ProcInfo]
BY DEF TypeOK, Reaped, ProcInfo

\* run() leaves the children and the records well typed.
LEMMA LaunchTyped ==
  ASSUME TypeOK, NEW o \in Obj, NEW e \in Proc \cup {None}, NEW p \in Proc,
         Launch(o, e, p)
  PROVE  proc' \in [Proc -> ProcInfo] /\ info' \in [Obj -> Info]
<1>1. [state |-> "launched", cap |-> e, obj |-> o, ver |-> 0,
       reap |-> "wait"] \in ProcInfo
  BY BoundAssumption DEF ProcInfo, Version
<1> QED BY <1>1 DEF Launch, TypeOK

\* A change of a running child's state keeps what its waiting goroutine
\* captured.
LEMMA CapturedState ==
  ASSUME TypeInv, NEW p \in Proc, NEW s, SetState(p, s), proc[p].state # "none"
  PROVE  CapturedOK'
BY DEF TypeInv, TypeOK, CapturedOK, SetState, ProcInfo

\* A waiting goroutine that ends drops only what it captured itself.
LEMMA CapturedReaped ==
  ASSUME TypeInv, NEW p \in Proc, Reaped(p)
  PROVE  CapturedOK'
BY DEF TypeInv, TypeOK, CapturedOK, Reaped, ProcInfo

\* run() captures the record for the goroutine it starts.
LEMMA CapturedLaunch ==
  ASSUME TypeInv, NEW o \in Obj, NEW e, NEW p \in Proc, Launch(o, e, p)
  PROVE  CapturedOK'
BY DEF TypeInv, TypeOK, CapturedOK, Launch, ProcInfo

\* Clients, children and the three background goroutines are threads.
LEMMA Threads ==
  /\ Client \subseteq Thread /\ Proc \subseteq Thread
  /\ Heartbeat \in Thread /\ Pinger \in Thread /\ CoDeath \in Thread
BY DEF Thread, Special

\* No version and every published one are versions.
LEMMA Versions ==
  /\ 0 \in Version
  /\ \A v \in Version : v < MaxVersion => v + 1 \in Version \ {0}
BY BoundAssumption DEF Version

\* Steps that touch no child keep what the waiting goroutines captured.
LEMMA CapturedKept == ASSUME CapturedOK, proc' = proc PROVE CapturedOK'
BY DEF CapturedOK

\* StartPlugin's steps keep the typing invariant.
LEMMA TypeStart ==
  ASSUME TypeInv, NEW t \in Thread, Start(t)
  PROVE  TypeInv'
<1> USE DEF TypeInv
<1>1. CASE StartGet(t)
  <2>1. FramesOK'
    BY <1>1, Threads, GotoOK, Labels, MoveOK
       DEF StartGet, TypeOK, FrameOK, FrameFits, NeedsRecord, Locals, StartLabel
  <2>2. TypeOK'
    BY <1>1, <2>1 DEF StartGet, TypeOK, FramesOK
  <2> QED BY <1>1, <2>1, <2>2, CapturedKept DEF StartGet, FramesOK
<1>2. CASE StartLock(t)
  <2>1. FramesOK'
    BY <1>2, Threads, GotoOK, Labels
       DEF StartLock, TypeOK, FrameOK, FrameFits, NeedsRecord, StartLabel
  <2>2. TypeOK'
    BY <1>2, <2>1, AcquireTyped DEF StartLock, TypeOK, FramesOK
  <2> QED BY <1>2, <2>1, <2>2, CapturedKept DEF StartLock, FramesOK
<1>3. CASE StartCheck(t)
  <2>1. FramesOK'
    BY <1>3, Threads, MoveOK, Labels, FinishOK, ReturnOK, PostTargetTyped
       DEF StartCheck, TypeOK, FrameOK, FrameFits, NeedsRecord, Locals,
        PluginStatus, StartLabel
  <2>2. TypeOK'
    BY <1>3, <2>1, UnlockTyped
       DEF StartCheck, TypeOK, FramesOK, FrameOK, FrameFits, NeedsRecord,
        PluginStatus
  <2> QED BY <1>3, <2>1, <2>2, CapturedKept DEF StartCheck, FramesOK
<1>4. CASE StartPing(t)
  <2>1. FramesOK'
    BY <1>4, Threads, FinishOK, Labels, ReturnOK
       DEF StartPing, TypeOK, NeedsRecord, StartLabel
  <2>2. TypeOK'
    BY <1>4, <2>1, UnlockTyped
       DEF StartPing, TypeOK, FramesOK, FrameOK, FrameFits, NeedsRecord,
        PluginStatus
  <2> QED BY <1>4, <2>1, <2>2, CapturedKept DEF StartPing, FramesOK
<1>5. CASE StartManifest(t)
  <2>1. FramesOK'
    BY <1>5, Threads, MoveOK, Labels, ReturnOK
       DEF StartManifest, TypeOK, FrameOK, FrameFits, NeedsRecord, Locals,
        StartLabel
  <2>2. TypeOK'
    BY <1>5, <2>1 DEF StartManifest, TypeOK, FramesOK
  <2> QED BY <1>5, <2>1, <2>2, CapturedKept DEF StartManifest, FramesOK
<1>6. CASE StartInit(t)
  <2>1. FramesOK'
    BY <1>6, Threads, MoveOK, Labels, Versions
       DEF StartInit, TypeOK, FrameOK, FrameFits, NeedsRecord, Locals, StartLabel
  <2>2. TypeOK'
    BY <1>6, <2>1, InitTyped DEF StartInit, TypeOK, FramesOK, Locals
  <2> QED BY <1>6, <2>1, <2>2, CapturedKept DEF StartInit, FramesOK
<1>7. CASE StartRun(t)
  <2>0. loc[t].cur \in Obj /\ info[loc[t].cur].endpoint \in Proc \cup {None}
    BY <1>7 DEF StartRun, TypeOK, FrameOK, FrameFits, NeedsRecord, Info
  <2>1. FramesOK'
    BY <1>7, <2>0, MoveOK, Labels
       DEF StartRun, TypeOK, FrameFits, NeedsRecord, Locals, StartLabel
  <2>2. TypeOK'
    BY <1>7, <2>1, AcquireTyped, StatusTyped
       DEF StartRun, TypeOK, FramesOK, Status
  <2> QED BY <1>7, <2>1, <2>2, CapturedKept DEF StartRun, FramesOK
<1>8. CASE StartExec(t)
  <2>0. loc[t].cur \in Obj /\ loc[t].tgt \in Proc \cup {None}
    BY <1>8 DEF StartExec, TypeOK, FrameOK, FrameFits, NeedsRecord, Locals
  <2>1. FramesOK'
    BY <1>8, ReturnOK DEF StartExec
  <2>2. lock' \in [Obj -> Thread \cup {None}] /\ up' \in BOOLEAN
    BY <1>8, <2>0, UnlockTyped DEF StartExec
  <2>3. CASE \E p \in Proc : Launch(loc[t].cur, loc[t].tgt, p)
    <3>1. proc' \in [Proc -> ProcInfo] /\ info' \in [Obj -> Info] /\ CapturedOK'
      BY <2>0, <2>3, LaunchTyped, CapturedLaunch
    <3> QED BY <1>8, <2>1, <2>2, <3>1 DEF StartExec, TypeOK, FramesOK
  <2>4. CASE LaunchFails(loc[t].cur)
    <3>1. proc' = proc /\ info' \in [Obj -> Info]
      BY <2>4, StatusTyped DEF LaunchFails, Status
    <3> QED BY <1>8, <2>1, <2>2, <3>1, CapturedKept
            DEF StartExec, TypeOK, FramesOK
  <2> QED BY <1>8, <2>3, <2>4 DEF StartExec
<1> QED BY <1>1, <1>2, <1>3, <1>4, <1>5, <1>6, <1>7, <1>8 DEF Start

\* StopPlugin's and _stopPlugin's steps keep the typing invariant.
LEMMA TypeStop ==
  ASSUME TypeInv, NEW t \in Thread, Stop(t)
  PROVE  TypeInv'
<1> USE DEF TypeInv
<1>1. CASE StopGet(t)
  <2>1. FramesOK'
    BY <1>1, Threads, MoveOK, Labels, FinishOK, AfterStopTyped
       DEF StopGet, TypeOK, FrameOK, FrameFits, NeedsRecord, Locals, StopLabel
  <2>2. TypeOK'
    BY <1>1, <2>1 DEF StopGet, TypeOK, FramesOK
  <2> QED BY <1>1, <2>1, <2>2, CapturedKept DEF StopGet, FramesOK
<1>2. CASE StopLock(t)
  <2>1. FramesOK'
    BY <1>2, Threads, MoveOK, Labels
       DEF StopLock, TypeOK, FrameOK, FrameFits, NeedsRecord, Locals, StopLabel
  <2>2. TypeOK'
    BY <1>2, <2>1, AcquireTyped DEF StopLock, TypeOK, FramesOK
  <2> QED BY <1>2, <2>1, <2>2, CapturedKept DEF StopLock, FramesOK
<1>3. CASE Kill(t)
  <2>1. FramesOK'
    BY <1>3, Threads, GotoOK, Labels
       DEF Kill, TypeOK, FrameOK, FrameFits, NeedsRecord, Locals, StopLabel,
        WaitLabel, UpdateLabel, UninstLabel
  <2>2. TypeOK'
    BY <1>3, <2>1 DEF Kill, TypeOK, FramesOK
  <2> QED BY <1>3, <2>1, <2>2, CapturedKept DEF Kill, FramesOK
<1>4. CASE KillServed(t)
  <2>1. loc[t].tgt \in Proc /\ proc[loc[t].tgt].state = "serving"
    BY <1>4 DEF KillServed, Answers
  <2>2. proc' \in [Proc -> ProcInfo] /\ CapturedOK'
    BY <1>4, <2>1, StateTyped, CapturedState DEF KillServed
  <2> QED BY <1>4, <2>2, FramesKept DEF KillServed, TypeOK, FramesOK
<1>5. CASE Killed(t)
  <2>1. FramesOK'
    BY <1>5, MoveOK, Labels
       DEF Killed, TypeOK, FrameOK, FrameFits, NeedsRecord, Locals, StopLabel,
        WaitLabel, UpdateLabel, UninstLabel
  <2>2. TypeOK'
    BY <1>5, <2>1, StatusTyped DEF Killed, TypeOK, FramesOK, Status
  <2> QED BY <1>5, <2>1, <2>2, CapturedKept DEF Killed, FramesOK
<1>6. CASE StopDone(t)
  <2>1. FramesOK'
    BY <1>6, Threads, FinishOK, Labels, AfterStopTyped
       DEF StopDone, TypeOK, NeedsRecord, StopLabel
  <2>2. TypeOK'
    BY <1>6, <2>1, UnlockTyped
       DEF StopDone, TypeOK, FramesOK, FrameOK, FrameFits, NeedsRecord,
        PluginStatus
  <2> QED BY <1>6, <2>1, <2>2, CapturedKept DEF StopDone, FramesOK
<1>7. CASE KillPost(t)
  <2>1. FramesOK'
    BY <1>7, Labels, MoveOK, PostTargetTyped
       DEF KillPost, TypeOK, FrameOK, FrameFits, NeedsRecord, Locals, StopLabel
  <2>2. TypeOK'
    BY <1>7, <2>1 DEF KillPost, TypeOK, FramesOK
  <2> QED BY <1>7, <2>1, <2>2, CapturedKept DEF KillPost, FramesOK
<1> QED BY <1>1, <1>2, <1>3, <1>4, <1>5, <1>6, <1>7 DEF Stop

\* pluginRegisterHandler's steps keep the typing invariant.
LEMMA TypeRegister ==
  ASSUME TypeInv, NEW p \in Proc, Register(p)
  PROVE  TypeInv'
<1> USE DEF TypeInv
<1>1. CASE RegCheck(p)
  <2>1. FramesOK'
    BY <1>1, Threads, GotoOK, Labels
       DEF RegCheck, TypeOK, FrameOK, FrameFits, NeedsRecord, PluginStatus,
        RegLabel, StopLabel
  <2>2. TypeOK'
    BY <1>1, <2>1 DEF RegCheck, TypeOK, FramesOK
  <2> QED BY <1>1, <2>1, <2>2, CapturedKept DEF RegCheck, FramesOK
<1>2. CASE RegInit(p)
  <2>1. FramesOK'
    BY <1>2, Threads, MoveOK, Labels
       DEF RegInit, TypeOK, FrameOK, FrameFits, NeedsRecord, Locals, RegLabel
  <2>2. TypeOK'
    BY <1>2, <2>1, InitTyped DEF RegInit, TypeOK, FramesOK, ProcInfo
  <2> QED BY <1>2, <2>1, <2>2, CapturedKept DEF RegInit, FramesOK
<1>3. CASE RegLock(p)
  <2>1. FramesOK'
    BY <1>3, Threads, ReturnOK DEF RegLock, TypeOK
  <2>2. TypeOK'
    BY <1>3, <2>1, StatusTyped DEF RegLock, TypeOK, FramesOK, Status
  <2> QED BY <1>3, <2>1, <2>2, CapturedKept DEF RegLock, FramesOK
<1> QED BY <1>1, <1>2, <1>3 DEF Register

\* The heartbeat and signal goroutines keep the typing invariant.
LEMMA TypeBackground ==
  ASSUME TypeInv, Background
  PROVE  TypeInv'
<1> USE DEF TypeInv
<1>1. CASE HeartbeatTick
  <2>1. FramesOK'
    BY <1>1, Threads, GotoOK, Labels
       DEF HeartbeatTick, TypeOK, FrameOK, FrameFits, NeedsRecord, PluginStatus,
        PingLabel, StopLabel
  <2>2. TypeOK'
    BY <1>1, <2>1 DEF HeartbeatTick, TypeOK, FramesOK
  <2> QED BY <1>1, <2>1, <2>2, CapturedKept DEF HeartbeatTick, FramesOK
<1>2. CASE PingPost
  <2>1. FramesOK'
    BY <1>2, Threads, MoveOK, Labels, PostTargetTyped
       DEF PingPost, TypeOK, FrameOK, FrameFits, NeedsRecord, Locals, PingLabel
  <2>2. TypeOK'
    BY <1>2, <2>1 DEF PingPost, TypeOK, FramesOK
  <2> QED BY <1>2, <2>1, <2>2, CapturedKept DEF PingPost, FramesOK
<1>3. CASE PingAnswer
  <2>1. FramesOK'
    BY <1>3, Threads, FinishOK, Labels, ReturnOK
       DEF PingAnswer, TypeOK, NeedsRecord, PingLabel, StopLabel
  <2>2. TypeOK'
    BY <1>3, <2>1 DEF PingAnswer, TypeOK, FramesOK
  <2> QED BY <1>3, <2>1, <2>2, CapturedKept DEF PingAnswer, FramesOK
<1>4. CASE Signal
  <2>1. FramesOK'
    BY <1>4, Threads, GotoOK, Labels
       DEF Signal, TypeOK, FrameOK, FrameFits, NeedsRecord, PluginStatus,
        StopLabel
  <2>2. TypeOK'
    BY <1>4, <2>1 DEF Signal, TypeOK, FramesOK
  <2> QED BY <1>4, <2>1, <2>2, CapturedKept DEF Signal, FramesOK
<1> QED BY <1>1, <1>2, <1>3, <1>4 DEF Background

\* CheckUpdate's and InstallPlugin's steps keep the typing invariant.
LEMMA TypeUpdate ==
  ASSUME TypeInv, NEW t \in Thread, Update(t)
  PROVE  TypeInv'
<1> USE DEF TypeInv
<1>1. CASE Check(t)
  <2>1. FramesOK'
    BY <1>1, Threads, GotoOK, Labels, MoveOK, ReturnOK
       DEF Check, TypeOK, FrameOK, FrameFits, NeedsRecord, Locals, UpdateLabel
  <2>2. TypeOK'
    BY <1>1, <2>1 DEF Check, TypeOK, FramesOK
  <2> QED BY <1>1, <2>1, <2>2, CapturedKept DEF Check, FramesOK
<1>2. CASE Compare(t)
  <2>1. FramesOK'
    BY <1>2, Threads, MoveOK, Labels
       DEF Compare, TypeOK, FrameOK, FrameFits, NeedsRecord, Locals, Latest,
        Outdated, UpdateLabel
  <2>2. TypeOK'
    BY <1>2, <2>1, Versions DEF Compare, TypeOK, Latest, FramesOK, Locals
  <2> QED BY <1>2, <2>1, <2>2, CapturedKept DEF Compare, FramesOK
<1>3. CASE Recheck(t)
  <2>1. FramesOK'
    BY <1>3, Threads, MoveOK, Labels, ReturnOK
       DEF Recheck, TypeOK, FrameOK, FrameFits, NeedsRecord, Locals, UpdateLabel
  <2>2. TypeOK'
    BY <1>3, <2>1 DEF Recheck, TypeOK, FramesOK
  <2> QED BY <1>3, <2>1, <2>2, CapturedKept DEF Recheck, FramesOK
<1>4. CASE CheckLock(t)
  <2>1. FramesOK'
    BY <1>4, Threads, ReturnOK DEF CheckLock, TypeOK
  <2>2. TypeOK'
    BY <1>4, <2>1 DEF CheckLock, TypeOK, FramesOK
  <2> QED BY <1>4, <2>1, <2>2, CapturedKept DEF CheckLock, FramesOK
<1>5. CASE Snap(t)
  <2>1. FramesOK'
    BY <1>5, Threads, MoveOK, Labels, VersionTyped
       DEF Snap, TypeOK, FrameOK, FrameFits, NeedsRecord, Locals, UpdateLabel
  <2>2. TypeOK'
    BY <1>5, <2>1 DEF Snap, TypeOK, FramesOK
  <2> QED BY <1>5, <2>1, <2>2, CapturedKept DEF Snap, FramesOK
<1>6. CASE InstInit(t)
  <2>1. FramesOK'
    BY <1>6, Threads, MoveOK, Labels
       DEF InstInit, TypeOK, FrameOK, FrameFits, NeedsRecord, Locals, UpdateLabel
  <2>2. TypeOK'
    BY <1>6, <2>1, InitTyped DEF InstInit, TypeOK, FramesOK, Locals
  <2> QED BY <1>6, <2>1, <2>2, CapturedKept DEF InstInit, FramesOK
<1>7. CASE InstLock(t)
  <2>1. FramesOK'
    BY <1>7, Threads, GotoOK, Labels
       DEF InstLock, TypeOK, FrameOK, FrameFits, NeedsRecord, UpdateLabel,
        WaitLabel
  <2>2. TypeOK'
    BY <1>7, <2>1, AcquireTyped DEF InstLock, TypeOK, FramesOK
  <2> QED BY <1>7, <2>1, <2>2, CapturedKept DEF InstLock, FramesOK
<1>8. CASE Decide(t)
  <2>1. FramesOK'
    BY <1>8, Threads, GotoOK, Labels, FinishOK
       DEF Decide, TypeOK, FrameOK, FrameFits, NeedsRecord, UpdateLabel
  <2>2. TypeOK'
    BY <1>8, <2>1, UnlockTyped, StatusTyped
       DEF Decide, TypeOK, FramesOK, FrameOK, FrameFits, NeedsRecord,
        PluginStatus, Status, Failed
  <2> QED BY <1>8, <2>1, <2>2, CapturedKept DEF Decide, FramesOK
<1>9. CASE Download(t)
  <2>1. FramesOK'
    BY <1>9, Threads, GotoOK, Labels, ReturnOK
       DEF Download, TypeOK, FrameOK, FrameFits, NeedsRecord, UpdateLabel
  <2>2. TypeOK'
    BY <1>9, <2>1, UnlockTyped, StatusTyped, Versions
       DEF Download, TypeOK, FramesOK, FrameOK, FrameFits, NeedsRecord,
        PluginStatus, Status, Failed
  <2> QED BY <1>9, <2>1, <2>2, CapturedKept DEF Download, FramesOK
<1>10. CASE Unzip(t)
  <2>1. FramesOK'
    BY <1>10, Threads, FinishOK, Labels, ReturnOK
       DEF Unzip, TypeOK, NeedsRecord, UpdateLabel
  <2>2. TypeOK'
    BY <1>10, <2>1, UnlockTyped, StatusTyped, Versions
       DEF Unzip, TypeOK, FramesOK, FrameOK, FrameFits, NeedsRecord,
        PluginStatus, Status, Failed, Locals
  <2> QED BY <1>10, <2>1, <2>2, CapturedKept DEF Unzip, FramesOK
<1> QED BY <1>1, <1>2, <1>3, <1>4, <1>5, <1>6, <1>7, <1>8, <1>9, <1>10
   DEF Update

\* WaitStopPlugin's steps keep the typing invariant.
LEMMA TypeWaitStop ==
  ASSUME TypeInv, NEW t \in Thread, WaitStop(t)
  PROVE  TypeInv'
<1> USE DEF TypeInv
<1>1. CASE WsPost(t)
  <2>1. FramesOK'
    BY <1>1, Threads, MoveOK, Labels, PostTargetTyped
       DEF WsPost, TypeOK, FrameOK, FrameFits, NeedsRecord, Locals, WaitLabel
  <2>2. TypeOK'
    BY <1>1, <2>1 DEF WsPost, TypeOK, FramesOK
  <2> QED BY <1>1, <2>1, <2>2, CapturedKept DEF WsPost, FramesOK
<1>2. CASE WsPing(t)
  <2>1. FramesOK'
    BY <1>2, Threads, MoveOK, Labels
       DEF WsPing, TypeOK, FrameOK, FrameFits, NeedsRecord, Locals, Stopped,
        StopLabel, WaitLabel
  <2>2. TypeOK'
    BY <1>2, <2>1 DEF WsPing, TypeOK, FramesOK
  <2> QED BY <1>2, <2>1, <2>2, CapturedKept DEF WsPing, FramesOK
<1>3. CASE WsAgain(t)
  <2>1. FramesOK'
    BY <1>3, Threads, MoveOK, Labels, PostTargetTyped
       DEF WsAgain, TypeOK, FrameOK, FrameFits, NeedsRecord, Locals, WaitLabel
  <2>2. TypeOK'
    BY <1>3, <2>1 DEF WsAgain, TypeOK, FramesOK
  <2> QED BY <1>3, <2>1, <2>2, CapturedKept DEF WsAgain, FramesOK
<1>4. CASE WsProbe(t)
  <2>1. FramesOK'
    <3>1. CASE Return(t)
      BY <3>1, ReturnOK
    <3>2. CASE Move(t, Stopped(t), [loc[t] EXCEPT !.tgt = None])
      <4>1. [loc[t] EXCEPT !.tgt = None] \in Locals
        BY DEF TypeOK, Locals
      <4>2. FrameFits(Stopped(t), [loc[t] EXCEPT !.tgt = None])
        BY <1>4 DEF WsProbe, FrameOK, FrameFits, NeedsRecord, Stopped, TypeOK,
                    Locals
      <4> QED BY <3>2, <4>1, <4>2, MoveOK, Labels
              DEF Stopped, UpdateLabel, UninstLabel
    <3>3. CASE Move(t, "kill", [loc[t] EXCEPT !.tgt = None])
      BY <1>4, <3>3, MoveOK, Labels
         DEF WsProbe, TypeOK, FrameOK, FrameFits, NeedsRecord, Locals, StopLabel
    <3> QED BY <1>4, <3>1, <3>2, <3>3 DEF WsProbe
  <2>2. TypeOK'
    BY <1>4, <2>1, UnlockTyped
       DEF WsProbe, TypeOK, FramesOK, FrameOK, FrameFits, NeedsRecord
  <2> QED BY <1>4, <2>1, <2>2, CapturedKept DEF WsProbe, FramesOK
<1> QED BY <1>1, <1>2, <1>3, <1>4 DEF WaitStop

\* UninstallPlugin's steps keep the typing invariant.
LEMMA TypeUninstall ==
  ASSUME TypeInv, NEW t \in Thread, Uninstall(t)
  PROVE  TypeInv'
<1> USE DEF TypeInv
<1>1. CASE UninstGet(t)
  <2>1. FramesOK'
    BY <1>1, Threads, GotoOK, Labels, MoveOK
       DEF UninstGet, TypeOK, FrameOK, FrameFits, NeedsRecord, Locals,
        UninstLabel
  <2>2. TypeOK'
    BY <1>1, <2>1 DEF UninstGet, TypeOK, FramesOK
  <2> QED BY <1>1, <2>1, <2>2, CapturedKept DEF UninstGet, FramesOK
<1>2. CASE RawRemove(t)
  <2>1. FramesOK'
    BY <1>2, Threads, ReturnOK DEF RawRemove, TypeOK
  <2>2. TypeOK'
    BY <1>2, <2>1, Versions DEF RawRemove, TypeOK, FramesOK
  <2> QED BY <1>2, <2>1, <2>2, CapturedKept DEF RawRemove, FramesOK
<1>3. CASE UninstLock(t)
  <2>1. FramesOK'
    BY <1>3, Threads, GotoOK, Labels
       DEF UninstLock, TypeOK, FrameOK, FrameFits, NeedsRecord, UninstLabel,
        WaitLabel
  <2>2. TypeOK'
    BY <1>3, <2>1, AcquireTyped DEF UninstLock, TypeOK, FramesOK
  <2> QED BY <1>3, <2>1, <2>2, CapturedKept DEF UninstLock, FramesOK
<1>4. CASE Remove(t)
  <2>1. FramesOK'
    BY <1>4, Threads, ReturnOK DEF Remove, TypeOK
  <2>2. TypeOK'
    BY <1>4, <2>1, UnlockTyped, Versions
       DEF Remove, TypeOK, FramesOK, FrameOK, FrameFits, NeedsRecord,
        PluginStatus
  <2> QED BY <1>4, <2>1, <2>2, CapturedKept DEF Remove, FramesOK
<1> QED BY <1>1, <1>2, <1>3, <1>4 DEF Uninstall

\* defaultHandle's steps keep the typing invariant.
LEMMA TypeProxy ==
  ASSUME TypeInv, NEW t \in Thread, Proxy(t)
  PROVE  TypeInv'
<1> USE DEF TypeInv
<1>1. CASE ProxyEnter(t)
  <2>1. FramesOK'
    <3>1. CASE pmap = None
      BY <1>1, <3>1, ReturnOK DEF ProxyEnter
    <3>2. CASE pmap # None
      <4>1. Move(t, "proxyRoute", [loc[t] EXCEPT !.cur = pmap])
        BY <1>1, <3>2 DEF ProxyEnter
      <4> QED BY <3>2, <4>1, MoveOK, Labels
              DEF TypeOK, FrameFits, NeedsRecord, Locals, ProxyLabel
    <3> QED BY <3>1, <3>2
  <2>2. TypeOK'
    BY <1>1, <2>1 DEF ProxyEnter, TypeOK, FramesOK
  <2> QED BY <1>1, <2>1, <2>2, CapturedKept DEF ProxyEnter, FramesOK
<1>2. CASE ProxyRoute(t)
  <2>1. FramesOK'
    BY <1>2, Threads, GotoOK, Labels, ReturnOK
       DEF ProxyRoute, TypeOK, FrameOK, FrameFits, NeedsRecord, ProxyLabel
  <2>2. TypeOK'
    BY <1>2, <2>1, UncountTyped
       DEF ProxyRoute, TypeOK, FramesOK, FrameOK, FrameFits, NeedsRecord
  <2> QED BY <1>2, <2>1, <2>2, CapturedKept DEF ProxyRoute, FramesOK
<1>3. CASE ProxyWait(t)
  <2>1. FramesOK'
    BY <1>3, Threads, ReturnOK DEF ProxyWait, TypeOK
  <2>2. TypeOK'
    BY <1>3, <2>1, UncountTyped
       DEF ProxyWait, TypeOK, FramesOK, FrameOK, FrameFits, NeedsRecord
  <2> QED BY <1>3, <2>1, <2>2, CapturedKept DEF ProxyWait, FramesOK
<1>4. CASE ProxySend(t)
  <2>0. info[loc[t].cur].endpoint \in Proc \cup {None}
    BY <1>4 DEF ProxySend, TypeOK, FrameOK, FrameFits, NeedsRecord, Info
  <2>1. FramesOK'
    BY <1>4, <2>0, MoveOK, Labels
       DEF ProxySend, TypeOK, FrameOK, FrameFits, NeedsRecord, Locals, ProxyLabel
  <2>2. TypeOK'
    BY <1>4, <2>1 DEF ProxySend, TypeOK, FramesOK
  <2> QED BY <1>4, <2>1, <2>2, CapturedKept DEF ProxySend, FramesOK
<1> QED BY <1>1, <1>2, <1>3, <1>4 DEF Proxy

\* A child's steps keep the typing invariant.
LEMMA TypeSlave ==
  ASSUME TypeInv, NEW p \in Proc, Slave(p)
  PROVE  TypeInv'
<1> USE DEF TypeInv
<1>1. CASE SlaveStart(p)
  <2>1. CASE disk # 0 /\ up
    <3>1. Goto(p, "regCheck") /\ p \in Thread
      BY <1>1, <2>1, Threads DEF SlaveStart
    <3>2. FramesOK'
      BY <3>1, GotoOK, Labels DEF RegLabel, FrameFits, NeedsRecord
    <3>3. proc' \in [Proc -> ProcInfo]
      <4>1. [proc[p] EXCEPT !.state = "registering", !.ver = disk] \in ProcInfo
        BY DEF TypeOK, ProcInfo
      <4> QED BY <1>1, <2>1, <4>1 DEF SlaveStart, TypeOK
    <3>4. CapturedOK'
      <4>1. /\ proc' = [proc EXCEPT ![p] =
                          [proc[p] EXCEPT !.state = "registering", !.ver = disk]]
            /\ proc[p].state = "launched"
        BY <1>1, <2>1 DEF SlaveStart
      <4>2. proc[p] \in ProcInfo
        BY DEF TypeOK
      <4>3. proc'[p].obj = proc[p].obj /\ proc'[p].reap = proc[p].reap
        BY <4>1, <4>2 DEF TypeOK, ProcInfo
      <4>4. \A q \in Proc \ {p} : proc'[q] = proc[q]
        BY <4>1 DEF TypeOK
      <4>5. \A q \in Proc :
              proc'[q].obj = proc[q].obj /\ proc'[q].reap = proc[q].reap
        BY <4>3, <4>4
      <4>6. \A q \in Proc : proc'[q].state # "none" => proc[q].state # "none"
        BY <4>1, <4>4
      <4> QED BY <4>5, <4>6 DEF CapturedOK
    <3> QED BY <1>1, <3>2, <3>3, <3>4 DEF SlaveStart, TypeOK, FramesOK
  <2>2. CASE ~(disk # 0 /\ up)
    <3>1. SetState(p, "dead") /\ UNCHANGED <<pc, loc>>
      BY <1>1, <2>2 DEF SlaveStart
    <3>2. proc' \in [Proc -> ProcInfo] /\ CapturedOK'
      BY <1>1, <3>1, StateTyped, CapturedState DEF SlaveStart
    <3> QED BY <1>1, <3>1, <3>2, FramesKept DEF SlaveStart, TypeOK, FramesOK
  <2> QED BY <2>1, <2>2
<1>2. CASE SlaveHeartbeat(p)
  <2>1. FramesOK'
    BY <1>2, FramesKept DEF SlaveHeartbeat
  <2>2. TypeOK'
    BY <1>2, <2>1, StateTyped DEF SlaveHeartbeat, TypeOK, FramesOK
  <2>3. CapturedOK'
    BY <1>2, CapturedState DEF SlaveHeartbeat
  <2> QED BY <2>1, <2>2, <2>3 DEF FramesOK
<1>3. CASE SlaveExit(p)
  <2>1. FramesOK'
    BY <1>3, FramesKept DEF SlaveExit
  <2>2. TypeOK'
    BY <1>3, <2>1, StateTyped DEF SlaveExit, TypeOK, FramesOK
  <2>3. CapturedOK'
    BY <1>3, CapturedState DEF SlaveExit, Alive
  <2> QED BY <2>1, <2>2, <2>3 DEF FramesOK
<1>4. CASE SlaveServe(p)
  <2>1. FramesOK'
    BY <1>4, FramesKept DEF SlaveServe
  <2>2. TypeOK'
    BY <1>4, <2>1, StateTyped DEF SlaveServe, TypeOK, FramesOK
  <2>3. CapturedOK'
    BY <1>4, CapturedState DEF SlaveServe
  <2> QED BY <2>1, <2>2, <2>3 DEF FramesOK
<1> QED BY <1>1, <1>2, <1>3, <1>4 DEF Slave

\* run()'s waiting goroutine keeps the typing invariant.
LEMMA TypeReaper ==
  ASSUME TypeInv, NEW p \in Proc, Reaper(p)
  PROVE  TypeInv'
<1> USE DEF TypeInv
<1>1. CASE ReapMatch(p)
  <2>1. FramesOK'
    BY <1>1, FramesKept DEF ReapMatch
  <2>2. TypeOK'
    BY <1>1, <2>1, ReapedTyped DEF ReapMatch, TypeOK, ProcInfo, FramesOK
  <2>3. CapturedOK'
    <3>1. CASE Reaped(p)
      BY <3>1, CapturedReaped
    <3>2. CASE proc' = [proc EXCEPT ![p].reap = "match"]
      BY <1>1, <3>2 DEF ReapMatch, CapturedOK, TypeOK, ProcInfo
    <3> QED BY <1>1, <3>1, <3>2 DEF ReapMatch
  <2> QED BY <2>1, <2>2, <2>3 DEF FramesOK
<1>2. CASE ReapWrite(p)
  <2>1. FramesOK'
    BY <1>2, FramesKept DEF ReapWrite
  <2>2. TypeOK'
    BY <1>2, <2>1, StatusTyped, ReapedTyped
       DEF ReapWrite, TypeOK, Status, Failed, FramesOK
  <2>3. CapturedOK'
    BY <1>2, CapturedReaped DEF ReapWrite
  <2> QED BY <2>1, <2>2, <2>3 DEF FramesOK
<1> QED BY <1>1, <1>2 DEF Reaper

\* The arrival of a request keeps the typing invariant.
LEMMA TypeRequest ==
  ASSUME TypeInv, NEW t \in Client, Call(t)
  PROVE  TypeInv'
<1> USE DEF TypeInv
<1>1. CASE Call(t)
  <2>1. FramesOK'
    <3>1. PICK op \in Calls[t] :
            LET o == IF op \in {"restart", "uninstall"} THEN op ELSE "none"
            IN  Move(t, FirstLabel[op], [loc[t] EXCEPT !.op = o])
      BY <1>1 DEF Call
    <3>2. t \in Thread /\ op \in Op
      BY Threads, CallAssumption
    <3>3. PICK o \in {"none", "restart", "uninstall"} :
            Move(t, FirstLabel[op], [loc[t] EXCEPT !.op = o])
      BY <3>1
    <3>4. [loc[t] EXCEPT !.op = o] \in Locals
      BY <3>2 DEF TypeOK, Locals
    <3> QED BY <3>2, <3>3, <3>4, MoveOK, FirstLabelTyped
            DEF FrameFits, NeedsRecord
  <2>2. TypeOK'
    BY <1>1, <2>1 DEF Call, TypeOK, FramesOK
  <2> QED BY <1>1, <2>1, <2>2, CapturedKept DEF Call, FramesOK
<1> QED BY <1>1 DEF Request

\* What Start makes of the plugins found on disk is well typed.
LEMMA LoadedTyped ==
  ASSUME NEW r, disk \in Version PROVE Loaded(r) \in [Obj -> Info]
<1>1. NoInfo \in Info
  BY BoundAssumption DEF NoInfo, Info, Status, Version
<1>2. [status |-> "NotStarted", endpoint |-> None, version |-> disk] \in Info
  BY DEF Info, Status
<1> QED BY <1>1, <1>2 DEF Loaded

\* The null process and the null frame are well typed.
LEMMA NullsTyped == NoProc \in ProcInfo /\ NoLocals \in Locals
BY BoundAssumption DEF NoProc, ProcInfo, NoLocals, Locals, Version

\* A restart forgets the goroutines that waited for the children, with all
\* others, and keeps the typing invariant.
LEMMA TypeRestart ==
  ASSUME TypeInv, MasterRestarts
  PROVE  TypeInv'
<1> USE DEF TypeInv
<1>1. pc' = [t \in Thread |-> "idle"] /\ loc' = [t \in Thread |-> NoLocals]
  BY DEF MasterRestarts
<1>2. FramesOK'
  BY <1>1, NullsTyped, Labels DEF FramesOK, FrameOK, FrameFits, NeedsRecord
<1>3. \A p \in Proc : LeftOver(p) \in
          {"none", "launched", "registering", "serving", "orphan", "dead"}
  BY DEF LeftOver, TypeOK, ProcInfo
<1>4. \A p \in Proc : Forgotten(p) \in ProcInfo /\ Forgotten(p).reap = "done"
  BY <1>3, NullsTyped DEF Forgotten, ProcInfo
<1>5. proc' \in [Proc -> ProcInfo]
  BY <1>4 DEF MasterRestarts
<1>6. CapturedOK'
  BY <1>4 DEF MasterRestarts, CapturedOK
<1>7. info' \in [Obj -> Info]
  BY LoadedTyped DEF MasterRestarts, TypeOK
<1>8. 0 \in Version /\ 0 \in 0 .. MaxClock
  BY BoundAssumption DEF Version
<1>9. /\ pmap' \in Obj \cup {None} /\ lock' \in [Obj -> Thread \cup {None}]
      /\ conns' \in [Obj -> Int] /\ lastConn' \in [Obj -> 0 .. MaxClock]
      /\ cached' \in Version /\ up' \in BOOLEAN
  BY <1>8 DEF MasterRestarts
<1>10. clock' \in 0 .. MaxClock /\ disk' \in Version /\ published' \in Version \ {0}
  BY DEF MasterRestarts, TypeOK
<1>11. TypeOK'
  BY <1>2, <1>5, <1>7, <1>9, <1>10 DEF TypeOK, FramesOK
<1> QED BY <1>2, <1>6, <1>11 DEF FramesOK

\* Publishing, time, the master's end and its restart keep the typing invariant.
LEMMA TypeEnvironment ==
  ASSUME TypeInv, Environment
  PROVE  TypeInv'
<1> USE DEF TypeInv
<1>1. CASE Publish
  <2>1. FramesOK'
    BY <1>1, FramesKept DEF Publish
  <2>2. TypeOK'
    BY <1>1, <2>1, Versions DEF Publish, TypeOK, FramesOK
  <2> QED BY <1>1, <2>1, <2>2, CapturedKept DEF Publish, FramesOK
<1>2. CASE Tick
  <2>1. FramesOK'
    BY <1>2, FramesKept DEF Tick
  <2>2. TypeOK'
    BY <1>2, <2>1, Versions, BoundAssumption DEF Tick, TypeOK, FramesOK
  <2> QED BY <1>2, <2>1, <2>2, CapturedKept DEF Tick, FramesOK
<1>3. CASE MasterDies
  <2>1. FramesOK'
    BY <1>3, FramesKept DEF MasterDies
  <2>2. TypeOK'
    BY <1>3, <2>1 DEF MasterDies, TypeOK, FramesOK
  <2> QED BY <1>3, <2>1, <2>2, CapturedKept DEF MasterDies, FramesOK
<1>4. CASE MasterRestarts
  BY <1>4, TypeRestart
<1> QED BY <1>1, <1>2, <1>3, <1>4 DEF Environment

\* The typing invariant holds when the master starts.
LEMMA TypeInit == Init => TypeInv
<1> SUFFICES ASSUME Init PROVE TypeInv
  OBVIOUS
<1>1. info \in [Obj -> Info]
  BY LoadedTyped, BoundAssumption DEF Init, Version
<1>2. proc \in [Proc -> ProcInfo]
  BY NullsTyped DEF Init
<1>3. pc \in [Thread -> Label] /\ loc \in [Thread -> Locals]
  BY NullsTyped, Labels DEF Init
<1>4. TypeOK
  BY <1>1, <1>2, <1>3, BoundAssumption DEF Init, TypeOK, Version
<1>5. FrameOK
  BY DEF Init, FrameOK, FrameFits, NeedsRecord
<1>6. CapturedOK
  BY DEF Init, CapturedOK, NoProc
<1> QED BY <1>4, <1>5, <1>6 DEF TypeInv

\* Every step of the master keeps the typing invariant.
LEMMA TypeNext == TypeInv /\ [Next]_vars => TypeInv'
<1> SUFFICES ASSUME TypeInv, [Next]_vars PROVE TypeInv'
  OBVIOUS
<1>1. CASE \E t \in Thread : Step(t)
  BY <1>1, TypeStart, TypeStop, TypeUpdate, TypeWaitStop, TypeUninstall, TypeProxy
     DEF Step
<1>2. CASE \E t \in Client : Request(t)
  BY <1>2, TypeRequest DEF Request
<1>3. CASE \E p \in Proc : Registering(p) \/ Slave(p) \/ Reaper(p)
  BY <1>3, TypeRegister, TypeSlave, TypeReaper DEF Registering
<1>4. CASE InBackground
  BY <1>4, TypeBackground DEF InBackground
<1>5. CASE Environment
  BY <1>5, TypeEnvironment
<1>6. CASE UNCHANGED vars
  BY <1>6 DEF vars, TypeInv, TypeOK, FrameOK, CapturedOK
<1> QED BY <1>1, <1>2, <1>3, <1>4, <1>5, <1>6 DEF Next

\* In every reachable state each goroutine that is between a look-up of the
\* plugin and its use has a record in hand, _stopPlugin knows where to return,
\* and every goroutine that waits for a child has captured a record.
THEOREM TypeInvariant == Spec => []TypeInv
BY TypeInit, TypeNext, PTL DEF Spec

\* TypeOK holds in every reachable state, for any number of clients, children
\* and records, any calls and any failures.
THEOREM TypeCorrect == Spec => []TypeOK
<1>1. TypeInv => TypeOK
  BY DEF TypeInv
<1> QED BY <1>1, TypeInvariant, PTL
===============================================================================
