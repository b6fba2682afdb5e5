------------------------------- MODULE LockOrder ------------------------------
(***************************************************************************)
(* The order of the locks of package master, for any number of plugins,    *)
(* shards, goroutines and records. OrderKept is not inductive: Fits says   *)
(* of each goroutine which records it may still have locked, and where it  *)
(* may have globalLock and a shard. StuckOnlyInExit follows from it, from  *)
(* what heartbeat is doing while it iterates, and from the fact that some  *)
(* goroutine has the newest record in hand.                                *)
(***************************************************************************)
EXTENDS MasterLocks, WellFoundedInduction, TLAPS

(* Where a record's lock is asked for, or held, there is one in hand.      *)
WithRecord == {"lock", "lockNew"} \cup InRecord

(* No record's lock is held here.                                          *)
Empty == {"idle", "iterate", "get", "lock"}

(* The record in hand is not locked: StartPlugin may have left an older    *)
(* one locked, which it looked up before it was taken out of the map.      *)
NotInHand == {"snap", "snapped", "init", "find", "set", "write", "lockNew"}

RecordsFit(t) ==
  \A r \in Record : mutex[r] = t =>
    /\ r <= rec[t]
    /\ pc[t] \in NotInHand => r < rec[t]
    /\ op[t] # "start" => r = rec[t]
    /\ pc[t] \notin Empty

(* The record in hand is no newer than the one in the map.                 *)
HandFits(t) ==
  /\ entry[plug[t]] = 0 \/ rec[t] <= entry[plug[t]]
  /\ pc[t] \in WithRecord => rec[t] > 0
  /\ pc[t] = "check" => op[t] = "start"

MapFits(t) ==
  /\ globalLock = t => pc[t] \in InGlobal \cup {"dead"}
  /\ \A s \in Shard : writer[s] = t => pc[t] \in InShard \cup {"dead"}
                                         /\ (pc[t] # "dead" => s = Shd(t))

Fits(t) == RecordsFit(t) /\ HandFits(t) /\ MapFits(t)

IInv == TypeOK /\ \A t \in Thread : Fits(t)

-----------------------------------------------------------------------------
\* Neither the free lock's holder nor the returned goroutine's is a goroutine.
LEMMA NotThreads == None \notin Thread /\ Gone \notin Thread /\ None # Gone
BY NameAssumption DEF Thread

\* The groups of labels, spelled out.
LEMMA Labels ==
  /\ InRecord = {"check", "post", "unlock", "global", "remove", "removed",
                 "postNew", "unlockNew"}
  /\ InGlobal = {"snapped", "find", "set", "write", "remove", "removed"}
  /\ Label = InRecord \cup InGlobal \cup
               {"idle", "dead", "iterate", "get", "lock", "snap", "init", "lockNew"}
BY DEF InRecord, OldLabel, NewLabel, InGlobal, MapLabel, InShard, Label

(* Only t moves, and takes no lock from another goroutine.                 *)
OthersKept(t) ==
  \A u \in Thread \ {t} :
    pc'[u] = pc[u] /\ op'[u] = op[u] /\ plug'[u] = plug[u] /\ rec'[u] = rec[u]

LocksKept(t) ==
  /\ globalLock' \in {globalLock, t, None}
  /\ \A s \in Shard : writer'[s] \in {writer[s], t, None}
  /\ \A r \in Record : mutex'[r] \in {mutex[r], t, None, Gone}

(* A record in the map gives way to none, or to a new one.                 *)
MapKept == \A p \in Plugin : entry'[p] \in {0, entry[p], made + 1}

\* A step of t leaves the other goroutines' locks in their order.
LEMMA OthersFit ==
  ASSUME IInv, NEW t \in Thread, NEW u \in Thread \ {t},
         OthersKept(t), LocksKept(t), MapKept
  PROVE  Fits(u)'
<1> USE NotThreads DEF IInv, OthersKept
<1>1. RecordsFit(u)'
  BY DEF LocksKept, Fits, RecordsFit
<1>2. HandFits(u)'
  <2>1. plug[u] \in Plugin /\ rec[u] \in 0 .. made /\ made \in Nat
    BY DEF TypeOK
  <2>2. entry'[plug[u]] = 0 \/ rec[u] <= entry'[plug[u]]
    BY <2>1 DEF Fits, HandFits, MapKept
  <2> QED BY <2>2 DEF Fits, HandFits
<1>3. MapFits(u)'
  BY DEF LocksKept, Fits, MapFits, Shd
<1> QED BY <1>1, <1>2, <1>3 DEF Fits

\* So the invariant is kept by a step of t after which t fits.
LEMMA Keep ==
  ASSUME IInv, NEW t \in Thread, TypeOK', OthersKept(t), LocksKept(t), MapKept, Fits(t)'
  PROVE  IInv'
BY OthersFit DEF IInv

-----------------------------------------------------------------------------
\* IInv is kept when a goroutine looks its plugin up.
LEMMA GetKept ==
  ASSUME IInv, NEW t \in Thread, Get(t) PROVE IInv'
<1> USE NotThreads, BoundAssumption DEF Get, Goto, locks, locals, Found, NotFound, Home
<1>1. TypeOK'
  BY Labels DEF IInv, TypeOK, Shd, Op, Record
<1>2. OthersKept(t) /\ LocksKept(t) /\ MapKept
  BY DEF IInv, TypeOK, OthersKept, LocksKept, MapKept
<1>3. RecordsFit(t)'
  BY Labels DEF IInv, TypeOK, Fits, RecordsFit, HandFits, WithRecord, NotInHand, Empty, Record
<1>4. HandFits(t)'
  BY Labels DEF IInv, TypeOK, Fits, HandFits, WithRecord
<1>5. MapFits(t)'
  BY Labels DEF IInv, TypeOK, Fits, MapFits, InShard, Shd
<1> QED BY Keep, <1>1, <1>2, <1>3, <1>4, <1>5 DEF Fits

\* IInv is kept when a goroutine takes a request.
LEMMA RequestKept ==
  ASSUME IInv, NEW t \in Worker, Request(t) PROVE IInv'
<1> USE NotThreads, BoundAssumption, NameAssumption DEF Request, Goto, locks, locals, Call, Thread
<1>1. TypeOK'
  BY Labels DEF IInv, TypeOK, Shd, Op, Record
<1>2. OthersKept(t) /\ LocksKept(t) /\ MapKept
  BY DEF IInv, TypeOK, OthersKept, LocksKept, MapKept
<1>3. RecordsFit(t)'
  BY Labels DEF IInv, TypeOK, Fits, RecordsFit, HandFits, WithRecord, NotInHand, Empty, Record
<1>4. HandFits(t)'
  BY Labels DEF IInv, TypeOK, Fits, HandFits, WithRecord
<1>5. MapFits(t)'
  BY Labels DEF IInv, TypeOK, Fits, MapFits, InShard, Shd
<1> QED BY Keep, <1>1, <1>2, <1>3, <1>4, <1>5 DEF Fits

\* IInv is kept when a goroutine locks the record it has looked up.
LEMMA LockKept ==
  ASSUME IInv, NEW t \in Thread, Lock(t) PROVE IInv'
<1> USE NotThreads, BoundAssumption DEF Lock, Goto, locks, locals, Locked
<1>1. TypeOK'
  BY Labels DEF IInv, TypeOK, Shd, Op, Record
<1>2. OthersKept(t) /\ LocksKept(t) /\ MapKept
  BY DEF IInv, TypeOK, OthersKept, LocksKept, MapKept
<1>3. RecordsFit(t)'
  BY Labels DEF IInv, TypeOK, Fits, RecordsFit, HandFits, WithRecord, NotInHand, Empty, Record
<1>4. HandFits(t)'
  BY Labels DEF IInv, TypeOK, Fits, HandFits, WithRecord
<1>5. MapFits(t)'
  BY Labels DEF IInv, TypeOK, Fits, MapFits, InShard, Shd
<1> QED BY Keep, <1>1, <1>2, <1>3, <1>4, <1>5 DEF Fits

\* IInv is kept when a goroutine looks the plugin up again, in StartPlugin.
LEMMA CheckKept ==
  ASSUME IInv, NEW t \in Thread, Check(t) PROVE IInv'
<1> USE NotThreads, BoundAssumption DEF Check, Goto, locks, locals, Return, Home
<1>1. TypeOK'
  BY Labels DEF IInv, TypeOK, Shd, Op, Record
<1>2. OthersKept(t) /\ LocksKept(t) /\ MapKept
  BY DEF IInv, TypeOK, OthersKept, LocksKept, MapKept
<1>3. RecordsFit(t)'
  BY Labels DEF IInv, TypeOK, Fits, RecordsFit, HandFits, WithRecord, NotInHand, Empty, Record
<1>4. HandFits(t)'
  BY Labels DEF IInv, TypeOK, Fits, HandFits, WithRecord
<1>5. MapFits(t)'
  BY Labels DEF IInv, TypeOK, Fits, MapFits, InShard, Shd
<1> QED BY Keep, <1>1, <1>2, <1>3, <1>4, <1>5 DEF Fits

\* IInv is kept when a goroutine ends a kill or an installation, with the record locked.
LEMMA PostKept ==
  ASSUME IInv, NEW t \in Thread, Post(t) PROVE IInv'
<1> USE NotThreads, BoundAssumption DEF Post, Goto, locks, locals
<1>1. TypeOK'
  BY Labels DEF IInv, TypeOK, Shd, Op, Record
<1>2. OthersKept(t) /\ LocksKept(t) /\ MapKept
  BY DEF IInv, TypeOK, OthersKept, LocksKept, MapKept
<1>3. RecordsFit(t)'
  BY Labels DEF IInv, TypeOK, Fits, RecordsFit, HandFits, WithRecord, NotInHand, Empty, Record
<1>4. HandFits(t)'
  BY Labels DEF IInv, TypeOK, Fits, HandFits, WithRecord
<1>5. MapFits(t)'
  BY Labels DEF IInv, TypeOK, Fits, MapFits, InShard, Shd
<1> QED BY Keep, <1>1, <1>2, <1>3, <1>4, <1>5 DEF Fits

\* IInv is kept when a goroutine takes globalLock.
LEMMA TakeGlobalKept ==
  ASSUME IInv, NEW t \in Thread, TakeGlobal(t) PROVE IInv'
<1> USE NotThreads, BoundAssumption DEF TakeGlobal, Goto, locks, locals
<1>1. TypeOK'
  BY Labels DEF IInv, TypeOK, Shd, Op, Record
<1>2. OthersKept(t) /\ LocksKept(t) /\ MapKept
  BY DEF IInv, TypeOK, OthersKept, LocksKept, MapKept
<1>3. RecordsFit(t)'
  BY Labels DEF IInv, TypeOK, Fits, RecordsFit, HandFits, WithRecord, NotInHand, Empty, Record
<1>4. HandFits(t)'
  BY Labels DEF IInv, TypeOK, Fits, HandFits, WithRecord
<1>5. MapFits(t)'
  BY Labels DEF IInv, TypeOK, Fits, MapFits, InShard, Shd
<1> QED BY Keep, <1>1, <1>2, <1>3, <1>4, <1>5 DEF Fits

\* IInv is kept when a goroutine asks for a shard's write lock.
LEMMA AskShardKept ==
  ASSUME IInv, NEW t \in Thread, AskShard(t) PROVE IInv'
<1> USE NotThreads, BoundAssumption DEF AskShard, Goto, locks, locals, Readable
<1>1. TypeOK'
  BY Labels DEF IInv, TypeOK, Shd, Op, Record
<1>2. OthersKept(t) /\ LocksKept(t) /\ MapKept
  BY DEF IInv, TypeOK, OthersKept, LocksKept, MapKept
<1>3. RecordsFit(t)'
  BY Labels DEF IInv, TypeOK, Fits, RecordsFit, HandFits, WithRecord, NotInHand, Empty, Record
<1>4. HandFits(t)'
  BY Labels DEF IInv, TypeOK, Fits, HandFits, WithRecord
<1>5. MapFits(t)'
  BY Labels DEF IInv, TypeOK, Fits, MapFits, InShard, Shd
<1> QED BY Keep, <1>1, <1>2, <1>3, <1>4, <1>5 DEF Fits

\* IInv is kept when a goroutine removes a record from the map.
LEMMA RemoveKept ==
  ASSUME IInv, NEW t \in Thread, Remove(t) PROVE IInv'
<1> USE NotThreads, BoundAssumption DEF Remove, Goto, locks, locals
<1>1. TypeOK'
  <2>1. made' \in 0 .. MaxRecord /\ entry' \in [Plugin -> 0 .. made']
    BY DEF IInv, TypeOK
  <2>2. rec' \in [Thread -> 0 .. made'] /\ pc' \in [Thread -> Label]
    BY Labels DEF IInv, TypeOK
  <2>3. writer' \in [Shard -> Thread \cup {None}]
    BY DEF IInv, TypeOK, Shd
  <2> QED BY <2>1, <2>2, <2>3 DEF IInv, TypeOK
<1>2. OthersKept(t) /\ LocksKept(t) /\ MapKept
  BY DEF IInv, TypeOK, OthersKept, LocksKept, MapKept
<1>3. RecordsFit(t)'
  BY Labels DEF IInv, TypeOK, Fits, RecordsFit, HandFits, WithRecord, NotInHand, Empty, Record
<1>4. HandFits(t)'
  BY Labels DEF IInv, TypeOK, Fits, HandFits, WithRecord
<1>5. MapFits(t)'
  BY Labels DEF IInv, TypeOK, Fits, MapFits, InShard, Shd
<1> QED BY Keep, <1>1, <1>2, <1>3, <1>4, <1>5 DEF Fits

\* IInv is kept when a goroutine gives globalLock back before initManifest.
LEMMA SnappedKept ==
  ASSUME IInv, NEW t \in Thread, Snapped(t) PROVE IInv'
<1> USE NotThreads, BoundAssumption DEF Snapped, Goto, locks, locals
<1>1. TypeOK'
  BY Labels DEF IInv, TypeOK, Shd, Op, Record
<1>2. OthersKept(t) /\ LocksKept(t) /\ MapKept
  BY DEF IInv, TypeOK, OthersKept, LocksKept, MapKept
<1>3. RecordsFit(t)'
  BY Labels DEF IInv, TypeOK, Fits, RecordsFit, HandFits, WithRecord, NotInHand, Empty, Record
<1>4. HandFits(t)'
  BY Labels DEF IInv, TypeOK, Fits, HandFits, WithRecord
<1>5. MapFits(t)'
  BY Labels DEF IInv, TypeOK, Fits, MapFits, InShard, Shd
<1> QED BY Keep, <1>1, <1>2, <1>3, <1>4, <1>5 DEF Fits

\* IInv is kept when a goroutine looks the plugin up in initManifest.
LEMMA FindKept ==
  ASSUME IInv, NEW t \in Thread, Find(t) PROVE IInv'
<1> USE NotThreads, BoundAssumption DEF Find, Goto, locks, locals
<1>1. TypeOK'
  BY Labels DEF IInv, TypeOK, Shd, Op, Record
<1>2. OthersKept(t) /\ LocksKept(t) /\ MapKept
  BY DEF IInv, TypeOK, OthersKept, LocksKept, MapKept
<1>3. RecordsFit(t)'
  BY Labels DEF IInv, TypeOK, Fits, RecordsFit, HandFits, WithRecord, NotInHand, Empty, Record
<1>4. HandFits(t)'
  BY Labels DEF IInv, TypeOK, Fits, HandFits, WithRecord
<1>5. MapFits(t)'
  BY Labels DEF IInv, TypeOK, Fits, MapFits, InShard, Shd
<1> QED BY Keep, <1>1, <1>2, <1>3, <1>4, <1>5 DEF Fits

\* IInv is kept when a goroutine enters a new record in the map.
LEMMA SetKept ==
  ASSUME IInv, NEW t \in Thread, Set(t) PROVE IInv'
<1> USE NotThreads, BoundAssumption DEF Set, Goto, locks, locals
<1>1. TypeOK'
  <2>1. made' \in 0 .. MaxRecord /\ entry' \in [Plugin -> 0 .. made']
    BY DEF IInv, TypeOK
  <2>2. rec' \in [Thread -> 0 .. made'] /\ pc' \in [Thread -> Label]
    BY Labels DEF IInv, TypeOK
  <2>3. writer' \in [Shard -> Thread \cup {None}]
    BY DEF IInv, TypeOK, Shd
  <2> QED BY <2>1, <2>2, <2>3 DEF IInv, TypeOK
<1>2. OthersKept(t) /\ LocksKept(t) /\ MapKept
  BY DEF IInv, TypeOK, OthersKept, LocksKept, MapKept
<1>3. RecordsFit(t)'
  BY Labels DEF IInv, TypeOK, Fits, RecordsFit, HandFits, WithRecord, NotInHand, Empty, Record
<1>4. HandFits(t)'
  BY Labels DEF IInv, TypeOK, Fits, HandFits, WithRecord
<1>5. MapFits(t)'
  BY Labels DEF IInv, TypeOK, Fits, MapFits, InShard, Shd
<1> QED BY Keep, <1>1, <1>2, <1>3, <1>4, <1>5 DEF Fits

\* IInv is kept when a goroutine locks the record initManifest gave it.
LEMMA LockNewKept ==
  ASSUME IInv, NEW t \in Thread, LockNew(t) PROVE IInv'
<1> USE NotThreads, BoundAssumption DEF LockNew, Goto, locks, locals
<1>1. TypeOK'
  BY Labels DEF IInv, TypeOK, Shd, Op, Record
<1>2. OthersKept(t) /\ LocksKept(t) /\ MapKept
  BY DEF IInv, TypeOK, OthersKept, LocksKept, MapKept
<1>3. RecordsFit(t)'
  BY Labels DEF IInv, TypeOK, Fits, RecordsFit, HandFits, WithRecord, NotInHand, Empty, Record
<1>4. HandFits(t)'
  BY Labels DEF IInv, TypeOK, Fits, HandFits, WithRecord
<1>5. MapFits(t)'
  BY Labels DEF IInv, TypeOK, Fits, MapFits, InShard, Shd
<1> QED BY Keep, <1>1, <1>2, <1>3, <1>4, <1>5 DEF Fits

\* IInv is kept when a goroutine ends an installation.
LEMMA PostNewKept ==
  ASSUME IInv, NEW t \in Thread, PostNew(t) PROVE IInv'
<1> USE NotThreads, BoundAssumption DEF PostNew, Goto, locks, locals
<1>1. TypeOK'
  BY Labels DEF IInv, TypeOK, Shd, Op, Record
<1>2. OthersKept(t) /\ LocksKept(t) /\ MapKept
  BY DEF IInv, TypeOK, OthersKept, LocksKept, MapKept
<1>3. RecordsFit(t)'
  BY Labels DEF IInv, TypeOK, Fits, RecordsFit, HandFits, WithRecord, NotInHand, Empty, Record
<1>4. HandFits(t)'
  BY Labels DEF IInv, TypeOK, Fits, HandFits, WithRecord
<1>5. MapFits(t)'
  BY Labels DEF IInv, TypeOK, Fits, MapFits, InShard, Shd
<1> QED BY Keep, <1>1, <1>2, <1>3, <1>4, <1>5 DEF Fits

\* IInv is kept when a goroutine gives a record's lock back.
LEMMA UnlockOldKept ==
  ASSUME IInv, NEW t \in Thread, UnlockOld(t), ~Fatal(t) PROVE IInv'
<1> USE NotThreads, BoundAssumption DEF UnlockOld, Goto, locks, locals, Unlocked, Call, Return, Home
<1>1. TypeOK'
  BY Labels DEF IInv, TypeOK, Shd, Op, Record
<1>2. OthersKept(t) /\ LocksKept(t) /\ MapKept
  BY DEF IInv, TypeOK, OthersKept, LocksKept, MapKept
<1>3. RecordsFit(t)'
  BY Labels DEF IInv, TypeOK, Fits, RecordsFit, HandFits, WithRecord, NotInHand, Empty, Record
<1>4. HandFits(t)'
  BY Labels DEF IInv, TypeOK, Fits, HandFits, WithRecord
<1>5. MapFits(t)'
  BY Labels DEF IInv, TypeOK, Fits, MapFits, InShard, Shd
<1> QED BY Keep, <1>1, <1>2, <1>3, <1>4, <1>5 DEF Fits

\* IInv is kept when a goroutine gives a record's lock back at the end.
LEMMA UnlockNewKept ==
  ASSUME IInv, NEW t \in Thread, UnlockNew(t), ~Fatal(t) PROVE IInv'
<1> USE NotThreads, BoundAssumption DEF UnlockNew, Goto, locks, locals, Unlocked, Call, Return, Home
<1>1. TypeOK'
  BY Labels DEF IInv, TypeOK, Shd, Op, Record
<1>2. OthersKept(t) /\ LocksKept(t) /\ MapKept
  BY DEF IInv, TypeOK, OthersKept, LocksKept, MapKept
<1>3. RecordsFit(t)'
  BY Labels DEF IInv, TypeOK, Fits, RecordsFit, HandFits, WithRecord, NotInHand, Empty, Record
<1>4. HandFits(t)'
  BY Labels DEF IInv, TypeOK, Fits, HandFits, WithRecord
<1>5. MapFits(t)'
  BY Labels DEF IInv, TypeOK, Fits, MapFits, InShard, Shd
<1> QED BY Keep, <1>1, <1>2, <1>3, <1>4, <1>5 DEF Fits

\* IInv is kept when heartbeat starts to iterate.
LEMMA IterateKept ==
  ASSUME IInv, Iterate PROVE IInv'
<1> USE NotThreads, BoundAssumption, NameAssumption DEF Iterate, Goto, locks, locals, Thread
<1>1. TypeOK'
  BY Labels DEF IInv, TypeOK, Shd, Op, Record
<1>2. OthersKept(Heartbeat) /\ LocksKept(Heartbeat) /\ MapKept
  BY DEF IInv, TypeOK, OthersKept, LocksKept, MapKept
<1>3. RecordsFit(Heartbeat)'
  BY Labels DEF IInv, TypeOK, Fits, RecordsFit, HandFits, WithRecord, NotInHand, Empty, Record
<1>4. HandFits(Heartbeat)'
  BY Labels DEF IInv, TypeOK, Fits, HandFits, WithRecord
<1>5. MapFits(Heartbeat)'
  BY Labels DEF IInv, TypeOK, Fits, MapFits, InShard, Shd
<1> QED BY Keep, <1>1, <1>2, <1>3, <1>4, <1>5 DEF Fits

\* IInv is kept when heartbeat stops a plugin.
LEMMA AutoExitKept ==
  ASSUME IInv, AutoExit PROVE IInv'
<1> USE NotThreads, BoundAssumption, NameAssumption DEF AutoExit, Goto, locks, locals, Call, Thread
<1>1. TypeOK'
  BY Labels DEF IInv, TypeOK, Shd, Op, Record
<1>2. OthersKept(Heartbeat) /\ LocksKept(Heartbeat) /\ MapKept
  BY DEF IInv, TypeOK, OthersKept, LocksKept, MapKept
<1>3. RecordsFit(Heartbeat)'
  BY Labels DEF IInv, TypeOK, Fits, RecordsFit, HandFits, WithRecord, NotInHand, Empty, Record
<1>4. HandFits(Heartbeat)'
  BY Labels DEF IInv, TypeOK, Fits, HandFits, WithRecord
<1>5. MapFits(Heartbeat)'
  BY Labels DEF IInv, TypeOK, Fits, MapFits, InShard, Shd
<1> QED BY Keep, <1>1, <1>2, <1>3, <1>4, <1>5 DEF Fits

\* IInv is kept when heartbeat ends the iteration.
LEMMA IteratedKept ==
  ASSUME IInv, Iterated PROVE IInv'
<1> USE NotThreads, BoundAssumption, NameAssumption DEF Iterated, Goto, locks, locals, Thread
<1>1. TypeOK'
  BY Labels DEF IInv, TypeOK, Shd, Op, Record
<1>2. OthersKept(Heartbeat) /\ LocksKept(Heartbeat) /\ MapKept
  BY DEF IInv, TypeOK, OthersKept, LocksKept, MapKept
<1>3. RecordsFit(Heartbeat)'
  BY Labels DEF IInv, TypeOK, Fits, RecordsFit, HandFits, WithRecord, NotInHand, Empty, Record
<1>4. HandFits(Heartbeat)'
  BY Labels DEF IInv, TypeOK, Fits, HandFits, WithRecord
<1>5. MapFits(Heartbeat)'
  BY Labels DEF IInv, TypeOK, Fits, MapFits, InShard, Shd
<1> QED BY Keep, <1>1, <1>2, <1>3, <1>4, <1>5 DEF Fits

\* In a program that has ended, no goroutine does anything with its locks.
LEMMA FatalKept ==
  ASSUME IInv, NEW t \in Thread, Fatal(t),
         UNCHANGED <<entry, made, globalLock, writer, iterating, plug, rec>>
  PROVE  IInv'
<1> USE DEF IInv, Fatal
<1>1. TypeOK'
  BY Labels DEF TypeOK
<1>2. ASSUME NEW u \in Thread PROVE Fits(u)'
  <2>1. pc'[u] = "dead"
    OBVIOUS
  <2> QED
    BY <2>1, Labels DEF Fits, RecordsFit, HandFits, MapFits, WithRecord, NotInHand, Empty,
       TypeOK
<1> QED BY <1>1, <1>2

-----------------------------------------------------------------------------
\* At first nothing is locked, and no record is in anybody's hand.
LEMMA InitFits == Init => IInv
<1> SUFFICES ASSUME Init PROVE IInv
  OBVIOUS
<1>1. TypeOK
  BY NotThreads, BoundAssumption, Labels DEF Init, TypeOK, Op, Record
<1>2. ASSUME NEW t \in Thread PROVE Fits(t)
  BY NotThreads, Labels DEF Init, Fits, RecordsFit, HandFits, MapFits, WithRecord
<1> QED BY <1>1, <1>2 DEF IInv

\* One lemma for each disjunct of Operation; Unlock may end the program.
LEMMA OperationKept == ASSUME IInv, NEW t \in Thread, Operation(t) PROVE IInv'
<1>1. CASE UnlockOld(t)
  BY <1>1, UnlockOldKept, FatalKept DEF UnlockOld
<1>2. CASE UnlockNew(t)
  BY <1>2, UnlockNewKept, FatalKept DEF UnlockNew
<1> QED
  BY <1>1, <1>2, GetKept, LockKept, CheckKept, PostKept, TakeGlobalKept, AskShardKept,
     RemoveKept, SnappedKept, FindKept, SetKept, LockNewKept, PostNewKept DEF Operation

\* In every state of every behaviour the goroutines' locks fit where they are.
THEOREM Inductive == Spec => []IInv
<1>1. Init => IInv
  BY InitFits
<1>2. IInv /\ [Next]_vars => IInv'
  <2> SUFFICES ASSUME IInv, [Next]_vars PROVE IInv'
    OBVIOUS
  <2>1. CASE \E t \in Worker : Request(t)
    BY <2>1, RequestKept
  <2>2. CASE \E t \in Thread : Operation(t)
    BY <2>2, OperationKept
  <2>3. CASE Iterate \/ AutoExit \/ Iterated
    BY <2>3, IterateKept, AutoExitKept, IteratedKept
  <2>4. CASE UNCHANGED vars
    BY <2>4 DEF vars, IInv, TypeOK, Fits, RecordsFit, HandFits, MapFits, Shd
  <2> QED
    BY <2>1, <2>2, <2>3, <2>4 DEF Next
<1> QED
  BY <1>1, <1>2, PTL DEF Spec

\* What a goroutine holds comes before what it waits for: no record's lock at
\* "lock", only older ones at "lockNew", no globalLock or shard where it asks
\* for globalLock, and no shard where it asks for one.
LEMMA HeldBefore ==
  ASSUME IInv, NEW t \in Thread, NEW held \in Holds(t), NEW wanted \in Wants(t)
  PROVE  held < wanted
<1> USE BoundAssumption, NotThreads
     DEF IInv, Fits, TypeOK, Holds, Record, Global, Gate, Readers
<1>1. CASE wanted = rec[t] /\ pc[t] = "lock"
  BY <1>1, Labels DEF RecordsFit, Empty, MapFits, InShard
<1>2. CASE wanted = rec[t] /\ pc[t] = "lockNew"
  BY <1>2, Labels DEF RecordsFit, NotInHand, MapFits, InShard
<1>3. CASE wanted = Global /\ pc[t] \in WantsGlobal
  <2>1. globalLock # t
    BY <1>3, Labels DEF WantsGlobal, MapFits
  <2>2. ~ \E s \in Shard : writer[s] = t
    BY <1>3 DEF WantsGlobal, MapFits, InShard
  <2> QED
    BY <1>3, <2>1, <2>2
<1>4. CASE wanted = Gate /\ pc[t] \in WantsGate
  <2>1. ~ \E s \in Shard : writer[s] = t
    BY <1>4 DEF WantsGate, MapFits, InShard
  <2> QED
    BY <1>4, <2>1
<1>5. CASE wanted = Readers
  BY <1>5
<1> QED
  BY <1>1, <1>2, <1>3, <1>4, <1>5 DEF Wants

\* The locks are taken in one order, by any number of goroutines, for any
\* number of plugins and shards: without IterCb they cannot deadlock.
THEOREM OrderKeptHolds == Spec => []OrderKept
<1>1. IInv => OrderKept
  BY HeldBefore DEF OrderKept
<1> QED
  BY <1>1, Inductive, PTL

-----------------------------------------------------------------------------
(* Heartbeat only ever stops plugins, and holds a shard while it does.     *)
StopLabel == {"get", "lock", "post", "unlock"}

BeatFits ==
  /\ pc[Heartbeat] \in StopLabel \cup {"idle", "iterate", "dead"}
  /\ pc[Heartbeat] \in StopLabel => op[Heartbeat] = "stop"
  /\ iterating # None => pc[Heartbeat] # "idle"

(* The program ends for all its goroutines at once.                        *)
EndsTogether ==
  \A t, u \in Thread : pc[t] = "dead" => pc[u] = "dead"

Beat == BeatFits /\ EndsTogether

\* An operation's step moves one goroutine, to an end of the program only with
\* all the others, and leaves IterCb alone.
LEMMA OneMoves ==
  ASSUME IInv, NEW t \in Thread, Operation(t)
  PROVE  /\ iterating' = iterating /\ pc[t] \notin {"dead", "idle", "iterate"}
         /\ \/ Fatal(t) /\ op' = op
            \/ /\ OthersKept(t)
               /\ pc'[t] # "dead"
<1> USE DEF Goto, locks, locals, OthersKept, IInv, TypeOK
<1>1. CASE Get(t)
  BY <1>1 DEF Get, Found, NotFound, Home
<1>2. CASE Lock(t)
  BY <1>2 DEF Lock, Locked
<1>3. CASE Check(t)
  BY <1>3 DEF Check, Return, Home
<1>4. CASE Post(t)
  BY <1>4 DEF Post
<1>5. CASE UnlockOld(t)
  BY <1>5 DEF UnlockOld, Fatal, Return, Home, Call
<1>6. CASE TakeGlobal(t)
  BY <1>6 DEF TakeGlobal
<1>7. CASE AskShard(t)
  BY <1>7 DEF AskShard
<1>8. CASE Remove(t)
  BY <1>8 DEF Remove
<1>9. CASE Snapped(t)
  BY <1>9 DEF Snapped
<1>10. CASE Find(t)
  BY <1>10 DEF Find
<1>11. CASE Set(t)
  BY <1>11 DEF Set
<1>12. CASE LockNew(t)
  BY <1>12 DEF LockNew
<1>13. CASE PostNew(t)
  BY <1>13 DEF PostNew
<1>14. CASE UnlockNew(t)
  BY <1>14 DEF UnlockNew, Fatal, Return, Home, Call
<1> QED
  BY <1>1, <1>2, <1>3, <1>4, <1>5, <1>6, <1>7, <1>8, <1>9, <1>10, <1>11, <1>12, <1>13,
     <1>14 DEF Operation

\* Heartbeat's own operation is StopPlugin: it looks the plugin up, locks its
\* record, and unlocks it.
LEMMA BeatMoves ==
  ASSUME IInv, Beat, Operation(Heartbeat), ~Fatal(Heartbeat)
  PROVE  /\ pc'[Heartbeat] \in StopLabel \cup {"iterate"}
         /\ op'[Heartbeat] = op[Heartbeat]
<1>1. Heartbeat \in Thread
  BY DEF Thread
<1>2. pc[Heartbeat] \in StopLabel /\ op[Heartbeat] = "stop"
  BY <1>1, OneMoves DEF Beat, BeatFits
<1> USE <1>1, <1>2 DEF Goto, locals, StopLabel, IInv, TypeOK
<1>3. CASE Get(Heartbeat)
  BY <1>3 DEF Get, Found, NotFound, Home
<1>4. CASE Lock(Heartbeat)
  BY <1>4 DEF Lock, Locked
<1>5. CASE Post(Heartbeat)
  BY <1>5 DEF Post
<1>6. CASE UnlockOld(Heartbeat)
  BY <1>6 DEF UnlockOld, Return, Home
<1>7. Get(Heartbeat) \/ Lock(Heartbeat) \/ Post(Heartbeat) \/ UnlockOld(Heartbeat)
  BY DEF Operation, Check, TakeGlobal, AskShard, Remove, Snapped, Find, Set, LockNew,
         PostNew, UnlockNew
<1> QED
  BY <1>3, <1>4, <1>5, <1>6, <1>7

\* No step makes heartbeat leave IterCb with the shard still held, or one
\* goroutine outlive another.
LEMMA BeatKept ==
  ASSUME IInv, Beat, [Next]_vars PROVE Beat'
<1>0. Heartbeat \in Thread /\ Worker \subseteq Thread /\ Heartbeat \notin Worker
  BY NameAssumption DEF Thread
<1>1. CASE \E t \in Worker : Request(t)
  BY <1>0, <1>1 DEF Request, Goto, Call, locks, Beat, BeatFits, EndsTogether, IInv, TypeOK
<1>2. CASE \E t \in Thread : Operation(t)
  <2>1. PICK t \in Thread : Operation(t)
    BY <1>2
  <2>2. CASE Fatal(t)
    BY <1>0, <2>1, <2>2, OneMoves DEF Fatal, Beat, BeatFits, EndsTogether, StopLabel
  <2>3. CASE ~Fatal(t)
    <3>1. /\ iterating' = iterating /\ pc[t] \notin {"dead", "idle", "iterate"}
          /\ OthersKept(t) /\ pc'[t] # "dead"
      BY <2>1, <2>3, OneMoves
    <3>2. EndsTogether'
      BY <3>1 DEF Beat, EndsTogether, OthersKept
    <3>3. BeatFits'
      <4>1. CASE t = Heartbeat
        BY <2>1, <2>3, <3>1, <4>1, BeatMoves DEF Beat, BeatFits, StopLabel
      <4>2. CASE t # Heartbeat
        BY <1>0, <3>1, <4>2 DEF Beat, BeatFits, OthersKept
      <4> QED BY <4>1, <4>2
    <3> QED BY <3>2, <3>3 DEF Beat
  <2> QED BY <2>2, <2>3
<1>3. CASE Iterate \/ AutoExit \/ Iterated
  BY <1>0, <1>3
     DEF Iterate, AutoExit, Iterated, Goto, Call, locks, locals, Beat, BeatFits,
         EndsTogether, StopLabel, IInv, TypeOK
<1>4. CASE UNCHANGED vars
  BY <1>4 DEF vars, Beat, BeatFits, EndsTogether
<1> QED BY <1>1, <1>2, <1>3, <1>4 DEF Next

\* While heartbeat iterates it stops plugins or goes on to the next.
LEMMA BeatInvariant == Spec => []Beat
<1>1. Init => Beat
  BY NameAssumption DEF Init, Beat, BeatFits, EndsTogether, Thread, StopLabel
<1>2. IInv /\ Beat /\ [Next]_vars => Beat'
  BY BeatKept
<1> QED
  BY <1>1, <1>2, Inductive, PTL DEF Spec

\* A non-empty set of numbers below a bound has a greatest member.
LEMMA Greatest ==
  ASSUME NEW n \in Nat, NEW S \in SUBSET (0 .. n), S # {}
  PROVE  \E x \in S : \A y \in S : y <= x
<1> DEFINE T == {n - x : x \in S}
<1>1. T \subseteq Nat /\ T # {}
  <2>1. PICK x \in S : TRUE
    OBVIOUS
  <2>2. n - x \in T
    BY <2>1
  <2>3. \A y \in S : n - y \in Nat
    OBVIOUS
  <2> QED BY <2>2, <2>3
<1>2. PICK d \in T : \A e \in T : ~(<<e, d>> \in OpToRel(<, Nat))
  BY <1>1, WFMin, NatLessThanWellFounded
<1>3. \A e \in T : ~(e < d)
  BY <1>1, <1>2 DEF OpToRel
<1>4. PICK x \in S : d = n - x
  OBVIOUS
<1>5. \A y \in S : y <= x
  <2> SUFFICES ASSUME NEW y \in S PROVE y <= x
    OBVIOUS
  <2>1. n - y \in T /\ ~(n - y < d)
    BY <1>3
  <2> QED BY <1>4, <2>1
<1> QED BY <1>5

(* Everybody waits, and neither excuse of StuckOnlyInExit is there.        *)
StuckElsewhere ==
  /\ Busy # {} /\ \A t \in Busy : Blocked(t)
  /\ \A r \in Record : mutex[r] # Gone
  /\ ~ \E t \in Worker : pc[t] \in InShard /\ iterating = Shd(t) /\ Heartbeat \in Busy

\* If everybody waits elsewhere than behind the automatic exit, nobody waits
\* for a shard or for globalLock: their holders are on their way.
LEMMA OnlyRecords ==
  ASSUME IInv, Beat, StuckElsewhere, NEW t \in Busy
  PROVE  pc[t] \in {"lock", "lockNew"} /\ mutex[rec[t]] \in Thread
<1> USE NotThreads, NameAssumption
<1>1. \A u \in Thread : pc[u] # "dead"
  BY DEF StuckElsewhere, Busy, Beat, EndsTogether
<1>2. \A u \in Thread : pc[u] \notin InShard
  <2> SUFFICES ASSUME NEW u \in Thread, pc[u] \in InShard PROVE FALSE
    OBVIOUS
  <2>1. u \in Busy /\ iterating = Shd(u)
    BY DEF Busy, InShard, StuckElsewhere, Blocked, WantsGlobal, WantsGate
  <2>2. iterating # None
    BY <2>1 DEF Shd, IInv, TypeOK
  <2>3. Heartbeat \in Busy
    BY <1>1, <2>2 DEF Beat, BeatFits, Busy, Thread
  <2>4. u \in Worker
    BY DEF Thread, Beat, BeatFits, StopLabel, InShard
  <2> QED BY <2>1, <2>3, <2>4 DEF StuckElsewhere
<1>3. \A s \in Shard : writer[s] = None
  BY <1>1, <1>2 DEF IInv, TypeOK, Fits, MapFits
<1>4. \A u \in Thread : pc[u] \notin WantsGate
  <2> SUFFICES ASSUME NEW u \in Thread, pc[u] \in WantsGate PROVE FALSE
    OBVIOUS
  <2>1. Blocked(u)
    BY DEF Busy, WantsGate, StuckElsewhere
  <2>2. Shd(u) \in Shard
    BY DEF Shd, IInv, TypeOK
  <2> QED BY <1>3, <2>1, <2>2 DEF Blocked, Readable, WantsGate, WantsGlobal, InShard
<1>5. globalLock = None
  <2> SUFFICES ASSUME globalLock \in Thread PROVE FALSE
    BY DEF IInv, TypeOK
  <2>1. pc[globalLock] \in InGlobal
    BY <1>1 DEF IInv, Fits, MapFits
  <2> QED BY <1>2, <1>4, <2>1, Labels DEF WantsGate, InShard
<1>6. t \in Thread /\ Blocked(t)
  BY DEF Busy, StuckElsewhere
<1>7. pc[t] \in {"lock", "lockNew"} /\ mutex[rec[t]] # None
  BY <1>2, <1>4, <1>5, <1>6 DEF Blocked
<1>8. rec[t] \in Record
  BY <1>6, <1>7, BoundAssumption
     DEF IInv, TypeOK, Fits, HandFits, WithRecord, Record
<1> QED BY <1>7, <1>8 DEF StuckElsewhere, IInv, TypeOK

\* ... and the holder of the record somebody waits for waits for a newer one.
LEMMA HolderWaits ==
  ASSUME IInv, Beat, StuckElsewhere, NEW t \in Busy
  PROVE  \E u \in Busy : rec[t] < rec[u]
<1>1. pc[t] \in {"lock", "lockNew"} /\ mutex[rec[t]] \in Thread /\ t \in Thread
  BY OnlyRecords DEF Busy
<1>2. rec[t] \in Record
  BY <1>1, BoundAssumption DEF IInv, TypeOK, Fits, HandFits, WithRecord, Record
<1>3. PICK u \in Thread : mutex[rec[t]] = u
  BY <1>1
<1>4. RecordsFit(u)
  BY <1>3 DEF IInv, Fits
<1>5. u \in Busy
  BY <1>2, <1>3, <1>4
     DEF RecordsFit, Empty, Busy, StuckElsewhere, Beat, EndsTogether
<1>6. pc[u] = "lockNew"
  BY <1>2, <1>3, <1>4, <1>5, OnlyRecords DEF RecordsFit, Empty
<1>7. rec[t] < rec[u]
  BY <1>2, <1>3, <1>4, <1>6 DEF RecordsFit, NotInHand
<1> QED BY <1>5, <1>7

\* Of the goroutines that wait, one would have to wait for the holder of a
\* newer record than any.
LEMMA NeverElsewhere ==
  ASSUME IInv, Beat PROVE ~StuckElsewhere
<1> SUFFICES ASSUME StuckElsewhere PROVE FALSE
  OBVIOUS
<1> DEFINE Hands == {rec[t] : t \in Busy}
<1>1. Hands \in SUBSET (0 .. MaxRecord)
  BY BoundAssumption DEF Busy, IInv, TypeOK
<1>2. Hands # {}
  BY DEF StuckElsewhere
<1>3. PICK x \in Hands : \A y \in Hands : y <= x
  BY <1>1, <1>2, Greatest, BoundAssumption
<1>4. PICK t \in Busy : x = rec[t]
  OBVIOUS
<1>5. PICK u \in Busy : rec[t] < rec[u]
  BY HolderWaits
<1>6. rec[u] \in Hands /\ rec[u] \in Int /\ rec[t] \in Int
  BY <1>1, <1>4, <1>5
<1> QED BY <1>3, <1>4, <1>5, <1>6

\* Goroutines block each other for good only behind a mutex left locked or
\* behind the automatic exit, for any number of plugins, shards, goroutines and
\* records.
THEOREM StuckOnlyInExitHolds == Spec => []StuckOnlyInExit
<1>1. IInv /\ Beat => StuckOnlyInExit
  BY NeverElsewhere DEF StuckElsewhere, StuckOnlyInExit
<1> QED
  BY <1>1, Inductive, BeatInvariant, PTL
===============================================================================
