------------------------------ MODULE MasterLocks ------------------------------
(***************************************************************************)
(* The locks of package master, for several plugins: each record's mutex,  *)
(* globalLock, and the reader-writer locks of pluginMap's shards. Only     *)
(* what takes, holds and gives back a lock is kept of the operations;      *)
(* Master has the rest.                                                    *)
(*                                                                         *)
(* A shard's lock lets readers in together, unless a writer has asked for  *)
(* it, and the writer in when the readers are out. Get holds it for a      *)
(* moment, IterCb while it calls back.                                     *)
(***************************************************************************)
EXTENDS Integers, FiniteSets

CONSTANTS
  Plugin,      (* plugin identifiers                                        *)
  Shard,       (* shards of pluginMap                                       *)
  ShardOf,     (* the shard an identifier falls in                          *)
  Worker,      (* goroutines that serve requests, ping, and stop on signals *)
  Heartbeat,   (* the goroutine of heartbeat                                *)
  None,        (* no record, no goroutine, no plugin, no shard              *)
  Gone,        (* a goroutine that has returned with a mutex locked         *)
  MaxRecord    (* bound: records made                                       *)

ASSUME NameAssumption ==
  /\ ShardOf \in [Plugin -> Shard]
  /\ None \notin Plugin \cup Shard
  /\ Heartbeat \notin Worker
  /\ {None, Gone} \cap (Worker \cup {Heartbeat}) = {} /\ None # Gone

ASSUME BoundAssumption == MaxRecord \in Nat

Thread == Worker \cup {Heartbeat}

(* Records are numbered in the order in which initManifest makes them; 0   *)
(* is no record.                                                           *)
Record == 1 .. MaxRecord

VARIABLES
  entry,      (* pluginMap                                                  *)
  made,       (* number of records made                                     *)
  mutex,      (* the goroutine that holds each record's lock                *)
  globalLock, (* the goroutine that holds it                                *)
  writer,     (* the goroutine that has asked for a shard's write lock      *)
  iterating,  (* the shard heartbeat holds in IterCb                        *)
  pc,         (* where each goroutine is                                    *)
  op,         (* the operation it is in                                     *)
  plug,       (* the plugin it is about                                     *)
  rec         (* the record in its hands                                    *)

locks == <<mutex, globalLock, writer, iterating>>
locals == <<op, plug, rec>>
vars == <<entry, made, mutex, globalLock, writer, iterating, pc, op, plug, rec>>

(* "look" only reads the map; "wait" is the end of CheckUpdate.            *)
Op == {"look", "stop", "restart", "start", "register", "update", "wait", "uninstall"}

OldLabel == {"check", "post", "unlock", "global", "remove", "removed"}
NewLabel == {"postNew", "unlockNew"}
MapLabel == {"snapped", "find", "set", "write"}

(* rec's mutex is held; globalLock is held; a shard's write lock is.       *)
InRecord == OldLabel \cup NewLabel
InGlobal == MapLabel \cup {"remove", "removed"}
InShard  == {"write", "removed"}

Label ==
  InRecord \cup InGlobal \cup
    {"idle", "dead", "iterate", "get", "lock", "snap", "init", "lockNew"}

TypeOK ==
  /\ made \in 0 .. MaxRecord
  /\ entry \in [Plugin -> 0 .. made]
  /\ mutex \in [Record -> Thread \cup {None, Gone}]
  /\ globalLock \in Thread \cup {None}
  /\ writer \in [Shard -> Thread \cup {None}]
  /\ iterating \in Shard \cup {None}
  /\ pc \in [Thread -> Label]
  /\ op \in [Thread -> Op]
  /\ plug \in [Thread -> Plugin]
  /\ rec \in [Thread -> 0 .. made]

-----------------------------------------------------------------------------
Goto(t, l) == pc' = [pc EXCEPT ![t] = l]

Call(t, o) == op' = [op EXCEPT ![t] = o]

Shd(t) == ShardOf[plug[t]]

(* A reader gets in.                                                       *)
Readable(t) == writer[Shd(t)] = None

(* The operation is over: its goroutine ends, or goes on in IterCb.        *)
Home(t) == IF t = Heartbeat THEN "iterate" ELSE "idle"

(* A mutex that is not given back by then is locked for good.              *)
Return(t, m) ==
  /\ Goto(t, Home(t))
  /\ mutex' = [r \in Record |-> IF m[r] = t THEN Gone ELSE m[r]]

Unlocked(t) == [mutex EXCEPT ![rec[t]] = None]

(* Unlock of a free mutex ends the program.                                *)
Fatal(t) ==
  /\ mutex[rec[t]] = None
  /\ pc' = [u \in Thread |-> "dead"]
  /\ UNCHANGED <<mutex, op>>

(***************************************************************************)
(* A request arrives, and looks for its plugin.                            *)
(***************************************************************************)
Init ==
  /\ entry = [p \in Plugin |-> 0]
  /\ made = 0
  /\ mutex = [r \in Record |-> None]
  /\ globalLock = None
  /\ writer = [s \in Shard |-> None]
  /\ iterating = None
  /\ pc = [t \in Thread |-> "idle"]
  /\ op = [t \in Thread |-> "look"]
  /\ plug \in [Thread -> Plugin]
  /\ rec = [t \in Thread |-> 0]

Request(t) ==
  /\ pc[t] = "idle"
  /\ \E o \in Op \ {"wait"} : Call(t, o)
  /\ \E p \in Plugin : plug' = [plug EXCEPT ![t] = p]
  /\ rec' = [rec EXCEPT ![t] = 0]
  /\ Goto(t, "get")
  /\ UNCHANGED <<entry, made, locks>>

(* What is done with a record that is there: register stops a plugin that  *)
(* runs, CheckUpdate installs a version that is newer.                     *)
Found(t) ==
  CASE op[t] = "look"     -> {Home(t)}
    [] op[t] = "register" -> {"lock", "init"}
    [] op[t] = "update"   -> {"lock", "snap"}
    [] OTHER              -> {"lock"}

(* RestartPlugin looks once more, in StartPlugin, and so does the          *)
(* registration, in StopPlugin, for a record it has found: the two         *)
(* look-ups are one here.                                                  *)
NotFound(t) ==
  CASE op[t] \in {"restart", "start", "register"} -> "init"
    [] op[t] = "update"                           -> "snap"
    [] OTHER                                      -> Home(t)

Get(t) ==
  /\ pc[t] = "get"
  /\ Readable(t)
  /\ \/ entry[plug[t]] # 0 /\ \E l \in Found(t) : Goto(t, l)
     \/ entry[plug[t]] = 0 /\ Goto(t, NotFound(t))
  /\ rec' = [rec EXCEPT ![t] = entry[plug[t]]]
  /\ UNCHANGED <<entry, made, locks, op, plug>>

(***************************************************************************)
(* With the record's lock                                                  *)
(***************************************************************************)
Locked(t) ==
  CASE op[t] = "start"              -> "check"
    [] op[t] \in {"update", "wait"} -> "unlock"
    [] OTHER                        -> "post"

Lock(t) ==
  /\ pc[t] = "lock"
  /\ mutex[rec[t]] = None
  /\ mutex' = [mutex EXCEPT ![rec[t]] = t]
  /\ Goto(t, Locked(t))
  /\ UNCHANGED <<entry, made, globalLock, writer, iterating, locals>>

(* StartPlugin reads the map again, into the variable it unlocks: without  *)
(* a record it panics.                                                     *)
Check(t) ==
  /\ pc[t] = "check"
  /\ Readable(t)
  /\ rec' = [rec EXCEPT ![t] = entry[plug[t]]]
  /\ \/ /\ entry[plug[t]] = 0
        /\ Return(t, mutex)
     \/ /\ entry[plug[t]] # 0
        /\ \E l \in {"post", "unlock"} : Goto(t, l)
        /\ UNCHANGED mutex
  /\ UNCHANGED <<entry, made, globalLock, writer, iterating, op, plug>>

(* The bound: there will be a record for each plugin that needs one.       *)
Spare ==
  made + Cardinality({p \in Plugin : entry[p] = 0})
       + Cardinality({t \in Thread : pc[t] \in {"global", "remove", "removed"}})
    < MaxRecord

(* Post's Get. The request to the child that follows, with the record's    *)
(* lock held, ends here; Master has the one that does not (Wedged). After  *)
(* it an uninstallation removes the files, or fails to.                    *)
Post(t) ==
  /\ pc[t] = "post"
  /\ Readable(t)
  /\ \/ Goto(t, "unlock")
     \/ op[t] = "uninstall" /\ Spare /\ Goto(t, "global")
  /\ UNCHANGED <<entry, made, locks, locals>>

(* What follows the first locked section.                                  *)
UnlockOld(t) ==
  /\ pc[t] = "unlock"
  /\ \/ Fatal(t)
     \/ /\ mutex[rec[t]] # None
        /\ op[t] \in {"start", "register"}
        /\ mutex' = Unlocked(t)
        /\ Goto(t, "init")
        /\ UNCHANGED op
     \/ /\ mutex[rec[t]] # None
        /\ op[t] = "restart"
        /\ mutex' = Unlocked(t)
        /\ Call(t, "start") /\ Goto(t, "get")
     \/ /\ mutex[rec[t]] # None
        /\ op[t] \notin {"register", "restart"}
        /\ Return(t, Unlocked(t))
        /\ UNCHANGED op
  /\ UNCHANGED <<entry, made, globalLock, writer, iterating, plug, rec>>

(* UninstallPlugin takes globalLock and removes the record ...             *)
TakeGlobal(t) ==
  /\ \/ pc[t] = "global" /\ Goto(t, "remove")
     \/ pc[t] = "snap" /\ Goto(t, "snapped")
     \/ pc[t] = "init" /\ Goto(t, "find")
  /\ globalLock = None
  /\ globalLock' = t
  /\ UNCHANGED <<entry, made, mutex, writer, iterating, locals>>

AskShard(t) ==
  /\ \/ pc[t] = "remove" /\ Goto(t, "removed")
     \/ pc[t] = "set" /\ Goto(t, "write")
  /\ Readable(t)
  /\ writer' = [writer EXCEPT ![Shd(t)] = t]
  /\ UNCHANGED <<entry, made, mutex, globalLock, iterating, locals>>

(* ... and gives back both.                                                *)
Remove(t) ==
  /\ pc[t] = "removed"
  /\ iterating # Shd(t)
  /\ entry' = [entry EXCEPT ![plug[t]] = 0]
  /\ writer' = [writer EXCEPT ![Shd(t)] = None]
  /\ globalLock' = None
  /\ Goto(t, "unlock")
  /\ UNCHANGED <<made, mutex, iterating, locals>>

(***************************************************************************)
(* initManifest, and InstallPlugin's look at the record before it          *)
(***************************************************************************)
Snapped(t) ==
  /\ pc[t] = "snapped"
  /\ Readable(t)
  /\ globalLock' = None
  /\ Goto(t, "init")
  /\ UNCHANGED <<entry, made, mutex, writer, iterating, locals>>

(* Mutant of Find: the early return keeps globalLock.                      *)
FindKeeps(t) ==
  /\ pc[t] = "find"
  /\ Readable(t)
  /\ \/ /\ entry[plug[t]] # 0
        /\ rec' = [rec EXCEPT ![t] = entry[plug[t]]]
        /\ Goto(t, "lockNew")
     \/ /\ entry[plug[t]] = 0
        /\ Goto(t, "set")
        /\ UNCHANGED rec
  /\ UNCHANGED <<entry, made, locks, op, plug>>

Find(t) ==
  /\ pc[t] = "find"
  /\ Readable(t)
  /\ \/ /\ entry[plug[t]] # 0
        /\ rec' = [rec EXCEPT ![t] = entry[plug[t]]]
        /\ globalLock' = None
        /\ Goto(t, "lockNew")
     \/ /\ entry[plug[t]] = 0
        /\ Goto(t, "set")
        /\ UNCHANGED <<rec, globalLock>>
  /\ UNCHANGED <<entry, made, mutex, writer, iterating, op, plug>>

Set(t) ==
  /\ pc[t] = "write"
  /\ iterating # Shd(t)
  /\ made < MaxRecord
  /\ made' = made + 1
  /\ entry' = [entry EXCEPT ![plug[t]] = made + 1]
  /\ rec' = [rec EXCEPT ![t] = made + 1]
  /\ writer' = [writer EXCEPT ![Shd(t)] = None]
  /\ globalLock' = None
  /\ Goto(t, "lockNew")
  /\ UNCHANGED <<mutex, iterating, op, plug>>

LockNew(t) ==
  /\ pc[t] = "lockNew"
  /\ mutex[rec[t]] = None
  /\ mutex' = [mutex EXCEPT ![rec[t]] = t]
  /\ Goto(t, IF op[t] = "update" THEN "postNew" ELSE "unlockNew")
  /\ UNCHANGED <<entry, made, globalLock, writer, iterating, locals>>

PostNew(t) ==
  /\ pc[t] = "postNew"
  /\ Readable(t)
  /\ Goto(t, "unlockNew")
  /\ UNCHANGED <<entry, made, locks, locals>>

(* An installation is followed by the wait for the others.                 *)
UnlockNew(t) ==
  /\ pc[t] = "unlockNew"
  /\ \/ Fatal(t)
     \/ /\ mutex[rec[t]] # None
        /\ \/ /\ op[t] = "update"
              /\ mutex' = Unlocked(t)
              /\ Call(t, "wait") /\ Goto(t, "get")
           \/ /\ op[t] # "update"
              /\ Return(t, Unlocked(t))
              /\ UNCHANGED op
  /\ UNCHANGED <<entry, made, globalLock, writer, iterating, plug, rec>>

Operation(t) ==
  \/ Get(t) \/ Lock(t) \/ Check(t) \/ Post(t) \/ UnlockOld(t)
  \/ TakeGlobal(t) \/ AskShard(t) \/ Remove(t)
  \/ Snapped(t) \/ Find(t) \/ Set(t) \/ LockNew(t) \/ PostNew(t) \/ UnlockNew(t)

(***************************************************************************)
(* heartbeat: the automatic exit stops plugins inside IterCb.              *)
(***************************************************************************)
Iterate ==
  /\ pc[Heartbeat] = "idle"
  /\ \E s \in Shard :
       /\ writer[s] = None
       /\ iterating' = s
  /\ Goto(Heartbeat, "iterate")
  /\ UNCHANGED <<entry, made, mutex, globalLock, writer, locals>>

AutoExit ==
  /\ pc[Heartbeat] = "iterate"
  /\ \E p \in Plugin :
       /\ ShardOf[p] = iterating /\ entry[p] # 0
       /\ plug' = [plug EXCEPT ![Heartbeat] = p]
  /\ rec' = [rec EXCEPT ![Heartbeat] = 0]
  /\ Call(Heartbeat, "stop")
  /\ Goto(Heartbeat, "get")
  /\ UNCHANGED <<entry, made, locks>>

Iterated ==
  /\ pc[Heartbeat] = "iterate"
  /\ iterating' = None
  /\ Goto(Heartbeat, "idle")
  /\ UNCHANGED <<entry, made, mutex, globalLock, writer, locals>>

Next ==
  \/ \E t \in Worker : Request(t)
  \/ \E t \in Thread : Operation(t)
  \/ Iterate \/ AutoExit \/ Iterated

Spec == Init /\ [][Next]_vars

-----------------------------------------------------------------------------
(* What a goroutine holds and what it waits for, as numbers in the order   *)
(* in which locks may be taken: older records' locks before newer ones',   *)
(* then globalLock, then a shard's, whose writer waits for the readers.    *)
Global  == MaxRecord + 1
Gate    == MaxRecord + 2
Readers == MaxRecord + 3

Holds(t) ==
  {r \in Record : mutex[r] = t}
    \cup {g \in {Global} : globalLock = t}
    \cup {g \in {Gate} : \E s \in Shard : writer[s] = t}

WantsGlobal == {"global", "snap", "init"}
WantsGate ==
  {"get", "check", "post", "postNew", "snapped", "find", "set", "remove"}

Wants(t) ==
  {r \in {rec[t]} : pc[t] \in {"lock", "lockNew"}}
    \cup {g \in {Global} : pc[t] \in WantsGlobal}
    \cup {g \in {Gate} : pc[t] \in WantsGate}
    \cup {g \in {Readers} : pc[t] \in InShard}

Blocked(t) ==
  \/ pc[t] \in {"lock", "lockNew"} /\ mutex[rec[t]] # None
  \/ pc[t] \in WantsGlobal /\ globalLock # None
  \/ pc[t] \in WantsGate /\ ~Readable(t)
  \/ pc[t] \in InShard /\ iterating = Shd(t)

Busy == {t \in Thread : pc[t] \notin {"idle", "dead"}}

\* Whatever the goroutines of any number of plugins do, none waits for a lock
\* that comes before one it holds; the read lock heartbeat holds in IterCb is
\* the one that is left out of the order.
OrderKept == \A t \in Thread : \A held \in Holds(t), wanted \in Wants(t) : held < wanted

\* So goroutines that wait for locks only block each other for good in two ways:
\* one has left a record's mutex locked, or the automatic exit waits, in IterCb,
\* for locks behind which some goroutine waits to write to the shard it iterates
\* over. (A goroutine that waits for a child with a record's mutex locked is
\* MasterProperties!Wedged.)
StuckOnlyInExit ==
  Busy # {} /\ (\A t \in Busy : Blocked(t)) =>
    \/ \E r \in Record : mutex[r] = Gone
    \/ \E t \in Worker : pc[t] \in InShard /\ iterating = Shd(t) /\ Heartbeat \in Busy
===============================================================================
