-------------------------------- MODULE Master --------------------------------
(***************************************************************************)
(* The master: its HTTP handlers, its goroutines and the children of one   *)
(* plugin, composed. Every request runs in a goroutine of its own, so any  *)
(* of them may take the next step.                                         *)
(***************************************************************************)
EXTENDS PluginInstall, PluginProxy

(* Start: the records of the plugins found on disk exist before the first  *)
(* request; a plugin that is not installed has none.                       *)
Loaded(r) ==
  [o \in Obj |-> IF o = r
                 THEN [status |-> "NotStarted", endpoint |-> None,
                       version |-> disk]
                 ELSE NoInfo]

Init ==
  /\ disk \in {0, 1}
  /\ pmap \in Obj \cup {None}
  /\ pmap = None <=> disk = 0
  /\ info = Loaded(pmap)
  /\ lock = [o \in Obj |-> None]
  /\ conns = [o \in Obj |-> 0]
  /\ lastConn = [o \in Obj |-> 0]
  /\ clock = AutoExitTimeLimit
  /\ published = 1
  /\ cached = 0
  /\ proc = [p \in Proc |-> NoProc]
  /\ up = TRUE
  /\ pc = [t \in Thread |-> "idle"]
  /\ loc = [t \in Thread |-> NoLocals]

FirstLabel ==
  [start |-> "startGet", stop |-> "stopGet", restart |-> "stopGet",
   checkUpdate |-> "check", uninstall |-> "uninstGet", proxy |-> "proxyEnter"]

(* ServeHTTP: a request for one of the operations arrives.                 *)
Call(t) ==
  /\ pc[t] = "idle"
  /\ \E op \in Calls[t] :
       LET o == IF op \in {"restart", "uninstall"} THEN op ELSE "none"
       IN  Move(t, FirstLabel[op], [loc[t] EXCEPT !.op = o])
  /\ UNCHANGED <<record, traffic, store, proc, up>>

(* The master's process ends, and every goroutine with it.                 *)
MasterDies ==
  /\ "masterDies" \in Events
  /\ up
  /\ up' = FALSE
  /\ UNCHANGED <<record, traffic, store, proc, pc, loc>>

(* A child's memory of its master is the token it was started with: one    *)
(* that is left over is refused by the next master, unless they all have   *)
(* the token of debug mode; one whose registration was cut off ends in any *)
(* case.                                                                   *)
LeftOver(p) ==
  CASE ~Alive(p)                                      -> proc[p].state
    [] Debug /\ proc[p].state # "registering"         -> proc[p].state
    [] OTHER                                          -> "orphan"

Forgotten(p) == [NoProc EXCEPT !.state = LeftOver(p), !.reap = "done"]

(* The master is started again: nothing is left of its records but what is *)
(* on disk, and nobody waits for the children.                             *)
MasterRestarts ==
  /\ "restart" \in Events
  /\ ~up
  /\ up' = TRUE
  /\ pmap' \in Obj \cup {None}
  /\ pmap' = None <=> disk = 0
  /\ info' = Loaded(pmap')
  /\ lock' = [o \in Obj |-> None]
  /\ conns' = [o \in Obj |-> 0]
  /\ lastConn' = [o \in Obj |-> 0]
  /\ cached' = 0
  /\ proc' = [p \in Proc |-> Forgotten(p)]
  /\ pc' = [t \in Thread |-> "idle"]
  /\ loc' = [t \in Thread |-> NoLocals]
  /\ UNCHANGED <<clock, disk, published>>

(* One more step of a goroutine inside a handler.                          *)
Step(t) ==
  up /\ (Start(t) \/ Stop(t) \/ Update(t) \/ WaitStop(t) \/ Uninstall(t)
           \/ Proxy(t))

Request(t) == up /\ Call(t)

Registering(p) == up /\ Register(p)

InBackground == up /\ Background

Environment == Publish \/ Tick \/ MasterDies \/ MasterRestarts

Next ==
  \/ \E t \in Thread : Step(t)
  \/ \E t \in Client : Request(t)
  \/ \E p \in Proc : Registering(p) \/ Slave(p) \/ Reaper(p)
  \/ InBackground
  \/ Environment

Spec == Init /\ [][Next]_vars
=============================================================================
