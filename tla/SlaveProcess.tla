----------------------------- MODULE SlaveProcess -----------------------------
(***************************************************************************)
(* A plugin's child process: plugin/slave, and the goroutine of run() that *)
(* waits for it to exit.                                                   *)
(***************************************************************************)
EXTENDS PluginState

SetState(p, s) == proc' = [proc EXCEPT ![p].state = s]

(* Start: read the manifest beside the executable, listen, and post it to  *)
(* the master, where a goroutine begins to serve the request. Without a    *)
(* manifest or a master the child panics.                                  *)
SlaveStart(p) ==
  /\ proc[p].state = "launched"
  /\ \/ /\ disk # 0 /\ up
        /\ proc' = [proc EXCEPT ![p] =
                       [@ EXCEPT !.state = "registering", !.ver = disk]]
        /\ Goto(p, "regCheck")
     \/ /\ disk = 0 \/ ~up
        /\ SetState(p, "dead")
        /\ UNCHANGED <<pc, loc>>
  /\ UNCHANGED <<record, traffic, store, up>>

(* Mutant of SlaveHeartbeat: any answer will do.                           *)
SlaveHeartbeatAnswered(p) ==
  /\ proc[p].state \in {"registering", "serving"}
  /\ ~up
  /\ SetState(p, "dead")
  /\ UNCHANGED <<record, traffic, store, up, pc, loc>>

(* The registration is answered: http.Serve.                               *)
SlaveServe(p) ==
  /\ proc[p].state = "registering"
  /\ pc[p] = "idle" /\ up
  /\ SetState(p, "serving")
  /\ UNCHANGED <<record, traffic, store, up, pc, loc>>

(* heartbeat: a ping that does not reach the master ends the child, and so *)
(* does a registration that gets no answer. An orphan is answered, with a  *)
(* 401, since it has the token of the master before.                       *)
SlaveHeartbeat(p) ==
  /\ \/ proc[p].state \in {"registering", "serving"} /\ ~up
     \/ proc[p].state = "orphan"
  /\ SetState(p, "dead")
  /\ UNCHANGED <<record, traffic, store, up, pc, loc>>

(* The child ends on its own.                                              *)
SlaveExit(p) ==
  /\ "crash" \in Events
  /\ Alive(p)
  /\ SetState(p, "dead")
  /\ UNCHANGED <<record, traffic, store, up, pc, loc>>

(* The goroutine ends, and what it captured with it.                       *)
Reaped(p) ==
  proc' = [proc EXCEPT ![p] =
             [@ EXCEPT !.reap = "done", !.cap = None, !.obj = None]]

(* cmd.Wait returned: the goroutine compares the endpoint it captured at   *)
(* the launch with the record's ...                                        *)
ReapMatch(p) ==
  /\ up
  /\ proc[p].state = "dead" /\ proc[p].reap = "wait"
  /\ \/ /\ info[proc[p].obj].endpoint = proc[p].cap
        /\ proc' = [proc EXCEPT ![p].reap = "match"]
     \/ /\ info[proc[p].obj].endpoint # proc[p].cap
        /\ Reaped(p)
  /\ UNCHANGED <<record, traffic, store, up, pc, loc>>

(* ... and writes the status, without the record's lock.                   *)
ReapWrite(p) ==
  /\ up
  /\ proc[p].reap = "match"
  /\ Reaped(p)
  /\ SetStatus(proc[p].obj, "NotStarted")
  /\ UNCHANGED <<pmap, lock, traffic, store, up, pc, loc>>

Slave(p) ==
  SlaveStart(p) \/ SlaveServe(p) \/ SlaveHeartbeat(p) \/ SlaveExit(p)

Reaper(p) == ReapMatch(p) \/ ReapWrite(p)
=============================================================================
