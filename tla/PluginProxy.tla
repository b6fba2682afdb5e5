----------------------------- MODULE PluginProxy ------------------------------
(***************************************************************************)
(* defaultHandle of controller.go: a request for the plugin is counted,    *)
(* forwarded to the plugin's endpoint, and uncounted. The clock ticks in   *)
(* units of which AutoExitTimeLimit is a number.                           *)
(***************************************************************************)
EXTENDS PluginState

ProxyEnter(t) ==
  /\ pc[t] = "proxyEnter"
  /\ \/ /\ pmap = None
        /\ Return(t)
        /\ UNCHANGED <<conns, lastConn>>
     \/ /\ pmap # None
        /\ lastConn' = [lastConn EXCEPT ![pmap] = clock]
        /\ conns' = [conns EXCEPT ![pmap] = @ + 1]
        /\ Move(t, "proxyRoute", [loc[t] EXCEPT !.cur = pmap])
  /\ UNCHANGED <<record, clock, store, proc, up>>

Uncount(o) == conns' = [conns EXCEPT ![o] = @ - 1]

(* The record is tested without its lock ...                               *)
ProxyRoute(t) ==
  LET i == info[loc[t].cur]
      routed == i.status = "Running" /\ i.endpoint # None
  IN  /\ pc[t] = "proxyRoute"
      /\ \/ /\ routed
            /\ Goto(t, "proxySend")
            /\ UNCHANGED conns
         \/ /\ ~routed
            /\ Uncount(loc[t].cur)
            /\ Return(t)
      /\ UNCHANGED <<record, lastConn, clock, store, proc, up>>

(* ... and its endpoint read again, which may be gone by then.             *)
ProxySend(t) ==
  /\ pc[t] = "proxySend"
  /\ Move(t, "proxyWait", [loc[t] EXCEPT !.tgt = info[loc[t].cur].endpoint])
  /\ UNCHANGED <<record, traffic, store, proc, up>>

(* Mutant of ProxyWait: uncounts the record that is in the map by then.    *)
ProxyWaitLookup(t) ==
  /\ pc[t] = "proxyWait"
  /\ Answers(loc[t].tgt) \/ Refused(loc[t].tgt)
  /\ \/ pmap # None /\ Uncount(pmap)
     \/ pmap = None /\ UNCHANGED conns
  /\ Return(t)
  /\ UNCHANGED <<record, lastConn, clock, store, proc, up>>

(* The forwarded request ends with an answer or because the child is gone. *)
ProxyWait(t) ==
  /\ pc[t] = "proxyWait"
  /\ Answers(loc[t].tgt) \/ Refused(loc[t].tgt)
  /\ Uncount(loc[t].cur)
  /\ Return(t)
  /\ UNCHANGED <<record, lastConn, clock, store, proc, up>>

Tick ==
  /\ clock < MaxClock
  /\ clock' = clock + 1
  /\ UNCHANGED <<record, conns, lastConn, store, proc, up, pc, loc>>

Proxy(t) ==
  ProxyEnter(t) \/ ProxyRoute(t) \/ ProxySend(t) \/ ProxyWait(t)
===============================================================================
