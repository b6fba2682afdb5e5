--------------------------------- MODULE Rpc ----------------------------------
(***************************************************************************)
(* One connection: its goroutines, the application that uses it and the    *)
(* peer at the other end of the WebSocket.                                 *)
(***************************************************************************)
EXTENDS RpcConn

(* NewConn, and StartHandler called once.                                  *)
Init ==
  /\ id = 0
  /\ isClosed = FALSE
  /\ replies = [i \in OwnId |-> NoReply]
  /\ channels = [i \in Id |-> None]
  /\ accepts = <<>>
  /\ notified = 0
  /\ chan = [c \in Chan |-> NoChannel]
  /\ wire = [in |-> "open", out |-> "open"]
  /\ inbox = <<>>
  /\ peer = [data |-> [i \in Id |-> 0], sent |-> 0, told |-> {}]
  /\ heard = [i \in OwnId |-> {}]
  /\ overlapped = {}
  /\ pc = [t \in Thread |-> CASE t = Loop -> "loop"
                              [] t = Ping -> "ping"
                              [] OTHER    -> "idle"]
  /\ loc = [t \in Thread |-> NoLocals]

(***************************************************************************)
(* The application                                                         *)
(***************************************************************************)
FirstLabel ==
  [send |-> "draw", request |-> "draw", open |-> "draw", accept |-> "accept",
   close |-> "clTest", read |-> "read", readTimeout |-> "read",
   closeChan |-> "chTest"]

OnChannel == {"read", "readTimeout", "closeChan"}

(* A Channel that has been returned to the application may be used by any  *)
(* of its goroutines.                                                      *)
Call(u) ==
  /\ pc[u] = "idle"
  /\ \E op \in Calls[u] :
       \/ /\ op \notin OnChannel
          /\ Move(u, FirstLabel[op], [NoLocals EXCEPT !.op = op])
       \/ /\ op \in OnChannel
          /\ \E c \in Chan :
               /\ chan[c].given
               /\ Move(u, FirstLabel[op], [NoLocals EXCEPT !.op = op, !.ch = c])
  /\ UNCHANGED <<senders, tables, chan, link>>

(***************************************************************************)
(* The peer                                                                *)
(***************************************************************************)
Post(p) ==
  /\ wire.in = "open"
  /\ Len(inbox) < MaxFlight
  /\ inbox' = Append(inbox, p)

PeerData(i) ==
  /\ peer.sent < MaxData
  /\ Post(Numbered("data", i, peer.data[i] + 1))
  /\ peer' = [peer EXCEPT !.data[i] = @ + 1, !.sent = @ + 1]

(* It opens or closes a channel, answers, or sends a message of its own.   *)
PeerPosts(k, i) ==
  /\ k \in Events
  /\ Post(Numbered(k, i, 0))
  /\ UNCHANGED peer

PeerSends ==
  /\ \E i \in Id :
       PeerData(i) \/ \E k \in {"open", "close", "message"} : PeerPosts(k, i)
  /\ UNCHANGED <<senders, tables, chan, wire, pc, loc>>

(* A frame that is no packet ends the read loop: nothing the peer sends    *)
(* after it matters.                                                       *)
PeerBye ==
  /\ wire.in = "open"
  /\ wire' = [wire EXCEPT !.in = "bye"]
  /\ \/ "bye" \in Events /\ UNCHANGED inbox
     \/ "garbage" \in Events /\ inbox' = Append(inbox, Numbered("garbage", 0, 0))
  /\ UNCHANGED <<senders, tables, chan, peer, pc, loc>>

(* What was on its way may be lost.                                        *)
Break ==
  /\ "break" \in Events
  /\ wire.in = "open"
  /\ wire' = [in |-> "broken", out |-> IF wire.out = "open" THEN "broken" ELSE "shut"]
  /\ inbox' \in {inbox, <<>>}
  /\ UNCHANGED <<senders, tables, chan, peer, pc, loc>>

Environment == PeerSends \/ PeerBye \/ Break

(***************************************************************************)
(* The specification                                                       *)
(***************************************************************************)
Step(t) == Sending(t) \/ Accepting(t) \/ ChannelClose(t) \/ ChannelUse(t) \/ Closing(t)

(* Package rpc recovers from no panic: the program ends.                   *)
Next ==
  /\ \A t \in Thread : pc[t] # "panicked"
  /\ \/ \E t \in Thread : Step(t)
     \/ \E u \in User : Call(u)
     \/ ReadLoop
     \/ Pinging
     \/ Environment

Spec == Init /\ [][Next]_vars
===============================================================================
