------------------------------- MODULE RpcConn --------------------------------
(***************************************************************************)
(* conn.go: the two goroutines of StartHandler, and what the application   *)
(* calls. A write is one step under the write lock. gorilla answers pings  *)
(* and the peer's close by itself, so ReadMessage gives Read data frames   *)
(* and errors only.                                                        *)
(***************************************************************************)
EXTENDS RpcChannel

(***************************************************************************)
(* Send, SendWaitReply and OpenChannel                                     *)
(***************************************************************************)

(* The numbers of the senders that have drawn and not returned.            *)
Drawn  == {"write", "register", "enter"}
AtWork == {loc[t].call : t \in {u \in Thread : pc[u] \in Drawn}}

(* atomic.AddUint32, whose result is not looked at. (Bound: MaxId.)        *)
Draw(t) ==
  /\ pc[t] = "draw"
  /\ id > -MaxId
  /\ id' = id - 1
  /\ Move(t, "write", [loc[t] EXCEPT !.call = id - 1])
  /\ overlapped' = IF AtWork = {} THEN overlapped
                   ELSE overlapped \cup AtWork \cup {id - 1}
  /\ UNCHANGED <<heard, tables, chan, link>>

(* The peer is sent a packet of t's under identifier i.                    *)
Told(t, i) ==
  peer' = IF Arrives
          THEN [peer EXCEPT !.told = @ \cup {[id |-> i, num |-> loc[t].call]}]
          ELSE peer

Sent(t) ==
  CASE loc[t].op = "request" -> "register"
    [] loc[t].op = "open"    -> "enter"
    [] OTHER                 -> "idle"

(* The counter is read for the packet. OpenChannel takes the identifier    *)
(* from Send's return t.id, SendSpecifyId(...), which may be read as late  *)
(* as after the call: Write's loc.id is the earlier reading.               *)
Write(t) ==
  /\ pc[t] = "write"
  /\ \/ /\ Sends
        /\ Told(t, id)
        /\ Move(t, Sent(t), IF Sent(t) = "idle" THEN NoLocals
                                                ELSE [loc[t] EXCEPT !.id = id])
     \/ /\ Fails
        /\ Return(t)
        /\ UNCHANGED peer
  /\ UNCHANGED <<senders, tables, chan, wire, inbox>>

(* Mutant of Register: the reply is entered under the next identifier.     *)
RegisterNext(t) ==
  /\ pc[t] = "register"
  /\ Free(id)
  /\ \E timed \in BOOLEAN, i \in OwnId :
       /\ i = IF id > -MaxId THEN id - 1 ELSE -1
       /\ replies' = [replies EXCEPT ![i] = [call |-> loc[t].call, timed |-> timed]]
  /\ Return(t)
  /\ UNCHANGED <<senders, isClosed, channels, accepts, notified, chan, link>>

(* The reply is entered under the counter's value by now, with a timeout   *)
(* or without.                                                             *)
Register(t) ==
  /\ pc[t] = "register"
  /\ Free(id)
  /\ \E timed \in BOOLEAN :
       replies' = [replies EXCEPT ![id] = [call |-> loc[t].call, timed |-> timed]]
  /\ Return(t)
  /\ UNCHANGED <<senders, isClosed, channels, accepts, notified, chan, link>>

(* OpenChannel: the Channel is entered in the map and returned.            *)
Enter(t) ==
  /\ pc[t] = "enter"
  /\ \E c \in Fresh, i \in {loc[t].id, id} :
       /\ SetChan(c, [NoChannel EXCEPT !.id = i, !.given = TRUE])
       /\ channels' = [channels EXCEPT ![i] = c]
  /\ Return(t)
  /\ UNCHANGED <<senders, isClosed, replies, accepts, notified, link>>

Sending(t) == Draw(t) \/ Write(t) \/ Register(t) \/ Enter(t)

(***************************************************************************)
(* AcceptChannel                                                           *)
(***************************************************************************)

(* Nobody ever closes channelAcceptChan: without a packet AcceptChannel    *)
(* waits, whether the connection is closed or not. Without a packet inside *)
(* it returns an error.                                                    *)
Accept(t) ==
  /\ pc[t] = "accept"
  /\ accepts # <<>>
  /\ accepts' = Tail(accepts)
  /\ \/ Move(t, "acceptEnter", [loc[t] EXCEPT !.id = Head(accepts)])
     \/ "garbage" \in Events /\ Return(t)
  /\ UNCHANGED <<senders, isClosed, replies, channels, notified, chan, link>>

(* The Channel is entered in the map, whatever is there already ...        *)
AcceptEnter(t) ==
  /\ pc[t] = "acceptEnter"
  /\ \E c \in Fresh :
       /\ SetChan(c, [NoChannel EXCEPT !.id = loc[t].id])
       /\ channels' = [channels EXCEPT ![loc[t].id] = c]
       /\ Move(t, "acceptReply", [loc[t] EXCEPT !.ch = c])
  /\ UNCHANGED <<senders, isClosed, replies, accepts, notified, link>>

(* ... and returned after the peer has been sent its own packet back.      *)
AcceptReply(t) ==
  /\ pc[t] = "acceptReply"
  /\ SetChan(loc[t].ch, [InHand(t) EXCEPT !.given = TRUE])
  /\ Return(t)
  /\ UNCHANGED <<senders, tables, link>>

Accepting(t) == Accept(t) \/ AcceptEnter(t) \/ AcceptReply(t)

(***************************************************************************)
(* The read loop                                                           *)
(***************************************************************************)
Arrived == Head(inbox)

(* Read tests isClosed and then waits in ReadMessage, where a Close by     *)
(* another goroutine does not reach it: nobody closes the socket.          *)
LoopTest ==
  /\ pc[Loop] = "loop"
  /\ ~isClosed
  /\ Move(Loop, "reading", NoLocals)
  /\ UNCHANGED <<senders, tables, chan, link>>

(* It gives the next packet, or an error: the connection was closed when   *)
(* it looked, the frame is no packet, or there is nothing left to come.    *)
Reads  == pc[Loop] = "reading" /\ inbox # <<>>
Closed == pc[Loop] = "loop" /\ isClosed
NoMore == pc[Loop] = "reading" /\ inbox = <<>> /\ wire.in # "open"

Entered == channels[Arrived.id]

(* A packet for a Channel in the map.                                      *)
LoopChannel ==
  /\ Reads
  /\ inbox' = Tail(inbox)
  /\ Arrived.kind \in {"open", "data", "close"}
  /\ Entered # None
  /\ \/ /\ Arrived.kind = "open"
        /\ Move(Loop, "loop", NoLocals)
     \/ /\ Arrived.kind = "data"
        /\ Move(Loop, "receive", [NoLocals EXCEPT !.ch = Entered,
                                                  !.num = Arrived.num])
     \/ /\ Arrived.kind = "close"
        /\ Move(Loop, "chTest", [NoLocals EXCEPT !.ch = Entered, !.ret = "loop"])
  /\ UNCHANGED <<senders, tables, chan, wire, peer>>

(* One for a Channel that is not: the peer opens it, or it is dropped.     *)
LoopNoChannel ==
  /\ Reads
  /\ inbox' = Tail(inbox)
  /\ Arrived.kind \in {"open", "data", "close"}
  /\ Entered = None
  /\ \/ /\ Arrived.kind = "open"
        /\ Move(Loop, "queue", [NoLocals EXCEPT !.id = Arrived.id])
     \/ /\ Arrived.kind # "open"
        /\ Move(Loop, "loop", NoLocals)
  /\ UNCHANGED <<senders, tables, chan, wire, peer>>

(* Mutant of Queue: a queue without bound.                                 *)
QueueUnbounded ==
  /\ pc[Loop] = "queue"
  /\ accepts' = Append(accepts, loc[Loop].id)
  /\ Move(Loop, "loop", NoLocals)
  /\ UNCHANGED <<senders, isClosed, replies, channels, notified, chan, link>>

(* channelAcceptChan <- p waits for room.                                  *)
Queue ==
  /\ pc[Loop] = "queue"
  /\ Len(accepts) < AcceptCap
  /\ accepts' = Append(accepts, loc[Loop].id)
  /\ Move(Loop, "loop", NoLocals)
  /\ UNCHANGED <<senders, isClosed, replies, channels, notified, chan, link>>

LoopMessage ==
  /\ Reads
  /\ inbox' = Tail(inbox)
  /\ Arrived.kind = "message"
  /\ Move(Loop, "reply", [NoLocals EXCEPT !.id = Arrived.id])
  /\ UNCHANGED <<senders, tables, chan, wire, peer>>

(* Any other packet is an answer if a reply has its identifier, and a      *)
(* message for a handler if not. The reply stays in the map: the callback  *)
(* is called again for every packet that carries the identifier. Handlers  *)
(* are the application's.                                                  *)
Reply ==
  /\ pc[Loop] = "reply"
  /\ Free(loc[Loop].id)
  /\ \/ /\ loc[Loop].id \in OwnId
        /\ replies[loc[Loop].id] # NoReply
        /\ heard' = [heard EXCEPT ![replies[loc[Loop].id].call] =
                                     @ \cup {loc[Loop].id}]
     \/ /\ loc[Loop].id \in OwnId => replies[loc[Loop].id] = NoReply
        /\ UNCHANGED heard
  /\ Move(Loop, "loop", NoLocals)
  /\ UNCHANGED <<id, overlapped, tables, chan, link>>

(* Mutant of LoopError: the read loop returns without Close.               *)
LoopErrorReturns ==
  /\ \/ Reads /\ Arrived.kind = "garbage" /\ inbox' = Tail(inbox)
     \/ (Closed \/ NoMore) /\ UNCHANGED inbox
  /\ Return(Loop)
  /\ UNCHANGED <<senders, tables, chan, wire, peer>>

(* An error: Close(err), after the peer's close frame has been answered.   *)
LoopError ==
  /\ \/ Reads /\ Arrived.kind = "garbage" /\ inbox' = Tail(inbox)
     \/ (Closed \/ NoMore) /\ UNCHANGED inbox
  /\ wire' = IF NoMore /\ wire.in = "bye" /\ wire.out = "open"
             THEN [wire EXCEPT !.out = "shut"] ELSE wire
  /\ Move(Loop, "clTest", NoLocals)
  /\ UNCHANGED <<senders, tables, chan, peer>>

ReadLoop ==
  \/ LoopTest \/ LoopChannel \/ LoopNoChannel \/ Queue \/ LoopMessage \/ Reply
  \/ LoopError \/ Receive \/ Push

(***************************************************************************)
(* Close and triggerClose                                                  *)
(***************************************************************************)
ClTest(t) ==
  /\ pc[t] = "clTest"
  /\ \/ isClosed /\ Return(t)
     \/ ~isClosed /\ Goto(t, "clWrite")
  /\ UNCHANGED <<senders, tables, chan, link>>

(* The close frame is written, or fails to be. IterCb meets the Channels   *)
(* that are in the map now, and may meet others.                           *)
ClWrite(t) ==
  /\ pc[t] = "clWrite"
  /\ wire' = IF wire.out = "open" THEN [wire EXCEPT !.out = "shut"] ELSE wire
  /\ Move(t, "clIter", [loc[t] EXCEPT !.seen = {},
                                      !.todo = {channels[i] : i \in Id} \ {None}])
  /\ UNCHANGED <<senders, tables, chan, inbox, peer>>

ClIter(t) ==
  /\ pc[t] = "clIter"
  /\ \/ \E i \in Id :
          /\ channels[i] \in Chan \ loc[t].seen
          /\ Move(t, "chTest", [loc[t] EXCEPT !.ch = channels[i], !.ret = "clIter",
                                              !.seen = @ \cup {channels[i]}])
     \/ /\ loc[t].todo \cap {channels[i] : i \in Id} \subseteq loc[t].seen
        /\ Goto(t, "clClear")
  /\ UNCHANGED <<senders, tables, chan, link>>

ClClear(t) ==
  /\ pc[t] = "clClear"
  /\ channels' = [i \in Id |-> None]
  /\ Goto(t, "trTest")
  /\ UNCHANGED <<senders, isClosed, replies, accepts, notified, chan, link>>

(* triggerClose: isClosed is tested ...                                    *)
TrTest(t) ==
  /\ pc[t] = "trTest"
  /\ \/ isClosed /\ Return(t)
     \/ ~isClosed /\ Goto(t, "trSet")
  /\ UNCHANGED <<senders, tables, chan, link>>

(* ... and set, before closeFunc is called.                                *)
TrSet(t) ==
  /\ pc[t] = "trSet"
  /\ isClosed' = TRUE
  /\ notified' = notified + 1
  /\ Return(t)
  /\ UNCHANGED <<senders, replies, channels, accepts, chan, link>>

Closing(t) ==
  \/ ClTest(t) \/ ClWrite(t) \/ ClIter(t) \/ ClClear(t) \/ TrTest(t) \/ TrSet(t)

(***************************************************************************)
(* The ping goroutine                                                      *)
(***************************************************************************)
(* A round: the ping is written, and the replies are looked through.       *)
Round ==
  /\ pc[Ping] = "ping"
  /\ \/ isClosed /\ Return(Ping)
     \/ ~isClosed /\ CanFail /\ Goto(Ping, "trTest")
  /\ UNCHANGED <<senders, tables, chan, link>>

(* A reply has expired: IterCb holds its shard's read lock, and Remove     *)
(* waits for the write lock of the same shard. The callback is not called. *)
Expire ==
  /\ pc[Ping] = "ping"
  /\ ~isClosed /\ CanWrite
  /\ \E i \in OwnId :
       /\ replies[i].timed
       /\ Move(Ping, "stuck", [loc[Ping] EXCEPT !.id = i])
  /\ UNCHANGED <<senders, tables, chan, link>>

Pinging == "tick" \in Events /\ (Round \/ Expire)
===============================================================================
