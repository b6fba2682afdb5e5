------------------------------ MODULE RpcChannel ------------------------------
(***************************************************************************)
(* channel.go: what goroutine t does to Channel loc[t].ch. Neither the     *)
(* flag isClosed nor the Go channel is protected by a lock; isOpen and     *)
(* channelIdSerial are written and never read, and left out.               *)
(***************************************************************************)
EXTENDS RpcState

InHand(t) == chan[loc[t].ch]

(* Back to Close's IterCb, or with nothing left to the read loop or home.  *)
Resume(t) ==
  Move(t, loc[t].ret, IF loc[t].ret = "clIter" THEN loc[t] ELSE NoLocals)

(***************************************************************************)
(* Close                                                                   *)
(***************************************************************************)

(* Mutant of ChTest: no test of isClosed.                                  *)
ChTestAlways(t) ==
  /\ pc[t] = "chTest"
  /\ Goto(t, "chMark")
  /\ UNCHANGED <<senders, tables, chan, link>>

ChTest(t) ==
  /\ pc[t] = "chTest"
  /\ \/ InHand(t).closed /\ Resume(t)
     \/ ~InHand(t).closed /\ Goto(t, "chMark")
  /\ UNCHANGED <<senders, tables, chan, link>>

(* isClosed is set, and the peer told if it can be.                        *)
ChMark(t) ==
  /\ pc[t] = "chMark"
  /\ SetChan(loc[t].ch, [InHand(t) EXCEPT !.closed = TRUE, !.byUser = @ \/ t \in User])
  /\ Goto(t, "chShut")
  /\ UNCHANGED <<senders, tables, link>>

(* The deferred close(t.ch).                                               *)
ChShut(t) ==
  /\ pc[t] = "chShut"
  /\ \/ /\ ~InHand(t).shut
        /\ SetChan(loc[t].ch, [InHand(t) EXCEPT !.shut = TRUE])
        /\ Resume(t)
     \/ /\ InHand(t).shut
        /\ Panic(t)
        /\ UNCHANGED chan
  /\ UNCHANGED <<senders, tables, link>>

ChannelClose(t) == ChTest(t) \/ ChMark(t) \/ ChShut(t)

(***************************************************************************)
(* Receive, called by the read loop                                        *)
(***************************************************************************)
Receive ==
  /\ pc[Loop] = "receive"
  /\ \/ InHand(Loop).closed /\ Move(Loop, "loop", NoLocals)
     \/ ~InHand(Loop).closed /\ Goto(Loop, "push")
  /\ UNCHANGED <<senders, tables, chan, link>>

(* Mutant of Push: a packet that does not fit is dropped.                  *)
PushDrops ==
  /\ pc[Loop] = "push"
  /\ \/ /\ ~InHand(Loop).shut
        /\ \/ /\ Len(InHand(Loop).buf) < ChanCap
              /\ SetChan(loc[Loop].ch,
                         [InHand(Loop) EXCEPT !.buf = Append(@, loc[Loop].num)])
           \/ /\ Len(InHand(Loop).buf) = ChanCap
              /\ UNCHANGED chan
        /\ Move(Loop, "loop", NoLocals)
     \/ /\ InHand(Loop).shut
        /\ Panic(Loop)
        /\ UNCHANGED chan
  /\ UNCHANGED <<senders, tables, link>>

(* t.ch <- data waits for room; on a closed Go channel it panics, and so   *)
(* it does when the channel is closed while it waits.                      *)
Push ==
  /\ pc[Loop] = "push"
  /\ \/ /\ ~InHand(Loop).shut
        /\ Len(InHand(Loop).buf) < ChanCap
        /\ SetChan(loc[Loop].ch,
                   [InHand(Loop) EXCEPT !.buf = Append(@, loc[Loop].num)])
        /\ Move(Loop, "loop", NoLocals)
     \/ /\ InHand(Loop).shut
        /\ Panic(Loop)
        /\ UNCHANGED chan
  /\ UNCHANGED <<senders, tables, link>>

(***************************************************************************)
(* Read and ReadTimeout. Send only writes to the peer.                     *)
(***************************************************************************)
ReadTest(t) ==
  /\ pc[t] = "read"
  /\ \/ InHand(t).closed /\ Return(t)
     \/ ~InHand(t).closed /\ Goto(t, "wait")
  /\ UNCHANGED <<senders, tables, chan, link>>

(* A closed Go channel still gives what is in its buffer.                  *)
ReadTake(t) ==
  /\ pc[t] = "wait"
  /\ InHand(t).buf # <<>>
  /\ SetChan(loc[t].ch, [InHand(t) EXCEPT !.taken = Head(InHand(t).buf),
                                          !.buf = Tail(@)])
  /\ Return(t)
  /\ UNCHANGED <<senders, tables, link>>

ReadFails(t) ==
  /\ pc[t] = "wait"
  /\ \/ InHand(t).buf = <<>> /\ InHand(t).shut
     \/ loc[t].op = "readTimeout"
  /\ Return(t)
  /\ UNCHANGED <<senders, tables, chan, link>>

ChannelUse(t) == ReadTest(t) \/ ReadTake(t) \/ ReadFails(t)
===============================================================================
