---------------------------- MODULE RpcProperties -----------------------------
(***************************************************************************)
(* What a connection and its Channels promise the application.             *)
(***************************************************************************)
EXTENDS Rpc

\* Every Channel is a FifoChannel: whatever goroutines open, accept, read and
\* close at the same time, a reader gets the peer's data in order and without a
\* hole, and none arrives after close(t.ch).
Fifo(c) == INSTANCE FifoChannel WITH
  pending <- chan[c].buf,
  taken   <- chan[c].taken,
  closed  <- chan[c].shut

ChannelsAreFifo ==
  /\ \A c \in Chan : Fifo(c)!Init
  /\ [][\A c \in Chan : [Fifo(c)!Next]_(Fifo(c)!vars)]_vars

\* A goroutine panics, on a Go channel that is closed twice or sent on when
\* closed, only where one of the application's goroutines has closed the
\* Channel: as long as the application leaves that to the peer and to the end
\* of the connection, the tests of isClosed are enough without a lock.
PanicNeedsCloser ==
  \A t \in Thread : pc[t] = "panicked" => chan[loc[t].ch].byUser

\* A sender alone in its call has its identifier to itself, however other senders
\* race before and after it for the counter they read twice, and whatever the
\* peer sends: no other of their packets is sent under it, its callback is given
\* no packet but those that carry it, and no other callback is given any of
\* these. (Alone: no goroutine drew a number while another was between drawing
\* one and returning; a callback may well be called twice, or not at all.)
AnswersRouted ==
  \A i \in OwnId \ overlapped :
    /\ \A p \in peer.told : p.id = i <=> p.num = i
    /\ \A j \in OwnId : \A k \in heard[j] : k = i <=> j = i

-----------------------------------------------------------------------------
\* The goroutines of a connection run; a pending write or a callback ends.
Fairness ==
  /\ \A t \in Thread : WF_vars(Step(t))
  /\ WF_vars(ReadLoop)
  /\ WF_vars(Pinging)

FairSpec == Spec /\ Fairness

\* The read loop waits: for room in the accept queue or in a Channel, or for
\* the shard the ping goroutine is stuck in.
LoopWaits ==
  \/ pc[Loop] = "queue" /\ Len(accepts) = AcceptCap
  \/ pc[Loop] = "push" /\ Len(chan[loc[Loop].ch].buf) = ChanCap
  \/ pc[Loop] = "reply" /\ ~Free(loc[Loop].id)

\* Once the peer is gone, the application is told so and the read loop returns,
\* unless it waits, or has panicked.
EndNoticed ==
  wire.in # "open" ~> \/ isClosed /\ notified > 0 /\ pc[Loop] = "ended"
                      \/ LoopWaits
                      \/ pc[Loop] = "panicked"
===============================================================================
