------------------------------ MODULE RpcAnswers -------------------------------
(***************************************************************************)
(* AnswersRouted, for any number of goroutines and identifiers and any     *)
(* peer. Between drawing its number and returning, a sender that no other  *)
(* has overlapped finds the counter where it left it, so what it writes    *)
(* and registers under the counter's value is under its own number; and    *)
(* one that was overlapped has only numbers in hand that were.             *)
(***************************************************************************)
EXTENDS RpcTyping

USE DEF tables, link, senders

(* Number n and identifier i, together in a packet or in the reply table,  *)
(* are the same or both drawn by senders that were not alone.              *)
Paired(n, i, o) == n = i \/ {n, i} \subseteq o

OwnNumber ==
  \A t \in Thread : pc[t] \in Drawn => Paired(loc[t].call, id, overlapped)

ToldPaired == \A p \in peer.told : Paired(p.num, p.id, overlapped)

RepliesPaired ==
  \A i \in OwnId : replies[i] # NoReply => Paired(replies[i].call, i, overlapped)

HeardPaired == \A j \in OwnId : \A k \in heard[j] : Paired(j, k, overlapped)

AnswerInv == OwnNumber /\ ToldPaired /\ RepliesPaired /\ HeardPaired

-----------------------------------------------------------------------------
\* What is paired stays so when more senders overlap.
LEMMA StayPaired ==
  ASSUME NEW n, NEW i, NEW o, NEW p, o \subseteq p, Paired(n, i, o)
  PROVE  Paired(n, i, p)
BY DEF Paired

\* A step that moves a goroutine to a place where it has no number in hand, or the
\* one it had, and does nothing to what senders, peer and table know.
LEMMA MovesOn ==
  ASSUME TypeInv, AnswerInv, NEW t \in Thread, NEW l, NEW f, Move(t, l, f),
         l \in Drawn => pc[t] \in Drawn /\ f.call = loc[t].call,
         peer'.told = peer.told, UNCHANGED <<id, overlapped, replies, heard>>
  PROVE  AnswerInv'
<1>1. OwnNumber'
  <2> SUFFICES ASSUME NEW s \in Thread, pc'[s] \in Drawn
               PROVE  Paired(loc'[s].call, id', overlapped')
    BY DEF OwnNumber
  <2>1. pc[s] \in Drawn /\ loc'[s].call = loc[s].call
    BY Moves
  <2> QED BY <2>1 DEF AnswerInv, OwnNumber
<1>2. ToldPaired' /\ RepliesPaired' /\ HeardPaired'
  BY DEF AnswerInv, ToldPaired, RepliesPaired, HeardPaired
<1> QED BY <1>1, <1>2 DEF AnswerInv

\* A goroutine that returns has no number in hand.
LEMMA Returns ==
  ASSUME TypeInv, AnswerInv, NEW t \in Thread, Return(t), peer'.told = peer.told,
         UNCHANGED <<id, overlapped, replies, heard>>
  PROVE  AnswerInv'
<1>1. Home(t) \notin Drawn
  BY DEF Home, Drawn
<1> QED BY <1>1, MovesOn DEF Return

-----------------------------------------------------------------------------
\* A number is drawn: who is at work is not alone, and neither is who draws it.
LEMMA AnswerDraw ==
  ASSUME TypeInv, AnswerInv, NEW t \in Thread, Draw(t)
  PROVE  AnswerInv'
<1>1. overlapped \subseteq overlapped'
  BY DEF Draw
<1>2. OwnNumber'
  <2> SUFFICES ASSUME NEW s \in Thread, pc'[s] \in Drawn
               PROVE  Paired(loc'[s].call, id', overlapped')
    BY DEF OwnNumber
  <2>1. Move(t, "write", [loc[t] EXCEPT !.call = id - 1]) /\ id' = id - 1
    BY DEF Draw
  <2>2. CASE s = t
    <3>1. loc'[t] = [loc[t] EXCEPT !.call = id - 1] /\ loc[t] \in Locals
      BY <2>1, Moves, InHandTyped
    <3>2. loc'[t].call = id'
      BY <2>1, <3>1 DEF Locals
    <3> QED BY <2>2, <3>2 DEF Paired
  <2>3. CASE s # t
    <3>1. pc'[s] = pc[s] /\ loc'[s] = loc[s]
      BY <2>1, <2>3, Moves
    <3>2. loc[s].call \in AtWork
      BY <3>1 DEF AtWork
    <3>3. overlapped' = overlapped \cup AtWork \cup {id'}
      BY <2>1, <3>2 DEF Draw
    <3> QED BY <3>1, <3>2, <3>3 DEF Paired
  <2> QED BY <2>2, <2>3
<1>3. ToldPaired' /\ RepliesPaired' /\ HeardPaired'
  <2>1. UNCHANGED <<peer, replies, heard>>
    BY DEF Draw
  <2>2. ToldPaired'
    BY <1>1, <2>1, StayPaired DEF AnswerInv, ToldPaired
  <2>3. RepliesPaired'
    BY <1>1, <2>1, StayPaired DEF AnswerInv, RepliesPaired
  <2>4. HeardPaired'
    BY <1>1, <2>1, StayPaired DEF AnswerInv, HeardPaired
  <2> QED BY <2>2, <2>3, <2>4
<1> QED BY <1>2, <1>3 DEF AnswerInv

\* A packet is written, under the counter's value.
LEMMA AnswerWrite ==
  ASSUME TypeInv, AnswerInv, NEW t \in Thread, Write(t)
  PROVE  AnswerInv'
<1>1. CASE Return(t) /\ UNCHANGED peer
  BY <1>1, Returns DEF Write
<1>2. CASE /\ Told(t, id)
           /\ Move(t, Sent(t), IF Sent(t) = "idle" THEN NoLocals
                                              ELSE [loc[t] EXCEPT !.id = id])
  <2> DEFINE f == IF Sent(t) = "idle" THEN NoLocals ELSE [loc[t] EXCEPT !.id = id]
  <2>1. pc[t] \in Drawn /\ Paired(loc[t].call, id, overlapped)
    BY DEF Write, Drawn, AnswerInv, OwnNumber
  <2>2. Sent(t) \in Drawn => f.call = loc[t].call
    BY InHandTyped DEF Sent, Drawn, Locals
  <2>3. OwnNumber'
    <3> SUFFICES ASSUME NEW s \in Thread, pc'[s] \in Drawn
                 PROVE  Paired(loc'[s].call, id', overlapped')
      BY DEF OwnNumber
    <3>1. Move(t, Sent(t), f) /\ UNCHANGED <<id, overlapped>>
      BY <1>2 DEF Write
    <3> HIDE DEF f
    <3>2. pc[s] \in Drawn /\ loc'[s].call = loc[s].call
      BY <2>1, <2>2, <3>1, Moves
    <3> QED BY <3>1, <3>2 DEF AnswerInv, OwnNumber
  <2>4. ToldPaired'
    <3>1. PICK r : r = [id |-> id, num |-> loc[t].call]
      OBVIOUS
    <3>2. peer'.told \subseteq peer.told \cup {r}
      BY <1>2, <3>1 DEF Told, TypeInv, TypeOK
    <3>3. Paired(r.num, r.id, overlapped)
      BY <2>1, <3>1
    <3>4. overlapped' = overlapped
      BY DEF Write
    <3> QED BY <3>2, <3>3, <3>4 DEF AnswerInv, ToldPaired
  <2>5. RepliesPaired' /\ HeardPaired'
    BY DEF Write, AnswerInv, RepliesPaired, HeardPaired
  <2> QED BY <2>3, <2>4, <2>5 DEF AnswerInv
<1> QED BY <1>1, <1>2 DEF Write

\* A reply is registered, under the counter's value too.
LEMMA AnswerRegister ==
  ASSUME TypeInv, AnswerInv, NEW t \in Thread, Register(t)
  PROVE  AnswerInv'
<1>1. pc[t] \in Drawn /\ Paired(loc[t].call, id, overlapped)
  BY DEF Register, Drawn, AnswerInv, OwnNumber
<1>2. UNCHANGED <<id, overlapped, heard, peer>> /\ Move(t, Home(t), NoLocals)
  BY DEF Register, Return
<1>3. OwnNumber'
  <2> SUFFICES ASSUME NEW s \in Thread, pc'[s] \in Drawn
               PROVE  Paired(loc'[s].call, id', overlapped')
    BY DEF OwnNumber
  <2>1. Home(t) \notin Drawn
    BY DEF Home, Drawn
  <2>2. pc[s] \in Drawn /\ loc'[s] = loc[s]
    BY <1>2, <2>1, Moves
  <2> QED BY <1>2, <2>2 DEF AnswerInv, OwnNumber
<1>4. RepliesPaired'
  <2>1. PICK r : r.call = loc[t].call /\ replies' = [replies EXCEPT ![id] = r]
    BY DEF Register
  <2>2. \A i \in OwnId : replies'[i] = replies[i] \/ (i = id /\ replies'[i] = r)
    BY <2>1 DEF TypeInv, TypeOK
  <2> QED BY <1>1, <1>2, <2>1, <2>2 DEF AnswerInv, RepliesPaired
<1>5. ToldPaired' /\ HeardPaired'
  BY <1>2 DEF AnswerInv, ToldPaired, HeardPaired
<1> QED BY <1>3, <1>4, <1>5 DEF AnswerInv

\* A packet is given to the callback that is in the table under its identifier.
LEMMA AnswerReply ==
  ASSUME TypeInv, AnswerInv, Reply
  PROVE  AnswerInv'
<1>t. Loop \in Thread
  BY DEF Thread
<1>1. Move(Loop, "loop", NoLocals) /\ UNCHANGED <<id, overlapped, replies, peer>>
  BY DEF Reply
<1>2. CASE UNCHANGED heard
  BY <1>t, <1>1, <1>2, MovesOn DEF Drawn
<1>3. CASE /\ loc[Loop].id \in OwnId /\ replies[loc[Loop].id] # NoReply
           /\ heard' = [heard EXCEPT ![replies[loc[Loop].id].call] =
                                        @ \cup {loc[Loop].id}]
  <2>1. PICK k \in OwnId : k = loc[Loop].id
    BY <1>3
  <2>2. PICK j : j = replies[k].call
    OBVIOUS
  <2>3. Paired(j, k, overlapped) /\ heard' = [heard EXCEPT ![j] = @ \cup {k}]
    BY <1>3, <2>1, <2>2 DEF AnswerInv, RepliesPaired
  <2>4. heard \in [OwnId -> SUBSET OwnId]
    BY DEF TypeInv, TypeOK
  <2>5. HeardPaired'
    <3> SUFFICES ASSUME NEW m \in OwnId, NEW n \in heard'[m]
                 PROVE  Paired(m, n, overlapped)
      BY <1>1 DEF HeardPaired
    <3>1. n \in heard[m] \/ (m = j /\ n = k)
      BY <2>3, <2>4
    <3> QED BY <2>3, <3>1 DEF AnswerInv, HeardPaired
  <2>6. OwnNumber'
    <3> SUFFICES ASSUME NEW s \in Thread, pc'[s] \in Drawn
                 PROVE  Paired(loc'[s].call, id', overlapped')
      BY DEF OwnNumber
    <3>1. pc[s] \in Drawn /\ loc'[s] = loc[s]
      BY <1>t, <1>1, Moves DEF Drawn
    <3> QED BY <1>1, <3>1 DEF AnswerInv, OwnNumber
  <2>7. ToldPaired' /\ RepliesPaired'
    BY <1>1 DEF AnswerInv, ToldPaired, RepliesPaired
  <2> QED BY <2>5, <2>6, <2>7 DEF AnswerInv
<1> QED BY <1>2, <1>3 DEF Reply

\* The other steps of the goroutines.
LEMMA AnswerStep ==
  ASSUME TypeInv, AnswerInv, NEW t \in Thread, Step(t)
  PROVE  AnswerInv'
<1>h. Home(t) \notin Drawn
  BY DEF Home, Drawn
<1>1. CASE Enter(t)
  BY <1>1, Returns DEF Enter
<1>2. CASE Accepting(t)
  <2>1. Return(t) \/ \E l \in {"acceptEnter", "acceptReply"} : \E f : Move(t, l, f)
    BY <1>2 DEF Accepting, Accept, AcceptEnter, AcceptReply
  <2>2. UNCHANGED <<id, overlapped, replies, heard, peer>>
    BY <1>2 DEF Accepting, Accept, AcceptEnter, AcceptReply
  <2> QED BY <2>1, <2>2, Returns, MovesOn DEF Drawn
<1>3. CASE ChannelClose(t)
  <2>1. loc[t].ret \notin Drawn
    BY InHandTyped DEF Locals, Drawn
  <2>2. \E l \in {loc[t].ret, "chMark", "chShut", "panicked"} : \E f : Move(t, l, f)
    BY <1>3 DEF ChannelClose, ChTest, ChMark, ChShut, Panic, Resume, Goto
  <2>3. UNCHANGED <<id, overlapped, replies, heard, peer>>
    BY <1>3 DEF ChannelClose, ChTest, ChMark, ChShut
  <2> QED BY <2>1, <2>2, <2>3, MovesOn DEF Drawn
<1>4. CASE ChannelUse(t)
  <2>1. Return(t) \/ \E f : Move(t, "wait", f)
    BY <1>4 DEF ChannelUse, ReadTest, ReadTake, ReadFails, Goto
  <2>2. UNCHANGED <<id, overlapped, replies, heard, peer>>
    BY <1>4 DEF ChannelUse, ReadTest, ReadTake, ReadFails
  <2> QED BY <2>1, <2>2, Returns, MovesOn DEF Drawn
<1>5. CASE Closing(t)
  <2>1. \/ Return(t)
        \/ \E l \in {"clWrite", "clIter", "clClear", "trTest", "trSet", "chTest"} :
             \E f : Move(t, l, f)
    BY <1>5 DEF Closing, ClTest, ClWrite, ClIter, ClClear, TrTest, TrSet, Goto
  <2>2. UNCHANGED <<id, overlapped, replies, heard, peer>>
    BY <1>5 DEF Closing, ClTest, ClWrite, ClIter, ClClear, TrTest, TrSet
  <2> QED BY <2>1, <2>2, Returns, MovesOn DEF Drawn
<1> QED BY <1>1, <1>2, <1>3, <1>4, <1>5, AnswerDraw, AnswerWrite, AnswerRegister
        DEF Step, Sending

\* The application calls, the read loop reads, the ping goroutine looks around.
LEMMA AnswerOthers ==
  ASSUME TypeInv, AnswerInv, (\E u \in User : Call(u)) \/ ReadLoop \/ Pinging
  PROVE  AnswerInv'
<1>1. ASSUME NEW u \in User, Call(u) PROVE AnswerInv'
  <2>1. u \in Thread
    BY DEF Thread
  <2>2. PICK op \in Op : \E f : Move(u, FirstLabel[op], f)
    BY <1>1, CallAssumption DEF Call
  <2>3. FirstLabel[op] \notin Drawn
    BY DEF Op, FirstLabel, Drawn
  <2>4. UNCHANGED <<id, overlapped, replies, heard, peer>>
    BY <1>1 DEF Call
  <2> QED BY <2>1, <2>2, <2>3, <2>4, MovesOn
<1>2. CASE ReadLoop /\ ~Reply
  <2>1. Loop \in Thread
    BY DEF Thread
  <2>2. \E l \in {"loop", "reading", "queue", "reply", "receive", "push", "chTest",
                  "clTest", "panicked"} : \E f : Move(Loop, l, f)
    BY <1>2 DEF ReadLoop, LoopTest, LoopChannel, LoopNoChannel, Queue, LoopMessage,
                LoopError, Receive, Push, Panic, Goto
  <2>3. UNCHANGED <<id, overlapped, replies, heard, peer>>
    BY <1>2 DEF ReadLoop, LoopTest, LoopChannel, LoopNoChannel, Queue, LoopMessage,
                LoopError, Receive, Push
  <2> QED BY <2>1, <2>2, <2>3, MovesOn DEF Drawn
<1>3. CASE Pinging
  <2>1. Ping \in Thread
    BY DEF Thread
  <2>2. Return(Ping) \/ \E l \in {"trTest", "stuck"} : \E f : Move(Ping, l, f)
    BY <1>3 DEF Pinging, Round, Expire, Goto
  <2>3. UNCHANGED <<id, overlapped, replies, heard, peer>>
    BY <1>3 DEF Pinging, Round, Expire
  <2> QED BY <2>1, <2>2, <2>3, Returns, MovesOn DEF Drawn
<1> QED BY <1>1, <1>2, <1>3, AnswerReply

\* Whatever the peer sends, and under whatever identifier, it was told no more.
LEMMA AnswerEnvironment ==
  ASSUME TypeInv, AnswerInv, Environment
  PROVE  AnswerInv'
<1>1. UNCHANGED <<id, overlapped, replies, heard, pc, loc>>
  BY DEF Environment, PeerSends, PeerBye, Break
<1>2. peer'.told = peer.told
  BY DEF Environment, PeerSends, PeerBye, Break, PeerData, PeerPosts, TypeInv, TypeOK
<1> QED BY <1>1, <1>2
        DEF AnswerInv, OwnNumber, ToldPaired, RepliesPaired, HeardPaired

-----------------------------------------------------------------------------
\* Nothing has been drawn, written, registered or heard at the start.
LEMMA AnswerInit ==
  ASSUME Init
  PROVE  AnswerInv
<1>1. \A t \in Thread : pc[t] \notin Drawn
  BY DEF Init, Drawn
<1>2. /\ peer.told = {} /\ \A i \in OwnId : heard[i] = {}
      /\ \A i \in OwnId : replies[i] = NoReply
  BY DEF Init
<1> QED BY <1>1, <1>2
        DEF AnswerInv, OwnNumber, ToldPaired, RepliesPaired, HeardPaired

\* Every step keeps the pairs.
LEMMA AnswerNext ==
  ASSUME TypeInv, AnswerInv, [Next]_vars
  PROVE  AnswerInv'
<1>1. CASE UNCHANGED vars
  BY <1>1 DEF vars, AnswerInv, OwnNumber, ToldPaired, RepliesPaired, HeardPaired
<1>2. CASE Next
  BY <1>2, AnswerStep, AnswerOthers, AnswerEnvironment DEF Next
<1> QED BY <1>1, <1>2

\* A sender that is alone in its call finds the counter where it left it; what two
\* that are not write and register is paired with numbers of such senders only.
THEOREM AnswerInvariant == Spec => []AnswerInv
<1>1. TypeInv /\ AnswerInv /\ [Next]_vars => AnswerInv'
  BY AnswerNext
<1> QED BY <1>1, AnswerInit, TypeInvariant, PTL DEF Spec

\* RpcProperties!AnswersRouted: a sender alone in its call has its identifier to
\* itself, whatever other senders do before and after it, and whatever the peer
\* sends: the races of the others for the counter never reach it.
THEOREM AnswersRoutedHolds == Spec => []AnswersRouted
<1>1. ASSUME AnswerInv PROVE AnswersRouted
  <2> SUFFICES ASSUME NEW i \in OwnId \ overlapped
               PROVE  /\ \A p \in peer.told : p.id = i <=> p.num = i
                      /\ \A j \in OwnId : \A k \in heard[j] : k = i <=> j = i
    BY DEF AnswersRouted
  <2>1. \A p \in peer.told : p.id = i <=> p.num = i
    BY <1>1 DEF AnswerInv, ToldPaired, Paired
  <2>2. \A j \in OwnId : \A k \in heard[j] : k = i <=> j = i
    BY <1>1 DEF AnswerInv, HeardPaired, Paired
  <2> QED BY <2>1, <2>2
<1> QED BY <1>1, AnswerInvariant, PTL
===============================================================================
