------------------------------- MODULE RpcTyping -------------------------------
(***************************************************************************)
(* The type invariant of a connection, for any number of goroutines and    *)
(* Channels and any bounds. It is not inductive: what a goroutine has in   *)
(* hand has the type its place asks for, and so has what is on its way.    *)
(***************************************************************************)
EXTENDS RpcProperties, SequenceTheorems, TLAPS

USE DEF tables, link, senders

(* Where a goroutine has a Channel, an identifier, a number it drew.       *)
ChannelInHand == ChanLabel \cup {"receive", "push", "acceptReply"}
IdInHand      == {"queue", "acceptEnter", "enter"}
NumberDrawn   == {"write", "register", "enter"}

Holding(l, f, n) ==
  /\ l \in ChannelInHand => f.ch \in Chan
  /\ l \in IdInHand => f.id \in Id
  /\ l \in NumberDrawn => n \in OwnId /\ f.call \in OwnId
  /\ l \in {"receive", "push"} => f.num \in 1 .. MaxData

(* A packet the peer may send.                                             *)
Sendable ==
  {p \in Packet :
     /\ p.kind \in {"open", "data", "close"} => p.id \in Id
     /\ p.kind = "data" => p.num \in 1 .. MaxData}

Held == \A t \in Thread : Holding(pc[t], loc[t], id)

Carried ==
  /\ inbox \in Seq(Sendable)
  /\ \A i \in Id : peer.data[i] <= peer.sent
  /\ \A i \in OwnId : replies[i] = NoReply \/ replies[i].call \in OwnId

TypeInv == TypeOK /\ Held /\ Carried

-----------------------------------------------------------------------------
\* The two ends draw from different numbers, and neither draws 0.
LEMMA Numbers ==
  /\ 0 \notin Id /\ OwnId \subseteq Id /\ PeerId \subseteq Id
  /\ Id \subseteq Int
  /\ \A i \in OwnId : i < 0
  /\ \A i \in PeerId : i > 0
  /\ \A i \in -MaxId .. 0 : i # 0 => i \in OwnId
BY BoundAssumption DEF Id, OwnId, PeerId

\* The labels are different strings, and there are no others.
LEMMA Labels ==
  /\ {"idle", "ended", "panicked", "draw", "write", "register", "enter", "accept",
      "acceptEnter", "acceptReply"} \subseteq Label
  /\ {"read", "wait", "chTest", "chMark", "chShut", "loop", "reading", "queue",
      "reply", "receive", "push"} \subseteq Label
  /\ {"clTest", "clWrite", "clIter", "clClear", "trTest", "trSet", "ping", "stuck"}
       \subseteq Label
BY DEF Label, SendLabel, AcceptLabel, ChanLabel, LoopLabel, CloseLabel, PingLabel

\* NoLocals, and where a function returns to.
LEMMA Back ==
  ASSUME NEW t \in Thread
  PROVE  /\ NoLocals \in Locals
         /\ Home(t) \in {"idle", "ended"} /\ Home(t) \in Label
         /\ \A n : Holding(Home(t), NoLocals, n)
BY Labels DEF Home, NoLocals, Locals, Holding, ChannelInHand, ChanLabel, IdInHand,
              NumberDrawn

\* What a step of t does to the places and the locals.
LEMMA Moves ==
  ASSUME TypeInv, NEW t \in Thread, NEW l, NEW f, Move(t, l, f)
  PROVE  /\ pc'[t] = l /\ loc'[t] = f
         /\ \A s \in Thread \ {t} : pc'[s] = pc[s] /\ loc'[s] = loc[s]
BY DEF TypeInv, TypeOK, Move

\* A step that moves one goroutine leaves the places and the locals typed.
LEMMA Moved ==
  ASSUME TypeInv, NEW t \in Thread, NEW l \in Label, NEW f \in Locals,
         Move(t, l, f), Holding(l, f, id'), id' = id \/ id' \in OwnId
  PROVE  /\ pc' \in [Thread -> Label] /\ loc' \in [Thread -> Locals]
         /\ Held'
<1>1. pc' \in [Thread -> Label] /\ loc' \in [Thread -> Locals]
  BY DEF TypeInv, TypeOK, Move
<1>2. ASSUME NEW s \in Thread PROVE Holding(pc'[s], loc'[s], id')
  <2>1. CASE s = t
    BY <2>1 DEF TypeInv, TypeOK, Move, Holding
  <2>2. CASE s # t
    <3>1. pc'[s] = pc[s] /\ loc'[s] = loc[s]
      BY <2>2 DEF TypeInv, TypeOK, Move
    <3>2. Holding(pc[s], loc[s], id)
      BY DEF TypeInv, Held
    <3> QED BY <3>1, <3>2 DEF Holding
  <2> QED BY <2>1, <2>2
<1> QED BY <1>1, <1>2 DEF Held

\* One that does nothing else keeps the invariant.
LEMMA OnlyMoved ==
  ASSUME TypeInv, NEW t \in Thread, NEW l \in Label, NEW f \in Locals,
         Move(t, l, f), Holding(l, f, id), UNCHANGED <<senders, tables, chan, link>>
  PROVE  TypeInv'
<1>1. /\ pc' \in [Thread -> Label] /\ loc' \in [Thread -> Locals]
      /\ Held'
  BY Moved
<1>2. Carried'
  BY DEF TypeInv, Carried
<1> QED BY <1>1, <1>2 DEF TypeInv, TypeOK

\* And so does one that returns.
LEMMA OnlyReturned ==
  ASSUME TypeInv, NEW t \in Thread, Return(t), UNCHANGED <<senders, tables, chan, link>>
  PROVE  TypeInv'
BY Back, OnlyMoved DEF Return

\* A Channel that has just been allocated.
LEMMA Allocated ==
  ASSUME NEW i \in Id, NEW g \in BOOLEAN
  PROVE  /\ [NoChannel EXCEPT !.id = i, !.given = g] \in Channel
         /\ [NoChannel EXCEPT !.id = i] \in Channel
         /\ Len([NoChannel EXCEPT !.id = i, !.given = g].buf) <= ChanCap
         /\ Len([NoChannel EXCEPT !.id = i].buf) <= ChanCap
<1>1. 0 \in 0 .. MaxData /\ <<>> \in Seq(1 .. MaxData) /\ Len(<<>>) <= ChanCap
  BY BoundAssumption
<1> QED BY <1>1 DEF NoChannel, Channel

\* A goroutine's locals are typed, and fit its place.
LEMMA InHandTyped ==
  ASSUME TypeInv, NEW t \in Thread
  PROVE  /\ loc[t] \in Locals /\ pc[t] \in Label
         /\ Holding(pc[t], loc[t], id)
         /\ pc[t] \in ChannelInHand => loc[t].ch \in Chan /\ InHand(t) \in Channel
BY DEF TypeInv, TypeOK, Held, Holding, InHand

-----------------------------------------------------------------------------
\* Draw, Write, Register and Enter.
LEMMA KeepSending ==
  ASSUME TypeInv, NEW t \in Thread, Sending(t)
  PROVE  TypeInv'
<1>a. loc[t] \in Locals /\ pc[t] \in Label /\ Holding(pc[t], loc[t], id)
  BY InHandTyped
<1>b. TypeOK /\ Held /\ Carried
  BY DEF TypeInv
<1>1. CASE Draw(t)
  <2>1. id' = id - 1 /\ id' \in OwnId /\ id' \in -MaxId .. 0
    BY <1>1, <1>b, BoundAssumption DEF Draw, TypeOK, OwnId
  <2>2. [loc[t] EXCEPT !.call = id - 1] \in Locals
    BY <1>a, <2>1 DEF Locals
  <2>3. Holding("write", [loc[t] EXCEPT !.call = id - 1], id')
    BY <1>a, <2>1 DEF Holding, ChannelInHand, ChanLabel, IdInHand, NumberDrawn, Locals
  <2>4. /\ pc' \in [Thread -> Label] /\ loc' \in [Thread -> Locals]
        /\ Held'
    BY <1>1, <2>1, <2>2, <2>3, Moved, Labels DEF Draw
  <2>5. overlapped' \subseteq OwnId
    <3>1. AtWork \subseteq OwnId
      BY <1>b DEF AtWork, Drawn, Held, Holding, NumberDrawn
    <3> QED BY <1>1, <1>b, <2>1, <3>1 DEF Draw, TypeOK
  <2>7. TypeOK'
    BY <1>1, <1>b, <2>1, <2>4, <2>5 DEF Draw, TypeOK
  <2>6. Carried'
    BY <1>1, <1>b DEF Draw, Carried
  <2> QED BY <2>4, <2>6, <2>7 DEF TypeInv
<1>2. CASE Write(t)
  <2>1. id \in OwnId /\ loc[t].call \in OwnId /\ id' = id /\ id \in Id
    BY <1>2, <1>a, Numbers DEF Write, Holding, NumberDrawn
  <2>2. CASE Return(t) /\ UNCHANGED peer
    <3>1. UNCHANGED <<senders, tables, chan, link>>
      BY <1>2, <2>2 DEF Write
    <3> QED BY <2>2, <3>1, OnlyReturned
  <2>3. CASE /\ Told(t, id)
             /\ Move(t, Sent(t), IF Sent(t) = "idle" THEN NoLocals
                                                ELSE [loc[t] EXCEPT !.id = id])
    <3> DEFINE f == IF Sent(t) = "idle" THEN NoLocals ELSE [loc[t] EXCEPT !.id = id]
    <3>1. Sent(t) \in {"register", "enter", "idle"} /\ Sent(t) \in Label
      BY Labels DEF Sent
    <3>2. f \in Locals
      BY <1>a, <2>1, Back DEF Locals
    <3>3. Holding(Sent(t), f, id')
      BY <1>a, <2>1, <3>1, <3>2
         DEF Holding, ChannelInHand, ChanLabel, IdInHand, NumberDrawn, Locals
    <3>4. /\ pc' \in [Thread -> Label] /\ loc' \in [Thread -> Locals]
          /\ Held'
      <4> HIDE DEF f
      <4>1. Move(t, Sent(t), f)
        BY <2>3 DEF f
      <4> QED BY <4>1, <2>1, <3>1, <3>2, <3>3, Moved
    <3>5. /\ peer' \in [data : [Id -> 0 .. MaxData], sent : 0 .. MaxData,
                        told : SUBSET [id : OwnId, num : OwnId]]
          /\ peer'.data = peer.data /\ peer'.sent = peer.sent
      <4> DEFINE r == [id |-> id, num |-> loc[t].call]
      <4>1. \/ peer' = peer
            \/ peer' = [peer EXCEPT !.told = @ \cup {r}]
        BY <2>3 DEF Told
      <4>2. r \in [id : OwnId, num : OwnId]
        BY <2>1
      <4>3. peer \in [data : [Id -> 0 .. MaxData], sent : 0 .. MaxData,
                      told : SUBSET [id : OwnId, num : OwnId]]
        BY <1>b DEF TypeOK
      <4> HIDE DEF r
      <4>4. CASE peer' = [peer EXCEPT !.told = @ \cup {r}]
        BY <4>2, <4>3, <4>4
      <4> QED BY <4>1, <4>3, <4>4
    <3>6. TypeOK'
      BY <1>2, <1>b, <2>1, <2>3, <3>4, <3>5 DEF Write, TypeOK
    <3>7. Carried'
      BY <1>2, <1>b, <3>5 DEF Write, Carried
    <3> QED BY <3>4, <3>6, <3>7 DEF TypeInv
  <2> QED BY <1>2, <2>2, <2>3 DEF Write
<1>3. CASE Register(t)
  <2>1. id \in OwnId /\ loc[t].call \in OwnId /\ id' = id
    BY <1>3, <1>a DEF Register, Holding, NumberDrawn
  <2>2. /\ pc' \in [Thread -> Label] /\ loc' \in [Thread -> Locals]
        /\ Held'
    BY <1>3, <2>1, Moved, Back DEF Register, Return
  <2>3. PICK timed \in BOOLEAN :
          replies' = [replies EXCEPT ![id] = [call |-> loc[t].call, timed |-> timed]]
    BY <1>3 DEF Register
  <2>4. TypeOK'
    BY <1>3, <1>b, <2>1, <2>2, <2>3 DEF Register, TypeOK
  <2>5. Carried'
    BY <1>3, <1>b, <2>1, <2>3 DEF Register, Carried, TypeOK
  <2> QED BY <2>2, <2>4, <2>5 DEF TypeInv
<1>4. CASE Enter(t)
  <2>1. id \in Id /\ loc[t].id \in Id /\ id' = id
    BY <1>4, <1>a, Numbers DEF Enter, Holding, NumberDrawn, IdInHand
  <2>2. /\ pc' \in [Thread -> Label] /\ loc' \in [Thread -> Locals]
        /\ Held'
    BY <1>4, <2>1, Moved, Back DEF Enter, Return
  <2>3. PICK c \in Fresh, i \in {loc[t].id, id} :
          /\ SetChan(c, [NoChannel EXCEPT !.id = i, !.given = TRUE])
          /\ channels' = [channels EXCEPT ![i] = c]
    BY <1>4 DEF Enter
  <2>4. c \in Chan /\ i \in Id /\ [NoChannel EXCEPT !.id = i, !.given = TRUE] \in Channel
        /\ Len([NoChannel EXCEPT !.id = i, !.given = TRUE].buf) <= ChanCap
    <3>1. c \in Chan /\ i \in Id
      BY <2>1 DEF Fresh
    <3>2. TRUE \in BOOLEAN
      OBVIOUS
    <3> QED BY <3>1, <3>2, Allocated
  <2>5. TypeOK'
    BY <1>4, <1>b, <2>1, <2>2, <2>3, <2>4 DEF Enter, TypeOK, SetChan
  <2>6. Carried'
    BY <1>4, <1>b DEF Enter, Carried
  <2> QED BY <2>2, <2>5, <2>6 DEF TypeInv
<1> QED BY <1>1, <1>2, <1>3, <1>4 DEF Sending

\* Accept, AcceptEnter and AcceptReply.
LEMMA KeepAccepting ==
  ASSUME TypeInv, NEW t \in Thread, Accepting(t)
  PROVE  TypeInv'
<1>a. loc[t] \in Locals /\ pc[t] \in Label /\ Holding(pc[t], loc[t], id)
  BY InHandTyped
<1>b. TypeOK /\ Held /\ Carried
  BY DEF TypeInv
<1>1. CASE Accept(t)
  <2>1. Head(accepts) \in Id /\ accepts' \in Seq(Id) /\ Len(accepts') <= AcceptCap
    BY <1>1, <1>b, BoundAssumption DEF Accept, TypeOK
  <2>2. /\ pc' \in [Thread -> Label] /\ loc' \in [Thread -> Locals]
        /\ Held'
    <3>1. CASE Move(t, "acceptEnter", [loc[t] EXCEPT !.id = Head(accepts)])
      <4>1. [loc[t] EXCEPT !.id = Head(accepts)] \in Locals
        BY <1>a, <2>1 DEF Locals
      <4>2. Holding("acceptEnter", [loc[t] EXCEPT !.id = Head(accepts)], id')
        BY <1>a, <2>1
           DEF Holding, ChannelInHand, ChanLabel, IdInHand, NumberDrawn, Locals
      <4> QED BY <1>1, <3>1, <4>1, <4>2, Moved, Labels DEF Accept
    <3>2. CASE Return(t)
      BY <1>1, <3>2, Moved, Back DEF Return, Accept
    <3> QED BY <1>1, <3>1, <3>2 DEF Accept
  <2>3. TypeOK'
    BY <1>1, <1>b, <2>1, <2>2 DEF Accept, TypeOK
  <2>4. Carried'
    BY <1>1, <1>b DEF Accept, Carried
  <2> QED BY <2>2, <2>3, <2>4 DEF TypeInv
<1>2. CASE AcceptEnter(t)
  <2>1. loc[t].id \in Id
    BY <1>2, <1>a DEF AcceptEnter, Holding, IdInHand
  <2>2. PICK c \in Fresh :
          /\ SetChan(c, [NoChannel EXCEPT !.id = loc[t].id])
          /\ channels' = [channels EXCEPT ![loc[t].id] = c]
          /\ Move(t, "acceptReply", [loc[t] EXCEPT !.ch = c])
    BY <1>2 DEF AcceptEnter
  <2>3. c \in Chan /\ [NoChannel EXCEPT !.id = loc[t].id] \in Channel
        /\ Len([NoChannel EXCEPT !.id = loc[t].id].buf) <= ChanCap
    <3>1. c \in Chan
      BY DEF Fresh
    <3> QED BY <2>1, <3>1, Allocated
  <2>4. [loc[t] EXCEPT !.ch = c] \in Locals
    BY <1>a, <2>3 DEF Locals
  <2>5. Holding("acceptReply", [loc[t] EXCEPT !.ch = c], id')
    BY <1>a, <2>3 DEF Holding, ChannelInHand, ChanLabel, IdInHand, NumberDrawn, Locals
  <2>6. /\ pc' \in [Thread -> Label] /\ loc' \in [Thread -> Locals]
        /\ Held'
    BY <1>2, <2>2, <2>4, <2>5, Moved, Labels DEF AcceptEnter
  <2>7. TypeOK'
    BY <1>2, <1>b, <2>1, <2>2, <2>3, <2>6 DEF AcceptEnter, TypeOK, SetChan
  <2>8. Carried'
    BY <1>2, <1>b DEF AcceptEnter, Carried
  <2> QED BY <2>6, <2>7, <2>8 DEF TypeInv
<1>3. CASE AcceptReply(t)
  <2>1. loc[t].ch \in Chan /\ InHand(t) \in Channel
    BY <1>3, InHandTyped DEF AcceptReply, ChannelInHand
  <2>2. /\ pc' \in [Thread -> Label] /\ loc' \in [Thread -> Locals]
        /\ Held'
    BY <1>3, Moved, Back DEF AcceptReply, Return
  <2>3. /\ [InHand(t) EXCEPT !.given = TRUE] \in Channel
        /\ [InHand(t) EXCEPT !.given = TRUE].buf = InHand(t).buf
    BY <2>1 DEF Channel
  <2>4. TypeOK'
    BY <1>3, <1>b, <2>1, <2>2, <2>3 DEF AcceptReply, TypeOK, SetChan, InHand
  <2>5. Carried'
    BY <1>3, <1>b DEF AcceptReply, Carried
  <2> QED BY <2>2, <2>4, <2>5 DEF TypeInv
<1> QED BY <1>1, <1>2, <1>3 DEF Accepting

\* A goroutine that goes on to a place where no more is in hand than where it is.
LEMMA OnlyWent ==
  ASSUME TypeInv, NEW t \in Thread, NEW l \in Label, Goto(t, l),
         l \notin IdInHand /\ l \notin NumberDrawn /\ l # "reply",
         l \in ChannelInHand => pc[t] \in ChannelInHand,
         l \in {"receive", "push"} => pc[t] \in {"receive", "push"},
         UNCHANGED <<senders, tables, chan, link>>
  PROVE  TypeInv'
<1>1. loc[t] \in Locals /\ Holding(pc[t], loc[t], id)
  BY InHandTyped
<1>2. Holding(l, loc[t], id)
  BY <1>1 DEF Holding
<1> QED BY <1>1, <1>2, OnlyMoved DEF Goto

\* One that changes the Channel in its hand, and goes on, or returns.
LEMMA ChannelChanged ==
  ASSUME TypeInv, NEW t \in Thread, pc[t] \in ChannelInHand, NEW f \in Channel,
         Len(f.buf) <= ChanCap, SetChan(loc[t].ch, f),
         NEW l \in Label, NEW m \in Locals, Move(t, l, m), Holding(l, m, id),
         UNCHANGED <<senders, tables, link>>
  PROVE  TypeInv'
<1>1. /\ pc' \in [Thread -> Label] /\ loc' \in [Thread -> Locals]
      /\ Held'
  BY Moved
<1>2. chan' \in [Chan -> Channel] /\ \A c \in Chan : Len(chan'[c].buf) <= ChanCap
  <2>1. loc[t].ch \in Chan
    BY InHandTyped
  <2> QED BY <2>1 DEF SetChan, TypeInv, TypeOK
<1>3. TypeOK'
  BY <1>1, <1>2 DEF TypeInv, TypeOK
<1>4. Carried'
  BY DEF TypeInv, Carried
<1> QED BY <1>1, <1>3, <1>4 DEF TypeInv

\* ChTest, ChMark and ChShut.
LEMMA KeepChannelClose ==
  ASSUME TypeInv, NEW t \in Thread, ChannelClose(t)
  PROVE  TypeInv'
<1>a. /\ pc[t] \in ChannelInHand /\ pc[t] \notin {"receive", "push"}
      /\ loc[t] \in Locals /\ Holding(pc[t], loc[t], id)
      /\ loc[t].ch \in Chan /\ InHand(t) \in Channel
  BY InHandTyped
     DEF ChannelClose, ChTest, ChMark, ChShut, ChannelInHand, ChanLabel
<1>b. Len(InHand(t).buf) <= ChanCap
  BY <1>a DEF TypeInv, TypeOK, InHand
<1>c. /\ loc[t].ret \in {"idle", "loop", "clIter"} /\ loc[t].ret \in Label
      /\ \A l \in {loc[t].ret, "chMark", "chShut", "panicked"} :
           l \in Label /\ Holding(l, loc[t], id)
  BY <1>a, Labels
     DEF Locals, Holding, ChannelInHand, ChanLabel, IdInHand, NumberDrawn
<1>d. PICK rest \in Locals : /\ Holding(loc[t].ret, rest, id)
                             /\ Resume(t) => Move(t, loc[t].ret, rest)
  <2>1. NoLocals \in Locals
    BY Back
  <2>2. loc[t].ret # "clIter" => Holding(loc[t].ret, NoLocals, id)
    BY <1>c DEF Holding, ChannelInHand, ChanLabel, IdInHand, NumberDrawn
  <2> QED BY <1>a, <1>c, <2>1, <2>2 DEF Resume
<1>1. CASE ChTest(t)
  <2>1. UNCHANGED <<senders, tables, chan, link>>
    BY <1>1 DEF ChTest
  <2>2. CASE Resume(t)
    BY <2>1, <2>2, <1>c, <1>d, OnlyMoved
  <2>3. CASE Goto(t, "chMark")
    BY <2>1, <2>3, <1>a, <1>c, OnlyMoved DEF Goto
  <2> QED BY <1>1, <2>2, <2>3 DEF ChTest
<1>2. CASE ChMark(t)
  <2> DEFINE f == [InHand(t) EXCEPT !.closed = TRUE, !.byUser = @ \/ t \in User]
  <2>1. f \in Channel /\ Len(f.buf) <= ChanCap
    BY <1>a, <1>b DEF Channel
  <2>2. SetChan(loc[t].ch, f) /\ Goto(t, "chShut") /\ UNCHANGED <<senders, tables, link>>
    BY <1>2 DEF ChMark
  <2> HIDE DEF f
  <2> QED BY <2>1, <2>2, <1>a, <1>c, ChannelChanged DEF Goto
<1>3. CASE ChShut(t)
  <2>1. CASE InHand(t).shut
    <3>1. Goto(t, "panicked") /\ UNCHANGED <<senders, tables, chan, link>>
      BY <1>3, <2>1 DEF ChShut, Panic
    <3> QED BY <3>1, <1>a, <1>c, OnlyMoved DEF Goto
  <2>2. CASE ~InHand(t).shut
    <3> DEFINE f == [InHand(t) EXCEPT !.shut = TRUE]
    <3>1. f \in Channel /\ Len(f.buf) <= ChanCap
      BY <1>a, <1>b DEF Channel
    <3>2. /\ SetChan(loc[t].ch, f) /\ Move(t, loc[t].ret, rest)
          /\ UNCHANGED <<senders, tables, link>>
      BY <1>3, <1>d, <2>2 DEF ChShut
    <3> HIDE DEF f
    <3> QED BY <3>1, <3>2, <1>a, <1>c, <1>d, ChannelChanged
  <2> QED BY <2>1, <2>2
<1> QED BY <1>1, <1>2, <1>3 DEF ChannelClose

\* Receive and Push.
LEMMA KeepReceiving ==
  ASSUME TypeInv, Receive \/ Push
  PROVE  TypeInv'
<1> DEFINE t == Loop
<1>t. t \in Thread
  BY DEF Thread
<1>a. /\ pc[t] \in {"receive", "push"} /\ pc[t] \in ChannelInHand
      /\ loc[t] \in Locals /\ Holding(pc[t], loc[t], id)
      /\ loc[t].ch \in Chan /\ InHand(t) \in Channel
      /\ loc[t].num \in 1 .. MaxData
  BY <1>t, InHandTyped DEF Receive, Push, ChannelInHand, Holding
<1>b. Len(InHand(t).buf) <= ChanCap
  BY <1>a DEF TypeInv, TypeOK, InHand
<1>c. \A l \in {"push", "panicked"} : l \in Label /\ Holding(l, loc[t], id)
  BY <1>a, Labels DEF Holding, ChannelInHand, ChanLabel, IdInHand, NumberDrawn
<1>d. NoLocals \in Locals /\ "loop" \in Label /\ Holding("loop", NoLocals, id)
  BY <1>t, Back, Labels DEF Holding, ChannelInHand, ChanLabel, IdInHand, NumberDrawn
<1>1. CASE Receive
  <2>1. UNCHANGED <<senders, tables, chan, link>>
    BY <1>1 DEF Receive
  <2>2. CASE Move(t, "loop", NoLocals)
    BY <2>1, <2>2, <1>t, <1>d, OnlyMoved
  <2>3. CASE Goto(t, "push")
    BY <2>1, <2>3, <1>t, <1>a, <1>c, OnlyMoved DEF Goto
  <2> QED BY <1>1, <2>2, <2>3 DEF Receive
<1>2. CASE Push
  <2>1. CASE InHand(t).shut
    <3>1. Goto(t, "panicked") /\ UNCHANGED <<senders, tables, chan, link>>
      BY <1>2, <2>1 DEF Push, Panic
    <3> QED BY <3>1, <1>t, <1>a, <1>c, OnlyMoved DEF Goto
  <2>2. CASE ~InHand(t).shut
    <3> DEFINE f == [InHand(t) EXCEPT !.buf = Append(@, loc[t].num)]
    <3>1. Len(InHand(t).buf) < ChanCap
      BY <1>2, <2>2 DEF Push
    <3>2. /\ InHand(t).buf \in Seq(1 .. MaxData)
          /\ Append(InHand(t).buf, loc[t].num) \in Seq(1 .. MaxData)
          /\ Len(Append(InHand(t).buf, loc[t].num)) = Len(InHand(t).buf) + 1
      BY <1>a DEF Channel
    <3>3. f \in Channel /\ Len(f.buf) <= ChanCap
      <4>1. f \in Channel
        BY <1>a, <3>2 DEF Channel
      <4>2. f.buf = Append(InHand(t).buf, loc[t].num)
        BY <1>a DEF Channel
      <4> QED BY <4>1, <4>2, <3>1, <3>2, BoundAssumption
    <3>4. /\ SetChan(loc[t].ch, f) /\ Move(t, "loop", NoLocals)
          /\ UNCHANGED <<senders, tables, link>>
      BY <1>2, <2>2 DEF Push
    <3> HIDE DEF f
    <3> QED BY <3>3, <3>4, <1>t, <1>a, <1>d, ChannelChanged
  <2> QED BY <2>1, <2>2
<1> QED BY <1>1, <1>2

\* ReadTest, ReadTake and ReadFails.
LEMMA KeepChannelUse ==
  ASSUME TypeInv, NEW t \in Thread, ChannelUse(t)
  PROVE  TypeInv'
<1>a. /\ pc[t] \in ChannelInHand
      /\ loc[t] \in Locals /\ Holding(pc[t], loc[t], id)
      /\ loc[t].ch \in Chan /\ InHand(t) \in Channel
  BY InHandTyped
     DEF ChannelUse, ReadTest, ReadTake, ReadFails, ChannelInHand, ChanLabel
<1>1. CASE Return(t) /\ UNCHANGED <<senders, tables, chan, link>>
  BY <1>1, OnlyReturned
<1>2. CASE ReadTest(t) /\ Goto(t, "wait")
  <2>1. Holding("wait", loc[t], id)
    BY <1>a DEF Holding, ChannelInHand, ChanLabel, IdInHand, NumberDrawn
  <2> QED BY <1>2, <2>1, <1>a, Labels, OnlyMoved DEF ReadTest, Goto
<1>3. CASE ReadTake(t)
  <2> DEFINE f == [InHand(t) EXCEPT !.taken = Head(InHand(t).buf), !.buf = Tail(@)]
  <2>1. InHand(t).buf \in Seq(1 .. MaxData) /\ InHand(t).buf # <<>>
        /\ Len(InHand(t).buf) <= ChanCap
    BY <1>3, <1>a DEF ReadTake, Channel, TypeInv, TypeOK, InHand
  <2>2. /\ Head(InHand(t).buf) \in 1 .. MaxData
        /\ Tail(InHand(t).buf) \in Seq(1 .. MaxData)
        /\ Len(Tail(InHand(t).buf)) <= ChanCap
    <3> DEFINE q == InHand(t).buf
               S == 1 .. MaxData
    <3>1. q \in Seq(S) /\ q # <<>> /\ Len(q) <= ChanCap
      BY <2>1
    <3> HIDE DEF q, S
    <3>2. Head(q) \in S /\ Tail(q) \in Seq(S) /\ Len(Tail(q)) = Len(q) - 1
      BY <3>1, HeadTailProperties
    <3>3. Len(q) \in Nat
      BY <3>1, LenProperties
    <3>4. Len(Tail(q)) <= ChanCap
      BY <3>1, <3>2, <3>3, BoundAssumption
    <3> QED BY <3>2, <3>4 DEF q, S
  <2>3. f \in Channel /\ Len(f.buf) <= ChanCap
    <3>1. Head(InHand(t).buf) \in 0 .. MaxData
      BY <2>2
    <3>2. f = [[InHand(t) EXCEPT !.taken = Head(InHand(t).buf)]
                         EXCEPT !.buf = Tail(InHand(t).buf)]
      BY <1>a DEF Channel
    <3>3. [InHand(t) EXCEPT !.taken = Head(InHand(t).buf)] \in Channel
      BY <1>a, <3>1 DEF Channel
    <3>4. f \in Channel /\ f.buf = Tail(InHand(t).buf)
      BY <2>2, <3>2, <3>3 DEF Channel
    <3> QED BY <2>2, <3>4
  <2>4. /\ SetChan(loc[t].ch, f) /\ Return(t) /\ UNCHANGED <<senders, tables, link>>
    BY <1>3 DEF ReadTake
  <2> HIDE DEF f
  <2> QED BY <2>3, <2>4, <1>a, Back, ChannelChanged DEF Return
<1> QED BY <1>1, <1>2, <1>3 DEF ChannelUse, ReadTest, ReadFails

\* Close and triggerClose.
LEMMA KeepClosing ==
  ASSUME TypeInv, NEW t \in Thread, Closing(t)
  PROVE  TypeInv'
<1>a. loc[t] \in Locals /\ pc[t] \in Label /\ Holding(pc[t], loc[t], id)
  BY InHandTyped
<1>b. TypeOK /\ Held /\ Carried
  BY DEF TypeInv
<1>c. \A l \in {"clWrite", "clIter", "clClear", "trTest", "trSet"} :
        l \in Label /\ \A f : Holding(l, f, id)
  BY Labels DEF Holding, ChannelInHand, ChanLabel, IdInHand, NumberDrawn
<1>1. CASE ClTest(t) \/ TrTest(t)
  <2>1. UNCHANGED <<senders, tables, chan, link>>
    BY <1>1 DEF ClTest, TrTest
  <2>2. Return(t) \/ \E l \in {"clWrite", "trSet"} : Goto(t, l)
    BY <1>1 DEF ClTest, TrTest
  <2> QED BY <2>1, <2>2, <1>a, <1>c, OnlyReturned, OnlyMoved DEF Goto
<1>2. CASE ClWrite(t)
  <2> DEFINE f == [loc[t] EXCEPT !.seen = {}, !.todo = {channels[i] : i \in Id} \ {None}]
  <2>1. f \in Locals
    <3>1. {channels[i] : i \in Id} \ {None} \in SUBSET Chan
      BY <1>b DEF TypeOK
    <3> QED BY <1>a, <3>1 DEF Locals
  <2>2. Move(t, "clIter", f)
    BY <1>2 DEF ClWrite
  <2> HIDE DEF f
  <2>3. /\ pc' \in [Thread -> Label] /\ loc' \in [Thread -> Locals]
        /\ Held'
    BY <1>2, <2>1, <2>2, <1>c, Moved DEF ClWrite
  <2>4. TypeOK' /\ Carried'
    BY <1>2, <1>b, <2>3 DEF ClWrite, TypeOK, Carried
  <2> QED BY <2>3, <2>4 DEF TypeInv
<1>3. CASE ClIter(t)
  <2>1. UNCHANGED <<senders, tables, chan, link>>
    BY <1>3 DEF ClIter
  <2>2. CASE Goto(t, "clClear")
    BY <2>1, <2>2, <1>a, <1>c, OnlyMoved DEF Goto
  <2>3. ASSUME NEW c \in Chan,
               Move(t, "chTest", [loc[t] EXCEPT !.ch = c, !.ret = "clIter",
                                                !.seen = @ \cup {c}])
        PROVE  TypeInv'
    <3> DEFINE f == [loc[t] EXCEPT !.ch = c, !.ret = "clIter", !.seen = @ \cup {c}]
    <3>1. f \in Locals /\ f.ch = c
      BY <1>a DEF Locals
    <3>2. Holding("chTest", f, id)
      BY <3>1 DEF Holding, ChannelInHand, ChanLabel, IdInHand, NumberDrawn
    <3>3. Move(t, "chTest", f)
      BY <2>3
    <3> HIDE DEF f
    <3> QED BY <2>1, <3>1, <3>2, <3>3, Labels, OnlyMoved
  <2> QED BY <1>3, <2>2, <2>3 DEF ClIter
<1>4. CASE ClClear(t)
  <2>1. /\ pc' \in [Thread -> Label] /\ loc' \in [Thread -> Locals]
        /\ Held'
    BY <1>4, <1>a, <1>c, Moved DEF ClClear, Goto
  <2>2. TypeOK' /\ Carried'
    BY <1>4, <1>b, <2>1 DEF ClClear, TypeOK, Carried
  <2> QED BY <2>1, <2>2 DEF TypeInv
<1>5. CASE TrSet(t)
  <2>1. /\ pc' \in [Thread -> Label] /\ loc' \in [Thread -> Locals]
        /\ Held'
    BY <1>5, Moved, Back DEF TrSet, Return
  <2>2. TypeOK' /\ Carried'
    BY <1>5, <1>b, <2>1 DEF TrSet, TypeOK, Carried
  <2> QED BY <2>1, <2>2 DEF TypeInv
<1> QED BY <1>1, <1>2, <1>3, <1>4, <1>5 DEF Closing

\* A call of the application.
LEMMA KeepCall ==
  ASSUME TypeInv, NEW u \in User, Call(u)
  PROVE  TypeInv'
<1>1. u \in Thread
  BY DEF Thread
<1>2. PICK op \in Calls[u] :
        \/ /\ op \notin OnChannel
           /\ Move(u, FirstLabel[op], [NoLocals EXCEPT !.op = op])
        \/ /\ op \in OnChannel
           /\ \E c \in Chan :
                /\ chan[c].given
                /\ Move(u, FirstLabel[op], [NoLocals EXCEPT !.op = op, !.ch = c])
  BY DEF Call
<1>3. op \in Op /\ FirstLabel[op] \in Label
  BY CallAssumption, Labels DEF Op, FirstLabel
<1>4. UNCHANGED <<senders, tables, chan, link>>
  BY DEF Call
<1>5. CASE op \notin OnChannel /\ Move(u, FirstLabel[op], [NoLocals EXCEPT !.op = op])
  <2> DEFINE f == [NoLocals EXCEPT !.op = op]
  <2>1. f \in Locals
    BY <1>3, Back, <1>1 DEF Locals
  <2>2. FirstLabel[op] \in {"draw", "accept", "clTest"}
    BY <1>3, <1>5 DEF OnChannel, FirstLabel, Op
  <2>3. Holding(FirstLabel[op], f, id)
    BY <2>2 DEF Holding, ChannelInHand, ChanLabel, IdInHand, NumberDrawn
  <2>4. Move(u, FirstLabel[op], f)
    BY <1>5
  <2> HIDE DEF f
  <2> QED BY <1>1, <1>3, <1>4, <2>1, <2>3, <2>4, OnlyMoved
<1>6. ASSUME op \in OnChannel, NEW c \in Chan,
             Move(u, FirstLabel[op], [NoLocals EXCEPT !.op = op, !.ch = c])
      PROVE  TypeInv'
  <2> DEFINE f == [NoLocals EXCEPT !.op = op, !.ch = c]
  <2>1. f \in Locals /\ f.ch = c
    BY <1>3, Back, <1>1 DEF Locals
  <2>2. FirstLabel[op] \in {"read", "chTest"}
    BY <1>3, <1>6 DEF OnChannel, FirstLabel, Op
  <2>3. Holding(FirstLabel[op], f, id)
    BY <2>1, <2>2 DEF Holding, ChannelInHand, ChanLabel, IdInHand, NumberDrawn
  <2>4. Move(u, FirstLabel[op], f)
    BY <1>6
  <2> HIDE DEF f
  <2> QED BY <1>1, <1>3, <1>4, <2>1, <2>3, <2>4, OnlyMoved
<1> QED BY <1>2, <1>5, <1>6

\* What has arrived fits what the read loop does with it.
LEMMA Arriving ==
  ASSUME TypeInv, inbox # <<>>
  PROVE  Arrived \in Sendable /\ Tail(inbox) \in Seq(Sendable)
<1>1. inbox \in Seq(Sendable)
  BY DEF TypeInv, Carried
<1> HIDE DEF Sendable
<1> QED BY <1>1, HeadTailProperties DEF Arrived

\* The read loop has read a packet, and goes on with what it needs of it.
LEMMA PacketRead ==
  ASSUME TypeInv, inbox' \in Seq(Sendable),
         wire' \in [in : {"open", "bye", "broken"}, out : {"open", "shut", "broken"}],
         UNCHANGED <<senders, tables, chan, peer>>,
         pc' \in [Thread -> Label] /\ loc' \in [Thread -> Locals] /\ Held'
  PROVE  TypeInv'
<1>1. inbox' \in Seq(Packet)
  BY DEF Sendable
<1>2. TypeOK'
  BY <1>1 DEF TypeInv, TypeOK
<1>3. Carried'
  BY DEF TypeInv, Carried
<1> QED BY <1>2, <1>3 DEF TypeInv

\* The read loop, from a packet to the place that handles it.
LEMMA KeepReadLoop ==
  ASSUME TypeInv, ReadLoop
  PROVE  TypeInv'
<1>t. Loop \in Thread
  BY DEF Thread
<1>a. loc[Loop] \in Locals /\ pc[Loop] \in Label /\ Holding(pc[Loop], loc[Loop], id)
  BY <1>t, InHandTyped
<1>b. TypeOK /\ Held /\ Carried
  BY DEF TypeInv
<1>c. "loop" \in Label /\ \A f : Holding("loop", f, id)
  BY Labels DEF Holding, ChannelInHand, ChanLabel, IdInHand, NumberDrawn
<1>d. NoLocals \in Locals
  BY <1>t, Back
<1>r. ASSUME Reads, inbox' = Tail(inbox), UNCHANGED <<senders, tables, chan, wire, peer>>,
             NEW l \in Label, NEW f \in Locals, Move(Loop, l, f), Holding(l, f, id)
      PROVE  TypeInv'
  <2>1. pc' \in [Thread -> Label] /\ loc' \in [Thread -> Locals] /\ Held'
    BY <1>t, <1>r, Moved
  <2>2. inbox' \in Seq(Sendable)
    BY <1>r, Arriving DEF Reads
  <2>3. wire' \in [in : {"open", "bye", "broken"}, out : {"open", "shut", "broken"}]
    BY <1>b, <1>r DEF TypeOK
  <2> QED BY <1>r, <2>1, <2>2, <2>3, PacketRead
<1>1. CASE LoopChannel
  <2>1. Reads /\ inbox' = Tail(inbox) /\ UNCHANGED <<senders, tables, chan, wire, peer>>
    BY <1>1 DEF LoopChannel
  <2>2. /\ Arrived \in Sendable /\ Arrived.kind \in {"open", "data", "close"}
        /\ Entered # None
    BY <1>1, <2>1, Arriving DEF LoopChannel, Reads
  <2>3. Entered \in Chan /\ (Arrived.kind = "data" => Arrived.num \in 1 .. MaxData)
    BY <2>2, <1>b DEF Sendable, Entered, TypeOK
  <2>4. CASE Move(Loop, "loop", NoLocals)
    BY <2>1, <2>4, <1>c, <1>d, <1>r
  <2>5. CASE /\ Arrived.kind = "data"
             /\ Move(Loop, "receive", [NoLocals EXCEPT !.ch = Entered,
                                                       !.num = Arrived.num])
    <3> DEFINE f == [NoLocals EXCEPT !.ch = Entered, !.num = Arrived.num]
    <3>1. Arrived.num \in Int
      BY <2>3, <2>5, BoundAssumption
    <3>2. f \in Locals /\ f.ch = Entered /\ f.num = Arrived.num
      BY <1>d, <2>3, <3>1 DEF Locals
    <3>3. Holding("receive", f, id)
      BY <2>3, <2>5, <3>2 DEF Holding, ChannelInHand, ChanLabel, IdInHand, NumberDrawn
    <3>4. Move(Loop, "receive", f)
      BY <2>5
    <3> HIDE DEF f
    <3> QED BY <1>r, <2>1, <3>2, <3>3, <3>4, Labels
  <2>6. CASE Move(Loop, "chTest", [NoLocals EXCEPT !.ch = Entered, !.ret = "loop"])
    <3> DEFINE f == [NoLocals EXCEPT !.ch = Entered, !.ret = "loop"]
    <3>2. f \in Locals /\ f.ch = Entered
      BY <1>d, <2>3 DEF Locals
    <3>3. Holding("chTest", f, id)
      BY <2>3, <3>2 DEF Holding, ChannelInHand, ChanLabel, IdInHand, NumberDrawn
    <3>4. Move(Loop, "chTest", f)
      BY <2>6
    <3> HIDE DEF f
    <3> QED BY <1>r, <2>1, <3>2, <3>3, <3>4, Labels
  <2> QED BY <1>1, <2>4, <2>5, <2>6 DEF LoopChannel
<1>2. CASE LoopNoChannel
  <2>1. Reads /\ inbox' = Tail(inbox) /\ UNCHANGED <<senders, tables, chan, wire, peer>>
    BY <1>2 DEF LoopNoChannel
  <2>2. Arrived \in Sendable /\ Arrived.kind \in {"open", "data", "close"}
    BY <1>2, <2>1, Arriving DEF LoopNoChannel, Reads
  <2>3. CASE Move(Loop, "loop", NoLocals)
    BY <2>1, <2>3, <1>c, <1>d, <1>r
  <2>4. CASE Move(Loop, "queue", [NoLocals EXCEPT !.id = Arrived.id])
    <3> DEFINE f == [NoLocals EXCEPT !.id = Arrived.id]
    <3>1. Arrived.id \in Id
      BY <2>2 DEF Sendable
    <3>2. f \in Locals /\ f.id = Arrived.id
      BY <1>d, <3>1 DEF Locals
    <3>3. Holding("queue", f, id)
      BY <3>1, <3>2 DEF Holding, ChannelInHand, ChanLabel, IdInHand, NumberDrawn
    <3>4. Move(Loop, "queue", f)
      BY <2>4
    <3> HIDE DEF f
    <3> QED BY <1>r, <2>1, <3>2, <3>3, <3>4, Labels
  <2> QED BY <1>2, <2>3, <2>4 DEF LoopNoChannel
<1>3. CASE Queue
  <2>1. loc[Loop].id \in Id
    BY <1>3, <1>a DEF Queue, Holding, IdInHand
  <2>2. accepts' \in Seq(Id) /\ Len(accepts') <= AcceptCap
    BY <1>3, <1>b, <2>1, BoundAssumption DEF Queue, TypeOK
  <2>3. pc' \in [Thread -> Label] /\ loc' \in [Thread -> Locals] /\ Held'
    BY <1>3, <1>t, <1>d, <1>c, Moved DEF Queue
  <2>4. TypeOK' /\ Carried'
    BY <1>3, <1>b, <2>2, <2>3 DEF Queue, TypeOK, Carried
  <2> QED BY <2>3, <2>4 DEF TypeInv
<1>4. CASE LoopMessage
  <2>1. Reads /\ inbox' = Tail(inbox) /\ UNCHANGED <<senders, tables, chan, wire, peer>>
    BY <1>4 DEF LoopMessage
  <2>2. Arrived \in Sendable /\ Arrived.kind = "message"
    BY <1>4, <2>1, Arriving DEF LoopMessage, Reads
  <2> DEFINE f == [NoLocals EXCEPT !.id = Arrived.id]
  <2>3. Arrived.id \in Id \cup {0}
    BY <2>2 DEF Sendable, Packet
  <2>4. f \in Locals
    BY <1>d, <2>3 DEF Locals
  <2>5. Holding("reply", f, id)
    BY DEF Holding, ChannelInHand, ChanLabel, IdInHand, NumberDrawn
  <2>6. Move(Loop, "reply", f)
    BY <1>4 DEF LoopMessage
  <2> HIDE DEF f
  <2> QED BY <1>r, <2>1, <2>4, <2>5, <2>6, Labels
<1>5. CASE Reply
  <2>1. pc' \in [Thread -> Label] /\ loc' \in [Thread -> Locals] /\ Held'
    BY <1>5, <1>t, <1>d, <1>c, Moved DEF Reply
  <2>2. heard' \in [OwnId -> SUBSET OwnId]
    <3>1. CASE /\ loc[Loop].id \in OwnId /\ replies[loc[Loop].id] # NoReply
               /\ heard' = [heard EXCEPT ![replies[loc[Loop].id].call] =
                                            @ \cup {loc[Loop].id}]
      BY <1>b, <3>1 DEF TypeOK
    <3> QED BY <1>5, <1>b, <3>1 DEF Reply, TypeOK
  <2>3. TypeOK' /\ Carried'
    BY <1>5, <1>b, <2>1, <2>2 DEF Reply, TypeOK, Carried
  <2> QED BY <2>1, <2>3 DEF TypeInv
<1>6. CASE LoopError
  <2>1. pc' \in [Thread -> Label] /\ loc' \in [Thread -> Locals] /\ Held'
    <3>1. Holding("clTest", NoLocals, id)
      BY DEF Holding, ChannelInHand, ChanLabel, IdInHand, NumberDrawn
    <3> QED BY <1>6, <1>t, <1>d, <3>1, Moved, Labels DEF LoopError
  <2>2. inbox' \in Seq(Sendable)
    BY <1>6, <1>b, Arriving DEF LoopError, Reads, Carried
  <2>3. wire' \in [in : {"open", "bye", "broken"}, out : {"open", "shut", "broken"}]
    BY <1>6, <1>b DEF LoopError, TypeOK
  <2> QED BY <1>6, <2>1, <2>2, <2>3, PacketRead DEF LoopError
<1>7. CASE LoopTest
  <2>1. Holding("reading", NoLocals, id)
    BY DEF Holding, ChannelInHand, ChanLabel, IdInHand, NumberDrawn
  <2> QED BY <1>7, <1>t, <1>d, <2>1, Labels, OnlyMoved DEF LoopTest
<1> QED BY <1>1, <1>2, <1>3, <1>4, <1>5, <1>6, <1>7, KeepReceiving DEF ReadLoop

\* The ping goroutine, which gets stuck with an identifier in hand.
LEMMA KeepPinging ==
  ASSUME TypeInv, Pinging
  PROVE  TypeInv'
<1>1. Ping \in Thread
  BY DEF Thread
<1>2. loc[Ping] \in Locals
  BY <1>1, InHandTyped
<1>3. \A l \in {"trTest", "stuck"} : l \in Label /\ \A f : Holding(l, f, id)
  BY Labels DEF Holding, ChannelInHand, ChanLabel, IdInHand, NumberDrawn
<1>4. CASE Round
  BY <1>4, <1>1, <1>2, <1>3, OnlyReturned, OnlyMoved DEF Round, Goto
<1>5. CASE Expire
  <2>1. PICK i \in OwnId : Move(Ping, "stuck", [loc[Ping] EXCEPT !.id = i])
    BY <1>5 DEF Expire
  <2> DEFINE f == [loc[Ping] EXCEPT !.id = i]
  <2>2. f \in Locals
    BY <1>2, Numbers DEF Locals
  <2>3. Move(Ping, "stuck", f)
    BY <2>1
  <2> HIDE DEF f
  <2> QED BY <1>5, <1>1, <1>3, <2>2, <2>3, OnlyMoved DEF Expire
<1> QED BY <1>4, <1>5 DEF Pinging

\* A packet is sent.
LEMMA Posted ==
  ASSUME TypeInv, NEW p \in Sendable, Post(p)
  PROVE  inbox' \in Seq(Sendable)
BY AppendProperties DEF Post, TypeInv, Carried

\* The peer sends, and what it knows of the connection stays typed.
LEMMA OnlySent ==
  ASSUME TypeInv, inbox' \in Seq(Sendable), UNCHANGED <<senders, tables, chan, pc, loc>>,
         wire' \in [in : {"open", "bye", "broken"}, out : {"open", "shut", "broken"}],
         peer' \in [data : [Id -> 0 .. MaxData], sent : 0 .. MaxData,
                    told : SUBSET [id : OwnId, num : OwnId]],
         \A i \in Id : peer'.data[i] <= peer'.sent
  PROVE  TypeInv'
<1>1. inbox' \in Seq(Packet)
  BY DEF Sendable
<1>2. TypeOK'
  BY <1>1 DEF TypeInv, TypeOK
<1>3. Held' /\ Carried'
  BY DEF TypeInv, Held, Holding, Carried
<1> QED BY <1>2, <1>3 DEF TypeInv

\* The peer sends numbered packets.
LEMMA KeepPeerSends ==
  ASSUME TypeInv, PeerSends
  PROVE  TypeInv'
<1> DEFINE Peer == [data : [Id -> 0 .. MaxData], sent : 0 .. MaxData,
                    told : SUBSET [id : OwnId, num : OwnId]]
<1>a. peer \in Peer /\ \A i \in Id : peer.data[i] <= peer.sent
  BY DEF TypeInv, TypeOK, Carried
<1>b. wire' \in [in : {"open", "bye", "broken"}, out : {"open", "shut", "broken"}]
  BY DEF PeerSends, TypeInv, TypeOK
<1>c. UNCHANGED <<senders, tables, chan, pc, loc>>
  BY DEF PeerSends
<1>d. \A k \in Kind, i \in Id \cup {0}, n \in Int :
        /\ Numbered(k, i, n) \in Packet /\ Numbered(k, i, n).kind = k
        /\ Numbered(k, i, n).id = i /\ Numbered(k, i, n).num = n
  BY DEF Numbered, Packet
<1>1. ASSUME NEW i \in Id, NEW k \in {"open", "close", "message"}, PeerPosts(k, i)
      PROVE  TypeInv'
  <2>1. Post(Numbered(k, i, 0)) /\ UNCHANGED peer
    BY <1>1 DEF PeerPosts
  <2>2. Numbered(k, i, 0) \in Sendable
    BY <1>d, <2>1 DEF Sendable, Kind
  <2>3. inbox' \in Seq(Sendable)
    BY <2>1, <2>2, Posted
  <2> QED BY <1>a, <1>b, <1>c, <2>1, <2>3, OnlySent
<1>2. ASSUME NEW i \in Id, PeerData(i)
      PROVE  TypeInv'
  <2>1. peer.data[i] \in 0 .. MaxData /\ peer.sent \in 0 .. MaxData
    BY <1>a
  <2>2. peer.data[i] + 1 \in 1 .. MaxData /\ peer.sent + 1 \in 0 .. MaxData
    BY <1>2, <1>a, <2>1, BoundAssumption DEF PeerData
  <2>3. Numbered("data", i, peer.data[i] + 1) \in Sendable
    BY <1>d, <2>2 DEF Sendable, Kind
  <2>4. inbox' \in Seq(Sendable)
    BY <1>2, <2>3, Posted DEF PeerData
  <2>5. peer' = [peer EXCEPT !.data[i] = @ + 1, !.sent = @ + 1]
    BY <1>2 DEF PeerData
  <2>6. /\ peer' \in Peer
        /\ peer'.sent = peer.sent + 1
        /\ peer'.data = [peer.data EXCEPT ![i] = @ + 1]
    <3>1. [peer.data EXCEPT ![i] = @ + 1] \in [Id -> 0 .. MaxData]
      BY <1>a, <2>1, <2>2
    <3> QED BY <1>a, <2>2, <2>5, <3>1
  <2>7. \A j \in Id : peer'.data[j] <= peer'.sent
    BY <1>a, <2>1, <2>6, BoundAssumption
  <2> QED BY <1>b, <1>c, <2>4, <2>6, <2>7, OnlySent
<1> QED BY <1>1, <1>2 DEF PeerSends

\* The peer and the network change the queue and the wire only.
LEMMA KeepEnvironment ==
  ASSUME TypeInv, Environment
  PROVE  TypeInv'
<1>a. TypeOK /\ Carried
  BY DEF TypeInv
<1>1. CASE PeerBye
  <2>1. Numbered("garbage", 0, 0) \in Sendable
    BY DEF Sendable, Numbered, Packet, Kind
  <2>2. inbox' \in Seq(Sendable)
    BY <1>1, <1>a, <2>1, AppendProperties DEF PeerBye, Carried
  <2>3. wire' \in [in : {"open", "bye", "broken"}, out : {"open", "shut", "broken"}]
    BY <1>1, <1>a DEF PeerBye, TypeOK
  <2> QED BY <1>1, <1>a, <2>2, <2>3, OnlySent DEF PeerBye, TypeOK, Carried
<1>2. CASE Break
  <2>1. inbox' \in Seq(Sendable)
    <3>1. inbox' = inbox \/ inbox' = <<>>
      BY <1>2 DEF Break
    <3>2. <<>> \in Seq(Sendable)
      BY EmptySeq
    <3> QED BY <1>a, <3>1, <3>2 DEF Carried
  <2>2. wire' \in [in : {"open", "bye", "broken"}, out : {"open", "shut", "broken"}]
    BY <1>2, <1>a DEF Break, TypeOK
  <2> QED BY <1>2, <1>a, <2>1, <2>2, OnlySent DEF Break, TypeOK, Carried
<1> QED BY <1>1, <1>2, KeepPeerSends DEF Environment

-----------------------------------------------------------------------------
\* A new connection is typed.
LEMMA TypeInit ==
  ASSUME Init
  PROVE  TypeInv
<1>1. /\ id = 0 /\ 0 \in -MaxId .. 0 /\ 0 \in 0 .. MaxData
      /\ 0 \in OwnId \cup {0}
  BY BoundAssumption DEF Init
<1>2. replies \in [OwnId -> [call : OwnId \cup {0}, timed : BOOLEAN]]
  BY <1>1 DEF Init, NoReply
<1>3. accepts \in Seq(Id) /\ Len(accepts) <= AcceptCap
  BY BoundAssumption DEF Init
<1>4. chan \in [Chan -> Channel] /\ \A c \in Chan : Len(chan[c].buf) <= ChanCap
  <2>1. NoChannel \in Channel /\ Len(NoChannel.buf) <= ChanCap
    <3>1. <<>> \in Seq(1 .. MaxData) /\ Len(<<>>) <= ChanCap
      BY BoundAssumption
    <3> QED BY <1>1, <3>1 DEF NoChannel, Channel
  <2> QED BY <2>1 DEF Init
<1>5. inbox \in Seq(Packet) /\ inbox \in Seq(Sendable)
  BY DEF Init
<1>6. /\ peer \in [data : [Id -> 0 .. MaxData], sent : 0 .. MaxData,
                   told : SUBSET [id : OwnId, num : OwnId]]
      /\ \A i \in Id : peer.data[i] <= peer.sent
  BY <1>1 DEF Init
<1>7. heard \in [OwnId -> SUBSET OwnId] /\ overlapped \subseteq OwnId
  BY <1>1 DEF Init
<1>8. /\ pc \in [Thread -> Label]
      /\ \A t \in Thread : pc[t] \in {"loop", "ping", "idle"}
  BY Labels DEF Init
<1>9. loc \in [Thread -> Locals]
  BY Back DEF Init
<1>10. TypeOK
  BY <1>1, <1>2, <1>3, <1>4, <1>5, <1>6, <1>7, <1>8, <1>9 DEF Init, TypeOK
<1>11. Held
  BY <1>8 DEF Held, Holding, ChannelInHand, ChanLabel, IdInHand, NumberDrawn
<1>12. Carried
  BY <1>5, <1>6 DEF Init, Carried
<1> QED BY <1>10, <1>11, <1>12 DEF TypeInv

\* Every step keeps the types.
LEMMA TypeNext ==
  ASSUME TypeInv, [Next]_vars
  PROVE  TypeInv'
<1>1. CASE UNCHANGED vars
  BY <1>1 DEF vars, TypeInv, TypeOK, Held, Holding, Carried
<1>2. CASE Next
  <2>1. ASSUME NEW t \in Thread, Step(t) PROVE TypeInv'
    BY <2>1, KeepSending, KeepAccepting, KeepChannelClose, KeepChannelUse, KeepClosing
       DEF Step
  <2> QED BY <1>2, <2>1, KeepCall, KeepReadLoop, KeepPinging, KeepEnvironment DEF Next
<1> QED BY <1>1, <1>2

\* Whatever a connection's goroutines, its peer and the network do, a place in a
\* function has the Channel, the identifier or the packet in hand it works on.
THEOREM TypeInvariant == Spec => []TypeInv
<1>1. Init => TypeInv
  BY TypeInit
<1>2. TypeInv /\ [Next]_vars => TypeInv'
  BY TypeNext
<1> QED BY <1>1, <1>2, PTL DEF Spec

\* RpcState's variables keep their types: the queues' capacities are respected,
\* the counter does not pass its bound, a callback is called for a number drawn.
THEOREM TypeCorrect == Spec => []TypeOK
<1>1. TypeInv => TypeOK
  BY DEF TypeInv
<1> QED BY <1>1, TypeInvariant, PTL
===============================================================================
