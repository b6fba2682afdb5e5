------------------------------ MODULE RpcDelivery ------------------------------
(***************************************************************************)
(* Channels, for any number of goroutines, Channels and packets.           *)
(* PanicNeedsCloser: a Channel that no goroutine of the application has    *)
(* marked closed is marked and shut by the read loop alone, which does the *)
(* one before the other. ChannelsAreFifo: the data on its way for an       *)
(* identifier follows, without a hole, what the Channel in the map under   *)
(* it was given or what the read loop has in hand for it: so what Push     *)
(* sends on a Channel is what comes next there.                            *)
(***************************************************************************)
EXTENDS RpcTyping

USE DEF tables, link, senders

-----------------------------------------------------------------------------
(* Who closes a Go channel.                                                *)

PingPlaces == {"ping", "stuck", "trTest", "trSet", "ended"}

Handed == ChannelInHand \cup {"panicked"}

(* What goroutine t relies on at l, with locals f, of the Channels k. The  *)
(* Channel in its hand has been allocated. The read loop has tested the    *)
(* Channel it marks, has marked the one it shuts, and sends on one that is *)
(* not shut, unless the application closes it.                             *)
Orderly(t, l, f, k) ==
  /\ l \in Handed => f.ch \in Chan /\ k[f.ch].id # 0
  /\ t = Ping => l \in PingPlaces
  /\ l = "panicked" => k[f.ch].byUser
  /\ l = "chShut" => k[f.ch].closed /\ (t # Loop => k[f.ch].byUser)
  /\ t = Loop =>
       /\ l = "chMark" => k[f.ch].byUser \/ ~k[f.ch].closed
       /\ l = "chShut" => k[f.ch].byUser \/ ~k[f.ch].shut
       /\ l = "push"   => k[f.ch].byUser \/ ~k[f.ch].shut

AllOrderly == \A t \in Thread : Orderly(t, pc[t], loc[t], chan)

(* A Channel is in the map under its own identifier, and one that has none *)
(* has not been touched.                                                   *)
Known ==
  /\ \A i \in Id : channels[i] # None => chan[channels[i]].id = i
  /\ \A c \in Chan : chan[c].id = 0 => chan[c] = NoChannel

ShutLast == \A c \in Chan : chan[c].shut => chan[c].closed

CloseInv == AllOrderly /\ Known /\ ShutLast

-----------------------------------------------------------------------------
\* A goroutine with no Channel in hand relies on none.
LEMMA Away ==
  ASSUME NEW t \in Thread, NEW l, NEW f, NEW k,
         l \notin Handed, t = Ping => l \in PingPlaces
  PROVE  Orderly(t, l, f, k)
BY DEF Orderly, Handed, ChannelInHand, ChanLabel

\* A goroutine that returns has none.
LEMMA ReturnAway ==
  ASSUME NEW t \in Thread
  PROVE  \A k : Orderly(t, Home(t), NoLocals, k)
<1>1. Home(t) \notin Handed /\ (t = Ping => Home(t) \in PingPlaces)
  BY ThreadAssumption DEF Home, Handed, ChannelInHand, ChanLabel, PingPlaces
<1> QED BY <1>1, Away

\* The ping goroutine has none either.
LEMMA NotPing ==
  ASSUME CloseInv, NEW t \in Thread, pc[t] \notin PingPlaces
  PROVE  t # Ping
BY DEF CloseInv, AllOrderly, Orderly

\* A goroutine relies on its Channel's identifier and its three flags.
LEMMA SameFlags ==
  ASSUME NEW t \in Thread, NEW l, NEW f, Orderly(t, l, f, chan),
         l \in Handed => /\ chan'[f.ch].id = chan[f.ch].id
                         /\ chan'[f.ch].closed = chan[f.ch].closed
                         /\ chan'[f.ch].shut = chan[f.ch].shut
                         /\ chan'[f.ch].byUser = chan[f.ch].byUser
  PROVE  Orderly(t, l, f, chan')
BY DEF Orderly, Handed, ChannelInHand, ChanLabel

\* A step of t that changes no Channel's flags, and enters no Channel in the map.
LEMMA KeepFlags ==
  ASSUME TypeInv, CloseInv, NEW t \in Thread, NEW l, NEW f, Move(t, l, f),
         Orderly(t, l, f, chan),
         \A c \in Chan : /\ chan'[c].id = chan[c].id
                         /\ chan'[c].closed = chan[c].closed
                         /\ chan'[c].shut = chan[c].shut
                         /\ chan'[c].byUser = chan[c].byUser
                         /\ chan[c].id = 0 => chan'[c] = chan[c],
         \A i \in Id : channels'[i] \in {channels[i], None}
  PROVE  CloseInv'
<1>1. ASSUME NEW s \in Thread PROVE Orderly(s, pc'[s], loc'[s], chan')
  <2>1. Orderly(s, pc'[s], loc'[s], chan)
    BY Moves DEF CloseInv, AllOrderly
  <2>2. pc'[s] \in Handed => loc'[s].ch \in Chan
    BY <2>1 DEF Orderly
  <2> QED BY <2>1, <2>2, SameFlags
<1>2. Known'
  <2>1. \A i \in Id : channels[i] \in Chan \cup {None}
    BY DEF TypeInv, TypeOK
  <2> QED BY <2>1 DEF CloseInv, Known
<1>3. ShutLast'
  BY DEF CloseInv, ShutLast
<1> QED BY <1>1, <1>2, <1>3 DEF CloseInv, AllOrderly

\* One that changes no Channel.
LEMMA KeepChannels ==
  ASSUME TypeInv, CloseInv, NEW t \in Thread, NEW l, NEW f, Move(t, l, f),
         Orderly(t, l, f, chan), UNCHANGED <<chan, channels>>
  PROVE  CloseInv'
BY KeepFlags

\* One that changes what is not a flag of the Channel in its hand.
LEMMA KeepInHand ==
  ASSUME TypeInv, CloseInv, NEW t \in Thread, NEW l, NEW f, Move(t, l, f),
         Orderly(t, l, f, chan), UNCHANGED channels,
         pc[t] \in ChannelInHand, NEW g \in Channel, SetChan(loc[t].ch, g),
         g.id = InHand(t).id, g.closed = InHand(t).closed,
         g.shut = InHand(t).shut, g.byUser = InHand(t).byUser
  PROVE  CloseInv'
<1>1. loc[t].ch \in Chan /\ chan[loc[t].ch].id # 0
  BY DEF CloseInv, AllOrderly, Orderly, Handed
<1>2. /\ chan'[loc[t].ch] = g
      /\ \A c \in Chan : c # loc[t].ch => chan'[c] = chan[c]
  BY <1>1 DEF SetChan, TypeInv, TypeOK
<1>3. \A c \in Chan : /\ chan'[c].id = chan[c].id
                      /\ chan'[c].closed = chan[c].closed
                      /\ chan'[c].shut = chan[c].shut
                      /\ chan'[c].byUser = chan[c].byUser
                      /\ chan[c].id = 0 => chan'[c] = chan[c]
  BY <1>1, <1>2 DEF InHand
<1> QED BY <1>3, KeepFlags

\* A Channel is allocated and entered under identifier i.
LEMMA KeepNew ==
  ASSUME TypeInv, CloseInv, NEW t \in Thread, NEW l, NEW f, Move(t, l, f),
         NEW c \in Fresh, NEW i \in Id, NEW g \in Channel, SetChan(c, g),
         g.id = i, ~g.shut, channels' = [channels EXCEPT ![i] = c],
         Orderly(t, l, f, chan')
  PROVE  CloseInv'
<1>1. c \in Chan /\ chan[c].id = 0 /\ i # 0
  BY Numbers DEF Fresh
<1>2. chan'[c] = g /\ \A d \in Chan : d # c => chan'[d] = chan[d]
  BY <1>1 DEF SetChan, TypeInv, TypeOK
<1>3. ASSUME NEW s \in Thread PROVE Orderly(s, pc'[s], loc'[s], chan')
  <2>1. CASE s = t
    BY <2>1, Moves
  <2>2. CASE s # t
    <3>1. pc'[s] = pc[s] /\ loc'[s] = loc[s] /\ Orderly(s, pc[s], loc[s], chan)
      BY <2>2, Moves DEF CloseInv, AllOrderly
    <3>2. pc[s] \in Handed => chan'[loc[s].ch] = chan[loc[s].ch]
      BY <1>1, <1>2, <3>1 DEF Orderly
    <3> QED BY <3>1, <3>2, SameFlags
  <2> QED BY <2>1, <2>2
<1>4. Known'
  <2>1. channels \in [Id -> Chan \cup {None}]
    BY DEF TypeInv, TypeOK
  <2>2. /\ \A j \in Id : channels[j] # None => chan[channels[j]].id = j
        /\ \A d \in Chan : chan[d].id = 0 => chan[d] = NoChannel
    BY DEF CloseInv, Known
  <2>3. ASSUME NEW j \in Id, channels'[j] # None PROVE chan'[channels'[j]].id = j
    <3>1. CASE j = i
      BY <2>1, <3>1, <1>2
    <3>2. CASE j # i
      <4>1. channels'[j] = channels[j] /\ channels[j] \in Chan /\ j # 0
        BY <2>1, <2>3, <3>2, Numbers
      <4>2. channels[j] # c
        BY <2>2, <2>3, <4>1, <1>1
      <4> QED BY <2>2, <2>3, <4>1, <4>2, <1>2
    <3> QED BY <3>1, <3>2
  <2>4. \A d \in Chan : chan'[d].id = 0 => chan'[d] = NoChannel
    BY <2>2, <1>1, <1>2
  <2> QED BY <2>3, <2>4 DEF Known
<1>5. ShutLast'
  BY <1>1, <1>2 DEF CloseInv, ShutLast
<1> QED BY <1>3, <1>4, <1>5 DEF CloseInv, AllOrderly

-----------------------------------------------------------------------------
\* The steps of a goroutine that keeps, or leaves, what it has in hand.
LEMMA KeepSendingOrderly ==
  ASSUME TypeInv, CloseInv, NEW t \in Thread, Sending(t)
  PROVE  CloseInv'
<1>a. t # Ping
  BY NotPing DEF Sending, Draw, Write, Register, Enter, PingPlaces
<1>b. \A l \in {"write", "register", "enter", "idle"} :
        \A f, k : Orderly(t, l, f, k)
  BY <1>a, Away DEF Handed, ChannelInHand, ChanLabel
<1>1. CASE Draw(t)
  BY <1>1, <1>b, KeepChannels DEF Draw
<1>2. CASE Write(t)
  <2>1. UNCHANGED <<chan, channels>>
    BY <1>2 DEF Write
  <2>2. Sent(t) \in {"write", "register", "enter", "idle"}
    BY DEF Sent
  <2>3. \/ Return(t)
        \/ \E f : Move(t, Sent(t), f)
    BY <1>2 DEF Write
  <2> QED BY <1>b, <2>1, <2>2, <2>3, ReturnAway, KeepChannels DEF Return
<1>3. CASE Register(t)
  BY <1>3, ReturnAway, KeepChannels DEF Register, Return
<1>4. CASE Enter(t)
  <2>1. PICK c \in Fresh, i \in {loc[t].id, id} :
          /\ SetChan(c, [NoChannel EXCEPT !.id = i, !.given = TRUE])
          /\ channels' = [channels EXCEPT ![i] = c]
    BY <1>4 DEF Enter
  <2>2. i \in Id
    BY <1>4, InHandTyped, Numbers DEF Enter, Holding, NumberDrawn, IdInHand
  <2> DEFINE g == [NoChannel EXCEPT !.id = i, !.given = TRUE]
  <2>3. g \in Channel /\ g.id = i /\ ~g.shut
    <3>1. TRUE \in BOOLEAN
      OBVIOUS
    <3>2. g \in Channel
      BY <2>2, <3>1, Allocated
    <3> QED BY <3>2 DEF NoChannel
  <2>4. SetChan(c, g)
    BY <2>1
  <2> HIDE DEF g
  <2> QED BY <1>4, <2>1, <2>2, <2>3, <2>4, ReturnAway, KeepNew DEF Enter, Return
<1> QED BY <1>1, <1>2, <1>3, <1>4 DEF Sending

\* AcceptChannel allocates the Channel that it has in hand.
LEMMA KeepAcceptingOrderly ==
  ASSUME TypeInv, CloseInv, NEW t \in Thread, Accepting(t)
  PROVE  CloseInv'
<1>a. t # Ping
  BY NotPing DEF Accepting, Accept, AcceptEnter, AcceptReply, PingPlaces
<1>1. CASE Accept(t)
  <2>1. \A f, k : Orderly(t, "acceptEnter", f, k)
    BY <1>a, Away DEF Handed, ChannelInHand, ChanLabel
  <2>2. UNCHANGED <<chan, channels>>
    BY <1>1 DEF Accept
  <2>3. Return(t) \/ \E f : Move(t, "acceptEnter", f)
    BY <1>1 DEF Accept
  <2> QED BY <2>1, <2>2, <2>3, ReturnAway, KeepChannels DEF Return
<1>2. CASE AcceptEnter(t)
  <2>1. loc[t].id \in Id /\ loc[t] \in Locals
    BY <1>2, InHandTyped DEF AcceptEnter, Holding, IdInHand
  <2>2. PICK c \in Fresh :
          /\ SetChan(c, [NoChannel EXCEPT !.id = loc[t].id])
          /\ channels' = [channels EXCEPT ![loc[t].id] = c]
          /\ Move(t, "acceptReply", [loc[t] EXCEPT !.ch = c])
    BY <1>2 DEF AcceptEnter
  <2> DEFINE g == [NoChannel EXCEPT !.id = loc[t].id]
             f == [loc[t] EXCEPT !.ch = c]
  <2>3. g \in Channel /\ g.id = loc[t].id /\ ~g.shut
    <3>1. g \in Channel
      BY <2>1, Allocated, TRUE \in BOOLEAN
    <3> QED BY <3>1 DEF NoChannel
  <2>4. f.ch = c
    BY <2>1 DEF Locals
  <2>5. SetChan(c, g) /\ Move(t, "acceptReply", f)
    BY <2>2
  <2> HIDE DEF f, g
  <2>6. c \in Chan /\ chan'[c] = g
    BY <2>5 DEF SetChan, Fresh, TypeInv, TypeOK
  <2>7. Orderly(t, "acceptReply", f, chan')
    BY <1>a, <2>1, <2>3, <2>4, <2>6, Numbers DEF Orderly
  <2> QED BY <2>1, <2>2, <2>3, <2>5, <2>7, KeepNew
<1>3. CASE AcceptReply(t)
  <2> DEFINE g == [InHand(t) EXCEPT !.given = TRUE]
  <2>1. pc[t] \in ChannelInHand /\ InHand(t) \in Channel
    BY <1>3, InHandTyped DEF AcceptReply, ChannelInHand
  <2>2. /\ g \in Channel /\ g.id = InHand(t).id /\ g.closed = InHand(t).closed
        /\ g.shut = InHand(t).shut /\ g.byUser = InHand(t).byUser
    BY <2>1 DEF Channel
  <2>3. SetChan(loc[t].ch, g) /\ Return(t) /\ UNCHANGED channels
    BY <1>3 DEF AcceptReply
  <2> HIDE DEF g
  <2> QED BY <2>1, <2>2, <2>3, ReturnAway, KeepInHand DEF Return
<1> QED BY <1>1, <1>2, <1>3 DEF Accepting

\* Reading leaves the flags alone.
LEMMA KeepUseOrderly ==
  ASSUME TypeInv, CloseInv, NEW t \in Thread, ChannelUse(t)
  PROVE  CloseInv'
<1>a. /\ t # Ping /\ pc[t] \in ChannelInHand /\ pc[t] \in Handed
      /\ loc[t].ch \in Chan /\ InHand(t) \in Channel
  BY NotPing, InHandTyped DEF ChannelUse, ReadTest, ReadTake, ReadFails, PingPlaces,
     Handed, ChannelInHand, ChanLabel
<1>b. Orderly(t, pc[t], loc[t], chan)
  BY DEF CloseInv, AllOrderly
<1>1. CASE Return(t) /\ UNCHANGED <<chan, channels>>
  BY <1>1, ReturnAway, KeepChannels DEF Return
<1>2. CASE Goto(t, "wait") /\ UNCHANGED <<chan, channels>>
  <2>1. Orderly(t, "wait", loc[t], chan)
    BY <1>a, <1>b DEF Orderly
  <2> QED BY <1>2, <2>1, KeepChannels DEF Goto
<1>3. CASE ReadTake(t)
  <2> DEFINE g == [InHand(t) EXCEPT !.taken = Head(InHand(t).buf), !.buf = Tail(@)]
  <2>1. /\ g.id = InHand(t).id /\ g.closed = InHand(t).closed
        /\ g.shut = InHand(t).shut /\ g.byUser = InHand(t).byUser
    BY <1>a DEF Channel
  <2>2. SetChan(loc[t].ch, g) /\ Return(t) /\ UNCHANGED channels
    BY <1>3 DEF ReadTake
  <2>3. g \in Channel
    <3>1. chan' \in [Chan -> Channel]
      BY KeepChannelUse DEF TypeInv, TypeOK
    <3>2. chan'[loc[t].ch] = g
      BY <1>a, <2>2 DEF SetChan, TypeInv, TypeOK
    <3> HIDE DEF g
    <3> QED BY <1>a, <3>1, <3>2
  <2> HIDE DEF g
  <2> QED BY <1>a, <2>1, <2>2, <2>3, ReturnAway, KeepInHand DEF Return
<1> QED BY <1>1, <1>2, <1>3 DEF ChannelUse, ReadTest, ReadFails

\* The step the invariant is about: a Channel is tested, marked and shut.
LEMMA KeepChannelCloseOrderly ==
  ASSUME TypeInv, CloseInv, NEW t \in Thread, ChannelClose(t)
  PROVE  CloseInv'
<1> DEFINE c == loc[t].ch
<1>a. /\ t # Ping /\ pc[t] \in ChannelInHand /\ pc[t] \in Handed
      /\ c \in Chan /\ InHand(t) \in Channel /\ InHand(t) = chan[c]
      /\ loc[t] \in Locals
  BY NotPing, InHandTyped DEF ChannelClose, ChTest, ChMark, ChShut, PingPlaces,
     Handed, ChannelInHand, ChanLabel, InHand
<1>b. Orderly(t, pc[t], loc[t], chan) /\ chan[c].id # 0
  BY <1>a DEF CloseInv, AllOrderly, Orderly
<1>c. PICK rest : /\ \A k : Orderly(t, loc[t].ret, rest, k)
                  /\ Resume(t) => Move(t, loc[t].ret, rest)
  <2>1. loc[t].ret \in {"idle", "loop", "clIter"}
    BY <1>a DEF Locals
  <2>2. \A f, k : Orderly(t, loc[t].ret, f, k)
    BY <1>a, <2>1, Away DEF Handed, ChannelInHand, ChanLabel
  <2> QED BY <2>2 DEF Resume
<1>d. ASSUME NEW g \in Channel, SetChan(c, g), g.id = chan[c].id,
             g.shut => g.closed, UNCHANGED channels,
             NEW l, NEW f, Move(t, l, f), Orderly(t, l, f, chan'),
             \A s \in Thread \ {t} : loc[s].ch = c => Orderly(s, pc[s], loc[s], chan')
      PROVE  CloseInv'
  <2>1. chan'[c] = g /\ \A d \in Chan : d # c => chan'[d] = chan[d]
    BY <1>a, <1>d DEF SetChan, TypeInv, TypeOK
  <2>2. ASSUME NEW s \in Thread PROVE Orderly(s, pc'[s], loc'[s], chan')
    <3>1. CASE s = t
      BY <1>d, <3>1, Moves
    <3>2. CASE s # t
      <4>1. pc'[s] = pc[s] /\ loc'[s] = loc[s] /\ Orderly(s, pc[s], loc[s], chan)
        BY <1>d, <3>2, Moves DEF CloseInv, AllOrderly
      <4>2. CASE loc[s].ch = c
        BY <1>d, <3>2, <4>1, <4>2
      <4>3. CASE loc[s].ch # c
        <5>1. pc[s] \in Handed => chan'[loc[s].ch] = chan[loc[s].ch]
          BY <2>1, <4>1, <4>3 DEF Orderly
        <5> QED BY <4>1, <5>1, SameFlags
      <4> QED BY <4>2, <4>3
    <3> QED BY <3>1, <3>2
  <2>3. Known'
    <3>1. channels \in [Id -> Chan \cup {None}]
      BY DEF TypeInv, TypeOK
    <3> QED BY <3>1, <1>a, <1>b, <1>d, <2>1 DEF CloseInv, Known
  <2>4. ShutLast'
    BY <1>d, <2>1 DEF CloseInv, ShutLast
  <2> QED BY <2>2, <2>3, <2>4 DEF CloseInv, AllOrderly
<1>1. CASE ChTest(t)
  <2>1. UNCHANGED <<chan, channels>>
    BY <1>1 DEF ChTest
  <2>2. CASE Resume(t)
    BY <1>c, <2>1, <2>2, KeepChannels
  <2>3. CASE ~chan[c].closed /\ Goto(t, "chMark")
    <3>1. Orderly(t, "chMark", loc[t], chan)
      BY <1>a, <1>b, <2>3 DEF Orderly
    <3> QED BY <2>1, <2>3, <3>1, KeepChannels DEF Goto
  <2> QED BY <1>1, <1>a, <2>2, <2>3 DEF ChTest
<1>2. CASE ChMark(t)
  <2> DEFINE g == [InHand(t) EXCEPT !.closed = TRUE, !.byUser = @ \/ t \in User]
  <2>1. SetChan(c, g) /\ Goto(t, "chShut") /\ UNCHANGED channels
    BY <1>2 DEF ChMark
  <2>2. /\ g \in Channel /\ g.id = chan[c].id /\ g.closed = TRUE
        /\ g.shut = chan[c].shut /\ g.byUser = (chan[c].byUser \/ t \in User)
    BY <1>a DEF Channel
  <2>3. t # Loop => t \in User
    BY <1>a DEF Thread
  <2> HIDE DEF g
  <2>4. chan'[c] = g
    BY <1>a, <2>1 DEF SetChan, TypeInv, TypeOK
  <2>5. /\ chan'[c].id = chan[c].id /\ chan'[c].closed
        /\ chan'[c].shut => chan[c].shut
        /\ chan[c].byUser => chan'[c].byUser
        /\ t # Loop => chan'[c].byUser
    <3>1. g.closed /\ (g.shut => chan[c].shut)
      BY <2>2
    <3>2. (chan[c].byUser => g.byUser) /\ (t # Loop => g.byUser)
      BY <2>2, <2>3
    <3> QED BY <2>2, <2>4, <3>1, <3>2
  <2>6. Orderly(t, "chShut", loc[t], chan')
    <3>1. t = Loop /\ chan[c].shut => chan[c].byUser
      BY <1>2, <1>a, <1>b DEF ChMark, Orderly, CloseInv, ShutLast
    <3>2. t = Loop => chan'[c].byUser \/ ~chan'[c].shut
      BY <2>5, <3>1
    <3>3. chan'[c].id # 0
      BY <1>b, <2>5
    <3> QED BY <1>a, <2>5, <3>2, <3>3, Zenon DEF Orderly
  <2>7. ASSUME NEW s \in Thread \ {t}, loc[s].ch = c
        PROVE  Orderly(s, pc[s], loc[s], chan')
    <3>1. Orderly(s, pc[s], loc[s], chan)
      BY DEF CloseInv, AllOrderly
    <3>2. s = Loop => chan'[c].byUser
      BY <2>5, <2>7
    <3> QED BY <2>5, <2>7, <3>1, <3>2 DEF Orderly
  <2> QED BY <1>d, <2>1, <2>2, <2>6, <2>7 DEF Goto
<1>3. CASE ChShut(t)
  <2>1. CASE InHand(t).shut
    <3>1. Goto(t, "panicked") /\ UNCHANGED <<chan, channels>>
      BY <1>3, <2>1 DEF ChShut, Panic
    <3>2. chan[c].byUser
      BY <1>3, <2>1, <1>a, <1>b DEF ChShut, Orderly
    <3>3. Orderly(t, "panicked", loc[t], chan)
      BY <1>a, <1>b, <3>2 DEF Orderly
    <3> QED BY <3>1, <3>3, KeepChannels DEF Goto
  <2>2. CASE ~InHand(t).shut
    <3> DEFINE g == [InHand(t) EXCEPT !.shut = TRUE]
    <3>1. SetChan(c, g) /\ Move(t, loc[t].ret, rest) /\ UNCHANGED channels
      BY <1>3, <1>c, <2>2 DEF ChShut
    <3>2. /\ g \in Channel /\ g.id = chan[c].id /\ g.closed = chan[c].closed
          /\ g.byUser = chan[c].byUser
      BY <1>a DEF Channel
    <3> HIDE DEF g
    <3>3. chan'[c] = g
      BY <1>a, <3>1 DEF SetChan, TypeInv, TypeOK
    <3>4. /\ chan'[c].id = chan[c].id /\ (chan[c].byUser => chan'[c].byUser)
          /\ chan[c].closed => chan'[c].closed
      BY <3>2, <3>3
    <3>5. chan[c].closed /\ (chan[c].byUser \/ t = Loop)
      BY <1>3, <1>a, <1>b DEF ChShut, Orderly
    <3>6. ASSUME NEW s \in Thread \ {t}, loc[s].ch = c
          PROVE  Orderly(s, pc[s], loc[s], chan')
      <4>1. Orderly(s, pc[s], loc[s], chan)
        BY DEF CloseInv, AllOrderly
      <4>2. s = Loop => chan'[c].byUser
        BY <3>5, <3>6, <3>4
      <4>3. /\ pc[s] \in Handed => chan'[c].id # 0
            /\ s = Ping => pc[s] \in PingPlaces
            /\ pc[s] = "panicked" => chan[c].byUser
            /\ pc[s] = "chShut" => chan[c].closed /\ (s # Loop => chan[c].byUser)
        BY <3>6, <3>4, <4>1 DEF Orderly
      <4> QED BY <1>a, <3>6, <3>4, <4>2, <4>3, Zenon DEF Orderly
    <3>7. g.closed
      BY <3>2, <3>5
    <3> QED BY <1>c, <1>d, <3>1, <3>2, <3>6, <3>7
  <2> QED BY <2>1, <2>2
<1> QED BY <1>1, <1>2, <1>3 DEF ChannelClose

\* Close takes Channels from the map, and then empties it.
LEMMA KeepClosingOrderly ==
  ASSUME TypeInv, CloseInv, NEW t \in Thread, Closing(t)
  PROVE  CloseInv'
<1>a. \A l \in {"clWrite", "clIter", "clClear", "trTest", "trSet"} : \A f, k :
        l \in {"trTest", "trSet"} \/ t # Ping => Orderly(t, l, f, k)
  BY Away DEF Handed, ChannelInHand, ChanLabel, PingPlaces
<1>b. pc[t] \in {"clTest", "clWrite", "clIter", "clClear"} => t # Ping
  BY NotPing DEF PingPlaces
<1>1. CASE ClTest(t) \/ TrTest(t)
  <2>1. UNCHANGED <<chan, channels>>
    BY <1>1 DEF ClTest, TrTest
  <2>2. \/ Return(t)
        \/ pc[t] = "clTest" /\ Goto(t, "clWrite")
        \/ Goto(t, "trSet")
    BY <1>1 DEF ClTest, TrTest
  <2> QED BY <1>a, <1>b, <2>1, <2>2, ReturnAway, KeepChannels DEF Goto, Return
<1>2. CASE ClWrite(t)
  BY <1>2, <1>a, <1>b, KeepChannels DEF ClWrite
<1>3. CASE ClIter(t)
  <2>1. UNCHANGED <<chan, channels>> /\ t # Ping /\ loc[t] \in Locals
    BY <1>3, <1>b, InHandTyped DEF ClIter
  <2>2. CASE Goto(t, "clClear")
    BY <1>a, <2>1, <2>2, KeepChannels DEF Goto
  <2>3. ASSUME NEW i \in Id, channels[i] \in Chan \ loc[t].seen,
               Move(t, "chTest", [loc[t] EXCEPT !.ch = channels[i], !.ret = "clIter",
                                                !.seen = @ \cup {channels[i]}])
        PROVE  CloseInv'
    <3> DEFINE c == channels[i]
               f == [loc[t] EXCEPT !.ch = c, !.ret = "clIter", !.seen = @ \cup {c}]
    <3>1. f.ch = c /\ c \in Chan
      BY <2>1, <2>3 DEF Locals
    <3>2. chan[c].id # 0
      BY <3>1, ThreadAssumption, Numbers DEF CloseInv, Known
    <3>3. Move(t, "chTest", f)
      BY <2>3
    <3> HIDE DEF c, f
    <3>4. Orderly(t, "chTest", f, chan)
      BY <2>1, <3>1, <3>2 DEF Orderly
    <3> QED BY <2>1, <3>3, <3>4, KeepChannels
  <2> QED BY <1>3, <2>2, <2>3 DEF ClIter
<1>4. CASE ClClear(t)
  <2>1. \A i \in Id : channels'[i] \in {channels[i], None}
    BY <1>4 DEF ClClear
  <2>2. UNCHANGED chan /\ Goto(t, "trTest")
    BY <1>4 DEF ClClear
  <2> QED BY <1>a, <2>1, <2>2, KeepFlags DEF Goto
<1>5. CASE TrSet(t)
  BY <1>5, ReturnAway, KeepChannels DEF TrSet, Return
<1> QED BY <1>1, <1>2, <1>3, <1>4, <1>5 DEF Closing

\* A Channel the application uses was returned to it.
LEMMA KeepCallOrderly ==
  ASSUME TypeInv, CloseInv, NEW u \in User, Call(u)
  PROVE  CloseInv'
<1>1. u \in Thread /\ u # Ping /\ u # Loop /\ UNCHANGED <<chan, channels>>
  BY ThreadAssumption DEF Thread, Call
<1>2. PICK op \in Calls[u] :
        \/ /\ op \notin OnChannel
           /\ Move(u, FirstLabel[op], [NoLocals EXCEPT !.op = op])
        \/ /\ op \in OnChannel
           /\ \E c \in Chan :
                /\ chan[c].given
                /\ Move(u, FirstLabel[op], [NoLocals EXCEPT !.op = op, !.ch = c])
  BY DEF Call
<1>3. op \in Op
  BY CallAssumption
<1>4. CASE op \notin OnChannel /\ Move(u, FirstLabel[op], [NoLocals EXCEPT !.op = op])
  <2>1. FirstLabel[op] \in {"draw", "accept", "clTest"}
    BY <1>3, <1>4 DEF OnChannel, FirstLabel, Op
  <2>2. \A f : Orderly(u, FirstLabel[op], f, chan)
    BY <1>1, <2>1, Away DEF Handed, ChannelInHand, ChanLabel
  <2> QED BY <1>1, <1>4, <2>2, KeepChannels
<1>5. ASSUME op \in OnChannel, NEW c \in Chan, chan[c].given,
             Move(u, FirstLabel[op], [NoLocals EXCEPT !.op = op, !.ch = c])
      PROVE  CloseInv'
  <2> DEFINE f == [NoLocals EXCEPT !.op = op, !.ch = c]
  <2>1. FirstLabel[op] \in {"read", "chTest"}
    BY <1>3, <1>5 DEF OnChannel, FirstLabel, Op
  <2>2. f.ch = c /\ chan[c].id # 0
    <3>1. chan[c] # NoChannel
      BY <1>5 DEF NoChannel
    <3> QED BY <1>5, <3>1 DEF NoLocals, CloseInv, Known
  <2>3. Move(u, FirstLabel[op], f)
    BY <1>5
  <2> HIDE DEF f
  <2>4. Orderly(u, FirstLabel[op], f, chan)
    BY <1>1, <2>1, <2>2 DEF Orderly
  <2> QED BY <1>1, <2>3, <2>4, KeepChannels
<1> QED BY <1>2, <1>4, <1>5

\* The read loop: Receive has tested the Channel that Push sends on.
LEMMA KeepReadLoopOrderly ==
  ASSUME TypeInv, CloseInv, ReadLoop
  PROVE  CloseInv'
<1>t. Loop \in Thread /\ Loop # Ping
  BY ThreadAssumption DEF Thread
<1>a. \A l \in {"loop", "reading", "queue", "reply", "clTest"} :
        \A f, k : Orderly(Loop, l, f, k)
  BY <1>t, Away DEF Handed, ChannelInHand, ChanLabel
<1>b. Orderly(Loop, pc[Loop], loc[Loop], chan)
  BY <1>t DEF CloseInv, AllOrderly
<1>1. CASE LoopChannel
  <2>1. UNCHANGED <<chan, channels>> /\ Entered # None /\ Reads
    BY <1>1 DEF LoopChannel
  <2>2. Entered \in Chan /\ chan[Entered].id # 0
    <3>1. Arrived.id \in Id
      BY <1>1, <2>1, Arriving DEF LoopChannel, Reads, Sendable
    <3> QED BY <2>1, <3>1, Numbers DEF Entered, CloseInv, Known, TypeInv, TypeOK
  <2>3. ASSUME NEW l \in {"receive", "chTest"}, NEW f, f.ch = Entered, Move(Loop, l, f)
        PROVE  CloseInv'
    <3>1. Orderly(Loop, l, f, chan)
      BY <1>t, <2>2, <2>3 DEF Orderly
    <3> QED BY <1>t, <2>1, <2>3, <3>1, KeepChannels
  <2>4. CASE Move(Loop, "loop", NoLocals)
    BY <1>t, <1>a, <2>1, <2>4, KeepChannels
  <2>5. CASE Move(Loop, "receive", [NoLocals EXCEPT !.ch = Entered,
                                                    !.num = Arrived.num])
    <3> DEFINE f == [NoLocals EXCEPT !.ch = Entered, !.num = Arrived.num]
    <3>1. f.ch = Entered
      BY DEF NoLocals
    <3>2. Move(Loop, "receive", f)
      BY <2>5
    <3> HIDE DEF f
    <3> QED BY <2>3, <3>1, <3>2
  <2>6. CASE Move(Loop, "chTest", [NoLocals EXCEPT !.ch = Entered, !.ret = "loop"])
    <3> DEFINE f == [NoLocals EXCEPT !.ch = Entered, !.ret = "loop"]
    <3>1. f.ch = Entered
      BY DEF NoLocals
    <3>2. Move(Loop, "chTest", f)
      BY <2>6
    <3> HIDE DEF f
    <3> QED BY <2>3, <3>1, <3>2
  <2> QED BY <1>1, <2>4, <2>5, <2>6 DEF LoopChannel
<1>2. CASE LoopTest \/ LoopNoChannel \/ LoopMessage \/ LoopError \/ Queue \/ Reply
  <2>1. UNCHANGED <<chan, channels>>
    BY <1>2 DEF LoopTest, LoopNoChannel, LoopMessage, LoopError, Queue, Reply
  <2>2. \E l \in {"loop", "reading", "queue", "reply", "clTest"} : \E f : Move(Loop, l, f)
    BY <1>2 DEF LoopTest, LoopNoChannel, LoopMessage, LoopError, Queue, Reply
  <2> QED BY <1>t, <1>a, <2>1, <2>2, KeepChannels
<1>3. CASE Receive
  <2>1. /\ UNCHANGED <<chan, channels>>
        /\ loc[Loop].ch \in Chan /\ pc[Loop] \in Handed
    BY <1>3, <1>t, InHandTyped DEF Receive, ChannelInHand, Handed
  <2>2. CASE Move(Loop, "loop", NoLocals)
    BY <1>t, <1>a, <2>1, <2>2, KeepChannels
  <2>3. CASE ~InHand(Loop).closed /\ Goto(Loop, "push")
    <3>1. Orderly(Loop, "push", loc[Loop], chan)
      BY <1>t, <1>b, <2>1, <2>3 DEF Orderly, CloseInv, ShutLast, InHand
    <3> QED BY <1>t, <2>1, <2>3, <3>1, KeepChannels DEF Goto
  <2> QED BY <1>3, <2>2, <2>3 DEF Receive
<1>4. CASE Push
  <2>a. pc[Loop] \in ChannelInHand /\ pc[Loop] = "push" /\ pc[Loop] \in Handed
        /\ loc[Loop].ch \in Chan /\ InHand(Loop) \in Channel
    BY <1>4, <1>t, InHandTyped DEF Push, ChannelInHand, Handed
  <2>1. CASE InHand(Loop).shut
    <3>1. Goto(Loop, "panicked") /\ UNCHANGED <<chan, channels>>
      BY <1>4, <2>1 DEF Push, Panic
    <3>2. Orderly(Loop, "panicked", loc[Loop], chan)
      BY <1>t, <1>b, <2>a, <2>1 DEF Orderly, InHand
    <3> QED BY <1>t, <3>1, <3>2, KeepChannels DEF Goto
  <2>2. CASE ~InHand(Loop).shut
    <3> DEFINE g == [InHand(Loop) EXCEPT !.buf = Append(@, loc[Loop].num)]
    <3>1. /\ g.id = InHand(Loop).id /\ g.closed = InHand(Loop).closed
          /\ g.shut = InHand(Loop).shut /\ g.byUser = InHand(Loop).byUser
      BY <2>a DEF Channel
    <3>2. /\ SetChan(loc[Loop].ch, g) /\ Move(Loop, "loop", NoLocals)
          /\ UNCHANGED channels
      BY <1>4, <2>2 DEF Push
    <3>3. g \in Channel
      <4>1. chan' \in [Chan -> Channel]
        BY <1>4, KeepReceiving DEF TypeInv, TypeOK
      <4>2. chan'[loc[Loop].ch] = g
        BY <2>a, <3>2 DEF SetChan, TypeInv, TypeOK
      <4> HIDE DEF g
      <4> QED BY <2>a, <4>1, <4>2
    <3> HIDE DEF g
    <3> QED BY <1>t, <1>a, <2>a, <3>1, <3>2, <3>3, KeepInHand
  <2> QED BY <2>1, <2>2
<1> QED BY <1>1, <1>2, <1>3, <1>4 DEF ReadLoop

\* The ping goroutine never has a Channel in hand.
LEMMA KeepPingingOrderly ==
  ASSUME TypeInv, CloseInv, Pinging
  PROVE  CloseInv'
<1>1. Ping \in Thread /\ UNCHANGED <<chan, channels>>
  BY DEF Thread, Pinging, Round, Expire
<1>2. \A l \in {"trTest", "stuck"} : \A f, k : Orderly(Ping, l, f, k)
  BY <1>1, Away DEF Handed, ChannelInHand, ChanLabel, PingPlaces
<1>3. Return(Ping) \/ \E l \in {"trTest", "stuck"} : \E f : Move(Ping, l, f)
  BY DEF Pinging, Round, Expire, Goto
<1> QED BY <1>1, <1>2, <1>3, ReturnAway, KeepChannels DEF Return

-----------------------------------------------------------------------------
\* There is no Channel at the start.
LEMMA CloseInit ==
  ASSUME Init
  PROVE  CloseInv
<1>1. ASSUME NEW t \in Thread PROVE Orderly(t, pc[t], loc[t], chan)
  <2>1. pc[t] \in {"loop", "ping", "idle"} /\ (t = Ping => pc[t] = "ping")
    BY ThreadAssumption DEF Init
  <2> QED BY <2>1, Away DEF Handed, ChannelInHand, ChanLabel, PingPlaces
<1>2. Known /\ ShutLast
  BY DEF Init, Known, ShutLast, NoChannel
<1> QED BY <1>1, <1>2 DEF CloseInv, AllOrderly

\* Every step keeps the order.
LEMMA CloseNext ==
  ASSUME TypeInv, CloseInv, [Next]_vars
  PROVE  CloseInv'
<1>1. UNCHANGED <<pc, loc, chan, channels>> => CloseInv'
  BY DEF CloseInv, AllOrderly, Known, ShutLast
<1>2. CASE UNCHANGED vars
  BY <1>1, <1>2 DEF vars
<1>3. CASE Next
  <2>1. ASSUME NEW t \in Thread, Step(t) PROVE CloseInv'
    BY <2>1, KeepSendingOrderly, KeepAcceptingOrderly, KeepChannelCloseOrderly,
       KeepUseOrderly, KeepClosingOrderly DEF Step
  <2>2. CASE Environment
    BY <1>1, <2>2 DEF Environment, PeerSends, PeerBye, Break
  <2> QED BY <1>3, <2>1, <2>2, KeepCallOrderly, KeepReadLoopOrderly, KeepPingingOrderly
          DEF Next
<1> QED BY <1>2, <1>3

\* The read loop and the goroutines that close the connection mark a Channel
\* and shut it in this order, whatever the other goroutines do in between.
THEOREM CloseInvariant == Spec => []CloseInv
<1>1. Init => CloseInv
  BY CloseInit
<1>2. TypeInv /\ CloseInv /\ [Next]_vars => CloseInv'
  BY CloseNext
<1> QED BY <1>1, <1>2, TypeInvariant, PTL DEF Spec

\* RpcProperties!PanicNeedsCloser: the tests of isClosed in Channel.Close and in
\* Receive, without a lock, are enough for a Channel the application leaves open.
THEOREM PanicNeedsCloserHolds == Spec => []PanicNeedsCloser
<1>1. CloseInv => PanicNeedsCloser
  BY DEF CloseInv, AllOrderly, Orderly, PanicNeedsCloser
<1> QED BY <1>1, CloseInvariant, PTL

-----------------------------------------------------------------------------
(* What is sent on it.                                                     *)

(* The k-th packet on its way is data for Channel identifier i.            *)
IsData(k, i) == inbox[k].kind = "data" /\ inbox[k].id = i

(* The data on its way for i follows packet n without a hole, in order, up *)
(* to the last one sent unless the network has broken.                     *)
Follows(i, n) ==
  /\ n \in 0 .. peer.data[i]
  /\ \A k \in 1 .. Len(inbox) : IsData(k, i) =>
       /\ inbox[k].num \in n + 1 .. peer.data[i]
       /\ \A m \in n + 1 .. inbox[k].num :
            \E j \in 1 .. k : IsData(j, i) /\ inbox[j].num = m
  /\ \A j, k \in 1 .. Len(inbox) :
       IsData(j, i) /\ IsData(k, i) /\ j < k => inbox[j].num < inbox[k].num
  /\ wire.in = "open" => \A m \in n + 1 .. peer.data[i] :
       \E k \in 1 .. Len(inbox) : IsData(k, i) /\ inbox[k].num = m

(* The newest packet a Channel was given.                                  *)
Latest(c) ==
  IF chan[c].buf = <<>> THEN chan[c].taken ELSE chan[c].buf[Len(chan[c].buf)]

Receiving(c) == pc[Loop] \in {"receive", "push"} /\ loc[Loop].ch = c

(* The Channel that is in the map under i was given packet n, or will be,  *)
(* unless it has been closed, or has not been given any.                   *)
Expects(i, n) ==
  channels[i] # None =>
    \/ Receiving(channels[i]) /\ loc[Loop].num = n
    \/ ~Receiving(channels[i]) /\ \/ chan[channels[i]].closed
                                  \/ Latest(channels[i]) \in {0, n}

Flow == \A i \in Id : \E n \in 0 .. MaxData : Follows(i, n) /\ Expects(i, n)

(* What the read loop has in hand is next for the Channel it sends it on.  *)
NextInHand ==
  \A c \in Chan : Receiving(c) =>
    \/ pc[Loop] = "receive" /\ chan[c].closed
    \/ Latest(c) = 0
    \/ loc[Loop].num = Latest(c) + 1

FlowInv == Flow /\ NextInHand

(* What a step of the connection is to Channel c.                          *)
FifoStep(c) == [Fifo(c)!Next]_(Fifo(c)!vars)

-----------------------------------------------------------------------------
\* The positions in the queue, and the packets' numbers.
LEMMA Queued ==
  ASSUME TypeInv
  PROVE  /\ inbox \in Seq(Packet) /\ Len(inbox) \in Nat
         /\ \A i \in Id : peer.data[i] \in 0 .. MaxData
         /\ \A i \in Id : \A k \in 1 .. Len(inbox) :
              IsData(k, i) => inbox[k].num \in 1 .. MaxData
<1>1. inbox \in Seq(Sendable) /\ inbox \in Seq(Packet) /\ Len(inbox) \in Nat
  BY LenProperties DEF TypeInv, TypeOK, Carried
<1>2. \A k \in 1 .. Len(inbox) : inbox[k] \in Sendable
  BY <1>1, ElementOfSeq
<1>3. \A i \in Id : peer.data[i] \in 0 .. MaxData
  BY DEF TypeInv, TypeOK
<1> QED BY <1>1, <1>2, <1>3 DEF IsData, Sendable

\* The first packet is read. If it is data for i, it is the next one; what else
\* is on its way for i follows it, or what it followed.
LEMMA FirstRead ==
  ASSUME TypeInv, inbox # <<>>, inbox' = Tail(inbox), UNCHANGED <<peer, wire>>,
         NEW i \in Id, NEW n \in 0 .. MaxData, Follows(i, n)
  PROVE  /\ IsData(1, i) => inbox[1].num = n + 1 /\ Follows(i, n + 1)'
         /\ ~IsData(1, i) => Follows(i, n)'
<1>1. inbox \in Seq(Packet) /\ Len(inbox) \in Nat /\ Len(inbox) # 0
  BY Queued, EmptySeq
<1>2. /\ Len(inbox') = Len(inbox) - 1
      /\ \A k \in 1 .. Len(inbox') : inbox'[k] = inbox[k + 1]
  BY <1>1, HeadTailProperties
<1>3. \A k \in 1 .. Len(inbox') : /\ k + 1 \in 1 .. Len(inbox)
                                 /\ IsData(k, i)' <=> IsData(k + 1, i)
  BY <1>1, <1>2 DEF IsData
<1>4. n \in Int /\ peer.data[i] \in Int
  BY Queued, BoundAssumption
<1>5. \A k \in 1 .. Len(inbox) : IsData(k, i) => inbox[k].num \in Int
  BY Queued
<1>f. /\ n \in 0 .. peer.data[i]
      /\ \A k \in 1 .. Len(inbox) : IsData(k, i) =>
           /\ inbox[k].num \in n + 1 .. peer.data[i]
           /\ \A m \in n + 1 .. inbox[k].num :
                \E j \in 1 .. k : IsData(j, i) /\ inbox[j].num = m
      /\ \A j, k \in 1 .. Len(inbox) :
           IsData(j, i) /\ IsData(k, i) /\ j < k => inbox[j].num < inbox[k].num
      /\ wire.in = "open" => \A m \in n + 1 .. peer.data[i] :
           \E k \in 1 .. Len(inbox) : IsData(k, i) /\ inbox[k].num = m
  BY DEF Follows
<1>6. ASSUME IsData(1, i) PROVE inbox[1].num = n + 1
  <2>1. 1 \in 1 .. Len(inbox) /\ inbox[1].num \in n + 1 .. peer.data[i]
    BY <1>1, <1>6, <1>f
  <2>2. n + 1 \in n + 1 .. inbox[1].num
    BY <1>4, <2>1
  <2>3. PICK j \in 1 .. 1 : inbox[j].num = n + 1
    BY <1>6, <1>f, <2>1, <2>2
  <2> QED BY <2>3
<1>7. ASSUME NEW o \in {n, n + 1}, o <= peer.data[i],
             \A k \in 1 .. Len(inbox) :
               IsData(k, i) => k = 1 \/ inbox[k].num > o,
             IsData(1, i) => inbox[1].num <= o,
             o = n => ~IsData(1, i)
      PROVE  Follows(i, o)'
  <2>1. o \in 0 .. peer'.data[i] /\ o \in Int
    BY <1>4, <1>7, <1>f
  <2>2. ASSUME NEW k \in 1 .. Len(inbox'), IsData(k, i)'
        PROVE  inbox'[k].num \in o + 1 .. peer'.data[i]
    <3>1. IsData(k + 1, i) /\ k + 1 # 1 /\ k + 1 \in 1 .. Len(inbox)
      BY <1>3, <2>2
    <3>2. inbox[k + 1].num > o /\ inbox[k + 1].num \in n + 1 .. peer.data[i]
      BY <1>7, <1>f, <3>1
    <3> QED BY <1>2, <1>4, <2>1, <3>2
  <2>3. ASSUME NEW k \in 1 .. Len(inbox'), IsData(k, i)',
               NEW m \in o + 1 .. inbox'[k].num
        PROVE  \E j \in 1 .. k : IsData(j, i)' /\ inbox'[j].num = m
    <3>1. IsData(k + 1, i) /\ k + 1 \in 1 .. Len(inbox) /\ inbox'[k] = inbox[k + 1]
      BY <1>2, <1>3, <2>3
    <3>2. m \in n + 1 .. inbox[k + 1].num /\ m > o
      BY <1>4, <1>5, <2>1, <3>1
    <3>3. PICK j \in 1 .. k + 1 : IsData(j, i) /\ inbox[j].num = m
      BY <1>f, <3>1, <3>2
    <3>4. j # 1
      BY <1>5, <1>7, <2>1, <3>1, <3>2, <3>3
    <3>5. j - 1 \in 1 .. k /\ j - 1 \in 1 .. Len(inbox') /\ (j - 1) + 1 = j
      BY <3>3, <3>4
    <3> QED BY <1>2, <1>3, <3>3, <3>5
  <2>4. ASSUME NEW j \in 1 .. Len(inbox'), NEW k \in 1 .. Len(inbox'),
               IsData(j, i)', IsData(k, i)', j < k
        PROVE  inbox'[j].num < inbox'[k].num
    <3>1. j + 1 < k + 1
      BY <2>4
    <3> QED BY <1>2, <1>3, <1>f, <2>4, <3>1
  <2>5. ASSUME wire'.in = "open", NEW m \in o + 1 .. peer'.data[i]
        PROVE  \E k \in 1 .. Len(inbox') : IsData(k, i)' /\ inbox'[k].num = m
    <3>1. wire.in = "open" /\ m \in n + 1 .. peer.data[i] /\ m > o
      BY <1>4, <2>1, <2>5
    <3>2. PICK j \in 1 .. Len(inbox) : IsData(j, i) /\ inbox[j].num = m
      BY <1>f, <3>1
    <3>3. j # 1
      BY <1>7, <1>5, <2>1, <3>1, <3>2
    <3>4. j - 1 \in 1 .. Len(inbox') /\ (j - 1) + 1 = j
      BY <1>1, <1>2, <3>2, <3>3
    <3> QED BY <1>2, <1>3, <3>2, <3>4
  <2> QED BY <2>1, <2>2, <2>3, <2>4, <2>5 DEF Follows
<1>8. CASE IsData(1, i)
  <2>1. inbox[1].num = n + 1 /\ 1 \in 1 .. Len(inbox)
    BY <1>1, <1>6, <1>8
  <2>2. n + 1 <= peer.data[i]
    BY <1>4, <1>8, <1>f, <2>1
  <2>3. \A k \in 1 .. Len(inbox) : IsData(k, i) => k = 1 \/ inbox[k].num > n + 1
    <3> SUFFICES ASSUME NEW k \in 1 .. Len(inbox), IsData(k, i), k # 1
                 PROVE  inbox[k].num > n + 1
      OBVIOUS
    <3>1. 1 < k
      OBVIOUS
    <3> QED BY <1>8, <1>f, <2>1, <3>1
  <2>4. Follows(i, n + 1)'
    BY <1>4, <1>7, <2>1, <2>2, <2>3
  <2> QED BY <1>8, <2>1, <2>4
<1>9. CASE ~IsData(1, i)
  <2>1. n <= peer.data[i]
    BY <1>4, <1>f
  <2>2. \A k \in 1 .. Len(inbox) : IsData(k, i) => inbox[k].num > n
    BY <1>4, <1>5, <1>f
  <2> QED BY <1>4, <1>7, <1>9, <2>1, <2>2
<1> QED BY <1>8, <1>9

\* A packet joins the queue: the next one for i, or one that is not for i.
LEMMA LastSent ==
  ASSUME TypeInv, NEW p \in Packet, inbox' = Append(inbox, p), NEW i \in Id,
         NEW n \in 0 .. MaxData, Follows(i, n), wire'.in = "open" => wire.in = "open",
         \/ /\ p.kind # "data" \/ p.id # i
            /\ peer'.data[i] = peer.data[i]
         \/ /\ p.kind = "data" /\ p.id = i /\ wire.in = "open"
            /\ p.num = peer.data[i] + 1 /\ peer'.data[i] = peer.data[i] + 1
  PROVE  Follows(i, n)'
<1>1. inbox \in Seq(Packet) /\ Len(inbox) \in Nat
  BY Queued
<1>l. PICK last \in Nat : last = Len(inbox) + 1
  BY <1>1
<1>2. /\ Len(inbox') = last /\ inbox'[last] = p
      /\ \A k \in 1 .. Len(inbox) : inbox'[k] = inbox[k]
  BY <1>1, <1>l, AppendProperties
<1>3. /\ \A k \in 1 .. Len(inbox) : IsData(k, i)' <=> IsData(k, i)
      /\ IsData(last, i)' <=> p.kind = "data" /\ p.id = i
  BY <1>2 DEF IsData
<1>4. n \in Int /\ peer.data[i] \in Int
  BY Queued, BoundAssumption
<1>5. \A k \in 1 .. Len(inbox) : IsData(k, i) => inbox[k].num \in Int
  BY Queued
<1>f. /\ n \in 0 .. peer.data[i]
      /\ \A k \in 1 .. Len(inbox) : IsData(k, i) =>
           /\ inbox[k].num \in n + 1 .. peer.data[i]
           /\ \A m \in n + 1 .. inbox[k].num :
                \E j \in 1 .. k : IsData(j, i) /\ inbox[j].num = m
      /\ \A j, k \in 1 .. Len(inbox) :
           IsData(j, i) /\ IsData(k, i) /\ j < k => inbox[j].num < inbox[k].num
      /\ wire.in = "open" => \A m \in n + 1 .. peer.data[i] :
           \E k \in 1 .. Len(inbox) : IsData(k, i) /\ inbox[k].num = m
  BY DEF Follows
<1>d. \A k \in 1 .. Len(inbox') : k \in 1 .. Len(inbox) \/ k = last
  BY <1>1, <1>2, <1>l
<1>6. n \in 0 .. peer'.data[i] /\ peer.data[i] <= peer'.data[i]
  BY <1>4, <1>f
<1>7. ASSUME NEW k \in 1 .. Len(inbox'), IsData(k, i)'
      PROVE  /\ inbox'[k].num \in n + 1 .. peer'.data[i]
             /\ \A m \in n + 1 .. inbox'[k].num :
                  \E j \in 1 .. k : IsData(j, i)' /\ inbox'[j].num = m
  <2>1. CASE k \in 1 .. Len(inbox)
    <3>1. inbox[k].num \in n + 1 .. peer.data[i] /\ inbox'[k].num = inbox[k].num
      BY <1>2, <1>3, <1>7, <1>f, <2>1
    <3>2. ASSUME NEW m \in n + 1 .. inbox'[k].num
          PROVE  \E j \in 1 .. k : IsData(j, i)' /\ inbox'[j].num = m
      <4>1. PICK j \in 1 .. k : IsData(j, i) /\ inbox[j].num = m
        BY <1>3, <1>7, <1>f, <2>1, <3>1
      <4>2. j \in 1 .. Len(inbox)
        BY <2>1
      <4> QED BY <1>2, <1>3, <4>1, <4>2
    <3>3. inbox'[k].num \in n + 1 .. peer'.data[i]
      BY <1>4, <1>6, <3>1
    <3> QED BY <3>2, <3>3
  <2>2. CASE k = last
    <3>1. /\ p.kind = "data" /\ p.id = i /\ wire.in = "open"
          /\ p.num = peer.data[i] + 1 /\ peer'.data[i] = peer.data[i] + 1
      BY <1>3, <1>7, <2>2
    <3>2. inbox'[k].num = peer.data[i] + 1
      BY <1>2, <2>2, <3>1
    <3>3. ASSUME NEW m \in n + 1 .. inbox'[k].num
          PROVE  \E j \in 1 .. k : IsData(j, i)' /\ inbox'[j].num = m
      <4>1. CASE m = peer.data[i] + 1
        BY <1>1, <1>l, <1>7, <2>2, <3>2, <4>1
      <4>2. CASE m # peer.data[i] + 1
        <5>1. m \in n + 1 .. peer.data[i]
          BY <1>4, <3>2, <4>2
        <5>2. PICK j \in 1 .. Len(inbox) : IsData(j, i) /\ inbox[j].num = m
          BY <1>f, <3>1, <5>1
        <5>3. j \in 1 .. k
          BY <1>1, <1>l, <2>2
        <5> QED BY <1>2, <1>3, <5>2, <5>3
      <4> QED BY <4>1, <4>2
    <3> QED BY <1>4, <1>f, <3>1, <3>2, <3>3
  <2> QED BY <1>d, <2>1, <2>2
<1>8. ASSUME NEW j \in 1 .. Len(inbox'), NEW k \in 1 .. Len(inbox'),
             IsData(j, i)', IsData(k, i)', j < k
      PROVE  inbox'[j].num < inbox'[k].num
  <2>1. j \in 1 .. Len(inbox)
    BY <1>1, <1>2, <1>l, <1>8
  <2>2. CASE k \in 1 .. Len(inbox)
    BY <1>2, <1>3, <1>8, <1>f, <2>1, <2>2
  <2>3. CASE k = last
    <3>1. inbox'[k].num = peer.data[i] + 1
      BY <1>2, <1>3, <1>8, <2>3
    <3>2. inbox'[j].num \in n + 1 .. peer.data[i]
      BY <1>2, <1>3, <1>8, <1>f, <2>1
    <3> QED BY <1>4, <3>1, <3>2
  <2> QED BY <1>d, <2>2, <2>3
<1>9. ASSUME wire'.in = "open", NEW m \in n + 1 .. peer'.data[i]
      PROVE  \E k \in 1 .. Len(inbox') : IsData(k, i)' /\ inbox'[k].num = m
  <2>1. CASE m \in n + 1 .. peer.data[i]
    <3>1. PICK k \in 1 .. Len(inbox) : IsData(k, i) /\ inbox[k].num = m
      BY <1>9, <1>f, <2>1
    <3>2. k \in 1 .. Len(inbox')
      BY <1>1, <1>2, <1>l
    <3> QED BY <1>2, <1>3, <3>1, <3>2
  <2>2. CASE m \notin n + 1 .. peer.data[i]
    <3>0. peer'.data[i] # peer.data[i]
      BY <2>2
    <3>1. /\ p.kind = "data" /\ p.id = i /\ p.num = peer.data[i] + 1
          /\ peer'.data[i] = peer.data[i] + 1
      BY <3>0
    <3>3. m = peer.data[i] + 1
      BY <1>4, <2>2, <3>1
    <3>2. last \in 1 .. Len(inbox')
      BY <1>1, <1>2, <1>l
    <3> QED BY <1>2, <1>3, <3>1, <3>2, <3>3
  <2> QED BY <2>1, <2>2
<1> QED BY <1>6, <1>7, <1>8, <1>9 DEF Follows

\* The queue stays, or is lost when the network breaks.
LEMMA QueueStays ==
  ASSUME TypeInv, NEW i \in Id, NEW n \in 0 .. MaxData, Follows(i, n),
         peer'.data = peer.data, wire'.in = "open" => wire.in = "open",
         inbox' = inbox \/ (inbox' = <<>> /\ wire'.in # "open")
  PROVE  Follows(i, n)'
<1>1. CASE inbox' = inbox
  BY <1>1 DEF Follows, IsData
<1>2. CASE inbox' = <<>> /\ wire'.in # "open"
  BY <1>2 DEF Follows
<1> QED BY <1>1, <1>2

-----------------------------------------------------------------------------
\* A step after which no Channel has been given a packet, and the read loop has
\* the one in hand that it had. A Channel that enters the map is a new one.
LEMMA Steady ==
  ASSUME TypeInv, FlowInv,
         \A i \in Id, n \in 0 .. MaxData : Follows(i, n) => Follows(i, n)',
         \A c \in Chan :
           /\ Receiving(c)' <=> Receiving(c)
           /\ Receiving(c) => pc'[Loop] = pc[Loop] /\ loc'[Loop].num = loc[Loop].num
           /\ chan[c].closed => chan'[c].closed
           /\ Latest(c)' = Latest(c),
         \A i \in Id :
           \/ channels'[i] = None \/ channels'[i] = channels[i]
           \/ /\ channels'[i] \in Chan
              /\ Latest(channels'[i]) = 0 /\ ~Receiving(channels'[i])
  PROVE  FlowInv'
<1>1. channels \in [Id -> Chan \cup {None}]
  BY DEF TypeInv, TypeOK
<1>2. ASSUME NEW i \in Id, NEW n \in 0 .. MaxData, Expects(i, n)
      PROVE  Expects(i, n)'
  <2>1. CASE channels'[i] = None
    BY <2>1 DEF Expects
  <2>2. CASE channels'[i] = channels[i] /\ channels[i] # None
    <3>1. PICK c \in Chan : channels[i] = c /\ channels'[i] = c
      BY <1>1, <2>2
    <3>2. \/ Receiving(c) /\ loc[Loop].num = n
          \/ ~Receiving(c) /\ (chan[c].closed \/ Latest(c) \in {0, n})
      BY <1>2, <2>2, <3>1 DEF Expects
    <3>3. \/ Receiving(c)' /\ loc'[Loop].num = n
          \/ ~Receiving(c)' /\ (chan'[c].closed \/ Latest(c)' \in {0, n})
      BY <3>2
    <3> QED BY <3>1, <3>3 DEF Expects, Receiving, Latest
  <2>3. ASSUME channels'[i] \in Chan, Latest(channels'[i]) = 0,
               ~Receiving(channels'[i])
        PROVE  Expects(i, n)'
    <3> DEFINE c == channels'[i]
    <3>1. c \in Chan /\ Latest(c) = 0 /\ ~Receiving(c)
      BY <2>3
    <3>2. channels'[i] = c
      OBVIOUS
    <3> HIDE DEF c
    <3>3. PICK d \in Chan : d = c
      BY <3>1
    <3>4. Latest(d)' = 0 /\ ~Receiving(d)'
      BY <3>1, <3>3
    <3> QED BY <3>2, <3>3, <3>4 DEF Expects, Receiving, Latest
  <2> QED BY <2>1, <2>2, <2>3
<1>3. Flow'
  <2> SUFFICES ASSUME NEW i \in Id
               PROVE  \E n \in 0 .. MaxData : Follows(i, n)' /\ Expects(i, n)'
    BY DEF Flow
  <2>1. PICK n \in 0 .. MaxData : Follows(i, n) /\ Expects(i, n)
    BY DEF FlowInv, Flow
  <2> QED BY <1>2, <2>1
<1>4. NextInHand'
  <2> SUFFICES ASSUME NEW c \in Chan, Receiving(c)'
               PROVE  \/ pc'[Loop] = "receive" /\ chan'[c].closed
                      \/ Latest(c)' = 0
                      \/ loc'[Loop].num = Latest(c)' + 1
    BY DEF NextInHand
  <2> QED BY DEF FlowInv, NextInHand
<1> QED BY <1>3, <1>4 DEF FlowInv

\* A goroutine moves, and neither comes to Receive and Push nor leaves them.
LEMMA SteadyMove ==
  ASSUME TypeInv, FlowInv, NEW t \in Thread, NEW l, NEW f, Move(t, l, f),
         t = Loop => {pc[Loop], l} \cap {"receive", "push"} = {},
         \A i \in Id, n \in 0 .. MaxData : Follows(i, n) => Follows(i, n)',
         \A c \in Chan : /\ chan[c].closed => chan'[c].closed
                         /\ Latest(c)' = Latest(c),
         \A i \in Id :
           \/ channels'[i] = None \/ channels'[i] = channels[i]
           \/ /\ channels'[i] \in Chan
              /\ Latest(channels'[i]) = 0 /\ ~Receiving(channels'[i])
  PROVE  FlowInv'
<1>1. /\ pc'[t] = l /\ loc'[t] = f
      /\ \A s \in Thread \ {t} : pc'[s] = pc[s] /\ loc'[s] = loc[s]
  BY Moves
<1>2. Loop \in Thread
  BY DEF Thread
<1>3. ASSUME NEW c \in Chan
      PROVE  /\ Receiving(c)' <=> Receiving(c)
             /\ Receiving(c) => pc'[Loop] = pc[Loop] /\ loc'[Loop].num = loc[Loop].num
  <2>1. CASE t = Loop
    BY <1>1, <2>1 DEF Receiving
  <2>2. CASE t # Loop
    BY <1>1, <1>2, <2>2 DEF Receiving
  <2> QED BY <2>1, <2>2
<1> QED BY <1>3, Steady

\* What is on its way stays, and what is in the map, or it leaves the map.
LEMMA Undisturbed ==
  ASSUME TypeInv, FlowInv, NEW t \in Thread, NEW l, NEW f, Move(t, l, f),
         t = Loop => {pc[Loop], l} \cap {"receive", "push"} = {},
         inbox' = inbox, peer'.data = peer.data, wire'.in = wire.in,
         \A c \in Chan : /\ chan[c].closed => chan'[c].closed
                         /\ Latest(c)' = Latest(c),
         \A i \in Id : channels'[i] = None \/ channels'[i] = channels[i]
  PROVE  FlowInv'
<1>1. \A i \in Id, n \in 0 .. MaxData : Follows(i, n) => Follows(i, n)'
  BY QueueStays
<1> QED BY <1>1, SteadyMove

\* And nothing at all happens to the Channels.
LEMMA Aside ==
  ASSUME TypeInv, FlowInv, NEW t \in Thread, NEW l, NEW f, Move(t, l, f),
         t = Loop => {pc[Loop], l} \cap {"receive", "push"} = {},
         inbox' = inbox, peer'.data = peer.data, wire'.in = wire.in, chan' = chan,
         \A i \in Id : channels'[i] = None \/ channels'[i] = channels[i]
  PROVE  FlowInv'
<1>1. \A c \in Chan : /\ chan[c].closed => chan'[c].closed
                      /\ Latest(c)' = Latest(c)
  BY DEF Latest
<1> QED BY <1>1, Undisturbed

\* Changing one Channel, and not the data it was given.
LEMMA OneChanged ==
  ASSUME TypeInv, NEW c \in Chan, NEW g \in Channel, SetChan(c, g),
         chan[c].closed => g.closed,
         (IF g.buf = <<>> THEN g.taken ELSE g.buf[Len(g.buf)]) = Latest(c)
  PROVE  \A d \in Chan : /\ chan[d].closed => chan'[d].closed
                         /\ Latest(d)' = Latest(d)
<1>1. chan'[c] = g /\ \A d \in Chan : d # c => chan'[d] = chan[d]
  BY DEF SetChan, TypeInv, TypeOK
<1>2. ASSUME NEW d \in Chan
      PROVE  /\ chan[d].closed => chan'[d].closed
             /\ Latest(d)' = Latest(d)
  <2>1. CASE d = c
    BY <1>1, <2>1 DEF Latest
  <2>2. CASE d # c
    BY <1>1, <2>2 DEF Latest
  <2> QED BY <2>1, <2>2
<1> QED BY <1>2

\* A new Channel is entered in the map.
LEMMA NewChannel ==
  ASSUME TypeInv, CloseInv, FlowInv, NEW t \in Thread, NEW l, NEW f, Move(t, l, f),
         {pc[t], l} \cap {"receive", "push"} = {},
         NEW c \in Fresh, NEW g \in Channel, SetChan(c, g), NEW i \in Id,
         g.buf = <<>>, g.taken = 0, channels' = [channels EXCEPT ![i] = c],
         UNCHANGED link
  PROVE  FlowInv'
<1>1. c \in Chan /\ chan[c].id = 0 /\ chan[c] = NoChannel
  BY DEF Fresh, CloseInv, Known
<1>2. ~chan[c].closed /\ Latest(c) = 0
  BY <1>1 DEF NoChannel, Latest
<1>3. \A d \in Chan : /\ chan[d].closed => chan'[d].closed
                      /\ Latest(d)' = Latest(d)
  BY <1>1, <1>2, OneChanged
<1>4. ~Receiving(c)
  <2>1. Loop \in Thread
    BY DEF Thread
  <2>2. Orderly(Loop, pc[Loop], loc[Loop], chan)
    BY <2>1 DEF CloseInv, AllOrderly
  <2> QED BY <1>1, <2>2 DEF Receiving, Orderly, Handed, ChannelInHand
<1>5. \A j \in Id : \/ channels'[j] = None \/ channels'[j] = channels[j]
                    \/ /\ channels'[j] \in Chan
                       /\ Latest(channels'[j]) = 0 /\ ~Receiving(channels'[j])
  <2>1. channels \in [Id -> Chan \cup {None}]
    BY DEF TypeInv, TypeOK
  <2>2. \A j \in Id : channels'[j] = IF j = i THEN c ELSE channels[j]
    BY <2>1
  <2> QED BY <1>1, <1>2, <1>4, <2>2
<1>6. \A j \in Id, n \in 0 .. MaxData : Follows(j, n) => Follows(j, n)'
  BY QueueStays
<1>7. t = Loop => {pc[Loop], l} \cap {"receive", "push"} = {}
  OBVIOUS
<1> QED BY <1>3, <1>5, <1>6, <1>7, SteadyMove

-----------------------------------------------------------------------------
\* The number drawn, the packet written, the Channel entered.
LEMMA FlowSending ==
  ASSUME TypeInv, CloseInv, FlowInv, NEW t \in Thread, Sending(t)
  PROVE  FlowInv'
<1>a. pc[t] \notin {"receive", "push"} /\ Home(t) \notin {"receive", "push"}
  BY DEF Sending, Draw, Write, Register, Enter, Home
<1>1. CASE Draw(t) \/ Register(t) \/ Write(t)
  <2>1. UNCHANGED <<channels, chan, inbox, wire>>
    BY <1>1 DEF Draw, Register, Write
  <2>2. peer'.data = peer.data
    BY <1>1 DEF Draw, Register, Write, Told, TypeInv, TypeOK
  <2>3. \E l, f : Move(t, l, f) /\ l \notin {"receive", "push"}
    <3>1. Return(t) => Move(t, Home(t), NoLocals)
      BY DEF Return
    <3>2. Sent(t) \notin {"receive", "push"}
      BY DEF Sent
    <3>3. Return(t) \/ \E l \in {"write", Sent(t)} : \E f : Move(t, l, f)
      BY <1>1 DEF Draw, Register, Write
    <3> QED BY <1>a, <3>1, <3>2, <3>3
  <2> QED BY <1>a, <2>1, <2>2, <2>3, Aside
<1>2. CASE Enter(t)
  <2>1. PICK c \in Fresh, i \in {loc[t].id, id} :
          /\ SetChan(c, [NoChannel EXCEPT !.id = i, !.given = TRUE])
          /\ channels' = [channels EXCEPT ![i] = c]
    BY <1>2 DEF Enter
  <2>2. i \in Id
    BY <1>2, InHandTyped, Numbers DEF Enter, Holding, NumberDrawn, IdInHand
  <2> DEFINE g == [NoChannel EXCEPT !.id = i, !.given = TRUE]
  <2>3. g \in Channel /\ g.buf = <<>> /\ g.taken = 0
    <3>1. TRUE \in BOOLEAN
      OBVIOUS
    <3>2. g \in Channel
      BY <2>2, <3>1, Allocated
    <3> QED BY <3>2 DEF NoChannel
  <2>4. SetChan(c, g)
    BY <2>1
  <2> HIDE DEF g
  <2>5. Move(t, Home(t), NoLocals) /\ UNCHANGED link
    BY <1>2 DEF Enter, Return
  <2> QED BY <1>a, <2>1, <2>2, <2>3, <2>4, <2>5, NewChannel
<1> QED BY <1>1, <1>2 DEF Sending

\* The Channel that is accepted is entered before it is returned.
LEMMA FlowAccepting ==
  ASSUME TypeInv, CloseInv, FlowInv, NEW t \in Thread, Accepting(t)
  PROVE  FlowInv'
<1>a. pc[t] \notin {"receive", "push"} /\ Home(t) \notin {"receive", "push"}
  BY DEF Accepting, Accept, AcceptEnter, AcceptReply, Home
<1>1. CASE Accept(t)
  <2>1. \E l, f : Move(t, l, f) /\ l \notin {"receive", "push"}
    <3>1. Return(t) => Move(t, Home(t), NoLocals)
      BY DEF Return
    <3>2. Return(t) \/ \E f : Move(t, "acceptEnter", f)
      BY <1>1 DEF Accept
    <3> QED BY <1>a, <3>1, <3>2
  <2> QED BY <1>1, <1>a, <2>1, Aside DEF Accept
<1>2. CASE AcceptEnter(t)
  <2>1. PICK c \in Fresh :
          /\ SetChan(c, [NoChannel EXCEPT !.id = loc[t].id])
          /\ channels' = [channels EXCEPT ![loc[t].id] = c]
          /\ Move(t, "acceptReply", [loc[t] EXCEPT !.ch = c])
    BY <1>2 DEF AcceptEnter
  <2>2. loc[t].id \in Id
    BY <1>2, InHandTyped DEF AcceptEnter, Holding, IdInHand
  <2> DEFINE g == [NoChannel EXCEPT !.id = loc[t].id]
  <2>3. g \in Channel /\ g.buf = <<>> /\ g.taken = 0
    <3>1. g \in Channel
      BY <2>2, Allocated, TRUE \in BOOLEAN
    <3> QED BY <3>1 DEF NoChannel
  <2>4. SetChan(c, g)
    BY <2>1
  <2>5. UNCHANGED link
    BY <1>2 DEF AcceptEnter
  <2> HIDE DEF g
  <2> QED BY <1>a, <2>1, <2>2, <2>3, <2>4, <2>5, NewChannel
<1>3. CASE AcceptReply(t)
  <2> DEFINE g == [InHand(t) EXCEPT !.given = TRUE]
             c == loc[t].ch
  <2>1. c \in Chan /\ InHand(t) \in Channel /\ InHand(t) = chan[c]
    BY <1>3, InHandTyped DEF AcceptReply, ChannelInHand, InHand
  <2>2. /\ g \in Channel /\ g.closed = chan[c].closed
        /\ g.buf = chan[c].buf /\ g.taken = chan[c].taken
    BY <2>1 DEF Channel
  <2>3. SetChan(c, g) /\ Move(t, Home(t), NoLocals) /\ UNCHANGED <<link, channels>>
    BY <1>3 DEF AcceptReply, Return
  <2>4. (IF g.buf = <<>> THEN g.taken ELSE g.buf[Len(g.buf)]) = Latest(c)
    BY <2>2 DEF Latest
  <2> HIDE DEF g, c
  <2>5. \A d \in Chan : /\ chan[d].closed => chan'[d].closed
                        /\ Latest(d)' = Latest(d)
    BY <2>1, <2>2, <2>3, <2>4, OneChanged
  <2> QED BY <1>a, <2>3, <2>5, Undisturbed
<1> QED BY <1>1, <1>2, <1>3 DEF Accepting

\* A Channel that is marked and shut has been given the same packets.
LEMMA FlowChannelClose ==
  ASSUME TypeInv, CloseInv, FlowInv, NEW t \in Thread, ChannelClose(t)
  PROVE  FlowInv'
<1> DEFINE c == loc[t].ch
<1>a. /\ pc[t] \notin {"receive", "push"} /\ loc[t].ret \notin {"receive", "push"}
      /\ c \in Chan /\ InHand(t) \in Channel /\ InHand(t) = chan[c]
  BY InHandTyped DEF ChannelClose, ChTest, ChMark, ChShut, ChannelInHand, ChanLabel,
     InHand, Locals
<1>b. UNCHANGED <<link, channels>>
  BY DEF ChannelClose, ChTest, ChMark, ChShut
<1>c. ASSUME NEW g \in Channel, SetChan(c, g), chan[c].closed => g.closed,
             g.buf = chan[c].buf, g.taken = chan[c].taken,
             NEW l, l \notin {"receive", "push"}, NEW f, Move(t, l, f)
      PROVE  FlowInv'
  <2>1. (IF g.buf = <<>> THEN g.taken ELSE g.buf[Len(g.buf)]) = Latest(c)
    BY <1>c DEF Latest
  <2> HIDE DEF c
  <2>2. \A d \in Chan : /\ chan[d].closed => chan'[d].closed
                        /\ Latest(d)' = Latest(d)
    BY <1>a, <1>c, <2>1, OneChanged
  <2> QED BY <1>a, <1>b, <1>c, <2>2, Undisturbed
<1>1. CASE UNCHANGED chan
  <2>1. \E l \in {loc[t].ret, "chMark", "chShut", "panicked"} : \E f : Move(t, l, f)
    BY DEF ChannelClose, ChTest, ChMark, ChShut, Panic, Resume, Goto
  <2> QED BY <1>1, <1>a, <1>b, <2>1, Aside
<1>2. CASE ChMark(t)
  <2> DEFINE g == [InHand(t) EXCEPT !.closed = TRUE, !.byUser = @ \/ t \in User]
  <2>1. /\ g \in Channel /\ g.closed = TRUE
        /\ g.buf = chan[c].buf /\ g.taken = chan[c].taken
    BY <1>a DEF Channel
  <2>2. SetChan(c, g) /\ Goto(t, "chShut")
    BY <1>2 DEF ChMark
  <2> HIDE DEF g
  <2> QED BY <1>c, <2>1, <2>2 DEF Goto
<1>3. CASE ChShut(t) /\ ~InHand(t).shut
  <2> DEFINE g == [InHand(t) EXCEPT !.shut = TRUE]
  <2>1. /\ g \in Channel /\ g.closed = chan[c].closed
        /\ g.buf = chan[c].buf /\ g.taken = chan[c].taken
    BY <1>a DEF Channel
  <2>2. SetChan(c, g) /\ \E f : Move(t, loc[t].ret, f)
    BY <1>3 DEF ChShut, Resume
  <2> HIDE DEF g
  <2> QED BY <1>a, <1>c, <2>1, <2>2
<1> QED BY <1>1, <1>2, <1>3 DEF ChannelClose, ChTest, ChShut

\* Taking the oldest packet of a buffer leaves the newest one the Channel was given.
LEMMA Taken ==
  ASSUME NEW q \in Seq(1 .. MaxData), q # <<>>
  PROVE  /\ Head(q) \in 0 .. MaxData /\ Tail(q) \in Seq(1 .. MaxData)
         /\ Tail(q) = <<>> => Head(q) = q[Len(q)]
         /\ Tail(q) # <<>> => Tail(q)[Len(Tail(q))] = q[Len(q)]
<1> DEFINE S == 1 .. MaxData
<1>1. \A x \in S : x \in 0 .. MaxData
  OBVIOUS
<1>2. q \in Seq(S)
  OBVIOUS
<1> HIDE DEF S
<1>3. /\ Head(q) \in S /\ Head(q) = q[1] /\ Tail(q) \in Seq(S)
      /\ Len(q) \in Nat /\ Len(Tail(q)) = Len(q) - 1 /\ Len(q) # 0
      /\ \A k \in 1 .. Len(Tail(q)) : Tail(q)[k] = q[k + 1]
  BY <1>2, HeadTailProperties, LenProperties, EmptySeq
<1>4. Tail(q) = <<>> <=> Len(Tail(q)) = 0
  BY <1>3, EmptySeq
<1>5. Tail(q) # <<>> => Tail(q)[Len(Tail(q))] = q[Len(q)]
  <2>1. Tail(q) # <<>> => /\ Len(Tail(q)) \in 1 .. Len(Tail(q))
                          /\ Len(Tail(q)) + 1 = Len(q)
    BY <1>3, <1>4
  <2> QED BY <1>3, <2>1
<1>6. Tail(q) = <<>> => Head(q) = q[Len(q)]
  <2>1. Tail(q) = <<>> => Len(q) = 1
    BY <1>3, <1>4
  <2> QED BY <1>3, <2>1
<1> QED BY <1>1, <1>3, <1>5, <1>6 DEF S

\* A reader takes what the Channel was given.
LEMMA FlowChannelUse ==
  ASSUME TypeInv, CloseInv, FlowInv, NEW t \in Thread, ChannelUse(t)
  PROVE  FlowInv'
<1> DEFINE c == loc[t].ch
<1>a. /\ pc[t] \notin {"receive", "push"} /\ Home(t) \notin {"receive", "push"}
      /\ c \in Chan /\ InHand(t) \in Channel /\ InHand(t) = chan[c]
  BY InHandTyped
     DEF ChannelUse, ReadTest, ReadTake, ReadFails, ChannelInHand, ChanLabel,
         InHand, Home
<1>b. UNCHANGED <<link, channels>>
  BY DEF ChannelUse, ReadTest, ReadTake, ReadFails
<1>1. CASE UNCHANGED chan
  <2>1. Move(t, Home(t), NoLocals) \/ Goto(t, "wait")
    BY DEF ChannelUse, ReadTest, ReadTake, ReadFails, Return
  <2> QED BY <1>1, <1>a, <1>b, <2>1, Aside DEF Goto
<1>2. CASE ReadTake(t)
  <2> DEFINE g == [InHand(t) EXCEPT !.taken = Head(InHand(t).buf), !.buf = Tail(@)]
  <2>1. chan[c].buf \in Seq(1 .. MaxData) /\ chan[c].buf # <<>>
    BY <1>2, <1>a DEF ReadTake, Channel
  <2>2. /\ g.closed = chan[c].closed
        /\ g.buf = Tail(chan[c].buf) /\ g.taken = Head(chan[c].buf)
    BY <1>a DEF Channel
  <2>3. g \in Channel
    <3>1. g = [[InHand(t) EXCEPT !.taken = Head(InHand(t).buf)]
                         EXCEPT !.buf = Tail(InHand(t).buf)]
      BY <1>a DEF Channel
    <3>2. [InHand(t) EXCEPT !.taken = Head(InHand(t).buf)] \in Channel
      BY <1>a, <2>1, Taken DEF Channel
    <3> QED BY <1>a, <2>1, <3>1, <3>2, Taken DEF Channel
  <2>4. SetChan(c, g) /\ Move(t, Home(t), NoLocals)
    BY <1>2 DEF ReadTake, Return
  <2>5. (IF g.buf = <<>> THEN g.taken ELSE g.buf[Len(g.buf)]) = Latest(c)
    BY <2>1, <2>2, Taken DEF Latest
  <2> HIDE DEF g, c
  <2>6. \A d \in Chan : /\ chan[d].closed => chan'[d].closed
                        /\ Latest(d)' = Latest(d)
    BY <1>a, <2>2, <2>3, <2>4, <2>5, OneChanged
  <2> QED BY <1>a, <1>b, <2>4, <2>6, Undisturbed
<1> QED BY <1>1, <1>2 DEF ChannelUse, ReadTest, ReadFails

\* Close and triggerClose: Channels leave the map, and none is given a packet.
LEMMA FlowClosing ==
  ASSUME TypeInv, FlowInv, NEW t \in Thread, Closing(t)
  PROVE  FlowInv'
<1>1. /\ pc[t] \notin {"receive", "push"}
      /\ inbox' = inbox /\ peer' = peer /\ chan' = chan
  BY DEF Closing, ClTest, ClWrite, ClIter, ClClear, TrTest, TrSet
<1>2. wire'.in = wire.in
  BY DEF Closing, ClTest, ClWrite, ClIter, ClClear, TrTest, TrSet, TypeInv, TypeOK
<1>3. \A i \in Id : channels'[i] = None \/ channels'[i] = channels[i]
  BY DEF Closing, ClTest, ClWrite, ClIter, ClClear, TrTest, TrSet
<1>4. \E l, f : Move(t, l, f) /\ l \notin {"receive", "push"}
  <2>1. Return(t) => Move(t, Home(t), NoLocals) /\ Home(t) \notin {"receive", "push"}
    BY DEF Return, Home
  <2>2. Return(t) \/ \E l \in {"clWrite", "clIter", "clClear", "trTest", "trSet",
                               "chTest"} : \E f : Move(t, l, f)
    BY DEF Closing, ClTest, ClWrite, ClIter, ClClear, TrTest, TrSet, Goto
  <2> QED BY <2>1, <2>2
<1> QED BY <1>1, <1>2, <1>3, <1>4, Aside

\* A goroutine of the application is not the read loop.
LEMMA FlowCall ==
  ASSUME TypeInv, FlowInv, NEW u \in User, Call(u)
  PROVE  FlowInv'
<1>1. u \in Thread /\ u # Loop
  BY ThreadAssumption DEF Thread
<1>2. UNCHANGED <<channels, chan, inbox, wire, peer>>
  BY DEF Call
<1>3. \E l, f : Move(u, l, f)
  BY DEF Call
<1> QED BY <1>1, <1>2, <1>3, Aside

\* Nor is the ping goroutine.
LEMMA FlowPinging ==
  ASSUME TypeInv, FlowInv, Pinging
  PROVE  FlowInv'
<1>1. Ping \in Thread /\ Ping # Loop
  BY ThreadAssumption DEF Thread
<1>2. UNCHANGED <<channels, chan, inbox, wire, peer>>
  BY DEF Pinging, Round, Expire
<1>3. \E l, f : Move(Ping, l, f)
  BY DEF Pinging, Round, Expire, Return, Goto
<1> QED BY <1>1, <1>2, <1>3, Aside

-----------------------------------------------------------------------------
\* The read loop reads a packet that is not data for a Channel.
LEMMA FlowOther ==
  ASSUME TypeInv, FlowInv, Reads, Arrived.kind # "data", inbox' = Tail(inbox),
         UNCHANGED <<channels, chan, wire, peer>>,
         NEW l, NEW f, Move(Loop, l, f), l \notin {"receive", "push"}
  PROVE  FlowInv'
<1>1. inbox \in Seq(Packet) /\ inbox # <<>> /\ Loop \in Thread
  BY Queued DEF Reads, Thread
<1>2. Arrived = inbox[1] /\ pc[Loop] = "reading"
  BY <1>1, HeadTailProperties DEF Arrived, Reads
<1>3. \A i \in Id, n \in 0 .. MaxData : Follows(i, n) => Follows(i, n)'
  <2> SUFFICES ASSUME NEW i \in Id, NEW n \in 0 .. MaxData, Follows(i, n)
               PROVE  Follows(i, n)'
    OBVIOUS
  <2>1. ~IsData(1, i)
    BY <1>2 DEF IsData
  <2> QED BY <1>1, <2>1, FirstRead
<1>4. ASSUME NEW c \in Chan
      PROVE  /\ chan[c].closed => chan'[c].closed
             /\ Latest(c)' = Latest(c)
  BY DEF Latest
<1> QED BY <1>1, <1>2, <1>3, <1>4, SteadyMove

\* It reads data, and takes it to the Channel that is in the map, if any.
LEMMA FlowData ==
  ASSUME TypeInv, CloseInv, FlowInv, Reads, Arrived.kind = "data",
         inbox' = Tail(inbox), UNCHANGED <<channels, chan, wire, peer>>,
         \/ Entered = None /\ Move(Loop, "loop", NoLocals)
         \/ \E f : /\ Entered # None /\ Move(Loop, "receive", f)
                   /\ f.ch = Entered /\ f.num = Arrived.num
  PROVE  FlowInv'
<1>1. inbox \in Seq(Packet) /\ inbox # <<>> /\ Loop \in Thread /\ pc[Loop] = "reading"
  BY Queued DEF Reads, Thread
<1>2. PICK i \in Id : Arrived.id = i
  BY <1>1, Arriving DEF Sendable
<1>i. Arrived = inbox[1] /\ IsData(1, i)
  BY <1>1, <1>2, HeadTailProperties DEF Arrived, IsData
<1>3. channels \in [Id -> Chan \cup {None}] /\ None \notin Chan
  BY ThreadAssumption DEF TypeInv, TypeOK
<1>4. \A c : ~Receiving(c)
  BY <1>1 DEF Receiving
<1>7. PICK e : e = Entered /\ e = channels[i]
  BY <1>2 DEF Entered
<1>5. \A c : Receiving(c)' => /\ pc'[Loop] = "receive" /\ e # None /\ c = e
                              /\ loc'[Loop].num = inbox[1].num
  <2>1. CASE Entered = None /\ Move(Loop, "loop", NoLocals)
    <3>1. pc'[Loop] = "loop"
      BY <1>1, <2>1, Moves
    <3> QED BY <3>1 DEF Receiving
  <2>2. ASSUME NEW f, Entered # None, Move(Loop, "receive", f), f.ch = Entered,
               f.num = Arrived.num
        PROVE  \A c : Receiving(c)' => /\ pc'[Loop] = "receive" /\ e # None /\ c = e
                                       /\ loc'[Loop].num = inbox[1].num
    BY <1>1, <1>i, <1>7, <2>2, Moves DEF Receiving
  <2> QED BY <2>1, <2>2
<1>6. e # None => Receiving(e)'
  BY <1>1, <1>7, Moves DEF Receiving
<1>8. PICK n \in 0 .. MaxData : Follows(i, n) /\ Expects(i, n)
  BY DEF FlowInv, Flow
<1>9. inbox[1].num = n + 1 /\ Follows(i, n + 1)'
  BY <1>1, <1>i, <1>8, FirstRead
<1>10. n + 1 \in 0 .. MaxData
  BY <1>1, <1>i, <1>9, Queued
<1>11. Flow'
  <2>1. Expects(i, n + 1)'
    <3>1. CASE e = None
      BY <1>7, <3>1 DEF Expects
    <3>2. CASE e # None
      BY <1>5, <1>6, <1>7, <1>9, <3>2 DEF Expects, Receiving
    <3> QED BY <3>1, <3>2
  <2>2. ASSUME NEW j \in Id, j # i
        PROVE  \E m \in 0 .. MaxData : Follows(j, m)' /\ Expects(j, m)'
    <3>1. PICK m \in 0 .. MaxData : Follows(j, m) /\ Expects(j, m)
      BY DEF FlowInv, Flow
    <3>2. Follows(j, m)'
      <4>1. ~IsData(1, j)
        BY <1>i, <2>2 DEF IsData
      <4> QED BY <1>1, <3>1, <4>1, FirstRead
    <3>3. channels[j] # None => channels[j] # e
      BY <1>3, <1>7, <2>2 DEF CloseInv, Known
    <3>4. channels[j] # None => \/ chan[channels[j]].closed
                                \/ Latest(channels[j]) \in {0, m}
      BY <1>4, <3>1 DEF Expects
    <3>5. channels[j] # None => ~Receiving(channels[j])'
      BY <1>5, <3>3
    <3>6. Expects(j, m)'
      BY <3>4, <3>5 DEF Expects, Receiving, Latest
    <3> QED BY <3>2, <3>6
  <2> QED BY <1>9, <1>10, <2>1, <2>2 DEF Flow
<1>12. NextInHand'
  <2> SUFFICES ASSUME NEW c \in Chan, Receiving(c)'
               PROVE  \/ pc'[Loop] = "receive" /\ chan'[c].closed
                      \/ Latest(c)' = 0
                      \/ loc'[Loop].num = Latest(c)' + 1
    BY DEF NextInHand
  <2>1. c = channels[i] /\ c # None /\ loc'[Loop].num = n + 1 /\ pc'[Loop] = "receive"
    BY <1>5, <1>7, <1>9
  <2>2. chan[c].closed \/ Latest(c) \in {0, n}
    BY <1>4, <1>8, <2>1 DEF Expects
  <2>3. Latest(c)' = Latest(c)
    BY DEF Latest
  <2> QED BY <2>1, <2>2, <2>3
<1> QED BY <1>11, <1>12 DEF FlowInv

\* The read loop leaves the Channel, which is closed or has the packet.
LEMMA FlowHanded ==
  ASSUME TypeInv, FlowInv, pc[Loop] \in {"receive", "push"},
         NEW l \in {"loop", "panicked"}, NEW f, Move(Loop, l, f),
         UNCHANGED <<channels, link>>,
         NEW c \in Chan, loc[Loop].ch = c,
         chan'[c].closed \/ Latest(c)' = loc[Loop].num,
         \A d \in Chan \ {c} : chan'[d] = chan[d]
  PROVE  FlowInv'
<1>1. Loop \in Thread /\ channels \in [Id -> Chan \cup {None}]
  BY DEF Thread, TypeInv, TypeOK
<1>2. pc'[Loop] \notin {"receive", "push"}
  BY <1>1, Moves
<1>3. \A d : ~Receiving(d)'
  BY <1>2 DEF Receiving
<1>4. Flow'
  <2> SUFFICES ASSUME NEW i \in Id
               PROVE  \E n \in 0 .. MaxData : Follows(i, n)' /\ Expects(i, n)'
    BY DEF Flow
  <2>1. PICK n \in 0 .. MaxData : Follows(i, n) /\ Expects(i, n)
    BY DEF FlowInv, Flow
  <2>2. Follows(i, n)'
    BY <2>1, QueueStays
  <2>3. CASE channels[i] = c
    <3>1. c # None /\ Receiving(c)
      BY ThreadAssumption DEF Receiving
    <3>2. loc[Loop].num = n
      BY <2>1, <2>3, <3>1 DEF Expects
    <3>3. Expects(i, n)'
      BY <1>3, <2>3, <3>2 DEF Expects, Receiving, Latest
    <3> QED BY <2>2, <3>3
  <2>4. CASE channels[i] # c
    <3>1. channels[i] # None => /\ channels[i] \in Chan \ {c}
                                /\ ~Receiving(channels[i])
      BY <1>1, <2>4 DEF Receiving
    <3>2. channels[i] # None =>
            chan'[channels[i]].closed \/ Latest(channels[i])' \in {0, n}
      BY <2>1, <3>1 DEF Expects, Latest
    <3>3. Expects(i, n)'
      BY <1>3, <3>2 DEF Expects, Receiving, Latest
    <3> QED BY <2>2, <3>3
  <2> QED BY <2>3, <2>4
<1> QED BY <1>3, <1>4 DEF FlowInv, NextInHand

\* The Channel that is sent a packet, and what it was given last.
LEMMA Pushed ==
  ASSUME TypeInv, Push, ~InHand(Loop).shut, NEW c \in Chan, loc[Loop].ch = c
  PROVE  /\ Move(Loop, "loop", NoLocals) /\ UNCHANGED <<channels, link>>
         /\ chan'[c] = [chan[c] EXCEPT !.buf = Append(chan[c].buf, loc[Loop].num)]
         /\ chan'[c].buf = Append(chan[c].buf, loc[Loop].num)
         /\ Len(chan[c].buf) \in Nat
         /\ Len(chan'[c].buf) = Len(chan[c].buf) + 1
         /\ chan'[c].buf[Len(chan[c].buf) + 1] = loc[Loop].num
         /\ Latest(c)' = loc[Loop].num
         /\ \A d \in Chan \ {c} : chan'[d] = chan[d]
<1> DEFINE S == 1 .. MaxData
<1>1. Loop \in Thread /\ pc[Loop] = "push"
  BY DEF Thread, Push
<1>2. chan[c] \in Channel /\ loc[Loop].num \in S /\ chan[c].buf \in Seq(S)
  BY <1>1, InHandTyped DEF ChannelInHand, InHand, Holding, Channel
<1>3. /\ Move(Loop, "loop", NoLocals) /\ UNCHANGED <<channels, link>>
      /\ SetChan(c, [chan[c] EXCEPT !.buf = Append(@, loc[Loop].num)])
  BY DEF Push, InHand
<1>4. /\ chan'[c] = [chan[c] EXCEPT !.buf = Append(chan[c].buf, loc[Loop].num)]
      /\ chan'[c].buf = Append(chan[c].buf, loc[Loop].num)
      /\ \A d \in Chan \ {c} : chan'[d] = chan[d]
  BY <1>2, <1>3 DEF SetChan, TypeInv, TypeOK, Channel
<1> HIDE DEF S
<1>5. /\ Len(chan[c].buf) \in Nat
      /\ Append(chan[c].buf, loc[Loop].num) \in Seq(S)
      /\ Len(Append(chan[c].buf, loc[Loop].num)) = Len(chan[c].buf) + 1
      /\ Append(chan[c].buf, loc[Loop].num)[Len(chan[c].buf) + 1] = loc[Loop].num
  BY <1>2, AppendProperties, LenProperties
<1>6. Append(chan[c].buf, loc[Loop].num) # <<>>
  BY <1>5, EmptySeq
<1>7. Latest(c)' = loc[Loop].num
  BY <1>4, <1>5, <1>6 DEF Latest
<1> QED BY <1>3, <1>4, <1>5, <1>7

\* The read loop: whatever packet it reads, and wherever it takes it.
LEMMA FlowReadLoop ==
  ASSUME TypeInv, CloseInv, FlowInv, ReadLoop
  PROVE  FlowInv'
<1>t. Loop \in Thread
  BY DEF Thread
<1>1. CASE LoopChannel
  <2>1. /\ Reads /\ inbox' = Tail(inbox) /\ Entered # None
        /\ UNCHANGED <<channels, chan, wire, peer>>
    BY <1>1 DEF LoopChannel
  <2>2. CASE Arrived.kind = "data"
    <3> DEFINE f == [NoLocals EXCEPT !.ch = Entered, !.num = Arrived.num]
    <3>1. f.ch = Entered /\ f.num = Arrived.num
      BY DEF NoLocals
    <3>2. Move(Loop, "receive", f)
      BY <1>1, <2>2 DEF LoopChannel
    <3> HIDE DEF f
    <3> QED BY <2>1, <2>2, <3>1, <3>2, FlowData
  <2>3. CASE Arrived.kind # "data"
    <3>1. \E l \in {"loop", "chTest"} : \E f : Move(Loop, l, f)
      BY <1>1, <2>3 DEF LoopChannel
    <3> QED BY <2>1, <2>3, <3>1, FlowOther
  <2> QED BY <2>2, <2>3
<1>2. CASE LoopNoChannel
  <2>1. /\ Reads /\ inbox' = Tail(inbox) /\ Entered = None
        /\ UNCHANGED <<channels, chan, wire, peer>>
    BY <1>2 DEF LoopNoChannel
  <2>2. CASE Arrived.kind = "data"
    <3>1. Move(Loop, "loop", NoLocals)
      BY <1>2, <2>2 DEF LoopNoChannel
    <3> QED BY <2>1, <2>2, <3>1, FlowData
  <2>3. CASE Arrived.kind # "data"
    <3>1. \E l \in {"loop", "queue"} : \E f : Move(Loop, l, f)
      BY <1>2 DEF LoopNoChannel
    <3> QED BY <2>1, <2>3, <3>1, FlowOther
  <2> QED BY <2>2, <2>3
<1>3. CASE LoopMessage
  BY <1>3, FlowOther DEF LoopMessage
<1>4. CASE LoopError
  <2>1. UNCHANGED <<channels, chan, peer>> /\ Move(Loop, "clTest", NoLocals)
    BY <1>4 DEF LoopError
  <2>2. CASE Reads /\ Arrived.kind = "garbage" /\ inbox' = Tail(inbox)
    <3>1. wire' = wire
      BY <1>4, <2>2 DEF LoopError, Reads, NoMore
    <3> QED BY <2>1, <2>2, <3>1, FlowOther
  <2>3. CASE (Closed \/ NoMore) /\ UNCHANGED inbox
    <3>1. wire'.in = wire.in
      BY <1>4 DEF LoopError, TypeInv, TypeOK
    <3>2. pc[Loop] \in {"loop", "reading"}
      BY <2>3 DEF Closed, NoMore
    <3> QED BY <1>t, <2>1, <2>3, <3>1, <3>2, Aside
  <2> QED BY <1>4, <2>2, <2>3 DEF LoopError
<1>5. CASE LoopTest \/ Queue \/ Reply
  <2>1. /\ UNCHANGED <<channels, chan, inbox, wire, peer>>
        /\ pc[Loop] \in {"loop", "queue", "reply"}
    BY <1>5 DEF LoopTest, Queue, Reply
  <2>2. PICK l \in {"loop", "reading"} : Move(Loop, l, NoLocals)
    BY <1>5 DEF LoopTest, Queue, Reply
  <2> QED BY <1>t, <2>1, <2>2, Aside
<1>6. CASE Receive
  <2>1. PICK c \in Chan : loc[Loop].ch = c
    BY <1>6, <1>t, InHandTyped DEF Receive, ChannelInHand
  <2>2. /\ UNCHANGED <<channels, chan, link>> /\ pc[Loop] = "receive"
        /\ chan[c].closed => Move(Loop, "loop", NoLocals)
        /\ ~chan[c].closed => Goto(Loop, "push")
    BY <1>6, <2>1 DEF Receive, InHand
  <2>3. CASE chan[c].closed
    BY <2>1, <2>2, <2>3, FlowHanded
  <2>4. CASE ~chan[c].closed
    <3>1. pc'[Loop] = "push" /\ loc'[Loop] = loc[Loop]
      BY <1>t, <2>2, <2>4, Moves DEF Goto
    <3>2. \A d : Receiving(d)' <=> Receiving(d)
      BY <2>2, <3>1 DEF Receiving
    <3>3. Flow'
      <4>1. ASSUME NEW i \in Id, NEW n \in 0 .. MaxData, Follows(i, n)
            PROVE  Follows(i, n)'
        BY <2>2, <4>1, QueueStays
      <4>2. ASSUME NEW i \in Id, NEW n \in 0 .. MaxData, Expects(i, n)
            PROVE  Expects(i, n)'
        BY <2>2, <3>1, <4>2 DEF Expects, Receiving, Latest
      <4> QED BY <4>1, <4>2 DEF FlowInv, Flow
    <3>4. NextInHand'
      <4> SUFFICES ASSUME NEW d \in Chan, Receiving(d)'
                   PROVE  Latest(d)' = 0 \/ loc'[Loop].num = Latest(d)' + 1
        BY DEF NextInHand
      <4>1. d = c /\ Receiving(d) /\ Latest(d)' = Latest(d)
        BY <2>1, <2>2, <3>2 DEF Receiving, Latest
      <4> QED BY <2>4, <3>1, <4>1 DEF FlowInv, NextInHand
    <3> QED BY <3>3, <3>4 DEF FlowInv
  <2> QED BY <2>3, <2>4
<1>7. CASE Push
  <2>1. PICK c \in Chan : loc[Loop].ch = c
    BY <1>7, <1>t, InHandTyped DEF Push, ChannelInHand
  <2>2. pc[Loop] = "push"
    BY <1>7 DEF Push
  <2>3. CASE InHand(Loop).shut
    <3>1. Goto(Loop, "panicked") /\ UNCHANGED <<channels, chan, link>>
      BY <1>7, <2>3 DEF Push, Panic
    <3>2. chan'[c].closed
      BY <2>1, <2>3, <3>1 DEF InHand, CloseInv, ShutLast
    <3> QED BY <2>1, <2>2, <3>1, <3>2, FlowHanded DEF Goto
  <2>4. CASE ~InHand(Loop).shut
    BY <1>7, <2>1, <2>2, <2>4, Pushed, FlowHanded
  <2> QED BY <2>3, <2>4
<1> QED BY <1>1, <1>2, <1>3, <1>4, <1>5, <1>6, <1>7 DEF ReadLoop

-----------------------------------------------------------------------------
\* The peer numbers what it sends on a channel, and the network keeps the order.
LEMMA FlowEnvironment ==
  ASSUME TypeInv, FlowInv, Environment
  PROVE  FlowInv'
<1>1. UNCHANGED <<channels, chan, pc, loc>>
  BY DEF Environment, PeerSends, PeerBye, Break
<1>a. ASSUME \A i \in Id, n \in 0 .. MaxData : Follows(i, n) => Follows(i, n)'
      PROVE  FlowInv'
  BY <1>1, <1>a, Steady DEF Receiving, Latest
<1>b. /\ \A i \in Id : peer.data[i] \in 0 .. MaxData
      /\ DOMAIN peer.data = Id
  BY Numbers DEF TypeInv, TypeOK
<1>c. \A k \in Kind, i \in Id \cup {0}, n \in Int :
        /\ Numbered(k, i, n) \in Packet /\ Numbered(k, i, n).kind = k
        /\ Numbered(k, i, n).id = i /\ Numbered(k, i, n).num = n
  BY DEF Numbered, Packet
<1>d. ASSUME NEW p \in Packet, p.kind # "data", inbox' = Append(inbox, p),
             peer'.data = peer.data, wire'.in = "open" => wire.in = "open"
      PROVE  FlowInv'
  BY <1>a, <1>d, LastSent
<1>2. CASE PeerSends
  <2>1. UNCHANGED wire
    BY <1>2 DEF PeerSends
  <2>2. ASSUME NEW i \in Id, NEW k \in {"open", "close", "message"}, PeerPosts(k, i)
        PROVE  FlowInv'
    <3>1. Post(Numbered(k, i, 0)) /\ UNCHANGED peer
      BY <2>2 DEF PeerPosts
    <3>2. Numbered(k, i, 0) \in Packet /\ Numbered(k, i, 0).kind # "data"
      BY <1>c DEF Kind
    <3> QED BY <1>d, <2>1, <3>1, <3>2 DEF Post
  <2>3. ASSUME NEW i \in Id, PeerData(i) PROVE FlowInv'
    <3> DEFINE p == Numbered("data", i, peer.data[i] + 1)
    <3>1. /\ p \in Packet /\ p.kind = "data" /\ p.id = i
          /\ p.num = peer.data[i] + 1
      BY <1>b, <1>c DEF Kind
    <3>2. /\ inbox' = Append(inbox, p) /\ wire.in = "open"
          /\ peer'.data = [peer.data EXCEPT ![i] = @ + 1]
      BY <2>3 DEF PeerData, Post, TypeInv, TypeOK
    <3> HIDE DEF p
    <3>3. peer'.data[i] = peer.data[i] + 1
      BY <1>b, <3>2
    <3>4. \A j \in Id : j # i => peer'.data[j] = peer.data[j]
      BY <1>b, <3>2
    <3>5. ASSUME NEW j \in Id, NEW n \in 0 .. MaxData, Follows(j, n)
          PROVE  Follows(j, n)'
      <4>1. CASE j = i
        BY <2>1, <3>1, <3>2, <3>3, <3>5, <4>1, LastSent
      <4>2. CASE j # i
        BY <2>1, <3>1, <3>2, <3>4, <3>5, <4>2, LastSent
      <4> QED BY <4>1, <4>2
    <3> QED BY <1>a, <3>5
  <2> QED BY <1>2, <2>2, <2>3 DEF PeerSends
<1>3. CASE PeerBye
  <2>1. UNCHANGED peer /\ wire'.in # "open"
    BY <1>3 DEF PeerBye, TypeInv, TypeOK
  <2>2. CASE UNCHANGED inbox
    BY <1>a, <2>1, <2>2, QueueStays
  <2>3. CASE inbox' = Append(inbox, Numbered("garbage", 0, 0))
    <3>1. /\ Numbered("garbage", 0, 0) \in Packet
          /\ Numbered("garbage", 0, 0).kind # "data"
      BY <1>c DEF Kind
    <3> QED BY <1>d, <2>1, <2>3, <3>1
  <2> QED BY <1>3, <2>2, <2>3 DEF PeerBye
<1>4. CASE Break
  <2>1. UNCHANGED peer /\ wire'.in # "open" /\ inbox' \in {inbox, <<>>}
    BY <1>4 DEF Break
  <2> QED BY <1>a, <2>1, QueueStays
<1> QED BY <1>2, <1>3, <1>4 DEF Environment

\* Nothing is on its way, and no Channel is in the map.
LEMMA FlowInit ==
  ASSUME Init
  PROVE  FlowInv
<1>1. /\ 0 \in 0 .. MaxData /\ inbox = <<>> /\ Len(inbox) = 0
      /\ \A i \in Id : peer.data[i] = 0 /\ channels[i] = None
  BY BoundAssumption DEF Init
<1>2. \A i \in Id : Follows(i, 0) /\ Expects(i, 0)
  BY <1>1 DEF Follows, Expects
<1>3. \A c \in Chan : ~Receiving(c)
  BY DEF Init, Receiving, Thread
<1> QED BY <1>1, <1>2, <1>3 DEF FlowInv, Flow, NextInHand

\* No step makes a hole.
LEMMA FlowNext ==
  ASSUME TypeInv, CloseInv, FlowInv, [Next]_vars
  PROVE  FlowInv'
<1>1. CASE UNCHANGED vars
  BY <1>1
     DEF vars, FlowInv, Flow, NextInHand, Follows, Expects, IsData, Receiving, Latest
<1>2. CASE Next
  <2>1. ASSUME NEW t \in Thread, Step(t) PROVE FlowInv'
    BY <2>1, FlowSending, FlowAccepting, FlowChannelClose, FlowChannelUse, FlowClosing
       DEF Step
  <2> QED BY <1>2, <2>1, FlowCall, FlowReadLoop, FlowPinging, FlowEnvironment DEF Next
<1> QED BY <1>1, <1>2

\* What is on its way for a channel follows what its Channel was given, whatever
\* goroutines enter, read and close Channels on the way.
THEOREM FlowInvariant == Spec => []FlowInv
<1>1. Init => FlowInv
  BY FlowInit
<1>2. TypeInv /\ CloseInv /\ FlowInv /\ [Next]_vars => FlowInv'
  BY FlowNext
<1> QED BY <1>1, <1>2, TypeInvariant, CloseInvariant, PTL DEF Spec

-----------------------------------------------------------------------------
\* A Channel of which only the owner or the identifier changes takes no step.
LEMMA Stutters ==
  ASSUME NEW c \in Chan, chan'[c].buf = chan[c].buf, chan'[c].taken = chan[c].taken,
         chan'[c].shut = chan[c].shut
  PROVE  FifoStep(c)
BY DEF FifoStep, Fifo!vars

\* One of the Channels changes; the others take no step.
LEMMA OthersStutter ==
  ASSUME TypeInv, NEW c \in Chan, NEW g, SetChan(c, g)
  PROVE  /\ chan'[c] = g
         /\ \A d \in Chan \ {c} : FifoStep(d)
<1>1. chan'[c] = g /\ \A d \in Chan \ {c} : chan'[d] = chan[d]
  BY DEF SetChan, TypeInv, TypeOK
<1> QED BY <1>1, Stutters

\* A new Channel is empty and open, as a FifoChannel starts.
LEMMA StepFresh ==
  ASSUME TypeInv, CloseInv, NEW c \in Fresh, NEW g, SetChan(c, g),
         g.buf = <<>>, g.taken = 0, g.shut = FALSE
  PROVE  \A d \in Chan : FifoStep(d)
<1>1. c \in Chan /\ chan[c] = NoChannel
  BY DEF Fresh, CloseInv, Known
<1>2. chan[c].buf = <<>> /\ chan[c].taken = 0 /\ chan[c].shut = FALSE
  BY <1>1 DEF NoChannel
<1>3. chan'[c] = g /\ \A d \in Chan \ {c} : FifoStep(d)
  BY <1>1, OthersStutter
<1>4. FifoStep(c)
  BY <1>1, <1>2, <1>3, Stutters
<1> QED BY <1>3, <1>4

\* Sending gives no Channel a packet; OpenChannel makes a new one.
LEMMA StepSending ==
  ASSUME TypeInv, CloseInv, NEW t \in Thread, Sending(t)
  PROVE  \A d \in Chan : FifoStep(d)
<1>1. CASE UNCHANGED chan
  BY <1>1, Stutters
<1>2. CASE Enter(t)
  <2>1. PICK c \in Fresh, i \in {loc[t].id, id} :
          SetChan(c, [NoChannel EXCEPT !.id = i, !.given = TRUE])
    BY <1>2 DEF Enter
  <2> QED BY <2>1, StepFresh DEF NoChannel
<1> QED BY <1>1, <1>2 DEF Sending, Draw, Write, Register

\* AcceptChannel makes a new one too.
LEMMA StepAccepting ==
  ASSUME TypeInv, CloseInv, NEW t \in Thread, Accepting(t)
  PROVE  \A d \in Chan : FifoStep(d)
<1>1. CASE Accept(t)
  BY <1>1, Stutters DEF Accept
<1>2. CASE AcceptEnter(t)
  <2>1. PICK c \in Fresh : SetChan(c, [NoChannel EXCEPT !.id = loc[t].id])
    BY <1>2 DEF AcceptEnter
  <2> QED BY <2>1, StepFresh DEF NoChannel
<1>3. CASE AcceptReply(t)
  <2>1. PICK c \in Chan : c = loc[t].ch
    BY <1>3, InHandTyped DEF AcceptReply, ChannelInHand
  <2>2. chan[c] \in Channel /\ SetChan(c, [chan[c] EXCEPT !.given = TRUE])
    BY <1>3, <2>1 DEF AcceptReply, InHand, TypeInv, TypeOK
  <2>3. chan'[c] = [chan[c] EXCEPT !.given = TRUE] /\ \A d \in Chan \ {c} : FifoStep(d)
    BY <2>2, OthersStutter
  <2>4. FifoStep(c)
    BY <2>2, <2>3, Stutters DEF Channel
  <2> QED BY <2>3, <2>4
<1> QED BY <1>1, <1>2, <1>3 DEF Accepting

\* Channel.Close: marking the Channel is not seen by a reader, shutting it is.
LEMMA StepChannelClose ==
  ASSUME TypeInv, NEW t \in Thread, ChannelClose(t)
  PROVE  \A d \in Chan : FifoStep(d)
<1>1. CASE UNCHANGED chan
  BY <1>1, Stutters
<1>2. PICK c \in Chan : c = loc[t].ch
  BY InHandTyped DEF ChannelClose, ChTest, ChMark, ChShut, ChannelInHand, ChanLabel
<1>3. chan[c] \in Channel
  BY DEF TypeInv, TypeOK
<1>4. CASE ChMark(t)
  <2>1. SetChan(c, [chan[c] EXCEPT !.closed = TRUE, !.byUser = @ \/ t \in User])
    BY <1>2, <1>4 DEF ChMark, InHand
  <2>2. /\ chan'[c] = [chan[c] EXCEPT !.closed = TRUE, !.byUser = @ \/ t \in User]
        /\ \A d \in Chan \ {c} : FifoStep(d)
    BY <2>1, OthersStutter
  <2>3. FifoStep(c)
    BY <1>3, <2>2, Stutters DEF Channel
  <2> QED BY <2>2, <2>3
<1>5. CASE ChShut(t) /\ ~InHand(t).shut
  <2>1. SetChan(c, [chan[c] EXCEPT !.shut = TRUE]) /\ ~chan[c].shut
    BY <1>2, <1>5 DEF ChShut, InHand
  <2>2. /\ chan'[c] = [chan[c] EXCEPT !.shut = TRUE]
        /\ \A d \in Chan \ {c} : FifoStep(d)
    BY <2>1, OthersStutter
  <2>3. /\ chan'[c].shut = TRUE /\ chan'[c].buf = chan[c].buf
        /\ chan'[c].taken = chan[c].taken
    BY <1>3, <2>2 DEF Channel
  <2>4. FifoStep(c)
    BY <2>1, <2>3 DEF FifoStep, Fifo!Next, Fifo!Close
  <2> QED BY <2>2, <2>4
<1> QED BY <1>1, <1>4, <1>5 DEF ChannelClose, ChTest, ChShut

\* Read and ReadTimeout take the oldest packet of the buffer.
LEMMA StepChannelUse ==
  ASSUME TypeInv, NEW t \in Thread, ChannelUse(t)
  PROVE  \A d \in Chan : FifoStep(d)
<1>1. CASE UNCHANGED chan
  BY <1>1, Stutters
<1>2. CASE ReadTake(t)
  <2>1. PICK c \in Chan : c = loc[t].ch
    BY <1>2, InHandTyped DEF ReadTake, ChannelInHand, ChanLabel
  <2>2. chan[c] \in Channel /\ chan[c].buf # <<>>
    BY <1>2, <2>1 DEF ReadTake, InHand, TypeInv, TypeOK
  <2>3. SetChan(c, [chan[c] EXCEPT !.taken = Head(chan[c].buf), !.buf = Tail(@)])
    BY <1>2, <2>1 DEF ReadTake, InHand
  <2>4. /\ chan'[c] = [chan[c] EXCEPT !.taken = Head(chan[c].buf), !.buf = Tail(@)]
        /\ \A d \in Chan \ {c} : FifoStep(d)
    BY <2>3, OthersStutter
  <2>5. /\ chan'[c].taken = Head(chan[c].buf) /\ chan'[c].buf = Tail(chan[c].buf)
        /\ chan'[c].shut = chan[c].shut
    BY <2>2, <2>4 DEF Channel
  <2>6. FifoStep(c)
    BY <2>2, <2>5 DEF FifoStep, Fifo!Next, Fifo!Take
  <2> QED BY <2>4, <2>6
<1> QED BY <1>1, <1>2 DEF ChannelUse, ReadTest, ReadFails

\* Push gives an open Channel the packet that is next.
LEMMA StepPush ==
  ASSUME TypeInv, FlowInv, Push
  PROVE  \A d \in Chan : FifoStep(d)
<1>1. CASE UNCHANGED chan
  BY <1>1, Stutters
<1>2. CASE ~InHand(Loop).shut
  <2>1. Loop \in Thread /\ pc[Loop] = "push"
    BY DEF Thread, Push
  <2>2. PICK c \in Chan : c = loc[Loop].ch
    BY <2>1, InHandTyped DEF ChannelInHand
  <2>3. chan[c] \in Channel /\ ~chan[c].shut
    BY <1>2, <2>2 DEF InHand, TypeInv, TypeOK
  <2>4. PICK n : n = loc[Loop].num
    OBVIOUS
  <2>5. /\ chan'[c] = [chan[c] EXCEPT !.buf = Append(chan[c].buf, n)]
        /\ chan'[c].buf = Append(chan[c].buf, n)
        /\ Len(chan'[c].buf) = Len(chan[c].buf) + 1
        /\ chan'[c].buf[Len(chan[c].buf) + 1] = n
        /\ \A d \in Chan \ {c} : chan'[d] = chan[d]
    BY <1>2, <2>2, <2>4, Pushed
  <2>6. chan'[c].taken = chan[c].taken /\ chan'[c].shut = chan[c].shut
    BY <2>3, <2>5 DEF Channel
  <2>7. Latest(c) # 0 => n = Latest(c) + 1
    BY <2>1, <2>2, <2>4 DEF FlowInv, NextInHand, Receiving
  <2>8. chan'[c].buf[Len(chan'[c].buf)] = n
    BY <2>5
  <2>9. Fifo(c)!Arrive
    BY <2>3, <2>5, <2>6, <2>7, <2>8 DEF Fifo!Arrive, Fifo!Newest, Latest
  <2>10. FifoStep(c)
    BY <2>9 DEF FifoStep, Fifo!Next
  <2>11. \A d \in Chan \ {c} : FifoStep(d)
    BY <2>5, Stutters
  <2> QED BY <2>10, <2>11
<1> QED BY <1>1, <1>2 DEF Push

\* Every step of the connection is one of a FifoChannel, or none.
LEMMA FifoNext ==
  ASSUME TypeInv, CloseInv, FlowInv, [Next]_vars
  PROVE  \A d \in Chan : FifoStep(d)
<1>1. UNCHANGED chan => \A d \in Chan : FifoStep(d)
  BY Stutters
<1>2. CASE UNCHANGED vars
  BY <1>1, <1>2 DEF vars
<1>3. CASE Next
  <2>1. ASSUME NEW t \in Thread, Step(t) PROVE \A d \in Chan : FifoStep(d)
    <3>1. CASE Closing(t)
      BY <1>1, <3>1 DEF Closing, ClTest, ClWrite, ClIter, ClClear, TrTest, TrSet
    <3> QED BY <2>1, <3>1, StepSending, StepAccepting, StepChannelClose, StepChannelUse
            DEF Step
  <2>2. CASE ReadLoop
    <3>1. UNCHANGED chan \/ Push
      BY <2>2 DEF ReadLoop, LoopTest, LoopChannel, LoopNoChannel, Queue, LoopMessage, Reply,
              LoopError, Receive
    <3> QED BY <1>1, <3>1, StepPush
  <2>3. CASE (\E u \in User : Call(u)) \/ Pinging \/ Environment
    BY <1>1, <2>3
       DEF Call, Pinging, Round, Expire, Environment, PeerSends, PeerBye, Break
  <2> QED BY <1>3, <2>1, <2>2, <2>3 DEF Next
<1> QED BY <1>2, <1>3

\* RpcProperties!ChannelsAreFifo: every Channel implements FifoChannel, for any
\* number of goroutines, Channels and packets and any capacity of the queues.
THEOREM ChannelsAreFifoHolds == Spec => ChannelsAreFifo
<1>1. Init => \A c \in Chan : Fifo(c)!Init
  BY DEF Init, Fifo!Init, NoChannel
<1>2. TypeInv /\ CloseInv /\ FlowInv /\ [Next]_vars =>
        [\A c \in Chan : [Fifo(c)!Next]_(Fifo(c)!vars)]_vars
  BY FifoNext DEF FifoStep
<1> QED BY <1>1, <1>2, TypeInvariant, CloseInvariant, FlowInvariant,
           PTL DEF Spec, ChannelsAreFifo
===============================================================================
