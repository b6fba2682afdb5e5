------------------------------- MODULE RpcState -------------------------------
(***************************************************************************)
(* The state of one connection of package rpc: the tables of conn.go, the  *)
(* channels of channel.go, the packets that are on their way from the      *)
(* peer, and where each goroutine is. The peer is not part of the          *)
(* repository, and nothing is assumed of it: it may open and close         *)
(* channels, and send data and messages, under any identifier, whoever     *)
(* drew it or will draw it; answer a request twice, or before it is made;  *)
(* use a channel it has closed, and open one again. Its data is numbered   *)
(* here for each identifier, in the order in which it sends it.            *)
(*                                                                         *)
(* The connection's counter starts at 0xffffffff and goes down: its value  *)
(* 0xffffffff - k is written -k here.                                      *)
(***************************************************************************)
EXTENDS Integers, Sequences, FiniteSets

CONSTANTS
  User,        (* the application's goroutines                             *)
  Loop,        (* the goroutine that runs StartHandler's read loop         *)
  Ping,        (* the goroutine StartHandler spawns                        *)
  Chan,        (* Channels that may be allocated                           *)
  None,        (* no channel, no reply                                     *)
  Calls,       (* what each of the application's goroutines may call       *)
  Events,      (* what may happen in the environment                       *)
  Shard,       (* the shard of replyFuncMap an identifier falls in         *)
  ChanCap,     (* capacity of a Channel's ch: 4                            *)
  AcceptCap,   (* capacity of channelAcceptChan: 128                       *)
  MaxId,       (* bound: identifiers drawn from the connection's counter   *)
  MaxPeerId,   (* bound: identifiers the connection does not draw          *)
  MaxData,     (* bound: data packets the peer sends                       *)
  MaxFlight    (* bound: packets on their way at a time                    *)

Op == {"send", "request", "open", "accept", "read", "readTimeout", "closeChan",
       "close"}

(* "garbage": a frame that is no packet; "bye": the peer closes; "break":  *)
(* the TCP connection fails; "open", "close", "message": the peer sends    *)
(* such packets; "tick": the ping goroutine's second passes.               *)
Event == {"garbage", "bye", "break", "open", "close", "message", "tick"}

Thread == User \cup {Loop, Ping}

OwnId  == -MaxId .. -1
PeerId == 1 .. MaxPeerId
Id     == OwnId \cup PeerId

ASSUME ThreadAssumption ==
  /\ Loop # Ping /\ Loop \notin User /\ Ping \notin User
  /\ None \notin Chan

ASSUME CallAssumption ==
  /\ Calls \in [User -> SUBSET Op]
  /\ Events \subseteq Event

ASSUME BoundAssumption ==
  /\ ChanCap \in Nat \ {0} /\ AcceptCap \in Nat \ {0}
  /\ MaxId \in Nat /\ MaxPeerId \in Nat /\ MaxData \in Nat
  /\ MaxFlight \in Nat \ {0}

VARIABLES
  id,        (* conn.id                                                     *)
  isClosed,  (* conn.isClosed                                               *)
  replies,   (* conn.replyFuncMap                                           *)
  channels,  (* conn.channelMap                                             *)
  accepts,   (* conn.channelAcceptChan                                      *)
  notified,  (* how often closeFunc was called                              *)
  chan,      (* the Channels                                                *)
  wire,      (* the WebSocket: what its two directions still carry          *)
  inbox,     (* packets from the peer that have not been read               *)
  peer,      (* the peer: the data it has sent; history: the packets it was *)
             (* sent, with the numbers their senders drew                   *)
  heard,     (* history: the identifiers of the packets each request's      *)
             (* callback was given                                          *)
  overlapped, (* history: the numbers drawn while another sender was at     *)
             (* work, and that sender's                                     *)
  pc,        (* where each goroutine is                                     *)
  loc        (* its local variables                                         *)

tables == <<isClosed, replies, channels, accepts, notified>>
link   == <<wire, inbox, peer>>
senders == <<id, heard, overlapped>>
vars == <<id, isClosed, replies, channels, accepts, notified, chan, wire, inbox,
          peer, heard, overlapped, pc, loc>>

-----------------------------------------------------------------------------
(* A packet. num numbers the data sent under an identifier.                *)
Kind == {"open", "data", "close", "message", "garbage"}

Packet == [kind : Kind, id : Id \cup {0}, num : Int]

Numbered(k, i, n) == [kind |-> k, id |-> i, num |-> n]

(* A Channel. given: the application has it. shut: its Go channel is       *)
(* closed. taken: the last packet a reader took; byUser: the application   *)
(* has closed it (two variables of the model).                             *)
Channel ==
  [id : Id \cup {0}, buf : Seq(1 .. MaxData), closed : BOOLEAN, shut : BOOLEAN,
   given : BOOLEAN, taken : 0 .. MaxData, byUser : BOOLEAN]

NoChannel == [id |-> 0, buf |-> <<>>, closed |-> FALSE, shut |-> FALSE,
              given |-> FALSE, taken |-> 0, byUser |-> FALSE]

(* A reply: the request it waits for, and whether it expires.              *)
NoReply == [call |-> 0, timed |-> FALSE]

SendLabel  == {"draw", "write", "register", "enter"}
AcceptLabel == {"accept", "acceptEnter", "acceptReply"}
ChanLabel  == {"read", "wait", "chTest", "chMark", "chShut"}
LoopLabel  == {"loop", "reading", "queue", "reply", "receive", "push"}
CloseLabel == {"clTest", "clWrite", "clIter", "clClear", "trTest", "trSet"}
PingLabel  == {"ping", "stuck"}

Label == {"idle", "ended", "panicked"} \cup SendLabel \cup AcceptLabel
           \cup ChanLabel \cup LoopLabel \cup CloseLabel \cup PingLabel

(* op: the call being served; call: the number drawn; id: an identifier in *)
(* hand; ch: a Channel in hand; num: a packet in hand; seen: the Channels  *)
(* Close has closed, todo: those it found; ret: where Channel.Close        *)
(* returns to.                                                             *)
Locals ==
  [op : Op \cup {"none"}, call : OwnId \cup {0}, id : Id \cup {0},
   ch : Chan \cup {None}, num : Int, todo : SUBSET Chan, seen : SUBSET Chan,
   ret : {"idle", "loop", "clIter"}]

NoLocals == [op |-> "none", call |-> 0, id |-> 0, ch |-> None, num |-> 0,
             todo |-> {}, seen |-> {}, ret |-> "idle"]

TypeOK ==
  /\ id \in -MaxId .. 0
  /\ isClosed \in BOOLEAN
  /\ replies \in [OwnId -> [call : OwnId \cup {0}, timed : BOOLEAN]]
  /\ channels \in [Id -> Chan \cup {None}]
  /\ accepts \in Seq(Id) /\ Len(accepts) <= AcceptCap
  /\ notified \in Nat
  /\ chan \in [Chan -> Channel]
  /\ \A c \in Chan : Len(chan[c].buf) <= ChanCap
  /\ wire \in [in : {"open", "bye", "broken"}, out : {"open", "shut", "broken"}]
  /\ inbox \in Seq(Packet)
  /\ peer \in [data : [Id -> 0 .. MaxData], sent : 0 .. MaxData,
               told : SUBSET [id : OwnId, num : OwnId]]
  /\ heard \in [OwnId -> SUBSET OwnId]
  /\ overlapped \subseteq OwnId
  /\ pc \in [Thread -> Label]
  /\ loc \in [Thread -> Locals]

-----------------------------------------------------------------------------
(* Moving through a function.                                              *)
Move(t, l, f) ==
  /\ pc' = [pc EXCEPT ![t] = l]
  /\ loc' = [loc EXCEPT ![t] = f]

Goto(t, l) == Move(t, l, loc[t])

(* StartHandler returns once the connection is closed, and so does its     *)
(* goroutine.                                                              *)
Home(t) == IF t \in User THEN "idle" ELSE "ended"

Return(t) == Move(t, Home(t), NoLocals)

(* A panicking goroutine keeps what it held.                               *)
Panic(t) == Goto(t, "panicked")

-----------------------------------------------------------------------------
(* WriteMessage, under the write lock: nothing is sent after a close       *)
(* frame; over a broken connection a write may seem to work for a while.   *)
CanWrite == wire.out \in {"open", "broken"}
CanFail  == wire.out \in {"shut", "broken"}

(* SendSpecifyId returns without an error: the peer learns of the packet   *)
(* if the connection works.                                                *)
Sends == ~isClosed /\ CanWrite
Fails == isClosed \/ CanFail
Arrives == wire.out = "open"

(* replyFuncMap's shard of identifier i can be locked: the ping goroutine  *)
(* does not wait, inside IterCb, for the write lock of the shard it reads. *)
Free(i) == pc[Ping] = "stuck" => Shard[loc[Ping].id] # Shard[i]

Fresh == {c \in Chan : chan[c].id = 0}

SetChan(c, f) == chan' = [chan EXCEPT ![c] = f]
===============================================================================
