-------------------------------- MODULE MCRpc ---------------------------------
(***************************************************************************)
(* Instances of Rpc for TLC. One goroutine opens a channel, or closes what *)
(* it or the other was given, and the other accepts and reads; or two send *)
(* requests and one of them closes the connection.                         *)
(***************************************************************************)
EXTENDS RpcProperties, TLC

CONSTANTS u1, u2

ChannelCalls ==
  (u1 :> {"send", "open", "closeChan", "close"}) @@ (u2 :> {"accept", "readTimeout"})

RequestCalls == (u1 :> {"request"}) @@ (u2 :> {"request", "close"})

\* Two shards: requests next to each other are in different ones.
ByParity == [i \in Id \cup {0} |-> i % 2]
===============================================================================
