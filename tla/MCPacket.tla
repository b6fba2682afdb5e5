------------------------------- MODULE MCPacket --------------------------------
(***************************************************************************)
(* Instances of PacketCodec for TLC: a byte of one bit, so that a method's *)
(* length is cut at four and data's at sixteen.                            *)
(***************************************************************************)
EXTENDS PacketCodec, Bitwise

XorBits(x, y) == x ^^ y

OpenMethod   == <<1>>
SomeMethods  == {<<>>, <<0>>, <<1>>, <<1, 0, 1>>, <<1, 0, 1, 1>>}
SomeData     == BoundedSeq({0, 1}, 2)
SomeIds      == {0, 1, 6, 15}
ShortFrames  == BoundedSeq({0, 1}, 12)
===============================================================================
