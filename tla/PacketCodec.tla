----------------------------- MODULE PacketCodec ------------------------------
(***************************************************************************)
(* rpc/packet: a packet is encoded field by field into a byte buffer,      *)
(* masked, sent as one frame, unmasked and decoded field by field. The     *)
(* packet that opens a channel carries another one, encoded but not masked *)
(* a second time (OpenChannel, AcceptChannel), as its data.                *)
(***************************************************************************)
EXTENDS ByteBuffer, SequencesExt

CONSTANTS
  BitXor(_, _),   (* the exclusive or of two bytes                    *)
  Open,        (* ChannelMethodOpen, as bytes                         *)
  Method,      (* bound: the methods packets are sent with            *)
  Data,        (* bound: the data                                     *)
  Id,          (* bound: the ids                                      *)
  Frame        (* bound: the frames a peer may send                   *)

ASSUME BitXorAssumption ==
  \A x, y \in Byte : BitXor(x, y) \in Byte /\ BitXor(BitXor(x, y), y) = x

ASSUME PacketAssumption ==
  /\ Open \in Seq(Byte)
  /\ \A m \in Method \cup Data \cup Frame : m \in Seq(Byte)
  /\ \A i \in Id : i \in 0 .. Base * Base * Base * Base - 1

VARIABLES
  at,       (* the field to be written or read next, or where between them  *)
  mode,     (* "idle", "write", "read", or "rest" when a frame is done with *)
  packet,   (* the packet being encoded, <<>> when the frame is a peer's    *)
  inner,    (* the packet it carries, <<>> when it carries plain data       *)
  nested,   (* the packet is still to be put into one that opens a channel  *)
  buf,      (* the BufUtil in use                                           *)
  frame,    (* the frame on the wire                                        *)
  head,     (* the fields DecodePacket has read so far, as bytes            *)
  got       (* the packets decoded from the frame, the outer one first      *)

vars == <<at, mode, packet, inner, nested, buf, frame, head, got>>

Packet == [method : Method, id : Id, data : Data]

After == [methodLen |-> "dataLen", dataLen |-> "id", id |-> "method",
          method |-> "data", data |-> "end"]

NoHead == [f \in DOMAIN After |-> <<>>]

(* What EncodePacket writes, and how many bytes DecodePacket reads.        *)
Written(p) ==
  [methodLen |-> PutUint16(Len(p.method)),
   dataLen   |-> PutUint32(Len(p.data)),
   id        |-> PutUint32(p.id), method |-> p.method, data |-> p.data]

(* What ReadField takes; int(dataLen) is that of a 64-bit int.             *)
Size(field, h) ==
  CASE field = "methodLen"       -> 2
    [] field \in {"dataLen", "id"} -> 4
    [] field = "method"          -> Uint16(h.methodLen)
    [] field = "data"            -> Uint32(h.dataLen)

Masked(bytes) ==
  [i \in DOMAIN bytes |-> BitXor(bytes[i], (i - 1) % Base)]

Init ==
  /\ at = "end" /\ mode = "idle"
  /\ packet = <<>> /\ inner = <<>> /\ nested = FALSE
  /\ buf = CreateBySize /\ frame = <<>> /\ head = NoHead /\ got = <<>>

(* EncodePacket of p begins with a new buffer.                             *)
EncodePacket(p) ==
  /\ packet' = p
  /\ buf' = CreateBySize
  /\ mode' = "write" /\ at' = "methodLen"
  /\ frame' = <<>> /\ head' = NoHead /\ got' = <<>>

(* CreatePacket, for data that is bytes or text; a packet that is to go    *)
(* inside another one has no id of its own.                                *)
CreatePacket ==
  /\ mode = "idle"
  /\ \E p \in Packet : EncodePacket(p) /\ nested' \in {FALSE, p.id = 0}
  /\ inner' = <<>>

WriteField ==
  /\ mode = "write" /\ at # "end"
  /\ buf' = WriteBytes(buf, Written(packet)[at])
  /\ at' = After[at]
  /\ UNCHANGED <<mode, packet, inner, nested, frame, head, got>>

(* OpenChannel sends the encoded packet as the data of another one.        *)
Wrap ==
  /\ mode = "write" /\ at = "end" /\ nested
  /\ \E i \in Id : EncodePacket([method |-> Open, id |-> i, data |-> Bytes(buf)])
  /\ inner' = packet
  /\ nested' = FALSE

(* DecodePacket of what arrives.                                           *)
Decode(bytes) ==
  /\ buf' = Create(bytes)
  /\ head' = NoHead
  /\ mode' = "read" /\ at' = "methodLen"

Send ==
  /\ mode = "write" /\ at = "end" /\ ~nested
  /\ frame' = Masked(Bytes(buf))
  /\ Decode(Masked(frame'))
  /\ UNCHANGED <<packet, inner, nested, got>>

(* A frame that a peer made up.                                            *)
Receive ==
  /\ mode = "idle"
  /\ frame' \in Frame
  /\ Decode(Masked(frame'))
  /\ packet' = <<>> /\ inner' = <<>> /\ nested' = FALSE /\ got' = <<>>

ReadField ==
  /\ mode = "read" /\ at # "end"
  /\ CanRead(buf, Size(at, head))
  /\ head' = [head EXCEPT ![at] = Peek(buf, Size(at, head))]
  /\ buf' = Advance(buf, Size(at, head))
  /\ at' = After[at]
  /\ UNCHANGED <<mode, packet, inner, nested, frame, got>>

(* Out of bounds: DecodePacket returns the error.                          *)
ReadFails ==
  /\ mode = "read" /\ at # "end"
  /\ ~CanRead(buf, Size(at, head))
  /\ mode' = "rest"
  /\ UNCHANGED <<at, packet, inner, nested, buf, frame, head, got>>

Decoded == [method |-> head.method, id |-> Uint32(head.id), data |-> head.data]

(* Mutant of ReadDone: the packet inside is unmasked a second time.        *)
ReadDoneMasked ==
  /\ mode = "read" /\ at = "end"
  /\ got' = Append(got, Decoded)
  /\ \/ /\ got = <<>> /\ Decoded.method = Open
        /\ Decode(Masked(Decoded.data))
     \/ /\ got # <<>> \/ Decoded.method # Open
        /\ mode' = "rest"
        /\ UNCHANGED <<at, buf, head>>
  /\ UNCHANGED <<packet, inner, nested, frame>>

(* The packet is complete; the data of one that opens a channel is decoded *)
(* again (SubPacket), as it is.                                            *)
ReadDone ==
  /\ mode = "read" /\ at = "end"
  /\ got' = Append(got, Decoded)
  /\ \/ /\ got = <<>> /\ Decoded.method = Open
        /\ Decode(Decoded.data)
     \/ /\ got # <<>> \/ Decoded.method # Open
        /\ mode' = "rest"
        /\ UNCHANGED <<at, buf, head>>
  /\ UNCHANGED <<packet, inner, nested, frame>>

(* The next frame: nothing is kept of the last one.                        *)
Again ==
  /\ mode = "rest"
  /\ at' = "end" /\ mode' = "idle"
  /\ packet' = <<>> /\ inner' = <<>> /\ nested' = FALSE
  /\ buf' = CreateBySize /\ frame' = <<>> /\ head' = NoHead /\ got' = <<>>

Next ==
  \/ CreatePacket \/ WriteField \/ Wrap \/ Send
  \/ Receive \/ ReadField \/ ReadFails \/ ReadDone \/ Again

Spec == Init /\ [][Next]_vars

-----------------------------------------------------------------------------
(* The format, for the properties.                                         *)
Format(p) ==
  PutUint16(Len(p.method)) \o PutUint32(Len(p.data)) \o PutUint32(p.id)
    \o p.method \o p.data

Fits(p) ==
  Len(p.method) < Base * Base /\ Len(p.data) < Base * Base * Base * Base

\* What is sent is what arrives: a packet whose lengths fit their fields, up
\* to the largest, is decoded to itself, and so is the packet inside it.
RoundTrip ==
  mode = "rest" /\ packet # <<>> /\ Fits(packet)
    => /\ got # <<>> /\ Head(got) = packet
       /\ inner # <<>> /\ Fits(inner) => got = <<packet, inner>>

\* DecodePacket accepts a frame exactly if it begins with an encoded packet,
\* and returns that packet, whatever follows it: no length in a frame makes it
\* read past the end, and none that is true makes it fail.
DecodeExact ==
  mode = "rest" /\ packet = <<>> =>
    /\ got # <<>> => IsPrefix(Format(Head(got)), Masked(frame))
    /\ got = <<>> => \A p \in Packet : ~IsPrefix(Format(p), Masked(frame))
===============================================================================
