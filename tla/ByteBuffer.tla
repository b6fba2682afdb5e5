------------------------------ MODULE ByteBuffer -------------------------------
(***************************************************************************)
(* BufUtil of util/buf: bytes with a place to read from and a place to     *)
(* write to. A byte is a digit of base Base (256 in the code), so that a   *)
(* small Base brings the limits of the fixed-width fields within reach.    *)
(***************************************************************************)
EXTENDS Integers, Sequences

CONSTANT Base

ASSUME BaseAssumption == Base \in Nat \ {0, 1}

Byte == 0 .. Base - 1

Create(bytes) == [data |-> bytes, readIdx |-> 0, writeIdx |-> Len(bytes)]

CreateBySize == Create(<<>>)

Bytes(b) == SubSeq(b.data, 1, b.writeIdx)

WriteBytes(b, v) == [b EXCEPT !.data = @ \o v, !.writeIdx = @ + Len(v)]

(* binary.BigEndian: a number as two or four bytes, the most significant   *)
(* first, and back. Dividing by Base is >> 8; what does not fit is cut off *)
(* by the conversion to the fixed width.                                   *)
PutUint16(n) == <<(n \div Base) % Base, n % Base>>

PutUint32(n) == PutUint16((n \div Base) \div Base) \o PutUint16(n)

Uint16(v) == Base * v[1] + v[2]

Uint32(v) == Base * (Base * Uint16(v) + v[3]) + v[4]

(* Mutant of CanRead: the last byte is out of bounds.                      *)
CanReadStrict(b, n) == b.readIdx + n < b.writeIdx

(* ReadBytes: an error, or the next n bytes.                               *)
CanRead(b, n) == b.readIdx + n <= b.writeIdx

Peek(b, n) == SubSeq(b.data, b.readIdx + 1, b.readIdx + n)

Advance(b, n) == [b EXCEPT !.readIdx = @ + n]
===============================================================================
