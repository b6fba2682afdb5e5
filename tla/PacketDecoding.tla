---------------------------- MODULE PacketDecoding ----------------------------
(***************************************************************************)
(* What DecodePacket makes of what EncodePacket writes, and of any other   *)
(* frame, for every value of the constants: bytes of any size, 256 among   *)
(* them, and methods, data and frames of any length. The bytes hold a      *)
(* whole packet or they do not (Whole), and DecodePacket finds that out    *)
(* field by field; a whole packet encoded again is what the bytes begin    *)
(* with (Reformat), and an encoded packet is found whole (FormatWhole).    *)
(***************************************************************************)
EXTENDS PacketCodec, SequenceTheorems, TLAPS

-----------------------------------------------------------------------------
(* Numbers as bytes.                                                       *)

\* A byte is cut off a number, and what is left is a number.
LEMMA DivMod ==
  ASSUME NEW n \in Nat
  PROVE  /\ n \div Base \in Nat /\ n % Base \in Byte
         /\ n = Base * (n \div Base) + (n % Base)
BY BaseAssumption DEF Byte

\* A byte put behind a number is cut off again.
LEMMA Digit ==
  ASSUME NEW a \in Nat, NEW b \in Byte
  PROVE  /\ Base * a + b \in Nat
         /\ (Base * a + b) \div Base = a
         /\ (Base * a + b) % Base = b
BY BaseAssumption, DivMod DEF Byte

\* A number below Base times m has less than m after a byte is cut off.
LEMMA DivBound ==
  ASSUME NEW n \in Nat, NEW m \in Nat, n < Base * m
  PROVE  n \div Base < m
BY BaseAssumption, DivMod DEF Byte

\* What a number is written as: two bytes.
LEMMA Put16 ==
  ASSUME NEW n \in Nat
  PROVE  /\ PutUint16(n) \in Seq(Byte) /\ Len(PutUint16(n)) = 2
         /\ PutUint16(n)[1] = (n \div Base) % Base /\ PutUint16(n)[2] = n % Base
<1>1. n % Base \in Byte /\ (n \div Base) % Base \in Byte
  BY DivMod
<1> QED BY <1>1 DEF PutUint16

\* The same of four bytes.
LEMMA Put32 ==
  ASSUME NEW n \in Nat
  PROVE  /\ PutUint32(n) \in Seq(Byte) /\ Len(PutUint32(n)) = 4
         /\ PutUint32(n)[1] = (((n \div Base) \div Base) \div Base) % Base
         /\ PutUint32(n)[2] = ((n \div Base) \div Base) % Base
         /\ PutUint32(n)[3] = (n \div Base) % Base /\ PutUint32(n)[4] = n % Base
<1> DEFINE m == (n \div Base) \div Base
<1>1. m \in Nat
  BY DivMod
<1> HIDE DEF m
<1>2. /\ PutUint16(m) \in Seq(Byte) /\ Len(PutUint16(m)) = 2
      /\ PutUint16(n) \in Seq(Byte) /\ Len(PutUint16(n)) = 2
  BY <1>1, Put16
<1>3. PutUint32(n) = PutUint16(m) \o PutUint16(n)
  BY DEF PutUint32, m
<1>4. /\ PutUint32(n) \in Seq(Byte) /\ Len(PutUint32(n)) = 4
      /\ \A i \in 1 .. 4 : PutUint32(n)[i] =
           IF i <= 2 THEN PutUint16(m)[i] ELSE PutUint16(n)[i - 2]
  <2>1. 2 + 2 = 4
    OBVIOUS
  <2> QED BY <1>2, <1>3, <2>1, ConcatProperties
<1>5. /\ PutUint32(n)[1] = PutUint16(m)[1] /\ PutUint32(n)[2] = PutUint16(m)[2]
      /\ PutUint32(n)[3] = PutUint16(n)[1] /\ PutUint32(n)[4] = PutUint16(n)[2]
  BY <1>4
<1>6. PutUint16(m)[1] = (m \div Base) % Base /\ PutUint16(m)[2] = m % Base
  BY <1>1, Put16
<1>7. PutUint16(n)[1] = (n \div Base) % Base /\ PutUint16(n)[2] = n % Base
  BY Put16
<1> QED BY <1>4, <1>5, <1>6, <1>7 DEF m

\* A byte is its own last byte.
LEMMA LastByte ==
  ASSUME NEW b \in Byte
  PROVE  b \in Nat /\ b % Base = b
BY BaseAssumption DEF Byte

\* Two bytes give a number, and the number the bytes.
LEMMA Get16 ==
  ASSUME NEW v \in Seq(Byte), Len(v) = 2
  PROVE  Uint16(v) \in Nat /\ PutUint16(Uint16(v)) = v
<1>1. PICK x \in Byte, y \in Byte : v[1] = x /\ v[2] = y
  BY ElementOfSeq
<1>2. x \in Nat /\ x % Base = x
  BY LastByte
<1>3. PICK n \in Nat : n = Base * x + y /\ n \div Base = x /\ n % Base = y
  BY <1>2, Digit
<1>4. Uint16(v) = n
  BY <1>1, <1>3 DEF Uint16
<1>5. /\ PutUint16(n) \in Seq(Byte) /\ Len(PutUint16(n)) = 2
      /\ PutUint16(n)[1] = x /\ PutUint16(n)[2] = y
  BY <1>2, <1>3, Put16
<1>6. \A i \in 1 .. 2 : PutUint16(n)[i] = v[i]
  BY <1>1, <1>5
<1> QED BY <1>4, <1>5, <1>6, SeqEqual

\* The same of four bytes.
LEMMA Get32 ==
  ASSUME NEW v \in Seq(Byte), Len(v) = 4
  PROVE  Uint32(v) \in Nat /\ PutUint32(Uint32(v)) = v
<1>1. PICK x \in Byte, y \in Byte, z \in Byte, w \in Byte :
        v[1] = x /\ v[2] = y /\ v[3] = z /\ v[4] = w
  <2>1. \A i \in 1 .. 4 : v[i] \in Byte
    BY ElementOfSeq
  <2>2. v[1] \in Byte /\ v[2] \in Byte /\ v[3] \in Byte /\ v[4] \in Byte
    BY <2>1
  <2> QED BY <2>2, Zenon
<1>2. x \in Nat /\ x % Base = x
  BY LastByte
<1>3. PICK a \in Nat : a = Base * x + y /\ a \div Base = x /\ a % Base = y
  BY <1>2, Digit
<1>4. PICK b \in Nat : b = Base * a + z /\ b \div Base = a /\ b % Base = z
  BY Digit
<1>5. PICK n \in Nat : n = Base * b + w /\ n \div Base = b /\ n % Base = w
  BY Digit
<1>6. Uint32(v) = n
  <2>1. Uint16(v) = a
    BY <1>1, <1>3 DEF Uint16
  <2>2. Uint32(v) = Base * (Base * a + z) + w
    BY <1>1, <2>1 DEF Uint32
  <2> QED BY <1>4, <1>5, <2>2
<1>7. /\ PutUint32(n) \in Seq(Byte) /\ Len(PutUint32(n)) = 4
      /\ PutUint32(n)[1] = x /\ PutUint32(n)[2] = y
      /\ PutUint32(n)[3] = z /\ PutUint32(n)[4] = w
  BY <1>2, <1>3, <1>4, <1>5, Put32
<1>8. \A i \in 1 .. 4 : PutUint32(n)[i] = v[i]
  BY <1>1, <1>7
<1> QED BY <1>6, <1>7, <1>8, SeqEqual

\* A number below a power of Base is as small in bytes.
LEMMA RemSmall ==
  ASSUME NEW n \in Nat
  PROVE  /\ n % Base \in Nat /\ n % Base <= n
         /\ n < Base => n % Base = n
BY BaseAssumption, DivMod DEF Byte

\* A byte put behind what may be cut.
LEMMA CutStep ==
  ASSUME NEW n \in Nat, NEW a \in Nat, a <= n \div Base
  PROVE  /\ Base * a + (n % Base) \in Nat
         /\ Base * a + (n % Base) <= n
         /\ a = n \div Base => Base * a + (n % Base) = n
<1> DEFINE q == n \div Base
           b == n % Base
<1>1. q \in Nat /\ b \in Nat /\ n = Base * q + b
  BY DivMod DEF Byte
<1>2. a <= q
  OBVIOUS
<1> HIDE DEF q, b
<1>3. Base * a + b \in Nat /\ Base * a + b <= n
  BY <1>1, <1>2, BaseAssumption
<1> QED BY <1>1, <1>3 DEF q, b

\* The two bytes of a number give a number that is not greater, and the number
\* itself if it fits.
LEMMA Cut16 ==
  ASSUME NEW n \in Nat
  PROVE  /\ Uint16(PutUint16(n)) \in Nat /\ Uint16(PutUint16(n)) <= n
         /\ n < Base * Base => Uint16(PutUint16(n)) = n
<1>1. PICK q \in Nat : q = n \div Base
  BY DivMod
<1>2. q % Base \in Nat /\ q % Base <= q /\ (q < Base => q % Base = q)
  BY RemSmall
<1>3. PICK m \in Nat : m = Base * (q % Base) + (n % Base)
                       /\ m <= n /\ (q % Base = q => m = n)
  BY <1>1, <1>2, CutStep
<1>4. Uint16(PutUint16(n)) = m
  BY <1>1, <1>3, Put16 DEF Uint16
<1>5. n < Base * Base => q < Base
  BY <1>1, BaseAssumption, DivBound
<1> QED BY <1>2, <1>3, <1>4, <1>5

\* The same of four bytes.
LEMMA Cut32 ==
  ASSUME NEW n \in Nat
  PROVE  /\ Uint32(PutUint32(n)) \in Nat /\ Uint32(PutUint32(n)) <= n
         /\ n < Base * Base * Base * Base => Uint32(PutUint32(n)) = n
<1>1. PICK q \in Nat : q = n \div Base
  BY DivMod
<1>2. PICK r \in Nat : r = q \div Base
  BY DivMod
<1>3. PICK s \in Nat : s = r \div Base
  BY DivMod
<1>4. s % Base \in Nat /\ s % Base <= s /\ (s < Base => s % Base = s)
  BY RemSmall
<1>5. PICK a \in Nat : a = Base * (s % Base) + (r % Base)
                       /\ a <= r /\ (s % Base = s => a = r)
  BY <1>3, <1>4, CutStep
<1>6. PICK b \in Nat : b = Base * a + (q % Base) /\ b <= q /\ (a = r => b = q)
  BY <1>2, <1>5, CutStep
<1>7. PICK m \in Nat : m = Base * b + (n % Base) /\ m <= n /\ (b = q => m = n)
  BY <1>1, <1>6, CutStep
<1>8. Uint32(PutUint32(n)) = m
  <2>1. /\ PutUint32(n)[1] = s % Base /\ PutUint32(n)[2] = r % Base
        /\ PutUint32(n)[3] = q % Base /\ PutUint32(n)[4] = n % Base
    BY <1>1, <1>2, <1>3, Put32
  <2>2. Uint16(PutUint32(n)) = a
    BY <1>5, <2>1 DEF Uint16
  <2> QED BY <1>6, <1>7, <2>1, <2>2 DEF Uint32
<1>9. n < Base * Base * Base * Base => s < Base
  <2> SUFFICES ASSUME n < Base * Base * Base * Base PROVE s < Base
    OBVIOUS
  <2>1. PICK c \in Nat : c = Base * Base
    BY BaseAssumption
  <2>2. PICK d \in Nat : d = Base * c
    BY <2>1, BaseAssumption
  <2>3. n < Base * d
    BY <2>1, <2>2, BaseAssumption
  <2>4. q < Base * c
    BY <1>1, <2>2, <2>3, DivBound
  <2>5. r < Base * Base
    BY <1>2, <2>1, <2>4, DivBound
  <2> QED BY <1>3, <2>5, BaseAssumption, DivBound
<1> QED BY <1>4, <1>5, <1>6, <1>7, <1>8, <1>9

-----------------------------------------------------------------------------
(* Pieces of sequences.                                                    *)

\* Two sequences joined.
LEMMA Join ==
  ASSUME NEW S, NEW s \in Seq(S), NEW t \in Seq(S)
  PROVE  s \o t \in Seq(S) /\ Len(s \o t) = Len(s) + Len(t)
BY ConcatProperties

\* A prefix has the pieces of what it is a prefix of.
LEMMA PieceOfPrefix ==
  ASSUME NEW S, NEW s \in Seq(S), NEW t \in Seq(S), IsPrefix(s, t),
         NEW m \in Nat \ {0}, NEW n \in Nat, n <= Len(s)
  PROVE  SubSeq(t, m, n) = SubSeq(s, m, n)
<1>1. Len(s) \in Nat /\ Len(t) \in Nat /\ Len(s) <= Len(t)
  BY LenProperties DEF IsPrefix
<1>2. \A i \in 1 .. Len(s) : s[i] = t[i]
  BY <1>1 DEF IsPrefix
<1>3. \A i \in m .. n : s[i] = t[i] /\ s[i] \in S /\ t[i] \in S
  BY <1>1, <1>2, ElementOfSeq
<1>4. /\ SubSeq(s, m, n) \in Seq(S) /\ SubSeq(t, m, n) \in Seq(S)
      /\ Len(SubSeq(s, m, n)) = Len(SubSeq(t, m, n))
  BY <1>3, SubSeqProperties
<1>5. \A i \in 1 .. n - m + 1 : SubSeq(s, m, n)[i] = s[m + i - 1]
  BY <1>3, SubSeqProperties
<1>6. \A i \in 1 .. n - m + 1 : SubSeq(t, m, n)[i] = t[m + i - 1]
  BY <1>3, SubSeqProperties
<1>7. Len(SubSeq(s, m, n)) = IF m <= n THEN n - m + 1 ELSE 0
  BY <1>3, SubSeqProperties
<1>8. \A i \in 1 .. Len(SubSeq(s, m, n)) : SubSeq(s, m, n)[i] = SubSeq(t, m, n)[i]
  BY <1>3, <1>5, <1>6, <1>7
<1> QED BY <1>4, <1>8, SeqEqual

\* What is put behind a sequence is found there, and the sequence is a prefix.
LEMMA Behind ==
  ASSUME NEW S, NEW s \in Seq(S), NEW t \in Seq(S),
         NEW k \in Nat, NEW m \in Nat, k = Len(s) + 1, m = Len(s) + Len(t)
  PROVE  /\ s \o t \in Seq(S) /\ Len(s \o t) = m
         /\ SubSeq(s \o t, k, m) = t
         /\ IsPrefix(s, s \o t)
<1>1. PICK l \in Nat, n \in Nat : l = Len(s) /\ n = Len(t)
  BY LenProperties
<1>2. PICK v \in Seq(S) : v = s \o t /\ Len(v) = Len(s) + Len(t)
  BY Join, Zenon
<1>3. \A i \in 1 .. l + n : v[i] = IF i <= l THEN s[i] ELSE t[i - l]
  BY <1>1, <1>2, ConcatProperties
<1>4. \A i \in 1 .. n : v[l + i] = t[i] /\ v[l + i] \in S
  <2>1. \A i \in 1 .. n : l + i \in 1 .. l + n /\ ~(l + i <= l) /\ (l + i) - l = i
    OBVIOUS
  <2>2. \A i \in 1 .. n : t[i] \in S
    BY <1>1, ElementOfSeq
  <2> QED BY <1>3, <2>1, <2>2
<1>5. \A i \in k .. m : v[i] \in S
  <2>1. \A i \in k .. m : i \in 1 .. Len(v)
    BY <1>2
  <2> QED BY <2>1, ElementOfSeq
<1>6. /\ SubSeq(v, k, m) \in Seq(S)
      /\ Len(SubSeq(v, k, m)) = IF k <= m THEN m - k + 1 ELSE 0
      /\ \A i \in 1 .. m - k + 1 : SubSeq(v, k, m)[i] = v[k + i - 1]
  BY <1>5, SubSeqProperties
<1>7. Len(SubSeq(v, k, m)) = Len(t)
  BY <1>1, <1>6
<1>8. \A i \in 1 .. Len(t) : SubSeq(v, k, m)[i] = t[i]
  <2>1. \A i \in 1 .. n : i \in 1 .. m - k + 1 /\ k + i - 1 = l + i
    BY <1>1
  <2> QED BY <1>1, <1>4, <1>6, <2>1
<1>9. SubSeq(v, k, m) = t
  BY <1>6, <1>7, <1>8, SeqEqual
<1>10. IsPrefix(s, v)
  BY <1>1, <1>2, <1>3 DEF IsPrefix
<1> QED BY <1>2, <1>9, <1>10

\* From i to j, there is w in v.
Piece(v, i, j, w) == /\ i \in Nat \ {0} /\ j \in Nat /\ j <= Len(v)
                     /\ SubSeq(v, i, j) = w

\* A prefix has its pieces where what it is a prefix of has them.
LEMMA PieceKept ==
  ASSUME NEW S, NEW s \in Seq(S), NEW v \in Seq(S), IsPrefix(s, v),
         NEW i, NEW j, NEW w, Piece(s, i, j, w)
  PROVE  Piece(v, i, j, w)
<1>1. Len(s) \in Nat /\ Len(v) \in Nat /\ Len(s) <= Len(v)
  BY LenProperties DEF IsPrefix
<1>2. i \in Nat \ {0} /\ j \in Nat /\ j <= Len(s) /\ SubSeq(s, i, j) = w
  BY DEF Piece
<1>3. SubSeq(v, i, j) = SubSeq(s, i, j)
  <2>1. \A x \in Nat \ {0} : \A y \in Nat :
          y <= Len(s) => SubSeq(v, x, y) = SubSeq(s, x, y)
    BY PieceOfPrefix
  <2> QED BY <1>2, <2>1, Zenon
<1>4. j <= Len(v)
  BY <1>1, <1>2
<1> QED BY <1>2, <1>3, <1>4 DEF Piece

\* A sequence extended by another: the pieces it had are where they were.
LEMMA Extend ==
  ASSUME NEW S, NEW s \in Seq(S), NEW t \in Seq(S),
         NEW k \in Nat, NEW m \in Nat, k = Len(s) + 1, m = Len(s) + Len(t)
  PROVE  /\ s \o t \in Seq(S) /\ Len(s \o t) = m /\ Piece(s \o t, k, m, t)
         /\ \A i, j, w : Piece(s, i, j, w) => Piece(s \o t, i, j, w)
<1>1. PICK v \in Seq(S) :
        v = s \o t /\ Len(v) = m /\ SubSeq(v, k, m) = t /\ IsPrefix(s, v)
  <2>1. /\ s \o t \in Seq(S) /\ Len(s \o t) = m
        /\ SubSeq(s \o t, k, m) = t /\ IsPrefix(s, s \o t)
    BY Behind
  <2> QED BY <2>1, Zenon
<1>2. Len(s) \in Nat /\ Len(t) \in Nat
  BY LenProperties
<1>3. Piece(v, k, m, t)
  BY <1>1, <1>2 DEF Piece
<1>4. \A i, j, w : Piece(s, i, j, w) => Piece(v, i, j, w)
  BY <1>1, PieceKept
<1> QED BY <1>1, <1>3, <1>4

-----------------------------------------------------------------------------
(* The format, and what DecodePacket finds in any bytes.                   *)

AnyPacket == [method : Seq(Byte), id : Nat, data : Seq(Byte)]

MethodLen(d) == Uint16(SubSeq(d, 1, 2))
DataLen(d)   == Uint32(SubSeq(d, 3, 6))

\* A whole packet is there ...
Whole(d) == 10 <= Len(d) /\ 10 + MethodLen(d) + DataLen(d) <= Len(d)

\* ... and this is it.
Parsed(d) ==
  [method |-> SubSeq(d, 11, 10 + MethodLen(d)),
   id     |-> Uint32(SubSeq(d, 7, 10)),
   data   |-> SubSeq(d, 11 + MethodLen(d), 10 + MethodLen(d) + DataLen(d))]

\* The fields of an encoded packet are where DecodePacket looks for them.
LEMMA FormatPieces ==
  ASSUME NEW p \in AnyPacket
  PROVE  LET f == Format(p)
             m == Len(p.method)
             n == Len(p.data)
         IN  /\ f \in Seq(Byte) /\ Len(f) = 10 + m + n
             /\ SubSeq(f, 1, 2) = PutUint16(m)
             /\ SubSeq(f, 3, 6) = PutUint32(n)
             /\ SubSeq(f, 7, 10) = PutUint32(p.id)
             /\ SubSeq(f, 11, 10 + m) = p.method
             /\ SubSeq(f, 11 + m, 10 + m + n) = p.data
<1>1. p.method \in Seq(Byte) /\ p.data \in Seq(Byte) /\ p.id \in Nat
  BY DEF AnyPacket
<1>2. Len(p.method) \in Nat /\ Len(p.data) \in Nat
  BY <1>1, LenProperties
<1>3. PICK m \in Nat, n \in Nat : m = Len(p.method) /\ n = Len(p.data)
  BY <1>2
<1>4. PICK a \in Seq(Byte), b \in Seq(Byte), c \in Seq(Byte) :
        /\ a = PutUint16(m) /\ b = PutUint32(n) /\ c = PutUint32(p.id)
        /\ Len(a) = 2 /\ Len(b) = 4 /\ Len(c) = 4
  BY <1>1, Put16, Put32
<1>5. PICK j \in Nat, k \in Nat, l \in Nat : j = m + 11 /\ k = 10 + m /\ l = 10 + m + n
  OBVIOUS
<1>6. Piece(a, 1, 2, a)
  BY <1>4, SubSeqFull DEF Piece
<1>7. PICK ab \in Seq(Byte) :
        /\ ab = a \o b /\ Len(ab) = 6 /\ Piece(ab, 3, 6, b)
        /\ Piece(ab, 1, 2, a)
  <2>1. 3 \in Nat /\ 6 \in Nat /\ 3 = Len(a) + 1 /\ 6 = Len(a) + Len(b)
    BY <1>4
  <2>2. /\ a \o b \in Seq(Byte) /\ Len(a \o b) = 6 /\ Piece(a \o b, 3, 6, b)
        /\ \A x, y, z : Piece(a, x, y, z) => Piece(a \o b, x, y, z)
    BY <2>1, Extend
  <2> QED BY <1>6, <2>2, Zenon
<1>8. PICK abc \in Seq(Byte) :
        /\ abc = ab \o c /\ Len(abc) = 10 /\ Piece(abc, 7, 10, c)
        /\ Piece(abc, 1, 2, a) /\ Piece(abc, 3, 6, b)
  <2>1. 7 \in Nat /\ 10 \in Nat /\ 7 = Len(ab) + 1 /\ 10 = Len(ab) + Len(c)
    BY <1>4, <1>7
  <2>2. /\ ab \o c \in Seq(Byte) /\ Len(ab \o c) = 10 /\ Piece(ab \o c, 7, 10, c)
        /\ \A x, y, z : Piece(ab, x, y, z) => Piece(ab \o c, x, y, z)
    BY <2>1, Extend
  <2> QED BY <1>7, <2>2, Zenon
<1>9. PICK abcs \in Seq(Byte) :
        /\ abcs = abc \o p.method /\ Len(abcs) = k /\ Piece(abcs, 11, k, p.method)
        /\ Piece(abcs, 1, 2, a) /\ Piece(abcs, 3, 6, b) /\ Piece(abcs, 7, 10, c)
  <2>1. 11 \in Nat /\ 11 = Len(abc) + 1 /\ k = Len(abc) + Len(p.method)
    BY <1>3, <1>5, <1>8
  <2>2. /\ abc \o p.method \in Seq(Byte) /\ Len(abc \o p.method) = k
        /\ Piece(abc \o p.method, 11, k, p.method)
        /\ \A x, y, z : Piece(abc, x, y, z) => Piece(abc \o p.method, x, y, z)
    BY <1>1, <2>1, Extend
  <2> QED BY <1>8, <2>2, Zenon
<1>10. PICK f \in Seq(Byte) :
        /\ f = abcs \o p.data /\ Len(f) = l /\ Piece(f, j, l, p.data)
        /\ Piece(f, 1, 2, a) /\ Piece(f, 3, 6, b) /\ Piece(f, 7, 10, c)
        /\ Piece(f, 11, k, p.method)
  <2>1. j = Len(abcs) + 1 /\ l = Len(abcs) + Len(p.data)
    BY <1>3, <1>5, <1>9
  <2>2. /\ abcs \o p.data \in Seq(Byte) /\ Len(abcs \o p.data) = l
        /\ Piece(abcs \o p.data, j, l, p.data)
        /\ \A x, y, z : Piece(abcs, x, y, z) => Piece(abcs \o p.data, x, y, z)
    BY <1>1, <2>1, Extend
  <2> QED BY <1>9, <2>2, Zenon
<1>11. Format(p) = f
  BY <1>3, <1>4, <1>7, <1>8, <1>9, <1>10, Zenon DEF Format
<1>12. /\ SubSeq(f, 1, 2) = a /\ SubSeq(f, 3, 6) = b /\ SubSeq(f, 7, 10) = c
       /\ SubSeq(f, 11, k) = p.method /\ SubSeq(f, j, l) = p.data
  BY <1>10, Zenon DEF Piece
<1>13. j = 11 + m
  BY <1>5
<1> QED BY <1>3, <1>4, <1>5, <1>10, <1>11, <1>12, <1>13, Zenon

\* An encoded packet whose lengths fit their fields is whole, and the one found.
LEMMA FormatWhole ==
  ASSUME NEW p \in AnyPacket, Fits(p), p.id < Base * Base * Base * Base
  PROVE  Whole(Format(p)) /\ Parsed(Format(p)) = p
<1> DEFINE f == Format(p)
<1>1. PICK m \in Nat, n \in Nat : m = Len(p.method) /\ n = Len(p.data)
  BY LenProperties DEF AnyPacket
<1>2. /\ Len(f) = 10 + m + n
      /\ SubSeq(f, 1, 2) = PutUint16(m) /\ SubSeq(f, 3, 6) = PutUint32(n)
      /\ SubSeq(f, 7, 10) = PutUint32(p.id)
      /\ SubSeq(f, 11, 10 + m) = p.method
      /\ SubSeq(f, 11 + m, 10 + m + n) = p.data
  BY <1>1, FormatPieces, Zenon
<1>3. p.id \in Nat
  BY DEF AnyPacket
<1>4. m < Base * Base /\ n < Base * Base * Base * Base
  BY <1>1 DEF Fits
<1> HIDE DEF f
<1>5. MethodLen(f) = m
  BY <1>2, <1>4, Cut16 DEF MethodLen
<1>6. DataLen(f) = n
  BY <1>2, <1>4, Cut32 DEF DataLen
<1>7. Uint32(SubSeq(f, 7, 10)) = p.id
  BY <1>2, <1>3, Cut32
<1>8. Whole(f)
  BY <1>2, <1>5, <1>6 DEF Whole
<1>9. Parsed(f) = [method |-> p.method, id |-> p.id, data |-> p.data]
  BY <1>2, <1>5, <1>6, <1>7, Zenon DEF Parsed
<1>10. p = [method |-> p.method, id |-> p.id, data |-> p.data]
  BY DEF AnyPacket
<1> QED BY <1>8, <1>9, <1>10 DEF f

\* Bytes that begin with an encoded packet, of whatever lengths, are whole: a
\* length that does not fit becomes a smaller one.
LEMMA PrefixWhole ==
  ASSUME NEW p \in AnyPacket, NEW d \in Seq(Byte), IsPrefix(Format(p), d)
  PROVE  Whole(d)
<1>1. PICK m \in Nat, n \in Nat : m = Len(p.method) /\ n = Len(p.data)
  BY LenProperties DEF AnyPacket
<1>2. PICK f \in Seq(Byte) :
        /\ f = Format(p) /\ Len(f) = 10 + m + n
        /\ SubSeq(f, 1, 2) = PutUint16(m) /\ SubSeq(f, 3, 6) = PutUint32(n)
  BY <1>1, FormatPieces, Zenon
<1>3. Len(f) <= Len(d) /\ Len(d) \in Nat
  BY <1>2, LenProperties DEF IsPrefix
<1>4. 2 <= Len(f) /\ 6 <= Len(f)
  BY <1>2
<1>5. IsPrefix(f, d)
  BY <1>2
<1>6. SubSeq(d, 1, 2) = PutUint16(m) /\ SubSeq(d, 3, 6) = PutUint32(n)
  <2>1. Piece(f, 1, 2, PutUint16(m)) /\ Piece(f, 3, 6, PutUint32(n))
    BY <1>2, <1>4 DEF Piece
  <2>2. Piece(d, 1, 2, PutUint16(m)) /\ Piece(d, 3, 6, PutUint32(n))
    BY <1>5, <2>1, PieceKept
  <2> QED BY <2>2, Zenon DEF Piece
<1>7. PICK x \in Nat, y \in Nat :
        MethodLen(d) = x /\ x <= m /\ DataLen(d) = y /\ y <= n
  BY <1>6, Cut16, Cut32 DEF MethodLen, DataLen
<1> QED BY <1>2, <1>3, <1>7 DEF Whole

\* Sequences with the same piece have the same elements in it.
LEMMA SamePiece ==
  ASSUME NEW S, NEW s \in Seq(S), NEW t \in Seq(S),
         NEW i \in Nat \ {0}, NEW j \in Nat, j <= Len(s), j <= Len(t),
         SubSeq(s, i, j) = SubSeq(t, i, j)
  PROVE  \A x \in i .. j : s[x] = t[x]
<1>1. Len(s) \in Nat /\ Len(t) \in Nat
  BY LenProperties
<1>2. \A x \in i .. j : s[x] \in S /\ t[x] \in S
  BY <1>1, ElementOfSeq
<1>3. /\ \A x \in 1 .. j - i + 1 : SubSeq(s, i, j)[x] = s[i + x - 1]
      /\ \A x \in 1 .. j - i + 1 : SubSeq(t, i, j)[x] = t[i + x - 1]
  BY <1>2, SubSeqProperties
<1>4. \A x \in i .. j : x - i + 1 \in 1 .. j - i + 1 /\ i + (x - i + 1) - 1 = x
  OBVIOUS
<1> QED BY <1>3, <1>4

\* One that agrees with another as far as it goes is a prefix of it.
LEMMA PrefixByElement ==
  ASSUME NEW S, NEW s \in Seq(S), NEW t \in Seq(S),
         Len(s) <= Len(t), \A i \in 1 .. Len(s) : s[i] = t[i]
  PROVE  IsPrefix(s, t)
<1>1. Len(s) \in Nat /\ Len(t) \in Nat
  BY LenProperties
<1>2. \A i \in 1 .. Len(s) : s[i] \in S /\ t[i] \in S
  BY <1>1, ElementOfSeq
<1>3. /\ SubSeq(s, 1, Len(s)) = s
      /\ SubSeq(t, 1, Len(s)) \in Seq(S)
      /\ Len(SubSeq(t, 1, Len(s))) = Len(s)
      /\ \A i \in 1 .. Len(s) : SubSeq(t, 1, Len(s))[i] = t[i]
  BY <1>1, <1>2, SubSeqProperties, SubSeqFull
<1>4. SubSeq(t, 1, Len(s)) = s
  BY <1>3, SeqEqual
<1> QED BY <1>3, <1>4 DEF IsPrefix

\* The length of a piece.
LEMMA PieceLen ==
  ASSUME NEW S, NEW s \in Seq(S), NEW i \in Nat \ {0}, NEW j \in Nat,
         i <= j + 1, j <= Len(s)
  PROVE  SubSeq(s, i, j) \in Seq(S) /\ Len(SubSeq(s, i, j)) = j - i + 1
<1>1. Len(s) \in Nat
  BY LenProperties
<1>2. \A x \in i .. j : s[x] \in S
  BY <1>1, ElementOfSeq
<1> QED BY <1>2, SubSeqProperties

\* The lengths in bytes that hold them are numbers.
LEMMA LengthsAreNumbers ==
  ASSUME NEW d \in Seq(Byte), 10 <= Len(d)
  PROVE  /\ SubSeq(d, 1, 2) \in Seq(Byte) /\ Len(SubSeq(d, 1, 2)) = 2
         /\ SubSeq(d, 3, 6) \in Seq(Byte) /\ Len(SubSeq(d, 3, 6)) = 4
         /\ SubSeq(d, 7, 10) \in Seq(Byte) /\ Len(SubSeq(d, 7, 10)) = 4
         /\ MethodLen(d) \in Nat /\ PutUint16(MethodLen(d)) = SubSeq(d, 1, 2)
         /\ DataLen(d) \in Nat /\ PutUint32(DataLen(d)) = SubSeq(d, 3, 6)
<1>1. Len(d) \in Nat /\ 2 <= Len(d) /\ 6 <= Len(d)
  BY LenProperties
<1>2. /\ SubSeq(d, 1, 2) \in Seq(Byte) /\ Len(SubSeq(d, 1, 2)) = 2
      /\ SubSeq(d, 3, 6) \in Seq(Byte) /\ Len(SubSeq(d, 3, 6)) = 4
      /\ SubSeq(d, 7, 10) \in Seq(Byte) /\ Len(SubSeq(d, 7, 10)) = 4
  BY <1>1, PieceLen
<1>3. MethodLen(d) \in Nat /\ PutUint16(MethodLen(d)) = SubSeq(d, 1, 2)
  BY <1>2, Get16 DEF MethodLen
<1>4. DataLen(d) \in Nat /\ PutUint32(DataLen(d)) = SubSeq(d, 3, 6)
  BY <1>2, Get32 DEF DataLen
<1> QED BY <1>2, <1>3, <1>4

\* What is decoded from whole bytes is a packet, and the bytes begin with it
\* when it is encoded again.
LEMMA Reformat ==
  ASSUME NEW d \in Seq(Byte), Whole(d)
  PROVE  Parsed(d) \in AnyPacket /\ IsPrefix(Format(Parsed(d)), d)
<1> DEFINE p == Parsed(d)
<1>1. 10 <= Len(d) /\ Len(d) \in Nat
  BY LenProperties DEF Whole
<1>2. PICK m \in Nat, n \in Nat :
        /\ m = MethodLen(d) /\ PutUint16(m) = SubSeq(d, 1, 2)
        /\ n = DataLen(d) /\ PutUint32(n) = SubSeq(d, 3, 6)
  BY <1>1, LengthsAreNumbers
<1>3. PICK j \in Nat \ {0}, k \in Nat, l \in Nat :
        j = 11 + m /\ k = 10 + m /\ l = 10 + m + n
  OBVIOUS
<1>4. l <= Len(d)
  BY <1>2, <1>3 DEF Whole
<1>5. /\ p.method = SubSeq(d, 11, k) /\ p.id = Uint32(SubSeq(d, 7, 10))
      /\ p.data = SubSeq(d, j, l)
      /\ p = [method |-> p.method, id |-> p.id, data |-> p.data]
  BY <1>2, <1>3 DEF Parsed
<1> HIDE DEF p
<1>6. /\ SubSeq(d, 11, k) \in Seq(Byte) /\ Len(SubSeq(d, 11, k)) = m
      /\ SubSeq(d, j, l) \in Seq(Byte) /\ Len(SubSeq(d, j, l)) = n
  <2>1. /\ 11 <= k + 1 /\ k <= Len(d) /\ j <= l + 1
        /\ k - 11 + 1 = m /\ l - j + 1 = n
    BY <1>1, <1>3, <1>4
  <2> QED BY <1>4, <2>1, PieceLen
<1>7. p.id \in Nat /\ PutUint32(p.id) = SubSeq(d, 7, 10)
  <2>1. SubSeq(d, 7, 10) \in Seq(Byte) /\ Len(SubSeq(d, 7, 10)) = 4
    BY <1>1, LengthsAreNumbers
  <2> QED BY <1>5, <2>1, Get32
<1>8. p \in AnyPacket
  BY <1>5, <1>6, <1>7 DEF AnyPacket
<1>9. Len(p.method) = m /\ Len(p.data) = n
  BY <1>5, <1>6
<1>10. PICK f \in Seq(Byte) :
         /\ f = Format(p) /\ Len(f) = 10 + m + n
         /\ SubSeq(f, 1, 2) = PutUint16(m) /\ SubSeq(f, 3, 6) = PutUint32(n)
         /\ SubSeq(f, 7, 10) = PutUint32(p.id)
         /\ SubSeq(f, 11, 10 + m) = p.method
         /\ SubSeq(f, 11 + m, 10 + m + n) = p.data
  BY <1>8, <1>9, FormatPieces, Zenon
<1>11. /\ SubSeq(f, 1, 2) = SubSeq(d, 1, 2) /\ SubSeq(f, 3, 6) = SubSeq(d, 3, 6)
       /\ SubSeq(f, 7, 10) = SubSeq(d, 7, 10)
       /\ SubSeq(f, 11, k) = SubSeq(d, 11, k) /\ SubSeq(f, j, l) = SubSeq(d, j, l)
  BY <1>2, <1>3, <1>5, <1>7, <1>10, Zenon
<1>12. /\ Len(f) = l /\ l <= Len(d)
       /\ 2 <= l /\ 6 <= l /\ 10 <= l /\ k <= l
       /\ 2 <= Len(d) /\ 6 <= Len(d) /\ 10 <= Len(d) /\ k <= Len(d)
  BY <1>1, <1>3, <1>4, <1>10
<1>13. \A x \in 1 .. 2 : f[x] = d[x]
  BY <1>11, <1>12, SamePiece
<1>14. \A x \in 3 .. 6 : f[x] = d[x]
  BY <1>11, <1>12, SamePiece
<1>15. \A x \in 7 .. 10 : f[x] = d[x]
  BY <1>11, <1>12, SamePiece
<1>16. \A x \in 11 .. k : f[x] = d[x]
  BY <1>11, <1>12, SamePiece
<1>17. \A x \in j .. l : f[x] = d[x]
  BY <1>11, <1>12, SamePiece
<1>18. \A x \in 1 .. l :
         x \in 1 .. 2 \/ x \in 3 .. 6 \/ x \in 7 .. 10 \/ x \in 11 .. k \/ x \in j .. l
  BY <1>3
<1>19. \A x \in 1 .. l : f[x] = d[x]
  BY <1>13, <1>14, <1>15, <1>16, <1>17, <1>18, Zenon
<1>20. IsPrefix(f, d)
  BY <1>12, <1>19, PrefixByElement
<1> QED BY <1>8, <1>10, <1>20 DEF p

-----------------------------------------------------------------------------
(* The mask.                                                               *)

\* Masking twice gives what there was.
LEMMA MaskedTwice ==
  ASSUME NEW b \in Seq(Byte)
  PROVE  Masked(b) \in Seq(Byte) /\ Masked(Masked(b)) = b
<1>1. PICK n \in Nat : n = Len(b) /\ DOMAIN b = 1 .. n
  BY LenProperties
<1>2. \A i \in 1 .. n : b[i] \in Byte /\ (i - 1) % Base \in Byte
  <2>1. \A i \in 1 .. n : i - 1 \in Nat
    OBVIOUS
  <2> QED BY <1>1, <2>1, DivMod, ElementOfSeq
<1>3. PICK m : /\ m = Masked(b) /\ DOMAIN m = 1 .. n
               /\ \A i \in 1 .. n : m[i] = BitXor(b[i], (i - 1) % Base)
               /\ m = [i \in 1 .. n |-> m[i]]
  <2>1. Masked(b) = [i \in 1 .. n |-> BitXor(b[i], (i - 1) % Base)]
    BY <1>1, Zenon DEF Masked
  <2> QED BY <2>1, Zenon
<1>4. \A i \in 1 .. n : /\ m[i] \in Byte
                        /\ BitXor(m[i], (i - 1) % Base) = b[i]
  BY <1>2, <1>3, BitXorAssumption, Zenon
<1>5. m \in Seq(Byte) /\ Len(m) = n
  <2>1. m \in [1 .. n -> Byte]
    BY <1>3, <1>4, Zenon
  <2> QED BY <1>3, <2>1, SeqDef
<1>6. PICK w : /\ w = Masked(m) /\ DOMAIN w = 1 .. n
               /\ \A i \in 1 .. n : w[i] = BitXor(m[i], (i - 1) % Base)
               /\ w = [i \in 1 .. n |-> w[i]]
  <2>1. Masked(m) = [i \in 1 .. n |-> BitXor(m[i], (i - 1) % Base)]
    BY <1>3, Zenon DEF Masked
  <2> QED BY <2>1, Zenon
<1>7. w \in Seq(Byte) /\ Len(w) = n
  <2>1. \A i \in 1 .. n : w[i] \in Byte
    BY <1>1, <1>4, <1>6, ElementOfSeq
  <2>2. w \in [1 .. n -> Byte]
    BY <1>6, <2>1, Zenon
  <2> QED BY <1>6, <2>2, SeqDef
<1>8. w = b
  BY <1>1, <1>4, <1>6, <1>7, SeqEqual
<1> QED BY <1>3, <1>5, <1>6, <1>8

-----------------------------------------------------------------------------
(* The inductive invariant.                                                *)

Sendable == {p \in AnyPacket : p.id < Base * Base * Base * Base}

Field == DOMAIN After

\* What EncodePacket has written when a field is the next one.
Begun(p) ==
  [methodLen |-> <<>>,
   dataLen   |-> PutUint16(Len(p.method)),
   id        |-> PutUint16(Len(p.method)) \o PutUint32(Len(p.data)),
   method    |-> PutUint16(Len(p.method)) \o PutUint32(Len(p.data))
                   \o PutUint32(p.id),
   data      |-> PutUint16(Len(p.method)) \o PutUint32(Len(p.data))
                   \o PutUint32(p.id) \o p.method,
   end       |-> Format(p)]

CodecTypeOK ==
  /\ at \in Field \cup {"end"}
  /\ mode \in {"idle", "write", "read", "rest"}
  /\ packet = <<>> \/ packet \in Sendable
  /\ inner = <<>> \/ inner \in Sendable
  /\ buf.data \in Seq(Byte) /\ buf.writeIdx = Len(buf.data) /\ buf.readIdx \in Nat
  /\ buf = [data |-> buf.data, readIdx |-> buf.readIdx, writeIdx |-> buf.writeIdx]
  /\ frame \in Seq(Byte)
  /\ head \in [Field -> Seq(Byte)]

\* What a packet carries is the encoded packet that OpenChannel put there.
Carrying ==
  inner # <<>> => packet.method = Open /\ packet.data = Format(inner)

Writing ==
  mode = "write" =>
    packet \in Sendable /\ buf.data = Begun(packet)[at] /\ got = <<>>

Sent == mode \in {"read", "rest"} /\ packet # <<>> => Masked(frame) = Format(packet)

\* Where DecodePacket is in the bytes, and the fields it has read.
Reading ==
  mode = "read" =>
    LET d == buf.data
    IN  /\ at = "methodLen" => buf.readIdx = 0
        /\ at = "dataLen"   => buf.readIdx = 2
        /\ at = "id"        => buf.readIdx = 6
        /\ at = "method"    => buf.readIdx = 10
        /\ at = "data"      => buf.readIdx = 10 + MethodLen(d)
        /\ at = "end"       => buf.readIdx = 10 + MethodLen(d) + DataLen(d)
        /\ buf.readIdx <= Len(d)
        /\ at \in {"method", "data", "end"} => 10 <= Len(d)
        /\ at # "methodLen" => head.methodLen = SubSeq(d, 1, 2)
        /\ at \in {"id", "method", "data", "end"} => head.dataLen = SubSeq(d, 3, 6)
        /\ at \in {"method", "data", "end"} => head.id = SubSeq(d, 7, 10)
        /\ at \in {"data", "end"} => head.method = SubSeq(d, 11, 10 + MethodLen(d))
        /\ at = "end" =>
             head.data = SubSeq(d, 11 + MethodLen(d), 10 + MethodLen(d) + DataLen(d))

\* One packet is decoded from m, and it opens a channel.
Opened(m) == Whole(m) /\ Parsed(m).method = Open /\ got = <<Parsed(m)>>

\* What is decoded: the packet in the frame, then the one in its data.
Source ==
  LET m == Masked(frame)
  IN  mode = "read" => \/ got = <<>> /\ buf.data = m
                       \/ Opened(m) /\ buf.data = Parsed(m).data

Result ==
  LET m == Masked(frame)
  IN  mode = "rest" =>
        \/ got = <<>> /\ ~Whole(m)
        \/ Whole(m) /\ Parsed(m).method # Open /\ got = <<Parsed(m)>>
        \/ Opened(m) /\ ~Whole(Parsed(m).data)
        \/ /\ Whole(m) /\ Parsed(m).method = Open /\ Whole(Parsed(m).data)
           /\ got = <<Parsed(m), Parsed(Parsed(m).data)>>

CodecInv ==
  CodecTypeOK /\ Carrying /\ Writing /\ Sent /\ Reading /\ Source /\ Result

-----------------------------------------------------------------------------
(* The steps.                                                              *)

\* The fields in their order.
LEMMA Fields ==
  /\ Field = {"methodLen", "dataLen", "id", "method", "data"}
  /\ After["methodLen"] = "dataLen" /\ After["dataLen"] = "id"
  /\ After["id"] = "method" /\ After["method"] = "data" /\ After["data"] = "end"
BY DEF Field, After

\* A new buffer.
LEMMA Created ==
  ASSUME NEW b \in Seq(Byte)
  PROVE  /\ Create(b).data = b /\ Create(b).readIdx = 0
         /\ Create(b).writeIdx = Len(b)
         /\ Create(b) = [data |-> Create(b).data, readIdx |-> Create(b).readIdx,
                         writeIdx |-> Create(b).writeIdx]
BY DEF Create

\* Every field is empty before it is read.
LEMMA NothingRead == NoHead \in [Field -> Seq(Byte)]
<1>1. <<>> \in Seq(Byte)
  BY EmptySeq
<1> QED BY <1>1 DEF NoHead, Field

\* EncodePacket begins with nothing written.
LEMMA EncodeBegins ==
  ASSUME NEW p \in Sendable, EncodePacket(p),
         \/ inner' = <<>>
         \/ inner' \in Sendable /\ p.method = Open /\ p.data = Format(inner')
  PROVE  CodecInv'
<1>1. <<>> \in Seq(Byte) /\ Len(<<>>) = 0
  BY EmptySeq
<1>2. /\ packet' = p /\ mode' = "write" /\ at' = "methodLen"
      /\ frame' = <<>> /\ head' = NoHead /\ got' = <<>> /\ buf' = Create(<<>>)
  BY DEF EncodePacket, CreateBySize
<1>3. /\ buf'.data = <<>> /\ buf'.readIdx = 0 /\ buf'.writeIdx = Len(<<>>)
      /\ buf' = [data |-> buf'.data, readIdx |-> buf'.readIdx,
                 writeIdx |-> buf'.writeIdx]
  BY <1>1, <1>2, Created, Zenon
<1>4. CodecTypeOK'
  <2>1. at' \in Field \cup {"end"} /\ mode' \in {"idle", "write", "read", "rest"}
    BY <1>2, Fields
  <2>2. /\ buf'.data \in Seq(Byte) /\ buf'.writeIdx = Len(buf'.data)
        /\ buf'.readIdx \in Nat
    BY <1>1, <1>3
  <2>3. frame' \in Seq(Byte) /\ head' \in [Field -> Seq(Byte)]
    BY <1>1, <1>2, NothingRead
  <2>4. packet' \in Sendable /\ (inner' = <<>> \/ inner' \in Sendable)
    BY <1>2
  <2> QED BY <1>3, <2>1, <2>2, <2>3, <2>4, Zenon DEF CodecTypeOK
<1>5. Carrying'
  BY <1>2 DEF Carrying
<1>6. Begun(p)["methodLen"] = <<>>
  BY DEF Begun
<1>7. Writing'
  BY <1>2, <1>3, <1>6, Zenon DEF Writing
<1> QED BY <1>2, <1>4, <1>5, <1>7 DEF CodecInv, Sent, Reading, Source, Result

\* DecodePacket begins with nothing read.
LEMMA DecodeBegins ==
  ASSUME NEW b \in Seq(Byte), Decode(b)
  PROVE  /\ buf'.data = b /\ Reading' /\ at' = "methodLen" /\ mode' = "read"
         /\ buf'.data \in Seq(Byte) /\ buf'.writeIdx = Len(buf'.data)
         /\ buf'.readIdx \in Nat
         /\ buf' = [data |-> buf'.data, readIdx |-> buf'.readIdx,
                    writeIdx |-> buf'.writeIdx]
         /\ head' \in [Field -> Seq(Byte)]
<1>1. buf' = Create(b) /\ head' = NoHead /\ mode' = "read" /\ at' = "methodLen"
  BY DEF Decode
<1>2. /\ buf'.data = b /\ buf'.readIdx = 0 /\ buf'.writeIdx = Len(b)
      /\ buf' = [data |-> buf'.data, readIdx |-> buf'.readIdx,
                 writeIdx |-> buf'.writeIdx]
  BY <1>1, Created, Zenon
<1>3. Len(b) \in Nat
  BY LenProperties
<1>4. Reading'
  BY <1>1, <1>2, <1>3 DEF Reading
<1> QED BY <1>1, <1>2, <1>4, NothingRead

\* Nothing has been written or read at the start.
LEMMA CodecInit ==
  ASSUME Init
  PROVE  CodecInv
<1>1. <<>> \in Seq(Byte) /\ Len(<<>>) = 0
  BY EmptySeq
<1>2. /\ buf.data = <<>> /\ buf.readIdx = 0 /\ buf.writeIdx = Len(<<>>)
      /\ buf = [data |-> buf.data, readIdx |-> buf.readIdx, writeIdx |-> buf.writeIdx]
  BY <1>1, Created, Zenon DEF Init, CreateBySize
<1>3. CodecTypeOK
  BY <1>1, <1>2, NothingRead DEF Init, CodecTypeOK
<1> QED BY <1>3 DEF Init, CodecInv, Carrying, Writing, Sent, Reading, Source, Result

\* Nothing is kept of a frame that is done with.
LEMMA AgainStep ==
  ASSUME Again
  PROVE  CodecInv'
<1>1. <<>> \in Seq(Byte) /\ Len(<<>>) = 0
  BY EmptySeq
<1>2. /\ buf'.data = <<>> /\ buf'.readIdx = 0 /\ buf'.writeIdx = Len(<<>>)
      /\ buf' = [data |-> buf'.data, readIdx |-> buf'.readIdx,
                 writeIdx |-> buf'.writeIdx]
  BY <1>1, Created, Zenon DEF Again, CreateBySize
<1>3. CodecTypeOK'
  BY <1>1, <1>2, NothingRead DEF Again, CodecTypeOK
<1> QED BY <1>3 DEF Again, CodecInv, Carrying, Writing, Sent, Reading, Source, Result

\* The packets of the bound can be sent.
LEMMA PacketsAreSendable == Packet \subseteq Sendable
<1>1. Base * Base * Base * Base \in Nat
  BY BaseAssumption
<1>2. \A i \in Id : i \in Nat /\ i < Base * Base * Base * Base
  BY <1>1, PacketAssumption
<1>3. \A m \in Method \cup Data : m \in Seq(Byte)
  BY PacketAssumption
<1> QED BY <1>2, <1>3 DEF Packet, Sendable, AnyPacket

\* CreatePacket begins to encode a packet that can be sent.
LEMMA CreateStep ==
  ASSUME CreatePacket
  PROVE  CodecInv'
<1>1. PICK p \in Packet : EncodePacket(p)
  BY DEF CreatePacket
<1>2. p \in Sendable /\ inner' = <<>>
  BY PacketsAreSendable DEF CreatePacket
<1> QED BY <1>1, <1>2, EncodeBegins

\* What is written next is what comes next in the format.
LEMMA BegunNext ==
  ASSUME NEW p \in AnyPacket, NEW f \in Field
  PROVE  /\ Written(p)[f] \in Seq(Byte)
         /\ Begun(p)[After[f]] = Begun(p)[f] \o Written(p)[f]
<1>1. p.method \in Seq(Byte) /\ p.data \in Seq(Byte) /\ p.id \in Nat
  BY DEF AnyPacket
<1>2. Len(p.method) \in Nat /\ Len(p.data) \in Nat
  BY <1>1, LenProperties
<1>3. /\ PutUint16(Len(p.method)) \in Seq(Byte)
      /\ PutUint32(Len(p.data)) \in Seq(Byte) /\ PutUint32(p.id) \in Seq(Byte)
  BY <1>1, <1>2, Put16, Put32
<1>4. Written(p)[f] \in Seq(Byte)
  BY <1>1, <1>3, Fields DEF Written
<1>5. <<>> \o PutUint16(Len(p.method)) = PutUint16(Len(p.method))
  BY <1>3, ConcatEmptySeq
<1>6. PICK a, b, c, ab, abc, abcs, all, m, n, e :
        /\ a = PutUint16(Len(p.method)) /\ b = PutUint32(Len(p.data))
        /\ c = PutUint32(p.id) /\ m = p.method /\ n = p.data /\ e = <<>>
        /\ a = e \o a /\ ab = a \o b /\ abc = ab \o c
        /\ abcs = abc \o m /\ all = abcs \o n
  BY <1>5, Zenon
<1>7. Begun(p) = [methodLen |-> e, dataLen |-> a, id |-> ab, method |-> abc,
                  data |-> abcs, end |-> all]
  BY <1>6, Zenon DEF Begun, Format
<1>8. Written(p) = [methodLen |-> a, dataLen |-> b, id |-> c, method |-> m, data |-> n]
  BY <1>6, Zenon DEF Written
<1>9. Begun(p)[After[f]] = Begun(p)[f] \o Written(p)[f]
  <2>1. CASE f = "methodLen"
    <3>1. /\ Begun(p)["methodLen"] = e /\ Begun(p)["dataLen"] = a
          /\ Written(p)["methodLen"] = a
      BY <1>7, <1>8
    <3> QED BY <1>6, <2>1, <3>1, Fields, Zenon
  <2>2. CASE f = "dataLen"
    <3>1. /\ Begun(p)["dataLen"] = a /\ Begun(p)["id"] = ab
          /\ Written(p)["dataLen"] = b
      BY <1>7, <1>8
    <3> QED BY <1>6, <2>2, <3>1, Fields, Zenon
  <2>3. CASE f = "id"
    <3>1. /\ Begun(p)["id"] = ab /\ Begun(p)["method"] = abc
          /\ Written(p)["id"] = c
      BY <1>7, <1>8
    <3> QED BY <1>6, <2>3, <3>1, Fields, Zenon
  <2>4. CASE f = "method"
    <3>1. /\ Begun(p)["method"] = abc /\ Begun(p)["data"] = abcs
          /\ Written(p)["method"] = m
      BY <1>7, <1>8
    <3> QED BY <1>6, <2>4, <3>1, Fields, Zenon
  <2>5. CASE f = "data"
    <3>1. /\ Begun(p)["data"] = abcs /\ Begun(p)["end"] = all
          /\ Written(p)["data"] = n
      BY <1>7, <1>8
    <3> QED BY <1>6, <2>5, <3>1, Fields, Zenon
  <2> QED BY <2>1, <2>2, <2>3, <2>4, <2>5, Fields
<1> QED BY <1>4, <1>9

\* Bytes written to a buffer.
LEMMA Appended ==
  ASSUME NEW v, NEW w, NEW r, NEW l, NEW c,
         c = WriteBytes([data |-> v, readIdx |-> r, writeIdx |-> l], w)
  PROVE  /\ c.data = v \o w /\ c.readIdx = r /\ c.writeIdx = l + Len(w)
         /\ c = [data |-> c.data, readIdx |-> c.readIdx, writeIdx |-> c.writeIdx]
BY DEF WriteBytes

\* A field is written behind what is there already.
LEMMA WriteFieldStep ==
  ASSUME CodecInv, WriteField
  PROVE  CodecInv'
<1>1. CodecTypeOK /\ Carrying /\ Writing
  BY DEF CodecInv
<1>2. /\ mode = "write" /\ mode' = "write" /\ packet' = packet /\ inner' = inner
      /\ frame' = frame /\ head' = head /\ got' = got /\ at' = After[at]
      /\ buf' = WriteBytes(buf, Written(packet)[at])
  BY DEF WriteField
<1>3. packet \in Sendable /\ packet \in AnyPacket
  BY <1>1, <1>2 DEF Writing, Sendable
<1>4. at \in Field
  BY <1>1 DEF WriteField, CodecTypeOK
<1>5. PICK v \in Seq(Byte), w \in Seq(Byte) :
        /\ v = buf.data /\ w = Written(packet)[at]
        /\ v \o w \in Seq(Byte) /\ Len(v \o w) = Len(v) + Len(w)
  <2>1. buf.data \in Seq(Byte) /\ Written(packet)[at] \in Seq(Byte)
    BY <1>1, <1>3, <1>4, BegunNext DEF CodecTypeOK
  <2> QED BY <2>1, Join, Zenon
<1>6. /\ buf'.data = v \o w /\ buf'.readIdx = buf.readIdx
      /\ buf'.writeIdx = Len(v) + Len(w)
      /\ buf' = [data |-> buf'.data, readIdx |-> buf'.readIdx,
                 writeIdx |-> buf'.writeIdx]
  <2>1. PICK r, l : /\ buf = [data |-> v, readIdx |-> r, writeIdx |-> l]
                    /\ r = buf.readIdx /\ l = Len(v)
    BY <1>1, <1>5, Zenon DEF CodecTypeOK
  <2>2. buf' = WriteBytes([data |-> v, readIdx |-> r, writeIdx |-> l], w)
    BY <1>2, <1>5, <2>1, Zenon
  <2>3. /\ buf'.data = v \o w /\ buf'.readIdx = r /\ buf'.writeIdx = l + Len(w)
        /\ buf' = [data |-> buf'.data, readIdx |-> buf'.readIdx,
                   writeIdx |-> buf'.writeIdx]
    BY <2>2, Appended
  <2> QED BY <2>1, <2>3, Zenon
<1>7. CodecTypeOK'
  <2>1. at' \in Field \cup {"end"}
    BY <1>2, <1>4, Fields
  <2>2. /\ buf'.data \in Seq(Byte) /\ buf'.writeIdx = Len(buf'.data)
        /\ buf'.readIdx \in Nat
    BY <1>1, <1>5, <1>6, Zenon DEF CodecTypeOK
  <2> QED BY <1>1, <1>2, <1>6, <2>1, <2>2, Zenon DEF CodecTypeOK
<1>8. Writing'
  <2>1. v = Begun(packet)[at]
    BY <1>1, <1>2, <1>5, Zenon DEF Writing
  <2>2. Begun(packet)[After[at]] = Begun(packet)[at] \o Written(packet)[at]
    BY <1>3, <1>4, BegunNext
  <2>3. buf'.data = Begun(packet)[After[at]]
    BY <1>5, <1>6, <2>1, <2>2, Zenon
  <2>4. got' = <<>>
    BY <1>1, <1>2, Zenon DEF Writing
  <2> QED BY <1>2, <1>3, <2>3, <2>4, Zenon DEF Writing
<1>9. Carrying'
  BY <1>1, <1>2 DEF Carrying
<1> QED BY <1>2, <1>7, <1>8, <1>9 DEF CodecInv, Sent, Reading, Source, Result

\* When EncodePacket is done, the buffer holds the packet.
LEMMA Encoded ==
  ASSUME CodecInv, mode = "write", at = "end"
  PROVE  /\ packet \in Sendable /\ packet \in AnyPacket
         /\ Bytes(buf) = Format(packet) /\ Format(packet) \in Seq(Byte)
<1>1. CodecTypeOK /\ Writing
  BY DEF CodecInv
<1>2. packet \in Sendable /\ packet \in AnyPacket
  BY <1>1 DEF Writing, Sendable
<1>3. buf.data = Begun(packet)["end"]
  BY <1>1, Zenon DEF Writing
<1>4. Begun(packet)["end"] = Format(packet)
  BY DEF Begun
<1>5. buf.data \in Seq(Byte) /\ buf.writeIdx = Len(buf.data)
  BY <1>1 DEF CodecTypeOK
<1>6. Bytes(buf) = buf.data
  BY <1>5, SubSeqFull DEF Bytes
<1> QED BY <1>2, <1>3, <1>4, <1>5, <1>6, Zenon

\* OpenChannel encodes a packet whose data is the one encoded before.
LEMMA WrapStep ==
  ASSUME CodecInv, Wrap
  PROVE  CodecInv'
<1>1. /\ packet \in Sendable /\ Bytes(buf) = Format(packet)
      /\ Format(packet) \in Seq(Byte)
  BY Encoded DEF Wrap
<1>2. PICK i \in Id :
        EncodePacket([method |-> Open, id |-> i, data |-> Bytes(buf)])
  BY DEF Wrap
<1> DEFINE p == [method |-> Open, id |-> i, data |-> Bytes(buf)]
<1>3. i \in Nat /\ i < Base * Base * Base * Base
  <2>1. Base * Base * Base * Base \in Nat
    BY BaseAssumption
  <2> QED BY <2>1, PacketAssumption
<1>4. p.method = Open /\ p.data = Format(packet) /\ p.id = i
  BY <1>1
<1>5. p \in Sendable
  BY <1>1, <1>3, PacketAssumption DEF Sendable, AnyPacket
<1>6. inner' \in Sendable /\ p.method = Open /\ p.data = Format(inner')
  BY <1>1, <1>4 DEF Wrap
<1>7. EncodePacket(p)
  BY <1>2
<1> HIDE DEF p
<1> QED BY <1>5, <1>6, <1>7, EncodeBegins

\* What is unmasked is the format of the packet that was sent.
LEMMA SendStep ==
  ASSUME CodecInv, Send
  PROVE  CodecInv'
<1>1. CodecTypeOK /\ Carrying
  BY DEF CodecInv
<1>2. /\ packet \in Sendable /\ Bytes(buf) = Format(packet)
      /\ Format(packet) \in Seq(Byte)
  BY Encoded DEF Send
<1>3. /\ frame' = Masked(Format(packet)) /\ Decode(Masked(frame'))
      /\ packet' = packet /\ inner' = inner /\ got' = got
  BY <1>2 DEF Send
<1>4. frame' \in Seq(Byte) /\ Masked(frame') = Format(packet)
  BY <1>2, <1>3, MaskedTwice
<1>5. /\ buf'.data = Masked(frame') /\ Reading' /\ at' = "methodLen"
      /\ mode' = "read"
      /\ buf'.data \in Seq(Byte) /\ buf'.writeIdx = Len(buf'.data)
      /\ buf'.readIdx \in Nat
      /\ buf' = [data |-> buf'.data, readIdx |-> buf'.readIdx,
                 writeIdx |-> buf'.writeIdx]
      /\ head' \in [Field -> Seq(Byte)]
  <2>1. Masked(frame') \in Seq(Byte)
    BY <1>2, <1>4
  <2> QED BY <1>3, <2>1, DecodeBegins
<1>6. CodecTypeOK'
  <2>1. at' \in Field \cup {"end"} /\ mode' \in {"idle", "write", "read", "rest"}
    BY <1>5, Fields
  <2> QED BY <1>1, <1>3, <1>4, <1>5, <2>1, Zenon DEF CodecTypeOK
<1>7. Sent' /\ Carrying'
  BY <1>1, <1>3, <1>4, Zenon DEF Sent, Carrying
<1>8. got = <<>>
  BY DEF Send, CodecInv, Writing
<1> QED BY <1>3, <1>5, <1>6, <1>7, <1>8 DEF CodecInv, Writing, Source, Result

\* A frame of a peer is decoded from its first byte on.
LEMMA ReceiveStep ==
  ASSUME Receive
  PROVE  CodecInv'
<1>1. /\ frame' \in Frame /\ Decode(Masked(frame'))
      /\ packet' = <<>> /\ inner' = <<>> /\ got' = <<>>
  BY DEF Receive
<1>2. frame' \in Seq(Byte) /\ Masked(frame') \in Seq(Byte)
  BY <1>1, PacketAssumption, MaskedTwice
<1>3. /\ buf'.data = Masked(frame') /\ Reading' /\ at' = "methodLen"
      /\ mode' = "read"
      /\ buf'.data \in Seq(Byte) /\ buf'.writeIdx = Len(buf'.data)
      /\ buf'.readIdx \in Nat
      /\ buf' = [data |-> buf'.data, readIdx |-> buf'.readIdx,
                 writeIdx |-> buf'.writeIdx]
      /\ head' \in [Field -> Seq(Byte)]
  BY <1>1, <1>2, DecodeBegins
<1>4. CodecTypeOK'
  <2>1. at' \in Field \cup {"end"} /\ mode' \in {"idle", "write", "read", "rest"}
    BY <1>3, Fields
  <2> QED BY <1>1, <1>2, <1>3, <2>1, Zenon DEF CodecTypeOK
<1> QED BY <1>1, <1>3, <1>4 DEF CodecInv, Carrying, Writing, Sent, Source, Result

\* How many bytes a field takes, from the lengths read before it.
LEMMA SizeOf ==
  ASSUME NEW h
  PROVE  /\ Size("methodLen", h) = 2
         /\ Size("dataLen", h) = 4 /\ Size("id", h) = 4
         /\ Size("method", h) = Uint16(h.methodLen)
         /\ Size("data", h) = Uint32(h.dataLen)
BY DEF Size

\* The place a field is at in the bytes being decoded, and its size.
LEMMA Place ==
  ASSUME CodecInv, mode = "read", at \in Field
  PROVE  \E r \in Nat, n \in Nat :
           LET d == buf.data
           IN  /\ buf.readIdx = r /\ buf.writeIdx = Len(d) /\ Size(at, head) = n
               /\ d \in Seq(Byte) /\ Len(d) \in Nat /\ r <= Len(d)
               /\ \/ at = "methodLen" /\ r = 0 /\ n = 2
                  \/ at = "dataLen" /\ r = 2 /\ n = 4
                  \/ at = "id" /\ r = 6 /\ n = 4
                  \/ at = "method" /\ r = 10 /\ n = MethodLen(d)
                  \/ at = "data" /\ r = 10 + MethodLen(d) /\ n = DataLen(d)
               /\ at \in {"method", "data"} =>
                    10 <= Len(d) /\ MethodLen(d) \in Nat /\ DataLen(d) \in Nat
<1>1. CodecTypeOK /\ Reading
  BY DEF CodecInv
<1>2. PICK d \in Seq(Byte), r \in Nat :
        d = buf.data /\ r = buf.readIdx /\ buf.writeIdx = Len(d)
  BY <1>1, Zenon DEF CodecTypeOK
<1>3. Len(d) \in Nat
  BY LenProperties
<1>4. /\ r <= Len(d)
      /\ at = "methodLen" => r = 0
      /\ at = "dataLen"   => r = 2
      /\ at = "id"        => r = 6
      /\ at = "method"    => r = 10
      /\ at = "data"      => r = 10 + MethodLen(d)
      /\ at \in {"method", "data"} => 10 <= Len(d)
      /\ at \in {"method", "data"} => head.methodLen = SubSeq(d, 1, 2)
      /\ at \in {"method", "data"} => head.dataLen = SubSeq(d, 3, 6)
  BY <1>1, <1>2 DEF Reading
<1>5. at \in {"method", "data"} =>
        /\ MethodLen(d) \in Nat /\ MethodLen(d) = Uint16(head.methodLen)
        /\ DataLen(d) \in Nat /\ DataLen(d) = Uint32(head.dataLen)
  <2>1. 10 <= Len(d) => MethodLen(d) \in Nat /\ DataLen(d) \in Nat
    BY LengthsAreNumbers
  <2> QED BY <1>4, <2>1, Zenon DEF MethodLen, DataLen
<1>6. \E n \in Nat :
        /\ Size(at, head) = n
        /\ \/ at = "methodLen" /\ n = 2
           \/ at = "dataLen" /\ n = 4
           \/ at = "id" /\ n = 4
           \/ at = "method" /\ n = MethodLen(d)
           \/ at = "data" /\ n = DataLen(d)
  <2>1. CASE at = "methodLen"
    BY <2>1, SizeOf
  <2>2. CASE at = "dataLen"
    BY <2>2, SizeOf
  <2>3. CASE at = "id"
    BY <2>3, SizeOf
  <2>4. CASE at = "method"
    BY <2>4, <1>5, SizeOf
  <2>5. CASE at = "data"
    BY <2>5, <1>5, SizeOf
  <2> QED BY <2>1, <2>2, <2>3, <2>4, <2>5, Fields
<1>7. PICK n \in Nat :
        /\ Size(at, head) = n
        /\ \/ at = "methodLen" /\ n = 2
           \/ at = "dataLen" /\ n = 4
           \/ at = "id" /\ n = 4
           \/ at = "method" /\ n = MethodLen(d)
           \/ at = "data" /\ n = DataLen(d)
  BY <1>6, Zenon
<1>8. /\ \/ at = "methodLen" /\ r = 0 /\ n = 2
         \/ at = "dataLen" /\ r = 2 /\ n = 4
         \/ at = "id" /\ r = 6 /\ n = 4
         \/ at = "method" /\ r = 10 /\ n = MethodLen(d)
         \/ at = "data" /\ r = 10 + MethodLen(d) /\ n = DataLen(d)
      /\ at \in {"method", "data"} =>
           10 <= Len(d) /\ MethodLen(d) \in Nat /\ DataLen(d) \in Nat
  BY <1>4, <1>5, <1>7, Zenon
<1> QED BY <1>2, <1>3, <1>4, <1>7, <1>8, Zenon

\* What does not reach the end of a field is not a whole packet.
LEMMA CutShort ==
  ASSUME CodecInv, ReadFails
  PROVE  ~Whole(buf.data)
<1>1. at \in Field /\ mode = "read" /\ ~CanRead(buf, Size(at, head))
  BY DEF CodecInv, CodecTypeOK, ReadFails
<1>2. PICK r \in Nat, n \in Nat :
        LET d == buf.data
        IN  /\ buf.readIdx = r /\ buf.writeIdx = Len(d) /\ Size(at, head) = n
            /\ d \in Seq(Byte) /\ Len(d) \in Nat /\ r <= Len(d)
            /\ \/ at = "methodLen" /\ r = 0 /\ n = 2
               \/ at = "dataLen" /\ r = 2 /\ n = 4
               \/ at = "id" /\ r = 6 /\ n = 4
               \/ at = "method" /\ r = 10 /\ n = MethodLen(d)
               \/ at = "data" /\ r = 10 + MethodLen(d) /\ n = DataLen(d)
            /\ at \in {"method", "data"} =>
                 10 <= Len(d) /\ MethodLen(d) \in Nat /\ DataLen(d) \in Nat
  BY <1>1, Place, Zenon
<1>3. ~(r + n <= Len(buf.data))
  BY <1>1, <1>2, Zenon DEF CanRead
<1> QED BY <1>2, <1>3 DEF Whole

\* An error ends the decoding of bytes that hold no whole packet.
LEMMA ReadFailsStep ==
  ASSUME CodecInv, ReadFails
  PROVE  CodecInv'
<1>1. CodecTypeOK /\ Carrying /\ Sent /\ Source
  BY DEF CodecInv
<1>2. /\ mode = "read" /\ mode' = "rest" /\ at' = at /\ packet' = packet
      /\ inner' = inner /\ buf' = buf /\ frame' = frame /\ head' = head
      /\ got' = got
  BY DEF ReadFails
<1>3. CodecTypeOK' /\ Carrying' /\ Sent'
  BY <1>1, <1>2, Zenon DEF CodecTypeOK, Carrying, Sent
<1>4. ~Whole(buf.data)
  BY CutShort
<1>5. Result'
  <2>1. CASE got = <<>> /\ buf.data = Masked(frame)
    BY <1>2, <1>4, <2>1, Zenon DEF Result
  <2>2. CASE Opened(Masked(frame)) /\ buf.data = Parsed(Masked(frame)).data
    BY <1>2, <1>4, <2>2, Zenon DEF Result, Opened
  <2> QED BY <1>1, <1>2, <2>1, <2>2, Zenon DEF Source
<1> QED BY <1>2, <1>3, <1>5 DEF CodecInv, Writing, Reading, Source

\* A packet that has been read to its end is a whole one, and the one found.
LEMMA DecodedWhole ==
  ASSUME CodecInv, mode = "read", at = "end"
  PROVE  Whole(buf.data) /\ Decoded = Parsed(buf.data)
<1>1. CodecTypeOK /\ Reading
  BY DEF CodecInv
<1>2. PICK d \in Seq(Byte) : d = buf.data
  BY <1>1, Zenon DEF CodecTypeOK
<1>3. /\ 10 <= Len(d) /\ 10 + MethodLen(d) + DataLen(d) <= Len(d)
      /\ head.id = SubSeq(d, 7, 10)
      /\ head.method = SubSeq(d, 11, 10 + MethodLen(d))
      /\ head.data = SubSeq(d, 11 + MethodLen(d), 10 + MethodLen(d) + DataLen(d))
  BY <1>1, <1>2 DEF Reading
<1> QED BY <1>2, <1>3, Zenon DEF Whole, Parsed, Decoded

\* A second packet behind the first.
LEMMA AppendSecond ==
  ASSUME NEW x, NEW y
  PROVE  Append(<<x>>, y) = <<x, y>>
<1> DEFINE S == {x, y}
<1>1. <<x>> \in Seq(S) /\ <<x, y>> \in Seq(S) /\ y \in S
  OBVIOUS
<1> HIDE DEF S
<1>2. /\ Append(<<x>>, y) \in Seq(S) /\ Len(Append(<<x>>, y)) = Len(<<x>>) + 1
      /\ \A i \in 1 .. Len(<<x>>) : Append(<<x>>, y)[i] = <<x>>[i]
      /\ Append(<<x>>, y)[Len(<<x>>) + 1] = y
  BY <1>1, AppendProperties
<1>3. Len(<<x>>) = 1 /\ <<x>>[1] = x /\ 1 + 1 = 2
  OBVIOUS
<1>4. /\ Len(Append(<<x>>, y)) = 2
      /\ Append(<<x>>, y)[1] = x /\ Append(<<x>>, y)[2] = y
  <2>1. 1 \in 1 .. Len(<<x>>)
    BY <1>3
  <2> QED BY <1>2, <1>3, <2>1, Zenon
<1>5. Len(<<x, y>>) = 2 /\ <<x, y>>[1] = x /\ <<x, y>>[2] = y
  OBVIOUS
<1>6. \A i \in 1 .. 2 : Append(<<x>>, y)[i] = <<x, y>>[i]
  <2>1. \A i \in 1 .. 2 : i = 1 \/ i = 2
    OBVIOUS
  <2> QED BY <1>4, <1>5, <2>1, Zenon
<1> QED BY <1>1, <1>2, <1>4, <1>5, <1>6, SeqEqual

\* A packet is complete, and is decoded again if it opens a channel.
LEMMA ReadDoneStep ==
  ASSUME CodecInv, ReadDone
  PROVE  CodecInv'
<1>1. CodecTypeOK /\ Carrying /\ Sent /\ Source
  BY DEF CodecInv
<1>2. /\ mode = "read" /\ at = "end" /\ packet' = packet /\ inner' = inner
      /\ frame' = frame /\ got' = Append(got, Decoded)
  BY DEF ReadDone
<1>3. Whole(buf.data) /\ Decoded = Parsed(buf.data)
  BY <1>2, DecodedWhole
<1>4. CASE got = <<>> /\ Decoded.method = Open /\ Decode(Decoded.data)
  <2>1. buf.data = Masked(frame)
    BY <1>1, <1>2, <1>4 DEF Source, Opened
  <2>2. got' = <<Decoded>>
    BY <1>2, <1>4
  <2>3. Decoded.data \in Seq(Byte)
    BY <1>1 DEF CodecTypeOK, Decoded, Field, After
  <2>4. /\ buf'.data = Decoded.data /\ Reading' /\ at' = "methodLen"
        /\ mode' = "read"
        /\ buf'.data \in Seq(Byte) /\ buf'.writeIdx = Len(buf'.data)
        /\ buf'.readIdx \in Nat
        /\ buf' = [data |-> buf'.data, readIdx |-> buf'.readIdx,
                   writeIdx |-> buf'.writeIdx]
        /\ head' \in [Field -> Seq(Byte)]
    BY <1>4, <2>3, DecodeBegins
  <2>5. CodecTypeOK'
    <3>1. at' \in Field \cup {"end"} /\ mode' \in {"idle", "write", "read", "rest"}
      BY <2>4, Fields
    <3> QED BY <1>1, <1>2, <2>4, <3>1, Zenon DEF CodecTypeOK
  <2>6. Carrying' /\ Sent'
    BY <1>1, <1>2, Zenon DEF Carrying, Sent
  <2>7. Source'
    BY <1>2, <1>3, <1>4, <2>1, <2>2, <2>4, Zenon DEF Source, Opened
  <2> QED BY <2>4, <2>5, <2>6, <2>7 DEF CodecInv, Writing, Result
<1>5. CASE /\ got # <<>> \/ Decoded.method # Open
           /\ mode' = "rest" /\ at' = at /\ buf' = buf /\ head' = head
  <2>1. CodecTypeOK' /\ Carrying' /\ Sent'
    BY <1>1, <1>2, <1>5, Zenon DEF CodecTypeOK, Carrying, Sent
  <2>2. Result'
    <3>1. CASE got = <<>> /\ buf.data = Masked(frame)
      <4>1. got' = <<Decoded>>
        BY <1>2, <3>1
      <4> QED BY <1>2, <1>3, <1>5, <3>1, <4>1, Zenon DEF Result
    <3>2. CASE Opened(Masked(frame)) /\ buf.data = Parsed(Masked(frame)).data
      <4>1. got = <<Parsed(Masked(frame))>>
        BY <3>2, Zenon DEF Opened
      <4>2. got' = <<Parsed(Masked(frame)), Decoded>>
        <5>1. PICK x, y : x = Parsed(Masked(frame)) /\ y = Decoded
          OBVIOUS
        <5>2. Append(<<x>>, y) = <<x, y>>
          BY AppendSecond
        <5> QED BY <1>2, <4>1, <5>1, <5>2, Zenon
      <4> QED BY <1>2, <1>3, <1>5, <3>2, <4>2, Zenon DEF Result, Opened
    <3> QED BY <1>1, <1>2, <3>1, <3>2, Zenon DEF Source
  <2> QED BY <1>5, <2>1, <2>2 DEF CodecInv, Writing, Reading, Source
<1> QED BY <1>4, <1>5 DEF ReadDone

\* What is read of the bytes is the field that is there.
LEMMA ReadFieldStep ==
  ASSUME CodecInv, ReadField
  PROVE  CodecInv'
<1>1. CodecTypeOK /\ Carrying /\ Sent /\ Reading /\ Source
  BY DEF CodecInv
<1>2. /\ mode = "read" /\ mode' = "read" /\ at \in Field /\ at' = After[at]
      /\ CanRead(buf, Size(at, head)) /\ buf' = Advance(buf, Size(at, head))
      /\ head' = [head EXCEPT ![at] = Peek(buf, Size(at, head))]
      /\ packet' = packet /\ inner' = inner /\ frame' = frame /\ got' = got
  BY <1>1 DEF ReadField, CodecTypeOK
<1>3. PICK r \in Nat, n \in Nat :
        LET d == buf.data
        IN  /\ buf.readIdx = r /\ buf.writeIdx = Len(d) /\ Size(at, head) = n
            /\ d \in Seq(Byte) /\ Len(d) \in Nat /\ r <= Len(d)
            /\ \/ at = "methodLen" /\ r = 0 /\ n = 2
               \/ at = "dataLen" /\ r = 2 /\ n = 4
               \/ at = "id" /\ r = 6 /\ n = 4
               \/ at = "method" /\ r = 10 /\ n = MethodLen(d)
               \/ at = "data" /\ r = 10 + MethodLen(d) /\ n = DataLen(d)
            /\ at \in {"method", "data"} =>
                 10 <= Len(d) /\ MethodLen(d) \in Nat /\ DataLen(d) \in Nat
  BY <1>2, Place, Zenon
<1>4. PICK d \in Seq(Byte), l \in Nat : d = buf.data /\ l = Len(d)
  BY <1>3, Zenon
<1>5. PICK i \in Nat \ {0}, j \in Nat : i = r + 1 /\ j = r + n
  OBVIOUS
<1>6. j <= l
  BY <1>2, <1>3, <1>4, <1>5, Zenon DEF CanRead
<1>7. PICK w \in Seq(Byte) : w = SubSeq(d, i, j)
  <2>1. i <= j + 1
    BY <1>5
  <2> QED BY <1>4, <1>6, <2>1, PieceLen
<1>8. Peek(buf, Size(at, head)) = w
  BY <1>3, <1>4, <1>5, <1>7, Zenon DEF Peek
<1>9. /\ buf'.data = d /\ buf'.readIdx = j /\ buf'.writeIdx = l
      /\ buf' = [data |-> buf'.data, readIdx |-> buf'.readIdx,
                 writeIdx |-> buf'.writeIdx]
  <2>1. buf = [data |-> d, readIdx |-> r, writeIdx |-> l]
    BY <1>1, <1>3, <1>4, Zenon DEF CodecTypeOK
  <2>2. buf' = Advance(buf, n)
    BY <1>2, <1>3, Zenon
  <2> QED BY <1>5, <2>1, <2>2 DEF Advance
<1>10. /\ head \in [Field -> Seq(Byte)] /\ head' = [head EXCEPT ![at] = w]
       /\ head' \in [Field -> Seq(Byte)]
  BY <1>1, <1>2, <1>8, Zenon DEF CodecTypeOK
<1>11. CodecTypeOK'
  <2>1. at' \in Field \cup {"end"}
    BY <1>2, Fields
  <2>2. /\ buf'.data \in Seq(Byte) /\ buf'.writeIdx = Len(buf'.data)
        /\ buf'.readIdx \in Nat
    BY <1>4, <1>9, Zenon
  <2> QED BY <1>1, <1>2, <1>9, <1>10, <2>1, <2>2, Zenon DEF CodecTypeOK
<1>12. Carrying' /\ Sent'
  BY <1>1, <1>2, Zenon DEF Carrying, Sent
<1>13. Source'
  BY <1>1, <1>2, <1>4, <1>9, Zenon DEF Source, Opened
<1>14. \A f \in Field : head'[f] = IF f = at THEN w ELSE head[f]
  BY <1>2, <1>10, Zenon
<1>15. Reading'
  <2>1. CASE at = "methodLen"
    <3>1. at' = "dataLen" /\ j = 2 /\ i = 1
      BY <1>2, <1>3, <1>5, <2>1, Fields
    <3>2. head'.methodLen = SubSeq(d, 1, 2)
      BY <1>7, <1>14, <2>1, <3>1, Fields
    <3> QED BY <1>4, <1>6, <1>9, <3>1, <3>2 DEF Reading
  <2>2. CASE at = "dataLen"
    <3>1. at' = "id" /\ j = 6 /\ i = 3
      BY <1>2, <1>3, <1>5, <2>2, Fields
    <3>2. head'.dataLen = SubSeq(d, 3, 6) /\ head'.methodLen = head.methodLen
      BY <1>7, <1>14, <2>2, <3>1, Fields
    <3>3. head.methodLen = SubSeq(d, 1, 2)
      BY <1>1, <1>2, <1>4, <2>2 DEF Reading
    <3> QED BY <1>4, <1>6, <1>9, <3>1, <3>2, <3>3 DEF Reading
  <2>3. CASE at = "id"
    <3>1. at' = "method" /\ j = 10 /\ i = 7
      BY <1>2, <1>3, <1>5, <2>3, Fields
    <3>2. /\ head'.id = SubSeq(d, 7, 10)
          /\ head'.methodLen = head.methodLen /\ head'.dataLen = head.dataLen
      BY <1>7, <1>14, <2>3, <3>1, Fields
    <3>3. head.methodLen = SubSeq(d, 1, 2) /\ head.dataLen = SubSeq(d, 3, 6)
      BY <1>1, <1>2, <1>4, <2>3 DEF Reading
    <3> QED BY <1>4, <1>6, <1>9, <3>1, <3>2, <3>3 DEF Reading
  <2>4. CASE at = "method"
    <3>1. /\ at' = "data" /\ i = 11 /\ j = 10 + MethodLen(d) /\ 10 <= l
      BY <1>2, <1>3, <1>4, <1>5, <2>4, Fields
    <3>2. /\ head'.method = SubSeq(d, 11, 10 + MethodLen(d))
          /\ head'.methodLen = head.methodLen /\ head'.dataLen = head.dataLen
          /\ head'.id = head.id
      BY <1>7, <1>14, <2>4, <3>1, Fields
    <3>3. /\ head.methodLen = SubSeq(d, 1, 2) /\ head.dataLen = SubSeq(d, 3, 6)
          /\ head.id = SubSeq(d, 7, 10)
      BY <1>1, <1>2, <1>4, <2>4 DEF Reading
    <3> QED BY <1>4, <1>6, <1>9, <3>1, <3>2, <3>3 DEF Reading
  <2>5. CASE at = "data"
    <3>1. /\ at' = "end" /\ i = 11 + MethodLen(d)
          /\ j = 10 + MethodLen(d) + DataLen(d) /\ 10 <= l
      BY <1>2, <1>3, <1>4, <1>5, <2>5, Fields
    <3>2. /\ head'.data = SubSeq(d, 11 + MethodLen(d), 10 + MethodLen(d) + DataLen(d))
          /\ head'.methodLen = head.methodLen /\ head'.dataLen = head.dataLen
          /\ head'.id = head.id /\ head'.method = head.method
      BY <1>7, <1>14, <2>5, <3>1, Fields
    <3>3. /\ head.methodLen = SubSeq(d, 1, 2) /\ head.dataLen = SubSeq(d, 3, 6)
          /\ head.id = SubSeq(d, 7, 10)
          /\ head.method = SubSeq(d, 11, 10 + MethodLen(d))
      BY <1>1, <1>2, <1>4, <2>5 DEF Reading
    <3> QED BY <1>4, <1>6, <1>9, <3>1, <3>2, <3>3 DEF Reading
  <2> QED BY <1>2, <2>1, <2>2, <2>3, <2>4, <2>5, Fields
<1> QED BY <1>2, <1>11, <1>12, <1>13, <1>15 DEF CodecInv, Writing, Result

-----------------------------------------------------------------------------
(* The results.                                                            *)

\* EncodePacket and DecodePacket are always where the invariant says: what is
\* written is a part of the format, what is read is what the bytes hold.
THEOREM CodecInvariant == Spec => []CodecInv
<1>1. Init => CodecInv
  BY CodecInit
<1>2. CodecInv /\ [Next]_vars => CodecInv'
  <2> SUFFICES ASSUME CodecInv, [Next]_vars PROVE CodecInv'
    OBVIOUS
  <2>1. CASE CreatePacket
    BY <2>1, CreateStep
  <2>2. CASE WriteField
    BY <2>2, WriteFieldStep
  <2>3. CASE Wrap
    BY <2>3, WrapStep
  <2>4. CASE Send
    BY <2>4, SendStep
  <2>5. CASE Receive
    BY <2>5, ReceiveStep
  <2>6. CASE ReadField
    BY <2>6, ReadFieldStep
  <2>7. CASE ReadFails
    BY <2>7, ReadFailsStep
  <2>8. CASE ReadDone
    BY <2>8, ReadDoneStep
  <2>9. CASE Again
    BY <2>9, AgainStep
  <2>10. CASE UNCHANGED vars
    BY <2>10 DEF vars, CodecInv, CodecTypeOK, Carrying, Writing, Sent, Reading,
                 Source, Opened, Result
  <2> QED BY <2>1, <2>2, <2>3, <2>4, <2>5, <2>6, <2>7, <2>8, <2>9, <2>10 DEF Next
<1> QED BY <1>1, <1>2, PTL DEF Spec

\* What the invariant says of a frame that is done with: a packet that was sent
\* and fits is there, and the one inside it.
LEMMA RoundTripInv ==
  ASSUME CodecInv
  PROVE  RoundTrip
<1> SUFFICES ASSUME mode = "rest", packet # <<>>, Fits(packet)
             PROVE  /\ got # <<>> /\ Head(got) = packet
                    /\ inner # <<>> /\ Fits(inner) => got = <<packet, inner>>
  BY DEF RoundTrip
<1>1. CodecTypeOK /\ Carrying /\ Sent /\ Result
  BY DEF CodecInv
<1>2. packet \in AnyPacket /\ packet.id < Base * Base * Base * Base
  BY <1>1 DEF CodecTypeOK, Sendable
<1>3. Masked(frame) = Format(packet)
  BY <1>1, Zenon DEF Sent
<1>4. Whole(Masked(frame)) /\ Parsed(Masked(frame)) = packet
  BY <1>2, <1>3, FormatWhole
<1>5. got = <<packet>> \/ got = <<packet, Parsed(packet.data)>>
  BY <1>1, <1>4, Zenon DEF Result, Opened
<1>6. got # <<>> /\ Head(got) = packet
  <2>1. CASE got = <<packet>>
    BY <2>1
  <2>2. CASE got = <<packet, Parsed(packet.data)>>
    <3>1. PICK x, y : x = packet /\ y = Parsed(packet.data)
      OBVIOUS
    <3>2. <<x, y>> # <<>> /\ Head(<<x, y>>) = x
      OBVIOUS
    <3> QED BY <2>2, <3>1, <3>2, Zenon
  <2> QED BY <1>5, <2>1, <2>2
<1>7. ASSUME inner # <<>>, Fits(inner)
      PROVE  got = <<packet, inner>>
  <2>1. inner \in AnyPacket /\ inner.id < Base * Base * Base * Base
    BY <1>1, <1>7 DEF CodecTypeOK, Sendable
  <2>2. packet.method = Open /\ packet.data = Format(inner)
    BY <1>1, <1>7 DEF Carrying
  <2>3. Whole(packet.data) /\ Parsed(packet.data) = inner
    BY <1>7, <2>1, <2>2, FormatWhole
  <2> QED BY <1>1, <1>4, <2>2, <2>3, Zenon DEF Result, Opened
<1> QED BY <1>6, <1>7

\* The same of a frame that a peer made up: one that begins with an encoded
\* packet gives that packet, any other an error.
LEMMA DecodeExactInv ==
  ASSUME CodecInv
  PROVE  DecodeExact
<1> SUFFICES ASSUME mode = "rest", packet = <<>>
             PROVE  /\ got # <<>> => IsPrefix(Format(Head(got)), Masked(frame))
                    /\ got = <<>> =>
                         \A p \in Packet : ~IsPrefix(Format(p), Masked(frame))
  BY DEF DecodeExact
<1>1. CodecTypeOK /\ Result
  BY DEF CodecInv
<1>2. PICK m \in Seq(Byte) : m = Masked(frame)
  BY <1>1, MaskedTwice DEF CodecTypeOK
<1>3. \/ got = <<>> /\ ~Whole(m)
      \/ Whole(m) /\ \/ got = <<Parsed(m)>>
                     \/ got = <<Parsed(m), Parsed(Parsed(m).data)>>
  BY <1>1, <1>2, Zenon DEF Result, Opened
<1>4. PICK x, y : x = Parsed(m) /\ y = Parsed(Parsed(m).data)
  OBVIOUS
<1>5. /\ <<x>> # <<>> /\ Head(<<x>>) = x
      /\ <<x, y>> # <<>> /\ Head(<<x, y>>) = x
  OBVIOUS
<1>6. CASE Whole(m)
  <2>1. got # <<>> /\ Head(got) = Parsed(m)
    BY <1>3, <1>4, <1>5, <1>6, Zenon
  <2>2. IsPrefix(Format(Parsed(m)), m)
    BY <1>6, Reformat
  <2> QED BY <1>2, <2>1, <2>2, Zenon
<1>7. CASE ~Whole(m)
  <2>1. got = <<>>
    BY <1>3, <1>7, Zenon
  <2>2. \A p \in Packet : p \in AnyPacket
    BY PacketsAreSendable DEF Sendable
  <2>3. \A p \in Packet : ~IsPrefix(Format(p), m)
    BY <1>7, <2>2, PrefixWhole, Zenon
  <2> QED BY <1>2, <2>1, <2>3, Zenon
<1> QED BY <1>6, <1>7, Zenon

\* A packet whose lengths fit their fields is decoded to itself, and so is the
\* packet that OpenChannel puts inside it: EncodePacket, DecodePacket and the
\* mask undo each other, for every size of a byte and every length.
THEOREM RoundTripHolds == Spec => []RoundTrip
BY CodecInvariant, RoundTripInv, PTL

\* DecodePacket gives a packet exactly for the frames that begin with one.
THEOREM DecodeExactHolds == Spec => []DecodeExact
BY CodecInvariant, DecodeExactInv, PTL

===============================================================================
