--------------------------- MODULE PacketsProofs ---------------------------
(***************************************************************************)
(* Every packet gets through as Packets promises, whatever is assigned to  *)
(* its members and whatever uninitialized memory holds.                    *)
(*                                                                         *)
(* The lemmas on the encoding are those of PacketBufferProofs; of          *)
(* PacketBuffer itself nothing is used.  A struct is taken as a sequence   *)
(* of members (Shape): the proof is by induction over them, for the bytes  *)
(* that are sent (MemoryIs, SerializeIs) as for those that are read        *)
(* (ReadingBack), and it is the same for all four structs but for the      *)
(* chat's broken reads (ChatBroken).                                       *)
(***************************************************************************)
EXTENDS Packets, PacketBufferProofs

---------------------------------------------------------------------------
(* Induction over 0..n, for a set of numbers: there is no least one        *)
(* outside of it.                                                          *)
LEMMA Induct ==
  ASSUME NEW n \in Nat, NEW T, 0 \in T, \A i \in 1..n : i - 1 \in T => i \in T
  PROVE  \A i \in 0..n : i \in T
<1> SUFFICES ASSUME NEW j \in 0..n, j \notin T PROVE FALSE
  OBVIOUS
<1> DEFINE out == (0..n) \ T
<1>1. out \in SUBSET Nat /\ out # {}
  OBVIOUS
<1>2. PICK m \in out : \A x \in out : m <= x
  BY <1>1, LeastExists
<1>3. m \in 1..n /\ m \notin T
  BY <1>2
<1>4. m - 1 \notin out /\ m - 1 \in 0..n
  BY <1>2, <1>3
<1> QED BY <1>3, <1>4

(* A function defined by what the value before says exists. *)
Iterable(n, S, s0, step) == n \in Nat /\ s0 \in S /\ step \in [1..n -> [S -> S]]
Iterates(n, S, s0, step, r) ==
  r \in [0..n -> S] /\ r[0] = s0 /\ \A i \in 1..n : r[i] = step[i][r[i - 1]]

LEMMA IterationExists ==
  ASSUME NEW n, NEW S, NEW s0, NEW step, Iterable(n, S, s0, step)
  PROVE  \E r : Iterates(n, S, s0, step, r)
<1> DEFINE Upto(m) == \E r : Iterates(m, S, s0, step, r)
           T == {m \in 0..n : Upto(m)}
<1>1. n \in Nat /\ s0 \in S /\ step \in [1..n -> [S -> S]]
  BY DEF Iterable
<1>2. 0 \in T
  <2>1. [i \in 0..0 |-> s0] \in [0..0 -> S] /\ [i \in 0..0 |-> s0][0] = s0
    BY <1>1
  <2>2. \A i \in 1..0 : FALSE
    OBVIOUS
  <2>3. Upto(0)
    BY <2>1, <2>2 DEF Iterates
  <2> QED BY <1>1, <2>3
<1>3. ASSUME NEW m \in 1..n, m - 1 \in T PROVE m \in T
  <2>1. PICK r : Iterates(m - 1, S, s0, step, r)
    BY <1>3
  <2>2. r \in [0..(m - 1) -> S] /\ r[0] = s0 /\ \A i \in 1..(m - 1) : r[i] = step[i][r[i - 1]]
    BY <2>1 DEF Iterates
  <2>3. m \in 1..n /\ m - 1 \in 0..(m - 1)
    BY <1>1
  <2>4. step[m] \in [S -> S] /\ r[m - 1] \in S
    BY <1>1, <2>2, <2>3
  <2> DEFINE q == [i \in 0..m |-> IF i = m THEN step[m][r[m - 1]] ELSE r[i]]
  <2>5. q \in [0..m -> S]
    BY <1>1, <2>2, <2>4
  <2>6. q[0] = s0
    BY <1>1, <2>2
  <2>7. ASSUME NEW i \in 1..m PROVE q[i] = step[i][q[i - 1]]
    <3>1. q[i - 1] = r[i - 1]
      BY <1>1
    <3>2. CASE i = m
      BY <3>1, <3>2
    <3>3. CASE i # m
      BY <1>1, <2>2, <3>1, <3>3
    <3> QED BY <3>2, <3>3
  <2>8. Upto(m)
    <3> HIDE DEF q
    <3> QED BY <2>5, <2>6, <2>7 DEF Iterates
  <2>9. m \in 0..n
    BY <1>1
  <2> HIDE DEF Upto
  <2> QED BY <2>8, <2>9
<1>4. n \in T
  <2> HIDE DEF T
  <2>1. \A m \in 0..n : m \in T
    BY <1>1, <1>2, <1>3, Induct
  <2> QED BY <1>1, <2>1
<1> QED BY <1>4

---------------------------------------------------------------------------
(* The structs. *)
LEMMA PacketHeaderIs ==
  /\ Len(PacketHeader) = 2
  /\ PacketHeader[1] = Unsigned("headerId", 1) /\ PacketHeader[2] = Unsigned("headerSize", 2)
BY DEF PacketHeader

(* What the structs have in common. *)
IsMember(f) ==
  /\ f.type \in {"text", "uint", "int"}
  /\ f.type = "text" => f.len \in 1..256
  /\ f.type = "uint" => f.len \in {1, 2, 4}
  /\ f.type = "int" => f.len = 4
Shape(s) ==
  /\ Len(s) \in Nat /\ Len(s) > 2 /\ DOMAIN s = 1..Len(s)
  /\ s[1] = Unsigned("headerId", 1) /\ s[2] = Unsigned("headerSize", 2)
  /\ \A i \in 1..Len(s) : IsMember(s[i])
  /\ \A i, j \in 1..Len(s) : s[i].name = s[j].name => i = j

LEMMA LoginIs ==
  /\ Len(LoginPacket) = 4 /\ DOMAIN LoginPacket = 1..4
  /\ LoginPacket[1] = Unsigned("headerId", 1) /\ LoginPacket[2] = Unsigned("headerSize", 2)
  /\ LoginPacket[3] = Chars("username", 25) /\ LoginPacket[4] = Chars("password", 17)
BY DEF LoginPacket, PacketHeader

LEMMA LoginShape == Shape(LoginPacket)
<1>1. \A i \in 1..4 : IsMember(LoginPacket[i])
  BY LoginIs DEF IsMember, Unsigned, Signed32, Chars
<1>2. \A i, j \in 1..4 : LoginPacket[i].name = LoginPacket[j].name => i = j
  BY LoginIs DEF Unsigned, Signed32, Chars
<1> QED BY <1>1, <1>2, LoginIs DEF Shape

LEMMA MoveIs ==
  /\ Len(MovePacket) = 5 /\ DOMAIN MovePacket = 1..5
  /\ MovePacket[1] = Unsigned("headerId", 1) /\ MovePacket[2] = Unsigned("headerSize", 2)
  /\ MovePacket[3] = Signed32("x") /\ MovePacket[4] = Signed32("y")
  /\ MovePacket[5] = Unsigned("timestamp", 4)
BY DEF MovePacket, PacketHeader

LEMMA MoveShape == Shape(MovePacket)
<1>1. \A i \in 1..5 : IsMember(MovePacket[i])
  BY MoveIs DEF IsMember, Unsigned, Signed32, Chars
<1>2. \A i, j \in 1..5 : MovePacket[i].name = MovePacket[j].name => i = j
  BY MoveIs DEF Unsigned, Signed32, Chars
<1> QED BY <1>1, <1>2, MoveIs DEF Shape

LEMMA CharacterInfoIs ==
  /\ Len(CharacterInfoPacket) = 17 /\ DOMAIN CharacterInfoPacket = 1..17
  /\ CharacterInfoPacket[1] = Unsigned("headerId", 1)
  /\ CharacterInfoPacket[2] = Unsigned("headerSize", 2)
  /\ CharacterInfoPacket[3] = Unsigned("id", 4) /\ CharacterInfoPacket[4] = Chars("name", 25)
  /\ CharacterInfoPacket[5] = Unsigned("job", 1) /\ CharacterInfoPacket[6] = Unsigned("level", 1)
  /\ CharacterInfoPacket[7] = Unsigned("exp", 4) /\ CharacterInfoPacket[8] = Signed32("x")
  /\ CharacterInfoPacket[9] = Signed32("y") /\ CharacterInfoPacket[10] = Unsigned("hp", 4)
  /\ CharacterInfoPacket[11] = Unsigned("maxHp", 4) /\ CharacterInfoPacket[12] = Unsigned("sp", 4)
  /\ CharacterInfoPacket[13] = Unsigned("maxSp", 4) /\ CharacterInfoPacket[14] = Unsigned("st", 2)
  /\ CharacterInfoPacket[15] = Unsigned("ht", 2) /\ CharacterInfoPacket[16] = Unsigned("dx", 2)
  /\ CharacterInfoPacket[17] = Unsigned("iq", 2)
BY DEF CharacterInfoPacket, PacketHeader

LEMMA CharacterInfoShape == Shape(CharacterInfoPacket)
<1>1. \A i \in 1..17 : IsMember(CharacterInfoPacket[i])
  BY CharacterInfoIs DEF IsMember, Unsigned, Signed32, Chars
<1>2. \A i, j \in 1..17 : CharacterInfoPacket[i].name = CharacterInfoPacket[j].name => i = j
  BY CharacterInfoIs DEF Unsigned, Signed32, Chars
<1>3. /\ Len(CharacterInfoPacket) = 17 /\ DOMAIN CharacterInfoPacket = 1..17
      /\ CharacterInfoPacket[1] = Unsigned("headerId", 1)
      /\ CharacterInfoPacket[2] = Unsigned("headerSize", 2)
  BY CharacterInfoIs
<1>4. /\ \A i \in 1..Len(CharacterInfoPacket) : IsMember(CharacterInfoPacket[i])
      /\ \A i, j \in 1..Len(CharacterInfoPacket) :
           CharacterInfoPacket[i].name = CharacterInfoPacket[j].name => i = j
      /\ DOMAIN CharacterInfoPacket = 1..Len(CharacterInfoPacket)
  BY <1>1, <1>2, <1>3, Zenon
<1>5. 17 \in Nat /\ 17 > 2
  OBVIOUS
<1>6. Len(CharacterInfoPacket) \in Nat /\ Len(CharacterInfoPacket) > 2
  BY <1>3, <1>5, Zenon
<1> QED BY <1>3, <1>4, <1>6, Zenon DEF Shape

LEMMA ChatIs ==
  /\ Len(ChatPacket) = 5 /\ DOMAIN ChatPacket = 1..5
  /\ ChatPacket[1] = Unsigned("headerId", 1) /\ ChatPacket[2] = Unsigned("headerSize", 2)
  /\ ChatPacket[3] = Unsigned("type", 1) /\ ChatPacket[4] = Unsigned("senderId", 4)
  /\ ChatPacket[5] = Chars("message", 256)
BY DEF ChatPacket, PacketHeader

LEMMA ChatShape == Shape(ChatPacket)
<1>1. \A i \in 1..5 : IsMember(ChatPacket[i])
  BY ChatIs DEF IsMember, Unsigned, Signed32, Chars
<1>2. \A i, j \in 1..5 : ChatPacket[i].name = ChatPacket[j].name => i = j
  BY ChatIs DEF Unsigned, Signed32, Chars
<1> QED BY <1>1, <1>2, ChatIs DEF Shape

LEMMA StructShape ==
  ASSUME NEW k \in Kinds
  PROVE  Shape(Struct[k])
<1>1. /\ Struct["Login"] = LoginPacket /\ Struct["Move"] = MovePacket
      /\ Struct["CharacterInfo"] = CharacterInfoPacket /\ Struct["Chat"] = ChatPacket
      /\ Kinds = {"Login", "Move", "CharacterInfo", "Chat"}
  BY DEF Struct, Kinds
<1> QED BY <1>1, LoginShape, MoveShape, CharacterInfoShape, ChatShape

LEMMA MemberLen ==
  ASSUME NEW f, IsMember(f)
  PROVE  f.len \in 1..256 /\ f.len \in Nat \ {0}
<1>1. CASE f.type = "text"
  BY <1>1 DEF IsMember
<1>2. CASE f.type = "uint"
  BY <1>2 DEF IsMember
<1>3. CASE f.type = "int"
  BY <1>3 DEF IsMember
<1> QED BY <1>1, <1>2, <1>3 DEF IsMember

(* Where the members end. *)
IsEnd(k, e) ==
  e = [i \in 0..Len(Struct[k]) |-> IF i = 0 THEN 0 ELSE e[i - 1] + Struct[k][i].len]

LEMMA EndSolves ==
  ASSUME NEW k, NEW e, IsEnd(k, e)
  PROVE  IsEnd(k, End(k))
BY DEF IsEnd, End

LEMMA EndIs ==
  ASSUME NEW k \in Kinds
  PROVE  /\ End(k) \in [0..Len(Struct[k]) -> Nat]
         /\ End(k)[0] = 0
         /\ \A i \in 1..Len(Struct[k]) : End(k)[i] = End(k)[i - 1] + Struct[k][i].len
<1>1. PICK n \in Nat : n = Len(Struct[k])
  BY StructShape DEF Shape
<1>2. \A i \in 1..n : Struct[k][i].len \in Nat
  BY <1>1, StructShape, MemberLen DEF Shape
<1>3. PICK step \in [1..n -> [Nat -> Nat]] :
        step = [i \in 1..n |-> [x \in Nat |-> x + Struct[k][i].len]]
  <2>1. \A i \in 1..n : [x \in Nat |-> x + Struct[k][i].len] \in [Nat -> Nat]
    BY <1>2
  <2> QED BY <2>1, Zenon
<1>4. PICK r : r \in [0..n -> Nat] /\ r[0] = 0 /\ \A i \in 1..n : r[i] = step[i][r[i - 1]]
  <2>1. Iterable(n, Nat, 0, step)
    BY DEF Iterable
  <2>2. PICK r : Iterates(n, Nat, 0, step, r)
    BY <2>1, IterationExists
  <2> QED BY <2>2 DEF Iterates
<1>5. \A i \in 1..n : r[i] = r[i - 1] + Struct[k][i].len
  <2> SUFFICES ASSUME NEW i \in 1..n PROVE r[i] = r[i - 1] + Struct[k][i].len
    OBVIOUS
  <2>1. r[i - 1] \in Nat /\ r[i] = step[i][r[i - 1]]
    <3>1. i - 1 \in 0..n
      OBVIOUS
    <3> QED BY <1>4, <3>1
  <2> QED BY <1>3, <2>1
<1>6. IsEnd(k, r)
  BY <1>1, <1>4, <1>5 DEF IsEnd
<1>7. IsEnd(k, End(k))
  BY <1>6, EndSolves
<1>8. PICK e : e = End(k)
  OBVIOUS
<1>9. e[0] = 0 /\ (\A i \in 1..n : e[i] = e[i - 1] + Struct[k][i].len) /\ e = [i \in 0..n |-> e[i]]
  <2>1. e = [i \in 0..n |-> IF i = 0 THEN 0 ELSE e[i - 1] + Struct[k][i].len]
    BY <1>1, <1>7, <1>8 DEF IsEnd
  <2>2. DOMAIN e = 0..n /\ \A i \in 0..n : e[i] = IF i = 0 THEN 0 ELSE e[i - 1] + Struct[k][i].len
    BY <2>1
  <2>3. e = [i \in 0..n |-> e[i]]
    BY <2>1
  <2>4. 0 \in 0..n /\ \A i \in 1..n : i \in 0..n /\ i # 0
    OBVIOUS
  <2> QED BY <2>2, <2>3, <2>4
<1> DEFINE T == {i \in 0..n : e[i] \in Nat}
<1>10. \A i \in 0..n : i \in T
  <2>1. 0 \in T
    BY <1>9
  <2>2. ASSUME NEW i \in 1..n, i - 1 \in T PROVE i \in T
    <3>1. e[i - 1] \in Nat /\ e[i] = e[i - 1] + Struct[k][i].len /\ Struct[k][i].len \in Nat
      BY <1>2, <1>9, <2>2
    <3>2. PICK x \in Nat, y \in Nat : x = e[i - 1] /\ y = Struct[k][i].len
      BY <3>1
    <3>3. e[i] \in Nat
      <4>1. e[i] = x + y
        BY <3>1, <3>2
      <4>2. x + y \in Nat
        OBVIOUS
      <4> QED BY <4>1, <4>2
    <3>4. i \in 0..n
      OBVIOUS
    <3> QED BY <3>3, <3>4
  <2> HIDE DEF T
  <2> QED BY <2>1, <2>2, Induct
<1> QED BY <1>1, <1>8, <1>9, <1>10

(* The bytes of a member. *)
Fits(f, v) ==
  /\ f.type = "text" => v \in Seq(Bytes)
  /\ f.type = "uint" => v \in 0..(Width(f.len) - 1)
  /\ f.type = "int" => v \in {x \in Int : Signed(x % Width(4)) = x}

(* The 32-bit numbers are those the two casts leave as they are. *)
LEMMA SignedRange ==
  ASSUME NEW u \in 0..(Width(4) - 1)
  PROVE  /\ Signed(u) \in Int /\ -Width(4) <= 2 * Signed(u) /\ 2 * Signed(u) < Width(4)
         /\ Signed(Signed(u) % Width(4)) = Signed(u)
<1>1. PICK w \in Nat \ {0} : w = Width(4)
  BY PlaceValues
<1>2. Signed(u) \in Int /\ -w <= 2 * Signed(u) /\ 2 * Signed(u) < w
  BY <1>1 DEF Signed
<1> QED BY <1>1, <1>2, SignedBack

LEMMA IntFits ==
  ASSUME NEW v \in Int, Signed(v % Width(4)) = v
  PROVE  v % Width(4) \in 0..(Width(4) - 1)
<1>1. PICK w \in Nat \ {0} : w = Width(4)
  BY PlaceValues
<1>2. v % w \in 0..(w - 1)
  OBVIOUS
<1> QED BY <1>1, <1>2

LEMMA InMemoryIs ==
  ASSUME NEW f, IsMember(f), NEW v, Fits(f, v)
  PROVE  InMemory(f, v) \in Seq(Bytes) /\ Len(InMemory(f, v)) = f.len
<1>1. CASE f.type = "text"
  <2>1. InMemory(f, v) = Padded(v, f.len)
    BY <1>1 DEF InMemory
  <2>2. v \in Seq(Bytes) /\ f.len \in Nat \ {0}
    BY <1>1, MemberLen DEF Fits
  <2> QED BY <2>1, <2>2, PaddedIs
<1>2. CASE f.type = "uint"
  <2>1. InMemory(f, v) = LittleEndian(v, f.len)
    BY <1>2 DEF InMemory
  <2>2. v \in Nat /\ f.len \in 1..4
    BY <1>2, PlaceValues DEF Fits, IsMember
  <2> QED BY <2>1, <2>2, LittleEndianType
<1>3. CASE f.type = "int"
  <2>1. InMemory(f, v) = LittleEndian(v % Width(4), 4) /\ f.len = 4
    BY <1>3 DEF InMemory, IsMember
  <2>2. v % Width(4) \in Nat /\ 4 \in 1..4
    BY <1>3, IntFits DEF Fits
  <2> QED BY <2>1, <2>2, LittleEndianType
<1> QED BY <1>1, <1>2, <1>3 DEF IsMember

(* The bytes of a packet. *)
Bits(k, p, i) == InMemory(Struct[k][i], p[Struct[k][i].name])
AllFit(k, p)  == \A i \in 1..Len(Struct[k]) : Fits(Struct[k][i], p[Struct[k][i].name])
Laid(k, p, data) ==
  /\ data \in Seq(Bytes) /\ Len(data) = End(k)[Len(Struct[k])]
  /\ \A i \in 1..Len(Struct[k]) : LiesAt(Bits(k, p, i), data, End(k)[i - 1])

LEMMA BitsType ==
  ASSUME NEW k \in Kinds, NEW p, AllFit(k, p), NEW i \in 1..Len(Struct[k])
  PROVE  Bits(k, p, i) \in Seq(Bytes) /\ Len(Bits(k, p, i)) = Struct[k][i].len
<1>1. IsMember(Struct[k][i]) /\ Fits(Struct[k][i], p[Struct[k][i].name])
  BY StructShape DEF Shape, AllFit
<1> QED BY <1>1, InMemoryIs DEF Bits

LEMMA MembersLie ==
  ASSUME NEW k \in Kinds, NEW p, AllFit(k, p), NEW m, m[0] = <<>>,
         \A i \in 1..Len(Struct[k]) : m[i] = m[i - 1] \o Bits(k, p, i)
  PROVE  Laid(k, p, m[Len(Struct[k])])
<1>1. PICK n \in Nat : n = Len(Struct[k])
  BY StructShape DEF Shape
<1>2. PICK e \in [0..n -> Nat] :
        e = End(k) /\ e[0] = 0 /\ \A i \in 1..n : e[i] = e[i - 1] + Struct[k][i].len
  BY <1>1, EndIs
<1> DEFINE Good(i) == /\ m[i] \in Seq(Bytes) /\ Len(m[i]) = e[i]
                      /\ \A j \in 1..i : LiesAt(Bits(k, p, j), m[i], e[j - 1])
           T == {i \in 0..n : Good(i)}
<1>3. 0 \in T
  <2>1. m[0] \in Seq(Bytes) /\ Len(m[0]) = e[0]
    BY <1>2
  <2>2. \A j \in 1..0 : FALSE
    OBVIOUS
  <2>3. Good(0) /\ 0 \in 0..n
    BY <2>1, <2>2
  <2> HIDE DEF Good
  <2> QED BY <2>3
<1>4. ASSUME NEW i \in 1..n, i - 1 \in T PROVE i \in T
  <2> DEFINE d == Bits(k, p, i)
  <2>1. d \in Seq(Bytes) /\ Len(d) = Struct[k][i].len
    BY <1>1, BitsType
  <2>2. Good(i - 1)
    BY <1>4
  <2>3. m[i] = m[i - 1] \o d
    BY <1>1
  <2> HIDE DEF d
  <2>4. m[i] \in Seq(Bytes) /\ Len(m[i]) = e[i]
    <3>1. Len(m[i - 1] \o d) = Len(m[i - 1]) + Len(d) /\ m[i - 1] \o d \in Seq(Bytes)
      BY <2>1, <2>2, ConcatProperties
    <3>2. e[i] = e[i - 1] + Struct[k][i].len
      BY <1>2
    <3> QED BY <2>1, <2>2, <2>3, <3>1, <3>2
  <2>5. ASSUME NEW j \in 1..i PROVE LiesAt(Bits(k, p, j), m[i], e[j - 1])
    <3>1. CASE j = i
      <4>1. LiesAt(d, m[i - 1] \o d, Len(m[i - 1]))
        BY <2>1, <2>2, LiesLast
      <4>2. Len(m[i - 1]) = e[j - 1]
        BY <2>2, <3>1
      <4> QED BY <2>3, <3>1, <4>1, <4>2 DEF d
    <3>2. CASE j # i
      <4>1. j \in 1..(i - 1) /\ j \in 1..Len(Struct[k]) /\ j - 1 \in 0..n
        BY <1>1, <3>2
      <4>2. Bits(k, p, j) \in Seq(Bytes) /\ e[j - 1] \in Nat
        BY <1>2, <4>1, BitsType
      <4>3. LiesAt(Bits(k, p, j), m[i - 1], e[j - 1])
        BY <2>2, <4>1
      <4>4. LiesAt(Bits(k, p, j), m[i - 1] \o d, e[j - 1])
        BY <2>1, <2>2, <4>2, <4>3, LiesStill
      <4> QED BY <2>3, <4>4
    <3> QED BY <3>1, <3>2
  <2>6. Good(i)
    BY <2>4, <2>5
  <2> HIDE DEF Good
  <2> QED BY <2>6
<1>5. Good(n)
  <2> HIDE DEF T
  <2>1. \A i \in 0..n : i \in T
    BY <1>3, <1>4, Induct
  <2>2. n \in T
    BY <2>1
  <2> USE DEF T
  <2> HIDE DEF Good
  <2> QED BY <2>2
<1> QED BY <1>1, <1>2, <1>5 DEF Laid

IsMemory(k, p, m) ==
  m = [i \in 0..Len(Struct[k]) |->
         IF i = 0 THEN <<>>
         ELSE m[i - 1] \o Padding(m[i - 1], Struct[k][i])
                       \o InMemory(Struct[k][i], p[Struct[k][i].name])]

LEMMA MemorySolves ==
  ASSUME NEW k, NEW p, NEW m, IsMemory(k, p, m)
  PROVE  \E q : IsMemory(k, p, q) /\ Memory(k, p) = q[Len(Struct[k])]
<1> DEFINE q == CHOOSE x : IsMemory(k, p, x)
<1>1. IsMemory(k, p, q)
  OBVIOUS
<1>2. Memory(k, p) = q[Len(Struct[k])]
  BY DEF Memory, IsMemory
<1> QED BY <1>1, <1>2

(* A packed struct has no bytes but those of its members. *)
LEMMA MemoryIs ==
  ASSUME NEW k \in Kinds, NEW p, AllFit(k, p)
  PROVE  Laid(k, p, Memory(k, p))
<1>1. PICK n \in Nat : n = Len(Struct[k])
  BY StructShape DEF Shape
<1>2. \A d \in Seq(Bytes) : d \o <<>> = d
  BY ConcatEmptySeq
<1>3. PICK step \in [1..n -> [Seq(Bytes) -> Seq(Bytes)]] :
        step = [i \in 1..n |-> [d \in Seq(Bytes) |-> d \o Bits(k, p, i)]]
  <2>1. ASSUME NEW i \in 1..n
        PROVE  [d \in Seq(Bytes) |-> d \o Bits(k, p, i)] \in [Seq(Bytes) -> Seq(Bytes)]
    <3>1. Bits(k, p, i) \in Seq(Bytes)
      BY <1>1, BitsType
    <3> QED BY <3>1, ConcatProperties
  <2> QED BY <2>1, Zenon
<1>4. PICK r : r \in [0..n -> Seq(Bytes)] /\ r[0] = <<>> /\ \A i \in 1..n : r[i] = step[i][r[i - 1]]
  <2>1. Iterable(n, Seq(Bytes), <<>>, step)
    BY DEF Iterable
  <2>2. PICK r : Iterates(n, Seq(Bytes), <<>>, step, r)
    BY <2>1, IterationExists
  <2> QED BY <2>2 DEF Iterates
<1>5. ASSUME NEW i \in 1..n PROVE r[i] = r[i - 1] \o Bits(k, p, i) /\ r[i - 1] \in Seq(Bytes)
  <2>1. r[i - 1] \in Seq(Bytes) /\ r[i] = step[i][r[i - 1]]
    <3>1. i - 1 \in 0..n
      OBVIOUS
    <3> QED BY <1>4, <3>1
  <2> QED BY <1>3, <2>1
<1>6. IsMemory(k, p, r)
  <2>1. ASSUME NEW i \in 0..n
        PROVE  r[i] = IF i = 0 THEN <<>>
                      ELSE r[i - 1] \o Padding(r[i - 1], Struct[k][i])
                                    \o InMemory(Struct[k][i], p[Struct[k][i].name])
    <3>1. CASE i = 0
      BY <1>4, <3>1
    <3>2. CASE i # 0
      <4>1. r[i] = r[i - 1] \o Bits(k, p, i) /\ r[i - 1] \o Padding(r[i - 1], Struct[k][i]) = r[i - 1]
        BY <1>2, <1>5, <3>2 DEF Padding
      <4> QED BY <3>2, <4>1 DEF Bits
    <3> QED BY <3>1, <3>2
  <2>2. r = [i \in 0..n |-> r[i]]
    BY <1>4
  <2> QED BY <1>1, <2>1, <2>2 DEF IsMemory
<1>7. PICK q : IsMemory(k, p, q) /\ Memory(k, p) = q[n]
  BY <1>1, <1>6, MemorySolves
<1>8. \A i \in 0..n : q[i] = IF i = 0 THEN <<>>
                             ELSE q[i - 1] \o Padding(q[i - 1], Struct[k][i]) \o Bits(k, p, i)
  BY <1>1, <1>7 DEF IsMemory, Bits
<1>11. q[0] = <<>>
  BY <1>8
<1>12. ASSUME NEW i \in 1..n PROVE q[i] = q[i - 1] \o <<>> \o Bits(k, p, i)
  <2>1. i \in 0..n /\ i # 0
    OBVIOUS
  <2> QED BY <1>8, <2>1 DEF Padding
<1> DEFINE T == {i \in 0..n : q[i] \in Seq(Bytes)}
<1>9. \A i \in 0..n : i \in T
  <2>1. 0 \in T
    <3>1. 0 \in 0..n /\ <<>> \in Seq(Bytes)
      OBVIOUS
    <3> QED BY <1>11, <3>1
  <2>2. ASSUME NEW i \in 1..n, i - 1 \in T PROVE i \in T
    <3>1. q[i - 1] \in Seq(Bytes) /\ Bits(k, p, i) \in Seq(Bytes)
      BY <1>1, <2>2, BitsType
    <3>2. q[i] = q[i - 1] \o <<>> \o Bits(k, p, i)
      BY <1>12
    <3>3. q[i] \in Seq(Bytes)
      BY <1>2, <3>1, <3>2, ConcatProperties
    <3>4. i \in 0..n
      OBVIOUS
    <3> QED BY <3>3, <3>4
  <2> HIDE DEF T
  <2> QED BY <2>1, <2>2, Induct
<1>10. ASSUME NEW i \in 1..n PROVE q[i] = q[i - 1] \o Bits(k, p, i)
  <2>1. q[i] = q[i - 1] \o <<>> \o Bits(k, p, i)
    BY <1>12
  <2>2. i - 1 \in T
    <3> HIDE DEF T
    <3> QED BY <1>9
  <2> QED BY <1>2, <2>1, <2>2
<1> QED BY <1>1, <1>7, <1>10, <1>11, MembersLie

(* serialize() writes the members of a chat in the order of the others.    *)
LEMMA SerializeIs ==
  ASSUME NEW p, AllFit("Chat", p)
  PROVE  /\ Laid("Chat", p, SerializeInto(Buffer(<<>>), p).data)
         /\ SerializeInto(Buffer(<<>>), p) \in Buffers
         /\ SerializeInto(Buffer(<<>>), p).pos = 0
<1>1. Struct["Chat"] = ChatPacket /\ "Chat" \in Kinds
  BY DEF Struct, Kinds
<1> DEFINE d(i) == Bits("Chat", p, i)
           b1 == Put(Buffer(<<>>), d(1))
           b2 == Put(b1, d(2))
           b3 == Put(b2, d(3))
           b4 == Put(b3, d(4))
           b5 == Put(b4, d(5))
<1>2. /\ d(1) \in Seq(Bytes) /\ d(2) \in Seq(Bytes) /\ d(3) \in Seq(Bytes)
      /\ d(4) \in Seq(Bytes) /\ d(5) \in Seq(Bytes)
  <2>1. Len(Struct["Chat"]) = 5
    BY <1>1, ChatIs
  <2>2. \A i \in 1..5 : d(i) \in Seq(Bytes)
    BY <1>1, <2>1, BitsType
  <2> QED BY <2>2
<1>3. /\ d(1) = LittleEndian(p.headerId, 1) /\ d(2) = LittleEndian(p.headerSize, 2)
      /\ d(3) = LittleEndian(p.type, 1) /\ d(4) = LittleEndian(p.senderId, 4)
      /\ d(5) = Padded(p.message, 256)
  BY <1>1, ChatIs DEF Bits, InMemory, Unsigned, Chars
<1>4. SerializeInto(Buffer(<<>>), p) = b5
  BY <1>3 DEF SerializeInto, WriteUint, WriteString
<1> HIDE DEF d
<1>5. Buffer(<<>>) \in Buffers /\ Buffer(<<>>).data = <<>> /\ Buffer(<<>>).pos = 0
  BY DEF Buffer, Buffers
<1>6. b1 \in Buffers /\ b1.pos = 0 /\ b1.data = <<>> \o d(1)
  <2>1. PICK e \in Seq(Bytes) : e = d(1)
    BY <1>2
  <2>2. PICK b0 \in Buffers : b0 = Buffer(<<>>)
    BY <1>5
  <2>3. Put(b0, e) \in Buffers /\ Put(b0, e).pos = b0.pos /\ Put(b0, e).data = b0.data \o e
    BY PutType
  <2> QED BY <1>5, <2>1, <2>2, <2>3, Zenon
<1> HIDE DEF b1
<1>7. b2 \in Buffers /\ b2.pos = 0 /\ b2.data = b1.data \o d(2)
  BY <1>2, <1>6, PutType
<1> HIDE DEF b2
<1>8. b3 \in Buffers /\ b3.pos = 0 /\ b3.data = b2.data \o d(3)
  BY <1>2, <1>7, PutType
<1> HIDE DEF b3
<1>9. b4 \in Buffers /\ b4.pos = 0 /\ b4.data = b3.data \o d(4)
  BY <1>2, <1>8, PutType
<1> HIDE DEF b4
<1>10. b5 \in Buffers /\ b5.pos = 0 /\ b5.data = b4.data \o d(5)
  BY <1>2, <1>9, PutType
<1> HIDE DEF b5
<1> DEFINE m == [i \in 0..5 |-> CASE i = 0 -> <<>> [] i = 1 -> b1.data [] i = 2 -> b2.data
                                  [] i = 3 -> b3.data [] i = 4 -> b4.data [] i = 5 -> b5.data]
<1>11. /\ m[0] = <<>> /\ m[1] = b1.data /\ m[2] = b2.data /\ m[3] = b3.data /\ m[4] = b4.data
       /\ m[5] = b5.data
  OBVIOUS
<1> HIDE DEF m
<1>12. ASSUME NEW i \in 1..5 PROVE m[i] = m[i - 1] \o Bits("Chat", p, i)
  <2>1. /\ m[1] = m[0] \o Bits("Chat", p, 1) /\ m[2] = m[1] \o Bits("Chat", p, 2)
        /\ m[3] = m[2] \o Bits("Chat", p, 3) /\ m[4] = m[3] \o Bits("Chat", p, 4)
        /\ m[5] = m[4] \o Bits("Chat", p, 5)
    BY <1>6, <1>7, <1>8, <1>9, <1>10, <1>11 DEF d
  <2>2. CASE i = 1
    <3>1. i - 1 = 0
      BY <2>2
    <3> QED BY <2>1, <2>2, <3>1, Zenon
  <2>3. CASE i = 2
    <3>1. i - 1 = 1
      BY <2>3
    <3> QED BY <2>1, <2>3, <3>1, Zenon
  <2>4. CASE i = 3
    <3>1. i - 1 = 2
      BY <2>4
    <3> QED BY <2>1, <2>4, <3>1, Zenon
  <2>5. CASE i = 4
    <3>1. i - 1 = 3
      BY <2>5
    <3> QED BY <2>1, <2>5, <3>1, Zenon
  <2>6. CASE i = 5
    <3>1. i - 1 = 4
      BY <2>6
    <3> QED BY <2>1, <2>6, <3>1, Zenon
  <2> QED BY <2>2, <2>3, <2>4, <2>5, <2>6
<1>13. Laid("Chat", p, m[5])
  <2>1. Len(Struct["Chat"]) = 5
    BY <1>1, ChatIs
  <2>2. \A i \in 1..Len(Struct["Chat"]) : m[i] = m[i - 1] \o Bits("Chat", p, i)
    BY <1>12, <2>1
  <2>3. Laid("Chat", p, m[Len(Struct["Chat"])])
    BY <1>1, <1>11, <2>2, MembersLie
  <2> QED BY <2>1, <2>3
<1> QED BY <1>4, <1>10, <1>11, <1>13

---------------------------------------------------------------------------
(* What the reads return. *)

(* One more digit. *)
LEMMA DigitBelow ==
  ASSUME NEW w \in Nat \ {0}, NEW a \in 0..(w - 1), NEW x \in Bytes
  PROVE  a + x * w \in 0..(B * w - 1)
<1>1. PICK c \in Nat : B = c + 1 /\ x <= c /\ x \in Nat
  <2>1. B - 1 \in Nat /\ x \in 0..(B - 1)
    BY WireAssumption DEF Bytes
  <2> QED BY <2>1, WireAssumption
<1>2. x * w <= c * w /\ x * w \in Nat /\ c * w \in Nat
  BY <1>1
<1>3. B * w = c * w + w
  BY <1>1
<1> QED BY <1>2, <1>3

LEMMA FromBytesBelow ==
  ASSUME NEW s \in Seq(Bytes), Len(s) \in {1, 2, 4}
  PROVE  FromBytes(s) \in 0..(Width(Len(s)) - 1)
<1>1. /\ Place[1] = 1 /\ Place[2] = B /\ Place[3] = B * B /\ Place[4] = B * B * B
      /\ Width(1) = B /\ Width(2) = B * B /\ Width(4) = B * (B * B * B)
  BY PlaceValues
<1>2. B \in Nat \ {0} /\ B * B \in Nat \ {0} /\ B * B * B \in Nat \ {0}
  BY WireAssumption
<1>3. s[1] \in Bytes /\ s[1] \in 0..(B - 1) /\ s[1] \in Nat
  BY WireAssumption DEF Bytes
<1>4. CASE Len(s) = 1
  <2>1. FromBytes(s) = s[1] * 1 + 0 + 0 + 0
    BY <1>1, <1>4 DEF FromBytes
  <2> QED BY <1>1, <1>3, <1>4, <2>1
<1>5. CASE Len(s) = 2
  <2>1. s[2] \in Bytes /\ s[2] \in Nat
    <3>1. 2 \in 1..Len(s)
      BY <1>5
    <3> QED BY <3>1, WireAssumption, ElementOfSeq DEF Bytes
  <2>2. s[1] + s[2] * B \in 0..(B * B - 1)
    BY <1>2, <1>3, <2>1, DigitBelow
  <2>3. FromBytes(s) = s[1] * 1 + s[2] * B + 0 + 0
    BY <1>1, <1>5 DEF FromBytes
  <2>4. s[2] * B \in Nat
    BY <1>2, <2>1
  <2> QED BY <1>1, <1>3, <1>5, <2>2, <2>3, <2>4
<1>6. CASE Len(s) = 4
  <2>1. s[2] \in Bytes /\ s[3] \in Bytes /\ s[4] \in Bytes
    <3>1. 2 \in 1..Len(s) /\ 3 \in 1..Len(s) /\ 4 \in 1..Len(s)
      BY <1>6
    <3> QED BY <3>1, ElementOfSeq
  <2>2. s[2] \in Nat /\ s[3] \in Nat /\ s[4] \in Nat
    BY <2>1, WireAssumption DEF Bytes
  <2>3. PICK x2 \in Nat, x3 \in Nat, x4 \in Nat :
          x2 = s[2] * B /\ x3 = s[3] * (B * B) /\ x4 = s[4] * (B * B * B)
    <3>1. \A x \in Nat, y \in Nat : x * y \in Nat
      OBVIOUS
    <3>2. s[2] * B \in Nat /\ s[3] * (B * B) \in Nat /\ s[4] * (B * B * B) \in Nat
      BY <1>2, <2>2, <3>1
    <3> QED BY <3>2
  <2>4. s[1] + x2 \in 0..(B * B - 1)
    BY <1>2, <1>3, <2>1, <2>3, DigitBelow
  <2>5. (s[1] + x2) + x3 \in 0..(B * (B * B) - 1)
    BY <1>2, <2>1, <2>3, <2>4, DigitBelow
  <2>6. ((s[1] + x2) + x3) + x4 \in 0..(B * (B * B * B) - 1)
    <3>1. B * (B * B) = B * B * B
      BY <1>2
    <3> QED BY <1>2, <2>1, <2>3, <2>5, <3>1, DigitBelow
  <2>7. FromBytes(s) = s[1] * 1 + x2 + x3 + x4
    BY <1>1, <1>6, <2>3 DEF FromBytes
  <2> QED BY <1>1, <1>3, <1>6, <2>3, <2>6, <2>7
<1> QED BY <1>4, <1>5, <1>6

(* What there is to see of a value, and of nothing. *)
SeenOf(f, v) ==
  IF f.type = "text" THEN CString(SubSeq(v, 1, Min({Len(v), f.len - 1})) \o <<0>>) ELSE v
Nothing(f) == IF f.type = "text" THEN <<>> ELSE 0

LEMMA ZeroIsSigned == 0 \in {v \in Int : Signed(v % Width(4)) = v}
<1>1. 0 \in 0..(Width(4) - 1)
  BY PlaceValues
<1>2. -Width(4) <= 2 * 0 /\ 2 * 0 < Width(4)
  BY PlaceValues
<1> QED BY <1>2, SignedBack

LEMMA CStringType ==
  ASSUME NEW s \in Seq(Bytes)
  PROVE  CString(s) \in Seq(Bytes) \cup {NoZero}
<1> DEFINE zeros == {i \in DOMAIN s : s[i] = 0}
<1>1. CASE zeros = {}
  BY <1>1 DEF CString
<1>2. CASE zeros # {}
  <2>1. DOMAIN s = 1..Len(s) /\ Len(s) \in Nat
    OBVIOUS
  <2>2. zeros \in SUBSET Nat
    BY <2>1
  <2>3. PICK m \in zeros : m = Min(zeros)
    BY <1>2, <2>2, LeastExists
  <2>4. m - 1 \in 0..Len(s)
    BY <2>1, <2>3
  <2>5. SubSeq(s, 1, m - 1) \in Seq(Bytes)
    BY <2>4, PrefixType
  <2>6. CString(s) = SubSeq(s, 1, Min(zeros) - 1)
    BY <1>2 DEF CString
  <2> QED BY <2>3, <2>5, <2>6
<1> QED BY <1>1, <1>2

(* A read takes a member's bytes, or nothing when some of them are missing. *)
LEMMA ReadMemberWithin ==
  ASSUME NEW b, Within(b), NEW f, IsMember(f)
  PROVE  /\ Within(ReadMember(b, f).buf) /\ ReadMember(b, f).buf.data = b.data
         /\ ReadMember(b, f).val \in MemberType(f)
         /\ Short(b, f.len) => ReadMember(b, f).val = Nothing(f)
<1>1. b \in Buffers /\ b.pos \in Nat /\ Len(b.data) \in Nat
  BY DEF Within, Buffers
<1>2. CASE f.type = "text"
  <2>1. ReadMember(b, f) = ReadString(b, f.len) /\ f.len \in Nat /\ f.len > 0
    BY <1>2, MemberLen DEF ReadMember
  <2>2. MemberType(f) = Seq(Bytes) \cup {NoZero} /\ Nothing(f) = <<>>
    BY <1>2 DEF MemberType, Nothing
  <2>3. CASE Short(b, f.len)
    <3>1. ReadMember(b, f) = Got(<<>>, b)
      BY <2>1, <2>3 DEF ReadString
    <3> QED BY <2>2, <3>1 DEF Got
  <2>4. CASE ~Short(b, f.len)
    <3>1. ReadMember(b, f) = Got(CString(Field(b, f.len)), Advance(b, f.len))
      BY <2>1, <2>4 DEF ReadString
    <3>2. Field(b, f.len) \in Seq(Bytes)
      BY <1>1, <2>1, <2>4, FieldType
    <3>3. CString(Field(b, f.len)) \in Seq(Bytes) \cup {NoZero}
      BY <3>2, CStringType
    <3>4. Within(Advance(b, f.len)) /\ Advance(b, f.len).data = b.data
      BY <2>1, <2>4, AdvanceWithin
    <3> QED BY <2>2, <2>4, <3>1, <3>3, <3>4 DEF Got
  <2> QED BY <2>3, <2>4
<1>3. ASSUME NEW n \in {1, 2, 4}
      PROVE  /\ Within(ReadUint(b, n).buf) /\ ReadUint(b, n).buf.data = b.data
             /\ ReadUint(b, n).val \in 0..(Width(n) - 1)
             /\ Short(b, n) => ReadUint(b, n).val = 0
  <2>1. n \in 1..4 /\ Width(n) \in Nat \ {0}
    BY PlaceValues
  <2>2. Within(ReadUint(b, n).buf) /\ ReadUint(b, n).buf.data = b.data
    BY <2>1, ReadUintWithin
  <2>3. CASE Short(b, n)
    BY <2>1, <2>2, <2>3 DEF ReadUint, Got
  <2>4. CASE ~Short(b, n)
    <3>1. Field(b, n) \in Seq(Bytes) /\ Len(Field(b, n)) = n
      BY <1>1, <2>1, <2>4, FieldType
    <3>2. FromBytes(Field(b, n)) \in 0..(Width(n) - 1)
      BY <3>1, FromBytesBelow
    <3> QED BY <2>2, <2>4, <3>2 DEF ReadUint, Got
  <2> QED BY <2>3, <2>4
<1>4. CASE f.type = "uint"
  <2>1. ReadMember(b, f) = ReadUint(b, f.len) /\ f.len \in {1, 2, 4}
    BY <1>4 DEF ReadMember, IsMember
  <2>2. MemberType(f) = 0..(Width(f.len) - 1) /\ Nothing(f) = 0
    BY <1>4 DEF MemberType, Nothing
  <2> QED BY <1>3, <2>1, <2>2
<1>5. CASE f.type = "int"
  <2>1. ReadMember(b, f) = ReadInt(b) /\ f.len = 4
    BY <1>5 DEF ReadMember, IsMember
  <2>2. MemberType(f) = {v \in Int : Signed(v % Width(4)) = v} /\ Nothing(f) = 0
    BY <1>5 DEF MemberType, Nothing
  <2>3. PICK u \in 0..(Width(4) - 1) : u = ReadUint(b, 4).val
    BY <1>3
  <2>4. ReadInt(b) = Got(Signed(u), ReadUint(b, 4).buf)
    BY <2>3 DEF ReadInt
  <2>5. Signed(u) \in MemberType(f)
    BY <2>2, SignedRange
  <2>6. u = 0 => Signed(u) = 0
    BY PlaceValues DEF Signed
  <2> QED BY <1>3, <2>1, <2>2, <2>3, <2>4, <2>5, <2>6 DEF Got
<1> QED BY <1>2, <1>4, <1>5 DEF IsMember

(* A member whose bytes lie at the position is read as it was. *)
LEMMA ReadMemberBack ==
  ASSUME NEW b \in Buffers, NEW f, IsMember(f), NEW v, Fits(f, v),
         LiesAt(InMemory(f, v), b.data, b.pos)
  PROVE  ReadMember(b, f) = Got(SeenOf(f, v), Advance(b, f.len))
<1>1. PICK e \in Seq(Bytes) : e = InMemory(f, v) /\ Len(e) = f.len
  BY InMemoryIs
<1>2. b.pos + f.len <= Len(b.data) /\ \A i \in 1..f.len : b.data[b.pos + i] = e[i]
  BY <1>1 DEF LiesAt
<1>3. CASE f.type = "text"
  <2>1. e = Padded(v, f.len) /\ v \in Seq(Bytes) /\ f.len \in Nat \ {0}
    BY <1>1, <1>3, MemberLen DEF InMemory, Fits
  <2>2. CString(e) = SeenOf(f, v)
    BY <1>3, <2>1, PaddedIs DEF SeenOf
  <2>3. ~Short(b, f.len) /\ Field(b, f.len) = e
    BY <1>1, <1>2, FieldIs
  <2> QED BY <1>3, <2>1, <2>2, <2>3 DEF ReadMember, ReadString
<1>4. CASE f.type = "uint"
  <2>1. e = LittleEndian(v, f.len) /\ v \in 0..(Width(f.len) - 1) /\ f.len \in {1, 2, 4}
    BY <1>1, <1>4 DEF InMemory, Fits, IsMember
  <2>2. ReadUint(b, f.len) = Got(v, Advance(b, f.len))
    BY <1>2, <2>1, UintBack
  <2> QED BY <1>4, <2>2 DEF ReadMember, SeenOf
<1>5. CASE f.type = "int"
  <2>1. v \in Int /\ Signed(v % Width(4)) = v
    BY <1>5 DEF Fits
  <2>2. PICK u \in 0..(Width(4) - 1) : u = v % Width(4) /\ Signed(u) = v
    BY <2>1, IntFits
  <2>3. e = LittleEndian(u, 4) /\ f.len = 4
    BY <1>1, <1>5, <2>2 DEF InMemory, IsMember
  <2>4. ReadUint(b, 4) = Got(u, Advance(b, 4))
    BY <1>2, <2>3, UintBack
  <2>5. ReadInt(b) = Got(v, Advance(b, 4))
    BY <2>2, <2>4 DEF ReadInt, Got
  <2> QED BY <1>5, <2>3, <2>5 DEF ReadMember, SeenOf
<1> QED BY <1>3, <1>4, <1>5 DEF IsMember

(* The reads of a struct's members, one after the other. *)
Reading(k, b, r) ==
  r[0].buf = b /\ \A i \in 1..Len(Struct[k]) : r[i] = ReadMember(r[i - 1].buf, Struct[k][i])
Reads(k, b, res) ==
  \E r : /\ Reading(k, b, r)
         /\ res.buf = r[Len(Struct[k])].buf
         /\ DOMAIN res.val = Names(k)
         /\ \A i \in 1..Len(Struct[k]) : res.val[Struct[k][i].name] = r[i].val

LEMMA NamesAre ==
  ASSUME NEW k \in Kinds
  PROVE  /\ Members(k) = {Struct[k][i] : i \in 1..Len(Struct[k])}
         /\ Names(k) = {Struct[k][i].name : i \in 1..Len(Struct[k])}
         /\ \A i \in 1..Len(Struct[k]) :
              /\ Struct[k][i] \in Members(k) /\ Struct[k][i].name \in Names(k)
              /\ Index(k, Struct[k][i].name) = i /\ Member(k, Struct[k][i].name) = Struct[k][i]
<1>1. DOMAIN Struct[k] = 1..Len(Struct[k])
  BY StructShape DEF Shape
<1>2. Members(k) = {Struct[k][i] : i \in 1..Len(Struct[k])}
  BY <1>1 DEF Members, Range
<1>3. Names(k) = {Struct[k][i].name : i \in 1..Len(Struct[k])}
  BY <1>2 DEF Names
<1>4. ASSUME NEW i \in 1..Len(Struct[k]) PROVE Index(k, Struct[k][i].name) = i
  <2>1. \A j \in 1..Len(Struct[k]) : Struct[k][j].name = Struct[k][i].name => j = i
    BY StructShape DEF Shape
  <2> QED BY <1>1, <2>1 DEF Index
<1> QED BY <1>2, <1>3, <1>4 DEF Member

LEMMA ReadMemberShape ==
  ASSUME NEW b, NEW f, IsMember(f)
  PROVE  \E v, c : ReadMember(b, f) = Got(v, c)
<1>1. CASE f.type = "text"
  <2>1. f.len > 0 /\ ReadMember(b, f) = ReadString(b, f.len)
    BY <1>1, MemberLen DEF ReadMember
  <2> QED BY <2>1 DEF ReadString
<1>2. CASE f.type = "uint"
  BY <1>2 DEF ReadMember, ReadUint
<1>3. CASE f.type = "int"
  BY <1>3 DEF ReadMember, ReadInt
<1> QED BY <1>1, <1>2, <1>3 DEF IsMember

IsReads(k, b, r) ==
  r = [i \in 0..Len(Struct[k]) |->
         IF i = 0 THEN Got(0, b) ELSE ReadMember(r[i - 1].buf, Struct[k][i])]

LEMMA ReadsSolve ==
  ASSUME NEW k, NEW b, NEW r, IsReads(k, b, r)
  PROVE  \E q : /\ IsReads(k, b, q)
                /\ ReadRaw(k, b) = Got([name \in Names(k) |-> q[Index(k, name)].val],
                                       q[Len(Struct[k])].buf)
<1> DEFINE q == CHOOSE x : IsReads(k, b, x)
<1>1. IsReads(k, b, q)
  OBVIOUS
<1>2. ReadRaw(k, b) = Got([name \in Names(k) |-> q[Index(k, name)].val], q[Len(Struct[k])].buf)
  BY DEF ReadRaw, IsReads
<1> HIDE DEF q
<1> QED BY <1>1, <1>2

LEMMA RawReads ==
  ASSUME NEW k \in Kinds, NEW b, Within(b)
  PROVE  Reads(k, b, ReadRaw(k, b))
<1>1. PICK n \in Nat : n = Len(Struct[k])
  BY StructShape DEF Shape
<1>2. \A i \in 1..n : IsMember(Struct[k][i])
  BY <1>1, StructShape DEF Shape
<1> DEFINE V == (Seq(Bytes) \cup {NoZero}) \cup Int
           C == {c \in Buffers : Within(c)}
           S == [val : V, buf : C]
<1>3. ASSUME NEW i \in 1..n, NEW c \in C PROVE ReadMember(c, Struct[k][i]) \in S
  <2> DEFINE f == Struct[k][i]
  <2>1. IsMember(f) /\ Within(c)
    BY <1>2
  <2> HIDE DEF f
  <2>2. Within(ReadMember(c, f).buf) /\ ReadMember(c, f).val \in MemberType(f)
    BY <2>1, ReadMemberWithin
  <2>3. ReadMember(c, f).val \in V
    <3>1. CASE f.type = "text"
      BY <2>2, <3>1 DEF MemberType
    <3>2. CASE f.type = "uint"
      <4>1. ReadMember(c, f).val \in 0..(Width(f.len) - 1)
        BY <2>2, <3>2 DEF MemberType
      <4> QED BY <4>1
    <3>3. CASE f.type = "int"
      BY <2>2, <3>3 DEF MemberType
    <3> QED BY <2>1, <3>1, <3>2, <3>3 DEF IsMember
  <2>4. ReadMember(c, f).buf \in C
    BY <2>2 DEF Within
  <2>5. PICK v, d : ReadMember(c, f) = Got(v, d)
    BY <2>1, ReadMemberShape
  <2> HIDE DEF V, C
  <2>6. ReadMember(c, f) \in S
    BY <2>3, <2>4, <2>5 DEF Got
  <2> QED BY <2>6 DEF f
<1> HIDE DEF C, V
<1>4. PICK step \in [1..n -> [S -> S]] :
        step = [i \in 1..n |-> [x \in S |-> ReadMember(x.buf, Struct[k][i])]]
  <2>1. \A i \in 1..n : [x \in S |-> ReadMember(x.buf, Struct[k][i])] \in [S -> S]
    BY <1>3
  <2> HIDE DEF S
  <2> QED BY <2>1, Zenon
<1>5. Got(0, b) \in S
  BY DEF Got, C, V, Within
<1>6. PICK r : r \in [0..n -> S] /\ r[0] = Got(0, b) /\ \A i \in 1..n : r[i] = step[i][r[i - 1]]
  <2> HIDE DEF S
  <2>1. Iterable(n, S, Got(0, b), step)
    BY <1>5 DEF Iterable
  <2>2. PICK r : Iterates(n, S, Got(0, b), step, r)
    BY <2>1, IterationExists
  <2> QED BY <2>2 DEF Iterates
<1>7. ASSUME NEW i \in 1..n PROVE r[i] = ReadMember(r[i - 1].buf, Struct[k][i])
  <2>1. r[i - 1] \in S /\ r[i] = step[i][r[i - 1]]
    <3>1. i - 1 \in 0..n
      OBVIOUS
    <3> HIDE DEF S
    <3> QED BY <1>6, <3>1
  <2> HIDE DEF S
  <2> QED BY <1>4, <2>1
<1>8. IsReads(k, b, r)
  <2>1. r = [i \in 0..n |-> r[i]]
    BY <1>6
  <2>2. ASSUME NEW i \in 0..n
        PROVE  r[i] = IF i = 0 THEN Got(0, b) ELSE ReadMember(r[i - 1].buf, Struct[k][i])
    BY <1>6, <1>7
  <2> QED BY <1>1, <2>1, <2>2 DEF IsReads
<1>9. PICK q : /\ IsReads(k, b, q)
               /\ ReadRaw(k, b) = Got([name \in Names(k) |-> q[Index(k, name)].val], q[n].buf)
  BY <1>1, <1>8, ReadsSolve
<1>10. \A i \in 0..n : q[i] = IF i = 0 THEN Got(0, b) ELSE ReadMember(q[i - 1].buf, Struct[k][i])
  BY <1>1, <1>9 DEF IsReads
<1>11. Reading(k, b, q)
  <2>1. q[0].buf = b
    BY <1>10 DEF Got
  <2>2. ASSUME NEW i \in 1..n PROVE q[i] = ReadMember(q[i - 1].buf, Struct[k][i])
    <3>1. i \in 0..n /\ i # 0
      OBVIOUS
    <3> QED BY <1>10, <3>1
  <2> QED BY <1>1, <2>1, <2>2 DEF Reading
<1>12. DOMAIN ReadRaw(k, b).val = Names(k) /\ ReadRaw(k, b).buf = q[n].buf
  BY <1>9 DEF Got
<1>13. ASSUME NEW i \in 1..n PROVE ReadRaw(k, b).val[Struct[k][i].name] = q[i].val
  BY <1>1, <1>9, NamesAre DEF Got
<1> QED BY <1>1, <1>11, <1>12, <1>13 DEF Reads

LEMMA DeserializeReads ==
  ASSUME NEW b
  PROVE  Reads("Chat", b, DeserializeFrom(b))
<1>1. Struct["Chat"] = ChatPacket /\ "Chat" \in Kinds /\ Len(ChatPacket) = 5
  BY ChatIs DEF Struct, Kinds
<1> DEFINE r1 == ReadUint(b, 1)
           r2 == ReadUint(r1.buf, 2)
           r3 == ReadUint(r2.buf, 1)
           r4 == ReadUint(r3.buf, 4)
           r5 == ReadString(r4.buf, 256)
           res == DeserializeFrom(b)
           r == [i \in 0..5 |-> CASE i = 0 -> Got(0, b) [] i = 1 -> r1 [] i = 2 -> r2
                                   [] i = 3 -> r3 [] i = 4 -> r4 [] i = 5 -> r5]
<1>2. /\ res.val.headerId = r1.val /\ res.val.headerSize = r2.val /\ res.val.type = r3.val
      /\ res.val.senderId = r4.val /\ res.val.message = r5.val /\ res.buf = r5.buf
      /\ DOMAIN res.val = {"headerId", "headerSize", "type", "senderId", "message"}
  BY DEF DeserializeFrom, Got
<1>3. /\ r1 = ReadMember(b, ChatPacket[1]) /\ r2 = ReadMember(r1.buf, ChatPacket[2])
      /\ r3 = ReadMember(r2.buf, ChatPacket[3]) /\ r4 = ReadMember(r3.buf, ChatPacket[4])
      /\ r5 = ReadMember(r4.buf, ChatPacket[5])
  BY ChatIs DEF ReadMember, Unsigned, Chars
<1> HIDE DEF r1, r2, r3, r4, r5, res
<1>4. r[0] = Got(0, b) /\ r[1] = r1 /\ r[2] = r2 /\ r[3] = r3 /\ r[4] = r4 /\ r[5] = r5
  OBVIOUS
<1> HIDE DEF r
<1>5. r[0].buf = b
  BY <1>4 DEF Got
<1>6. /\ ChatPacket[1].name = "headerId" /\ ChatPacket[2].name = "headerSize"
      /\ ChatPacket[3].name = "type" /\ ChatPacket[4].name = "senderId"
      /\ ChatPacket[5].name = "message"
  BY ChatIs DEF Unsigned, Chars
<1>7. ASSUME NEW i \in 1..5
      PROVE  r[i] = ReadMember(r[i - 1].buf, ChatPacket[i]) /\ res.val[ChatPacket[i].name] = r[i].val
  <2>1. /\ r[1] = ReadMember(r[0].buf, ChatPacket[1]) /\ r[2] = ReadMember(r[1].buf, ChatPacket[2])
        /\ r[3] = ReadMember(r[2].buf, ChatPacket[3]) /\ r[4] = ReadMember(r[3].buf, ChatPacket[4])
        /\ r[5] = ReadMember(r[4].buf, ChatPacket[5])
    BY <1>3, <1>4, <1>5, Zenon
  <2>2. /\ res.val[ChatPacket[1].name] = r[1].val /\ res.val[ChatPacket[2].name] = r[2].val
        /\ res.val[ChatPacket[3].name] = r[3].val /\ res.val[ChatPacket[4].name] = r[4].val
        /\ res.val[ChatPacket[5].name] = r[5].val
    <3>1. /\ res.val["headerId"] = r1.val /\ res.val["headerSize"] = r2.val
          /\ res.val["type"] = r3.val /\ res.val["senderId"] = r4.val
          /\ res.val["message"] = r5.val
      BY <1>2
    <3> QED BY <1>4, <1>6, <3>1, Zenon
  <2>3. /\ i = 1 \/ i = 2 \/ i = 3 \/ i = 4 \/ i = 5
        /\ 1 - 1 = 0 /\ 2 - 1 = 1 /\ 3 - 1 = 2 /\ 4 - 1 = 3 /\ 5 - 1 = 4
    OBVIOUS
  <2>4. r[i] = ReadMember(r[i - 1].buf, ChatPacket[i])
    BY <2>1, <2>3, Zenon
  <2>5. res.val[ChatPacket[i].name] = r[i].val
    BY <2>2, <2>3, Zenon
  <2> QED BY <2>4, <2>5
<1>8. Names("Chat") = {"headerId", "headerSize", "type", "senderId", "message"}
  <2>1. Names("Chat") = {ChatPacket[i].name : i \in 1..5}
    <3>1. Names("Chat") = {Struct["Chat"][i].name : i \in 1..Len(Struct["Chat"])}
      BY <1>1, NamesAre
    <3> QED BY <1>1, <3>1
  <2>2. \A i \in 1..5 : i = 1 \/ i = 2 \/ i = 3 \/ i = 4 \/ i = 5
    OBVIOUS
  <2>3. \A i \in 1..5 : ChatPacket[i].name \in {"headerId", "headerSize", "type", "senderId", "message"}
    BY <1>6, <2>2
  <2>4. 1 \in 1..5 /\ 2 \in 1..5 /\ 3 \in 1..5 /\ 4 \in 1..5 /\ 5 \in 1..5
    OBVIOUS
  <2> QED BY <1>6, <2>1, <2>3, <2>4
<1>9. Reading("Chat", b, r)
  BY <1>1, <1>5, <1>7 DEF Reading
<1>10. res.buf = r[5].buf /\ DOMAIN res.val = Names("Chat")
  BY <1>2, <1>4, <1>8
<1>11. Reads("Chat", b, res)
  BY <1>1, <1>7, <1>9, <1>10 DEF Reads
<1> QED BY <1>11 DEF res

(* Every read stays in the bytes, has its type, and is zero when bytes are *)
(* missing.                                                                *)
LEMMA ReadingWithin ==
  ASSUME NEW k \in Kinds, NEW b, Within(b), NEW r, Reading(k, b, r)
  PROVE  /\ \A i \in 0..Len(Struct[k]) : Within(r[i].buf) /\ r[i].buf.data = b.data
         /\ \A i \in 1..Len(Struct[k]) :
              /\ r[i].val \in MemberType(Struct[k][i])
              /\ Short(r[i - 1].buf, Struct[k][i].len) => r[i].val = Nothing(Struct[k][i])
<1>1. PICK n \in Nat : n = Len(Struct[k])
  BY StructShape DEF Shape
<1>2. \A i \in 1..n : IsMember(Struct[k][i])
  BY <1>1, StructShape DEF Shape
<1>3. r[0].buf = b /\ \A i \in 1..n : r[i] = ReadMember(r[i - 1].buf, Struct[k][i])
  BY <1>1 DEF Reading
<1> DEFINE Good(i) == Within(r[i].buf) /\ r[i].buf.data = b.data
           T == {i \in 0..n : Good(i)}
<1>4. \A i \in 0..n : i \in T
  <2>1. 0 \in T
    BY <1>3
  <2>2. ASSUME NEW i \in 1..n, i - 1 \in T PROVE i \in T
    <3>1. Good(i - 1) /\ IsMember(Struct[k][i]) /\ r[i] = ReadMember(r[i - 1].buf, Struct[k][i])
      BY <1>2, <1>3, <2>2
    <3>2. Good(i)
      BY <3>1, ReadMemberWithin
    <3> HIDE DEF Good
    <3> QED BY <3>2
  <2> HIDE DEF T
  <2> QED BY <2>1, <2>2, Induct
<1>5. ASSUME NEW i \in 1..n
      PROVE  /\ r[i].val \in MemberType(Struct[k][i])
             /\ Short(r[i - 1].buf, Struct[k][i].len) => r[i].val = Nothing(Struct[k][i])
  <2>1. i - 1 \in 0..n
    OBVIOUS
  <2>2. Within(r[i - 1].buf)
    BY <1>4, <2>1
  <2> QED BY <1>2, <1>3, <2>2, ReadMemberWithin
<1> QED BY <1>1, <1>4, <1>5

(* The members whose bytes are all there lie where they were put. *)
Arrived(k, p, data) ==
  \A i \in 1..Len(Struct[k]) :
    End(k)[i] <= Len(data) => LiesAt(Bits(k, p, i), data, End(k)[i - 1])

(* They are read as they were, up to the first that is not all there.      *)
LEMMA ReadingBack ==
  ASSUME NEW k \in Kinds, NEW p, AllFit(k, p), NEW b, Within(b), b.pos = 0,
         Arrived(k, p, b.data), NEW r, Reading(k, b, r)
  PROVE  /\ \A i \in 0..Len(Struct[k]) : End(k)[i] <= Len(b.data) => r[i].buf.pos = End(k)[i]
         /\ \A i \in 1..Len(Struct[k]) :
              End(k)[i] <= Len(b.data) => r[i].val = SeenOf(Struct[k][i], p[Struct[k][i].name])
<1>1. PICK n \in Nat : n = Len(Struct[k])
  BY StructShape DEF Shape
<1>2. PICK e \in [0..n -> Nat] :
        e = End(k) /\ e[0] = 0 /\ \A i \in 1..n : e[i] = e[i - 1] + Struct[k][i].len
  BY <1>1, EndIs
<1>3. r[0].buf = b /\ \A i \in 1..n : r[i] = ReadMember(r[i - 1].buf, Struct[k][i])
  BY <1>1 DEF Reading
<1>4. PICK l \in Nat : l = Len(b.data)
  BY DEF Within, Buffers
<1> DEFINE Good(i) == e[i] <= l => r[i].buf.pos = e[i]
           T == {i \in 0..n : Good(i)}
<1>5. ASSUME NEW i \in 1..n, Good(i - 1), e[i] <= l
      PROVE  /\ r[i].buf.pos = e[i]
             /\ r[i].val = SeenOf(Struct[k][i], p[Struct[k][i].name])
  <2> DEFINE f == Struct[k][i]
             c == r[i - 1].buf
             v == p[f.name]
  <2>1. IsMember(f) /\ Fits(f, v) /\ f.len \in Nat
    BY <1>1, StructShape, MemberLen DEF Shape, AllFit
  <2>2. i - 1 \in 0..n /\ e[i - 1] \in Nat /\ e[i] = e[i - 1] + f.len
    BY <1>2
  <2>3. e[i - 1] <= l
    <3> HIDE DEF f
    <3>1. PICK x \in Nat, y \in Nat : x = e[i - 1] /\ y = f.len
      BY <2>1, <2>2
    <3>2. x + y <= l
      BY <1>5, <2>2, <3>1
    <3> QED BY <3>1, <3>2
  <2>4. c.pos = e[i - 1]
    BY <1>5, <2>3
  <2>5. c \in Buffers /\ c.data = b.data
    <3>1. Within(c) /\ c.data = b.data
      BY <1>1, <2>2, ReadingWithin
    <3> QED BY <3>1 DEF Within
  <2>6. LiesAt(InMemory(f, v), c.data, c.pos)
    BY <1>1, <1>2, <1>4, <1>5, <2>4, <2>5 DEF Arrived, Bits
  <2>7. r[i] = ReadMember(c, f)
    BY <1>3
  <2> HIDE DEF f, c, v
  <2>8. r[i] = Got(SeenOf(f, v), Advance(c, f.len))
    BY <2>1, <2>5, <2>6, <2>7, ReadMemberBack
  <2>9. Advance(c, f.len).pos = c.pos + f.len
    BY <2>1, <2>5, AdvanceType
  <2>10. r[i].buf.pos = e[i] /\ r[i].val = SeenOf(f, v)
    BY <2>2, <2>4, <2>8, <2>9 DEF Got
  <2> QED BY <2>10 DEF f, v
<1>6. \A i \in 0..n : i \in T
  <2>1. 0 \in T
    BY <1>2, <1>3
  <2>2. ASSUME NEW i \in 1..n, i - 1 \in T PROVE i \in T
    <3>1. Good(i)
      BY <1>5, <2>2
    <3> HIDE DEF Good
    <3> QED BY <3>1
  <2> HIDE DEF T
  <2> QED BY <2>1, <2>2, Induct
<1>7. \A i \in 0..n : Good(i)
  <2> HIDE DEF Good
  <2> QED BY <1>6
<1>8. ASSUME NEW i \in 1..n, e[i] <= l
      PROVE  r[i].val = SeenOf(Struct[k][i], p[Struct[k][i].name])
  <2>1. i - 1 \in 0..n
    OBVIOUS
  <2>2. Good(i - 1)
    <3> HIDE DEF Good
    <3> QED BY <1>7, <2>1
  <2> HIDE DEF Good
  <2> QED BY <1>5, <1>8, <2>2
<1> QED BY <1>1, <1>2, <1>4, <1>7, <1>8

---------------------------------------------------------------------------
(* What the senders make. *)
LEMMA IdsAre ==
  /\ HeaderId["Login"] = 1 /\ HeaderId["Move"] = 3 /\ HeaderId["CharacterInfo"] = 103
  /\ HeaderId["Chat"] = 0 /\ ChatIds = {5, 107}
  /\ Kinds = {"Login", "Move", "CharacterInfo", "Chat"} /\ Raw = {"Login", "Move", "CharacterInfo"}
<1>1. ClientPackets.LOGIN = 1 /\ ClientPackets.MOVE = 3 /\ ClientPackets.CHAT = 5
  BY DEF ClientPackets
<1>2. ServerPackets.CHARACTER_INFO = 103 /\ ServerPackets.CHAT = 107
  BY DEF ServerPackets
<1>3. Kinds = {"Login", "Move", "CharacterInfo", "Chat"}
  BY DEF Kinds, Struct
<1> QED BY <1>1, <1>2, <1>3 DEF HeaderId, ChatIds, Raw

(* The size of a packed struct fits its header. *)
LEMMA RawLens ==
  ASSUME NEW k \in Raw
  PROVE  Len(Struct[k]) <= 17 /\ \A i \in 1..Len(Struct[k]) : Struct[k][i].len <= 25
<1>1. /\ Struct["Login"] = LoginPacket /\ Struct["Move"] = MovePacket
      /\ Struct["CharacterInfo"] = CharacterInfoPacket
  BY DEF Struct
<1>2. CASE k = "Login"
  <2>1. \A i \in 1..4 : LoginPacket[i].len <= 25
    BY LoginIs DEF Unsigned, Signed32, Chars
  <2>2. Len(Struct[k]) = 4 /\ Struct[k] = LoginPacket
    BY <1>1, <1>2, LoginIs
  <2>3. 4 <= 17
    OBVIOUS
  <2>4. Len(Struct[k]) <= 17
    BY <2>2, <2>3, Zenon
  <2>5. \A i \in 1..Len(Struct[k]) : Struct[k][i].len <= 25
    BY <2>1, <2>2, Zenon
  <2> QED BY <2>4, <2>5
<1>3. CASE k = "Move"
  <2>1. \A i \in 1..5 : MovePacket[i].len <= 25
    BY MoveIs DEF Unsigned, Signed32, Chars
  <2>2. Len(Struct[k]) = 5 /\ Struct[k] = MovePacket
    BY <1>1, <1>3, MoveIs
  <2>3. 5 <= 17
    OBVIOUS
  <2>4. Len(Struct[k]) <= 17
    BY <2>2, <2>3, Zenon
  <2>5. \A i \in 1..Len(Struct[k]) : Struct[k][i].len <= 25
    BY <2>1, <2>2, Zenon
  <2> QED BY <2>4, <2>5
<1>4. CASE k = "CharacterInfo"
  <2>1. \A i \in 1..17 : CharacterInfoPacket[i].len <= 25
    BY CharacterInfoIs DEF Unsigned, Signed32, Chars
  <2>2. Len(Struct[k]) = 17 /\ Struct[k] = CharacterInfoPacket
    BY <1>1, <1>4, CharacterInfoIs
  <2>3. 17 <= 17
    OBVIOUS
  <2>4. Len(Struct[k]) <= 17
    BY <2>2, <2>3, Zenon
  <2>5. \A i \in 1..Len(Struct[k]) : Struct[k][i].len <= 25
    BY <2>1, <2>2, Zenon
  <2> QED BY <2>4, <2>5
<1> QED BY <1>2, <1>3, <1>4, IdsAre

LEMMA RawEnd ==
  ASSUME NEW k \in Raw
  PROVE  End(k)[Len(Struct[k])] \in 0..(Width(2) - 1)
<1>1. k \in Kinds
  BY IdsAre
<1>2. PICK n \in Nat : n = Len(Struct[k]) /\ n <= 17
  BY <1>1, StructShape, RawLens DEF Shape
<1>3. PICK e \in [0..n -> Nat] :
        e = End(k) /\ e[0] = 0 /\ \A i \in 1..n : e[i] = e[i - 1] + Struct[k][i].len
  BY <1>1, <1>2, EndIs
<1> DEFINE T == {i \in 0..n : e[i] <= 25 * i}
<1>4. \A i \in 0..n : i \in T
  <2>1. 0 \in T
    BY <1>3
  <2>2. ASSUME NEW i \in 1..n, i - 1 \in T PROVE i \in T
    <3>1. i - 1 \in 0..n /\ Struct[k][i].len <= 25
      BY <1>2, RawLens
    <3>2. Struct[k][i].len \in Nat
      BY <1>1, <1>2, StructShape, MemberLen DEF Shape
    <3>3. PICK x \in Nat, y \in Nat : x = e[i - 1] /\ y = Struct[k][i].len /\ y <= 25
      BY <3>1, <3>2
    <3>4. x <= 25 * (i - 1) /\ e[i] = x + y
      BY <1>3, <2>2, <3>3
    <3>5. e[i] <= 25 * i
      BY <3>3, <3>4
    <3> QED BY <3>5
  <2> HIDE DEF T
  <2> QED BY <2>1, <2>2, Induct
<1>5. e[n] <= 25 * n /\ e[n] \in Nat
  BY <1>4
<1>6. Width(2) >= 115 * 115
  <2>1. PICK c \in Nat : B = 115 + c
    <3>1. B - 115 \in Nat
      BY PacketsAssumption, WireAssumption
    <3> QED BY <3>1, WireAssumption
  <2>2. B * B = 115 * 115 + 2 * 115 * c + c * c /\ c * c \in Nat
    BY <2>1
  <2> QED BY <2>1, <2>2, PlaceValues
<1>7. Width(2) \in Nat
  BY PlaceValues
<1> QED BY <1>2, <1>3, <1>5, <1>6, <1>7

(* Only header.id and header.size of the numbers in a struct have values   *)
(* of their own, and its texts are all zero.                               *)
LEMMA TextsZeroed ==
  ASSUME NEW k \in Kinds, NEW i \in 1..Len(Struct[k]), Struct[k][i].type = "text"
  PROVE  Struct[k][i].name \in Zeroed[k]
<1>1. /\ Struct["Login"] = LoginPacket /\ Struct["Move"] = MovePacket
      /\ Struct["CharacterInfo"] = CharacterInfoPacket /\ Struct["Chat"] = ChatPacket
  BY DEF Struct
<1>2. CASE k = "Login"
  BY <1>1, <1>2, LoginIs DEF Unsigned, Signed32, Chars, Zeroed
<1>3. CASE k = "Move"
  BY <1>1, <1>3, MoveIs DEF Unsigned, Signed32, Chars, Zeroed
<1>4. CASE k = "CharacterInfo"
  <2>1. \A j \in 1..17 : CharacterInfoPacket[j].type = "text" => CharacterInfoPacket[j].name = "name"
    <3>1. /\ CharacterInfoPacket[1].type # "text" /\ CharacterInfoPacket[2].type # "text"
          /\ CharacterInfoPacket[3].type # "text" /\ CharacterInfoPacket[5].type # "text"
          /\ CharacterInfoPacket[6].type # "text" /\ CharacterInfoPacket[7].type # "text"
          /\ CharacterInfoPacket[8].type # "text" /\ CharacterInfoPacket[9].type # "text"
          /\ CharacterInfoPacket[10].type # "text" /\ CharacterInfoPacket[11].type # "text"
          /\ CharacterInfoPacket[12].type # "text" /\ CharacterInfoPacket[13].type # "text"
          /\ CharacterInfoPacket[14].type # "text" /\ CharacterInfoPacket[15].type # "text"
          /\ CharacterInfoPacket[16].type # "text" /\ CharacterInfoPacket[17].type # "text"
      BY CharacterInfoIs DEF Unsigned, Signed32
    <3>3. ASSUME NEW j \in 1..17, CharacterInfoPacket[j].type = "text" PROVE j = 4
      <4>1. \/ j = 1 \/ j = 2 \/ j = 3 \/ j = 4 \/ j = 5 \/ j = 6 \/ j = 7 \/ j = 8 \/ j = 9
            \/ j = 10 \/ j = 11 \/ j = 12 \/ j = 13 \/ j = 14 \/ j = 15 \/ j = 16 \/ j = 17
        OBVIOUS
      <4> QED BY <3>1, <3>3, <4>1, Zenon
    <3>2. CharacterInfoPacket[4].name = "name"
      BY CharacterInfoIs DEF Chars
    <3> QED BY <3>2, <3>3
  <2>2. Len(CharacterInfoPacket) = 17
    BY CharacterInfoIs
  <2> QED BY <1>1, <1>4, <2>1, <2>2 DEF Zeroed
<1>5. CASE k = "Chat"
  BY <1>1, <1>5, ChatIs DEF Unsigned, Signed32, Chars, Zeroed
<1> QED BY <1>2, <1>3, <1>4, <1>5, IdsAre

LEMMA ZeroFits ==
  ASSUME NEW f, IsMember(f)
  PROVE  Fits(f, Zero(f))
<1>1. CASE f.type = "text"
  BY <1>1 DEF Fits, Zero
<1>2. CASE f.type = "uint"
  <2>1. 0 \in 0..(Width(f.len) - 1)
    <3>1. f.len \in 1..4
      BY <1>2 DEF IsMember
    <3> QED BY <3>1, PlaceValues
  <2> QED BY <1>2, <2>1 DEF Fits, Zero
<1>3. CASE f.type = "int"
  BY <1>3, ZeroIsSigned DEF Fits, Zero
<1> QED BY <1>1, <1>2, <1>3 DEF IsMember

LEMMA UnsetFits ==
  ASSUME NEW f, IsMember(f), f.type # "text", NEW byte \in Bytes
  PROVE  Fits(f, Unset(f, byte))
<1>1. f.len \in {1, 2, 4} /\ f.len \in Nat
  BY MemberLen DEF IsMember
<1>2. [i \in 1..f.len |-> byte] \in Seq(Bytes) /\ Len([i \in 1..f.len |-> byte]) = f.len
  BY <1>1
<1>3. PICK u \in 0..(Width(f.len) - 1) : u = FromBytes([i \in 1..f.len |-> byte])
  BY <1>1, <1>2, FromBytesBelow
<1>4. CASE f.type = "uint"
  BY <1>3, <1>4 DEF Fits, Unset
<1>5. CASE f.type = "int"
  <2>1. f.len = 4
    BY <1>5 DEF IsMember
  <2>2. Signed(u) \in Int /\ Signed(Signed(u) % Width(4)) = Signed(u)
    BY <1>3, <2>1, SignedRange
  <2> QED BY <1>3, <1>5, <2>2 DEF Fits, Unset
<1> QED BY <1>4, <1>5 DEF IsMember

LEMMA SizeFits ==
  ASSUME NEW k \in Raw
  PROVE  SizeOf(k) \in 0..(Width(2) - 1)
<1>1. k \in Kinds
  BY IdsAre
<1> DEFINE zeros == [name \in Names(k) |-> Zero(Member(k, name))]
<1>2. AllFit(k, zeros)
  <2>1. ASSUME NEW i \in 1..Len(Struct[k]) PROVE Fits(Struct[k][i], zeros[Struct[k][i].name])
    <3>1. zeros[Struct[k][i].name] = Zero(Struct[k][i])
      BY <1>1, NamesAre
    <3>2. IsMember(Struct[k][i])
      BY <1>1, StructShape DEF Shape
    <3> QED BY <3>1, <3>2, ZeroFits
  <2> QED BY <2>1 DEF AllFit
<1>3. Laid(k, zeros, Memory(k, zeros))
  BY <1>1, <1>2, MemoryIs
<1> QED BY <1>3, RawEnd DEF SizeOf, Laid

LEMMA ConstructedFits ==
  ASSUME NEW k \in Kinds, NEW byte \in Leftover
  PROVE  /\ DOMAIN Constructed(k, byte) = Names(k) /\ AllFit(k, Constructed(k, byte))
         /\ Constructed(k, byte).headerId = HeaderId[k]
<1> DEFINE p == Constructed(k, byte)
<1>1. DOMAIN p = Names(k)
  BY DEF Constructed
<1>2. byte \in Bytes
  BY PacketsAssumption
<1>3. ASSUME NEW i \in 1..Len(Struct[k])
      PROVE  p[Struct[k][i].name] =
               CASE Struct[k][i].name = "headerId" -> HeaderId[k]
                 [] Struct[k][i].name \in Zeroed[k] -> Zero(Struct[k][i])
                 [] Struct[k][i].name = "headerSize" /\ k # "Chat" -> SizeOf(k)
                 [] OTHER -> Unset(Struct[k][i], byte)
  BY NamesAre DEF Constructed
<1>4. /\ "headerId" \notin Zeroed[k] /\ (k # "Chat" => "headerSize" \notin Zeroed[k])
      /\ HeaderId[k] \in 0..(Width(1) - 1)
  <2>1. HeaderId[k] \in 0..103
    BY IdsAre
  <2>2. 103 < Width(1) /\ Width(1) \in Nat
    BY PacketsAssumption, WireAssumption, PlaceValues
  <2>3. HeaderId[k] \in 0..(Width(1) - 1)
    BY <2>1, <2>2
  <2>4. "headerId" \notin Zeroed[k] /\ (k # "Chat" => "headerSize" \notin Zeroed[k])
    BY IdsAre DEF Zeroed
  <2> QED BY <2>3, <2>4
<1>5. /\ Struct[k][1] = Unsigned("headerId", 1) /\ Struct[k][2] = Unsigned("headerSize", 2)
      /\ 1 \in 1..Len(Struct[k]) /\ 2 \in 1..Len(Struct[k])
      /\ \A i, j \in 1..Len(Struct[k]) : Struct[k][i].name = Struct[k][j].name => i = j
      /\ \A i \in 1..Len(Struct[k]) : IsMember(Struct[k][i])
  BY StructShape DEF Shape
<1>6. p.headerId = HeaderId[k]
  <2>1. Struct[k][1].name = "headerId"
    BY <1>5 DEF Unsigned
  <2> HIDE DEF p
  <2> QED BY <1>3, <1>4, <1>5, <2>1
<1>7. ASSUME NEW i \in 1..Len(Struct[k]) PROVE Fits(Struct[k][i], p[Struct[k][i].name])
  <2> DEFINE f == Struct[k][i]
  <2>1. IsMember(f) /\ p[f.name] = CASE f.name = "headerId" -> HeaderId[k]
                                     [] f.name \in Zeroed[k] -> Zero(f)
                                     [] f.name = "headerSize" /\ k # "Chat" -> SizeOf(k)
                                     [] OTHER -> Unset(f, byte)
    BY <1>3, <1>5
  <2>2. f.name = "headerId" => f = Unsigned("headerId", 1)
    BY <1>5 DEF Unsigned
  <2>3. f.name = "headerSize" => f = Unsigned("headerSize", 2)
    BY <1>5 DEF Unsigned
  <2>4. f.type = "text" => f.name \in Zeroed[k]
    BY TextsZeroed
  <2> HIDE DEF f, p
  <2>5. ASSUME f.name = "headerId" PROVE Fits(f, p[f.name])
    <3>1. p[f.name] = HeaderId[k] /\ f = Unsigned("headerId", 1)
      BY <1>4, <2>1, <2>2, <2>5
    <3> QED BY <1>4, <3>1 DEF Fits, Unsigned
  <2>6. ASSUME f.name \in Zeroed[k] PROVE Fits(f, p[f.name])
    <3>1. p[f.name] = Zero(f)
      BY <1>4, <2>1, <2>6
    <3> QED BY <2>1, <3>1, ZeroFits
  <2>7. ASSUME f.name = "headerSize" /\ k # "Chat" PROVE Fits(f, p[f.name])
    <3>1. p[f.name] = SizeOf(k) /\ f = Unsigned("headerSize", 2)
      BY <1>4, <2>1, <2>3, <2>7
    <3>2. k \in Raw
      BY <2>7 DEF Raw
    <3> QED BY <3>1, <3>2, SizeFits DEF Fits, Unsigned
  <2>8. ASSUME f.name # "headerId", f.name \notin Zeroed[k],
               ~(f.name = "headerSize" /\ k # "Chat")
        PROVE  Fits(f, p[f.name])
    <3>1. p[f.name] = Unset(f, byte) /\ f.type # "text"
      BY <2>1, <2>4, <2>8
    <3> QED BY <1>2, <2>1, <3>1, UnsetFits
  <2>9. Fits(f, p[f.name])
    BY <2>5, <2>6, <2>7, <2>8
  <2> QED BY <2>9 DEF f
<1> QED BY <1>1, <1>6, <1>7 DEF AllFit

(* The handler of a packet's id is that of its struct; only the id 0 has   *)
(* none.                                                                   *)
RightId(k, id) == IF k = "Chat" THEN id \in ChatIds \cup {0} ELSE id = HeaderId[k]

LEMMA HandlerIs ==
  ASSUME NEW k \in Kinds, NEW id, RightId(k, id)
  PROVE  HandlerOf(id) \in {k, "default"} /\ (id # 0 => HandlerOf(id) = k)
<1>1. \A j \in Raw : /\ HeaderId[j] \notin ChatIds /\ HeaderId[j] # 0
                     /\ \A i \in Raw : HeaderId[i] = HeaderId[j] => i = j
  BY IdsAre
<1>2. CASE k = "Chat"
  <2>1. id \in ChatIds => HandlerOf(id) = "Chat"
    BY DEF HandlerOf
  <2>2. id = 0 => HandlerOf(id) = "default"
    <3>1. 0 \notin ChatIds
      BY IdsAre
    <3> QED BY <1>1, <3>1 DEF HandlerOf
  <2> QED BY <1>2, <2>1, <2>2 DEF RightId
<1>3. CASE k # "Chat"
  <2>1. k \in Raw /\ id = HeaderId[k]
    BY <1>3 DEF Raw, RightId
  <2>2. HandlerOf(id) = CHOOSE j \in Raw : HeaderId[j] = id
    BY <1>1, <2>1 DEF HandlerOf
  <2>3. (CHOOSE j \in Raw : HeaderId[j] = id) = k
    BY <1>1, <2>1
  <2> QED BY <2>2, <2>3
<1> QED BY <1>2, <1>3

---------------------------------------------------------------------------
(* The inductive invariant.                                                *)
Broken(k, p, data) ==
  /\ data \in Seq(Bytes) /\ Len(data) \in 1..(End(k)[Len(Struct[k])] - 1)
  /\ Arrived(k, p, data)
Filled ==
  DOMAIN packet = Names(kind) /\ AllFit(kind, packet) /\ RightId(kind, packet.headerId)
OnTheWire ==
  /\ at \in {"new", "filled"} => wire = Buffer(<<>>) /\ whole = TRUE
  /\ at = "sent" => whole = TRUE /\ wire.pos = 0 /\ Laid(kind, packet, wire.data)
  /\ at = "cut" => whole = FALSE /\ wire.pos = 0 /\ Broken(kind, packet, wire.data)
  /\ at # "read" => handler = "none" /\ received = <<>>
PacketsInv ==
  PacketTypeOK /\ Filled /\ OnTheWire /\ WholePacketArrives /\ CutPacketShowsPrefix

LEMMA FitsType ==
  ASSUME NEW f, IsMember(f), NEW v, Fits(f, v)
  PROVE  v \in MemberType(f)
<1>1. CASE f.type = "text"
  BY <1>1 DEF Fits, MemberType
<1>2. CASE f.type = "uint"
  BY <1>2 DEF Fits, MemberType
<1>3. CASE f.type = "int"
  BY <1>3 DEF Fits, MemberType
<1> QED BY <1>1, <1>2, <1>3 DEF IsMember

LEMMA FitHolds ==
  ASSUME NEW k \in Kinds, NEW p, DOMAIN p = Names(k), AllFit(k, p)
  PROVE  Holds(k, p)
<1>1. ASSUME NEW i \in 1..Len(Struct[k])
      PROVE  p[Struct[k][i].name] \in MemberType(Struct[k][i])
  <2>1. IsMember(Struct[k][i]) /\ Fits(Struct[k][i], p[Struct[k][i].name])
    BY StructShape DEF Shape, AllFit
  <2> QED BY <2>1, FitsType
<1>2. Members(k) = {Struct[k][i] : i \in 1..Len(Struct[k])}
  BY NamesAre
<1> QED BY <1>1, <1>2 DEF Holds

(* Everything has arrived of a packet that is whole. *)
LEMMA LaidArrived ==
  ASSUME NEW k \in Kinds, NEW p, AllFit(k, p), NEW data, Laid(k, p, data)
  PROVE  /\ data \in Seq(Bytes) /\ Arrived(k, p, data)
         /\ \A i \in 1..Len(Struct[k]) : End(k)[i] <= Len(data)
<1>1. ASSUME NEW i \in 1..Len(Struct[k]) PROVE End(k)[i] <= Len(data)
  <2>1. LiesAt(Bits(k, p, i), data, End(k)[i - 1])
    BY DEF Laid
  <2>2. Len(Bits(k, p, i)) = Struct[k][i].len
    BY BitsType
  <2>3. End(k)[i] = End(k)[i - 1] + Struct[k][i].len
    BY EndIs
  <2> QED BY <2>1, <2>2, <2>3 DEF LiesAt
<1> QED BY <1>1 DEF Laid, Arrived

LEMMA FirstEnd ==
  ASSUME NEW k \in Kinds
  PROVE  End(k)[1] = 1 /\ End(k)[1 - 1] = 0
<1>1. Struct[k][1].len = 1 /\ 1 \in 1..Len(Struct[k])
  BY StructShape DEF Shape, Unsigned
<1>2. End(k)[0] = 0 /\ End(k)[1] = End(k)[1 - 1] + Struct[k][1].len
  BY <1>1, EndIs
<1>3. 1 - 1 = 0
  OBVIOUS
<1> QED BY <1>1, <1>2, <1>3

LEMMA FirstByte ==
  ASSUME NEW k \in Kinds, NEW p, AllFit(k, p), NEW data \in Seq(Bytes), Len(data) >= 1,
         Arrived(k, p, data)
  PROVE  data[1] = p.headerId
<1>1. Struct[k][1] = Unsigned("headerId", 1) /\ 1 \in 1..Len(Struct[k])
  BY StructShape DEF Shape
<1>2. End(k)[1] = 1 /\ End(k)[1 - 1] = 0
  BY FirstEnd
<1>3. LiesAt(Bits(k, p, 1), data, 0)
  BY <1>1, <1>2 DEF Arrived
<1>4. p.headerId \in 0..(B - 1)
  <2>1. Fits(Struct[k][1], p[Struct[k][1].name])
    BY <1>1 DEF AllFit
  <2>2. p.headerId \in 0..(Width(1) - 1)
    BY <1>1, <2>1 DEF Fits, Unsigned
  <2> QED BY <2>2, PlaceValues
<1>5. Bits(k, p, 1) = LittleEndian(p.headerId, 1)
  BY <1>1 DEF Bits, InMemory, Unsigned
<1>6. Len(LittleEndian(p.headerId, 1)) = 1 /\ LittleEndian(p.headerId, 1)[1] = p.headerId
  <2>1. LittleEndian(p.headerId, 1)[1] = (p.headerId \div Place[1]) % B
    BY DEF LittleEndian
  <2>2. (p.headerId \div 1) % B = p.headerId
    BY <1>4, WireAssumption
  <2>3. p.headerId \in Nat /\ 1 \in 1..4 /\ Place[1] = 1
    BY <1>4, PlaceValues
  <2>4. Len(LittleEndian(p.headerId, 1)) = 1
    BY <2>3, LittleEndianType
  <2> QED BY <2>1, <2>2, <2>3, <2>4
<1> QED BY <1>3, <1>5, <1>6 DEF LiesAt

(* The reads of the handler of the packet's own kind. *)
LEMMA Delivered ==
  ASSUME NEW k \in Kinds, NEW p, AllFit(k, p), NEW b, Within(b), b.pos = 0,
         Arrived(k, p, b.data), NEW res, Reads(k, b, res)
  PROVE  /\ Within(res.buf) /\ res.buf.data = b.data /\ Holds(k, res.val)
         /\ \A i \in 1..Len(Struct[k]) : End(k)[i] <= Len(b.data) =>
              res.val[Struct[k][i].name] = SeenOf(Struct[k][i], p[Struct[k][i].name])
<1>1. PICK r : /\ Reading(k, b, r)
               /\ res.buf = r[Len(Struct[k])].buf
               /\ DOMAIN res.val = Names(k)
               /\ \A i \in 1..Len(Struct[k]) : res.val[Struct[k][i].name] = r[i].val
  BY DEF Reads
<1>2. Len(Struct[k]) \in 0..Len(Struct[k])
  BY StructShape DEF Shape
<1>3. Within(res.buf) /\ res.buf.data = b.data
  BY <1>1, <1>2, ReadingWithin
<1>4. Holds(k, res.val)
  <2>1. \A i \in 1..Len(Struct[k]) : res.val[Struct[k][i].name] \in MemberType(Struct[k][i])
    BY <1>1, ReadingWithin
  <2>2. Members(k) = {Struct[k][i] : i \in 1..Len(Struct[k])}
    BY NamesAre
  <2> QED BY <1>1, <2>1, <2>2 DEF Holds
<1>5. \A i \in 1..Len(Struct[k]) : End(k)[i] <= Len(b.data) =>
        res.val[Struct[k][i].name] = SeenOf(Struct[k][i], p[Struct[k][i].name])
  BY <1>1, ReadingBack
<1> QED BY <1>3, <1>4, <1>5

LEMMA ChatEnds ==
  /\ "Chat" \in Kinds /\ Struct["Chat"] = ChatPacket /\ Len(Struct["Chat"]) = 5
  /\ End("Chat")[0] = 0 /\ End("Chat")[1] = 1 /\ End("Chat")[2] = 3 /\ End("Chat")[3] = 4
  /\ End("Chat")[4] = 8 /\ End("Chat")[5] = 264
<1>1. "Chat" \in Kinds /\ Struct["Chat"] = ChatPacket /\ Len(Struct["Chat"]) = 5
  BY ChatIs DEF Struct, Kinds
<1>2. PICK e : e = End("Chat")
  OBVIOUS
<1>3. e[0] = 0 /\ \A i \in 1..5 : e[i] = e[i - 1] + ChatPacket[i].len
  BY <1>1, <1>2, EndIs
<1>4. /\ ChatPacket[1].len = 1 /\ ChatPacket[2].len = 2 /\ ChatPacket[3].len = 1
      /\ ChatPacket[4].len = 4 /\ ChatPacket[5].len = 256
  BY ChatIs DEF Unsigned, Chars
<1>5. e[1] = 1
  <2>1. e[1] = e[1 - 1] + ChatPacket[1].len
    BY <1>3
  <2> QED BY <1>3, <1>4, <2>1
<1>6. e[2] = 3
  <2>1. e[2] = e[2 - 1] + ChatPacket[2].len
    BY <1>3
  <2> QED BY <1>4, <1>5, <2>1
<1>7. e[3] = 4
  <2>1. e[3] = e[3 - 1] + ChatPacket[3].len
    BY <1>3
  <2> QED BY <1>4, <1>6, <2>1
<1>8. e[4] = 8
  <2>1. e[4] = e[4 - 1] + ChatPacket[4].len
    BY <1>3
  <2> QED BY <1>4, <1>7, <2>1
<1>9. e[5] = 264
  <2>1. e[5] = e[5 - 1] + ChatPacket[5].len
    BY <1>3
  <2> QED BY <1>4, <1>8, <2>1
<1> QED BY <1>1, <1>2, <1>3, <1>5, <1>6, <1>7, <1>8, <1>9

(* A read of deserialize() that fails leaves its bytes to the next one;    *)
(* none of the size, the sender and the text is wrong for that.            *)
LEMMA ChatBroken ==
  ASSUME NEW p, AllFit("Chat", p), NEW b, Within(b), b.pos = 0, Broken("Chat", p, b.data),
         NEW res, Reads("Chat", b, res)
  PROVE  /\ res.val.message = <<>>
         /\ res.val.headerSize \in {p.headerSize, 0}
         /\ res.val.senderId \in {p.senderId, 0}
<1>1. PICK r : /\ Reading("Chat", b, r)
               /\ \A i \in 1..5 : res.val[ChatPacket[i].name] = r[i].val
  BY ChatEnds DEF Reads
<1>2. /\ ChatPacket[2] = Unsigned("headerSize", 2) /\ ChatPacket[4] = Unsigned("senderId", 4)
      /\ ChatPacket[5] = Chars("message", 256)
  BY ChatIs
<1>3. /\ res.val.headerSize = r[2].val /\ res.val.senderId = r[4].val
      /\ res.val.message = r[5].val
  BY <1>1, <1>2 DEF Unsigned, Chars
<1>4. PICK l \in 1..263 : l = Len(b.data)
  <2>1. End("Chat")[Len(Struct["Chat"])] = 264
    BY ChatEnds, Zenon
  <2>2. Len(b.data) \in 1..(264 - 1)
    BY <2>1, Zenon DEF Broken
  <2>3. 264 - 1 = 263
    OBVIOUS
  <2>4. Len(b.data) \in 1..263
    BY <2>2, <2>3, Zenon
  <2> QED BY <2>4, Zenon
<1>12. /\ \A i \in 0..Len(Struct["Chat"]) :
            End("Chat")[i] <= Len(b.data) => r[i].buf.pos = End("Chat")[i]
       /\ \A i \in 1..Len(Struct["Chat"]) :
            End("Chat")[i] <= Len(b.data) =>
              r[i].val = SeenOf(Struct["Chat"][i], p[Struct["Chat"][i].name])
  <2>1. Arrived("Chat", p, b.data) /\ "Chat" \in Kinds
    BY ChatEnds DEF Broken
  <2> QED BY <1>1, <2>1, ReadingBack
<1>5. \A i \in 0..5 : End("Chat")[i] <= l => r[i].buf.pos = End("Chat")[i]
  BY <1>4, <1>12, ChatEnds, Zenon
<1>6. \A i \in 1..5 : End("Chat")[i] <= l => r[i].val = SeenOf(ChatPacket[i], p[ChatPacket[i].name])
  BY <1>4, <1>12, ChatEnds, Zenon
<1>7. \A i \in 0..5 : r[i].buf.data = b.data /\ r[i].buf.pos \in Nat
  <2>1. \A i \in 0..5 : Within(r[i].buf) /\ r[i].buf.data = b.data
    <3>1. \A i \in 0..Len(Struct["Chat"]) : Within(r[i].buf) /\ r[i].buf.data = b.data
      <4>1. "Chat" \in Kinds
        BY ChatEnds
      <4> QED BY <1>1, <4>1, ReadingWithin
    <3> QED BY <3>1, ChatEnds, Zenon
  <2> QED BY <2>1 DEF Within, Buffers
<1>8. \A i \in 1..5 : Short(r[i - 1].buf, ChatPacket[i].len) => r[i].val = Nothing(ChatPacket[i])
  BY <1>1, ChatEnds, ReadingWithin
<1>9. r[2].val \in {p.headerSize, 0}
  <2>1. CASE l >= 3
    <3>1. r[2].val = SeenOf(ChatPacket[2], p[ChatPacket[2].name])
      BY <1>6, <2>1, ChatEnds
    <3> QED BY <1>2, <3>1 DEF SeenOf, Unsigned
  <2>2. CASE l < 3
    <3>1. r[1].buf.pos = 1
      BY <1>5, ChatEnds
    <3>2. Short(r[1].buf, 2)
      <4>1. r[1].buf.data = b.data /\ 1 + 2 > l
        BY <1>7, <2>2
      <4> QED BY <1>4, <3>1, <4>1, Zenon DEF Short
    <3>3. 2 \in 1..5 /\ 2 - 1 = 1 /\ ChatPacket[2].len = 2 /\ Nothing(ChatPacket[2]) = 0
      BY <1>2 DEF Unsigned, Nothing
    <3>4. r[2].val = 0
      BY <1>8, <3>2, <3>3, Zenon
    <3> QED BY <3>4
  <2> QED BY <2>1, <2>2
<1>10. r[4].val \in {p.senderId, 0}
  <2>1. CASE l >= 8
    <3>1. r[4].val = SeenOf(ChatPacket[4], p[ChatPacket[4].name])
      BY <1>6, <2>1, ChatEnds
    <3> QED BY <1>2, <3>1 DEF SeenOf, Unsigned
  <2>2. CASE l < 8
    <3>1. PICK x \in Nat : x = r[3].buf.pos
      BY <1>7
    <3>2. l >= 4 => x = 4
      BY <1>5, <3>1, ChatEnds
    <3>3. Short(r[3].buf, 4)
      <4>1. r[3].buf.data = b.data /\ x + 4 > l
        BY <1>7, <2>2, <3>2
      <4> QED BY <1>4, <3>1, <4>1, Zenon DEF Short
    <3>4. 4 \in 1..5 /\ 4 - 1 = 3 /\ ChatPacket[4].len = 4 /\ Nothing(ChatPacket[4]) = 0
      BY <1>2 DEF Unsigned, Nothing
    <3>5. r[4].val = 0
      BY <1>8, <3>3, <3>4, Zenon
    <3> QED BY <3>5
  <2> QED BY <2>1, <2>2
<1>11. r[5].val = <<>>
  <2>1. PICK x \in Nat : x = r[4].buf.pos
    BY <1>7
  <2>2. l >= 8 => x = 8
    BY <1>5, <2>1, ChatEnds
  <2>3. Short(r[4].buf, 256)
    <3>1. r[4].buf.data = b.data /\ x + 256 > l
      BY <1>7, <2>2
    <3> QED BY <1>4, <2>1, <3>1, Zenon DEF Short
  <2>4. 5 \in 1..5 /\ 5 - 1 = 4 /\ ChatPacket[5].len = 256 /\ Nothing(ChatPacket[5]) = <<>>
    BY <1>2 DEF Chars, Nothing
  <2> QED BY <1>8, <2>3, <2>4, Zenon
<1> QED BY <1>3, <1>9, <1>10, <1>11

---------------------------------------------------------------------------
LEMMA EmptyBuffer == Within(Buffer(<<>>)) /\ Buffer(<<>>).pos = 0
BY DEF Within, Buffer, Buffers

(* Until a packet is read, the invariant is that of what has been filled   *)
(* in and what is on the wire.                                             *)
Unread ==
  /\ kind \in Kinds /\ Within(wire) /\ whole \in BOOLEAN
  /\ at \in {"new", "filled", "sent", "cut"}
  /\ Filled /\ OnTheWire

LEMMA UnreadInv == Unread => PacketsInv
<1> SUFFICES ASSUME Unread PROVE PacketsInv
  OBVIOUS
<1>1. Holds(kind, packet)
  BY FitHolds DEF Unread, Filled
<1>2. handler = "none" /\ received = <<>>
  BY DEF Unread, OnTheWire
<1>3. PacketTypeOK
  <2>1. "none" \notin Kinds
    BY IdsAre
  <2> QED BY <1>1, <1>2, <2>1 DEF Unread, PacketTypeOK, Within
<1> QED BY <1>3 DEF Unread, PacketsInv, WholePacketArrives, CutPacketShowsPrefix

LEMMA ConstructedFilled ==
  ASSUME NEW k \in Kinds, NEW byte \in Leftover
  PROVE  /\ DOMAIN Constructed(k, byte) = Names(k) /\ AllFit(k, Constructed(k, byte))
         /\ RightId(k, Constructed(k, byte).headerId)
<1>1. HeaderId["Chat"] = 0
  BY IdsAre
<1> QED BY <1>1, ConstructedFits DEF RightId

LEMMA InitInv == PacketInit => PacketsInv
<1> SUFFICES ASSUME PacketInit PROVE PacketsInv
  OBVIOUS
<1>1. PICK byte \in Leftover : packet = Constructed(kind, byte)
  BY DEF PacketInit
<1>2. kind \in Kinds /\ wire = Buffer(<<>>) /\ at = "new" /\ whole = TRUE
      /\ handler = "none" /\ received = <<>>
  BY DEF PacketInit
<1>3. Filled
  BY <1>1, <1>2, ConstructedFilled DEF Filled
<1>4. OnTheWire
  BY <1>2 DEF OnTheWire
<1> QED BY <1>2, <1>3, <1>4, EmptyBuffer, UnreadInv DEF Unread

(* What the caller assigns, the members can hold. *)
LEMMA ValuesFit ==
  ASSUME NEW f, IsMember(f), NEW v \in Values(f)
  PROVE  Fits(f, v)
<1>1. CASE f.type = "text"
  BY <1>1, PacketsAssumption DEF Values, Fits
<1>2. CASE f.type = "uint"
  <2>1. v \in Uints /\ v < Width(f.len)
    BY <1>2 DEF Values
  <2>2. v \in 0..(Width(4) - 1)
    BY <2>1, PacketsAssumption
  <2>3. PICK w \in Nat : w = Width(f.len)
    <3>1. f.len \in 1..4
      BY <1>2 DEF IsMember
    <3> QED BY <3>1, PlaceValues
  <2>4. v \in 0..(w - 1)
    BY <2>1, <2>2, <2>3
  <2> QED BY <1>2, <2>3, <2>4 DEF Fits
<1>3. CASE f.type = "int"
  <2>1. PICK w \in Nat : w = Width(4)
    BY PlaceValues
  <2>2. v \in (-(w \div 2))..(w \div 2 - 1)
    BY <1>3, <2>1, PacketsAssumption DEF Values
  <2>3. v \in Int /\ -w <= 2 * v /\ 2 * v < w
    BY <2>2
  <2>4. Signed(v % Width(4)) = v
    BY <2>1, <2>3, SignedBack
  <2> QED BY <1>3, <2>3, <2>4 DEF Fits
<1> QED BY <1>1, <1>2, <1>3 DEF IsMember

LEMMA FillRawInv ==
  ASSUME PacketsInv, NEW f \in Members(kind) \ Range(PacketHeader), NEW v \in Values(f),
         FillRaw(f, v)
  PROVE  PacketsInv'
<1>1. /\ kind \in Kinds /\ Within(wire) /\ whole \in BOOLEAN /\ Filled
      /\ at = "new" /\ wire = Buffer(<<>>) /\ whole = TRUE
      /\ handler = "none" /\ received = <<>>
  BY DEF PacketsInv, PacketTypeOK, Within, OnTheWire, FillRaw
<1>2. /\ packet' = [packet EXCEPT ![f.name] = v] /\ at' = "filled" /\ kind \in Raw
      /\ UNCHANGED <<kind, wire, whole, handler, received>>
  BY DEF FillRaw
<1>3. PICK i \in 1..Len(Struct[kind]) : f = Struct[kind][i]
  BY <1>1, NamesAre
<1>4. /\ Struct[kind][1] = PacketHeader[1] /\ 1 \in 1..Len(Struct[kind])
      /\ Struct[kind][1].name = "headerId"
      /\ \A j, l \in 1..Len(Struct[kind]) : Struct[kind][j].name = Struct[kind][l].name => j = l
      /\ \A j \in 1..Len(Struct[kind]) : IsMember(Struct[kind][j])
  BY <1>1, StructShape, PacketHeaderIs DEF Shape, Unsigned
<1>5. f.name # "headerId"
  <2>1. PacketHeader[1] \in Range(PacketHeader)
    BY PacketHeaderIs DEF PacketHeader, Range
  <2>2. i # 1
    BY <1>3, <1>4, <2>1
  <2> QED BY <1>3, <1>4, <2>2
<1>6. ASSUME NEW j \in 1..Len(Struct[kind])
      PROVE  Fits(Struct[kind][j], packet'[Struct[kind][j].name])
  <2>1. Struct[kind][j].name \in DOMAIN packet
    BY <1>1, NamesAre DEF Filled
  <2>2. CASE j = i
    BY <1>2, <1>3, <1>4, <2>1, <2>2, ValuesFit
  <2>3. CASE j # i
    <3>1. packet'[Struct[kind][j].name] = packet[Struct[kind][j].name]
      BY <1>2, <1>3, <1>4, <2>1, <2>3
    <3> QED BY <1>1, <3>1 DEF Filled, AllFit
  <2> QED BY <2>2, <2>3
<1>7. Filled'
  <2>1. AllFit(kind, packet')
    BY <1>6 DEF AllFit
  <2>2. DOMAIN packet' = DOMAIN packet /\ packet'.headerId = packet.headerId
    <3>1. "headerId" \in DOMAIN packet
      BY <1>1, <1>4, NamesAre DEF Filled
    <3> QED BY <1>2, <1>5, <3>1
  <2> QED BY <1>1, <1>2, <2>1, <2>2 DEF Filled
<1>8. OnTheWire'
  BY <1>1, <1>2 DEF OnTheWire
<1>9. Unread'
  BY <1>1, <1>2, <1>7, <1>8 DEF Unread, Within
<1> QED BY <1>9, UnreadInv, PTL

LEMMA FillChatInv ==
  ASSUME PacketsInv, NEW id \in ChatIds \cup {0}, NEW size \in Sizes,
         NEW type \in Uints \cap Bytes, NEW sender \in Uints, NEW text \in Strings,
         FillChat(id, size, type, sender, text)
  PROVE  PacketsInv'
<1>1. /\ kind = "Chat" /\ Within(wire) /\ Filled
      /\ wire = Buffer(<<>>) /\ whole = TRUE
      /\ handler = "none" /\ received = <<>>
  BY DEF PacketsInv, PacketTypeOK, Within, OnTheWire, FillChat
<1>2. /\ packet' = [packet EXCEPT !.headerId = id, !.headerSize = size,
                                  !.type = type, !.senderId = sender, !.message = text]
      /\ at' = "filled" /\ UNCHANGED <<kind, wire, whole, handler, received>>
  BY DEF FillChat
<1>3. "Chat" \in Kinds /\ Struct["Chat"] = ChatPacket /\ Len(Struct["Chat"]) = 5
  BY ChatEnds
<1>4. DOMAIN packet' = Names("Chat")
  BY <1>1, <1>2 DEF Filled
<1>5. /\ packet'.headerId = id /\ packet'.headerSize = size /\ packet'.type = type
      /\ packet'.senderId = sender /\ packet'.message = text
  <2>1. /\ ChatPacket[1].name = "headerId" /\ ChatPacket[2].name = "headerSize"
        /\ ChatPacket[3].name = "type" /\ ChatPacket[4].name = "senderId"
        /\ ChatPacket[5].name = "message"
    BY ChatIs DEF Unsigned, Chars
  <2>2. \A i \in 1..5 : ChatPacket[i].name \in DOMAIN packet
    <3>1. \A i \in 1..Len(Struct["Chat"]) : Struct["Chat"][i].name \in Names("Chat")
      BY <1>3, NamesAre
    <3> QED BY <1>1, <1>3, <3>1 DEF Filled
  <2>3. {"headerId", "headerSize", "type", "senderId", "message"} \subseteq DOMAIN packet
    BY <2>1, <2>2
  <2> QED BY <1>2, <2>3
<1>6. id \in 0..(Width(1) - 1) /\ type \in 0..(Width(1) - 1)
  <2>1. id \in 0..107
    BY IdsAre
  <2>2. Width(1) = B /\ B \in Nat /\ B >= 115
    BY PlaceValues, WireAssumption, PacketsAssumption
  <2>3. type \in 0..(B - 1)
    BY DEF Bytes
  <2> QED BY <2>1, <2>2, <2>3
<1>7. size \in 0..(Width(2) - 1) /\ sender \in 0..(Width(4) - 1) /\ text \in Seq(Bytes)
  BY PacketsAssumption
<1>8. ASSUME NEW i \in 1..5 PROVE Fits(ChatPacket[i], packet'[ChatPacket[i].name])
  <2>1. Fits(ChatPacket[1], packet'[ChatPacket[1].name])
    BY <1>5, <1>6, ChatIs DEF Fits, Unsigned
  <2>2. Fits(ChatPacket[2], packet'[ChatPacket[2].name])
    BY <1>5, <1>7, ChatIs DEF Fits, Unsigned
  <2>3. Fits(ChatPacket[3], packet'[ChatPacket[3].name])
    BY <1>5, <1>6, ChatIs DEF Fits, Unsigned
  <2>4. Fits(ChatPacket[4], packet'[ChatPacket[4].name])
    BY <1>5, <1>7, ChatIs DEF Fits, Unsigned
  <2>5. Fits(ChatPacket[5], packet'[ChatPacket[5].name])
    BY <1>5, <1>7, ChatIs DEF Fits, Chars
  <2>6. i = 1 \/ i = 2 \/ i = 3 \/ i = 4 \/ i = 5
    OBVIOUS
  <2> QED BY <2>1, <2>2, <2>3, <2>4, <2>5, <2>6
<1>9. Filled'
  <2>1. AllFit("Chat", packet')
    BY <1>3, <1>8 DEF AllFit
  <2> QED BY <1>1, <1>2, <1>4, <1>5, <2>1 DEF Filled, RightId
<1>10. OnTheWire'
  BY <1>1, <1>2 DEF OnTheWire
<1>11. Unread'
  BY <1>1, <1>2, <1>3, <1>9, <1>10 DEF Unread, Within
<1> QED BY <1>11, UnreadInv, PTL

(* The bytes on the wire are those of the members. *)
LEMMA SentInv ==
  ASSUME PacketsInv, at \in {"new", "filled"}, Within(wire'), wire'.pos = 0,
         Laid(kind, packet, wire'.data), at' = "sent",
         UNCHANGED <<kind, packet, whole, handler, received>>
  PROVE  PacketsInv'
<1>1. kind \in Kinds /\ whole = TRUE /\ Filled /\ handler = "none" /\ received = <<>>
  BY DEF PacketsInv, PacketTypeOK, OnTheWire
<1>2. Filled'
  BY <1>1 DEF Filled
<1>3. OnTheWire'
  BY <1>1 DEF OnTheWire
<1>4. Unread'
  BY <1>1, <1>2, <1>3 DEF Unread, Within
<1> QED BY <1>4, UnreadInv, PTL

LEMMA SendRawInv ==
  ASSUME PacketsInv, SendRaw
  PROVE  PacketsInv'
<1>1. /\ at \in {"new", "filled"} /\ wire' = Buffer(Memory(kind, packet)) /\ at' = "sent"
      /\ UNCHANGED <<kind, packet, whole, handler, received>>
  BY DEF SendRaw
<1>2. Laid(kind, packet, Memory(kind, packet))
  BY MemoryIs DEF PacketsInv, PacketTypeOK, Filled
<1>3. wire'.data = Memory(kind, packet) /\ wire'.pos = 0 /\ Within(wire')
  BY <1>1, <1>2 DEF Buffer, Buffers, Within, Laid
<1> QED BY <1>1, <1>2, <1>3, SentInv

LEMMA SerializeInv ==
  ASSUME PacketsInv, Serialize
  PROVE  PacketsInv'
<1>1. /\ at \in {"new", "filled"} /\ kind = "Chat" /\ wire' = SerializeInto(wire, packet)
      /\ at' = "sent" /\ UNCHANGED <<kind, packet, whole, handler, received>>
  BY DEF Serialize
<1>2. wire = Buffer(<<>>) /\ AllFit("Chat", packet)
  BY <1>1 DEF PacketsInv, OnTheWire, Filled
<1>3. Laid(kind, packet, wire'.data) /\ wire' \in Buffers /\ wire'.pos = 0
  BY <1>1, <1>2, SerializeIs
<1>4. Within(wire')
  BY <1>3 DEF Within, Buffers
<1> QED BY <1>1, <1>3, <1>4, SentInv

(* A part of the bytes has the members that end in it. *)
LEMMA CutInv ==
  ASSUME PacketsInv, NEW n \in 1..Len(wire.data), Cut(n)
  PROVE  PacketsInv'
<1>1. /\ kind \in Kinds /\ Filled /\ AllFit(kind, packet) /\ Laid(kind, packet, wire.data)
      /\ handler = "none" /\ received = <<>>
  BY DEF PacketsInv, PacketTypeOK, OnTheWire, Filled, Cut
<1>2. /\ n < Len(wire.data) /\ wire' = Buffer(SubSeq(wire.data, 1, n)) /\ at' = "cut"
      /\ whole' = FALSE /\ UNCHANGED <<kind, packet, handler, received>>
  BY DEF Cut
<1> DEFINE d == wire.data
           c == SubSeq(d, 1, n)
<1>3. d \in Seq(Bytes) /\ Len(d) = End(kind)[Len(Struct[kind])] /\ Len(d) \in Nat
  BY <1>1 DEF Laid
<1>4. n \in 0..Len(d) /\ n \in 1..(Len(d) - 1)
  BY <1>2, <1>3
<1>5. c \in Seq(Bytes) /\ Len(c) = n /\ \A i \in 1..n : c[i] = d[i]
  BY <1>3, <1>4, PrefixType
<1> HIDE DEF c
<1>6. ASSUME NEW i \in 1..Len(Struct[kind]), End(kind)[i] <= n
      PROVE  LiesAt(Bits(kind, packet, i), c, End(kind)[i - 1])
  <2>1. PICK x \in Nat : x = End(kind)[i - 1]
    <3>1. i - 1 \in 0..Len(Struct[kind])
      BY <1>1, StructShape DEF Shape
    <3> QED BY <1>1, <3>1, EndIs
  <2>2. PICK y \in Seq(Bytes) : y = Bits(kind, packet, i) /\ Len(y) = Struct[kind][i].len
    BY <1>1, BitsType
  <2>3. End(kind)[i] = x + Len(y)
    BY <1>1, <2>1, <2>2, EndIs
  <2>4. LiesAt(y, d, x)
    BY <1>1, <2>1, <2>2 DEF Laid
  <2>5. LiesAt(y, c, x)
    <3>1. x + Len(y) <= n
      BY <1>6, <2>3
    <3>2. ASSUME NEW j \in 1..Len(y) PROVE c[x + j] = y[j]
      <4>1. x + j \in 1..n
        BY <1>4, <3>1
      <4>2. d[x + j] = y[j]
        BY <2>4 DEF LiesAt
      <4> QED BY <1>5, <4>1, <4>2
    <3> QED BY <1>5, <3>1, <3>2 DEF LiesAt
  <2> QED BY <2>1, <2>2, <2>5
<1>7. Broken(kind, packet, c)
  BY <1>3, <1>4, <1>5, <1>6 DEF Broken, Arrived
<1>8. wire'.data = c /\ wire'.pos = 0 /\ Within(wire')
  BY <1>2, <1>5 DEF c, Buffer, Buffers, Within
<1>9. Filled'
  BY <1>1, <1>2 DEF Filled
<1>10. OnTheWire'
  BY <1>1, <1>2, <1>7, <1>8 DEF OnTheWire
<1>11. Unread'
  BY <1>1, <1>2, <1>8, <1>9, <1>10 DEF Unread, Within
<1> QED BY <1>11, UnreadInv, PTL

---------------------------------------------------------------------------
(* The receiver's handler is that of the packet's struct, or the default   *)
(* one, which is only for a chat without an id.                            *)
LEMMA OnlyOwnHandler ==
  ASSUME PacketsInv, at \in {"sent", "cut"}
  PROVE  /\ kind \in Kinds /\ AllFit(kind, packet) /\ Within(wire) /\ wire.pos = 0
         /\ Arrived(kind, packet, wire.data)
         /\ HandlerOf(wire.data[1]) \in {kind, "default"}
         /\ packet.headerId # 0 => HandlerOf(wire.data[1]) = kind
<1>1. kind \in Kinds /\ AllFit(kind, packet) /\ Within(wire) /\ RightId(kind, packet.headerId)
  BY DEF PacketsInv, PacketTypeOK, Within, Filled
<1>2. /\ wire.pos = 0 /\ wire.data \in Seq(Bytes) /\ Len(wire.data) >= 1
      /\ Arrived(kind, packet, wire.data)
  <2>1. CASE at = "sent"
    <3>1. wire.pos = 0 /\ Laid(kind, packet, wire.data)
      BY <2>1 DEF PacketsInv, OnTheWire
    <3>2. wire.data \in Seq(Bytes) /\ Arrived(kind, packet, wire.data) /\ End(kind)[1] <= Len(wire.data)
      <4>1. 1 \in 1..Len(Struct[kind])
        BY <1>1, StructShape DEF Shape
      <4> QED BY <1>1, <3>1, <4>1, LaidArrived
    <3>3. End(kind)[1] = 1
      BY <1>1, FirstEnd
    <3> QED BY <3>1, <3>2, <3>3
  <2>2. CASE at = "cut"
    <3>1. wire.pos = 0 /\ Broken(kind, packet, wire.data)
      BY <2>2 DEF PacketsInv, OnTheWire
    <3> QED BY <3>1 DEF Broken
  <2> QED BY <2>1, <2>2
<1>3. wire.data[1] = packet.headerId
  BY <1>1, <1>2, FirstByte
<1> QED BY <1>1, <1>2, <1>3, HandlerIs

LEMMA ReadInv ==
  ASSUME PacketsInv, at \in {"sent", "cut"}, NEW res, Reads(kind, wire, res),
         handler' = kind, received' = res.val, wire' = res.buf, at' = "read",
         UNCHANGED <<kind, packet, whole>>
  PROVE  PacketsInv'
<1>1. /\ kind \in Kinds /\ AllFit(kind, packet) /\ Within(wire) /\ wire.pos = 0
      /\ Arrived(kind, packet, wire.data)
  BY OnlyOwnHandler
<1>2. Holds(kind, packet) /\ Filled /\ whole \in BOOLEAN
  BY DEF PacketsInv, PacketTypeOK
<1>3. /\ Within(wire') /\ wire'.data = wire.data /\ Holds(kind, received')
      /\ \A i \in 1..Len(Struct[kind]) : End(kind)[i] <= Len(wire.data) =>
           received'[Struct[kind][i].name] = SeenOf(Struct[kind][i], packet[Struct[kind][i].name])
  BY <1>1, Delivered
<1>4. \A f : Seen(f)' = SeenOf(f, packet[f.name])
  BY DEF Seen, SeenOf
<1>5. PacketTypeOK'
  BY <1>1, <1>2, <1>3 DEF PacketTypeOK, Within
<1>6. Filled'
  BY <1>2 DEF Filled
<1>7. OnTheWire'
  BY DEF OnTheWire
<1>8. WholePacketArrives'
  <2> SUFFICES ASSUME whole = TRUE
               PROVE  \A f \in Members(kind) : received'[f.name] = Seen(f)'
    BY DEF WholePacketArrives
  <2>1. Laid(kind, packet, wire.data)
    BY DEF PacketsInv, OnTheWire
  <2>2. \A i \in 1..Len(Struct[kind]) : End(kind)[i] <= Len(wire.data)
    BY <1>1, <2>1, LaidArrived
  <2>3. Members(kind) = {Struct[kind][i] : i \in 1..Len(Struct[kind])}
    BY <1>1, NamesAre
  <2> QED BY <1>3, <1>4, <2>2, <2>3
<1>9. CutPacketShowsPrefix'
  <2> SUFFICES ASSUME whole = FALSE
               PROVE  /\ \A i \in DOMAIN Struct[kind] :
                           End(kind)[i] <= Len(wire'.data) =>
                             received'[Struct[kind][i].name] = Seen(Struct[kind][i])'
                      /\ kind = "Chat" =>
                           /\ received'.message = <<>>
                           /\ received'.headerSize \in {packet.headerSize, 0}
                           /\ received'.senderId \in {packet.senderId, 0}
    BY <1>2 DEF CutPacketShowsPrefix
  <2>1. DOMAIN Struct[kind] = 1..Len(Struct[kind])
    BY <1>1, StructShape DEF Shape
  <2>2. Broken(kind, packet, wire.data)
    BY DEF PacketsInv, OnTheWire
  <2>3. kind = "Chat" =>
          /\ received'.message = <<>>
          /\ received'.headerSize \in {packet.headerSize, 0}
          /\ received'.senderId \in {packet.senderId, 0}
    BY <1>1, <2>2, ChatBroken
  <2> QED BY <1>3, <1>4, <2>1, <2>3
<1> QED BY <1>5, <1>6, <1>7, <1>8, <1>9 DEF PacketsInv

LEMMA DeserializeInv ==
  ASSUME PacketsInv, Deserialize
  PROVE  PacketsInv'
<1>1. /\ at \in {"sent", "cut"} /\ HandlerOf(wire.data[1]) = "Chat"
      /\ received' = DeserializeFrom(wire).val /\ wire' = DeserializeFrom(wire).buf
      /\ handler' = "Chat" /\ at' = "read" /\ UNCHANGED <<kind, packet, whole>>
  BY DEF Deserialize
<1>2. kind = "Chat"
  BY <1>1, OnlyOwnHandler
<1>3. Reads(kind, wire, DeserializeFrom(wire))
  BY <1>2, DeserializeReads
<1> QED BY <1>1, <1>2, <1>3, ReadInv

LEMMA HandleInv ==
  ASSUME PacketsInv, Handle
  PROVE  PacketsInv'
<1>1. PICK k \in Raw :
        /\ k = HandlerOf(wire.data[1]) /\ at \in {"sent", "cut"}
        /\ handler' = k /\ received' = ReadRaw(k, wire).val /\ wire' = ReadRaw(k, wire).buf
        /\ at' = "read" /\ UNCHANGED <<kind, packet, whole>>
  BY DEF Handle
<1>2. k = kind
  <2>1. "default" \notin Raw
    BY IdsAre
  <2> QED BY <1>1, <2>1, OnlyOwnHandler
<1>3. Reads(kind, wire, ReadRaw(kind, wire))
  BY <1>1, OnlyOwnHandler, RawReads
<1> QED BY <1>1, <1>2, <1>3, ReadInv

LEMMA HandleDefaultInv ==
  ASSUME PacketsInv, HandleDefault
  PROVE  PacketsInv'
<1>1. /\ at \in {"sent", "cut"} /\ HandlerOf(wire.data[1]) = "default"
      /\ handler' = "default" /\ at' = "read"
      /\ UNCHANGED <<kind, packet, wire, whole, received>>
  BY DEF HandleDefault
<1>2. "default" \notin Kinds
  BY IdsAre
<1>3. packet.headerId = 0
  BY <1>1, <1>2, OnlyOwnHandler
<1>4. received = <<>> /\ PacketTypeOK /\ Filled
  BY <1>1 DEF PacketsInv, OnTheWire
<1>5. PacketTypeOK'
  BY <1>1, <1>2, <1>4 DEF PacketTypeOK
<1>6. Filled' /\ OnTheWire'
  BY <1>1, <1>4 DEF Filled, OnTheWire
<1>7. WholePacketArrives' /\ CutPacketShowsPrefix'
  BY <1>1, <1>3 DEF WholePacketArrives, CutPacketShowsPrefix
<1> QED BY <1>5, <1>6, <1>7 DEF PacketsInv

LEMMA AgainInv ==
  ASSUME Again
  PROVE  PacketsInv'
<1>1. PICK k \in Kinds, byte \in Leftover : kind' = k /\ packet' = Constructed(k, byte)
  BY DEF Again
<1>2. /\ wire' = Buffer(<<>>) /\ at' = "new" /\ whole' = TRUE
      /\ handler' = "none" /\ received' = <<>>
  BY DEF Again
<1>3. Filled'
  BY <1>1, ConstructedFilled DEF Filled
<1>4. OnTheWire'
  BY <1>2 DEF OnTheWire
<1>5. Unread'
  BY <1>1, <1>2, <1>3, <1>4, EmptyBuffer DEF Unread, Within
<1> QED BY <1>5, UnreadInv, PTL

LEMMA StutterInv ==
  ASSUME PacketsInv, UNCHANGED packetVars
  PROVE  PacketsInv'
<1>1. UNCHANGED <<kind, packet, wire, at, whole, handler, received>>
  BY DEF packetVars
<1>2. \A f : Seen(f)' = Seen(f)
  BY <1>1 DEF Seen
<1>3. PacketTypeOK' /\ Filled' /\ OnTheWire'
  BY <1>1 DEF PacketsInv, PacketTypeOK, Filled, OnTheWire
<1>4. WholePacketArrives' /\ CutPacketShowsPrefix'
  BY <1>1, <1>2 DEF PacketsInv, WholePacketArrives, CutPacketShowsPrefix
<1> QED BY <1>3, <1>4 DEF PacketsInv

LEMMA StepInv ==
  ASSUME PacketsInv, [PacketNext]_packetVars
  PROVE  PacketsInv'
<1>1. ASSUME NEW f \in Members(kind) \ Range(PacketHeader), NEW v \in Values(f), FillRaw(f, v)
      PROVE  PacketsInv'
  BY <1>1, FillRawInv
<1>2. ASSUME NEW id \in ChatIds \cup {0}, NEW size \in Sizes, NEW type \in Uints \cap Bytes,
             NEW sender \in Uints, NEW text \in Strings, FillChat(id, size, type, sender, text)
      PROVE  PacketsInv'
  BY <1>2, FillChatInv
<1>3. CASE SendRaw
  BY <1>3, SendRawInv
<1>4. CASE Serialize
  BY <1>4, SerializeInv
<1>5. ASSUME NEW n \in 1..Len(wire.data), Cut(n) PROVE PacketsInv'
  BY <1>5, CutInv
<1>6. CASE Deserialize
  BY <1>6, DeserializeInv
<1>7. CASE Handle
  BY <1>7, HandleInv
<1>8. CASE HandleDefault
  BY <1>8, HandleDefaultInv
<1>9. CASE Again
  BY <1>9, AgainInv
<1>10. CASE UNCHANGED packetVars
  BY <1>10, StutterInv
<1> QED BY <1>1, <1>2, <1>3, <1>4, <1>5, <1>6, <1>7, <1>8, <1>9, <1>10 DEF PacketNext

LEMMA PacketsInvariant == PacketSpec => []PacketsInv
<1>1. PacketInit => PacketsInv
  BY InitInv
<1>2. PacketsInv /\ [PacketNext]_packetVars => PacketsInv'
  BY StepInv
<1> QED BY <1>1, <1>2, PTL DEF PacketSpec

(* The packet, what the receiver has of it and the buffer have their       *)
(* types: every number fits the width it is sent with, those that no       *)
(* constructor sets too, and m_readPos never passes the bytes that arrived.*)
THEOREM PacketsTyped == PacketSpec => []PacketTypeOK
<1>1. PacketsInv => PacketTypeOK
  BY DEF PacketsInv
<1> QED BY <1>1, PacketsInvariant, PTL

(* A packet that arrives whole gets to the handler of its struct, and      *)
(* every member is what was sent, whatever was assigned and left unset: a  *)
(* packed struct sent from memory by Session::sendPacket and read member   *)
(* by member, or a ChatPacket that serialize() wrote and deserialize()     *)
(* read, unless nobody set its header.id.                                  *)
THEOREM WholeArrives == PacketSpec => []WholePacketArrives
<1>1. PacketsInv => WholePacketArrives
  BY DEF PacketsInv
<1> QED BY <1>1, PacketsInvariant, PTL

(* Of a packet broken off anywhere, the members that arrived are what was  *)
(* sent; deserialize(), whose failed reads leave their bytes to the next   *)
(* ones, shows of a ChatPacket no part of a text and no wrong size or      *)
(* sender.                                                                 *)
THEOREM CutShowsPrefix == PacketSpec => []CutPacketShowsPrefix
<1>1. PacketsInv => CutPacketShowsPrefix
  BY DEF PacketsInv
<1> QED BY <1>1, PacketsInvariant, PTL
=============================================================================
