------------------------- MODULE PacketBufferProofs -------------------------
(***************************************************************************)
(* Theorems about PacketBuffer, for every number B of byte values, every   *)
(* set of numbers, texts and lengths, and any number of fields.  First,    *)
(* what the operators of Wire return: PacketsProofs rests on it as well.   *)
(*                                                                         *)
(* The inductive invariant is the layout of the buffer: the places where   *)
(* the fields start cut m_data into their encodings, and m_readPos is the  *)
(* place of the next field, as long as no text too long was read over.     *)
(***************************************************************************)
EXTENDS PacketBuffer, SequenceTheorems, WellFoundedInduction, TLAPS

---------------------------------------------------------------------------
(* Numbers. *)
LEMMA DivMod ==
  ASSUME NEW a \in Nat, NEW w \in Nat \ {0}
  PROVE  a \div w \in Nat /\ a % w \in 0..(w - 1) /\ a = w * (a \div w) + (a % w)
OBVIOUS

LEMMA DivUnique ==
  ASSUME NEW q \in Int, NEW w \in Nat \ {0}, NEW r \in 0..(w - 1)
  PROVE  (w * q + r) \div w = q /\ (w * q + r) % w = r
OBVIOUS

LEMMA ModBelow ==
  ASSUME NEW w \in Nat \ {0}, NEW r \in 0..(w - 1)
  PROVE  (r - w) % w = r
OBVIOUS

(* Two shifts are one. *)
LEMMA DivDiv ==
  ASSUME NEW a \in Nat, NEW w \in Nat \ {0}, NEW x \in Nat \ {0}
  PROVE  a \div (w * x) = (a \div w) \div x
<1>1. PICK q \in Nat, r \in 0..(w - 1) : a = w * q + r /\ a \div w = q
  BY DivMod
<1>2. PICK p \in Nat, s \in 0..(x - 1) : q = x * p + s /\ q \div x = p
  BY DivMod
<1>3. a = (w * x) * p + (w * s + r)
  <2>1. w * (x * p + s) = (w * x) * p + w * s
    OBVIOUS
  <2> QED BY <1>1, <1>2, <2>1
<1>4. w * s + r \in 0..(w * x - 1)
  <2>1. w * s \in Nat /\ w * x \in Nat /\ w * (x - 1) = w * x - w
    OBVIOUS
  <2>2. w * s <= w * (x - 1)
    OBVIOUS
  <2> QED BY <2>1, <2>2
<1>5. w * x \in Nat \ {0}
  OBVIOUS
<1>6. a \div (w * x) = p
  BY <1>3, <1>4, <1>5, DivUnique
<1> QED BY <1>1, <1>2, <1>6

LEMMA DivSmall ==
  ASSUME NEW a \in Nat, NEW w \in Nat \ {0}, NEW x \in Nat \ {0}, a < w * x
  PROVE  a \div w \in 0..(x - 1)
<1>1. PICK q \in Nat, r \in 0..(w - 1) : a = w * q + r /\ a \div w = q
  BY DivMod
<1>2. ASSUME q >= x PROVE FALSE
  <2>1. w * q >= w * x
    BY <1>2
  <2>2. w * q \in Nat /\ w * x \in Nat
    OBVIOUS
  <2> QED BY <1>1, <2>1, <2>2
<1> QED BY <1>1, <1>2

LEMMA PlaceValues ==
  /\ Place[1] = 1 /\ Place[2] = B /\ Place[3] = B * B /\ Place[4] = B * B * B
  /\ \A i \in 1..4 : Place[i] \in Nat \ {0}
  /\ Width(1) = B /\ Width(2) = B * B /\ Width(4) = B * (B * B * B)
  /\ \A n \in 1..4 : Width(n) \in Nat \ {0}
<1>1. Place[1] = 1 /\ Place[2] = B /\ Place[3] = B * B /\ Place[4] = B * B * B
  BY DEF Place
<1>2. B \in Nat \ {0} /\ B * B \in Nat \ {0} /\ B * B * B \in Nat \ {0} /\ B * (B * B * B) \in Nat \ {0}
  BY WireAssumption
<1>3. \A i \in 1..4 : Place[i] \in Nat \ {0}
  BY <1>1, <1>2
<1>4. Width(1) = B /\ Width(2) = B * B /\ Width(3) = B * (B * B) /\ Width(4) = B * (B * B * B)
  BY <1>1, WireAssumption DEF Width
<1>5. B * (B * B) \in Nat \ {0}
  BY <1>2
<1>6. \A n \in 1..4 : Width(n) \in Nat \ {0}
  BY <1>2, <1>4, <1>5
<1> QED BY <1>1, <1>3, <1>4, <1>6

LEMMA LittleEndianType ==
  ASSUME NEW u \in Nat, NEW n \in 1..4
  PROVE  LittleEndian(u, n) \in Seq(Bytes) /\ Len(LittleEndian(u, n)) = n
<1>1. ASSUME NEW i \in 1..n PROVE u \div Place[i] \in Nat
  <2>1. Place[i] \in Nat \ {0}
    BY PlaceValues
  <2> QED BY <2>1, DivMod
<1>2. ASSUME NEW i \in 1..n PROVE (u \div Place[i]) % B \in Bytes
  <2>1. PICK q \in Nat : q = u \div Place[i]
    BY <1>1
  <2>2. B \in Nat \ {0}
    BY WireAssumption
  <2>3. q % B \in 0..(B - 1)
    BY <2>2, DivMod
  <2> QED BY <2>1, <2>3 DEF Bytes
<1> QED BY <1>2 DEF LittleEndian

LEMMA FromBytesType ==
  ASSUME NEW s \in Seq(Bytes)
  PROVE  FromBytes(s) \in Nat
<1> DEFINE Part(i) == IF i <= Len(s) THEN s[i] * Place[i] ELSE 0
<1>1. ASSUME NEW i \in 1..4 PROVE Part(i) \in Nat
  <2>1. CASE i <= Len(s)
    <3>1. s[i] \in Bytes
      BY <2>1
    <3>2. s[i] \in Nat
      BY <3>1, WireAssumption DEF Bytes
    <3>3. Place[i] \in Nat
      BY PlaceValues
    <3> QED BY <2>1, <3>2, <3>3
  <2>2. CASE ~(i <= Len(s))
    BY <2>2
  <2> QED BY <2>1, <2>2
<1>2. FromBytes(s) = Part(1) + Part(2) + Part(3) + Part(4)
  BY DEF FromBytes
<1> QED BY <1>1, <1>2

(* A number that fits is read as it was written. *)
LEMMA FromLittleEndian ==
  ASSUME NEW n \in {1, 2, 4}, NEW u \in 0..(Width(n) - 1)
  PROVE  FromBytes(LittleEndian(u, n)) = u
<1> DEFINE s == LittleEndian(u, n)
<1>1. u \in Nat /\ u < Width(n)
  BY PlaceValues
<1>2. B \in Nat \ {0} /\ B * B \in Nat \ {0} /\ B * B * B \in Nat \ {0}
  BY WireAssumption
<1>3. Len(s) = n /\ \A i \in 1..n : s[i] = (u \div Place[i]) % B
  BY <1>1, LittleEndianType DEF LittleEndian
<1>4. u \div Place[1] = u /\ Place[2] = B /\ Place[3] = B * B /\ Place[4] = B * B * B
  BY <1>1, PlaceValues
<1>5. CASE n = 1
  <2>1. u % B = u
    BY <1>1, <1>2, <1>5, PlaceValues
  <2> QED BY <1>1, <1>3, <1>4, <1>5, <2>1, PlaceValues DEF FromBytes
<1>6. CASE n = 2
  <2>1. PICK q \in Nat, r \in 0..(B - 1) : u = B * q + r /\ u \div B = q /\ u % B = r
    BY <1>1, <1>2, DivMod
  <2>2. q \in 0..(B - 1)
    <3>1. u < B * B
      BY <1>1, <1>6, PlaceValues
    <3>2. u \div B \in 0..(B - 1)
      BY <1>1, <1>2, <3>1, DivSmall
    <3> QED BY <2>1, <3>2
  <2>3. q % B = q
    BY <2>2, WireAssumption
  <2>4. s[1] = r /\ s[2] = q
    BY <1>3, <1>4, <1>6, <2>1, <2>3
  <2>5. FromBytes(s) = r * 1 + q * B + 0 + 0
    BY <1>3, <1>6, <2>4, PlaceValues DEF FromBytes
  <2> QED BY <1>2, <2>1, <2>5
<1>7. CASE n = 4
  <2>1. PICK p \in Nat, b1 \in 0..(B - 1) : u = B * p + b1 /\ u \div B = p /\ u % B = b1
    BY <1>1, <1>2, DivMod
  <2>2. PICK q \in Nat, b2 \in 0..(B - 1) : p = B * q + b2 /\ p \div B = q /\ p % B = b2
    BY <1>2, DivMod
  <2>3. PICK r \in Nat, b3 \in 0..(B - 1) : q = B * r + b3 /\ q \div B = r /\ q % B = b3
    BY <1>2, DivMod
  <2>4. u \div (B * B) = q /\ u \div (B * B * B) = r
    <3>1. u \div (B * B) = (u \div B) \div B
      BY <1>1, <1>2, DivDiv
    <3>2. u \div ((B * B) * B) = (u \div (B * B)) \div B
      BY <1>1, <1>2, DivDiv
    <3> QED BY <2>1, <2>2, <2>3, <3>1, <3>2
  <2>5. r \in 0..(B - 1)
    <3>1. B * (B * B * B) = (B * B * B) * B
      BY <1>2
    <3> QED BY <1>1, <1>2, <1>7, <2>4, <3>1, PlaceValues, DivSmall
  <2>6. r % B = r
    BY <2>5, WireAssumption
  <2>7. s[1] = b1 /\ s[2] = b2 /\ s[3] = b3 /\ s[4] = r
    BY <1>3, <1>4, <1>7, <2>1, <2>2, <2>3, <2>4, <2>6
  <2>8. FromBytes(s) = b1 * 1 + b2 * B + b3 * (B * B) + r * (B * B * B)
    BY <1>3, <1>7, <2>7, PlaceValues DEF FromBytes
  <2>9. u = B * (B * (B * r + b3) + b2) + b1
    BY <2>1, <2>2, <2>3
  <2>10. B * (B * (B * r + b3) + b2) = b2 * B + b3 * (B * B) + r * (B * B * B)
    BY <1>2, <2>1, <2>2, <2>3
  <2> QED BY <1>2, <2>8, <2>9, <2>10
<1> QED BY <1>5, <1>6, <1>7

(* The two casts of a signed number cancel. *)
LEMMA SignedBack ==
  ASSUME NEW v \in Int, -Width(4) <= 2 * v, 2 * v < Width(4)
  PROVE  v % Width(4) \in 0..(Width(4) - 1) /\ Signed(v % Width(4)) = v
<1> DEFINE w == Width(4)
<1>1. w \in Nat \ {0}
  BY PlaceValues
<1> HIDE DEF w
<1>2. CASE v >= 0
  <2>1. v = w * 0 + v /\ v \in 0..(w - 1)
    BY <1>1, <1>2 DEF w
  <2>2. v % w = v
    BY <1>1, <2>1, DivUnique
  <2> QED BY <1>1, <2>1, <2>2 DEF Signed, w
<1>3. CASE v < 0
  <2>1. v + w \in 0..(w - 1)
    BY <1>1, <1>3 DEF w
  <2>2. v % w = v + w
    <3>1. PICK r \in 0..(w - 1) : r = v + w
      BY <2>1
    <3>2. (r - w) % w = r
      BY <1>1, ModBelow
    <3>3. v = r - w
      BY <1>1, <3>1
    <3> QED BY <3>1, <3>2, <3>3
  <2>3. 2 * (v + w) >= w
    BY <1>1 DEF w
  <2> QED BY <1>1, <2>1, <2>2, <2>3 DEF Signed, w
<1> QED BY <1>2, <1>3

---------------------------------------------------------------------------
(* Bytes in a buffer. *)
LEMMA PutType ==
  ASSUME NEW b \in Buffers, NEW e \in Seq(Bytes)
  PROVE  /\ Put(b, e) \in Buffers
         /\ Put(b, e).pos = b.pos
         /\ Put(b, e).data = b.data \o e
         /\ Len(Put(b, e).data) = Len(b.data) + Len(e)
<1>1. b = [data |-> b.data, pos |-> b.pos] /\ b.data \in Seq(Bytes) /\ b.pos \in Nat
  BY DEF Buffers
<1>2. b.data \o e \in Seq(Bytes) /\ Len(b.data \o e) = Len(b.data) + Len(e)
  BY <1>1, ConcatProperties
<1>3. Put(b, e) = [data |-> b.data \o e, pos |-> b.pos]
  <2>1. PICK c \in Seq(Bytes) : c = b.data \o e
    BY <1>2
  <2>2. [b EXCEPT !.data = c] = [data |-> c, pos |-> b.pos]
    BY DEF Buffers
  <2> QED BY <2>1, <2>2 DEF Put
<1> QED BY <1>1, <1>2, <1>3 DEF Buffers

(* Two appends are one. *)
LEMMA PutPut ==
  ASSUME NEW b \in Buffers, NEW d \in Seq(Bytes), NEW e \in Seq(Bytes)
  PROVE  Put(Put(b, d), e) = Put(b, d \o e)
<1>1. b.data \in Seq(Bytes)
  BY DEF Buffers
<1>2. (b.data \o d) \o e = b.data \o (d \o e)
  <2>1. PICK c \in Seq(Bytes) : c = b.data
    BY <1>1
  <2>2. (c \o d) \o e = c \o (d \o e)
    BY ConcatAssociative
  <2> QED BY <2>1, <2>2
<1>3. Put(b, d) \in Buffers /\ Put(b, d).pos = b.pos /\ Put(b, d).data = b.data \o d
  BY PutType
<1> QED BY <1>2, <1>3 DEF Put, Buffers

LEMMA AdvanceType ==
  ASSUME NEW b \in Buffers, NEW n \in Nat
  PROVE  Advance(b, n) \in Buffers /\ Advance(b, n).data = b.data /\ Advance(b, n).pos = b.pos + n
BY DEF Advance, Buffers

LEMMA BufferEqual ==
  ASSUME NEW b \in Buffers, NEW c \in Buffers, b.data = c.data, b.pos = c.pos
  PROVE  b = c
BY DEF Buffers

LEMMA FieldType ==
  ASSUME NEW b \in Buffers, NEW n \in Nat, ~Short(b, n)
  PROVE  /\ Field(b, n) \in Seq(Bytes)
         /\ Len(Field(b, n)) = n
         /\ \A i \in 1..n : Field(b, n)[i] = b.data[b.pos + i]
<1> DEFINE lo == b.pos + 1
           hi == b.pos + n
<1>1. b.data \in Seq(Bytes) /\ b.pos \in Nat /\ Len(b.data) \in Nat /\ hi <= Len(b.data)
  BY DEF Buffers, Short
<1>2. lo \in Int /\ hi \in Int
  BY <1>1
<1>3. \A i \in lo..hi : b.data[i] \in Bytes
  BY <1>1, ElementOfSeq
<1>4. Field(b, n) = SubSeq(b.data, lo, hi)
  BY DEF Field
<1> HIDE DEF lo, hi
<1>5. /\ SubSeq(b.data, lo, hi) \in Seq(Bytes)
      /\ Len(SubSeq(b.data, lo, hi)) = IF lo <= hi THEN hi - lo + 1 ELSE 0
      /\ \A i \in 1..(hi - lo + 1) : SubSeq(b.data, lo, hi)[i] = b.data[lo + i - 1]
  BY <1>2, <1>3, SubSeqProperties
<1>6. hi - lo + 1 = n /\ \A i \in 1..n : lo + i - 1 = b.pos + i
  BY <1>1 DEF lo, hi
<1>7. (lo <= hi) <=> n > 0
  BY <1>1 DEF lo, hi
<1> QED BY <1>4, <1>5, <1>6, <1>7

(* A field whose bytes lie at the position is the field that is taken. *)
LEMMA FieldIs ==
  ASSUME NEW b \in Buffers, NEW e \in Seq(Bytes),
         b.pos + Len(e) <= Len(b.data),
         \A i \in 1..Len(e) : b.data[b.pos + i] = e[i]
  PROVE  ~Short(b, Len(e)) /\ Field(b, Len(e)) = e
<1>1. Len(e) \in Nat /\ b.pos \in Nat /\ Len(b.data) \in Nat
  BY DEF Buffers
<1>2. ~Short(b, Len(e))
  BY <1>1 DEF Short
<1>3. /\ Field(b, Len(e)) \in Seq(Bytes)
      /\ Len(Field(b, Len(e))) = Len(e)
      /\ \A i \in 1..Len(e) : Field(b, Len(e))[i] = e[i]
  BY <1>1, <1>2, FieldType
<1> QED BY <1>2, <1>3, SeqEqual

---------------------------------------------------------------------------
(* Texts. *)
LEMMA LeastExists ==
  ASSUME NEW S \in SUBSET Nat, S # {}
  PROVE  Min(S) \in S /\ \A x \in S : Min(S) <= x
<1>1. PICK m \in S : \A y \in S : ~(<<y, m>> \in OpToRel(<, Nat))
  BY WFMin, NatLessThanWellFounded
<1>2. \A y \in S : m <= y
  <2> SUFFICES ASSUME NEW y \in S, y < m PROVE FALSE
    <3>1. m \in Nat /\ \A y \in S : y \in Nat
      OBVIOUS
    <3> QED BY <3>1
  <2>1. <<y, m>> \in Nat \X Nat /\ <<y, m>>[1] < <<y, m>>[2]
    OBVIOUS
  <2>2. <<y, m>> \in OpToRel(<, Nat)
    BY <2>1 DEF OpToRel
  <2> QED BY <1>1, <2>2
<1> QED BY <1>2 DEF Min

LEMMA MinOfTwo ==
  ASSUME NEW x \in Int, NEW y \in Int
  PROVE  Min({x, y}) = IF x <= y THEN x ELSE y
BY DEF Min

(* The text ends before its first zero. *)
LEMMA CStringIs ==
  ASSUME NEW s \in Seq(Bytes), NEW m \in 1..Len(s), s[m] = 0,
         \A i \in 1..(m - 1) : s[i] # 0
  PROVE  CString(s) = SubSeq(s, 1, m - 1)
<1> DEFINE zeros == {i \in DOMAIN s : s[i] = 0}
<1>1. DOMAIN s = 1..Len(s) /\ Len(s) \in Nat
  OBVIOUS
<1>2. m \in zeros /\ zeros \in SUBSET Nat
  BY <1>1
<1>3. \A i \in zeros : m <= i
  BY <1>1
<1>4. Min(zeros) = m
  <2>1. Min(zeros) \in zeros /\ Min(zeros) <= m
    BY <1>2, LeastExists
  <2> QED BY <1>2, <1>3, <2>1
<1> QED BY <1>2, <1>4 DEF CString

LEMMA PrefixType ==
  ASSUME NEW s \in Seq(Bytes), NEW n \in 0..Len(s)
  PROVE  /\ SubSeq(s, 1, n) \in Seq(Bytes)
         /\ Len(SubSeq(s, 1, n)) = n
         /\ \A i \in 1..n : SubSeq(s, 1, n)[i] = s[i]
<1>1. n \in Int /\ 1 \in Int
  OBVIOUS
<1>2. \A i \in 1..n : s[i] \in Bytes
  BY ElementOfSeq
<1>3. /\ SubSeq(s, 1, n) \in Seq(Bytes)
      /\ Len(SubSeq(s, 1, n)) = IF 1 <= n THEN n - 1 + 1 ELSE 0
      /\ \A i \in 1..(n - 1 + 1) : SubSeq(s, 1, n)[i] = s[1 + i - 1]
  BY <1>1, <1>2, SubSeqProperties
<1> QED BY <1>3

(* Equal up to and with the first zero, equal as texts. *)
LEMMA SameCString ==
  ASSUME NEW s \in Seq(Bytes), NEW t \in Seq(Bytes), NEW n \in Nat \ {0},
         n <= Len(s), n <= Len(t), s[n] = 0, \A i \in 1..n : s[i] = t[i]
  PROVE  CString(s) = CString(t)
<1> DEFINE zeros == {i \in 1..n : s[i] = 0}
           m == Min(zeros)
<1>1. n \in zeros /\ zeros \in SUBSET Nat
  OBVIOUS
<1>2. m \in zeros /\ \A i \in zeros : m <= i
  BY <1>1, LeastExists
<1> HIDE DEF m
<1>3. m \in 1..Len(s) /\ m \in 1..Len(t) /\ m <= n /\ s[m] = 0 /\ t[m] = 0
  BY <1>2
<1>4. \A i \in 1..(m - 1) : s[i] # 0 /\ t[i] # 0
  BY <1>2, <1>3
<1>5. CString(s) = SubSeq(s, 1, m - 1) /\ CString(t) = SubSeq(t, 1, m - 1)
  BY <1>3, <1>4, CStringIs
<1>6. m - 1 \in 0..Len(s) /\ m - 1 \in 0..Len(t)
  BY <1>3
<1>7. SubSeq(s, 1, m - 1) = SubSeq(t, 1, m - 1)
  <2>1. \A i \in 1..(m - 1) : SubSeq(s, 1, m - 1)[i] = s[i] /\ SubSeq(t, 1, m - 1)[i] = t[i]
    BY <1>6, PrefixType
  <2>2. \A i \in 1..(m - 1) : s[i] = t[i]
    BY <1>3
  <2>3. /\ SubSeq(s, 1, m - 1) \in Seq(Bytes) /\ SubSeq(t, 1, m - 1) \in Seq(Bytes)
        /\ Len(SubSeq(s, 1, m - 1)) = m - 1 /\ Len(SubSeq(t, 1, m - 1)) = m - 1
    BY <1>6, PrefixType
  <2> QED BY <2>1, <2>2, <2>3, SeqEqual
<1> QED BY <1>5, <1>7

LEMMA ZerosType ==
  ASSUME NEW n \in Nat
  PROVE  [i \in 1..n |-> 0] \in Seq(Bytes) /\ Len([i \in 1..n |-> 0]) = n
BY WireAssumption DEF Bytes

(* A padded text has the length asked for, and reads as its first          *)
(* maxLen - 1 bytes with a zero after them.                                *)
LEMMA PaddedIs ==
  ASSUME NEW s \in Seq(Bytes), NEW n \in Nat \ {0}
  PROVE  /\ Padded(s, n) \in Seq(Bytes)
         /\ Len(Padded(s, n)) = n
         /\ CString(Padded(s, n)) = CString(SubSeq(s, 1, Min({Len(s), n - 1})) \o <<0>>)
<1> DEFINE len == Min({Len(s), n - 1})
           p == SubSeq(s, 1, len)
           z == [i \in 1..(n - len) |-> 0]
<1>1. len \in Nat /\ len <= Len(s) /\ len <= n - 1
  BY MinOfTwo
<1> HIDE DEF len
<1>2. p \in Seq(Bytes) /\ Len(p) = len
  BY <1>1, PrefixType
<1>3. z \in Seq(Bytes) /\ Len(z) = n - len /\ z[1] = 0
  BY <1>1, ZerosType
<1>4. <<0>> \in Seq(Bytes) /\ Len(<<0>>) = 1 /\ <<0>>[1] = 0
  BY WireAssumption DEF Bytes
<1>5. Padded(s, n) = p \o z
  BY DEF Padded, len
<1> HIDE DEF p, z
<1>6. /\ p \o z \in Seq(Bytes) /\ Len(p \o z) = n
      /\ \A i \in 1..n : (p \o z)[i] = IF i <= len THEN p[i] ELSE z[i - len]
  <2>1. /\ p \o z \in Seq(Bytes) /\ Len(p \o z) = Len(p) + Len(z)
        /\ \A i \in 1..(Len(p) + Len(z)) : (p \o z)[i] = IF i <= Len(p) THEN p[i] ELSE z[i - Len(p)]
    BY <1>2, <1>3, ConcatProperties
  <2>2. Len(p) + Len(z) = n
    BY <1>1, <1>2, <1>3
  <2> QED BY <1>2, <2>1, <2>2
<1>7. /\ p \o <<0>> \in Seq(Bytes) /\ Len(p \o <<0>>) = len + 1
      /\ \A i \in 1..(len + 1) : (p \o <<0>>)[i] = IF i <= len THEN p[i] ELSE 0
  <2>1. /\ p \o <<0>> \in Seq(Bytes) /\ Len(p \o <<0>>) = Len(p) + Len(<<0>>)
        /\ \A i \in 1..(Len(p) + Len(<<0>>)) :
             (p \o <<0>>)[i] = IF i <= Len(p) THEN p[i] ELSE <<0>>[i - Len(p)]
    BY <1>2, <1>4, ConcatProperties
  <2>2. \A i \in 1..(len + 1) : ~(i <= len) => <<0>>[i - len] = 0
    BY <1>1, <1>4
  <2> QED BY <1>2, <1>4, <2>1, <2>2
<1>8. CString(p \o z) = CString(p \o <<0>>)
  <2>1. len + 1 \in Nat \ {0} /\ len + 1 <= n /\ ~(len + 1 <= len) /\ len + 1 - len = 1
    BY <1>1
  <2>2. (p \o z)[len + 1] = 0
    <3>1. PICK j \in 1..n : j = len + 1
      BY <2>1
    <3>2. (p \o z)[j] = z[j - len]
      BY <1>1, <1>6, <3>1
    <3>3. j - len = 1
      BY <1>1, <3>1
    <3> QED BY <1>3, <3>1, <3>2, <3>3
  <2>3. \A i \in 1..(len + 1) : (p \o z)[i] = (p \o <<0>>)[i]
    <3> SUFFICES ASSUME NEW i \in 1..(len + 1) PROVE (p \o z)[i] = (p \o <<0>>)[i]
      OBVIOUS
    <3>1. CASE i <= len
      BY <1>1, <1>6, <1>7, <3>1
    <3>2. CASE ~(i <= len)
      <4>1. i = len + 1
        BY <1>1, <3>2
      <4> QED BY <1>7, <2>2, <3>2, <4>1
    <3> QED BY <3>1, <3>2
  <2>4. len + 1 <= Len(p \o z) /\ len + 1 <= Len(p \o <<0>>)
    BY <1>1, <1>6, <1>7
  <2>5. p \o z \in Seq(Bytes) /\ p \o <<0>> \in Seq(Bytes)
    BY <1>6, <1>7
  <2> HIDE DEF z
  <2> QED BY <2>1, <2>2, <2>3, <2>4, <2>5, SameCString
<1> QED BY <1>5, <1>6, <1>8 DEF p, len

---------------------------------------------------------------------------
(* The fields of a buffer. *)

(* What a field is, by its type. *)
IsUint(f)   == f.type = "uint" /\ f.len \in {1, 2, 4} /\ f.val \in 0..(Width(f.len) - 1)
IsInt(f)    == f.type = "int" /\ f.len = 4 /\ f.val \in Int32s
IsString(f) == f.type = "string" /\ f.val \in Seq(Bytes) /\ f.len \in Nat
IsBytes(f)  == f.type = "bytes" /\ f.val \in Seq(Bytes) /\ f.len = Len(f.val)

LEMMA FieldKinds ==
  ASSUME NEW f \in Fields
  PROVE  IsUint(f) \/ IsInt(f) \/ IsString(f) \/ IsBytes(f)
<1>1. CASE f \in [type : {"uint"}, val : Uint8s, len : {1}]
  <2>1. f.val \in 0..(Width(1) - 1)
    BY <1>1, FieldAssumption, PlaceValues
  <2> QED BY <1>1, <2>1 DEF IsUint
<1>2. CASE f \in [type : {"uint"}, val : Uint16s, len : {2}]
  BY <1>2, FieldAssumption DEF IsUint
<1>3. CASE f \in [type : {"uint"}, val : Uint32s, len : {4}]
  BY <1>3, FieldAssumption DEF IsUint
<1>4. CASE f \in [type : {"int"}, val : Int32s, len : {4}]
  BY <1>4 DEF IsInt
<1>5. CASE f \in [type : {"string"}, val : Texts, len : FixedLens \cup {0}]
  <2>1. f.type = "string" /\ f.val \in Texts /\ f.len \in FixedLens \cup {0}
    BY <1>5
  <2>2. f.val \in Seq(Bytes) /\ f.len \in Nat
    <3>1. Texts \subseteq Seq(Bytes) /\ FixedLens \subseteq Nat
      BY FieldAssumption
    <3>2. f.len \in FixedLens \/ f.len = 0
      BY <2>1
    <3>3. f.len \in Nat
      <4>1. CASE f.len \in FixedLens
        BY <3>1, <4>1, Zenon
      <4>2. CASE f.len = 0
        BY <4>2
      <4> QED BY <3>2, <4>1, <4>2
    <3>4. f.val \in Seq(Bytes)
      BY <2>1, <3>1, Zenon
    <3> QED BY <3>3, <3>4
  <2> QED BY <2>1, <2>2 DEF IsString
<1>6. CASE f \in {[type |-> "bytes", val |-> x, len |-> Len(x)] : x \in Texts}
  BY <1>6, FieldAssumption DEF IsBytes
<1> QED BY <1>1, <1>2, <1>3, <1>4, <1>5, <1>6 DEF Fields

(* The bytes each kind of field is written as. *)
Bytecode(f) ==
  CASE f.type = "uint"   -> LittleEndian(f.val, f.len)
    [] f.type = "int"    -> LittleEndian(f.val % Width(4), 4)
    [] f.type = "string" -> IF f.len > 0 THEN Padded(f.val, f.len)
                            ELSE LittleEndian(Len(f.val), 2) \o f.val
    [] f.type = "bytes"  -> f.val

LEMMA UintBytes ==
  ASSUME NEW f, IsUint(f)
  PROVE  /\ LittleEndian(f.val, f.len) \in Seq(Bytes)
         /\ Len(LittleEndian(f.val, f.len)) = f.len
<1>1. f.len \in 1..4 /\ f.val \in Nat
  BY PlaceValues DEF IsUint
<1> QED BY <1>1, LittleEndianType

LEMMA IntBytes ==
  ASSUME NEW f, IsInt(f)
  PROVE  /\ f.val % Width(4) \in 0..(Width(4) - 1) /\ Signed(f.val % Width(4)) = f.val
         /\ LittleEndian(f.val % Width(4), 4) \in Seq(Bytes)
         /\ Len(LittleEndian(f.val % Width(4), 4)) = 4
<1>1. f.val \in Int /\ -Width(4) <= 2 * f.val /\ 2 * f.val < Width(4)
  BY FieldAssumption DEF IsInt
<1>2. f.val % Width(4) \in 0..(Width(4) - 1) /\ Signed(f.val % Width(4)) = f.val
  BY <1>1, SignedBack
<1>3. f.val % Width(4) \in Nat /\ 4 \in 1..4
  BY <1>2
<1> QED BY <1>2, <1>3, LittleEndianType

LEMMA StringBytes ==
  ASSUME NEW f, IsString(f)
  PROVE  /\ f.len > 0 => Padded(f.val, f.len) \in Seq(Bytes) /\ Len(Padded(f.val, f.len)) = f.len
         /\ LittleEndian(Len(f.val), 2) \in Seq(Bytes) /\ Len(LittleEndian(Len(f.val), 2)) = 2
         /\ LittleEndian(Len(f.val), 2) \o f.val \in Seq(Bytes)
<1>1. f.len > 0 => Padded(f.val, f.len) \in Seq(Bytes) /\ Len(Padded(f.val, f.len)) = f.len
  <2> SUFFICES ASSUME f.len > 0
               PROVE  Padded(f.val, f.len) \in Seq(Bytes) /\ Len(Padded(f.val, f.len)) = f.len
    OBVIOUS
  <2>1. f.val \in Seq(Bytes) /\ f.len \in Nat \ {0}
    BY DEF IsString
  <2> QED BY <2>1, PaddedIs
<1>2. Len(f.val) \in Nat /\ 2 \in 1..4
  BY DEF IsString
<1>3. LittleEndian(Len(f.val), 2) \in Seq(Bytes) /\ Len(LittleEndian(Len(f.val), 2)) = 2
  BY <1>2, LittleEndianType
<1>4. LittleEndian(Len(f.val), 2) \o f.val \in Seq(Bytes)
  BY <1>3, ConcatProperties DEF IsString
<1> QED BY <1>1, <1>3, <1>4

LEMMA WriteAppends ==
  ASSUME NEW b \in Buffers, NEW f \in Fields
  PROVE  Bytecode(f) \in Seq(Bytes) /\ Write(b, f) = Put(b, Bytecode(f))
<1>1. CASE IsUint(f)
  <2>1. Bytecode(f) = LittleEndian(f.val, f.len) /\ Write(b, f) = WriteUint(b, f.val, f.len)
    BY <1>1 DEF IsUint, Bytecode, Write
  <2> QED BY <1>1, <2>1, UintBytes DEF WriteUint
<1>2. CASE IsInt(f)
  <2>1. Bytecode(f) = LittleEndian(f.val % Width(4), 4) /\ Write(b, f) = WriteInt(b, f.val)
    BY <1>2 DEF IsInt, Bytecode, Write
  <2> QED BY <1>2, <2>1, IntBytes DEF WriteUint, WriteInt
<1>3. CASE IsString(f)
  <2>1. Bytecode(f) = (IF f.len > 0 THEN Padded(f.val, f.len)
                       ELSE LittleEndian(Len(f.val), 2) \o f.val)
    BY <1>3 DEF IsString, Bytecode
  <2>2. Write(b, f) = WriteString(b, f.val, f.len)
    BY <1>3 DEF IsString, Write
  <2>3. CASE f.len > 0
    BY <1>3, <2>1, <2>2, <2>3, StringBytes DEF WriteString
  <2>4. CASE ~(f.len > 0)
    <3>1. Put(Put(b, LittleEndian(Len(f.val), 2)), f.val) = Put(b, LittleEndian(Len(f.val), 2) \o f.val)
      BY <1>3, StringBytes, PutPut DEF IsString
    <3> QED BY <1>3, <2>1, <2>2, <2>4, <3>1, StringBytes DEF WriteString, WriteUint
  <2> QED BY <2>3, <2>4
<1>4. CASE IsBytes(f)
  <2>1. Bytecode(f) = f.val /\ Write(b, f) = WriteBytes(b, f.val)
    BY <1>4 DEF IsBytes, Bytecode, Write
  <2> QED BY <1>4, <2>1 DEF IsBytes, WriteBytes
<1> QED BY <1>1, <1>2, <1>3, <1>4, FieldKinds

LEMMA EncodingIs ==
  ASSUME NEW f \in Fields
  PROVE  Encoding(f) = Bytecode(f) /\ Encoding(f) \in Seq(Bytes)
<1>1. Buffer(<<>>) \in Buffers /\ Buffer(<<>>).data = <<>>
  BY DEF Buffer, Buffers
<1>2. Bytecode(f) \in Seq(Bytes) /\ Write(Buffer(<<>>), f) = Put(Buffer(<<>>), Bytecode(f))
  BY <1>1, WriteAppends
<1>3. Put(Buffer(<<>>), Bytecode(f)).data = <<>> \o Bytecode(f)
  BY <1>1, <1>2, PutType
<1>4. <<>> \o Bytecode(f) = Bytecode(f)
  BY <1>2, ConcatEmptySeq
<1> QED BY <1>2, <1>3, <1>4 DEF Encoding

(* The bytes of a field, lying at the position, are read as the field, and *)
(* all of them are passed.                                                 *)
LEMMA UintBack ==
  ASSUME NEW b \in Buffers, NEW n \in {1, 2, 4}, NEW v \in 0..(Width(n) - 1),
         b.pos + n <= Len(b.data),
         \A i \in 1..n : b.data[b.pos + i] = LittleEndian(v, n)[i]
  PROVE  ReadUint(b, n) = Got(v, Advance(b, n))
<1>1. v \in Nat /\ n \in 1..4
  BY PlaceValues
<1>2. LittleEndian(v, n) \in Seq(Bytes) /\ Len(LittleEndian(v, n)) = n
  BY <1>1, LittleEndianType
<1>3. ~Short(b, n) /\ Field(b, n) = LittleEndian(v, n)
  BY <1>2, FieldIs
<1>4. FromBytes(LittleEndian(v, n)) = v
  BY FromLittleEndian
<1> QED BY <1>3, <1>4 DEF ReadUint

LEMMA BytesBack ==
  ASSUME NEW b \in Buffers, NEW e \in Seq(Bytes),
         b.pos + Len(e) <= Len(b.data),
         \A i \in 1..Len(e) : b.data[b.pos + i] = e[i]
  PROVE  ReadBytes(b, Len(e)) = Got(e, Advance(b, Len(e)))
BY FieldIs DEF ReadBytes

(* The bytes of e lie in data after place p. *)
LiesAt(e, data, p) ==
  p + Len(e) <= Len(data) /\ \A i \in 1..Len(e) : data[p + i] = e[i]

LEMMA LiesParts ==
  ASSUME NEW d \in Seq(Bytes), NEW e \in Seq(Bytes), NEW data, Len(data) \in Nat, NEW p \in Nat,
         LiesAt(d \o e, data, p)
  PROVE  LiesAt(d, data, p) /\ LiesAt(e, data, p + Len(d))
<1>1. /\ Len(d \o e) = Len(d) + Len(e)
      /\ \A i \in 1..(Len(d) + Len(e)) : (d \o e)[i] = IF i <= Len(d) THEN d[i] ELSE e[i - Len(d)]
  BY ConcatProperties
<1>2. Len(d) \in Nat /\ Len(e) \in Nat
  OBVIOUS
<1>3. p + (Len(d) + Len(e)) <= Len(data)
      /\ \A i \in 1..(Len(d) + Len(e)) : data[p + i] = (d \o e)[i]
  BY <1>1 DEF LiesAt
<1>4. ASSUME NEW i \in 1..Len(d) PROVE data[p + i] = d[i]
  <2>1. i \in 1..(Len(d) + Len(e)) /\ i <= Len(d)
    BY <1>2
  <2> QED BY <1>1, <1>3, <2>1
<1>5. ASSUME NEW i \in 1..Len(e) PROVE data[p + Len(d) + i] = e[i]
  <2>1. PICK j \in 1..(Len(d) + Len(e)) : j = Len(d) + i
    BY <1>2
  <2>2. ~(j <= Len(d)) /\ j - Len(d) = i /\ p + Len(d) + i = p + j
    BY <1>2, <2>1
  <2>3. data[p + j] = e[j - Len(d)]
    BY <1>1, <1>3, <2>2
  <2> QED BY <2>2, <2>3
<1> QED BY <1>2, <1>3, <1>4, <1>5 DEF LiesAt

(* Bytes appended leave those before them, and lie after them. *)
LEMMA LiesStill ==
  ASSUME NEW g \in Seq(Bytes), NEW data \in Seq(Bytes), NEW e \in Seq(Bytes), NEW p \in Nat,
         LiesAt(g, data, p)
  PROVE  LiesAt(g, data \o e, p)
<1>1. /\ Len(data \o e) = Len(data) + Len(e)
      /\ \A i \in 1..(Len(data) + Len(e)) :
           (data \o e)[i] = IF i <= Len(data) THEN data[i] ELSE e[i - Len(data)]
  BY ConcatProperties
<1>2. Len(data) \in Nat /\ Len(e) \in Nat /\ Len(g) \in Nat /\ p + Len(g) <= Len(data)
  BY DEF LiesAt
<1>3. ASSUME NEW i \in 1..Len(g) PROVE (data \o e)[p + i] = g[i]
  <2>1. PICK j \in 1..(Len(data) + Len(e)) : j = p + i /\ j <= Len(data)
    BY <1>2
  <2>2. (data \o e)[j] = data[j]
    BY <1>1, <2>1
  <2> QED BY <2>1, <2>2 DEF LiesAt
<1> QED BY <1>1, <1>2, <1>3 DEF LiesAt

LEMMA LiesLast ==
  ASSUME NEW data \in Seq(Bytes), NEW e \in Seq(Bytes)
  PROVE  LiesAt(e, data \o e, Len(data))
<1>1. /\ Len(data \o e) = Len(data) + Len(e)
      /\ \A i \in 1..(Len(data) + Len(e)) :
           (data \o e)[i] = IF i <= Len(data) THEN data[i] ELSE e[i - Len(data)]
  BY ConcatProperties
<1>2. Len(data) \in Nat /\ Len(e) \in Nat
  OBVIOUS
<1>3. ASSUME NEW i \in 1..Len(e) PROVE (data \o e)[Len(data) + i] = e[i]
  <2>1. PICK j \in 1..(Len(data) + Len(e)) : j = Len(data) + i
    BY <1>2
  <2>2. ~(j <= Len(data)) /\ j - Len(data) = i
    BY <1>2, <2>1
  <2>3. (data \o e)[j] = e[j - Len(data)]
    BY <1>1, <2>2
  <2> QED BY <2>1, <2>2, <2>3
<1> QED BY <1>1, <1>2, <1>3 DEF LiesAt

(* The round trip: a read of a field's own type, at the place where the    *)
(* field's encoding lies in m_data, returns what was written and advances  *)
(* m_readPos by exactly the bytes of the encoding.                         *)
THEOREM ReadBack ==
  ASSUME NEW b \in Buffers, NEW f \in Fields, ~TooLong(f),
         LiesAt(Encoding(f), b.data, b.pos)
  PROVE  Read(b, f) = Got(Shown(f), Advance(b, Len(Encoding(f))))
<1>1. LiesAt(Bytecode(f), b.data, b.pos) /\ Encoding(f) = Bytecode(f)
  BY EncodingIs
<1>2. b.data \in Seq(Bytes) /\ b.pos \in Nat /\ Len(b.data) \in Nat
  BY DEF Buffers
<1>3. CASE IsUint(f)
  <2>1. Bytecode(f) = LittleEndian(f.val, f.len) /\ Read(b, f) = ReadUint(b, f.len) /\ Shown(f) = f.val
    BY <1>3 DEF IsUint, Bytecode, Read, Shown
  <2>2. Len(Bytecode(f)) = f.len
    BY <1>3, <2>1, UintBytes
  <2>3. ReadUint(b, f.len) = Got(f.val, Advance(b, f.len))
    BY <1>1, <1>3, <2>1, <2>2, UintBack DEF LiesAt, IsUint
  <2> QED BY <1>1, <2>1, <2>2, <2>3
<1>4. CASE IsInt(f)
  <2> DEFINE u == f.val % Width(4)
  <2>1. Bytecode(f) = LittleEndian(u, 4) /\ Read(b, f) = ReadInt(b) /\ Shown(f) = f.val
    BY <1>4 DEF IsInt, Bytecode, Read, Shown
  <2>2. u \in 0..(Width(4) - 1) /\ Signed(u) = f.val /\ Len(Bytecode(f)) = 4
    BY <1>4, <2>1, IntBytes
  <2> HIDE DEF u
  <2>3. ReadUint(b, 4) = Got(u, Advance(b, 4))
    BY <1>1, <2>1, <2>2, UintBack DEF LiesAt
  <2>4. ReadInt(b) = Got(Signed(u), Advance(b, 4))
    BY <2>3 DEF ReadInt, Got
  <2> QED BY <1>1, <2>1, <2>2, <2>4
<1>5. CASE IsString(f) /\ f.len > 0
  <2> DEFINE e == Padded(f.val, f.len)
  <2>1. Bytecode(f) = e /\ Read(b, f) = ReadString(b, f.len)
    BY <1>5 DEF IsString, Bytecode, Read
  <2>2. f.val \in Seq(Bytes) /\ f.len \in Nat \ {0}
    BY <1>5 DEF IsString
  <2>3. e \in Seq(Bytes) /\ Len(e) = f.len
        /\ CString(e) = CString(SubSeq(f.val, 1, Min({Len(f.val), f.len - 1})) \o <<0>>)
    BY <2>2, PaddedIs
  <2>4. Shown(f) = CString(e)
    BY <1>5, <2>3 DEF Shown, IsString
  <2> HIDE DEF e
  <2>5. ~Short(b, f.len) /\ Field(b, f.len) = e
    BY <1>1, <2>1, <2>3, FieldIs DEF LiesAt
  <2>6. ReadString(b, f.len) = Got(CString(e), Advance(b, f.len))
    BY <1>5, <2>5 DEF ReadString
  <2> QED BY <1>1, <2>1, <2>3, <2>4, <2>6
<1>6. CASE IsString(f) /\ ~(f.len > 0)
  <2> DEFINE d == LittleEndian(Len(f.val), 2)
             c == Advance(b, 2)
  <2>1. /\ f.len = 0 /\ f.val \in Seq(Bytes) /\ Len(f.val) \in 0..(Width(2) - 1)
        /\ Bytecode(f) = d \o f.val /\ Read(b, f) = ReadString(b, 0) /\ Shown(f) = f.val
    <3>1. f.len = 0 /\ f.val \in Seq(Bytes) /\ Len(f.val) \in Nat /\ f.type = "string"
      BY <1>6 DEF IsString
    <3>2. Len(f.val) < Width(2)
      BY <3>1, PlaceValues DEF TooLong
    <3>3. Len(f.val) \in 0..(Width(2) - 1)
      <4>1. PICK w \in Nat, l \in Nat : w = Width(2) /\ l = Len(f.val)
        BY <3>1, PlaceValues
      <4> QED BY <3>2, <4>1
    <3>4. Bytecode(f) = d \o f.val
      <4>1. Bytecode(f) = IF f.len > 0 THEN Padded(f.val, f.len) ELSE d \o f.val
        BY <3>1 DEF Bytecode
      <4>2. ~(f.len > 0)
        BY <3>1
      <4> HIDE DEF d
      <4> QED BY <4>1, <4>2
    <3>5. Read(b, f) = ReadString(b, 0)
      BY <3>1 DEF Read
    <3>6. Shown(f) = f.val
      BY <3>1 DEF Shown
    <3> QED BY <3>1, <3>3, <3>4, <3>5, <3>6
  <2>2. d \in Seq(Bytes) /\ Len(d) = 2
    BY <1>6, StringBytes
  <2>3. LiesAt(d, b.data, b.pos) /\ LiesAt(f.val, b.data, b.pos + 2)
    <3>1. LiesAt(d \o f.val, b.data, b.pos)
      BY <1>1, <2>1
    <3> HIDE DEF d
    <3> QED BY <1>2, <2>1, <2>2, <3>1, LiesParts
  <2>4. ReadUint(b, 2) = Got(Len(f.val), c)
    BY <2>1, <2>2, <2>3, UintBack DEF LiesAt
  <2>5. c \in Buffers /\ c.data = b.data /\ c.pos = b.pos + 2
    BY AdvanceType
  <2>6. ReadBytes(c, Len(f.val)) = Got(f.val, Advance(c, Len(f.val)))
    <3> HIDE DEF c, d
    <3>1. f.val \in Seq(Bytes) /\ LiesAt(f.val, c.data, c.pos)
      BY <2>1, <2>3, <2>5
    <3>2. /\ c.pos + Len(f.val) <= Len(c.data)
          /\ \A i \in 1..Len(f.val) : c.data[c.pos + i] = f.val[i]
      BY <3>1 DEF LiesAt
    <3> QED BY <2>5, <3>1, <3>2, BytesBack
  <2>7. ReadString(b, 0) = Got(f.val, Advance(c, Len(f.val)))
    <3> HIDE DEF c, d
    <3> QED BY <2>4, <2>6 DEF ReadString, Got
  <2>8. Len(Bytecode(f)) = 2 + Len(f.val)
    <3> HIDE DEF d
    <3>1. Len(d \o f.val) = Len(d) + Len(f.val)
      BY <2>1, <2>2, ConcatProperties
    <3> QED BY <2>1, <2>2, <3>1
  <2>9. Advance(c, Len(f.val)) = Advance(b, 2 + Len(f.val))
    <3>1. Len(f.val) \in Nat
      BY <2>1
    <3>2. PICK k \in Nat : k = Len(f.val)
      BY <3>1
    <3>3. Advance(Advance(b, 2), k) = Advance(b, 2 + k)
      <4>1. Advance(b, 2) \in Buffers /\ Advance(b, 2).data = b.data /\ Advance(b, 2).pos = b.pos + 2
        BY AdvanceType
      <4>2. /\ Advance(Advance(b, 2), k) \in Buffers
            /\ Advance(Advance(b, 2), k).data = b.data
            /\ Advance(Advance(b, 2), k).pos = b.pos + 2 + k
        BY <4>1, AdvanceType
      <4>3. /\ Advance(b, 2 + k) \in Buffers
            /\ Advance(b, 2 + k).data = b.data
            /\ Advance(b, 2 + k).pos = b.pos + (2 + k)
        BY AdvanceType
      <4> QED BY <1>2, <4>2, <4>3, BufferEqual
    <3> QED BY <3>2, <3>3
  <2> QED BY <1>1, <2>1, <2>7, <2>8, <2>9
<1>7. CASE IsBytes(f)
  <2>1. Bytecode(f) = f.val /\ Read(b, f) = ReadBytes(b, Len(f.val)) /\ Shown(f) = f.val
    BY <1>7 DEF IsBytes, Bytecode, Read, Shown
  <2> QED BY <1>1, <1>7, <2>1, BytesBack DEF LiesAt, IsBytes
<1> QED BY <1>3, <1>4, <1>5, <1>6, <1>7, FieldKinds

---------------------------------------------------------------------------
(* Whatever is read, the position stays in the buffer. *)
Within(b) == b \in Buffers /\ b.pos <= Len(b.data)

LEMMA AdvanceWithin ==
  ASSUME NEW b, Within(b), NEW n \in Nat, ~Short(b, n)
  PROVE  Within(Advance(b, n)) /\ Advance(b, n).data = b.data
<1>1. b \in Buffers /\ b.pos \in Nat /\ Len(b.data) \in Nat
  BY DEF Within, Buffers
<1>2. b.pos + n <= Len(b.data)
  BY <1>1 DEF Short
<1> QED BY <1>1, <1>2, AdvanceType DEF Within

LEMMA ReadUintWithin ==
  ASSUME NEW b, Within(b), NEW n \in 1..4
  PROVE  /\ Within(ReadUint(b, n).buf) /\ ReadUint(b, n).buf.data = b.data
         /\ ReadUint(b, n).val \in Nat
         /\ b.pos = Len(b.data) => ReadUint(b, n).buf = b
<1>1. b \in Buffers /\ b.pos \in Nat /\ Len(b.data) \in Nat
  BY DEF Within, Buffers
<1>2. b.pos = Len(b.data) => Short(b, n)
  BY <1>1 DEF Short
<1>3. CASE Short(b, n)
  BY <1>3 DEF ReadUint, Got
<1>4. CASE ~Short(b, n)
  <2>1. Field(b, n) \in Seq(Bytes)
    BY <1>1, <1>4, FieldType
  <2>2. FromBytes(Field(b, n)) \in Nat
    BY <2>1, FromBytesType
  <2>3. ReadUint(b, n) = Got(FromBytes(Field(b, n)), Advance(b, n))
    BY <1>4 DEF ReadUint
  <2>4. Within(Advance(b, n)) /\ Advance(b, n).data = b.data
    BY <1>4, AdvanceWithin
  <2> QED BY <1>2, <1>4, <2>2, <2>3, <2>4 DEF Got
<1> QED BY <1>3, <1>4

LEMMA ReadBytesWithin ==
  ASSUME NEW b, Within(b), NEW n \in Nat
  PROVE  /\ Within(ReadBytes(b, n).buf) /\ ReadBytes(b, n).buf.data = b.data
         /\ b.pos = Len(b.data) => ReadBytes(b, n).buf = b
<1>1. b \in Buffers /\ b.pos \in Nat /\ Len(b.data) \in Nat
  BY DEF Within, Buffers
<1>2. CASE Short(b, n)
  BY <1>2 DEF ReadBytes, Got
<1>3. CASE ~Short(b, n)
  <2>1. ReadBytes(b, n).buf = Advance(b, n)
    BY <1>3 DEF ReadBytes, Got
  <2>2. Within(Advance(b, n)) /\ Advance(b, n).data = b.data
    BY <1>3, AdvanceWithin
  <2>3. ASSUME b.pos = Len(b.data) PROVE Advance(b, n) = b
    <3>1. n = 0
      BY <1>1, <1>3, <2>3 DEF Short
    <3>2. Advance(b, n) \in Buffers /\ Advance(b, n).data = b.data /\ Advance(b, n).pos = b.pos
      BY <1>1, <3>1, AdvanceType
    <3> QED BY <1>1, <3>2, BufferEqual
  <2> QED BY <2>1, <2>2, <2>3
<1> QED BY <1>2, <1>3

LEMMA ReadWithin ==
  ASSUME NEW b, Within(b), NEW f \in Fields
  PROVE  /\ Within(Read(b, f).buf) /\ Read(b, f).buf.data = b.data
         /\ b.pos = Len(b.data) => Read(b, f).buf = b
<1>1. CASE IsUint(f)
  <2>1. Read(b, f) = ReadUint(b, f.len) /\ f.len \in 1..4
    BY <1>1 DEF IsUint, Read
  <2> QED BY <2>1, ReadUintWithin
<1>2. CASE IsInt(f)
  <2>1. Read(b, f) = ReadInt(b) /\ 4 \in 1..4
    BY <1>2 DEF IsInt, Read
  <2>2. ReadInt(b).buf = ReadUint(b, 4).buf
    BY DEF ReadInt, Got
  <2> QED BY <2>1, <2>2, ReadUintWithin
<1>3. CASE IsString(f) /\ f.len > 0
  <2>1. Read(b, f) = ReadString(b, f.len) /\ f.len \in Nat
    BY <1>3 DEF IsString, Read
  <2>2. ReadString(b, f.len).buf = ReadBytes(b, f.len).buf
    BY <1>3 DEF ReadString, ReadBytes, Got
  <2>3. /\ Within(ReadBytes(b, f.len).buf) /\ ReadBytes(b, f.len).buf.data = b.data
        /\ b.pos = Len(b.data) => ReadBytes(b, f.len).buf = b
    BY <2>1, ReadBytesWithin
  <2> QED BY <2>1, <2>2, <2>3
<1>4. CASE IsString(f) /\ ~(f.len > 0)
  <2> DEFINE r == ReadUint(b, 2)
  <2>1. Read(b, f) = ReadBytes(r.buf, r.val)
    BY <1>4 DEF IsString, Read, ReadString
  <2>2. /\ Within(r.buf) /\ r.buf.data = b.data /\ r.val \in Nat
        /\ b.pos = Len(b.data) => r.buf = b
    BY ReadUintWithin
  <2> HIDE DEF r
  <2>3. /\ Within(ReadBytes(r.buf, r.val).buf) /\ ReadBytes(r.buf, r.val).buf.data = r.buf.data
        /\ r.buf.pos = Len(r.buf.data) => ReadBytes(r.buf, r.val).buf = r.buf
    BY <2>2, ReadBytesWithin
  <2> QED BY <2>1, <2>2, <2>3
<1>5. CASE IsBytes(f)
  <2>1. Read(b, f) = ReadBytes(b, f.len) /\ f.len \in Nat
    BY <1>5 DEF IsBytes, Read
  <2> QED BY <2>1, ReadBytesWithin
<1> QED BY <1>1, <1>2, <1>3, <1>4, <1>5, FieldKinds

---------------------------------------------------------------------------
(* cut[i] is the place where the i-th field starts. *)
Cuts(cut) ==
  /\ cut[1] = 0
  /\ cut[Len(fields) + 1] = Len(buf.data)
  /\ \A i \in 1..Len(fields) :
       /\ LiesAt(Encoding(fields[i]), buf.data, cut[i])
       /\ cut[i + 1] = cut[i] + Len(Encoding(fields[i]))
  /\ ~Lost => buf.pos = cut[next]

Layout == \E cut \in [Nat -> Nat] : Cuts(cut)

IInv == TypeOK /\ Layout /\ FieldsArrive /\ StopsAtNothing

LEMMA InitIInv == Init => IInv
<1> SUFFICES ASSUME Init PROVE IInv
  OBVIOUS
<1>1. TypeOK
  BY DEF Init, TypeOK, Buffer, Buffers
<1>2. Layout
  <2> DEFINE cut == [i \in Nat |-> 0]
  <2>1. cut \in [Nat -> Nat]
    OBVIOUS
  <2>2. Cuts(cut)
    BY DEF Init, Cuts, Buffer
  <2> QED BY <2>1, <2>2 DEF Layout
<1>3. FieldsArrive /\ StopsAtNothing
  BY DEF Init, FieldsArrive, StopsAtNothing
<1> QED BY <1>1, <1>2, <1>3 DEF IInv

(* A field appended after the others. *)
LEMMA WriteLayout ==
  ASSUME TypeOK, Layout, FieldsArrive, NEW f \in Fields, WriteField(f)
  PROVE  TypeOK' /\ Layout' /\ FieldsArrive'
<1> DEFINE n == Len(fields)
           e == Encoding(f)
<1>1. /\ buf \in Buffers /\ buf.data \in Seq(Bytes) /\ buf.pos \in Nat
      /\ fields \in Seq(Fields) /\ n = Len(fields) /\ n \in Nat /\ next \in 1..(n + 1)
      /\ Len(buf.data) \in Nat
  BY DEF TypeOK, Buffers
<1> HIDE DEF n
<1>2. e \in Seq(Bytes) /\ Len(e) \in Nat
  BY EncodingIs
<1>3. /\ buf' = Put(buf, e) /\ fields' = Append(fields, f) /\ next' = next /\ got' = got /\ status' = status
  BY <1>1, EncodingIs, WriteAppends DEF WriteField, GoesOn
<1>4. /\ buf' \in Buffers /\ buf'.pos = buf.pos /\ buf'.data = buf.data \o e
      /\ Len(buf'.data) = Len(buf.data) + Len(e)
  BY <1>1, <1>2, <1>3, PutType
<1>5. /\ fields' \in Seq(Fields) /\ Len(fields') = n + 1
      /\ \A i \in 1..n : fields'[i] = fields[i]
      /\ fields'[n + 1] = f
  BY <1>1, <1>3
<1> HIDE DEF e
<1>6. TypeOK'
  BY <1>1, <1>2, <1>3, <1>4, <1>5 DEF TypeOK
<1>7. Lost' = Lost
  <2>1. \A i \in 1..(next - 1) : fields'[i] = fields[i]
    BY <1>1, <1>5
  <2> QED BY <1>3, <2>1 DEF Lost
<1>8. FieldsArrive'
  BY <1>3, <1>7 DEF FieldsArrive
<1>9. Layout'
  <2>1. PICK cut \in [Nat -> Nat] : Cuts(cut)
    BY DEF Layout
  <2>2. PICK end \in Nat : end = Len(buf.data) + Len(e)
    <3>1. Len(buf.data) \in Nat /\ Len(e) \in Nat
      BY <1>1, <1>2
    <3> QED BY <3>1
  <2>3. PICK c \in [Nat -> Nat] : c = [cut EXCEPT ![n + 2] = end]
    OBVIOUS
  <2>4. n + 2 \in Nat /\ \A i \in 1..(n + 1) : i \in Nat /\ i # n + 2
    <3>1. n \in Nat
      BY <1>1
    <3> QED BY <3>1
  <2>5. c[n + 2] = end /\ \A i \in 1..(n + 1) : c[i] = cut[i]
    BY <2>3, <2>4
  <2>6. 1 \in 1..(n + 1) /\ n + 1 \in 1..(n + 1) /\ next \in 1..(n + 1)
    BY <1>1
  <2>7. c[1] = 0 /\ c[n + 1] = Len(buf.data) /\ (~Lost => buf.pos = c[next])
    <3>1. cut[1] = 0 /\ cut[n + 1] = Len(buf.data) /\ (~Lost => buf.pos = cut[next])
      BY <1>1, <2>1 DEF Cuts
    <3> QED BY <2>5, <2>6, <3>1
  <2>8. ASSUME NEW i \in 1..n
        PROVE  LiesAt(Encoding(fields[i]), buf'.data, c[i]) /\ c[i + 1] = c[i] + Len(Encoding(fields[i]))
    <3> DEFINE g == Encoding(fields[i])
    <3>1. LiesAt(g, buf.data, cut[i]) /\ cut[i + 1] = cut[i] + Len(g)
      <4>1. i \in 1..Len(fields)
        BY <1>1
      <4> QED BY <2>1, <4>1 DEF Cuts
    <3>2. c[i] = cut[i] /\ c[i + 1] = cut[i + 1] /\ cut[i] \in Nat
      <4>1. i \in 1..(n + 1) /\ i + 1 \in 1..(n + 1)
        BY <1>1
      <4> QED BY <2>4, <2>5, <4>1
    <3>3. g \in Seq(Bytes)
      <4>1. fields[i] \in Fields
        BY <1>1
      <4> QED BY <4>1, EncodingIs
    <3> HIDE DEF g
    <3>4. LiesAt(g, buf.data \o e, cut[i])
      BY <1>1, <1>2, <3>1, <3>2, <3>3, LiesStill
    <3> QED BY <1>4, <3>1, <3>2, <3>4 DEF g
  <2>9. LiesAt(e, buf'.data, c[n + 1]) /\ c[n + 1 + 1] = c[n + 1] + Len(e)
    <3>1. LiesAt(e, buf.data \o e, Len(buf.data))
      BY <1>1, <1>2, LiesLast
    <3>2. n + 1 + 1 = n + 2
      BY <1>1
    <3> QED BY <1>4, <2>2, <2>7, <2>5, <3>1, <3>2
  <2>10. Cuts(c)'
    <3>1. ASSUME NEW i \in 1..(n + 1)
          PROVE  /\ LiesAt(Encoding(fields'[i]), buf'.data, c[i])
                 /\ c[i + 1] = c[i] + Len(Encoding(fields'[i]))
      <4>1. CASE i \in 1..n
        BY <1>5, <2>8, <4>1
      <4>2. CASE i = n + 1
        <5>1. fields'[i] = f
          BY <1>5, <4>2
        <5> QED BY <2>9, <4>2, <5>1 DEF e
      <4>3. i \in 1..n \/ i = n + 1
        <5>1. n \in Nat
          BY <1>1
        <5> QED BY <5>1
      <4> QED BY <4>1, <4>2, <4>3
    <3>2. c[Len(fields') + 1] = Len(buf'.data)
      <4>1. n + 1 + 1 = n + 2
        BY <1>1
      <4> QED BY <1>4, <1>5, <2>2, <2>5, <4>1
    <3>3. ~Lost' => buf'.pos = c[next']
      BY <1>3, <1>4, <1>7, <2>7
    <3> QED BY <1>5, <2>7, <3>1, <3>2, <3>3 DEF Cuts
  <2> QED BY <2>10 DEF Layout
<1> QED BY <1>6, <1>8, <1>9

(* A field taken off the front. *)
LEMMA ReadLayout ==
  ASSUME TypeOK, Layout, FieldsArrive, ReadField
  PROVE  TypeOK' /\ Layout' /\ FieldsArrive'
<1> DEFINE f == fields[next]
           r == Read(buf, f)
<1>1. /\ buf \in Buffers /\ Within(buf) /\ fields \in Seq(Fields) /\ Len(fields) \in Nat
      /\ next \in 1..Len(fields)
  BY DEF TypeOK, Within, ReadField
<1>2. f \in Fields
  BY <1>1
<1>3. buf' = r.buf /\ got' = <<f, r.val>> /\ next' = next + 1 /\ fields' = fields
      /\ status' = status
  BY DEF ReadField, GoesOn
<1>4. Within(r.buf) /\ r.buf.data = buf.data
  BY <1>1, <1>2, ReadWithin
<1> HIDE DEF f, r
<1>5. TypeOK'
  <2>1. buf' \in Buffers /\ buf'.pos <= Len(buf'.data)
    BY <1>3, <1>4 DEF Within
  <2>2. next' \in 1..(Len(fields') + 1)
    BY <1>1, <1>3
  <2> QED BY <1>1, <1>3, <2>1, <2>2 DEF TypeOK
<1>6. PICK cut \in [Nat -> Nat] : Cuts(cut)
  BY DEF Layout
<1>7. ASSUME ~Lost'
      PROVE  r = Got(Shown(f), Advance(buf, Len(Encoding(f)))) /\ buf.pos = cut[next]
  <2>1. ~TooLong(f) /\ ~Lost
    <3>1. \A i \in 1..next : ~TooLong(fields[i])
      <4>1. next' - 1 = next
        BY <1>1, <1>3
      <4> QED BY <1>3, <1>7, <4>1 DEF Lost
    <3>2. next \in 1..next /\ \A i \in 1..(next - 1) : i \in 1..next
      BY <1>1
    <3> QED BY <3>1, <3>2 DEF Lost, f
  <2>2. buf.pos = cut[next] /\ LiesAt(Encoding(f), buf.data, cut[next])
    BY <1>1, <1>6, <2>1 DEF Cuts, f
  <2>3. LiesAt(Encoding(f), buf.data, buf.pos)
    BY <2>2
  <2> QED BY <1>1, <1>2, <2>1, <2>2, <2>3, ReadBack DEF r
<1>8. Layout'
  <2>1. ASSUME ~Lost' PROVE buf'.pos = cut[next']
    <3>1. Len(Encoding(f)) \in Nat
      BY <1>2, EncodingIs
    <3>2. r.buf = Advance(buf, Len(Encoding(f)))
      BY <1>7, <2>1 DEF Got
    <3>3. r.buf.pos = cut[next] + Len(Encoding(f))
      BY <1>1, <1>7, <2>1, <3>1, <3>2, AdvanceType
    <3>4. cut[next + 1] = cut[next] + Len(Encoding(f))
      BY <1>1, <1>6 DEF Cuts, f
    <3> QED BY <1>3, <3>3, <3>4
  <2>2. Cuts(cut)'
    BY <1>3, <1>4, <1>6, <2>1 DEF Cuts
  <2> QED BY <2>2 DEF Layout
<1>9. FieldsArrive'
  <2>1. ASSUME ~Lost' PROVE got'[2] = Shown(got'[1])
    <3>1. got'[1] = f /\ got'[2] = r.val
      BY <1>3
    <3>2. r.val = Shown(f)
      BY <1>7, <2>1 DEF Got
    <3> QED BY <3>1, <3>2
  <2> QED BY <2>1 DEF FieldsArrive
<1> QED BY <1>5, <1>8, <1>9

(* A read at the end of the buffer, in the writer's order, changes nothing. *)
LEMMA EndReached ==
  ASSUME TypeOK, Layout, ~Lost, next > Len(fields)
  PROVE  buf.pos = Len(buf.data)
<1>1. next = Len(fields) + 1
  BY DEF TypeOK
<1>2. PICK cut \in [Nat -> Nat] : Cuts(cut)
  BY DEF Layout
<1> QED BY <1>1, <1>2 DEF Cuts

LEMMA TooFarLayout ==
  ASSUME TypeOK, Layout, FieldsArrive, NEW f \in Fields, ReadTooFar(f)
  PROVE  TypeOK' /\ Layout' /\ FieldsArrive'
<1>1. Within(buf) /\ fields \in Seq(Fields) /\ next > Len(fields)
  BY DEF TypeOK, Within, ReadTooFar
<1>2. buf' = Read(buf, f).buf /\ got' = <<None, 0>> /\ fields' = fields /\ next' = next
      /\ status' = status
  BY DEF ReadTooFar, GoesOn
<1>3. Within(buf') /\ buf'.data = buf.data /\ (buf.pos = Len(buf.data) => buf' = buf)
  BY <1>1, <1>2, ReadWithin
<1>4. ~Lost => buf' = buf
  BY <1>1, <1>3, EndReached
<1>5. TypeOK'
  BY <1>2, <1>3 DEF TypeOK, Within
<1>6. Lost' = Lost
  BY <1>2 DEF Lost
<1>7. Layout'
  <2>1. PICK cut \in [Nat -> Nat] : Cuts(cut)
    BY DEF Layout
  <2>2. Cuts(cut)'
    BY <1>2, <1>3, <1>4, <1>6, <2>1 DEF Cuts
  <2> QED BY <2>2 DEF Layout
<1>8. FieldsArrive'
  BY <1>2 DEF FieldsArrive
<1> QED BY <1>4, <1>5, <1>7, <1>8

LEMMA ResetLayout ==
  ASSUME TypeOK, Layout, Reset
  PROVE  TypeOK' /\ Layout' /\ FieldsArrive'
<1>1. buf \in Buffers /\ fields \in Seq(Fields) /\ Len(fields) \in Nat /\ Len(buf.data) \in Nat
  BY DEF TypeOK, Buffers
<1>2. buf' \in Buffers /\ buf'.data = buf.data /\ buf'.pos = 0
  BY <1>1 DEF Reset, Rewound, Buffers
<1>3. fields' = fields /\ next' = 1 /\ got' = <<None, 0>> /\ status' = status
  BY DEF Reset, GoesOn
<1>4. TypeOK'
  BY <1>1, <1>2, <1>3 DEF TypeOK
<1>5. Layout'
  <2>1. PICK cut \in [Nat -> Nat] : Cuts(cut)
    BY DEF Layout
  <2>2. Cuts(cut)'
    BY <1>2, <1>3, <2>1 DEF Cuts
  <2> QED BY <2>2 DEF Layout
<1>6. FieldsArrive'
  BY <1>3 DEF FieldsArrive
<1> QED BY <1>4, <1>5, <1>6

LEMMA ClearLayout ==
  ASSUME Clear
  PROVE  TypeOK' /\ Layout' /\ FieldsArrive'
<1>1. buf' \in Buffers /\ buf'.data = <<>> /\ buf'.pos = 0
  BY DEF Clear, Cleared, Buffers
<1>2. fields' = <<>> /\ next' = 1 /\ got' = <<None, 0>> /\ status' = "running"
  BY DEF Clear, GoesOn
<1>3. TypeOK'
  BY <1>1, <1>2 DEF TypeOK
<1>4. Layout'
  <2>1. PICK cut \in [Nat -> Nat] : \A i \in Nat : cut[i] = 0
    <3>1. [i \in Nat |-> 0] \in [Nat -> Nat]
      OBVIOUS
    <3> QED BY <3>1
  <2>2. Cuts(cut)'
    BY <1>1, <1>2, <2>1 DEF Cuts
  <2> QED BY <2>2 DEF Layout
<1>5. FieldsArrive'
  BY <1>2 DEF FieldsArrive
<1> QED BY <1>3, <1>4, <1>5

(* What is left of the bytes of a field and those after it. *)
LEMMA TailType ==
  ASSUME NEW data \in Seq(Bytes), NEW p \in 0..Len(data)
  PROVE  /\ SubSeq(data, p + 1, Len(data)) \in Seq(Bytes)
         /\ Len(SubSeq(data, p + 1, Len(data))) = Len(data) - p
         /\ \A i \in 1..(Len(data) - p) : SubSeq(data, p + 1, Len(data))[i] = data[p + i]
<1>1. PICK n \in Nat : n = Len(data)
  OBVIOUS
<1>2. PICK m \in Nat : m = p + 1
  BY <1>1
<1>3. \A i \in m..n : data[i] \in Bytes
  BY <1>1, <1>2, ElementOfSeq
<1>4. m \in Int /\ n \in Int
  BY <1>1, <1>2
<1>5. /\ SubSeq(data, m, n) \in Seq(Bytes)
      /\ Len(SubSeq(data, m, n)) = IF m <= n THEN n - m + 1 ELSE 0
      /\ \A i \in 1..(n - m + 1) : SubSeq(data, m, n)[i] = data[m + i - 1]
  BY <1>3, <1>4, SubSeqProperties
<1>6. n - m + 1 = n - p /\ (~(m <= n) => n - p = 0) /\ \A i \in 1..(n - p) : m + i - 1 = p + i
  BY <1>1, <1>2
<1> QED BY <1>1, <1>2, <1>5, <1>6

(* From the end of m_data on no field has a byte. *)
LEMMA NothingAfterEnd ==
  ASSUME TypeOK, NEW cut \in [Nat -> Nat], Cuts(cut),
         NEW k \in 1..(Len(fields) + 1), cut[k] = Len(buf.data)
  PROVE  \A i \in k..Len(fields) : Len(Encoding(fields[i])) = 0
<1>1. PICK n \in Nat, size \in Nat : n = Len(fields) /\ size = Len(buf.data)
  BY DEF TypeOK, Buffers
<1>2. ASSUME NEW j \in k..n, cut[j] = size
      PROVE  Len(Encoding(fields[j])) = 0 /\ cut[j + 1] = size
  <2>1. j \in 1..Len(fields) /\ fields[j] \in Fields
    BY <1>1 DEF TypeOK
  <2>2. Len(Encoding(fields[j])) \in Nat
    BY <2>1, EncodingIs
  <2>3. cut[j] + Len(Encoding(fields[j])) <= size /\ cut[j + 1] = cut[j] + Len(Encoding(fields[j]))
    BY <1>1, <2>1 DEF Cuts, LiesAt
  <2> QED BY <1>2, <2>2, <2>3
<1> DEFINE D == {x \in k..n : cut[x] # size}
<1>3. D = {}
  <2> SUFFICES ASSUME D # {} PROVE FALSE
    OBVIOUS
  <2>1. D \in SUBSET Nat
    BY <1>1
  <2>2. PICK m \in D : \A x \in D : m <= x
    BY <2>1, LeastExists
  <2>3. m \in k..n /\ cut[m] # size
    BY <2>2
  <2>4. m # k
    BY <1>1, <2>3
  <2>5. PICK j \in k..n : j = m - 1 /\ j + 1 = m /\ ~(m <= j)
    BY <2>3, <2>4
  <2>6. cut[j] = size
    BY <2>2, <2>5
  <2> QED BY <1>2, <2>3, <2>5, <2>6
<1> QED BY <1>1, <1>2, <1>3

(* Nothing is left of a field, but at most the length of an empty text. *)
Empty(f) == f.type \in {"string", "bytes"} /\ f.len = 0 /\ f.val = <<>>

LEMMA NoBytesIsEmpty ==
  ASSUME NEW f \in Fields, Len(Encoding(f)) = 0
  PROVE  Empty(f)
<1>1. Len(Bytecode(f)) = 0
  BY EncodingIs
<1>2. ~IsUint(f)
  <2> SUFFICES ASSUME IsUint(f) PROVE FALSE
    OBVIOUS
  <2>1. Bytecode(f) = LittleEndian(f.val, f.len) /\ f.len # 0
    BY DEF IsUint, Bytecode
  <2> QED BY <1>1, <2>1, UintBytes
<1>3. ~IsInt(f)
  <2> SUFFICES ASSUME IsInt(f) PROVE FALSE
    OBVIOUS
  <2>1. Bytecode(f) = LittleEndian(f.val % Width(4), 4)
    BY DEF IsInt, Bytecode
  <2> QED BY <1>1, <2>1, IntBytes
<1>4. ~IsString(f)
  <2> SUFFICES ASSUME IsString(f) PROVE FALSE
    OBVIOUS
  <2>1. Bytecode(f) = (IF f.len > 0 THEN Padded(f.val, f.len)
                       ELSE LittleEndian(Len(f.val), 2) \o f.val)
    BY DEF IsString, Bytecode
  <2>2. CASE f.len > 0
    <3>1. Len(Padded(f.val, f.len)) = f.len
      BY <2>2, StringBytes
    <3>2. f.len = 0
      BY <1>1, <2>1, <2>2, <3>1
    <3> QED BY <2>2, <3>2
  <2>3. CASE ~(f.len > 0)
    <3> DEFINE d == LittleEndian(Len(f.val), 2)
    <3>1. d \in Seq(Bytes) /\ Len(d) = 2 /\ f.val \in Seq(Bytes) /\ Len(f.val) \in Nat
      BY StringBytes DEF IsString
    <3>2. Bytecode(f) = d \o f.val
      BY <2>1, <2>3
    <3> HIDE DEF d
    <3>3. Len(d \o f.val) = Len(d) + Len(f.val)
      BY <3>1, ConcatProperties
    <3> QED BY <1>1, <3>1, <3>2, <3>3
  <2> QED BY <2>2, <2>3
<1>5. IsBytes(f)
  BY <1>2, <1>3, <1>4, FieldKinds
<1>6. f.val = <<>> /\ f.len = 0 /\ f.type = "bytes"
  BY <1>1, <1>5 DEF IsBytes, Bytecode
<1> QED BY <1>6 DEF Empty

LEMMA PaddedEnds ==
  ASSUME NEW s \in Seq(Bytes), NEW n \in Nat \ {0}
  PROVE  Padded(s, n)[n] = 0
<1> DEFINE len == Min({Len(s), n - 1})
           p == SubSeq(s, 1, len)
           z == [i \in 1..(n - len) |-> 0]
<1>1. len \in Nat /\ len <= Len(s) /\ len <= n - 1
  BY MinOfTwo
<1>2. Padded(s, n) = p \o z
  BY DEF Padded
<1> HIDE DEF len
<1>3. p \in Seq(Bytes) /\ Len(p) = len
  BY <1>1, PrefixType
<1>4. z \in Seq(Bytes) /\ Len(z) = n - len /\ z[n - len] = 0
  BY <1>1, ZerosType
<1> HIDE DEF p, z
<1>5. /\ p \o z \in Seq(Bytes) /\ Len(p \o z) = Len(p) + Len(z)
      /\ \A i \in 1..(Len(p) + Len(z)) : (p \o z)[i] = IF i <= Len(p) THEN p[i] ELSE z[i - Len(p)]
  BY <1>3, <1>4, ConcatProperties
<1>6. n \in 1..(Len(p) + Len(z)) /\ ~(n <= Len(p))
  BY <1>1, <1>3, <1>4
<1> QED BY <1>2, <1>3, <1>4, <1>5, <1>6

(* A text that lies in m_data leaves it only if it is empty and the last.  *)
LEMMA OutsideText ==
  ASSUME TypeOK, NEW f \in Fields, IsString(f), LiesAt(Encoding(f), buf.data, buf.pos), Outside(f)
  PROVE  Empty(f) /\ buf.pos + Len(Encoding(f)) = Len(buf.data)
<1>1. buf \in Buffers /\ buf.data \in Seq(Bytes) /\ buf.pos \in Nat /\ Len(buf.data) \in Nat
  BY DEF TypeOK, Buffers
<1>2. Encoding(f) = Bytecode(f) /\ Encoding(f) \in Seq(Bytes)
  BY EncodingIs
<1>3. f.type = "string" /\ f.val \in Seq(Bytes) /\ Len(f.val) \in Nat /\ f.len \in Nat
  BY DEF IsString
<1>4. CASE f.len = 0
  <2> DEFINE d == LittleEndian(Len(f.val), 2)
  <2>1. Encoding(f) = d \o f.val
    <3>1. Bytecode(f) = IF f.len > 0 THEN Padded(f.val, f.len) ELSE d \o f.val
      BY <1>3 DEF Bytecode
    <3>2. ~(f.len > 0)
      BY <1>4
    <3> HIDE DEF d
    <3> QED BY <1>2, <3>1, <3>2
  <2>2. Len(Encoding(f)) = 2 + Len(f.val)
    <3>1. d \in Seq(Bytes) /\ Len(d) = 2
      BY StringBytes
    <3> HIDE DEF d
    <3>2. Len(d \o f.val) = Len(d) + Len(f.val)
      BY <1>3, <3>1, ConcatProperties
    <3> QED BY <2>1, <3>1, <3>2
  <2>3. buf.pos + 2 + Len(f.val) <= Len(buf.data)
    BY <1>1, <1>3, <2>2 DEF LiesAt
  <2>4. ~Short(buf, 2)
    BY <1>1, <1>3, <2>3 DEF Short
  <2>5. /\ ReadUint(buf, 2).buf = Advance(buf, 2)
        /\ Advance(buf, 2).data = buf.data /\ Advance(buf, 2).pos = buf.pos + 2
    BY <1>1, <2>4, AdvanceType DEF ReadUint, Got
  <2>6. NoElement(ReadUint(buf, 2).buf, ReadUint(buf, 2).val)
    BY <1>3, <1>4 DEF Outside
  <2>7. buf.pos + 2 = Len(buf.data)
    BY <2>5, <2>6 DEF NoElement
  <2>8. Len(f.val) = 0
    BY <1>1, <1>3, <2>3, <2>7
  <2>9. f.val = <<>>
    BY <1>3, <2>8
  <2> QED BY <1>1, <1>3, <1>4, <2>2, <2>7, <2>8, <2>9 DEF Empty
<1>5. CASE f.len # 0
  <2>1. Encoding(f) = Padded(f.val, f.len) /\ Len(Encoding(f)) = f.len
    <3>1. f.len > 0
      BY <1>3, <1>5
    <3> QED BY <1>2, <1>3, <3>1, StringBytes DEF Bytecode
  <2>2. Encoding(f)[f.len] = 0
    BY <1>3, <1>5, <2>1, PaddedEnds
  <2>3. buf.data[buf.pos + f.len] = 0 /\ buf.pos + f.len <= Len(buf.data)
    BY <1>3, <1>5, <2>1, <2>2 DEF LiesAt
  <2>4. buf.pos \in 0..Len(buf.data) /\ f.len \in 1..(Len(buf.data) - buf.pos)
    BY <1>1, <1>3, <1>5, <2>3
  <2>5. /\ Left(buf) \in Seq(Bytes) /\ Len(Left(buf)) = Len(buf.data) - buf.pos
        /\ Left(buf)[f.len] = buf.data[buf.pos + f.len]
    BY <1>1, <2>4, TailType DEF Left
  <2>6. Left(buf)[f.len] = 0 /\ f.len \in DOMAIN Left(buf)
    BY <2>3, <2>4, <2>5
  <2>7. \A i \in DOMAIN Left(buf) : Left(buf)[i] # 0
    BY <1>3, <1>5 DEF Outside
  <2> QED BY <2>6, <2>7
<1> QED BY <1>4, <1>5

(* A read that leaves m_data, in the writer's order. *)
LEMMA OutsideIsEmpty ==
  ASSUME TypeOK, Layout, ~Lost, next <= Len(fields), Outside(fields[next])
  PROVE  \A i \in next..Len(fields) : Empty(fields[i])
<1>1. /\ buf \in Buffers /\ buf.pos \in Nat /\ Len(buf.data) \in Nat
      /\ fields \in Seq(Fields) /\ Len(fields) \in Nat /\ next \in 1..Len(fields)
  BY DEF TypeOK, Buffers
<1>2. PICK cut \in [Nat -> Nat] : Cuts(cut)
  BY DEF Layout
<1>3. PICK f \in Fields : f = fields[next]
  <2>1. fields[next] \in Fields
    BY <1>1
  <2> QED BY <2>1
<1>4. /\ buf.pos = cut[next] /\ LiesAt(Encoding(f), buf.data, buf.pos)
      /\ cut[next + 1] = buf.pos + Len(Encoding(f))
  BY <1>1, <1>2, <1>3 DEF Cuts
<1>5. ASSUME NEW k \in 1..(Len(fields) + 1), cut[k] = Len(buf.data), NEW i \in k..Len(fields)
      PROVE  Empty(fields[i])
  <2>1. Len(Encoding(fields[i])) = 0
    BY <1>2, <1>5, NothingAfterEnd
  <2>2. i \in 1..Len(fields)
    BY <1>1, <1>5
  <2>3. fields[i] \in Fields
    BY <1>1, <2>2
  <2> QED BY <2>1, <2>3, NoBytesIsEmpty
<1>6. Outside(f)
  BY <1>3
<1>7. CASE IsBytes(f)
  <2>1. NoElement(buf, f.len)
    BY <1>6, <1>7 DEF Outside, IsBytes
  <2>2. cut[next] = Len(buf.data) /\ next \in 1..(Len(fields) + 1)
    BY <1>1, <1>4, <2>1 DEF NoElement
  <2> QED BY <1>5, <2>2
<1>8. CASE IsString(f)
  <2>1. Empty(f) /\ cut[next + 1] = Len(buf.data)
    BY <1>4, <1>6, <1>8, OutsideText
  <2>2. ASSUME NEW i \in next..Len(fields) PROVE Empty(fields[i])
    <3>1. CASE i = next
      BY <1>3, <2>1, <3>1
    <3>2. CASE i # next
      <4>1. next + 1 \in 1..(Len(fields) + 1) /\ i \in (next + 1)..Len(fields)
        BY <1>1, <2>2, <3>2
      <4> QED BY <1>5, <2>1, <4>1
    <3> QED BY <3>1, <3>2
  <2> QED BY <2>2
<1>9. ~IsUint(f) /\ ~IsInt(f)
  BY <1>6 DEF Outside, IsUint, IsInt
<1> QED BY <1>7, <1>8, <1>9, FieldKinds

LEMMA StopsLayout ==
  ASSUME IInv, ReadStops
  PROVE  IInv'
<1>1. UNCHANGED <<buf, fields, next, got>> /\ status' = "stopped"
  BY DEF ReadStops
<1>2. TypeOK' /\ Layout' /\ FieldsArrive' /\ Lost' = Lost
  BY <1>1 DEF IInv, TypeOK, Layout, Cuts, FieldsArrive, Lost
<1>3. ASSUME ~Lost, NEW i \in next..Len(fields) PROVE Empty(fields[i])
  <2>1. next <= Len(fields)
    BY <1>3 DEF IInv, TypeOK
  <2>2. Outside(fields[next])
    BY <2>1 DEF ReadStops
  <2>3. TypeOK /\ Layout
    BY DEF IInv
  <2> QED BY <1>3, <2>1, <2>2, <2>3, OutsideIsEmpty
<1>4. StopsAtNothing'
  BY <1>1, <1>2, <1>3 DEF StopsAtNothing, Empty
<1> QED BY <1>2, <1>4 DEF IInv

LEMMA NextIInv == IInv /\ [Next]_vars => IInv'
<1> SUFFICES ASSUME IInv, [Next]_vars PROVE IInv'
  OBVIOUS
<1>1. TypeOK /\ Layout /\ FieldsArrive
  BY DEF IInv
<1>2. GoesOn => StopsAtNothing'
  BY DEF GoesOn, StopsAtNothing
<1>3. ASSUME NEW f \in Fields, WriteField(f) PROVE IInv'
  BY <1>1, <1>2, <1>3, WriteLayout DEF IInv, WriteField
<1>4. ASSUME NEW f \in Fields, ReadTooFar(f) PROVE IInv'
  BY <1>1, <1>2, <1>4, TooFarLayout DEF IInv, ReadTooFar
<1>5. CASE ReadField
  BY <1>1, <1>2, <1>5, ReadLayout DEF IInv, ReadField
<1>6. CASE ReadStops
  BY <1>6, StopsLayout
<1>7. CASE Reset
  BY <1>1, <1>2, <1>7, ResetLayout DEF IInv, Reset
<1>8. CASE Clear
  BY <1>2, <1>8, ClearLayout DEF IInv, Clear
<1>9. CASE UNCHANGED vars
  BY <1>1, <1>9 DEF IInv, TypeOK, Layout, Cuts, FieldsArrive, StopsAtNothing, Lost, vars
<1> QED BY <1>3, <1>4, <1>5, <1>6, <1>7, <1>8, <1>9 DEF Next

---------------------------------------------------------------------------
LEMMA TailSplits ==
  ASSUME NEW data \in Seq(Bytes), NEW e \in Seq(Bytes), NEW p \in Nat, LiesAt(e, data, p)
  PROVE  SubSeq(data, p + 1, Len(data)) = e \o SubSeq(data, p + Len(e) + 1, Len(data))
<1> DEFINE s == SubSeq(data, p + 1, Len(data))
           t == SubSeq(data, p + Len(e) + 1, Len(data))
<1>1. PICK n \in Nat, k \in Nat : n = Len(data) /\ k = Len(e)
  OBVIOUS
<1>2. p + k <= n /\ \A i \in 1..k : data[p + i] = e[i]
  BY <1>1 DEF LiesAt
<1>3. s \in Seq(Bytes) /\ Len(s) = n - p /\ \A i \in 1..(n - p) : s[i] = data[p + i]
  <2>1. p \in 0..Len(data)
    BY <1>1, <1>2
  <2> QED BY <1>1, <2>1, TailType
<1>4. t \in Seq(Bytes) /\ Len(t) = n - (p + k) /\ \A i \in 1..(n - (p + k)) : t[i] = data[p + k + i]
  <2>1. PICK q \in 0..Len(data) : q = p + k
    BY <1>1, <1>2
  <2> QED BY <1>1, <2>1, TailType
<1> HIDE DEF s, t
<1>5. /\ e \o t \in Seq(Bytes) /\ Len(e \o t) = Len(e) + Len(t)
      /\ \A i \in 1..(Len(e) + Len(t)) : (e \o t)[i] = IF i <= Len(e) THEN e[i] ELSE t[i - Len(e)]
  BY <1>4, ConcatProperties
<1>6. Len(e) + Len(t) = n - p
  BY <1>1, <1>2, <1>4
<1>7. ASSUME NEW i \in 1..(n - p) PROVE s[i] = (e \o t)[i]
  <2>1. CASE i <= k
    BY <1>1, <1>2, <1>3, <1>5, <1>6, <2>1
  <2>2. CASE ~(i <= k)
    <3>1. PICK j \in 1..(n - (p + k)) : j = i - k /\ p + k + j = p + i
      <4>1. i - k \in 1..(n - (p + k)) /\ p + k + (i - k) = p + i
        <5>1. n \in Nat /\ k \in Nat /\ p \in Nat
          BY <1>1
        <5> QED BY <2>2, <5>1
      <4> QED BY <4>1
    <3>2. (e \o t)[i] = t[j]
      BY <1>1, <1>5, <1>6, <2>2, <3>1
    <3> QED BY <1>3, <1>4, <3>1, <3>2
  <2> QED BY <2>1, <2>2
<1>8. s = e \o t
  BY <1>3, <1>5, <1>6, <1>7, SeqEqual
<1> QED BY <1>8 DEF s, t

(* The equation of Encodings, and that it has one solution: two that       *)
(* differ would differ at a greatest field, after which they agree.        *)
IsEncodings(e) ==
  e = [i \in Nat |-> IF i > Len(fields) THEN <<>> ELSE Encoding(fields[i]) \o e[i + 1]]

LEMMA EncodingsUnique ==
  ASSUME NEW d, IsEncodings(d), NEW e, IsEncodings(e), Len(fields) \in Nat,
         NEW k \in 1..(Len(fields) + 1)
  PROVE  d[k] = e[k]
<1>1. PICK n \in Nat : n = Len(fields)
  OBVIOUS
<1>2. ASSUME NEW i \in Nat
      PROVE  /\ i > n => d[i] = <<>> /\ e[i] = <<>>
             /\ ~(i > n) => /\ d[i] = Encoding(fields[i]) \o d[i + 1]
                            /\ e[i] = Encoding(fields[i]) \o e[i + 1]
  BY <1>1 DEF IsEncodings
<1> SUFFICES ASSUME d[k] # e[k] PROVE FALSE
  OBVIOUS
<1> DEFINE D == {x \in 0..n : d[n + 1 - x] # e[n + 1 - x]}
<1>3. D \in SUBSET Nat /\ n + 1 - k \in D
  <2>1. n + 1 - k \in 0..n /\ n + 1 - (n + 1 - k) = k
    BY <1>1
  <2> QED BY <2>1
<1>4. PICK m \in D : \A x \in D : m <= x
  BY <1>3, LeastExists
<1>5. PICK i \in Nat : i = n + 1 - m /\ d[i] # e[i]
  <2>1. m \in 0..n /\ d[n + 1 - m] # e[n + 1 - m]
    BY <1>4
  <2> QED BY <2>1
<1>6. CASE m = 0
  <2>1. i > n
    BY <1>5, <1>6
  <2> QED BY <1>2, <1>5, <2>1
<1>7. CASE m # 0
  <2>1. m \in 0..n
    BY <1>4
  <2>2. PICK x \in 0..n : x = m - 1 /\ n + 1 - x = i + 1 /\ ~(m <= x)
    BY <1>5, <1>7, <2>1
  <2>3. x \notin D
    BY <1>4, <2>2
  <2>4. d[n + 1 - x] = e[n + 1 - x]
    BY <2>3
  <2>5. d[i + 1] = e[i + 1]
    BY <2>2, <2>4
  <2>6. ~(i > n)
    BY <1>5, <1>7, <2>1
  <2> QED BY <1>2, <1>5, <2>5, <2>6
<1> QED BY <1>6, <1>7

(* The tails of the buffer from the start of each field solve it. *)
LEMMA TailsAreEncodings ==
  ASSUME TypeOK, NEW cut \in [Nat -> Nat], Cuts(cut)
  PROVE  \E e : /\ IsEncodings(e)
                /\ \A i \in 1..(Len(fields) + 1) : e[i] = SubSeq(buf.data, cut[i] + 1, Len(buf.data))
<1> DEFINE T(i) == SubSeq(buf.data, cut[i] + 1, Len(buf.data))
<1>1. PICK n \in Nat : n = Len(fields)
  BY DEF TypeOK
<1>2. buf.data \in Seq(Bytes) /\ Len(buf.data) \in Nat /\ fields \in Seq(Fields)
  BY DEF TypeOK, Buffers
<1>3. T(n + 1) = <<>>
  <2>1. cut[n + 1] = Len(buf.data)
    BY <1>1 DEF Cuts
  <2>2. Len(buf.data) < Len(buf.data) + 1 /\ Len(buf.data) + 1 \in Int /\ Len(buf.data) \in Int
    BY <1>2
  <2>3. SubSeq(buf.data, Len(buf.data) + 1, Len(buf.data)) = <<>>
    BY <2>2, SubSeqEmpty
  <2> QED BY <2>1, <2>3
<1>4. ASSUME NEW i \in 1..n PROVE T(i) = Encoding(fields[i]) \o T(i + 1)
  <2>1. fields[i] \in Fields /\ i \in Nat /\ i \in 1..Len(fields)
    BY <1>1, <1>2
  <2>2. Encoding(fields[i]) \in Seq(Bytes)
    BY <2>1, EncodingIs
  <2>3. LiesAt(Encoding(fields[i]), buf.data, cut[i]) /\ cut[i + 1] = cut[i] + Len(Encoding(fields[i]))
    BY <2>1 DEF Cuts
  <2>4. cut[i] \in Nat
    BY <2>1
  <2> QED BY <1>2, <2>2, <2>3, <2>4, TailSplits
<1> HIDE DEF T
<1> DEFINE first == IF 0 > n THEN <<>> ELSE Encoding(fields[0]) \o T(1)
           e == [i \in Nat |-> IF i > n THEN <<>> ELSE IF i = 0 THEN first ELSE T(i)]
<1>5. \A i \in 1..(n + 1) : e[i] = T(i)
  <2> SUFFICES ASSUME NEW i \in 1..(n + 1) PROVE e[i] = T(i)
    OBVIOUS
  <2>1. CASE i = n + 1
    BY <1>3, <2>1
  <2>2. CASE i # n + 1
    <3>1. i \in Nat /\ ~(i > n) /\ i # 0
      BY <2>2
    <3> HIDE DEF first
    <3> QED BY <3>1
  <2> QED BY <2>1, <2>2
<1>6. ASSUME NEW i \in Nat
      PROVE  e[i] = IF i > n THEN <<>> ELSE Encoding(fields[i]) \o e[i + 1]
  <2>1. CASE i > n
    <3> HIDE DEF first
    <3> QED BY <2>1
  <2>2. CASE i = 0
    <3>1. e[0] = first /\ first = Encoding(fields[0]) \o T(1)
      <4>1. ~(0 > n)
        OBVIOUS
      <4>2. first = Encoding(fields[0]) \o T(1)
        BY <4>1
      <4> HIDE DEF first
      <4> QED BY <4>1, <4>2
    <3>2. 1 \in 1..(n + 1) /\ i + 1 = 1 /\ ~(i > n)
      BY <2>2
    <3>3. e[1] = T(1)
      BY <1>5, <3>2
    <3> HIDE DEF e, first
    <3> QED BY <2>2, <3>1, <3>2, <3>3
  <2>3. CASE i \in 1..n
    <3>1. i \in 1..(n + 1) /\ i + 1 \in 1..(n + 1) /\ ~(i > n)
      BY <2>3
    <3> HIDE DEF e
    <3>2. e[i] = T(i) /\ e[i + 1] = T(i + 1)
      BY <1>5, <3>1
    <3> QED BY <1>4, <2>3, <3>1, <3>2
  <2>4. i > n \/ i = 0 \/ i \in 1..n
    OBVIOUS
  <2> QED BY <2>1, <2>2, <2>3, <2>4
<1>7. IsEncodings(e)
  <2>1. e = [i \in Nat |-> e[i]]
    OBVIOUS
  <2> HIDE DEF e
  <2> QED BY <1>1, <1>6, <2>1 DEF IsEncodings
<1> HIDE DEF e
<1> QED BY <1>1, <1>5, <1>7 DEF T

LEMMA EncodingsSolve ==
  ASSUME NEW e, IsEncodings(e)
  PROVE  IsEncodings(Encodings)
BY DEF IsEncodings, Encodings

LEMMA LayoutAligned == TypeOK /\ Layout => Aligned
<1> SUFFICES ASSUME TypeOK, Layout, ~Lost PROVE Left(buf) = Encodings[next]
  BY DEF Aligned
<1>1. PICK cut \in [Nat -> Nat] : Cuts(cut)
  BY DEF Layout
<1>2. PICK e : IsEncodings(e)
               /\ \A i \in 1..(Len(fields) + 1) : e[i] = SubSeq(buf.data, cut[i] + 1, Len(buf.data))
  BY <1>1, TailsAreEncodings
<1>3. next \in 1..(Len(fields) + 1) /\ Len(fields) \in Nat
  BY DEF TypeOK
<1>4. e[next] = Encodings[next]
  BY <1>2, <1>3, EncodingsSolve, EncodingsUnique
<1>5. buf.pos = cut[next]
  BY <1>1 DEF Cuts
<1> QED BY <1>2, <1>3, <1>4, <1>5 DEF Left

---------------------------------------------------------------------------
(* m_readPos never passes the end of m_data, so that remaining() does not  *)
(* wrap around, and the buffer holds bytes.                                *)
THEOREM PositionStaysInside == Spec => []TypeOK
<1>1. IInv => TypeOK
  BY DEF IInv
<1> QED BY <1>1, InitIInv, NextIInv, PTL DEF Spec

(* Every field comes back as it was written, whatever was written or read  *)
(* before it, up to the first text too long for its length.                *)
THEOREM FieldsComeBack == Spec => []FieldsArrive
<1>1. IInv => FieldsArrive
  BY DEF IInv
<1> QED BY <1>1, InitIInv, NextIInv, PTL DEF Spec

(* A reader that keeps to the writer's types stays aligned with it: the    *)
(* unread bytes are the encodings of the unread fields.                    *)
THEOREM ReaderStaysAligned == Spec => []Aligned
<1>1. IInv => Aligned
  BY LayoutAligned DEF IInv
<1> QED BY <1>1, InitIInv, NextIInv, PTL DEF Spec

(* Nothing but an empty text or an empty run of bytes with nothing after   *)
(* it makes a reader that keeps to the writer's types leave m_data.        *)
THEOREM OnlyNothingStops == Spec => []StopsAtNothing
<1>1. IInv => StopsAtNothing
  BY DEF IInv
<1> QED BY <1>1, InitIInv, NextIInv, PTL DEF Spec
=============================================================================
