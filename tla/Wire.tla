------------------------------- MODULE Wire -------------------------------
(***************************************************************************)
(* The encoding done by PacketBuffer's write and read functions, on a      *)
(* buffer value [data, pos] (m_data, m_readPos).  A byte has B values: 256 *)
(* in the program; the operators depend on B only through arithmetic, so a *)
(* small B lets TLC reach the widths' limits.                              *)
(***************************************************************************)
EXTENDS Integers, Sequences, FiniteSetsExt

CONSTANT B  \* number of values of a byte

ASSUME WireAssumption == B \in Nat /\ B >= 2

Bytes == 0..(B - 1)
Buffers == [data : Seq(Bytes), pos : Nat]

(* Both constructors. *)
Buffer(d) == [data |-> d, pos |-> 0]

Put(b, bytes) == [b EXCEPT !.data = @ \o bytes]
Left(b) == SubSeq(b.data, b.pos + 1, Len(b.data))

(* What a byte counts for in each place of a number (a shift by 0, 8, 16,  *)
(* 24 bits), and how many values n bytes have.                             *)
Place     == <<1, B, B * B, B * B * B>>
Width(n)  == B * Place[n]

(* writeUint8, 16, 32 with n = 1, 2, 4: the low bytes, least first. *)
LittleEndian(v, n) == [i \in 1..n |-> (v \div Place[i]) % B]
WriteUint(b, v, n) == Put(b, LittleEndian(v, n))

(* writeInt32: the cast to unsigned takes negative numbers modulo 2^32. *)
WriteInt(b, v) == WriteUint(b, v % Width(4), 4)

(* writeBytes. *)
WriteBytes(b, bytes) == Put(b, bytes)

(* writeString: cut to maxLen - 1 and padded with zeros to maxLen; with    *)
(* maxLen = 0 a uint16 length, which loses the high bits, and every byte.  *)
PadOneShort(str, maxLen) ==  \* seeded fault: no byte kept for the final zero
  LET len == Min({Len(str), maxLen})
  IN  SubSeq(str, 1, len) \o [i \in 1..(maxLen - len) |-> 0]
Padded(str, maxLen) ==
  LET len == Min({Len(str), maxLen - 1})
  IN  SubSeq(str, 1, len) \o [i \in 1..(maxLen - len) |-> 0]

WriteString(b, str, maxLen) ==
  IF maxLen > 0
  THEN Put(b, Padded(str, maxLen))
  ELSE Put(WriteUint(b, Len(str), 2), str)

---------------------------------------------------------------------------
(* The reads return the value and the buffer after it.                     *)
Got(v, b) == [val |-> v, buf |-> b]

(* Every read first compares the bytes that are left with what it needs. *)
Short(b, n) == b.pos + n > Len(b.data)

Field(b, n)   == SubSeq(b.data, b.pos + 1, b.pos + n)
Advance(b, n) == [b EXCEPT !.pos = @ + n]

FromBytes(s) ==
  LET Part(i) == IF i <= Len(s) THEN s[i] * Place[i] ELSE 0
  IN  Part(1) + Part(2) + Part(3) + Part(4)

(* readUint8, 16, 32: zero, and the position kept, when bytes are missing. *)
SkipsMissing(b, n) ==  \* seeded fault: a failed read moves on
  Got(IF Short(b, n) THEN 0 ELSE FromBytes(Field(b, n)), Advance(b, n))
ReadUint(b, n) ==
  IF Short(b, n) THEN Got(0, b) ELSE Got(FromBytes(Field(b, n)), Advance(b, n))

(* readInt32: the cast back takes the upper half to be negative. *)
Signed(u)  == IF 2 * u >= Width(4) THEN u - Width(4) ELSE u
ReadInt(b) == LET r == ReadUint(b, 4) IN Got(Signed(r.val), r.buf)

(* readBytes: the destination is left as it was (<<>>) when bytes are      *)
(* missing.  Size 0 with nothing left passes the test, and m_data[m_readPos] *)
(* is then an element that is not there (NoElement), which is undefined: a *)
(* build that checks indices stops, the others go on with no bytes, which  *)
(* is the result given here.                                               *)
NoElement(b, n) == ~Short(b, n) /\ b.pos = Len(b.data)
ReadBytes(b, n) ==
  IF Short(b, n) THEN Got(<<>>, b) ELSE Got(Field(b, n), Advance(b, n))

(* The bytes before the first zero.  std::string(const char* ) looks for   *)
(* the zero in memory: NoZero stands for a search that leaves the field.   *)
NoZero == <<-1>>
CString(s) ==
  LET zeros == {i \in DOMAIN s : s[i] = 0}
  IN  IF zeros = {} THEN NoZero ELSE SubSeq(s, 1, Min(zeros) - 1)

(* readString.  With maxLen = 0 the length is consumed even if the text is *)
(* not all there; what holds of readBytes with size 0 holds of length 0.   *)
ReadString(b, maxLen) ==
  IF maxLen > 0
  THEN IF Short(b, maxLen) THEN Got(<<>>, b)
       ELSE Got(CString(Field(b, maxLen)), Advance(b, maxLen))
  ELSE LET len == ReadUint(b, 2) IN ReadBytes(len.buf, len.val)

(* clear() and reset(). *)
Cleared(b)  == [data |-> <<>>, pos |-> 0]
KeptPos(b)  == b  \* seeded fault: reset() does nothing
Rewound(b)  == [b EXCEPT !.pos = 0]
=============================================================================
