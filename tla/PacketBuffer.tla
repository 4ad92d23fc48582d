--------------------------- MODULE PacketBuffer ---------------------------
(***************************************************************************)
(* A PacketBuffer in use: fields are appended with the write functions and *)
(* taken off the front with the read functions of the same types, in any   *)
(* interleaving; the reader may also ask for more than there is, rewind,   *)
(* or empty the buffer.                                                    *)
(***************************************************************************)
EXTENDS Wire

CONSTANTS
  Uint8s, Uint16s, Uint32s, Int32s,  \* numbers written
  Texts,                     \* texts written
  FixedLens,                 \* the maxLen arguments used
  MaxFields                  \* bound: fields written between two clear()

ASSUME FieldAssumption ==
  /\ Uint8s \subseteq 0..(B - 1)
  /\ Uint16s \subseteq 0..(Width(2) - 1)
  /\ Uint32s \subseteq 0..(Width(4) - 1)
  /\ \A v \in Int32s : v \in Int /\ -Width(4) <= 2 * v /\ 2 * v < Width(4)
  /\ Texts \subseteq Seq(Bytes)
  /\ FixedLens \subseteq Nat \ {0}
  /\ MaxFields \in Nat

(* A write: its type, its value and, for strings and bytes, the length     *)
(* argument of the read that matches it.                                   *)
Fields ==
  [type : {"uint"}, val : Uint8s, len : {1}]
    \cup [type : {"uint"}, val : Uint16s, len : {2}]
    \cup [type : {"uint"}, val : Uint32s, len : {4}]
    \cup [type : {"int"}, val : Int32s, len : {4}]
    \cup [type : {"string"}, val : Texts, len : FixedLens \cup {0}]
    \cup {[type |-> "bytes", val |-> x, len |-> Len(x)] : x \in Texts}

VARIABLES
  buf,     \* m_data and m_readPos
  fields,  \* the fields written since the last clear()
  next,    \* which of them the next read is for
  got,     \* the field last read, and what the read returned
  status   \* "running", or "stopped" by a read outside of m_data

vars == <<buf, fields, next, got, status>>

None == [type |-> "none", val |-> 0, len |-> 0]

Write(b, f) ==
  CASE f.type = "uint"   -> WriteUint(b, f.val, f.len)
    [] f.type = "int"    -> WriteInt(b, f.val)
    [] f.type = "string" -> WriteString(b, f.val, f.len)
    [] f.type = "bytes"  -> WriteBytes(b, f.val)

Read(b, f) ==
  CASE f.type = "uint"   -> ReadUint(b, f.len)
    [] f.type = "int"    -> ReadInt(b)
    [] f.type = "string" -> ReadString(b, f.len)
    [] f.type = "bytes"  -> ReadBytes(b, f.len)

Init ==
  /\ buf = Buffer(<<>>)
  /\ fields = <<>>
  /\ next = 1
  /\ got = <<None, 0>>
  /\ status = "running"

GoesOn == status = "running" /\ UNCHANGED status

WriteField(f) ==
  /\ GoesOn /\ Len(fields) < MaxFields
  /\ buf' = Write(buf, f)
  /\ fields' = Append(fields, f)
  /\ UNCHANGED <<next, got>>

ReadField ==
  /\ GoesOn /\ next <= Len(fields)
  /\ LET r == Read(buf, fields[next]) IN
       /\ buf' = r.buf
       /\ got' = <<fields[next], r.val>>
  /\ next' = next + 1
  /\ UNCHANGED fields

(* A read after the last field. *)
ReadTooFar(f) ==
  /\ GoesOn /\ next > Len(fields)
  /\ LET r == Read(buf, f) IN
       /\ buf' = r.buf
       /\ got' = <<None, 0>>
  /\ UNCHANGED <<fields, next>>

(* A read for which there is no element in m_data: an empty text or no     *)
(* bytes with nothing left, or a text of fixed length without a zero up to *)
(* the end.  Builds that check indices or addresses stop there; in others  *)
(* the read may also go on as above.                                       *)
Outside(f) ==
  \/ f.type = "bytes" /\ NoElement(buf, f.len)
  \/ /\ f.type = "string" /\ f.len = 0
     /\ LET len == ReadUint(buf, 2) IN NoElement(len.buf, len.val)
  \/ /\ f.type = "string" /\ f.len > 0
     /\ ~Short(buf, f.len) /\ \A i \in DOMAIN Left(buf) : Left(buf)[i] # 0

ReadStops ==
  /\ status = "running" /\ status' = "stopped"
  /\ \E f \in IF next <= Len(fields) THEN {fields[next]} ELSE Fields : Outside(f)
  /\ UNCHANGED <<buf, fields, next, got>>

Reset ==
  /\ GoesOn
  /\ buf' = Rewound(buf)
  /\ next' = 1 /\ got' = <<None, 0>>
  /\ UNCHANGED fields

Clear ==
  /\ GoesOn
  /\ buf' = Cleared(buf)
  /\ fields' = <<>>
  /\ next' = 1 /\ got' = <<None, 0>>

Next ==
  \/ \E f \in Fields : WriteField(f) \/ ReadTooFar(f)
  \/ ReadField \/ ReadStops \/ Reset \/ Clear

Spec == Init /\ [][Next]_vars

---------------------------------------------------------------------------
(* The variables have their types, and m_readPos never passes the end of   *)
(* m_data: remaining() subtracts the two as unsigned numbers.              *)
TypeOK ==
  /\ buf \in Buffers
  /\ buf.pos <= Len(buf.data)
  /\ fields \in Seq(Fields)
  /\ next \in 1..(Len(fields) + 1)
  /\ status \in {"running", "stopped"}

(* What is left of a text written with a fixed length: its first           *)
(* maxLen - 1 bytes, up to a zero byte.                                    *)
Shown(f) ==
  IF f.type = "string" /\ f.len > 0
  THEN CString(SubSeq(f.val, 1, Min({Len(f.val), f.len - 1})) \o <<0>>)
  ELSE f.val

(* A text of variable length whose length is cut to 16 bits: all its bytes *)
(* are written, and the reader takes the rest of them for what follows.    *)
TooLong(f) == f.type = "string" /\ f.len = 0 /\ Len(f.val) >= Width(2)
Lost == \E i \in 1..(next - 1) : TooLong(fields[i])

(* Every field comes back as it was written, whatever was written or read  *)
(* before it; texts of a fixed length come back shortened to fit.  A text  *)
(* too long for its length spoils what is read from it on, not before.     *)
FieldsArrive == got[1] # None /\ ~Lost => got[2] = Shown(got[1])

(* The bytes of a field, and those of every field from the i-th on. *)
Encoding(f) == Write(Buffer(<<>>), f).data
Encodings[i \in Nat] ==
  IF i > Len(fields) THEN <<>> ELSE Encoding(fields[i]) \o Encodings[i + 1]

(* The unread bytes are the encodings of the unread fields: a reader that  *)
(* keeps to the writer's types stays aligned with it, up to the first text *)
(* too long for its length.                                                *)
Aligned == ~Lost => Left(buf) = Encodings[next]

(* A reader that keeps to the writer's types leaves m_data only where      *)
(* nothing is left but empty texts and empty runs of bytes: no text that   *)
(* was written with a byte in it, no number and no text of fixed length    *)
(* can stop it, in whatever order writes, reads and rewinds came.          *)
StopsAtNothing ==
  status = "stopped" /\ ~Lost =>
    \A i \in next..Len(fields) :
      fields[i].type \in {"string", "bytes"} /\ fields[i].len = 0 /\ fields[i].val = <<>>
=============================================================================
