------------------------------ MODULE Packets ------------------------------
(***************************************************************************)
(* A packet on its way: filled in by its sender, sent, broken off by the   *)
(* connection or not, and read by the handler registered for its id.       *)
(* LoginPacket, MovePacket and CharacterInfoPacket are sent as they lie in *)
(* memory (Session::sendPacket<T>); a ChatPacket, which holds a            *)
(* std::string, is serialized into a PacketBuffer.                         *)
(*                                                                         *)
(* Nothing but the caller sets the header of a ChatPacket.  Members that   *)
(* no constructor sets hold anything: Leftover.                            *)
(***************************************************************************)
EXTENDS Wire

CONSTANTS
  Leftover,  \* bytes that uninitialized memory is made of
  Uints,     \* values callers assign to unsigned members, if they fit
  Ints,      \* values callers assign to signed members
  Strings,   \* texts callers assign
  Sizes      \* header.size values callers leave in a ChatPacket

ASSUME PacketsAssumption ==
  /\ B >= 115 /\ Leftover \subseteq Bytes
  /\ Uints \subseteq 0..(Width(4) - 1) /\ Sizes \subseteq 0..(Width(2) - 1)
  /\ Ints \subseteq (-(Width(4) \div 2))..(Width(4) \div 2 - 1)
  /\ Strings \subseteq Seq(Bytes)

VARIABLES
  kind,     \* the struct that is sent
  packet,   \* its members
  wire,     \* the bytes that are sent and read
  at,       \* "new", "filled", "sent", "cut" (broken off), "read"
  whole,    \* the packet arrived as it was sent
  handler,  \* the struct the receiver's handler reads
  received  \* its members

packetVars == <<kind, packet, wire, at, whole, handler, received>>

ClientPackets == [LOGIN |-> 1, SELECT_CHARACTER |-> 2, MOVE |-> 3, ATTACK |-> 4,
  CHAT |-> 5, ITEM_PICK |-> 6, ITEM_USE |-> 7, ITEM_DROP |-> 8, ITEM_MOVE |-> 9,
  SKILL_USE |-> 10, SHOP_BUY |-> 11, SHOP_SELL |-> 12, QUEST_ANSWER |-> 13]
ServerPackets == [LOGIN_SUCCESS |-> 101, LOGIN_FAILURE |-> 102, CHARACTER_INFO |-> 103,
  SPAWN_CHARACTER |-> 104, DESPAWN_CHARACTER |-> 105, MOVE |-> 106, CHAT |-> 107,
  DAMAGE |-> 108, ITEM_ADD |-> 109, ITEM_REMOVE |-> 110, ITEM_UPDATE |-> 111,
  STAT_UPDATE |-> 112, SKILL_LEVEL |-> 113, QUEST_INFO |-> 114]
ChatIds == {ClientPackets.CHAT, ServerPackets.CHAT}

---------------------------------------------------------------------------
(* The members in the order of their declaration. *)
Unsigned(name, len) == [name |-> name, type |-> "uint", len |-> len]
Signed32(name)      == [name |-> name, type |-> "int", len |-> 4]
Chars(name, len)    == [name |-> name, type |-> "text", len |-> len]

PacketHeader == <<Unsigned("headerId", 1), Unsigned("headerSize", 2)>>
LoginPacket  == PacketHeader \o <<Chars("username", 25), Chars("password", 17)>>
MovePacket   == PacketHeader \o <<Signed32("x"), Signed32("y"), Unsigned("timestamp", 4)>>
CharacterInfoPacket == PacketHeader \o
  <<Unsigned("id", 4), Chars("name", 25), Unsigned("job", 1), Unsigned("level", 1),
    Unsigned("exp", 4), Signed32("x"), Signed32("y"),
    Unsigned("hp", 4), Unsigned("maxHp", 4), Unsigned("sp", 4), Unsigned("maxSp", 4),
    Unsigned("st", 2), Unsigned("ht", 2), Unsigned("dx", 2), Unsigned("iq", 2)>>
ChatPacket == PacketHeader \o
  <<Unsigned("type", 1), Unsigned("senderId", 4), Chars("message", 256)>>

Struct == [Login |-> LoginPacket, Move |-> MovePacket,
           CharacterInfo |-> CharacterInfoPacket, Chat |-> ChatPacket]
Kinds == DOMAIN Struct
Raw   == Kinds \ {"Chat"}  \* trivially copyable

Members(k) == Range(Struct[k])
Names(k)   == {f.name : f \in Members(k)}
Index(k, name) == CHOOSE i \in DOMAIN Struct[k] : Struct[k][i].name = name
Member(k, name) == Struct[k][Index(k, name)]
Zero(f) == IF f.type = "text" THEN <<>> ELSE 0

(* #pragma pack(1): no padding before a member. *)
Natural(mem, f) ==  \* seeded fault: integers at multiples of their size
  [i \in 1..(IF f.type = "text" THEN 0 ELSE (0 - Len(mem)) % f.len) |-> 0]
Padding(mem, f) == <<>>

(* A struct in memory, on the little-endian machines it is built for: a    *)
(* char array is a text that strncpy has put over zeros.                   *)
InMemory(f, v) ==
  CASE f.type = "text" -> Padded(v, f.len)
    [] f.type = "uint" -> LittleEndian(v, f.len)
    [] f.type = "int"  -> LittleEndian(v % Width(4), 4)
Memory(k, p) ==
  LET memory[i \in 0..Len(Struct[k])] ==  \* the first i members
        IF i = 0 THEN <<>>
        ELSE LET mem == memory[i - 1]  f == Struct[k][i]
             IN  mem \o Padding(mem, f) \o InMemory(f, p[f.name])
  IN  memory[Len(Struct[k])]
SizeOf(k) == Len(Memory(k, [name \in Names(k) |-> Zero(Member(k, name))]))

(* The constructors: header.id, and the members they set to zero.  The     *)
(* others are whatever the memory holds.                                   *)
HeaderId == [Login |-> ClientPackets.LOGIN, Move |-> ClientPackets.MOVE,
             CharacterInfo |-> ServerPackets.CHARACTER_INFO, Chat |-> 0]
Zeroed == [Login |-> {"username", "password"}, Move |-> {"x", "y", "timestamp"},
           CharacterInfo |-> {"name"}, Chat |-> {"headerSize", "message"}]

Unset(f, byte) ==
  LET u == FromBytes([i \in 1..f.len |-> byte]) IN IF f.type = "int" THEN Signed(u) ELSE u
Constructed(k, byte) ==
  [name \in Names(k) |->
    CASE name = "headerId" -> HeaderId[k]
      [] name \in Zeroed[k] -> Zero(Member(k, name))
      [] name = "headerSize" /\ k # "Chat" -> SizeOf(k)
      [] OTHER -> Unset(Member(k, name), byte)]

PacketInit ==
  /\ kind \in Kinds
  /\ packet \in {Constructed(kind, byte) : byte \in Leftover}
  /\ wire = Buffer(<<>>)
  /\ at = "new" /\ whole = TRUE
  /\ handler = "none" /\ received = <<>>

---------------------------------------------------------------------------
(* The caller assigns a member ... *)
Values(f) ==
  CASE f.type = "text" -> {x \in Strings : 0 \notin Range(x)}
    [] f.type = "uint" -> {v \in Uints : v < Width(f.len)}
    [] f.type = "int"  -> Ints

FillRaw(f, v) ==
  /\ at = "new" /\ kind \in Raw
  /\ packet' = [packet EXCEPT ![f.name] = v]
  /\ at' = "filled"
  /\ UNCHANGED <<kind, wire, whole, handler, received>>

(* ... or those of a ChatPacket, but not always the header. *)
FillChat(id, size, type, sender, text) ==
  /\ at = "new" /\ kind = "Chat"
  /\ packet' = [packet EXCEPT !.headerId = id, !.headerSize = size,
                              !.type = type, !.senderId = sender, !.message = text]
  /\ at' = "filled"
  /\ UNCHANGED <<kind, wire, whole, handler, received>>

(* Session::sendPacket<T>: sizeof(T) bytes from the struct's address. *)
SendRaw ==
  /\ at \in {"new", "filled"} /\ kind \in Raw
  /\ wire' = Buffer(Memory(kind, packet))
  /\ at' = "sent"
  /\ UNCHANGED <<kind, packet, whole, handler, received>>

SerializeInto(b, p) ==
  LET b1 == WriteUint(b, p.headerId, 1)
      b2 == WriteUint(b1, p.headerSize, 2)
      b3 == WriteUint(b2, p.type, 1)
      b4 == WriteUint(b3, p.senderId, 4)
  IN  WriteString(b4, p.message, 256)

Serialize ==
  /\ at \in {"new", "filled"} /\ kind = "Chat"
  /\ wire' = SerializeInto(wire, packet)
  /\ at' = "sent"
  /\ UNCHANGED <<kind, packet, whole, handler, received>>

(* The connection breaks: the first n bytes have arrived. *)
Cut(n) ==
  /\ at = "sent" /\ n < Len(wire.data)
  /\ wire' = Buffer(SubSeq(wire.data, 1, n))
  /\ at' = "cut" /\ whole' = FALSE
  /\ UNCHANGED <<kind, packet, handler, received>>

---------------------------------------------------------------------------
(* The handler registered for the id in the first byte, or the default one. *)
HandlerOf(id) ==
  IF id \in ChatIds THEN "Chat"
  ELSE IF \E k \in Raw : HeaderId[k] = id THEN CHOOSE k \in Raw : HeaderId[k] = id
  ELSE "default"

(* Each read takes what the one before left; the result is always true.    *)
TypeBeforeSize(b) ==  \* seeded fault: two fields read in the wrong order
  LET r1 == ReadUint(b, 1)
      r3 == ReadUint(r1.buf, 1)
      r2 == ReadUint(r3.buf, 2)
      r4 == ReadUint(r2.buf, 4)
      r5 == ReadString(r4.buf, 256)
  IN  Got([headerId |-> r1.val, headerSize |-> r2.val, type |-> r3.val,
           senderId |-> r4.val, message |-> r5.val], r5.buf)
DeserializeFrom(b) ==
  LET r1 == ReadUint(b, 1)
      r2 == ReadUint(r1.buf, 2)
      r3 == ReadUint(r2.buf, 1)
      r4 == ReadUint(r3.buf, 4)
      r5 == ReadString(r4.buf, 256)
  IN  Got([headerId |-> r1.val, headerSize |-> r2.val, type |-> r3.val,
           senderId |-> r4.val, message |-> r5.val], r5.buf)

Deserialize ==
  /\ at \in {"sent", "cut"} /\ HandlerOf(wire.data[1]) = "Chat"
  /\ LET r == DeserializeFrom(wire) IN received' = r.val /\ wire' = r.buf
  /\ handler' = "Chat" /\ at' = "read"
  /\ UNCHANGED <<kind, packet, whole>>

(* The handlers of the other packets, which take one member after the      *)
(* other out of a PacketBuffer made of the bytes.                          *)
ReadMember(b, f) ==
  CASE f.type = "text" -> ReadString(b, f.len)
    [] f.type = "uint" -> ReadUint(b, f.len)
    [] f.type = "int"  -> ReadInt(b)
ReadRaw(k, b) ==
  LET n == Len(Struct[k])
      read[i \in 0..n] ==  \* what the i-th read returns
        IF i = 0 THEN Got(0, b) ELSE ReadMember(read[i - 1].buf, Struct[k][i])
  IN  Got([name \in Names(k) |-> read[Index(k, name)].val], read[n].buf)

Handle ==
  /\ at \in {"sent", "cut"}
  /\ LET k == HandlerOf(wire.data[1])  r == ReadRaw(k, wire) IN
       /\ k \in Raw
       /\ handler' = k /\ received' = r.val /\ wire' = r.buf
  /\ at' = "read"
  /\ UNCHANGED <<kind, packet, whole>>

(* The default handler of a session is told of the bytes only. *)
HandleDefault ==
  /\ at \in {"sent", "cut"} /\ HandlerOf(wire.data[1]) = "default"
  /\ handler' = "default" /\ at' = "read"
  /\ UNCHANGED <<kind, packet, wire, whole, received>>

(* The next packet, with a buffer of its own. *)
Again ==
  /\ at = "read"
  /\ \E k \in Kinds, byte \in Leftover : kind' = k /\ packet' = Constructed(k, byte)
  /\ wire' = Buffer(<<>>)
  /\ at' = "new" /\ whole' = TRUE
  /\ handler' = "none" /\ received' = <<>>

PacketNext ==
  \/ \E f \in Members(kind) \ Range(PacketHeader) : \E v \in Values(f) : FillRaw(f, v)
  \/ \E id \in ChatIds \cup {0}, size \in Sizes, type \in Uints \cap Bytes,
        sender \in Uints, text \in Strings :
       FillChat(id, size, type, sender, text)
  \/ SendRaw \/ Serialize
  \/ \E n \in 1..Len(wire.data) : Cut(n)
  \/ Deserialize \/ Handle \/ HandleDefault \/ Again

PacketSpec == PacketInit /\ [][PacketNext]_packetVars

---------------------------------------------------------------------------
MemberType(f) ==
  CASE f.type = "text" -> Seq(Bytes) \cup {NoZero}
    [] f.type = "uint" -> 0..(Width(f.len) - 1)
    [] f.type = "int"  -> {v \in Int : Signed(v % Width(4)) = v}
Holds(k, p) ==
  DOMAIN p = Names(k) /\ \A f \in Members(k) : p[f.name] \in MemberType(f)

(* The variables have their types, and the read position is never beyond   *)
(* the bytes.                                                              *)
PacketTypeOK ==
  /\ kind \in Kinds /\ Holds(kind, packet)
  /\ wire \in Buffers /\ wire.pos <= Len(wire.data)
  /\ at \in {"new", "filled", "sent", "cut", "read"}
  /\ whole \in BOOLEAN
  /\ IF handler \in Kinds THEN Holds(handler, received)
     ELSE handler \in {"none", "default"} /\ received = <<>>

(* Where the members end in the bytes. *)
End(k) ==
  LET end[i \in 0..Len(Struct[k])] == IF i = 0 THEN 0 ELSE end[i - 1] + Struct[k][i].len
  IN  end

(* What there is to see of a member: of a text, what fits, up to a zero.   *)
Seen(f) ==
  LET v == packet[f.name]
  IN  IF f.type = "text" THEN CString(SubSeq(v, 1, Min({Len(v), f.len - 1})) \o <<0>>) ELSE v

(* A packet that arrives whole gets to the handler of its kind, and every  *)
(* member is what was sent: the packed structs and the reads agree on      *)
(* sizes, order, bytes and signs, and no id stands for two structs.        *)
WholePacketArrives ==
  at = "read" /\ whole /\ packet.headerId # 0 =>
    handler = kind /\ \A f \in Members(kind) : received[f.name] = Seen(f)

(* Of a packet that broke off, the members that arrived are what was sent. *)
(* A read that fails leaves its bytes to the next one, and deserialize()   *)
(* says true all the same; still, a ChatPacket shows no part of a text and *)
(* no wrong size or sender, only a zero (but of the type, perhaps a byte   *)
(* of the size).                                                           *)
CutPacketShowsPrefix ==
  at = "read" /\ ~whole /\ handler # "default" =>
    /\ handler = kind
    /\ \A i \in DOMAIN Struct[kind] :
         LET f == Struct[kind][i] IN
           End(kind)[i] <= Len(wire.data) => received[f.name] = Seen(f)
    /\ kind = "Chat" =>
         /\ received.message = <<>>
         /\ received.headerSize \in {packet.headerSize, 0}
         /\ received.senderId \in {packet.senderId, 0}

(* "Toplam paket boyutu (header dahil)" (packet.hpp:17): the size in the   *)
(* header is the length of what is sent.                                   *)
HeaderSizeIsTotal == at = "sent" => packet.headerSize = Len(wire.data)
=============================================================================
