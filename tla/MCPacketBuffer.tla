-------------------------- MODULE MCPacketBuffer --------------------------
(* PacketBuffer for TLC: bytes of three values, so that a uint16 counts    *)
(* to 8 and an int32 to 40; texts with a zero byte inside, of the longest  *)
(* length a fixed field holds, one longer than that, and one of 10 bytes,  *)
(* whose length reads as 1.                                                *)
EXTENDS PacketBuffer
MCTexts == {<<>>, <<2, 0, 1>>, <<1, 2, 1, 2>>, [i \in 1..10 |-> i % 3]}
MCInt32s == {-1, 40}
=============================================================================
