----------------------------- MODULE MCPackets -----------------------------
(* Packets for TLC.  A byte has 128 values, so that four of them fit TLC's *)
(* integers.  The strings are empty, hold a zero byte, fill password,      *)
(* username and name, or message, or do not fit anywhere.                  *)
EXTENDS Packets
Long(n) == [i \in 1..n |-> 1 + (i % 100)]
MCStrings == {<<>>, <<77, 0, 65>>, Long(16), Long(24), Long(255), Long(300)}
MCInts  == {-2, 70000, -(Width(4) \div 2)}
=============================================================================
