CONSTANTS
  B = 128
  Leftover = {0, 119}
  Uints = {7, 300, 268435455}
  Ints <- MCInts
  Strings <- MCStrings
  Sizes = {0, 264}
SPECIFICATION PacketSpec
INVARIANTS
  PacketTypeOK
  WholePacketArrives
  CutPacketShowsPrefix
