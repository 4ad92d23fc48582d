CONSTANTS
  B = 128
  Leftover = {119}
  Uints = {7}
  Ints <- MCInts
  Strings <- MCStrings
  Sizes = {0, 264}
SPECIFICATION PacketSpec
INVARIANT HeaderSizeIsTotal
