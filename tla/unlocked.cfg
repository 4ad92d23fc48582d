CONSTANTS
  Threads = {t1, t2}
  MaxStores = 4
  LogLevels = {0, 2, 4}
  MaxLogDepth = 2
  Width16 = 3
  Points = {1, 7}
  Sockets = 1
  Attributes = 2
  Indices = {0, 1, 2}
  Bonuses = {3, 12}
SPECIFICATION MCSpec
SYMMETRY Same
INVARIANTS
  TypeOK
  LoginSeen
  LevelHolds
  MCCountersAdd
  MCItemKeeps
