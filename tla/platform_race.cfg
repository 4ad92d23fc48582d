CONSTANTS
  None = None
  Java = java
  Game = {t1}
  Plats = {p1, p2}
  Activities = {a1, a2}
SPECIFICATION Spec
INVARIANT GlobalInstance
