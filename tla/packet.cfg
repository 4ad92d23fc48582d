CONSTANTS
  B = 3
  Uint8s = {2}
  Uint16s = {5}
  Uint32s = {46, 80}
  Int32s <- MCInt32s
  Texts <- MCTexts
  FixedLens = {1, 3}
  MaxFields = 3
SPECIFICATION Spec
INVARIANTS
  TypeOK
  FieldsArrive
  Aligned
  StopsAtNothing
\* A read outside of m_data may end the program.
CHECK_DEADLOCK FALSE
