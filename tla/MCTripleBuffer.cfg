CONSTANTS
  Field = {left, right}
  FieldValue = {v0, v1}
  Initial = v0
SPECIFICATION BufferSpec
INVARIANTS
  NoTearing
PROPERTIES
  ImplementsRegister
CHECK_DEADLOCK FALSE
