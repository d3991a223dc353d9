SPECIFICATION Spec
CONSTANTS
  LINE_BUF_SIZE = 3
  Chars = {"a"}
  Readers = {r1}
INVARIANTS NoLostWake
PROPERTIES PointerOrder StreamSpec
