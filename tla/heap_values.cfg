SPECIFICATION Spec
CONSTANTS
  a1 = a1
  a2 = a2
  Addr = {a1, a2}
  Imm = imm
  FloatVal = {0, 1}
  NGlobals = 1
  MaxStack = 4
  MaxDepth = 2
  MaxItems = 2
  MaxLeak = 1
  Discipline = {"TextGetsChar"}
  Instrs = {"NULL", "CLOSURE", "DUP", "DROP", "SWAP", "END", "ELEM", "LOAD", "STORE", "CONST", "CONSTF", "FLOATOP", "NEGATE", "DIV", "TUPLE", "STA", "VARIANT", "FIELD", "SETFIELD", "ISVARIANT", "VARIANTTAG", "CJMP"}
SYMMETRY AddrSymmetry
INVARIANTS
  CountsExact
  NoDangling
  ResidueExplained
PROPERTIES
  OverwriteUnobserved
CHECK_DEADLOCK FALSE
