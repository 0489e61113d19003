SPECIFICATION FairSpec
CONSTANTS
  a1 = a1
  a2 = a2
  a3 = a3
  Addr = {a1, a2, a3}
  Imm = imm
  FloatVal = {0}
  NGlobals = 0
  MaxStack = 3
  MaxDepth = 3
  MaxItems = 2
  MaxLeak = 0
  Discipline = {"IndexInRange", "TextGetsChar"}
  Instrs = {"DUP", "TUPLE", "SLICE", "STA", "SWAP"}
PROPERTIES
  CascadeEnds
  ReleaseShrinks
