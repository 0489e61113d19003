CONSTANTS
  Half = 8
  Literals <- MCLiterals
  Typed <- MCTyped
  MaxExact = 100
SPECIFICATION Spec
INVARIANTS
  TypeOK
  OverflowForgiven
  DivisionLaw
  DividesByCounting
