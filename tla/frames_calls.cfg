SPECIFICATION Spec
CONSTANTS
  main = main  one = one  many = many
  site1 = site1  body = body
  Fun = {main, one}
  Arity <- MCArity
  Locals <- MCLocals
  Reserve <- SomeReserve
  Main = main
  Data = {}
  Site = {site1}
  Body = body
  NGlobals = 1
  MaxStack = 30
  MaxTemps = 3
  Discipline = {"ArityMatches"}
INVARIANTS TypeOK ChainIntact FramesDisjoint StackBalanced
PROPERTY CallsSpec
