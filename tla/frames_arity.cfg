SPECIFICATION Spec
CONSTANTS
  main = main  one = one  many = many
  site1 = site1  body = body
  Fun = {main, one, many}
  Arity <- MCArity
  Locals <- MCLocals
  Reserve <- SomeReserve
  Main = main
  Data = {9}
  Site = {site1}
  Body = body
  NGlobals = 1
  MaxStack = 24
  MaxTemps = 2
  Discipline = {}
INVARIANT FramesDisjoint
