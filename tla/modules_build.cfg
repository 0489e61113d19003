SPECIFICATION FairSpec
CONSTANTS
  main = main  a = a  b = b
  x = x
  here = here  lib = lib
  File = {main, a, b}
  NoFile = nofile
  NumNames = 3
  Def = {x}
  Dir = {here, lib}
  Projects <- AllProjects
INVARIANTS TypeOK LoadedOnce ImportsBound
PROPERTIES ProjectSpec BuildShrinks BuildEnds
