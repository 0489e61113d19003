SPECIFICATION FairSpec
CONSTANTS
  Programs <- CorrectPrograms
  Inputs <- TypedInputs
  Fuel = 12
INVARIANTS
  TypeOK
  MeansTheSame
  TempsBalanced
  SlotsReserved
  DecodesBack
  JumpsLand
PROPERTIES
  RunsEnd
CHECK_DEADLOCK FALSE
