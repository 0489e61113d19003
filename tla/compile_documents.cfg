SPECIFICATION Spec
CONSTANTS
  Programs <- DocumentedPrograms
  Inputs <- TypedInputs
  Fuel = 12
INVARIANT MeansAsDocumented
CHECK_DEADLOCK FALSE
