SPECIFICATION Spec
CONSTANTS
  Signs <- MCSigns
  LowerOf <- MCLowerOf
  Cases <- MCDoubles
  HardTerms <- MCHardTerms
  DocNouns <- MCDocNouns
  FormLabels <- MCDocNouns
  Dates <- MCDocNouns
  CapsWords = 4
  MinStructural = 4
  MinSurname = 2
  MinPrefix = 3
  MaxPrefix = 5
  MaxDecisions = 2
CHECK_DEADLOCK FALSE
INVARIANTS
  DetectionsAreDisjoint
