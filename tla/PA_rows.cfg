SPECIFICATION ParsingSpec
CONSTANTS
  Cases <- MCCases
  Lines <- MCLines
  Raising = {"postal", "mode", "address", "estimate", "time", "hard"}
INVARIANTS TimesAsSaid EnforcedRowIsUsable EstimateOnlyWithoutCode
CHECK_DEADLOCK FALSE
