SPECIFICATION Improvements
CONSTANTS
  Criteria = {"E1", "E2", "B1"}
  Dimensions = {"E", "B"}
  DimensionOf <- MCDimensionOf
  Core = {"E", "M", "G"}
  Gates = {"R1", "R2", "R7"}
  Profiles <- MCProfiles
  Tiers <- MCTiers
  None = None
  Inputs <- MCInputs
INVARIANTS
  BoundsEnclose
  ReadyIffRequirements
PROPERTY ImprovementNeverStepsBack
CHECK_DEADLOCK FALSE
