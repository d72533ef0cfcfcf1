SPECIFICATION Spec
CONSTANT Needs <- SmallNeeds
INVARIANTS
  TypeOK
  SpilledSurvives
  ParkedSurvives
  SurveySuffices
  CountersRestored
