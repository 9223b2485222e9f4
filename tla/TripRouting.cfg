SPECIFICATION Spec
CONSTANTS
  Precision = 2
  MaxMessages = 2
INVARIANTS
  EveryMessageRouted
  FieldsMatchKeys
PROPERTY
  RejectedHasNoEffect
