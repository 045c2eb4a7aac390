SPECIFICATION Spec
CONSTANTS
  Views <- SomeViews
  Lengths = {0, 1, 3}
  MaxViews = 3
INVARIANTS
  TypeOK
PROPERTIES
  ImplementsByteString
