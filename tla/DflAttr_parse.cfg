\* Violation: ReadMatchesSpec.
CONSTANTS
  Chars <- MC_Chars
  Values <- MC_Values
  MaxLen = 2
  PgSize = 8
  MaxPages = 1

SPECIFICATION Spec

INVARIANT ReadMatchesSpec
