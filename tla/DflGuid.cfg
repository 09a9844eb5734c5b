\* dfl_parse_guid on every bounded text, into a reused buffer.
CONSTANTS
  GuidBytes = 2
  MaxLen = 4
  Chars <- MC_Chars

SPECIFICATION Spec

INVARIANT TypeOK
INVARIANT GuidComplete
