\* Violation: GuidSound.
CONSTANTS
  GuidBytes = 2
  MaxLen = 4
  Chars <- MC_Chars

SPECIFICATION Spec

INVARIANT GuidSound
