CONSTANTS
  b1 = b1
  b2 = b2
  a = a
  Space = Space
  Nul = Nul
  None = None
  Buf = {b1, b2}
  Letter = {a, Space}
  N = 3
  Literals <- MCLiterals
  Formats <- MCFormats
SPECIFICATION FfbSpec
INVARIANTS FfbTypeOK Terminated ReadsInBounds EqualityIsTextual
PROPERTIES TextsKept CallsReturn
