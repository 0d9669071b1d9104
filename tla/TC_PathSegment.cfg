CONSTANTS
    Chars <- MCChars
    MaxLen = 4
SPECIFICATION Spec
INVARIANTS SingleSegment
