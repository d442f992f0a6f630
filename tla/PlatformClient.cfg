SPECIFICATION Spec
CONSTANTS
  Callers = {c1, c2}
  Offsets = {0, 1, 5, 6, 7}
  Lengths = {0, 1, 2, 3, 7}
  Word = 8
  MaxChunk = 2
  MaxTokens = 3
INVARIANTS TypeOK RenewalOutlivesTheBody RejectionKeepsTheSlot RangeIsExact ChunkFits
PROPERTY OnlyOvertakenCallsGoBack
