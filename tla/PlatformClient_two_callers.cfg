SPECIFICATION Spec
CONSTANTS
  Callers = {c1, c2}
  Offsets = {0}
  Lengths = {1}
  Word = 8
  MaxChunk = 1
  MaxTokens = 3
PROPERTY SlotNeverGoesBack
