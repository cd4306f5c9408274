CONSTANTS
  NUM_TERMS <- MCNumTerms
  BUFSIZE <- MCBufSizeOne
  IDX_WIDTH <- MCIdxWidthOne
  Chars <- MCChars
  NUL = NUL
SPECIFICATION Spec
INVARIANT
  TypeOK
