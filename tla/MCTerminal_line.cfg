CONSTANTS
  NUM_TERMS <- MCNumTerms
  BUFSIZE <- MCBufSize
  IDX_WIDTH <- MCIdxWidth
  Chars <- MCChars
  NUL = NUL
SPECIFICATION Spec
PROPERTY
  LineDelivered
