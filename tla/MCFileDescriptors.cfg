CONSTANTS
  p1 = p1
  p2 = p2
  p3 = p3
  Procs <- MCThreeProcs
  FOUR_KB <- MCFourKB
  MAX_NAME_LEN <- MCMaxNameLen
  Chars <- MCChars
  NUL = NUL
  d_entries <- MCDEntries
  Inodes <- MCInodes
  inode_length <- MCInodeLength
  data_block_num <- MCDataBlockNum
  MAX_TASK <- MCMaxTaskOne
  ReadSizes <- MCReadSizes
  WriteFreqs <- MCWriteFreqs
SYMMETRY MCSymmetry3
VIEW MCView
SPECIFICATION Spec
INVARIANTS
  TypeOK
  StdioBound
  RtcWriteSetsRate
PROPERTIES
  NameLookupCorrect
  ReadDataInFile
