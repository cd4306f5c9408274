CONSTANTS
  p1 = p1
  p2 = p2
  p3 = p3
  Procs <- MCProcs
  FOUR_KB <- MCFourKB
  MAX_NAME_LEN <- MCMaxNameLen
  Chars <- MCChars
  NUL = NUL
  d_entries <- MCDEntries
  Inodes <- MCInodes
  inode_length <- MCInodeLength
  data_block_num <- MCDataBlockNum
  MAX_TASK <- MCMaxTask
  ReadSizes <- MCReadSizes
  WriteFreqs <- MCWriteFreqs
SYMMETRY MCSymmetry
VIEW MCView
SPECIFICATION Spec
INVARIANT
  CloseReleases
