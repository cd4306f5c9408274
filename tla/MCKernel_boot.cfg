CONSTANTS
  MAX_PROCESSES <- MCMaxProcesses
  ShellsMayExit = FALSE
  SyscallPreemptible = FALSE
  BootPreemptible = TRUE
  ExecuteAnywhere = FALSE
  NestedExecute = FALSE
  MAX_FILENAME_LENGTH <- MCMaxFilenameLength
  KB_BUF_SIZE_MAX <- MCKbBufSizeMax
  header <- MCHeader
  Commands <- MCCommands
  ShellCmd <- MCShellCmd
  GetargsSizes <- MCGetargsSizes
  FOUR_KB <- MCFourKB
  MAX_NAME_LEN <- MCMaxNameLen
  Chars <- MCChars
  NUL = NUL
  d_entries <- MCDEntries
  Inodes <- MCInodes
  inode_length <- MCInodeLength
  data_block_num <- MCDataBlockNum
SPECIFICATION Spec
INVARIANT NoLeakedSlot
