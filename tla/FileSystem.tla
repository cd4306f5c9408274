----------------------------- MODULE FileSystem -----------------------------
(***************************************************************************)
(* The read-only filesystem of file.c as pure operators over a small boot *)
(* block.  A file name is a sequence of characters; a position past its    *)
(* end reads as NUL, as C strings do.  A data byte is identified by the    *)
(* data block and the offset in it that hold it, so that two reads can be  *)
(* compared by which bytes of the image they return.                       *)
(***************************************************************************)
EXTENDS Integers, Sequences, FiniteSetsExt

CONSTANTS
  FOUR_KB,        \* file.h: size of an inode and of a data block
  MAX_NAME_LEN,   \* file.h: longest name; a name this long has no NUL
  Chars,          \* the characters names are made of
  NUL,            \* the terminating character, not in Chars
  d_entries,      \* boot_block->d_entries[0 .. dir_count - 1], a sequence of
                  \* [fname : name, file_type : 0..2, inode_num : inode]
  Inodes,         \* the inode numbers in use
  inode_length,   \* inode -> length in bytes
  data_block_num  \* inode -> sequence of data block numbers (its blocks)

ASSUME /\ FOUR_KB \in Nat \ {0} /\ MAX_NAME_LEN \in Nat \ {0}
       /\ NUL \notin Chars
       /\ \A i \in DOMAIN d_entries : Len(d_entries[i].fname) \in 1 .. MAX_NAME_LEN

dir_count == Len(d_entries)

\* A data_block_num entry past the blocks an inode uses: whatever the inode
\* block holds there.
NoBlock == -1

\* The k-th character of a C string s (1-based); NUL past its end.
CharAt(s, k) == IF k \in 1 .. Len(s) THEN s[k] ELSE NUL

\* strlen(s) for a name held in an array of MAX_NAME_LEN characters.
StrLen(s) == Len(s)

\* strncmp(s, t, n) = 0: the first n characters agree, or agree up to and
\* including a NUL.
StrNCmpEq(s, t, n) ==
  \A k \in 1 .. n :
     (\A j \in 1 .. k - 1 : CharAt(s, j) # NUL) => CharAt(s, k) = CharAt(t, k)

\* What a failed lookup (return -1) leaves: no entry.
NoDentry == [fname |-> <<>>, file_type |-> -1, inode_num |-> -1]

\* read_dentry_by_index: the entry at index, or none if out of range.
ReadDentryByIndex(index) ==
  IF index >= dir_count THEN NoDentry ELSE d_entries[index + 1]

\* Mutant: compare only as many characters as the shorter name has.
ReadDentryByNamePrefix(fname) ==
  LET str_len == StrLen(fname)
      hits == {i \in 1 .. dir_count :
                 LET e == d_entries[i]
                 IN  StrNCmpEq(e.fname, fname,
                               IF StrLen(e.fname) < str_len THEN StrLen(e.fname) ELSE str_len)}
  IN  IF str_len > MAX_NAME_LEN \/ hits = {} THEN NoDentry ELSE d_entries[Min(hits)]

\* read_dentry_by_name: the first entry that strncmp finds equal, comparing
\* as many characters as the longer of the two names (entry names capped at
\* MAX_NAME_LEN); none if fname is longer than MAX_NAME_LEN or nothing matches.
ReadDentryByName(fname) ==
  LET str_len == StrLen(fname)
      Matches(e) ==
        LET entry_fname_length == IF StrLen(e.fname) > MAX_NAME_LEN
                                  THEN MAX_NAME_LEN ELSE StrLen(e.fname)
        IN  IF entry_fname_length > str_len
            THEN StrNCmpEq(e.fname, fname, entry_fname_length)
            ELSE StrNCmpEq(e.fname, fname, str_len)
      hits == {i \in 1 .. dir_count : Matches(d_entries[i])}
  IN  IF str_len > MAX_NAME_LEN \/ hits = {} THEN NoDentry
      ELSE d_entries[Min(hits)]

\* The byte at offset b_offset of the blk_idx-th data block of an inode.
DataByte(inode, blk_idx, b_offset) ==
  <<IF blk_idx < Len(data_block_num[inode])
    THEN data_block_num[inode][blk_idx + 1] ELSE NoBlock, b_offset>>

\* The n bytes of block blk_idx from b_offset on.
BlockBytes(inode, blk_idx, b_offset, n) ==
  [j \in 1 .. n |-> DataByte(inode, blk_idx, b_offset + j - 1)]

\* Mutant: b_offset not reset to 0 for the next block.
RECURSIVE CopyLoopKeepsOffset(_, _, _, _)
CopyLoopKeepsOffset(inode, blk_idx, b_offset, length) ==
  IF FOUR_KB - b_offset >= length
  THEN BlockBytes(inode, blk_idx, b_offset, length)
  ELSE BlockBytes(inode, blk_idx, b_offset, FOUR_KB - b_offset)
         \o CopyLoopKeepsOffset(inode, blk_idx + 1, b_offset, length - FOUR_KB + b_offset)

\* The copy loop of read_data: a whole remainder that fits in this block
\* ends it; otherwise copy to the end of the block and go on with the next.
RECURSIVE CopyLoop(_, _, _, _)
CopyLoop(inode, blk_idx, b_offset, length) ==
  IF FOUR_KB - b_offset >= length
  THEN BlockBytes(inode, blk_idx, b_offset, length)
  ELSE BlockBytes(inode, blk_idx, b_offset, FOUR_KB - b_offset)
         \o CopyLoop(inode, blk_idx + 1, 0, length - FOUR_KB + b_offset)

\* Mutant: no check of the offset against the file length.
ReadDataNoEof(inode, offset, length) ==
  [ret |-> length,
   bytes |-> CopyLoop(inode, offset \div FOUR_KB, offset % FOUR_KB, length)]

\* read_data(inode, offset, buf, length): the return value and the bytes
\* placed in buf.  At or past the end of the file nothing is copied.
ReadData(inode, offset, length) ==
  IF offset >= inode_length[inode]
  THEN [ret |-> 0, bytes |-> <<>>]
  ELSE [ret |-> length,
        bytes |-> CopyLoop(inode, offset \div FOUR_KB, offset % FOUR_KB, length)]

-----------------------------------------------------------------------------
(* Reference definitions (spec 3 and 6) *)

\* lookup(name): the entry whose name is exactly name.
RefLookup(fname) ==
  LET hits == {i \in 1 .. dir_count : d_entries[i].fname = fname}
  IN  IF hits = {} THEN NoDentry ELSE d_entries[Min(hits)]

\* read(data_handle, offset, buffer, length) -> bytes_copied: the bytes of
\* the file from offset on, at most length of them and none past its end.
RefReadData(inode, offset, length) ==
  LET n == IF offset >= inode_length[inode] THEN 0
           ELSE IF length < inode_length[inode] - offset THEN length
           ELSE inode_length[inode] - offset
  IN  [ret |-> n,
       bytes |-> [j \in 1 .. n |-> DataByte(inode, (offset + j - 1) \div FOUR_KB,
                                            (offset + j - 1) % FOUR_KB)]]

=============================================================================
