------------------------- MODULE MCFileDescriptors -------------------------
(* FileDescriptors over a boot block of three entries: a directory "a", the *)
(* RTC "b" and a regular file "ab" whose name fills MAX_NAME_LEN and so has *)
(* no NUL.  The file is 5 bytes in two blocks of FOUR_KB = 3; reads of 2  *)
(* bytes from positions 0, 2 and 4 stay in a block, cross into the next   *)
(* and run past the end of the file.                                       *)
EXTENDS FileDescriptors, TLC

CONSTANTS p1, p2, p3

MCProcs == {p1, p2}
MCThreeProcs == {p1, p2, p3}
MCFourKB == 3
MCMaxNameLen == 2
MCChars == {"a", "b"}
MCDEntries ==
  << [fname |-> <<"a">>, file_type |-> 1, inode_num |-> 0],
     [fname |-> <<"b">>, file_type |-> 0, inode_num |-> 0],
     [fname |-> <<"a", "b">>, file_type |-> 2, inode_num |-> 1] >>
MCInodes == {1}
MCInodeLength == [n \in MCInodes |-> 5]
MCDataBlockNum == [n \in MCInodes |-> <<4, 7>>]
MCMaxTask == 4
MCMaxTaskOne == 3
MCReadSizes == {2}
\* A frequency that is no power of two, and the highest one rtc_write admits.
MCWriteFreqs == {3, 1024}

MCSymmetry == Permutations(MCProcs)
MCSymmetry3 == Permutations(MCThreeProcs)

\* States that differ only in dead values behave alike: sys_open rewrites
\* every field of a descriptor it takes, and nothing reads a closed one, so
\* a closed descriptor's fields are dead; so are the halt loop counter of a
\* process not halting and a ghost listing of a closed descriptor.
MCView ==
  << state, rtc_opened, read_wait, in_rtc_read, dir_location, rtc_rate,
     [p \in Procs |-> IF state[p] = "halting" THEN loopCount[p] ELSE MIN_TASK],
     [p \in Procs |-> [i \in Fds |-> IF file_desc[p][i].flags = 0 THEN ZeroFd
                                      ELSE file_desc[p][i]]],
     [p \in Procs |-> [i \in Fds |-> IF file_desc[p][i].flags = 0 THEN {}
                                      ELSE listed[p][i]]] >>

=============================================================================
