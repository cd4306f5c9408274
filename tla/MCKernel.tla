------------------------------ MODULE MCKernel ------------------------------
(* Instantiates Kernel for TLC: five slots, a filesystem of two files and  *)
(* commands that reach every bound of the command parser.                  *)
EXTENDS Kernel, TLC

MCMaxProcesses == 5

\* Names and arguments of at most one character (32 and 128 in the code).
MCMaxNameLen == 1
MCMaxFilenameLength == 1
MCKbBufSizeMax == 1
MCChars == {"s", "c"}

\* "s" is the shell, a proper executable; "c" carries three of the four
\* magic bytes.
MCDEntries == << [fname |-> <<"s">>, file_type |-> 2, inode_num |-> 0],
                 [fname |-> <<"c">>, file_type |-> 2, inode_num |-> 1] >>
MCInodes == {0, 1}
MCInodeLength == (0 :> 40 @@ 1 :> 40)
MCDataBlockNum == (0 :> <<0>> @@ 1 :> <<1>>)
MCFourKB == 4096
MCHeader == (0 :> <<"7F", "E", "L", "F">> @@ 1 :> <<"7F", "E", "L", "x">>)

\* run_shell's literal; the byte after its NUL is taken to be NUL.
MCShellCmd == <<"s", NUL, NUL>>

MCCommands ==
  { <<"s", NUL, "c", NUL>>,       \* "s", and memory after its NUL holds "c"
    <<"s", " ", "c", NUL>>,       \* "s c"
    <<"s", " ", "c", "c", NUL>>,  \* argument one character too long
    <<"s", "s", NUL>>,            \* name one character too long
    <<"c", "c", "c", NUL>>,       \* name two characters too long
    <<"c", NUL, NUL>> }           \* the file without the full magic

MCGetargsSizes == {0, 1}

ASSUME Loadable(MCShellCmd)

=============================================================================
