-------------------------- MODULE FileDescriptors --------------------------
(***************************************************************************)
(* The descriptor layer of syscalls.c for a few user processes: the       *)
(* descriptor array each PCB holds, sys_open/close/read over it, the       *)
(* close loop of sys_halt and the fresh array sys_execute builds, and the  *)
(* drivers' globals the processes share: rtc_opened and read_wait of rtc.c *)
(* and dir_location of file.c.  Each system call runs on its process's     *)
(* kernel stack with interrupts enabled, so the calls of different         *)
(* processes interleave; a call's body is one step except where it waits   *)
(* (rtc_read) or loops over calls (sys_halt).                              *)
(***************************************************************************)
EXTENDS FileSystem

CONSTANTS
  Procs,      \* the user processes (never slot 0, whose halt returns at once)
  MAX_TASK,   \* syscalls.h: descriptors per process
  ReadSizes,  \* the nbytes a program passes to read
  WriteFreqs  \* the frequencies a program passes to write on the RTC

ASSUME MAX_TASK >= 3 /\ ReadSizes \subseteq Nat

MIN_TASK == 2
Fds == 0 .. MAX_TASK - 1
DynFds == MIN_TASK .. MAX_TASK - 1

\* The operations tables of syscalls.c 15-19, and NULL.
Fots == {"stdin_fot", "stdout_fot", "file_fot", "rtc_fot", "dir_fot"}
NULL == "NULL"

TYPE_RTC == 0
TYPE_DIR == 1
TYPE_FILE == 2

\* The rate select rtc_init and rtc_open write: 0x0F, 2 Hz.
RATE_2HZ == 15

\* file_desc_t: fot_ptr, inode, file_position, flags.
ZeroFd == [fot_ptr |-> NULL, inode |-> 0, file_position |-> 0, flags |-> 0]

\* The array sys_execute gives a new program: stdin and stdout open.
LaunchFds ==
  [i \in Fds |-> CASE i = 0 -> [ZeroFd EXCEPT !.fot_ptr = "stdin_fot", !.flags = 1]
                   [] i = 1 -> [ZeroFd EXCEPT !.fot_ptr = "stdout_fot", !.flags = 1]
                   [] OTHER -> ZeroFd]

\* Every name of at most MAX_NAME_LEN + 1 characters.
Names == UNION {[1 .. n -> Chars] : n \in 1 .. MAX_NAME_LEN + 1}

Entries == 0 .. dir_count - 1

VARIABLES
  state,        \* process -> "none" (no program), "running" or "halting"
  loopCount,    \* process -> the next descriptor sys_halt closes
  file_desc,    \* process -> its PCB's descriptor array
  rtc_opened,   \* rtc.c
  read_wait,    \* rtc.c
  in_rtc_read,  \* process -> spinning in rtc_read's while loop
  dir_location, \* file.c
  rtc_rate,     \* the rate select bits of the RTC's register A
  listed        \* ghost: process -> fd -> directory entries this open of the
                \* descriptor has returned

vars == <<state, loopCount, file_desc, rtc_opened, read_wait, in_rtc_read,
          dir_location, rtc_rate, listed>>

MaxPos == Max({inode_length[n] : n \in Inodes}) + Max(ReadSizes)

Fd == [fot_ptr : Fots \cup {NULL}, inode : Inodes \cup {-1, 0},
       file_position : 0 .. MaxPos, flags : {0, 1}]

Init ==
  /\ state = [p \in Procs |-> "none"]
  /\ loopCount = [p \in Procs |-> MIN_TASK]
  /\ file_desc = [p \in Procs |-> [i \in Fds |-> ZeroFd]]
  /\ rtc_opened = 1                          \* rtc_init at boot
  /\ read_wait = 0
  /\ in_rtc_read = [p \in Procs |-> FALSE]
  /\ dir_location = 0
  /\ rtc_rate = RATE_2HZ                    \* rtc_init writes 0x2F to register A
  /\ listed = [p \in Procs |-> [i \in Fds |-> {}]]

\* A process that can make a system call: running and not blocked.
Ready(p) == state[p] = "running" /\ ~in_rtc_read[p]

\* sys_execute: the new program's descriptor array (242-247, 265-268).
Execute(p) ==
  /\ state[p] = "none"
  /\ state' = [state EXCEPT ![p] = "running"]
  /\ file_desc' = [file_desc EXCEPT ![p] = LaunchFds]
  /\ UNCHANGED <<rtc_rate, loopCount, rtc_opened, read_wait, in_rtc_read, dir_location,
                 listed>>

\* The close a table's close function performs, as the new rtc_opened and
\* whether it returned -1 (empty_function, rtc_close on a closed RTC).
CloseFn(fot) ==
  CASE fot \in {"stdin_fot", "stdout_fot", NULL} -> [fail |-> TRUE, rtc |-> rtc_opened]
    [] fot = "rtc_fot" -> IF rtc_opened = 0 THEN [fail |-> TRUE, rtc |-> 0]
                          ELSE [fail |-> FALSE, rtc |-> 0]
    [] OTHER -> [fail |-> FALSE, rtc |-> rtc_opened]

\* Mutant: the flag cleared whatever close returns (spec 4.3's release).
SysCloseFdsRelease(p, fd) ==
  LET d == file_desc[p][fd]
      r == CloseFn(d.fot_ptr)
  IN  IF fd \notin Fds \/ d.flags % 2 = 0 THEN [fds |-> file_desc[p], rtc |-> rtc_opened]
      ELSE [fds |-> [file_desc[p] EXCEPT ![fd].flags = 0], rtc |-> r.rtc]

\* sys_close(fd) of process p as the new descriptor array and rtc_opened:
\* an index out of range or a closed descriptor returns -1; a failing close
\* function returns -1 and leaves the flag set.
SysCloseFds(p, fd) ==
  LET d == file_desc[p][fd]
      r == CloseFn(d.fot_ptr)
  IN  IF fd \notin Fds \/ d.flags % 2 = 0 THEN [fds |-> file_desc[p], rtc |-> rtc_opened]
      ELSE [fds |-> IF r.fail THEN file_desc[p]
                    ELSE [file_desc[p] EXCEPT ![fd].flags = 0],
            rtc |-> r.rtc]

SysClose(p, fd) ==
  /\ Ready(p)
  /\ LET r == SysCloseFds(p, fd)
     IN  /\ file_desc' = [file_desc EXCEPT ![p] = r.fds]
         /\ rtc_opened' = r.rtc
  /\ UNCHANGED <<rtc_rate, state, loopCount, read_wait, in_rtc_read, dir_location,
                 listed>>

\* sys_open(filename): look the name up, take the lowest descriptor >= 2
\* whose flags are 0, set it open at position 0, then bind it by file type.
SysOpen(p, filename) ==
  LET dentry == ReadDentryByName(filename)
      free == {i \in DynFds : file_desc[p][i].flags = 0}
      i == Min(free)
      bound == CASE dentry.file_type = TYPE_RTC -> [inode |-> -1, fot_ptr |-> "rtc_fot"]
                 [] dentry.file_type = TYPE_DIR -> [inode |-> -1, fot_ptr |-> "dir_fot"]
                 [] OTHER -> [inode |-> dentry.inode_num, fot_ptr |-> "file_fot"]
  IN  /\ Ready(p)
      /\ dentry # NoDentry
      /\ free # {}
      /\ file_desc' = [file_desc EXCEPT ![p][i] =
                         [fot_ptr |-> bound.fot_ptr, inode |-> bound.inode,
                          file_position |-> 0, flags |-> 1]]
      /\ rtc_opened' = IF dentry.file_type = TYPE_RTC THEN 1 ELSE rtc_opened
      /\ rtc_rate' = IF dentry.file_type = TYPE_RTC THEN RATE_2HZ ELSE rtc_rate
      /\ listed' = [listed EXCEPT ![p][i] = {}]
      /\ UNCHANGED <<state, loopCount, read_wait, in_rtc_read, dir_location>>

\* sys_read's checks: an index in range whose flag is set.
Readable(p, fd, fot) ==
  /\ Ready(p) /\ fd \in Fds
  /\ file_desc[p][fd].flags % 2 = 1
  /\ file_desc[p][fd].fot_ptr = fot

\* fread: read_data at the descriptor's position; the position advances by
\* what read_data returns.
FileRead(p, fd, nbytes) ==
  /\ Readable(p, fd, "file_fot")
  /\ LET d == file_desc[p][fd]
         val == ReadData(d.inode, d.file_position, nbytes).ret
     IN  file_desc' = [file_desc EXCEPT ![p][fd].file_position = d.file_position + val]
  /\ UNCHANGED <<rtc_rate, state, loopCount, rtc_opened, read_wait, in_rtc_read,
                 dir_location, listed>>

\* dir_read: the entry at the global dir_location and a step on, or, past
\* the last entry, 0 and dir_location back to 0.
DirRead(p, fd) ==
  /\ Readable(p, fd, "dir_fot")
  /\ IF ReadDentryByIndex(dir_location) # NoDentry
     THEN /\ dir_location' = dir_location + 1
          /\ listed' = [listed EXCEPT ![p][fd] = @ \cup {dir_location}]
     ELSE /\ dir_location' = 0
          /\ listed' = [listed EXCEPT ![p][fd] = {}]
  /\ UNCHANGED <<rtc_rate, state, loopCount, file_desc, rtc_opened, read_wait,
                 in_rtc_read>>

\* rtc_read: read_wait = 1, then spin until the handler clears it.
RtcReadStart(p, fd) ==
  /\ Readable(p, fd, "rtc_fot")
  /\ read_wait' = 1
  /\ in_rtc_read' = [in_rtc_read EXCEPT ![p] = TRUE]
  /\ UNCHANGED <<rtc_rate, state, loopCount, file_desc, rtc_opened, dir_location, listed>>

RtcReadReturn(p) ==
  /\ in_rtc_read[p] /\ read_wait = 0
  /\ in_rtc_read' = [in_rtc_read EXCEPT ![p] = FALSE]
  /\ UNCHANGED <<rtc_rate, state, loopCount, file_desc, rtc_opened, read_wait,
                 dir_location, listed>>

\* rtc_handler: read_wait = 0.
RtcHandler ==
  /\ read_wait' = 0
  /\ UNCHANGED <<rtc_rate, state, loopCount, file_desc, rtc_opened, in_rtc_read,
                 dir_location, listed>>

\* Variant: the range check written freq >= 1024.
RtcSelectBitsRangeOffByOne(freq) ==
  IF freq < 2 \/ freq >= 1024 THEN -1
  ELSE CASE freq = 2 -> 15 [] freq = 4 -> 14 [] freq = 8 -> 13 [] freq = 16 -> 12
         [] freq = 32 -> 11 [] freq = 64 -> 10 [] freq = 128 -> 9 [] freq = 256 -> 8
         [] freq = 512 -> 7 [] freq = 1024 -> 6 [] OTHER -> -1

\* rtc_write's range check and switch: the rate select for freq, or -1.
RtcSelectBits(freq) ==
  IF freq < 2 \/ freq > 1024 THEN -1
  ELSE CASE freq = 2 -> 15 [] freq = 4 -> 14 [] freq = 8 -> 13 [] freq = 16 -> 12
         [] freq = 32 -> 11 [] freq = 64 -> 10 [] freq = 128 -> 9 [] freq = 256 -> 8
         [] freq = 512 -> 7 [] freq = 1024 -> 6 [] OTHER -> -1

\* Register A's rate after a write of freq on descriptor fd of p.
WriteRate(p, fd, freq) ==
  IF file_desc[p][fd].fot_ptr = "rtc_fot" /\ RtcSelectBits(freq) # -1
  THEN RtcSelectBits(freq) ELSE rtc_rate

\* sys_write(fd, &freq, 4): an index in range whose flag is set calls the
\* table's write.  Only rtc_write changes modelled state: a valid frequency
\* replaces the low nibble of register A.  terminal_write draws on the
\* screen (not modelled here); empty_function, fwrite and dir_write return -1.
SysWrite(p, fd, freq) ==
  /\ Ready(p) /\ fd \in Fds
  /\ file_desc[p][fd].flags % 2 = 1
  /\ rtc_rate' = WriteRate(p, fd, freq)
  /\ UNCHANGED <<state, loopCount, file_desc, rtc_opened, read_wait, in_rtc_read,
                 dir_location, listed>>

\* CTRL-2 in keyboard_handler: rtc_close() then rtc_open(), whichever
\* process is interrupted: rtc_opened ends at 1 and the rate at 2 Hz.
KeyCtrlTwo ==
  /\ rtc_opened' = 1
  /\ rtc_rate' = RATE_2HZ
  /\ UNCHANGED <<state, loopCount, file_desc, read_wait, in_rtc_read,
                 dir_location, listed>>

\* sys_halt: close descriptors 2 .. 7 one sys_close at a time, then leave.
HaltStart(p) ==
  /\ Ready(p)
  /\ state' = [state EXCEPT ![p] = "halting"]
  /\ loopCount' = [loopCount EXCEPT ![p] = MIN_TASK]
  /\ UNCHANGED <<rtc_rate, file_desc, rtc_opened, read_wait, in_rtc_read, dir_location,
                 listed>>

HaltClose(p) ==
  /\ state[p] = "halting" /\ loopCount[p] < MAX_TASK
  /\ LET r == SysCloseFds(p, loopCount[p])
     IN  /\ file_desc' = [file_desc EXCEPT ![p] = r.fds]
         /\ rtc_opened' = r.rtc
  /\ loopCount' = [loopCount EXCEPT ![p] = @ + 1]
  /\ UNCHANGED <<rtc_rate, state, read_wait, in_rtc_read, dir_location, listed>>

HaltDone(p) ==
  /\ state[p] = "halting" /\ loopCount[p] = MAX_TASK
  /\ state' = [state EXCEPT ![p] = "none"]
  /\ UNCHANGED <<rtc_rate, loopCount, file_desc, rtc_opened, read_wait, in_rtc_read,
                 dir_location, listed>>

\* A write on any other descriptor changes no modelled state (a stutter step),
\* so only writes on RTC descriptors are enumerated.
RtcBound(p, fd) == file_desc[p][fd].fot_ptr = "rtc_fot"

Next ==
  \/ RtcHandler
  \/ KeyCtrlTwo
  \/ \E p \in Procs :
       \/ Execute(p) \/ HaltStart(p) \/ HaltClose(p) \/ HaltDone(p)
       \/ RtcReadReturn(p)
       \/ \E f \in Names : SysOpen(p, f)
       \/ \E fd \in Fds :
            \/ SysClose(p, fd) \/ DirRead(p, fd) \/ RtcReadStart(p, fd)
            \/ \E n \in ReadSizes : FileRead(p, fd, n)
            \/ \E f \in WriteFreqs : RtcBound(p, fd) /\ SysWrite(p, fd, f)

Spec == Init /\ [][Next]_vars

-----------------------------------------------------------------------------
(* Properties *)

TypeOK ==
  /\ state \in [Procs -> {"none", "running", "halting"}]
  /\ loopCount \in [Procs -> MIN_TASK .. MAX_TASK]
  /\ file_desc \in [Procs -> [Fds -> Fd]]
  /\ rtc_opened \in {0, 1} /\ read_wait \in {0, 1}
  /\ in_rtc_read \in [Procs -> BOOLEAN]
  /\ dir_location \in 0 .. dir_count
  /\ rtc_rate \in 3 .. 15
  /\ listed \in [Procs -> [Fds -> SUBSET Entries]]

\* Descriptors 0 and 1 of a running program stay open on the terminal for
\* its lifetime (spec 3), whatever closes it makes: sys_close must fail on
\* them, which it does only because stdin/stdout's close is empty_function.
StdioBound ==
  \A p \in Procs : state[p] = "running" =>
     /\ file_desc[p][0].flags = 1 /\ file_desc[p][0].fot_ptr = "stdin_fot"
     /\ file_desc[p][1].flags = 1 /\ file_desc[p][1].fot_ptr = "stdout_fot"

\* Every sys_open(filename) that succeeds binds the entry whose name is
\* exactly filename, for every name up to one character too long:
\* read_dentry_by_name's strncmp over the longer of the two lengths must
\* reject prefixes both ways, also for a name of MAX_NAME_LEN without NUL.
NameLookupCorrect ==
  [][\A p \in Procs, f \in Names :
       SysOpen(p, f) =>
         LET e == RefLookup(f)
             i == Min({j \in DynFds : file_desc[p][j].flags = 0})
         IN  /\ e # NoDentry
             /\ file_desc'[p][i].fot_ptr =
                  CASE e.file_type = TYPE_RTC -> "rtc_fot"
                    [] e.file_type = TYPE_DIR -> "dir_fot"
                    [] OTHER -> "file_fot"
             /\ e.file_type = TYPE_FILE => file_desc'[p][i].inode = e.inode_num]_vars

\* Every fread that stays inside the file returns the file's bytes from the
\* cursor on, across block boundaries, and reports how many it copied.
ReadDataInFile ==
  [][\A p \in Procs, fd \in Fds, n \in ReadSizes :
       LET d == file_desc[p][fd]
       IN  FileRead(p, fd, n) /\ d.file_position + n <= inode_length[d.inode] =>
             ReadData(d.inode, d.file_position, n) = RefReadData(d.inode, d.file_position, n)]_vars

\* Every open descriptor >= 2 of a running program can be released by
\* sys_close (spec 4.3: release clears the open flag whatever close
\* returns).  The flag stays set when close fails, and rtc_close fails once
\* the global rtc_opened is 0, which any one RTC descriptor's close makes it.
CloseReleases ==
  \A p \in Procs, fd \in DynFds :
     state[p] = "running" /\ file_desc[p][fd].flags = 1 /\ file_desc[p][fd].fot_ptr = "rtc_fot"
        => rtc_opened = 1

\* Reading a directory descriptor from its open until dir_read returns 0
\* yields every entry (spec 3: each descriptor has its own cursor); dir_read
\* walks the one global dir_location instead.
DirListingComplete ==
  [][\A p \in Procs, fd \in Fds :
       DirRead(p, fd) /\ ReadDentryByIndex(dir_location) = NoDentry => listed[p][fd] = Entries]_vars


\* The frequency the RTC ticks at for rate select r (RTC data sheet, with
\* the 32.768 kHz time base rtc_init selects): 32768 >> (r - 1) Hz.
RateHz(r) == 32768 \div (2 ^ (r - 1))

\* The frequencies rtc_write's header comment admits: powers of two
\* between 2 and 1024 Hz.
RtcFreqs == {2 ^ k : k \in 1 .. 10}

\* Every power of two up to 2048 and its neighbours, and -1.
Probes == {-1} \cup {2 ^ k + d : k \in 0 .. 11, d \in {-1, 0, 1}}

\* A process holding an open RTC descriptor can program exactly the
\* frequencies rtc_write's header comment admits: whatever rate the RTC is
\* at now, a write of an admitted frequency makes it tick at that
\* frequency, and a write of any other value leaves the rate as it is.
RtcWriteSetsRate ==
  \A p \in Procs, fd \in Fds :
     Ready(p) /\ file_desc[p][fd].flags = 1 /\ RtcBound(p, fd) =>
       \A f \in Probes :
          IF f \in RtcFreqs THEN RateHz(WriteRate(p, fd, f)) = f
          ELSE WriteRate(p, fd, f) = rtc_rate

=============================================================================
