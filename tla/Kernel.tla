------------------------------- MODULE Kernel -------------------------------
(***************************************************************************)
(* Process lifecycle and terminal scheduler of student-distrib.            *)
(*                                                                         *)
(*   proc_arr, pcb       process slot table and PCBs   (syscalls.c/.h)     *)
(*   sys_execute         ExecuteScan .. ExecuteIret     (syscalls.c)        *)
(*   sys_halt            HaltEnter, HaltFree, HaltJump  (syscalls.c)        *)
(*   pit_handler         PitHandler                     (task_switch.c)     *)
(*   ALT-Fx in keyboard_handler   SwitchTerminal        (keyboard.c)        *)
(*                                                                         *)
(* System calls enter through INT 0x80, a trap gate (idt.c), so they run   *)
(* with interrupts enabled: the PIT handler may preempt sys_execute and    *)
(* sys_halt between any two of their steps.  The PIT and keyboard handlers *)
(* are interrupt gates and run atomically.  The register context of the    *)
(* CPU (esp/ebp and the user-mode trap frame) is abstracted to a record    *)
(* "Ctx": the kernel stack it runs on, the code point it is at, the local  *)
(* variables live across a preemption point, and "prog", the process whose *)
(* user program the trap frame at the base of that stack returns to.       *)
(***************************************************************************)
EXTENDS FileSystem

CONSTANTS
  MAX_PROCESSES,   \* syscalls.h: number of process slots (6 in the code)
  ShellsMayExit,   \* environment: may the root shells of terminals 1, 2
                   \* run the "exit" command (sys_halt)?
  SyscallPreemptible, \* timing: may the PIT or keyboard interrupt fall
                      \* inside a sys_execute or sys_halt a program called
                      \* (both run with interrupts enabled), or only while
                      \* user code runs?
  BootPreemptible, \* timing: may the PIT fall inside the sys_execute that
                   \* run_shell calls after its sti() at start-up?
  ExecuteAnywhere, \* environment: may execute be called while another
                   \* terminal is displayed (FALSE: only right after a line
                   \* was read, i.e. while the caller's terminal is shown)?
  NestedExecute,   \* environment: may a program launched from a root shell
                   \* call execute itself (e.g. "shell" typed in a shell)?
  MAX_FILENAME_LENGTH, \* syscalls.h: the filename array of sys_execute
  KB_BUF_SIZE_MAX, \* syscalls.h: the argument array of sys_execute and the PCB
  header,          \* inode -> the first four bytes of its image
  Commands,        \* the command buffers a program may pass to execute:
                   \* the string, its NUL, and the bytes memory holds after it
  ShellCmd,        \* the literal "shell" of run_shell and kernel.c
  GetargsSizes     \* the nbytes a program may pass to getargs

ASSUME MAX_PROCESSES \in 3..6 /\ ShellsMayExit \in BOOLEAN /\ SyscallPreemptible \in BOOLEAN
       /\ BootPreemptible \in BOOLEAN
       /\ ExecuteAnywhere \in BOOLEAN /\ NestedExecute \in BOOLEAN

NUM_TERMS == 3                     \* task_switch.h
Terms     == 0 .. NUM_TERMS - 1
Procs     == 0 .. MAX_PROCESSES - 1
NoPid     == MAX_PROCESSES         \* an unused local (process_number = -1)

FREE    == "FREE"                  \* enum process_flags
RUNNING == "RUNNING"

\* Values of page_directory[OTE_MB/FOUR_MB]: the 4 MB frame of a process,
\* or the boot-time entry (RW only, not present).
NotPresent == -1                 \* RW only, not present
Maps       == Procs \cup {NotPresent}

\* Values of page_table_vid[0]: real video memory or a terminal's backing page.
VGA     == <<"VGA">>
Buf(t)  == <<"Buf", t>>
VidMaps == {VGA} \cup {Buf(t) : t \in Terms}

\* Where a halting process's saved parent esp/ebp lead: back into the parent's
\* sys_execute and from there to its user program ("User"), into
\* pit_handler's call of run_shell ("PitTail"), or into the boot code of
\* kernel.c ("Kmain"), which lies outside the modelled source.
Returns == {"User", "PitTail", "Kmain"}

Labels == {"User", "Scan", "Mark", "Load", "Iret", "HaltFree", "HaltJump", "Lost", "Fault"}

\* cmd: the command buffer of an execute in flight (<<>> for none).
Ctx == [stack : Procs \cup {NoPid}, pc : Labels, pn : Procs \cup {NoPid},
        root : BOOLEAN, prog : Procs \cup {NoPid}, cmd : Commands \cup {ShellCmd, <<>>}]

UserCtx(p) == [stack |-> NoPid, pc |-> "User", pn |-> NoPid, root |-> FALSE, prog |-> p,
               cmd |-> <<>>]

\* Control has left the modelled kernel with interrupts disabled.
LostCtx == [stack |-> NoPid, pc |-> "Lost", pn |-> NoPid, root |-> FALSE, prog |-> NoPid,
            cmd |-> <<>>]

Pcb == [parent : Procs, parentMap : Maps, ret : Returns, term : Terms,
        arg : Seq(Chars \cup {" "}), root : BOOLEAN, argGiven : BOOLEAN]
        \* argGiven: ghost, the launch command had an argument (spec 7)   \* root: ghost, a terminal's root shell

\* A PCB slot that was never written holds zeroed memory.
ZeroPcb == [parent |-> 0, parentMap |-> NotPresent, ret |-> "Kmain", term |-> 0,
            arg |-> <<>>, root |-> FALSE, argGiven |-> FALSE]

Snap   == [ctx : Ctx, ote_mb : Maps]
\* A sched_t never written is zeroed: resuming esp = 0 leaves the kernel.
NoSnap == [ctx |-> LostCtx, ote_mb |-> NotPresent]

VARIABLES
  proc_arr,          \* syscalls.c: slot occupancy
  pcb,               \* the PCB fields read by halt and the scheduler
  ote_mb,            \* page_directory[OTE_MB/FOUR_MB]: the user 4 MB mapping
  vid_pte,           \* page_table_vid[0]: the user video window
  tss_esp0,          \* tss.esp0 as the process whose kernel stack it tops
  cur_term_num,      \* terminal.c: the displayed terminal
  term_in_service,   \* terminal.c: the terminal the scheduler is serving
  shells_running,    \* task_switch.c
  sched_arr_init,    \* task_switch.c
  sched_arr,         \* task_switch.c: one saved context per terminal
  cpu,               \* the context the CPU is executing
  user_args          \* the user buffer of the last sys_getargs and its result

vars == <<proc_arr, pcb, ote_mb, vid_pte, tss_esp0, cur_term_num,
          term_in_service, shells_running, sched_arr_init, sched_arr, cpu,
          user_args>>

-----------------------------------------------------------------------------
(* Helpers *)

\* get_process_number(): the slot whose 8 kB kernel stack holds esp.  A trap
\* from user mode lands on the stack tss.esp0 designates.
ProcessNumber == IF cpu.pc = "User" THEN tss_esp0 ELSE cpu.stack

\* Variant: the rotation taken modulo NUM_TERMS - 1.
GetNextProcModTwo(cur_term) ==
  LET next  == (cur_term + 1) % (NUM_TERMS - 1)
      cands == {p \in NUM_TERMS .. MAX_PROCESSES - 1 :
                  proc_arr[p] # FREE /\ pcb[p].term = next}
  IN  IF cands = {} THEN next ELSE Min(cands)

\* get_next_proc(cur_term, proc_arr), side f21547c of the merge conflict in
\* task_switch.c.  The loop over slots NUM_TERMS.. compares term_number with
\* next_proc_num and overwrites next_proc_num on a match.  After the first
\* match next_proc_num is a slot number >= NUM_TERMS, which no term_number
\* equals, so the lowest matching slot wins (or the terminal's shell if
\* none matches).
GetNextProc(cur_term) ==
  LET next  == (cur_term + 1) % NUM_TERMS
      cands == {p \in NUM_TERMS .. MAX_PROCESSES - 1 :
                  proc_arr[p] # FREE /\ pcb[p].term = next}
  IN  IF cands = {} THEN next ELSE Min(cands)

\* Variants: term_number left as written by sys_execute, or set to the
\* backing-page index shell_num + 1.
InitShellPcbsNoTerm(p) ==
  [q \in Procs |-> IF q \in 1 .. NUM_TERMS - 1
                   THEN [p[q] EXCEPT !.parent = p[0].parent,
                                     !.parentMap = p[0].parentMap, !.ret = p[0].ret]
                   ELSE p[q]]

InitShellPcbsTermOffByOne(p) ==
  [q \in Procs |-> IF q \in 1 .. NUM_TERMS - 1
                   THEN [p[q] EXCEPT !.parent = p[0].parent,
                                     !.parentMap = p[0].parentMap,
                                     !.ret = p[0].ret, !.term = q + 1]
                   ELSE p[q]]

\* Variant: the loop stops one shell early (shell_num < NUM_TERMS - 1).
InitShellPcbsLoopShort(p) ==
  [q \in Procs |-> IF q \in 1 .. NUM_TERMS - 2
                   THEN [p[q] EXCEPT !.parent = p[0].parent,
                                     !.parentMap = p[0].parentMap,
                                     !.ret = p[0].ret, !.term = q]
                   ELSE p[q]]

\* init_shell_pcbs(): shells 1 and 2 take over shell 0's parent fields.
InitShellPcbs(p) ==
  [q \in Procs |-> IF q \in 1 .. NUM_TERMS - 1
                   THEN [p[q] EXCEPT !.parent = p[0].parent,
                                     !.parentMap = p[0].parentMap,
                                     !.ret = p[0].ret, !.term = q]
                   ELSE p[q]]

\* The user may act only once the three shells have been started: the PIT
\* bootstraps them on its first ticks, long before a line can be typed.
Booted == sched_arr_init

\* The launch command syntax of spec 7, "<name>[ <argument-string>]": the
\* string up to its NUL, split at its first space.
Str(c) == SubSeq(c, 1, Min({i \in 0 .. Len(c) : CharAt(c, i + 1) = NUL}))
Spaces(c) == {i \in 1 .. Len(Str(c)) : Str(c)[i] = " "}
RefHasArg(c) == Spaces(c) # {}
RefName(c) == IF RefHasArg(c) THEN SubSeq(Str(c), 1, Min(Spaces(c)) - 1) ELSE Str(c)
RefArg(c) == IF RefHasArg(c) THEN SubSeq(Str(c), Min(Spaces(c)) + 1, Len(Str(c))) ELSE <<>>

-----------------------------------------------------------------------------
(* The command parser and executable check of sys_execute *)

\* The name loop: arg_it runs to the first space or NUL of the command.
NameEnd(c) == Min({i \in 0 .. Len(c) : CharAt(c, i + 1) \in {" ", NUL}})

\* It fails on a character at arg_it > MAX_FILENAME_LENGTH, so a name of
\* MAX_FILENAME_LENGTH + 1 characters passes (writing filename[32]).
NameTooLong(c) == NameEnd(c) > MAX_FILENAME_LENGTH + 1

ParsedName(c) == SubSeq(c, 1, NameEnd(c))

\* arg_it++ skips the byte that ended the name, a space or the NUL; the
\* argument then runs to the next NUL, past the end of the string if the
\* name ended on its NUL.
ArgStart(c) == NameEnd(c) + 1
ArgEnd(c) == Min({i \in ArgStart(c) .. Len(c) + 1 : CharAt(c, i + 1) = NUL})
ParsedArg(c) == SubSeq(c, ArgStart(c) + 1, ArgEnd(c))

\* Variant: the bound checked as getargs_it > KB_BUF_SIZE_MAX.
ArgTooLongOffByOne(c) == Len(ParsedArg(c)) > KB_BUF_SIZE_MAX + 1

\* It fails on a character at getargs_it > KB_BUF_SIZE_MAX - 1.
ArgTooLong(c) == Len(ParsedArg(c)) > KB_BUF_SIZE_MAX

MAGIC == <<"7F", "E", "L", "F">>

\* The magic loop compares exeIt = 0 .. 2 only.
MagicOK(inode) == \A k \in 1 .. 3 : header[inode][k] = MAGIC[k]

\* Every check of sys_execute between the slot mark and the page install.
Loadable(c) ==
  /\ ~NameTooLong(c) /\ ~ArgTooLong(c)
  /\ ReadDentryByName(ParsedName(c)) # NoDentry
  /\ MagicOK(ReadDentryByName(ParsedName(c)).inode_num)

-----------------------------------------------------------------------------
(* sys_execute *)

\* A user program issues execute(command); the handler runs on tss.esp0.
UserCallsExecute ==
  /\ Booted
  /\ cpu.pc = "User"
  /\ ExecuteAnywhere \/ term_in_service = cur_term_num
  /\ NestedExecute \/ pcb[cpu.prog].root
  /\ \E c \in Commands :
       cpu' = [stack |-> tss_esp0, pc |-> "Scan", pn |-> NoPid, root |-> FALSE,
               prog |-> cpu.prog, cmd |-> c]
  /\ UNCHANGED <<proc_arr, pcb, ote_mb, vid_pte, tss_esp0, cur_term_num,
                 term_in_service, shells_running, sched_arr_init, sched_arr, user_args>>

\* Variant: with no slot free, execute keeps scanning instead of failing.
ExecuteScanWaits ==
  /\ cpu.pc = "Scan"
  /\ LET free == {p \in Procs : proc_arr[p] = FREE}
     IN  cpu' = IF free = {} THEN cpu
                ELSE [cpu EXCEPT !.pc = "Mark", !.pn = Min(free)]
  /\ UNCHANGED <<proc_arr, pcb, ote_mb, vid_pte, tss_esp0, cur_term_num,
                 term_in_service, shells_running, sched_arr_init, sched_arr, user_args>>

\* Linear scan for a FREE slot; none free returns -1 to the caller (or,
\* for run_shell, back into pit_handler with nothing saved to resume).
ExecuteScan ==
  /\ cpu.pc = "Scan"
  /\ LET free == {p \in Procs : proc_arr[p] = FREE}
     IN  cpu' = IF free = {}
                THEN IF cpu.root THEN LostCtx ELSE UserCtx(cpu.prog)
                ELSE [cpu EXCEPT !.pc = "Mark", !.pn = Min(free)]
  /\ UNCHANGED <<proc_arr, pcb, ote_mb, vid_pte, tss_esp0, cur_term_num,
                 term_in_service, shells_running, sched_arr_init, sched_arr, user_args>>

\* proc_arr[process_number] = RUNNING, a separate statement after the scan.
ExecuteMark ==
  /\ cpu.pc = "Mark"
  /\ proc_arr' = [proc_arr EXCEPT ![cpu.pn] = RUNNING]
  /\ cpu' = [cpu EXCEPT !.pc = "Load"]
  /\ UNCHANGED <<pcb, ote_mb, vid_pte, tss_esp0, cur_term_num,
                 term_in_service, shells_running, sched_arr_init, sched_arr, user_args>>

\* Variant: the error path returns -1 without freeing the slot.
ExecuteLoadFailKeepsSlot ==
  /\ cpu.pc = "Load"
  /\ ~cpu.root /\ ~Loadable(cpu.cmd)
  /\ cpu' = UserCtx(cpu.prog)
  /\ UNCHANGED <<proc_arr, pcb, ote_mb, vid_pte, tss_esp0, cur_term_num,
                 term_in_service, shells_running, sched_arr_init, sched_arr, user_args>>

\* Name or argument too long, file missing, or bad magic: the slot is freed
\* and -1 returned.  run_shell's "shell" always loads (an ASSUME of MCKernel).
ExecuteLoadFail ==
  /\ cpu.pc = "Load"
  /\ ~cpu.root /\ ~Loadable(cpu.cmd)
  /\ proc_arr' = [proc_arr EXCEPT ![cpu.pn] = FREE]
  /\ cpu' = UserCtx(cpu.prog)
  /\ UNCHANGED <<pcb, ote_mb, vid_pte, tss_esp0, cur_term_num,
                 term_in_service, shells_running, sched_arr_init, sched_arr, user_args>>

\* Install the child's 4 MB page (remembering the old entry), load the image
\* and write the PCB: parent = caller's slot, term = get_cur_term(), the
\* parsed argument.
ExecuteLoad ==
  /\ cpu.pc = "Load"
  /\ Loadable(cpu.cmd)
  /\ ote_mb' = cpu.pn
  /\ pcb' = [pcb EXCEPT ![cpu.pn] =
               [parent |-> cpu.stack, parentMap |-> ote_mb,
                ret |-> IF cpu.root THEN "PitTail" ELSE "User",
                term |-> cur_term_num, arg |-> ParsedArg(cpu.cmd),
                root |-> cpu.root, argGiven |-> RefHasArg(cpu.cmd)]]
  /\ cpu' = [cpu EXCEPT !.pc = "Iret"]
  /\ UNCHANGED <<proc_arr, vid_pte, tss_esp0, cur_term_num,
                 term_in_service, shells_running, sched_arr_init, sched_arr, user_args>>

\* tss.esp0 = the child's kernel stack; IRET into the child's program.
ExecuteIret ==
  /\ cpu.pc = "Iret"
  /\ tss_esp0' = cpu.pn
  /\ cpu' = UserCtx(cpu.pn)
  /\ UNCHANGED <<proc_arr, pcb, ote_mb, vid_pte, cur_term_num,
                 term_in_service, shells_running, sched_arr_init, sched_arr, user_args>>

-----------------------------------------------------------------------------
(* sys_halt *)

\* Variant: the parent's 4 MB page is not restored.
HaltEnterKeepsMapping ==
  /\ Booted
  /\ cpu.pc = "User"
  /\ ShellsMayExit \/ ~pcb[cpu.prog].root
  /\ tss_esp0 # 0
  /\ LET pid == tss_esp0 IN
       /\ tss_esp0' = pcb[pid].parent
       /\ cpu' = [stack |-> pid, pc |-> "HaltFree", pn |-> NoPid,
                  root |-> FALSE, prog |-> cpu.prog, cmd |-> <<>>]
       /\ UNCHANGED <<proc_arr, pcb, ote_mb, vid_pte, cur_term_num, term_in_service,
                      shells_running, sched_arr_init, sched_arr, user_args>>

\* The running program calls halt on the stack tss.esp0 designates.  For
\* slot 0 sys_halt returns 0 at once, a step that changes nothing.  Otherwise
\* the descriptors are closed (FileDescriptors), and tss.esp0 and the 4 MB
\* page are set to the parent's.  Root shells call halt only if ShellsMayExit.
HaltEnter ==
  /\ Booted
  /\ cpu.pc = "User"
  /\ ShellsMayExit \/ ~pcb[cpu.prog].root
  /\ tss_esp0 # 0
  /\ LET pid == tss_esp0 IN
       /\ tss_esp0' = pcb[pid].parent
       /\ ote_mb' = pcb[pid].parentMap
       /\ cpu' = [stack |-> pid, pc |-> "HaltFree", pn |-> NoPid,
                  root |-> FALSE, prog |-> cpu.prog, cmd |-> <<>>]
       /\ UNCHANGED <<proc_arr, pcb, vid_pte, cur_term_num, term_in_service,
                      shells_running, sched_arr_init, sched_arr, user_args>>

\* Variant: frees the slot tss.esp0 names, which HaltEnter has already
\* moved to the parent.
HaltFreeWrongSlot ==
  /\ cpu.pc = "HaltFree"
  /\ proc_arr' = [proc_arr EXCEPT ![tss_esp0] = FREE]
  /\ cpu' = [cpu EXCEPT !.pc = "HaltJump"]
  /\ UNCHANGED <<pcb, ote_mb, vid_pte, tss_esp0, cur_term_num,
                 term_in_service, shells_running, sched_arr_init, sched_arr, user_args>>

\* proc_arr[process_number] = FREE, still with interrupts enabled.
HaltFree ==
  /\ cpu.pc = "HaltFree"
  /\ proc_arr' = [proc_arr EXCEPT ![cpu.stack] = FREE]
  /\ cpu' = [cpu EXCEPT !.pc = "HaltJump"]
  /\ UNCHANGED <<pcb, ote_mb, vid_pte, tss_esp0, cur_term_num,
                 term_in_service, shells_running, sched_arr_init, sched_arr, user_args>>

\* cli; load the parent esp/ebp from the PCB (read now) and return from the
\* parent's sys_execute frame.
HaltJump ==
  /\ cpu.pc = "HaltJump"
  /\ LET r == pcb[cpu.stack]
     IN  cpu' = IF r.ret = "User" THEN UserCtx(r.parent) ELSE LostCtx
  /\ UNCHANGED <<proc_arr, pcb, ote_mb, vid_pte, tss_esp0, cur_term_num,
                 term_in_service, shells_running, sched_arr_init, sched_arr, user_args>>

-----------------------------------------------------------------------------
(* sys_getargs *)

\* The running program calls getargs(buf, nbytes) with a valid buf.  It fails
\* if the PCB's argument is empty or longer than nbytes; otherwise nbytes is
\* capped at KB_BUF_SIZE_MAX, nbytes + 1 bytes of buf are zeroed and nbytes
\* bytes of the PCB's argument array (zero past the argument) copied.
UserCallsGetargs(n) ==
  /\ Booted
  /\ cpu.pc = "User"
  /\ LET a == pcb[tss_esp0].arg
         m == IF n > KB_BUF_SIZE_MAX THEN KB_BUF_SIZE_MAX ELSE n
     IN  user_args' = IF a = <<>> \/ n < Len(a) THEN [user_args EXCEPT !.ret = -1]
                      ELSE [ret |-> 0, buf |-> [i \in 1 .. m + 1 |-> CharAt(a, i)]]
  /\ UNCHANGED <<proc_arr, pcb, ote_mb, vid_pte, tss_esp0, cur_term_num,
                 term_in_service, shells_running, sched_arr_init, sched_arr, cpu>>

-----------------------------------------------------------------------------
(* sys_vidmap *)

\* Variant: the backing page of the displayed terminal instead of the caller's.
UserCallsVidmapSwapped ==
  /\ Booted
  /\ cpu.pc = "User"
  /\ LET proc_term == pcb[tss_esp0].term
     IN  vid_pte' = IF cur_term_num # proc_term THEN Buf(cur_term_num) ELSE VGA
  /\ UNCHANGED <<proc_arr, pcb, ote_mb, tss_esp0, cur_term_num, term_in_service,
                 shells_running, sched_arr_init, sched_arr, cpu, user_args>>

\* A valid screen_start pointer: the video window is pointed at the real
\* video memory if the caller's terminal is displayed, else at that
\* terminal's backing page.  (An invalid pointer returns -1, changing nothing.)
UserCallsVidmap ==
  /\ Booted
  /\ cpu.pc = "User"
  /\ LET proc_term == pcb[tss_esp0].term
     IN  vid_pte' = IF cur_term_num # proc_term THEN Buf(proc_term) ELSE VGA
  /\ UNCHANGED <<proc_arr, pcb, ote_mb, tss_esp0, cur_term_num, term_in_service,
                 shells_running, sched_arr_init, sched_arr, cpu, user_args>>

-----------------------------------------------------------------------------
(* pit_handler *)

\* run_shell(shell_num): mark the shell running, sti, sys_execute("shell")
\* on the interrupted process's kernel stack.
RunShellCtx(stack) ==
  [stack |-> stack, pc |-> "Scan", pn |-> NoPid, root |-> TRUE, prog |-> NoPid,
   cmd |-> ShellCmd]

\* Whether an interrupt may be taken in the current context.
Interruptible ==
  \/ cpu.pc = "User"
  \/ cpu.pc \notin {"Lost", "Fault"} /\ IF cpu.root THEN BootPreemptible ELSE SyscallPreemptible

PitHandler ==
  /\ Interruptible
  /\ LET temp     == [ctx |-> cpu, ote_mb |-> ote_mb]
         procNum  == ProcessNumber
         currTerm == pcb[procNum].term
         nextProc == GetNextProc(currTerm)
         newTerm  == IF nextProc < NUM_TERMS THEN nextProc ELSE pcb[nextProc].term
     IN
     IF ~shells_running[1] THEN
        /\ sched_arr' = [sched_arr EXCEPT ![0] = temp]
        /\ vid_pte' = Buf(1)
        /\ term_in_service' = 1
        /\ shells_running' = [shells_running EXCEPT ![1] = TRUE]
        /\ cpu' = RunShellCtx(procNum)
        /\ UNCHANGED <<proc_arr, pcb, ote_mb, tss_esp0, cur_term_num, sched_arr_init, user_args>>
     ELSE IF ~shells_running[2] THEN
        /\ sched_arr' = [sched_arr EXCEPT ![1] = temp]
        /\ vid_pte' = Buf(2)
        /\ term_in_service' = 2
        /\ shells_running' = [shells_running EXCEPT ![2] = TRUE]
        /\ cpu' = RunShellCtx(procNum)
        /\ UNCHANGED <<proc_arr, pcb, ote_mb, tss_esp0, cur_term_num, sched_arr_init, user_args>>
     ELSE
        LET saved == IF sched_arr_init
                     THEN [sched_arr EXCEPT ![currTerm] = temp]
                     ELSE [sched_arr EXCEPT ![2] = temp]
        IN
        /\ pcb' = IF sched_arr_init THEN pcb ELSE InitShellPcbs(pcb)
        /\ sched_arr_init' = TRUE
        /\ sched_arr' = saved
        /\ vid_pte' = IF cur_term_num # newTerm THEN Buf(newTerm) ELSE VGA
        /\ tss_esp0' = nextProc
        /\ ote_mb' = saved[newTerm].ote_mb
        /\ term_in_service' = newTerm
        /\ cpu' = saved[newTerm].ctx
        /\ UNCHANGED <<proc_arr, cur_term_num, shells_running, user_args>>

-----------------------------------------------------------------------------
(* keyboard_handler: ALT-F1..F3 switches the displayed terminal. *)

SwitchTerminal ==
  /\ Booted
  /\ Interruptible
  /\ \E new_term \in Terms :
       /\ new_term # cur_term_num
       /\ cur_term_num' = new_term
  /\ UNCHANGED <<proc_arr, pcb, ote_mb, vid_pte, tss_esp0, term_in_service,
                 shells_running, sched_arr_init, sched_arr, cpu, user_args>>

-----------------------------------------------------------------------------

\* After kernel.c has executed shell 0, terminal 0's root shell, into slot 0.
Init ==
  /\ proc_arr = [p \in Procs |-> IF p = 0 THEN RUNNING ELSE FREE]
  /\ pcb = [p \in Procs |-> IF p = 0 THEN [ZeroPcb EXCEPT !.root = TRUE,
                                                           !.arg = ParsedArg(ShellCmd),
                                                           !.argGiven = RefHasArg(ShellCmd)]
                            ELSE ZeroPcb]
  /\ ote_mb = 0
  /\ vid_pte = VGA
  /\ tss_esp0 = 0
  /\ cur_term_num = 0
  /\ term_in_service = 0
  /\ shells_running = [t \in Terms |-> t = 0]
  /\ sched_arr_init = FALSE
  /\ sched_arr = [t \in Terms |-> NoSnap]
  /\ cpu = UserCtx(0)
  /\ user_args = [ret |-> -1, buf |-> <<>>]

Next ==
  \/ UserCallsExecute
  \/ ExecuteScan
  \/ ExecuteMark
  \/ ExecuteLoadFail
  \/ ExecuteLoad
  \/ ExecuteIret
  \/ HaltEnter
  \/ HaltFree
  \/ HaltJump
  \/ \E n \in GetargsSizes : UserCallsGetargs(n)
  \/ UserCallsVidmap
  \/ PitHandler
  \/ SwitchTerminal

\* The kernel code of a system call runs to its end: the CPU keeps executing it.
KernelStep ==
  \/ ExecuteScan \/ ExecuteMark \/ ExecuteLoadFail \/ ExecuteLoad \/ ExecuteIret
  \/ HaltFree \/ HaltJump

\* The PIT fires periodically; a tick raised while interrupts are masked stays
\* pending in the i8259 and is taken as soon as they are enabled again, hence
\* strong fairness.  Only where the CPU has left the kernel with interrupts
\* disabled (Lost) is it never taken.
Fairness == SF_vars(PitHandler) /\ WF_vars(KernelStep)

Spec == Init /\ [][Next]_vars /\ Fairness

-----------------------------------------------------------------------------

TypeOK ==
  /\ proc_arr \in [Procs -> {FREE, RUNNING}]
  /\ pcb \in [Procs -> Pcb]
  /\ ote_mb \in Maps
  /\ vid_pte \in VidMaps
  /\ tss_esp0 \in Procs
  /\ cur_term_num \in Terms
  /\ term_in_service \in Terms
  /\ shells_running \in [Terms -> BOOLEAN]
  /\ sched_arr_init \in BOOLEAN
  /\ sched_arr \in [Terms -> Snap]
  /\ cpu \in Ctx
  /\ user_args \in [ret : {0, -1}, buf : Seq(Chars \cup {" ", NUL})]

\* A user program runs in its own address space and traps onto its own
\* kernel stack: the 4 MB page and tss.esp0 both belong to the process whose
\* program the CPU executes (spec 3: "the shared mapping always reflects the
\* process currently granted the CPU"; 4.1 current_id).
ContextConsistent ==
  cpu.pc = "User" => ote_mb = cpu.prog /\ tss_esp0 = cpu.prog

\* After the three shells have started, the running user program belongs to
\* the terminal the scheduler is serving: pit_handler resumes the snapshot
\* of terminal new_term and sys_execute gives a child get_cur_term(), which
\* only matches if the caller's terminal is both displayed and in service.
InServiceOwnsCpu ==
  Booted /\ cpu.pc = "User" => pcb[cpu.prog].term = term_in_service

\* The slots on the launch chain of process p: p, its parent, and so on up to
\* the root shell (at most MAX_PROCESSES links, as a stale PCB may loop).
RECURSIVE Lineage(_, _)
Lineage(p, n) ==
  IF p \notin Procs THEN {}
  ELSE IF n = 0 \/ pcb[p].root THEN {p}
  ELSE {p} \cup Lineage(pcb[p].parent, n - 1)

\* The slots a context keeps alive: its program's launch chain, plus the slot
\* an execute in flight has taken, minus the slot a halt has just freed.
Held(c) ==
  LET chain == Lineage(c.prog, MAX_PROCESSES) IN
  CASE c.pc \in {"Load", "Iret"} -> chain \cup {c.pn}
    [] c.pc = "HaltJump"         -> chain \ {c.stack}
    [] c.pc = "Lost"             -> {}
    [] OTHER                     -> chain

\* The contexts that will run again: the CPU's and the snapshots of the
\* terminals not in service (the one in service was consumed by the tick).
Resumable == {cpu} \cup {sched_arr[t].ctx : t \in Terms \ {term_in_service}}

\* Slot accounting (spec 4.1, 8): after start-up the occupied slots are
\* exactly those on the launch chains of the contexts that will run again.
\* A slot outside them has leaked (an error path of sys_execute that does
\* not free it, a halt that frees another slot); a context whose chain
\* holds a free slot will run on a stack that can be handed out again.
NoLeakedSlot ==
  Booted => {p \in Procs : proc_arr[p] = RUNNING} = UNION {Held(c) : c \in Resumable}

\* Each tick after start-up hands the CPU to the next terminal in rotation
\* (spec 4.6 step 2): pit_handler derives the current terminal from the PCB
\* of the process on whose stack it runs, not from term_in_service.
RoundRobin ==
  [][PitHandler /\ sched_arr_init =>
       term_in_service' = (term_in_service + 1) % NUM_TERMS]_vars

\* Every terminal is served by the scheduler again and again (spec 8: each
\* terminal gets its share of ticks), whatever the programs do.
EveryTerminalServiced ==
  \A t \in Terms : []<>(term_in_service = t)

\* A successful execute (spec 4.4) launches the file whose name is exactly the
\* command's first word, only if name and argument are within their bounds,
\* and records the text after the first space as the argument.  The name
\* loop lets a name one character too long through to the lookup, and the
\* argument loop checks its bound before each store.
ExecuteParsesCommand ==
  [][ExecuteLoad =>
       LET c == cpu.cmd IN
       /\ Len(RefName(c)) <= MAX_FILENAME_LENGTH
       /\ Len(RefArg(c)) <= KB_BUF_SIZE_MAX
       /\ RefLookup(RefName(c)) # NoDentry
       /\ RefHasArg(c) => pcb'[cpu.pn].arg = RefArg(c)]_vars

\* get_arguments(buffer, max_length) as spec 4.5 states it: fail if the
\* launch supplied no argument or max_length is below its length, else
\* max_length bytes: the argument, zero padded.
RefGetargs(b, n) ==
  IF ~b.argGiven \/ b.arg = <<>> \/ n < Len(b.arg) THEN [user_args EXCEPT !.ret = -1]
  ELSE [ret |-> 0, buf |-> [i \in 1 .. n |-> CharAt(b.arg, i)]]

\* The launch contract (spec 4.4, 4.5, 7): a launched file carries the four
\* magic bytes, and getargs returns what the command supplied, writing no
\* more than the caller's max_length bytes.  The magic loop checks three
\* bytes; a command without a space makes the argument loop read past its
\* NUL; getargs zeroes nbytes + 1 bytes.
LaunchContract ==
  [][/\ ExecuteLoad => header[ReadDentryByName(ParsedName(cpu.cmd)).inode_num] = MAGIC
     /\ \A n \in GetargsSizes :
          UserCallsGetargs(n) => user_args' = RefGetargs(pcb[tss_esp0], n)]_vars

-----------------------------------------------------------------------------
(* Refinement of ProcessStacks *)

\* The slot an execute in flight has taken but not yet entered.
InFlight == IF cpu.pc \in {"Load", "Iret"} THEN {cpu.pn} ELSE {}

\* A slot whose program has been entered and has not been freed.
Launched(p) == proc_arr[p] = RUNNING /\ p \notin InFlight

\* The launched non-root processes whose PCB names x as parent.
ChildOf(x) == {p \in Procs : Launched(p) /\ ~pcb[p].root /\ pcb[p].parent = x}

\* x and the chain of launches above it (at most n more links).
RECURSIVE ChainFrom(_, _)
ChainFrom(x, n) ==
  <<x>> \o IF n = 0 \/ ChildOf(x) = {} THEN <<>>
           ELSE ChainFrom(CHOOSE c \in ChildOf(x) : TRUE, n - 1)

\* Terminal t's stack: its root shell (slot t) and the launches above it.
StackOf(t) ==
  IF Launched(t) /\ pcb[t].root THEN ChainFrom(t, MAX_PROCESSES) ELSE <<>>

\* The program the CPU runs; a halt past HaltFree is committed to its parent.
Owner ==
  CASE cpu.pc = "HaltJump" -> pcb[cpu.stack].parent
    [] cpu.pc = "Lost"     -> NoPid
    [] OTHER               -> cpu.prog

Abs == INSTANCE ProcessStacks
         WITH stacks <- [t \in Terms |-> StackOf(t)],
              in_service <- term_in_service,
              owner <- Owner

\* The slot table, the PCBs' parent links and the per-terminal snapshots
\* together implement per-terminal LIFO stacks of processes (spec 4.4, 9):
\* execute pushes on the served terminal, halt pops back to the parent, and
\* every tick resumes the top of the stack of the terminal it serves.
ImplementsProcessStacks == Abs!Spec


\* The terminals whose stack holds slot p.
StackTerms(p) == {t \in Terms : \E i \in 1 .. Len(StackOf(t)) : StackOf(t)[i] = p}

\* A running program's video window shows either the screen or its own
\* terminal's backing page, never another terminal's: ALT-F (keyboard.c)
\* restores the window it saved, which is stale for the new display until
\* the next tick, and the boot ticks map shells 1 and 2 by slot number
\* while their PCBs still carry terminal 0.  A stale window may draw on
\* the screen; it must never overwrite a hidden terminal's saved screen.
WindowNeverForeign ==
  cpu.pc = "User" => \E t \in StackTerms(cpu.prog) : vid_pte \in {VGA, Buf(t)}

\* Once init_shell_pcbs has run, every process on terminal t's stack has
\* term_number t.  Shells 1 and 2 are launched by run_shell with
\* get_cur_term() (terminal 0); init_shell_pcbs repairs them, and every
\* later launch takes the caller's (displayed) terminal.
StackTermsAgree ==
  sched_arr_init =>
    \A t \in Terms : \A i \in 1 .. Len(StackOf(t)) : pcb[StackOf(t)[i]].term = t

=============================================================================
