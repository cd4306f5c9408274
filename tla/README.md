# TLA+ models of student-distrib

This directory holds TLA+ models of the kernel in `src/student-distrib`, the
TLC configurations that check them, and `PROJECT.json`. `PROJECT.json` lists
the components, the runs, the mutants, which source lines each definition
translates, the findings and the hazards.

## The system

The kernel is a single-core x86 kernel with three virtual terminals. It has
the following parts:

| Part | Source | State |
|---|---|---|
| Process slot table | `syscalls.c` `proc_arr` | `MAX_PROCESSES` = 6 slots, FREE or RUNNING. Slot *n* owns the 8 kB kernel stack and the PCB at a fixed address below 8 MB. |
| Process lifecycle | `syscalls.c` `sys_execute`, `sys_halt` | PCB: parent pid, parent esp/ebp, parent page-directory entry, term_number, argument, 8 file descriptors. |
| Scheduler | `task_switch.c` `pit_handler`, `get_next_proc`, `run_shell`, `init_shell_pcbs` | One saved esp/ebp/page snapshot per terminal (`sched_arr`), `shells_running`, `sched_arr_init`. |
| Mapper | `page.c`, `sys_vidmap` | `page_directory[OTE_MB/FOUR_MB]` (the 128 MB user page) and `page_table_vid[0]` (the user video window). |
| Terminals | `terminal.c`, `keyboard.c` | `cur_term_num` (displayed), `term_in_service` (scheduled), the keyboard buffers, `buf_sent`/`terminal_buf`. |
| Descriptor layer | `syscalls.c` `sys_open/close/read/write/getargs` | The descriptor arrays in the PCBs, `rtc_opened`, `dir_location`. |
| Filesystem | `file.c` | Read-only boot block, inodes and data blocks. |
| RTC, PIC, IDT | `rtc.c`, `i8259.c`, `idt.c`, `interrupts.c` | `read_wait`, interrupt masks, gate types. |

How the parts interact:

- **Interrupt gates.** System calls enter through INT 0x80, a *trap gate*
  (`idt.c` 56-64), so `sys_execute` and `sys_halt` run with interrupts
  enabled. The PIT and keyboard handlers are *interrupt gates* and run
  atomically.
- **Process identity.** A process is identified by the kernel stack it runs
  on (`get_process_number`).
- **Execute and halt.** `sys_execute` never returns. It saves the caller's
  esp/ebp in the child's PCB and IRETs into the child. `sys_halt` jumps back
  into that saved frame.
- **Each tick.** The scheduler:
  1. saves the interrupted context into the snapshot of the terminal of the
     process whose stack it runs on;
  2. picks the next terminal and, with `get_next_proc`, the slot to run there;
  3. sets `tss.esp0`, the user page and the video window;
  4. loads the snapshot's esp/ebp.
- **Start-up.** The first two ticks start shells 1 and 2 by calling
  `sys_execute` from inside the handler.
- **Terminal switch.** ALT-F in the keyboard handler changes the displayed
  terminal.

## Modules

### `Kernel.tla`: process lifecycle, scheduler, mapper, terminal switch

**State** (`VARIABLES`):

| Variable | Code |
|---|---|
| `proc_arr` | `proc_arr` |
| `pcb` | The PCB fields the scheduler and halt read: `parent_pid`, `parent_phys_addr`, where `parent_esp` leads (`ret`: back into a user program, into `pit_handler`'s `run_shell`, or into `kernel.c`), `term_number`. Also a ghost flag `root` for a terminal's root shell. |
| `ote_mb` | `page_directory[OTE_MB/FOUR_MB]`, as the slot whose frame it maps, or `NotPresent` |
| `vid_pte` | `page_table_vid[0]`: `VGA` or `Buf(t)` |
| `tss_esp0` | `tss.esp0`, as the slot whose stack it tops |
| `cur_term_num`, `term_in_service` | The same names in `terminal.c` |
| `shells_running`, `sched_arr_init`, `sched_arr` | The same names in `task_switch.c` |
| `cpu` | The register context the CPU runs (see below) |

The register context (esp, ebp and the user trap frame) is abstracted to the
record `Ctx`:

- `stack`: the kernel stack the code runs on;
- `pc`: the code point;
- `pn`: the slot taken by an execute in flight;
- `root`: launched by `run_shell`;
- `prog`: the user program the trap frame at the base of the stack returns to.

A snapshot holds such a context and the saved page entry. A zeroed snapshot
resumes nothing (`LostCtx`): control has left the modelled kernel with
interrupts masked.

**Actions.** Every preemption point of a system call is an action boundary.

| Action | Code |
|---|---|
| `UserCallsExecute` | INT 0x80 into `sys_execute`, on the stack `tss.esp0` names |
| `ExecuteScan` | the free-slot scan, 137-150 (none free: return -1) |
| `ExecuteMark` | `proc_arr[n] = RUNNING`, 151-153 |
| `ExecuteLoadFail` | the error returns of 155-203, which free the slot |
| `ExecuteLoad` | page install, image copy and PCB write, 205-286 |
| `ExecuteIret` | `tss.esp0` and IRET, 288-328 |
| `HaltEnter` | 55-87: for slot 0 a no-op; else `tss.esp0` and page to the parent's |
| `HaltFree` | `proc_arr[n] = FREE`, 88-89 |
| `HaltJump` | `cli` and the jump to the saved parent frame, 91-110 |
| `UserCallsGetargs(n)` | `sys_getargs(buf, n)` with a valid `buf`, 496-519; its result is the ghost `user_args` |
| `UserCallsVidmap` | `sys_vidmap` with a valid pointer |
| `PitHandler` | the whole of `pit_handler`, both start-up branches included; `run_shell`'s execute then continues with `ExecuteScan` on the interrupted stack |
| `SwitchTerminal` | the ALT-F branch of `keyboard_handler`. The rest of the handler restores `page_table_vid[0]` and `term_in_service` before it returns, so it changes nothing the model keeps. |

**Command parser.** `UserCallsExecute` picks a command buffer from
`Commands`: the string, its NUL, and the bytes memory holds after it. The
parser of 155-203 is a set of operators over that buffer:

| Operator | Code |
|---|---|
| `NameEnd`, `NameTooLong`, `ParsedName` | the name loop, 159-169. It fails only on a character at `arg_it > MAX_FILENAME_LENGTH`, so a name one character too long is accepted. |
| `ArgStart`, `ArgEnd`, `ParsedArg`, `ArgTooLong` | `arg_it++` and the argument loop, 171-180. The skip also steps over a terminating NUL. |
| `MAGIC`, `MagicOK` | the magic bytes and the loop `exeIt < 3`, 183-203 |
| `Loadable` | all of it: `ExecuteLoad` needs it, `ExecuteLoadFail` its negation |

`ExecuteLoad` stores `ParsedArg` in the PCB (275-276). The PCB also carries
the ghost `argGiven`: whether the command had an argument by spec 7's syntax.
`Str`, `RefHasArg`, `RefName` and `RefArg` define that syntax. They are
reference definitions, written from spec 7 and not from the code.

**Environment and timing.** Five constants say which environments and
timings a run admits:

| Constant | Question |
|---|---|
| `ShellsMayExit` | May the user type `exit` in a root shell? |
| `SyscallPreemptible` | May a tick or key fall inside a program's `sys_execute`/`sys_halt`? |
| `BootPreemptible` | May a tick fall inside `run_shell`'s execute? |
| `ExecuteAnywhere` | May execute be called while another terminal is displayed? |
| `NestedExecute` | May a child of a root shell launch programs? |

The nested_execute, syscall_preempt and boot_preempt runs each turn on
exactly one of them; execute_command and user_fault turn them all off. `ShellsMayExit` and
`ExecuteAnywhere` no longer have a run (see the retired runs below). The
main run turns them all off.

**Fairness.**

- `SF_vars(PitHandler)`: the PIT fires periodically. A tick raised while
  interrupts are masked stays pending in the i8259 and is taken as soon as
  they are enabled again, so strong fairness is what the hardware gives.
- `WF_vars(KernelStep)`: kernel code of a system call, once entered, runs on.
- User actions (execute, halt, vidmap, ALT-F) have no fairness: users and
  programs may do nothing.

### `ProcessStacks.tla`: what lifecycle and scheduler promise

This is an abstract specification, written from spec 4.4, 4.6 and 9 and not
mapped to code:

- Each terminal has a stack of processes, its root shell at the bottom.
- `Launch` pushes a process on the served terminal's stack. On an empty stack
  it pushes that terminal's root shell, which is how the scheduler starts
  shells 1 and 2.
- `Exit` pops a process that is not a root shell and resumes the one below.
- `Tick(t)` serves terminal t and resumes the top of its stack.
- Ticks are weakly fair.

`Kernel` defines the refinement mapping:

- The stack of terminal t is the chain of launched slots from t's root shell,
  following `ChildOf` (a RUNNING slot whose PCB names its parent), with
  `ChainFrom` RECURSIVE. A slot whose execute is still between the PCB write
  and the IRET (`InFlight`) is not yet on a stack.
- The served terminal is `term_in_service`.
- The owner is `cpu.prog`, the parent during halt's jump, and `NoPid` once
  control is lost.

`ImplementsProcessStacks == Abs!Spec` is a property of the main run. The order
of ticks is left to `RoundRobin`, because the third start-up tick goes from
terminal 2 back to 1 (the stale `term_number`, `task_switch.c` 189).

### `KernelFaults.tla`: user exceptions

This module extends `Kernel` with `UserFault`:

- A running user program raises an exception.
- IDT vectors 0-31 are interrupt gates (`idt.c` 40-54 leaves `reserved3`
  clear), so the handler runs with interrupts masked.
- Every handler in `interrupts.c` prints a message and spins in `while(1)`.

The CPU then sits at the code point `"Fault"`, which is not interruptible.

### `FileSystem.tla`: the read-only filesystem, as pure operators

`file.c`'s lookups and reads are operators over constants that describe a small
boot block: `d_entries`, `inode_length` and `data_block_num`.

| Operator | Code |
|---|---|
| `ReadDentryByIndex` | `read_dentry_by_index` |
| `ReadDentryByName` | `read_dentry_by_name`. `strncmp` over the longer of the two names' lengths (an entry's length capped at `MAX_NAME_LEN`); the first match wins. |
| `CopyLoop` (RECURSIVE) | the block-by-block copy loop of `read_data` |
| `ReadData` | `read_data`: 0 at or past the end of the file, otherwise the length asked for and the copied bytes |

A data byte is modelled as the pair (data block number, offset in block), so
two reads can be compared by which bytes of the image they return.

`RefLookup` and `RefReadData` are reference definitions written from the
spec: an exact-name lookup, and a read clipped to the file's end.
`CharAt`, `StrLen` and `StrNCmpEq` model `lib.c`'s string functions. `lib.c`
is not in the repository, so they are marked `spec_modelled`.

### `FileDescriptors.tla`: descriptor layer and RTC

This module has the per-process descriptor arrays (`file_desc`) for two or
three processes. Each process runs its system calls one step at a time:

| Action | Code |
|---|---|
| `Execute` | PCB set-up of the descriptors in `sys_execute`: stdin/stdout open, the rest zeroed |
| `SysOpen` | `sys_open`. Lowest free descriptor; binds by the entry's file type; `rtc_open` sets `rtc_opened`. |
| `SysClose` | `sys_close`. The flag is cleared only if the type's `close` returns 0. |
| `SysWrite` | `sys_write` with `rtc_write`: the range check, the switch from frequency to rate select bits (`RtcSelectBits`) and the write of those bits into register A (`rtc_rate`) |
| `KeyCtrlTwo` | CTRL-2 in `keyboard_handler`: `rtc_close` then `rtc_open`, which resets the rate to 2 Hz |
| `FileRead` | `fread`, with `read_data` |
| `DirRead` | `dir_read`, on the global `dir_location` |
| `RtcReadStart`, `RtcReadReturn` | `rtc_read`'s set and spin on the global `read_wait` |
| `RtcHandler` | `rtc_handler` |
| `HaltStart`, `HaltClose`, `HaltDone` | `sys_halt`'s close loop over descriptors 2..7 |

`listed` is a ghost: the entries a directory descriptor has returned.

`rtc_rate` is the low nibble of the RTC's register A: 15 (2 Hz) at boot and
after every `rtc_open`. The interrupt rate for select bits r is
32768 >> (r - 1) Hz, by the RTC data sheet (`RateHz`). `SysWrite` is taken
only on descriptors bound to the RTC (`RtcBound`), because `fwrite`,
`dir_write` and a write to the terminal change no modelled state: they
would be stutter steps. The argument is the frequency the buffer points
to, with `nbytes` = 4. The `buf == 0` and `nbytes != 4` early returns are
failures that change nothing.

**Bounds.**

- A filesystem with a directory `"a"`, the RTC `"b"` and a 5-byte file
  `"ab"` in two 3-byte blocks. With `FOUR_KB` = 3, a read crosses a block
  boundary.
- Names of one to three characters over `{a, b}`, so a name one character
  too long and every prefix are tried.
- Reads of 2 bytes.
- Writes of 3 Hz (no power of two) and 1024 Hz (the highest rate
  admitted). `RtcWriteSetsRate` probes the rate function itself at every
  power of two from 1 to 2048 and its neighbours, so the bounds of the range
  check and each case of the switch are tried.
- Four descriptors, or three for the three-process run.
- `MCView` drops state that can no longer matter: the fields of closed
  descriptors, halt's counter outside halt, and the listing ghost of closed
  descriptors.
- Processes are symmetric.

### `Terminal.tla`: keyboard line discipline and `terminal_read`

**State.** `kbd_buf`, `kbd_buf_idx` (kept modulo `IDX_WIDTH`, the `uint8_t`
wrap) and `term_bufs` from `keyboard.c`; `terminal_buf`, `buf_sent`,
`cur_term_num` and `term_in_service` from `terminal.c`; `ctrl_pressed` and
`alt_pressed` from `keyboard.c`. `rd[t]` is where the
reader of terminal t is in `terminal_read`.

**Actions.** Each key is one step, because the keyboard handler is an
interrupt gate.

| Action | Code |
|---|---|
| `KeyModifier` | `keyboard.c` 204-245: a press or release of CTRL or ALT sets its flag |
| `KeyChar` | `keyboard.c` 509-512: flush past 127, then `kbd_buf[kbd_buf_idx++]`. Only while CTRL is up (`print_me`, 225). |
| `KeyBackspace` | 357: `kbd_buf[kbd_buf_idx--] = 0` |
| `KeyEnter` | `send_buffer` then `flush_kbd_buf` |
| `KeyAltF` | 279-283: swaps `kbd_buf` with `term_bufs`, not the index. Only while ALT is held (247). |
| `Tick` | the scheduler's rotation of `term_in_service` |
| `ReadCall`, `ReadWaitEnd`, `ReadCopy`, `ReadReturn` | `terminal_read`'s phases. It runs with interrupts enabled, so keys and ticks fall between them. |

A reader of terminal t moves only while t is in service.

**Ghosts.** `typed` and `entered` record the line as the user edits it
(characters appended, the last one removed by Backspace) and the last line
entered on each terminal.

**Fairness.** None. The module's properties are safety properties. A
liveness property of the wait loop would hold only with escape clauses
for the user switching terminals and for another reader clearing the shared
`buf_sent`, and those clauses excuse exactly the lost-line failure of the
shared globals, so none is stated. The cross-terminal delivery is caught by
`LineDelivered` instead.

### `PIC.tla`: the interrupt controllers and the IRQ handlers

**State.**

- `imr`: the two mask registers, what `inb` on the data ports reads back.
- `connected`: the `master_connected`/`slave_connected` bytes.
- `irr` and `isr`: the request and in-service registers.
- `if_flag`: the CPU's interrupt flag.
- `kbd_frame`: where `keyboard_handler` is: running, open after CTRL-2's
  `sti`, or suspended on the stack of a process a tick switched away from.
- `serving`: the terminal of the running process.
- `term_in_service` and `cur_term_num` from `terminal.c`.
- `kbd_owner` and `term_save`: the interrupted process's terminal, and the
  handler's saved `term_in_service`.

`EnableIrq`, `DisableIrq`, `SendEoi`, `UnmaskIrqLine` and `MaskAll` translate
the functions of `i8259.c` and use Bitwise's `&` and `|`. The 8-bit
complement is `255 - x`. `Delivered` is the 8259 in fully nested mode: the
lowest-numbered unmasked request with nothing of equal or higher priority
in service, with the slave resolved through master pin 2.

| Action | Code |
|---|---|
| `BootUnmask`, `BootSti` | the boot code's `unmask_irq_line` calls, then interrupts on |
| `Raise` | a device raising its line |
| `PitTick` | `pit_handler`'s EOI (`run_shell` 87 or line 206) and the switch to the next terminal |
| `RtcIrq` | `rtc_handler`: register C, `read_wait`, `send_eoi(8)` |
| `KbdIrq` | `keyboard_handler` up to `disable_irq(1)` (line 199), with the save of `term_in_service` and its override by the displayed terminal (185-186) |
| `KbdAltF` | ALT-F's `set_cur_term` (269-284) |
| `KbdCtrlTwo` | CTRL-2: `rtc_open`'s `cli` ... `sti` (`rtc.c` 90-96) |
| `KbdFinish` | the restore of `term_in_service`, `send_eoi(1)`, `enable_irq(1)` and the return (516-521) |

The boot order and the set of lines (`BootLines`) are inputs. The kernel
entry point that calls `unmask_irq_line` is not in the repository.
`MCBootLines` = {0, 1, 2, 8} are the lines the running kernel needs.

Each handler is one step, because it runs with IF clear. The exception is
the keyboard handler after CTRL-2. A tick in that window switches to the
next terminal, because a tick always does (`RoundRobin`, checked on
`Kernel`); `PitTick` rotates `serving` and marks it in service. The handler
stays suspended on its process's stack until the tick that comes back to
that process's terminal.

**Fairness.**

- Weak fairness on boot and on the periodic raises of the PIT and the RTC.
  Keys need not come.
- Strong fairness on each delivery. A pending request is taken whenever IF
  is set and nothing of higher priority is in service, and both come and
  go.
- Strong fairness on `KbdFinish`. A resumed handler starts at a tick, and
  the next tick is a PIT period away, far longer than the rest of the
  handler. Weak fairness would admit a handler preempted at every
  resumption forever, which TLC produced.

**Properties.**

- `MaskMatchesHandler`: after boot, IRQ1 is masked and in service exactly
  while a keyboard handler is in progress (running, open, or suspended),
  and every other boot line stays unmasked.
- `InServiceOnReturn`: whenever a process runs, the terminal in service is
  its own. The keyboard handler overrides `term_in_service` with the
  displayed terminal. It undoes that at its end, even after ticks in its
  CTRL-2 window served other terminals, and after an ALT-F of its own.
- `EveryIrqServed`: every PIT and keyboard request is eventually
  acknowledged. So is every RTC request, unless keys keep arriving forever:
  IRQ1 outranks the cascade pin, and TLC found that a keyboard request
  pending at every chance starves the RTC. A suspended keyboard handler
  blocks the RTC for NUM_TERMS ticks.

## Runs

### Kernel runs

All of these use `MCKernel.tla`, with `MAX_PROCESSES` = 5.

| Run | Cfg | Expect | What it shows |
|---|---|---|---|
| kernel | `MCKernel.cfg` | pass | With every constant off, it checks `ContextConsistent`, `InServiceOwnsCpu`, `NoLeakedSlot`, `RoundRobin`, `EveryTerminalServiced`, `WindowNeverForeign`, `StackTermsAgree`, `ImplementsProcessStacks` and `ExecuteParsesCommand` (see below). |
| nested_execute | `MCKernel_nested.cfg` | violation | A program run from a program on terminal 1: `get_next_proc` keeps the *lowest* live slot of a terminal, not the deepest descendant. Shell 1 launches slot 3, which launches slot 4; the next tick that returns to terminal 1 puts `tss.esp0` on slot 3 while slot 4's context resumes (`ContextConsistent`). |
| syscall_preempt | `MCKernel_preempt.cfg` | violation | A tick between `proc_arr[n] = RUNNING` (152) and the PCB write (286). `get_next_proc` reads the unwritten `term_number` and resumes terminal 0 with `tss.esp0` on the half-built slot (`ContextConsistent`). |
| boot_preempt | `MCKernel_boot.cfg` | violation | A tick after `run_shell`'s `sti()` starts shell 2 inside shell 1's launch. Shell 0's saved context is overwritten while slot 0 stays occupied (`NoLeakedSlot`). |
| execute_command | `MCKernel_launch.cfg` | violation | `LaunchContract` fails. `sys_execute` launches the file `c`, whose fourth magic byte is wrong. Each of the other two bugs also fails it when the commands are narrowed to one (see below). |
| user_fault | `MCKernel_fault.cfg` (`MCKernelFaults`) | violation | After one user fault no tick is taken again, so `EveryTerminalServiced` fails. Spec 4.4 says a fault becomes a halt. `CHECK_DEADLOCK FALSE`: the hung system really stops. |

The properties of the main run:

- `ContextConsistent`: a running program has its own page and its own
  `tss.esp0`.
- `InServiceOwnsCpu`: after start-up, the running program belongs to the
  terminal being served.
- `NoLeakedSlot`: after start-up, the occupied slots are exactly the launch
  chains of the contexts that will run again. `Lineage`, `Held` and
  `Resumable` define those chains. The property catches both a leaked slot and
  a context on a freed slot.
- `RoundRobin`: every tick after start-up moves to the next terminal.
- `EveryTerminalServiced`: every terminal is served infinitely often.
- `WindowNeverForeign`: while a user program runs, the video window
  (`page_table_vid[0]`) is the screen or the buffer of a terminal on whose
  stack the program is. ALT-F restores the window it saved before the
  switch (`keyboard.c` 516), and the start-up ticks map shells 1 and 2
  before their PCBs name a terminal (`task_switch.c` 189). Both can leave a
  window that the running program did not ask for. The property says that
  the window never belongs to a terminal the program has nothing to do with.
- `StackTermsAgree`: once scheduling has started, every PCB on terminal t's
  launch stack has `term_number` t. `init_shell_pcbs` is what repairs the
  terms of shells 1 and 2, which `run_shell` launched from terminal 0.
- `ImplementsProcessStacks`: `Kernel` refines `ProcessStacks`.
- `ExecuteParsesCommand`: every launch is of a command whose name and
  argument, split by spec 7's syntax, are within the bounds. The file exists,
  and a given argument is what the PCB stores. The only argument-length
  command tried is exactly one character too long.

`LaunchContract`, checked by the execute_command run, says two things:

- a launched file has all four magic bytes;
- `getargs` returns what spec 4.5 says (`RefGetargs`): -1 without an
  argument or when `nbytes` is too small, else `nbytes` bytes of the
  argument, zero padded.

The code breaks it in three ways:

- the 3-byte magic check (197);
- a command with no argument, whose argument is read from past its NUL (171);
- `memset(buf, 0, nbytes + 1)` writing one byte beyond the buffer (516).

**Bounds.**

- Three terminals, as in the code.
- Five slots: three shells and two more. With only root shells launching,
  two children fit and the third terminal's launch finds the table full, so
  the "no free slot" path and its interaction with the scheduler are
  reached. Six slots, the code's value, could never fill with one child per
  terminal.
- The nesting run needs two children on one terminal and the reuse of a
  lower slot. With five slots it has that room.
- Names and arguments are bounded at 1 character (`MAX_FILENAME_LENGTH`,
  `KB_BUF_SIZE_MAX`), so "one too long" is two characters.
- The filesystem has two files:
  - `s`, whose image starts with the full magic;
  - `c`, whose fourth magic byte is wrong.
- `ShellCmd` is `s` followed by NUL bytes.
- Six command buffers are tried:
  - `s`, with `c` in memory after its NUL;
  - `s c`;
  - `s cc`, an argument one character too long;
  - `ss`, a name one character too long;
  - `ccc`, a name two characters too long;
  - `c`.
- getargs is called with `nbytes` 0 and 1.
- The main run has 136,811 distinct states and takes about a minute. Every
  run is exhaustive.

**Mutants.** Each property of the main run is broken by a plausible slip in
the code it covers:

| Mutant | Property it breaks |
|---|---|
| `init_shell_pcbs` writing `shell_num + 1` | `TypeOK` |
| halt not restoring the parent page | `ContextConsistent` |
| `init_shell_pcbs` not setting `term_number` | `InServiceOwnsCpu` |
| an error path of execute not freeing its slot | `NoLeakedSlot` |
| rotation modulo 2 | `RoundRobin` |
| execute waiting for a free slot instead of failing | `EveryTerminalServiced` |
| `sys_vidmap` mapping the displayed terminal's buffer instead of the caller's | `WindowNeverForeign` |
| the `init_shell_pcbs` loop stopping one shell early | `StackTermsAgree` |
| halt freeing the slot `tss.esp0` names after it moved to the parent | `ImplementsProcessStacks` |
| the argument bound checked as `> KB_BUF_SIZE_MAX` | `ExecuteParsesCommand` |

### Interrupt controller run

| Run | Cfg | Expect | What it shows |
|---|---|---|---|
| pic | `MCPIC.cfg` | pass | Three terminals, boot lines {0, 1, 2, 8}, 920 distinct states. It checks `MaskMatchesHandler`, `InServiceOnReturn` and `EveryIrqServed`, including ticks taken in the CTRL-2 window and the suspension and resumption of the keyboard handler. |

**Mutants.**

| Property | Mutant |
|---|---|
| `MaskMatchesHandler` | `enable_irq` writing `orig & (1 << irq)`, without the `~` |
| `InServiceOnReturn` | the handler's end not restoring `term_save` |
| `EveryIrqServed` | `send_eoi` for a slave line not sending the master's cascade EOI |

### Descriptor and terminal runs

| Run | Cfg | Expect | What it shows |
|---|---|---|---|
| file_descriptors | `MCFileDescriptors.cfg` | pass | Three processes, three descriptors each. It checks `TypeOK`; `StdioBound` (descriptors 0 and 1 stay open on the terminal); `NameLookupCorrect` (every successful open binds the entry with exactly that name, of the right type and inode); and `ReadDataInFile` (every read inside the file returns the file's bytes across block boundaries); and `RtcWriteSetsRate` (a write to an open RTC descriptor sets the rate to exactly the requested frequency when that is a power of two from 2 to 1024 Hz, and otherwise leaves the rate as it was). |
| rtc_close | `MCFileDescriptors_close.cfg` | violation | Open the RTC twice, close one: `rtc_opened` becomes 0 and the other descriptor can never be closed (`CloseReleases`). |
| dir_listing | `MCFileDescriptors_dir.cfg` | violation | `dir_read` walks the global `dir_location`, so a fresh listing misses entries (`DirListingComplete`). |
| terminal | `MCTerminal.cfg` | pass | Two terminals, a one-character buffer and a 1-bit index; every keyboard and reader step fires. `TypeOK`: the index stays a `uint8_t`-style value, including a backspace at index 0, which wraps. |
| line_delivered | `MCTerminal_line.cfg` | violation | Two-character buffer, 2-bit index. After typing `a`, Backspace, Enter, `terminal_read` delivers `"a"`: backspace clears the slot after the last character (`LineDelivered`). |

**Mutants.**

| Property | Mutant |
|---|---|
| `TypeOK` (file_descriptors) | `read_data` without the end-of-file check |
| `StdioBound` | `sys_close` clearing the flag whatever `close` returns, which would also close stdin |
| `NameLookupCorrect` | `strncmp` over the shorter length |
| `ReadDataInFile` | the copy loop not resetting the block offset |
| `RtcWriteSetsRate` | the range check written `freq >= 1024`, which refuses the highest rate |
| `TypeOK` (terminal) | backspace without the `uint8_t` wrap |

Five earlier violation runs were retired to keep the project at twelve runs.
They are still listed as hazards in `PROJECT.json`:

- `sys_execute` giving the child `get_cur_term()`, the displayed terminal,
  not its caller's (`syscalls.c` 282). With `ExecuteAnywhere = TRUE`,
  `InServiceOwnsCpu` fails;
- the global `read_wait` of `rtc_read`;
- ALT-F leaving the user video window on the old buffer until the next tick (now bounded by `WindowNeverForeign` in the main run);
- `sys_halt` sparing only slot 0, so a root shell of terminal 1 or 2 can
  exit. With `ShellsMayExit = TRUE`, `ImplementsProcessStacks` fails at once.
- `fread` moving the file position past the end of the file. This is a
  single-call bug that a unit test reaches.

## Not modelled yet, and the plan

1. **Composition.** `Terminal` driven by `Kernel`'s `term_in_service`
   instead of its own abstract rotation.
2. **Composition of `PIC` with `Kernel`.** `PIC` abstracts the scheduler to
   its rotation (`RoundRobin`) and checks the keyboard handler's
   `term_in_service` override across a preemption. `Kernel` still takes
   each handler branch as one atomic step.
3. **Fault as halt.** An exception handler that halts the faulting program,
   as spec 4.4 asks. Checked against `EveryTerminalServiced` and
   `ImplementsProcessStacks`.

Left out, with the reason:

- The CTRL-1 test path (`keyboard.c` 301-315) calls
  `rtc_write(0, buf, freqs[freq_idx])`. It passes the frequency as `nbytes`
  and `buf` uninitialized. Every frequency but 4 fails the `nbytes != 4`
  check, and 4 Hz reads through an uninitialized pointer. This is
  undefined behaviour within one call, so there is no interleaving to
  check.
- The reset of the shared rate by any `rtc_open` is reached
  (`SysOpen`, `KeyCtrlTwo`), but nothing promises a per-process rate, so no
  property states one.
- CTRL-L only clears the screen.

Not to be modelled:

- the ICW writes of `i8259_init`, port I/O to the RTC and VGA;
- IDT and page-table construction at boot;
- screen output, cursor movement and scrolling;
- scancode translation (shift and caps lock choose which character a key
  gives, which is data);
- `tests.c`;
- the commented-out `pcb.c`.
