------------------------------- MODULE Terminal -------------------------------
(***************************************************************************)
(* The keyboard line discipline of keyboard.c and terminal_read of         *)
(* terminal.c.  The keyboard handler (an interrupt gate, so one step per   *)
(* key) edits the one kbd_buf of the displayed terminal; ALT-F swaps it    *)
(* with the saved term_bufs; Enter hands it to terminal_read through the   *)
(* globals terminal_buf and buf_sent.  The foreground program of each      *)
(* terminal reads lines; terminal_read runs with interrupts enabled, so    *)
(* keys and ticks fall between its wait, its copy loop and its clearing of *)
(* buf_sent.  The scheduler is abstracted to its rotation of               *)
(* term_in_service (Kernel's RoundRobin).                                  *)
(***************************************************************************)
EXTENDS Integers, Sequences

CONSTANTS
  NUM_TERMS,  \* task_switch.h: terminals
  BUFSIZE,    \* keyboard.c / terminal.h MAX_BUF: keyboard buffer size
  IDX_WIDTH,  \* 2^8 in the code: kbd_buf_idx is a uint8_t
  Chars,      \* printable characters
  NUL         \* the zero byte

ASSUME BUFSIZE \in Nat \ {0} /\ IDX_WIDTH > BUFSIZE /\ NUL \notin Chars

Terms == 0 .. NUM_TERMS - 1
Buf == [0 .. BUFSIZE - 1 -> Chars \cup {NUL}]
EmptyBuf == [i \in 0 .. BUFSIZE - 1 |-> NUL]

\* The line a buffer holds for a reader that stops at the first NUL.
RECURSIVE LineFrom(_, _)
LineFrom(b, i) == IF i >= BUFSIZE \/ b[i] = NUL THEN <<>> ELSE <<b[i]>> \o LineFrom(b, i + 1)
Line(b) == LineFrom(b, 0)

\* What a user may have typed: lines of at most BUFSIZE characters.
Typed == UNION {[1 .. n -> Chars] : n \in 0 .. BUFSIZE}
NoLine == <<NUL>>

VARIABLES
  kbd_buf, kbd_buf_idx, term_bufs,  \* keyboard.c
  ctrl_pressed, alt_pressed,        \* keyboard.c: modifier keys held
  terminal_buf, buf_sent,           \* terminal.c
  cur_term_num, term_in_service,    \* terminal.c
  rd,         \* terminal -> where its reader is in terminal_read
  typed,      \* ghost: terminal -> the line its user is editing
  entered     \* ghost: terminal -> the last line entered on it, or NoLine

vars == <<kbd_buf, kbd_buf_idx, term_bufs, ctrl_pressed, alt_pressed, terminal_buf, buf_sent,
          cur_term_num, term_in_service, rd, typed, entered>>

Init ==
  /\ kbd_buf = EmptyBuf /\ kbd_buf_idx = 0
  /\ term_bufs = [t \in Terms |-> EmptyBuf]
  /\ ctrl_pressed = 0 /\ alt_pressed = 0
  /\ terminal_buf = EmptyBuf /\ buf_sent = 0
  /\ cur_term_num = 0 /\ term_in_service = 0
  /\ rd = [t \in Terms |-> "idle"]
  /\ typed = [t \in Terms |-> <<>>]
  /\ entered = [t \in Terms |-> NoLine]

\* kbd_buf[i] = c where i is inside the array; a write outside it (the
\* index is a uint8_t) lands on other kernel data, which is not modelled.
Store(b, i, c) == IF i < BUFSIZE THEN [b EXCEPT ![i] = c] ELSE b

\* A press (down = 1) or release (down = 0) of CTRL or ALT sets its flag;
\* nothing else of the handler applies to these keys.
KeyModifier(key, down) ==
  /\ IF key = "CTRL" THEN ctrl_pressed' = down /\ alt_pressed' = alt_pressed
     ELSE alt_pressed' = down /\ ctrl_pressed' = ctrl_pressed
  /\ UNCHANGED <<kbd_buf, kbd_buf_idx, term_bufs, terminal_buf, buf_sent,
                 cur_term_num, term_in_service, rd, typed, entered>>

\* A printable key with CTRL up (print_me): past index BUFSIZE - 1 the buffer is flushed, then
\* kbd_buf[kbd_buf_idx++] = scan_char.
KeyChar(c) ==
  /\ ctrl_pressed = 0
  /\ Len(typed[cur_term_num]) < BUFSIZE
  /\ LET b == IF kbd_buf_idx > BUFSIZE - 1 THEN EmptyBuf ELSE kbd_buf
         i == IF kbd_buf_idx > BUFSIZE - 1 THEN 0 ELSE kbd_buf_idx
     IN  /\ kbd_buf' = Store(b, i, c)
         /\ kbd_buf_idx' = (i + 1) % IDX_WIDTH
  /\ typed' = [typed EXCEPT ![cur_term_num] = @ \o <<c>>]
  /\ UNCHANGED <<ctrl_pressed, alt_pressed, term_bufs, terminal_buf, buf_sent, cur_term_num,
                 term_in_service, rd, entered>>

\* Mutant: kbd_buf_idx-- without the uint8_t wrap.
KeyBackspaceNoWrap ==
  /\ kbd_buf' = Store(kbd_buf, kbd_buf_idx, NUL)
  /\ kbd_buf_idx' = kbd_buf_idx - 1
  /\ typed' = [typed EXCEPT ![cur_term_num] = IF @ = <<>> THEN @ ELSE SubSeq(@, 1, Len(@) - 1)]
  /\ UNCHANGED <<ctrl_pressed, alt_pressed, term_bufs, terminal_buf, buf_sent, cur_term_num,
                 term_in_service, rd, entered>>

\* Backspace: kbd_buf[kbd_buf_idx--] = 0.
KeyBackspace ==
  /\ kbd_buf' = Store(kbd_buf, kbd_buf_idx, NUL)
  /\ kbd_buf_idx' = (kbd_buf_idx - 1) % IDX_WIDTH
  /\ typed' = [typed EXCEPT ![cur_term_num] = IF @ = <<>> THEN @ ELSE SubSeq(@, 1, Len(@) - 1)]
  /\ UNCHANGED <<ctrl_pressed, alt_pressed, term_bufs, terminal_buf, buf_sent, cur_term_num,
                 term_in_service, rd, entered>>

\* Enter: send_buffer (terminal_buf = kbd_buf, buf_sent = 1), then
\* flush_kbd_buf.
KeyEnter ==
  /\ terminal_buf' = kbd_buf
  /\ buf_sent' = 1
  /\ kbd_buf' = EmptyBuf /\ kbd_buf_idx' = 0
  /\ entered' = [entered EXCEPT ![cur_term_num] = typed[cur_term_num]]
  /\ typed' = [typed EXCEPT ![cur_term_num] = <<>>]
  /\ UNCHANGED <<ctrl_pressed, alt_pressed, term_bufs, cur_term_num, term_in_service, rd>>

\* ALT-F1..F3 to another terminal: save kbd_buf to the old terminal's
\* term_bufs entry, load the new one's, set cur_term_num.
KeyAltF(new_term) ==
  /\ alt_pressed = 1
  /\ new_term # cur_term_num
  /\ term_bufs' = [term_bufs EXCEPT ![cur_term_num] = kbd_buf]
  /\ kbd_buf' = term_bufs[new_term]
  /\ cur_term_num' = new_term
  /\ UNCHANGED <<ctrl_pressed, alt_pressed, kbd_buf_idx, terminal_buf, buf_sent, term_in_service, rd,
                 typed, entered>>

\* The PIT tick moves the service to the next terminal.
Tick ==
  /\ term_in_service' = (term_in_service + 1) % NUM_TERMS
  /\ UNCHANGED <<ctrl_pressed, alt_pressed, kbd_buf, kbd_buf_idx, term_bufs, terminal_buf, buf_sent,
                 cur_term_num, rd, typed, entered>>

\* The foreground program of terminal t calls read(0, buf, MAX_BUF).
ReadCall(t) ==
  /\ term_in_service = t /\ rd[t] = "idle"
  /\ rd' = [rd EXCEPT ![t] = "wait"]
  /\ UNCHANGED <<ctrl_pressed, alt_pressed, kbd_buf, kbd_buf_idx, term_bufs, terminal_buf, buf_sent,
                 cur_term_num, term_in_service, typed, entered>>

\* The wait loop ends when a buffer was sent and the displayed terminal is
\* the one in service.
ReadWaitEnd(t) ==
  /\ term_in_service = t /\ rd[t] = "wait"
  /\ buf_sent = 1 /\ cur_term_num = term_in_service
  /\ rd' = [rd EXCEPT ![t] = "copy"]
  /\ UNCHANGED <<ctrl_pressed, alt_pressed, kbd_buf, kbd_buf_idx, term_bufs, terminal_buf, buf_sent,
                 cur_term_num, term_in_service, typed, entered>>

\* The copy loop: MAX_BUF bytes of terminal_buf into the program's buffer.
ReadCopy(t) ==
  /\ term_in_service = t /\ rd[t] = "copy"
  /\ rd' = [rd EXCEPT ![t] = "clear"]
  /\ UNCHANGED <<ctrl_pressed, alt_pressed, kbd_buf, kbd_buf_idx, term_bufs, terminal_buf, buf_sent,
                 cur_term_num, term_in_service, typed, entered>>

\* buf_sent = 0 and return.
ReadReturn(t) ==
  /\ term_in_service = t /\ rd[t] = "clear"
  /\ buf_sent' = 0
  /\ rd' = [rd EXCEPT ![t] = "idle"]
  /\ UNCHANGED <<ctrl_pressed, alt_pressed, kbd_buf, kbd_buf_idx, term_bufs, terminal_buf, cur_term_num,
                 term_in_service, typed, entered>>

Keyboard ==
  \/ \E c \in Chars : KeyChar(c)
  \/ KeyBackspace \/ KeyEnter
  \/ \E t \in Terms : KeyAltF(t)
  \/ \E key \in {"CTRL", "ALT"}, down \in {0, 1} : KeyModifier(key, down)

Reader(t) == ReadCall(t) \/ ReadWaitEnd(t) \/ ReadCopy(t) \/ ReadReturn(t)

Next == Keyboard \/ Tick \/ \E t \in Terms : Reader(t)

\* Only safety is checked of this module: no fairness is assumed.
Spec == Init /\ [][Next]_vars

-----------------------------------------------------------------------------
(* Properties *)

TypeOK ==
  /\ kbd_buf \in Buf /\ kbd_buf_idx \in 0 .. IDX_WIDTH - 1
  /\ term_bufs \in [Terms -> Buf]
  /\ ctrl_pressed \in {0, 1} /\ alt_pressed \in {0, 1}
  /\ terminal_buf \in Buf /\ buf_sent \in {0, 1}
  /\ cur_term_num \in Terms /\ term_in_service \in Terms
  /\ rd \in [Terms -> {"idle", "wait", "copy", "clear"}]
  /\ typed \in [Terms -> Typed]
  /\ entered \in [Terms -> Typed \cup {NoLine}]

\* The line terminal_read copies on terminal t is the line last entered on
\* t, as the user edited it (spec 6: terminal read delivers a completed
\* input line).  Backspace clears the slot after the last character, ALT-F
\* does not save kbd_buf_idx, terminal_buf and buf_sent are shared by all
\* terminals, and an Enter during the copy replaces the line being read.
LineDelivered ==
  [][\A t \in Terms : ReadCopy(t) => Line(terminal_buf) = entered[t]]_vars

=============================================================================
