-------------------------------- MODULE PIC --------------------------------
(***************************************************************************)
(* The two cascaded i8259 interrupt controllers (i8259.c) and the CPU's   *)
(* interrupt flag, driven by the three IRQ handlers of the kernel: the    *)
(* PIT (IRQ0, pit_handler), the keyboard (IRQ1, keyboard_handler) and the *)
(* RTC (IRQ8 on the slave, cascaded into master pin 2, rtc_handler).      *)
(*                                                                         *)
(* The PIC registers are the interrupt mask register imr (one byte per    *)
(* chip, what inb on the data port reads back), the request register irr  *)
(* and the in-service register isr, both as sets of IRQ numbers.  All     *)
(* three handlers are entered through interrupt gates, so each runs with  *)
(* IF clear and is one step here, with one exception: CTRL-2 calls        *)
(* rtc_open, whose sti() re-enables interrupts inside keyboard_handler,   *)
(* so a tick can preempt it and switch to another process before the      *)
(* handler sends its EOI and unmasks IRQ1.                                 *)
(***************************************************************************)
EXTENDS Naturals, FiniteSets, Bitwise

CONSTANTS
  NUM_TERMS,   \* task_switch.h: terminals served round robin by the PIT
  BootLines    \* the lines the boot code unmasks with unmask_irq_line

VARIABLES
  imr,         \* the mask register of each chip
  connected,   \* master_connected, slave_connected (i8259.c 11)
  irr,         \* requests raised and not yet acknowledged
  isr,         \* requests acknowledged and not yet ended by an EOI
  if_flag,     \* the CPU's interrupt flag
  unmasked,    \* the boot lines unmask_irq_line has been called for
  kbd_frame,   \* where keyboard_handler is: none, running (IF clear),
               \* open (after rtc_open's sti) or suspended (its process
               \* was switched away by a tick taken in the open window)
  serving,         \* the terminal whose process the CPU runs (or would
                   \* resume, while a handler runs on its stack)
  term_in_service, \* terminal.c: the terminal marked in service
  cur_term_num,    \* terminal.c: the displayed terminal
  kbd_owner,       \* the terminal of the process keyboard_handler interrupted
  term_save        \* keyboard_handler's saved term_in_service

sched == <<serving, term_in_service, cur_term_num, kbd_owner, term_save>>
vars == <<imr, connected, irr, isr, if_flag, unmasked, kbd_frame, sched>>
Terms == 0 .. NUM_TERMS - 1

PIT_IRQ == 0
KBD_IRQ == 1
CASCADE_IRQ == 2   \* the slave's output enters the master on pin 2
RTC_IRQ == 8
DeviceLines == {PIT_IRQ, KBD_IRQ, RTC_IRQ}
Chips == {"master", "slave"}

\* The chip and the pin of an IRQ number, as each function of i8259.c
\* selects them (irq_num > 7, irq_num -= 8).
ChipOf(irq) == IF irq > 7 THEN "slave" ELSE "master"
PinOf(irq) == IF irq > 7 THEN irq - 8 ELSE irq
Bit(x, n) == (x \div 2 ^ n) % 2
Cpl8(x) == 255 - x   \* ~x on a uint8_t

\* mask_all: both mask registers to 0xFF.
MaskAll == [c \in Chips |-> 255]

\* unmask_irq_line: clear the line's bit in the chip's connected byte and
\* write that byte, not the mask register's current value, to the chip.
UnmaskIrqLine(l) ==
  LET c == ChipOf(l)
      conn == connected[c] & Cpl8(2 ^ PinOf(l))
  IN /\ connected' = [connected EXCEPT ![c] = conn]
     /\ imr' = [imr EXCEPT ![c] = conn]

\* enable_irq: read the chip's mask and write it back with the bit cleared.
EnableIrqNoComplement(irq) ==
  [imr EXCEPT ![ChipOf(irq)] = @ & 2 ^ PinOf(irq)]
EnableIrq(irq) ==
  [imr EXCEPT ![ChipOf(irq)] = @ & Cpl8(2 ^ PinOf(irq))]

\* disable_irq: read the chip's mask and write it back with the bit set.
DisableIrq(irq) ==
  [imr EXCEPT ![ChipOf(irq)] = @ | 2 ^ PinOf(irq)]

\* send_eoi: a specific EOI to the line's chip; for a slave line, also to
\* the master's cascade pin.  in is the in-service register it acts on.
SendEoiSlaveOnly(in, irq) == in \ {irq}
SendEoi(in, irq) ==
  IF irq > 7 THEN in \ {irq, CASCADE_IRQ} ELSE in \ {irq}

(***************************************************************************)
(* The 8259 in fully nested mode (ICW4 = 0x01): a pin requests the CPU    *)
(* when its request is unmasked and no pin of equal or higher priority    *)
(* (lower number) is in service.  The slave requests master pin 2.        *)
(***************************************************************************)
Unblocked(l, lines) == \A s \in isr \cap lines : s > l
SlaveCandidates ==
  {q \in irr \cap 8 .. 15 : Bit(imr["slave"], q - 8) = 0 /\ Unblocked(q, 8 .. 15)}
MasterPending ==
  (irr \cap 0 .. 7) \cup (IF SlaveCandidates # {} THEN {CASCADE_IRQ} ELSE {})
MasterCandidates ==
  {p \in MasterPending : Bit(imr["master"], p) = 0 /\ Unblocked(p, 0 .. 7)}
LowestOf(S) == CHOOSE x \in S : \A y \in S : x <= y

\* The line the CPU acknowledges next: the master's highest-priority pin,
\* resolved through the slave when it is the cascade pin.
Delivered(l) ==
  /\ if_flag = 1
  /\ MasterCandidates # {}
  /\ LET p == LowestOf(MasterCandidates)
     IN l = IF p = CASCADE_IRQ THEN LowestOf(SlaveCandidates) ELSE p
AckedIsr(l) ==
  IF l > 7 THEN isr \cup {l, CASCADE_IRQ} ELSE isr \cup {l}

Init ==
  /\ connected = [c \in Chips |-> 255]
  /\ imr = MaskAll
  /\ irr = {} /\ isr = {}
  /\ if_flag = 0
  /\ unmasked = {}
  /\ kbd_frame = "none"
  /\ serving = 0 /\ term_in_service = 0 /\ cur_term_num = 0
  /\ kbd_owner = 0 /\ term_save = 0

Booted == unmasked = BootLines

\* Boot: unmask_irq_line for one line, with interrupts still disabled.
BootUnmask(l) ==
  /\ l \notin unmasked
  /\ UnmaskIrqLine(l)
  /\ unmasked' = unmasked \cup {l}
  /\ UNCHANGED <<irr, isr, if_flag, kbd_frame, sched>>

\* Boot done: interrupts are enabled.
BootSti ==
  /\ Booted /\ if_flag = 0 /\ kbd_frame = "none"
  /\ if_flag' = 1
  /\ UNCHANGED <<imr, connected, irr, isr, unmasked, kbd_frame, sched>>

\* A device raises its line.  The PIT and the RTC do so periodically (the
\* RTC again only after its handler has read register C, which is part of
\* the handler's step); the keyboard when a key is pressed.
Raise(l) ==
  /\ l \notin irr
  /\ irr' = irr \cup {l}
  /\ UNCHANGED <<imr, connected, isr, if_flag, unmasked, kbd_frame, sched>>

\* pit_handler, taken from user code, from a system call, or from the open
\* window of keyboard_handler.  It sends the EOI for IRQ0 (run_shell on the
\* start-up branch, line 206 otherwise) and switches to the next terminal's
\* process, returning to it with IF set.  A tick always moves to another
\* terminal in turn (RoundRobin in Kernel) and marks it in service
\* (set_term_in_service, lines 161 and 205).  A keyboard handler it preempts
\* is suspended until the tick that comes back to its process's terminal.
PitTick ==
  LET next == (serving + 1) % NUM_TERMS
  IN /\ Delivered(PIT_IRQ)
     /\ irr' = irr \ {PIT_IRQ}
     /\ isr' = SendEoi(AckedIsr(PIT_IRQ), PIT_IRQ)
     /\ if_flag' = 1
     /\ serving' = next
     /\ term_in_service' = next
     /\ kbd_frame' = CASE kbd_frame = "open" -> "suspended"
                        [] kbd_frame = "suspended" /\ next = kbd_owner -> "open"
                        [] OTHER -> kbd_frame
     /\ UNCHANGED <<imr, connected, unmasked, cur_term_num, kbd_owner, term_save>>

\* rtc_handler: read register C, clear read_wait, send the EOI for IRQ8,
\* and return.
RtcIrq ==
  /\ Delivered(RTC_IRQ)
  /\ irr' = irr \ {RTC_IRQ}
  /\ isr' = SendEoi(AckedIsr(RTC_IRQ), RTC_IRQ)
  /\ UNCHANGED <<imr, connected, if_flag, unmasked, kbd_frame, sched>>

\* keyboard_handler up to its disable_irq(1): entered with IF clear on the
\* interrupted process's stack; it saves term_in_service and marks the
\* displayed terminal in service; IRQ1 is in service and masked.
KbdIrq ==
  /\ Delivered(KBD_IRQ)
  /\ irr' = irr \ {KBD_IRQ}
  /\ isr' = AckedIsr(KBD_IRQ)
  /\ imr' = DisableIrq(KBD_IRQ)
  /\ if_flag' = 0
  /\ kbd_frame' = "running"
  /\ kbd_owner' = serving
  /\ term_save' = term_in_service
  /\ term_in_service' = cur_term_num
  /\ UNCHANGED <<connected, unmasked, serving, cur_term_num>>

\* ALT-F1..F3 (with ALT held): the displayed terminal changes when the
\* requested one differs (set_cur_term).
KbdAltF(new_term) ==
  /\ kbd_frame = "running"
  /\ new_term # cur_term_num
  /\ cur_term_num' = new_term
  /\ UNCHANGED <<imr, connected, irr, isr, if_flag, unmasked, kbd_frame,
                 serving, term_in_service, kbd_owner, term_save>>

\* CTRL-2: rtc_close then rtc_open, whose cli() ... sti() leaves
\* interrupts enabled for the rest of the handler.
KbdCtrlTwo ==
  /\ kbd_frame = "running"
  /\ kbd_frame' = "open"
  /\ if_flag' = 1
  /\ UNCHANGED <<imr, connected, irr, isr, unmasked, sched>>

\* The end of keyboard_handler: restore term_in_service, send_eoi(1),
\* enable_irq(1), and the iret back to a context that had interrupts enabled.
KbdFinishNoRestore ==
  /\ kbd_frame \in {"running", "open"}
  /\ isr' = SendEoi(isr, KBD_IRQ)
  /\ imr' = EnableIrq(KBD_IRQ)
  /\ if_flag' = 1
  /\ kbd_frame' = "none"
  /\ UNCHANGED <<connected, irr, unmasked, sched>>
KbdFinish ==
  /\ kbd_frame \in {"running", "open"}
  /\ term_in_service' = term_save
  /\ isr' = SendEoi(isr, KBD_IRQ)
  /\ imr' = EnableIrq(KBD_IRQ)
  /\ if_flag' = 1
  /\ kbd_frame' = "none"
  /\ UNCHANGED <<connected, irr, unmasked, serving, cur_term_num, kbd_owner, term_save>>

Next ==
  \/ \E l \in BootLines : BootUnmask(l)
  \/ BootSti
  \/ \E l \in DeviceLines : Raise(l)
  \/ PitTick
  \/ RtcIrq
  \/ KbdIrq
  \/ \E t \in Terms : KbdAltF(t)
  \/ KbdCtrlTwo
  \/ KbdFinish

(***************************************************************************)
(* Fairness.  Boot runs to its end; the PIT and the RTC raise their lines *)
(* periodically (the keyboard only when a key is pressed); a pending,     *)
(* unmasked request is taken whenever IF is set and nothing of higher     *)
(* priority is in service, which may come and go, hence strong fairness;  *)
(* handler code runs on.  Whether a key is CTRL-2 is up to the user.      *)
(* KbdFinish is strongly fair: a tick can suspend the open handler, but   *)
(* the process resumes at a tick, and the next tick is a PIT period away, *)
(* far longer than the rest of the handler, so it is not preempted at     *)
(* every resumption forever.                                               *)
(***************************************************************************)
Fairness ==
  /\ \A l \in BootLines : WF_vars(BootUnmask(l))
  /\ WF_vars(BootSti)
  /\ WF_vars(Raise(PIT_IRQ)) /\ WF_vars(Raise(RTC_IRQ))
  /\ SF_vars(PitTick) /\ SF_vars(RtcIrq) /\ SF_vars(KbdIrq)
  /\ SF_vars(KbdFinish)

Spec == Init /\ [][Next]_vars /\ Fairness

-----------------------------------------------------------------------------
(* Properties *)

\* Once booted, the PIC's view of IRQ1 agrees with keyboard_handler: the
\* line is masked and in service exactly while a handler is in progress,
\* running, open after CTRL-2's sti, or suspended on a process a tick
\* switched away from; every other boot line stays unmasked.
MaskMatchesHandler ==
  Booted =>
    /\ (kbd_frame # "none") = (Bit(imr["master"], PinOf(KBD_IRQ)) = 1)
    /\ (kbd_frame # "none") = (KBD_IRQ \in isr)
    /\ \A l \in BootLines \ {KBD_IRQ} : Bit(imr[ChipOf(l)], PinOf(l)) = 0

\* Every PIT and keyboard request is eventually acknowledged, although a
\* keyboard handler suspended by a tick in its CTRL-2 window keeps IRQ1 in
\* service, and with it the RTC's cascade pin blocked, for NUM_TERMS ticks.
\* An RTC request is acknowledged too, unless keys keep arriving forever:
\* IRQ1 outranks the cascade pin, so a keyboard request pending at every
\* chance starves the RTC, as the 8259's fixed priority allows.
EveryIrqServed ==
  /\ \A l \in {PIT_IRQ, KBD_IRQ} : (l \in irr) ~> (l \notin irr)
  /\ <>[](KBD_IRQ \notin irr) => ((RTC_IRQ \in irr) ~> (RTC_IRQ \notin irr))

\* Whenever a process runs, the terminal marked in service is its own:
\* keyboard_handler's override with the displayed terminal is undone when
\* it returns, even when a tick in its CTRL-2 window switched to other
\* terminals and back before it could, and whatever ALT-F it did.
InServiceOnReturn ==
  kbd_frame \in {"none", "suspended"} => term_in_service = serving

=============================================================================
