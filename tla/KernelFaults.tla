---------------------------- MODULE KernelFaults ----------------------------
(***************************************************************************)
(* Kernel with user programs that fault.  Vectors 0..31 of the IDT are     *)
(* interrupt gates (idt.c: reserved3 left 0), so the CPU enters an         *)
(* exception handler with interrupts masked; every handler of             *)
(* interrupts.c prints a message and spins in while(1).  The faulting      *)
(* program's slot stays RUNNING and no tick is taken again.               *)
(***************************************************************************)
EXTENDS Kernel

\* A user program raises an exception (divide error, page fault, ...):
\* the handler runs on the kernel stack tss.esp0 names and never returns.
UserFault ==
  /\ Booted
  /\ cpu.pc = "User"
  /\ cpu' = [stack |-> tss_esp0, pc |-> "Fault", pn |-> NoPid, root |-> FALSE,
             prog |-> cpu.prog, cmd |-> <<>>]
  /\ UNCHANGED <<proc_arr, pcb, ote_mb, vid_pte, tss_esp0, cur_term_num,
                 term_in_service, shells_running, sched_arr_init, sched_arr, user_args>>

FaultNext == Next \/ UserFault

FaultSpec == Init /\ [][FaultNext]_vars /\ Fairness

=============================================================================
