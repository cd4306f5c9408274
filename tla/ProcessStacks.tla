---------------------------- MODULE ProcessStacks ----------------------------
(***************************************************************************)
(* What the process lifecycle and the scheduler promise together (spec    *)
(* 4.4, 4.6, 9): each terminal owns a stack of processes, its root shell   *)
(* at the bottom; a launch pushes the new process on the stack of the      *)
(* terminal being served, a halt pops it and resumes the one below, and a  *)
(* tick hands the CPU to a terminal, which resumes the top of its stack.   *)
(* The root shells of terminals other than the first are started by the   *)
(* scheduler, as a launch on an empty stack.  A root shell never leaves.   *)
(* The order in which ticks visit terminals is not part of this           *)
(* specification (Kernel's RoundRobin states it).                          *)
(***************************************************************************)
EXTENDS Integers, SequencesExt

CONSTANTS
  NUM_TERMS,  \* terminals 0 .. NUM_TERMS - 1; the root shell of t is process t
  Procs,      \* process ids
  NoPid       \* no user program runs

Terms == 0 .. NUM_TERMS - 1

VARIABLES
  stacks,      \* terminal -> its processes, bottom first
  in_service,  \* the terminal the CPU is given to
  owner        \* the process whose user program the CPU runs, or NoPid

avars == <<stacks, in_service, owner>>

Live == UNION {ToSet(stacks[t]) : t \in Terms}

Top(t) == IF stacks[t] = <<>> THEN NoPid ELSE Last(stacks[t])

Init ==
  /\ stacks = [t \in Terms |-> IF t = 0 THEN <<0>> ELSE <<>>]
  /\ in_service = 0
  /\ owner = 0

\* The program on top of the served terminal launches p, or the scheduler
\* starts the terminal's root shell p = t on its empty stack.
Launch(p) ==
  LET t == in_service IN
  /\ p \in Procs \ Live
  /\ \/ stacks[t] # <<>> /\ owner = Top(t)
     \/ stacks[t] = <<>> /\ owner = NoPid /\ p = t
  /\ stacks' = [stacks EXCEPT ![t] = Append(@, p)]
  /\ owner' = p
  /\ UNCHANGED in_service

\* The program on top of the served terminal halts; a root shell does not.
Exit ==
  LET t == in_service IN
  /\ Len(stacks[t]) > 1 /\ owner = Top(t)
  /\ stacks' = [stacks EXCEPT ![t] = Front(@)]
  /\ owner' = Last(Front(stacks[t]))
  /\ UNCHANGED in_service

\* The CPU is handed to terminal t and resumes the top of its stack.
Tick(t) ==
  /\ in_service' = t
  /\ owner' = Top(t)
  /\ UNCHANGED stacks

Next == (\E p \in Procs : Launch(p)) \/ Exit \/ \E t \in Terms : Tick(t)

Spec == Init /\ [][Next]_avars /\ WF_avars(\E t \in Terms : Tick(t))

=============================================================================
