---------------------------- MODULE MCKernelFaults ----------------------------
(* Instantiates KernelFaults for TLC with the constants of MCKernel. *)
EXTENDS MCKernel, KernelFaults

=============================================================================
