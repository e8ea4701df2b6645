------------------------------- MODULE MCVMM -------------------------------
(* Instances of VMM.  Addresses are pages: contexts start at page 1, the   *)
(* ELF segment lies at 20, device memory at 50.                            *)
EXTENDS VMM
=============================================================================
