------------------------------ MODULE MCSched ------------------------------
(* Instances of Sched.  Four processes spread over two CPUs in any way: a   *)
(* table may be empty, full, or have free slots for the search to pass.     *)
EXTENDS Sched

NoProcs == {}
=============================================================================
