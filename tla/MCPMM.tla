------------------------------- MODULE MCPMM -------------------------------
(* Small instances of PMM: seven pages in words of four, page 0 and page 3 *)
(* reserved, a cache with room for two pages.                              *)
EXTENDS PMM

MCUsable == {1, 2, 4, 5, 6}
MCSizes == {0, 1, 2}
=============================================================================
