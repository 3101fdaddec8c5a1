---------------------------- MODULE MCSwCredits ----------------------------
(* SwCredits for TLC: the sizes of the pools.                              *)
EXTENDS SwCredits

Combined2 == [LDB |-> 2, DIR |-> 0]
Combined3 == [LDB |-> 3, DIR |-> 0]
Split11 == [LDB |-> 1, DIR |-> 1]

=============================================================================
