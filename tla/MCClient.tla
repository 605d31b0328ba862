------------------------------ MODULE MCClient ------------------------------
(* Instances of Client for TLC: one data center whose senders two tasks     *)
(* borrow; and the life of the position, with nobody who borrows.           *)
EXTENDS Client, TLC

CONSTANTS dc1, t1, t2, s1, s2
=============================================================================
