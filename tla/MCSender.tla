------------------------------ MODULE MCSender ------------------------------
(* Small instances of the sender for TLC. *)
EXTENDS Sender, TLC

CONSTANTS r1, r2

(* Requests sent on their own, in any order. *)
Alone == {<<r>> : r \in Requests}

(* Two requests sent at once. *)
Together == {<<r1, r2>>}
=============================================================================
