--------------------------- MODULE MCConversation ---------------------------
(* Instances of Conversation for TLC.                                       *)
EXTENDS Conversation, TLC

CONSTANTS c1, w1, w2

Symmetry == Permutations(Waits)
=============================================================================
