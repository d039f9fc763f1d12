---------------------------- MODULE MCAttention ----------------------------
(* Questions of the session on screen, for model checking Attention.        *)
EXTENDS Attention

CONSTANTS t1
AllSelected == [c \in Asks |-> t1]
One == [c \in Asks |-> 1]
=============================================================================
