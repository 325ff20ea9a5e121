------------------------------ MODULE MCSynch ------------------------------
(* Instances of Synch for TLC. *)
EXTENDS Synch

CONSTANTS l1, c1

\* One lock with one condition.
MCCondLock == [c \in Conds |-> l1]
=============================================================================
