---------------------------- MODULE MCDelegate ----------------------------
(* Constants of the TLC instances of Delegate.                               *)
EXTENDS Delegate, TLC

OneTask == [t \in {1} |-> {}]
=============================================================================
