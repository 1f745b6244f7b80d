------------------------------ MODULE MCNodeAgent ------------------------------
(* Constants for the runs that check NodeAgent. *)
EXTENDS NodeAgent

CONSTANTS small

MCRequest == [spec \in Specs |-> 1]
MCCapacity == [n \in Nodes |-> 2]
=============================================================================
