-------------------------- MODULE MCHandleRegistry --------------------------
EXTENDS HandleRegistry

(* The threads of the instance.                                            *)
CONSTANTS t1, t2, t3
=============================================================================
