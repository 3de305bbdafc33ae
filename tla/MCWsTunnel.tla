----------------------------- MODULE MCWsTunnel -----------------------------
(* Bounds for TLC.                                                         *)
EXTENDS WsTunnel

MostlyDown == [d \in Dir |-> IF d = "down" THEN 2 ELSE 1]

=============================================================================
