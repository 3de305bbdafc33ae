----------------------------- MODULE MCZcdStore -----------------------------
(* Budgets for TLC.                                                        *)
EXTENDS ZcdStore

ThreeRequests == [ask |-> 3, fault |-> 1]

=============================================================================
