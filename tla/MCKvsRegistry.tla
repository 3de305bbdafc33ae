--------------------------- MODULE MCKvsRegistry ---------------------------
(***************************************************************************)
(* Budgets and symmetry for the runs of KvsRegistry.                       *)
(***************************************************************************)
EXTENDS KvsRegistry, TLC

Generations == [start |-> 2, crash |-> 2, other |-> 1]
TwoHomes == [start |-> 1, crash |-> 0, other |-> 0]

Same == [k \in Kvs |-> Svc]
Apart == CHOOSE c \in [Kvs -> {{s} : s \in Svc}] : \A k, l \in Kvs : k # l => c[k] # c[l]

Symmetry == Permutations(Pid) \cup Permutations(Svc)

=============================================================================
