----------------------------- MODULE MCZcdRelay -----------------------------
(* Clients and budgets for TLC.                                            *)
EXTENDS ZcdRelay, TLC

CONSTANTS c1, c2, c3, m1, m2

\* A desktop, a remote control, and a third that is either.
Clients == (c1 :> {<<"device", None>>}) @@ (c2 :> {<<"terminal", None>>})
             @@ (c3 :> {<<"device", m2>>, <<"terminal", m1>>})

=============================================================================
