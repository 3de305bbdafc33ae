---------------------------- MODULE MCVscTunnel ----------------------------
(***************************************************************************)
(* Budgets and symmetry for the runs of VscTunnel.                         *)
(***************************************************************************)
EXTENDS VscTunnel, TLC

CONSTANTS c1, c2, c3, t1, t2, d1, d2

\* A worker, the same worker again or with another device, and a third that
\* comes back too or brings one of the devices under another token.
Workers == (c1 :> {<<t1, d1>>}) @@ (c2 :> {<<t1, d1>>, <<t1, d2>>})
             @@ (c3 :> {<<t1, d1>>, <<t2, d1>>, <<t2, d2>>})

=============================================================================
