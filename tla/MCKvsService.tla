---------------------------- MODULE MCKvsService ----------------------------
(* Configurations and budgets for TLC; the cfg files pick.                 *)
EXTENDS KvsService, TLC

Cfg(v, e) == [ver |-> v, initError |-> e, command |-> TRUE, once |-> TRUE]

\* A restart may find that the version cannot be resolved.
OneVersion == {Cfg(1, FALSE), Cfg(1, TRUE)}
Plain == {Cfg(1, FALSE)}

OneRestart == [op |-> 1, fault |-> 1]
TwoRestarts == [op |-> 2, fault |-> 0]
=============================================================================
