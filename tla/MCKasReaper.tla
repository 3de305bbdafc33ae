---------------------------- MODULE MCKasReaper ----------------------------
(* Two managed incarnations and one orphan; see the cfg files for pids.    *)
EXTENDS KasReaper, TLC

CONSTANTS i1, i2, o1
MCIncarnation == {i1, i2}
MCOrphan == {o1}
MCSymmetry == Permutations(MCIncarnation) \cup Permutations(Pid)
============================================================================
