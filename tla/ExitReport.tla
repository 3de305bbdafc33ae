----------------------------- MODULE ExitReport -----------------------------
(***************************************************************************)
(* What supervise may rely on (tools/kas/main.go:574-621): for every child *)
(* it learns exactly once, and only after the exit, how the child ended;   *)
(* the child's own status, or that it vanished with an unknown one.  A     *)
(* command that could not be started is reported in the same way.          *)
(***************************************************************************)
CONSTANTS Inst, Empty, Vanished, Failed

VARIABLES
  child,   \* "unborn", "running", "exited", or "failed" to start
  report   \* what supervise was told

exitVars == <<child, report>>

Init ==
  /\ child = [i \in Inst |-> "unborn"]
  /\ report = [i \in Inst |-> Empty]

Start(i) ==
  /\ child[i] = "unborn"
  /\ \E s \in {"running", "failed"} : child' = [child EXCEPT ![i] = s]
  /\ UNCHANGED report

Exit(i) ==
  /\ child[i] = "running"
  /\ child' = [child EXCEPT ![i] = "exited"]
  /\ UNCHANGED report

Report(i) ==
  /\ report[i] = Empty
  /\ \E st \in {i, Vanished, Failed} :
       /\ report' = [report EXCEPT ![i] = st]
       /\ child[i] = IF st = Failed THEN "failed" ELSE "exited"
  /\ UNCHANGED child

Next == \E i \in Inst : Start(i) \/ Exit(i) \/ Report(i)

SafeSpec == Init /\ [][Next]_exitVars

Spec == SafeSpec /\ \A i \in Inst : WF_exitVars(Report(i))
=============================================================================
