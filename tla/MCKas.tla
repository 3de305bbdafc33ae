------------------------------- MODULE MCKas -------------------------------
(* Programs, configurations and budgets for TLC; the cfg files pick.       *)
EXTENDS Kas, TLC

Service == [cmd |-> "run", rest |-> 0, auto |-> TRUE, restart |-> TRUE,
            once |-> FALSE, deps |-> {}, max |-> 0, prio |-> 1]
Changed == [Service EXCEPT !.rest = 1]
OtherCmd == [Service EXCEPT !.cmd = "other"]
SwitchedOff == [Service EXCEPT !.auto = FALSE]
Capped == [Service EXCEPT !.max = 1]
Empty == [Service EXCEPT !.cmd = NoCmd]
Setup == [Service EXCEPT !.cmd = "setup", !.once = TRUE, !.restart = FALSE]
SetupChanged == [Setup EXCEPT !.rest = 1]
Waits == [Service EXCEPT !.deps = {1}, !.prio = 0]

AllConfig == {Service, Changed, OtherCmd, SwitchedOff, Capped, Empty, Setup,
              SetupChanged, Waits}

One(c) == 1 :> c
Two(c, d) == 1 :> c @@ 2 :> d

OneProg == {1}
TwoProg == {1, 2}

\* Requests and a reload meet whatever a file can say of one program.
AskedFiles == {One(Service), One(Changed), One(Absent), One(Empty), BadFile}
PlainFile == {One(Service)}
\* A once program and a service that waits for it, or every way a reload can
\* leave a service.
OnceFiles == {Two(Setup, Waits), Two(SetupChanged, Service), Two(Setup, SwitchedOff),
              Two(Setup, OtherCmd), Two(Setup, Absent)}

Spending(r, i, f, t, b) ==
  [reload |-> r, ipc |-> i, fault |-> f, term |-> t, boot |-> b]
NoFaults == Spending(1, 1, 0, 1, 0)
OneEach == Spending(1, 0, 1, 0, 1)
OneRequest == Spending(0, 1, 1, 0, 0)
============================================================================
