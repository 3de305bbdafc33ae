----------------------------- MODULE KasReaper -----------------------------
(***************************************************************************)
(* How the exit of a child reaches the goroutine that supervises it        *)
(* (tools/kas/main.go).  kas runs as PID 1, so one goroutine calls         *)
(* Wait4(-1) for every child, managed or reparented, and forwards the      *)
(* status of a managed child over the channel of its runningProc.  spawn   *)
(* enters a child into the table only after the fork, so a child that dies *)
(* at once is reaped as if it were an orphan; supervise then has to find   *)
(* out by probing.                                                         *)
(*                                                                         *)
(* What supervise does once it knows is the subject of module Kas.         *)
(***************************************************************************)
EXTENDS Naturals, FiniteSets

CONSTANTS
  Incarnation, \* runningProc incarnations; each one spawns at most one child
  Orphan,      \* processes reparented to PID 1
  Pid,         \* process ids the kernel hands out
  NoPid,       \* "has no pid yet"
  NoEntry,     \* "no entry" in reapTable
  Empty,       \* nothing in a waitCh, nothing received
  Vanished,    \* the exit=-1 status supervise makes up after a failed probe
  Failed,      \* the exit=127 status of a command that could not be started
  PidFd,       \* TRUE: Process.Signal addresses the process (pidfd), not the number
  Reuse        \* TRUE: the kernel may hand out a number kas still refers to

Proc == Incarnation \cup Orphan
Status == Proc \cup {Vanished, Failed}   \* p stands for "p's own exit status"

ASSUME ReaperAssumption ==
  /\ Incarnation \cap Orphan = {}
  /\ NoPid \notin Pid
  /\ NoEntry \notin Incarnation
  /\ Empty \notin Status
  /\ Vanished \notin Proc /\ Failed \notin Proc /\ Vanished # Failed
  /\ PidFd \in BOOLEAN /\ Reuse \in BOOLEAN

VARIABLES
  proc,       \* kernel view: "unborn", "live", "zombie", "gone"
  pid,        \* the number a process got when it was forked
  reapTable,  \* kas.reapTable: which incarnation waits for a pid
  reaper,     \* control point and locals of the reaper goroutine
  waitCh,     \* runningProc.waitCh, a channel with a buffer of one
  spawn,      \* control point of the spawn call of an incarnation
  sup,        \* control point of the supervise goroutine
  got         \* the status supervise left its select loop with

reaperVars == <<proc, pid, reapTable, reaper, waitCh, spawn, sup, got>>

SpawnPC == {"idle", "forked", "registered", "noProcess", "done"}
SupPC == {"none", "select", "vanished", "got"}
ReaperState ==
  [at : {"wait4"}] \cup [at : {"lookup"}, pid : Pid, of : Proc]
                   \cup [at : {"send"}, to : Incarnation, of : Proc]

ReaperTypeOK ==
  /\ proc \in [Proc -> {"unborn", "live", "zombie", "gone"}]
  /\ pid \in [Proc -> Pid \cup {NoPid}]
  /\ reapTable \in [Pid -> Incarnation \cup {NoEntry}]
  /\ reaper \in ReaperState
  /\ waitCh \in [Incarnation -> Status \cup {Empty}]
  /\ spawn \in [Incarnation -> SpawnPC]
  /\ sup \in [Incarnation -> SupPC]
  /\ got \in [Incarnation -> Status \cup {Empty}]

ReaperInit ==
  /\ proc = [p \in Proc |-> "unborn"]
  /\ pid = [p \in Proc |-> NoPid]
  /\ reapTable = [n \in Pid |-> NoEntry]
  /\ reaper = [at |-> "wait4"]
  /\ waitCh = [i \in Incarnation |-> Empty]
  /\ spawn = [i \in Incarnation |-> "idle"]
  /\ sup = [i \in Incarnation |-> "none"]
  /\ got = [i \in Incarnation |-> Empty]

----------------------------------------------------------------------------
(* The kernel: fork, exit, and the reuse of numbers.                       *)

Present(p) == proc[p] \in {"live", "zombie"}

InUse(n) == \E p \in Proc : Present(p) /\ pid[p] = n

\* A number is free once its process was reaped.  Unless Reuse, the kernel
\* additionally never comes back to a number: it hands them out cyclically, so
\* that takes a whole round of pid_max forks.
Available(n) == IF Reuse THEN ~InUse(n) ELSE \A p \in Proc : pid[p] # n

Fork(p, n) ==
  /\ proc[p] = "unborn"
  /\ Available(n)
  /\ proc' = [proc EXCEPT ![p] = "live"]
  /\ pid' = [pid EXCEPT ![p] = n]

\* A grandchild whose parent died is reparented to kas.
Reparent(o) ==
  /\ \E n \in Pid : Fork(o, n)
  /\ UNCHANGED <<reapTable, reaper, waitCh, spawn, sup, got>>

Exit(p) ==
  /\ proc[p] = "live"
  /\ proc' = [proc EXCEPT ![p] = "zombie"]
  /\ UNCHANGED <<pid, reapTable, reaper, waitCh, spawn, sup, got>>

----------------------------------------------------------------------------
(* spawn: fork, register with the reaper, start supervise.                 *)

ForkChild(i) ==
  /\ spawn[i] = "idle"
  /\ \E n \in Pid : Fork(i, n)
  /\ spawn' = [spawn EXCEPT ![i] = "forked"]
  /\ UNCHANGED <<reapTable, reaper, waitCh, sup, got>>

\* cmd.Start failed: supervise is started first and told afterwards.
ForkFails(i) ==
  /\ spawn[i] = "idle"
  /\ spawn' = [spawn EXCEPT ![i] = "noProcess"]
  /\ sup' = [sup EXCEPT ![i] = "select"]
  /\ UNCHANGED <<proc, pid, reapTable, reaper, waitCh, got>>

SendFailed(i) ==
  /\ spawn[i] = "noProcess"
  /\ waitCh[i] = Empty
  /\ waitCh' = [waitCh EXCEPT ![i] = Failed]
  /\ spawn' = [spawn EXCEPT ![i] = "done"]
  /\ UNCHANGED <<proc, pid, reapTable, reaper, sup, got>>

ReaperRegister(i) ==
  /\ spawn[i] = "forked"
  /\ reapTable' = [reapTable EXCEPT ![pid[i]] = i]
  /\ spawn' = [spawn EXCEPT ![i] = "registered"]
  /\ UNCHANGED <<proc, pid, reaper, waitCh, sup, got>>

StartSupervise(i) ==
  /\ spawn[i] = "registered"
  /\ spawn' = [spawn EXCEPT ![i] = "done"]
  /\ sup' = [sup EXCEPT ![i] = "select"]
  /\ UNCHANGED <<proc, pid, reapTable, reaper, waitCh, got>>

----------------------------------------------------------------------------
(* reaper: the loop around Wait4(-1).                                      *)

\* Wait4 frees the number before the reaper looks it up.
Wait4(p) ==
  /\ reaper.at = "wait4"
  /\ proc[p] = "zombie"
  /\ proc' = [proc EXCEPT ![p] = "gone"]
  /\ reaper' = [at |-> "lookup", pid |-> pid[p], of |-> p]
  /\ UNCHANGED <<pid, reapTable, waitCh, spawn, sup, got>>

\* The critical section under reapMu: look the pid up and delete the entry.
Lookup ==
  /\ reaper.at = "lookup"
  /\ LET i == reapTable[reaper.pid] IN
       reaper' = IF i = NoEntry
                 THEN [at |-> "wait4"]
                 ELSE [at |-> "send", to |-> i, of |-> reaper.of]
  /\ reapTable' = [reapTable EXCEPT ![reaper.pid] = NoEntry]
  /\ UNCHANGED <<proc, pid, waitCh, spawn, sup, got>>

\* Mutant of Send: without a buffer somebody has to be receiving.
SendUnbuffered ==
  /\ reaper.at = "send"
  /\ sup[reaper.to] = "select" /\ waitCh[reaper.to] = Empty
  /\ waitCh' = [waitCh EXCEPT ![reaper.to] = reaper.of]
  /\ reaper' = [at |-> "wait4"]
  /\ UNCHANGED <<proc, pid, reapTable, spawn, sup, got>>

\* rp.waitCh <- st blocks while the buffer is full.
Send ==
  /\ reaper.at = "send"
  /\ waitCh[reaper.to] = Empty
  /\ waitCh' = [waitCh EXCEPT ![reaper.to] = reaper.of]
  /\ reaper' = [at |-> "wait4"]
  /\ UNCHANGED <<proc, pid, reapTable, spawn, sup, got>>

----------------------------------------------------------------------------
(* supervise: the select loop that ends with an exit status.               *)

Receive(i) ==
  /\ sup[i] = "select"
  /\ waitCh[i] # Empty
  /\ got' = [got EXCEPT ![i] = waitCh[i]]
  /\ waitCh' = [waitCh EXCEPT ![i] = Empty]
  /\ sup' = [sup EXCEPT ![i] = "got"]
  /\ UNCHANGED <<proc, pid, reapTable, reaper, spawn>>

\* Mutant of ProbeFails: the probe is left out.
ProbeNeverFails(i) == FALSE

\* Signal 0 succeeds on a zombie; it fails once the process was reaped, or,
\* without a pidfd, once nothing answers to the number.
ProbeFails(i) == IF PidFd THEN proc[i] = "gone" ELSE ~InUse(pid[i])

\* The 2s timer of the select loop.  A successful probe changes nothing.
ProbeVanished(i) ==
  /\ sup[i] = "select"
  /\ proc[i] # "unborn"
  /\ ProbeFails(i)
  /\ sup' = [sup EXCEPT ![i] = "vanished"]
  /\ UNCHANGED <<proc, pid, reapTable, reaper, waitCh, spawn, got>>

ProbeNoProcess(i) ==
  /\ sup[i] = "select"
  /\ proc[i] = "unborn"
  /\ got' = [got EXCEPT ![i] = Failed]
  /\ sup' = [sup EXCEPT ![i] = "got"]
  /\ UNCHANGED <<proc, pid, reapTable, reaper, waitCh, spawn>>

\* Mutant of ReaperUnregister: the entry stays.
UnregisterForgotten(i) ==
  /\ sup[i] = "vanished"
  /\ got' = [got EXCEPT ![i] = Vanished]
  /\ sup' = [sup EXCEPT ![i] = "got"]
  /\ UNCHANGED <<proc, pid, reapTable, reaper, waitCh, spawn>>

\* reaperUnregister deletes whatever entry the pid has by now.
ReaperUnregister(i) ==
  /\ sup[i] = "vanished"
  /\ reapTable' = [reapTable EXCEPT ![pid[i]] = NoEntry]
  /\ got' = [got EXCEPT ![i] = Vanished]
  /\ sup' = [sup EXCEPT ![i] = "got"]
  /\ UNCHANGED <<proc, pid, reaper, waitCh, spawn>>

----------------------------------------------------------------------------
SpawnSteps(i) ==
  \/ ForkChild(i) \/ ForkFails(i) \/ SendFailed(i)
  \/ ReaperRegister(i) \/ StartSupervise(i)

SuperviseSteps(i) ==
  \/ Receive(i) \/ ProbeVanished(i) \/ ProbeNoProcess(i) \/ ReaperUnregister(i)

Reaper == (\E p \in Proc : Wait4(p)) \/ Lookup \/ Send

ReaperNext ==
  \/ \E i \in Incarnation : SpawnSteps(i) \/ SuperviseSteps(i)
  \/ \E o \in Orphan : Reparent(o)
  \/ \E p \in Proc : Exit(p)
  \/ Reaper

ReaperSpec == ReaperInit /\ [][ReaperNext]_reaperVars

\* The goroutines are scheduled and the 2s timer fires; nothing obliges a
\* process to be started, to be reparented or to exit.
ReaperFairness ==
  /\ WF_reaperVars(Reaper)
  /\ \A i \in Incarnation :
       /\ WF_reaperVars(SendFailed(i) \/ ReaperRegister(i) \/ StartSupervise(i))
       /\ WF_reaperVars(SuperviseSteps(i))

FairReaperSpec == ReaperSpec /\ ReaperFairness

----------------------------------------------------------------------------
(* Properties.                                                             *)

\* The single reaper is never stuck on the channel of an incarnation, whatever
\* pids the kernel reuses: a status is sent at most once per incarnation, so
\* the buffer of one suffices and zombies keep being collected
\* (main.go:213, "Blocking send: waitCh has buffer 1").
ReaperNeverBlocks == reaper.at = "send" => waitCh[reaper.to] = Empty

\* Once supervise knows about the exit no table entry keeps naming it, so the
\* table cannot grow with dead incarnations (main.go:174, reaperUnregister).
NoStaleEntry ==
  \A i \in Incarnation, n \in Pid : sup[i] = "got" => reapTable[n] # i

\* What supervise is told, seen as the abstract ExitReport.
Child ==
  [i \in Incarnation |->
    CASE proc[i] = "unborn" -> IF spawn[i] = "idle" THEN "unborn" ELSE "failed"
      [] proc[i] = "live" -> "running"
      [] OTHER -> "exited"]

Abstract == INSTANCE ExitReport WITH Inst <- Incarnation, child <- Child, report <- got

\* Every exit is reported once, after it happened, with the child's own status
\* or "vanished", although the child may be reaped before it is registered
\* (main.go:578-603).
ImplementsExitReport == Abstract!Spec

\* PID 1 leaves no zombie behind, managed or not (main.go:183-188).
NoZombieStays == \A p \in Proc : proc[p] = "zombie" ~> proc[p] = "gone"

============================================================================
