------------------------------ MODULE KasProofs ------------------------------
(***************************************************************************)
(* Theorems about Kas, for every set of programs, configurations and       *)
(* incarnations and every budget of events, and about KasReaper, for every *)
(* set of incarnations, orphans and pids.  Liveness is left to TLC.        *)
(***************************************************************************)
EXTENDS Kas, KasReaper, TLAPS

----------------------------------------------------------------------------
(* Kas: starting, supervising and stopping programs.                       *)

\* The control points at which supervise has not closed done yet.
Early == {"new", "forked", "stuck", "watch", "stopSeen", "crashSeen"}

\* What an incarnation's control point says about its child and its done.
PhaseInv ==
  \A i \in Inst :
    /\ rp[i].at = "free" => rp[i] = FreeRp
    /\ rp[i].at # "free" => rp[i].prog \in Prog
    /\ rp[i].os \in {"run", "term"} => rp[i].at \in {"forked", "watch"}
    /\ (rp[i].at \in Early /\ rp[i].done) => i \in lost
    /\ (rp[i].at \notin Early /\ rp[i].at # "free") => rp[i].done

\* An incarnation whose done is open owns the entry of its program.
OwnerInv == \A i \in Inst : Open(i) => procs[rp[i].prog] = i \/ i \in lost

\* The entry of a program names an incarnation of that program.
NameInv ==
  \A p \in Prog : procs[p] # NoInst =>
    rp[procs[p]].at # "free" /\ rp[procs[p]].prog = p

\* A stop works on an incarnation that was started.
StopInv ==
  \A c \in Caller, p \in Prog :
    stopper[c][p].rp # NoInst => rp[stopper[c][p].rp].at # "free"

Safe == PhaseInv /\ OwnerInv /\ NameInv /\ StopInv /\ PanicNeedsEarlyClose

IInv == TypeOK /\ Safe

\* Next as one disjunction of the actions the proofs go through.
LEMMA Steps ==
  ASSUME Next
  PROVE \/ \E i \in Inst :
             \/ CmdStart(i) \/ CmdStartFails(i) \/ EmptyCommand(i) \/ GoSupervise(i)
             \/ ChildExits(i) \/ ChildDies(i) \/ Notice(i) \/ CloseDone(i)
             \/ RecordRan(i) \/ markRanOnce(i) \/ SignalDeps(i) \/ Decide(i)
             \/ GiveUp(i) \/ Retry(i)
        \/ \E c \in Caller, p \in Prog :
             \/ StopLookup(c, p) \/ StopMark(c, p) \/ Signal(c, p)
             \/ NothingToSignal(c, p) \/ CloseForWaiters(c, p) \/ StopReturns(c, p)
        \/ InitialLoad \/ ReceiveHup \/ ReceiveDep \/ StartStopJobs \/ DeleteRemoved
        \/ Choose \/ ReconcileEnds \/ MainStart \/ MainSpawned
        \/ \E f \in File : Reload(f)
        \/ \E p \in Prog : handleStart(p) \/ handleStop(p) \/ handleRestart(p)
        \/ IpcStopped \/ IpcStart \/ IpcSpawned \/ Shutdown \/ ExitKas \/ Reboot
  BY DEF Next, Goroutines, Children, Requests, Main, Ipc, Spawn, Supervise, Stop

\* The updates of one runningProc stay within its type.
LEMMA RpUpdate ==
  ASSUME NEW r \in RunningProc, NEW a \in InstPC
  PROVE /\ \A o \in {"none", "run", "term", "dead"} :
             [r EXCEPT !.at = a, !.os = o] \in RunningProc
        /\ [r EXCEPT !.done = TRUE, !.at = a] \in RunningProc
        /\ [r EXCEPT !.done = TRUE] \in RunningProc
        /\ [r EXCEPT !.stopped = TRUE] \in RunningProc
        /\ [r EXCEPT !.os = "term"] \in RunningProc
  BY DEF RunningProc

\* One incarnation at another control point, and one whose child has exited.
LEMMA RpMoves ==
  ASSUME NEW i \in Inst, rp \in [Inst -> RunningProc]
  PROVE /\ \A a \in InstPC : [rp EXCEPT ![i].at = a] \in [Inst -> RunningProc]
        /\ [rp EXCEPT ![i].os = "dead"] \in [Inst -> RunningProc]
<1>1. rp[i] \in RunningProc
  OBVIOUS
<1>2. \A a \in InstPC : [rp[i] EXCEPT !.at = a] \in RunningProc
  BY <1>1 DEF RunningProc
<1>3. [rp[i] EXCEPT !.os = "dead"] \in RunningProc
  BY <1>1 DEF RunningProc
<1> QED
  BY <1>2, <1>3

\* What start and the retry put into procs is a runningProc.
LEMMA FreshType ==
  ASSUME NEW p \in Prog, NEW c \in Config \cup {Absent}, NEW n \in Nat
  PROVE Fresh(p, c, n) \in RunningProc
  BY DEF Fresh, FreeRp, RunningProc, InstPC

\* The inductive invariant holds when kas comes up.
LEMMA InitIInv == Init => IInv
<1> SUFFICES ASSUME Init PROVE IInv
  OBVIOUS
<1>1. FreeRp \in RunningProc
  BY DEF FreeRp, RunningProc, InstPC
<1>2. /\ rp \in [Inst -> RunningProc] /\ stopper \in [Caller -> [Prog -> StopState]]
  BY <1>1 DEF Init, NoStops, Off, StopState
<1>3. main \in MainState /\ ipc \in IpcState
  BY DEF Init, IdleMain, MainState, IdleIpc, IpcState
<1>4. TypeOK
  BY <1>2, <1>3, KasAssumption DEF Init, TypeOK, ProgMap
<1>5. Safe
  BY KasAssumption DEF Init, Safe, PhaseInv, OwnerInv, NameInv, StopInv, Open, Early,
    PanicNeedsEarlyClose, FreeRp, NoStops, Off
<1> QED
  BY <1>4, <1>5 DEF IInv

\* Every step keeps the types; PhaseInv gives the program of a started one.
LEMMA TypeStep ==
  ASSUME TypeOK, PhaseInv, [Next]_vars
  PROVE TypeOK'
<1>0. /\ rp \in [Inst -> RunningProc] /\ main \in MainState /\ ipc \in IpcState
      /\ stopper \in [Caller -> [Prog -> StopState]]
      /\ procs \in [Prog -> Inst \cup {NoInst}] /\ progs \in ProgMap
      /\ file \in ProgMap \cup {BadFile} /\ marker \subseteq Prog
      /\ budget \in [Events -> Nat]
  BY KasAssumption DEF TypeOK
<1>1. ASSUME NEW i \in Inst, CmdStart(i) PROVE TypeOK'
  <2>1. [rp[i] EXCEPT !.at = "forked", !.os = "run"] \in RunningProc
    BY <1>0, RpUpdate DEF InstPC
  <2>2. rp' \in [Inst -> RunningProc]
    BY <1>1, <1>0, <2>1 DEF CmdStart
  <2> QED
    BY <1>1, <1>0, <2>2 DEF CmdStart, TypeOK, chans
<1>2. ASSUME NEW i \in Inst, CmdStartFails(i) PROVE TypeOK'
  <2>1. rp' \in [Inst -> RunningProc]
    BY <1>2, <1>0, RpMoves DEF CmdStartFails, InstPC
  <2>2. budget' \in [Events -> Nat]
    BY <1>2, <1>0 DEF CmdStartFails, Spend, Events
  <2> QED
    BY <1>2, <1>0, <2>1, <2>2 DEF CmdStartFails, TypeOK, chans
<1>3. ASSUME NEW i \in Inst, EmptyCommand(i) PROVE TypeOK'
  <2>1. rp' \in [Inst -> RunningProc]
    BY <1>3, <1>0, RpMoves DEF EmptyCommand, InstPC
  <2> QED
    BY <1>3, <1>0, <2>1 DEF EmptyCommand, TypeOK, chans
<1>4. ASSUME NEW i \in Inst, GoSupervise(i) PROVE TypeOK'
  <2>1. rp' \in [Inst -> RunningProc]
    BY <1>4, <1>0, RpMoves DEF GoSupervise, InstPC
  <2> QED
    BY <1>4, <1>0, <2>1 DEF GoSupervise, TypeOK, chans
<1>5. ASSUME NEW i \in Inst, ChildExits(i) PROVE TypeOK'
  <2>1. rp' \in [Inst -> RunningProc]
    BY <1>5, <1>0, RpMoves DEF ChildExits
  <2>2. budget' \in [Events -> Nat]
    BY <1>5, <1>0 DEF ChildExits, Spend, Events
  <2> QED
    BY <1>5, <1>0, <2>1, <2>2 DEF ChildExits, TypeOK, chans
<1>6. ASSUME NEW i \in Inst, ChildDies(i) PROVE TypeOK'
  <2>1. rp' \in [Inst -> RunningProc]
    BY <1>6, <1>0, RpMoves DEF ChildDies
  <2> QED
    BY <1>6, <1>0, <2>1 DEF ChildDies, TypeOK, chans
<1>7. ASSUME NEW i \in Inst, Notice(i) PROVE TypeOK'
  <2>1. rp' \in [Inst -> RunningProc]
    BY <1>7, <1>0, RpMoves DEF Notice, InstPC
  <2> QED
    BY <1>7, <1>0, <2>1 DEF Notice, TypeOK, chans
<1>8. ASSUME NEW i \in Inst, CloseDone(i) PROVE TypeOK'
  <2> DEFINE a == IF rp[i].at = "stopSeen" THEN "end"
                 ELSE IF rp[i].cfg.once THEN "closed" ELSE "check"
  <2>1. a \in InstPC
    BY DEF InstPC
  <2> HIDE DEF a
  <2>2. [rp[i] EXCEPT !.done = TRUE, !.at = a] \in RunningProc
    BY <1>0, <2>1, RpUpdate
  <2>3. rp' = [rp EXCEPT ![i] = [rp[i] EXCEPT !.done = TRUE, !.at = a]]
    BY <1>8, <1>0 DEF CloseDone, a
  <2>4. rp' \in [Inst -> RunningProc]
    BY <1>0, <2>2, <2>3
  <2>5. panicked' \in BOOLEAN
    BY <1>8, <1>0 DEF CloseDone, RunningProc
  <2> QED
    BY <1>8, <1>0, <2>4, <2>5 DEF CloseDone, TypeOK, chans
<1>9. ASSUME NEW i \in Inst, RecordRan(i) PROVE TypeOK'
  <2>1. rp' \in [Inst -> RunningProc]
    BY <1>9, <1>0, RpMoves DEF RecordRan, InstPC
  <2>2. rp[i].prog \in Prog
    BY <1>9 DEF RecordRan, PhaseInv
  <2> QED
    BY <1>9, <1>0, <2>1, <2>2 DEF RecordRan, TypeOK, chans
<1>10. ASSUME NEW i \in Inst, markRanOnce(i) PROVE TypeOK'
  <2>1. rp' \in [Inst -> RunningProc]
    BY <1>10, <1>0, RpMoves DEF markRanOnce, InstPC
  <2>2. rp[i].prog \in Prog
    BY <1>10 DEF markRanOnce, PhaseInv
  <2> QED
    BY <1>10, <1>0, <2>1, <2>2 DEF markRanOnce, TypeOK, chans
<1>11. ASSUME NEW i \in Inst, SignalDeps(i) PROVE TypeOK'
  <2>1. rp' \in [Inst -> RunningProc]
    BY <1>11, <1>0, RpMoves DEF SignalDeps, InstPC
  <2> QED
    BY <1>11, <1>0, <2>1 DEF SignalDeps, TypeOK, chans
<1>12. ASSUME NEW i \in Inst, Decide(i) PROVE TypeOK'
  <2>1. rp' \in [Inst -> RunningProc]
    BY <1>12, <1>0, RpMoves DEF Decide, InstPC
  <2> QED
    BY <1>12, <1>0, <2>1 DEF Decide, TypeOK, chans
<1>13. ASSUME NEW i \in Inst, GiveUp(i) PROVE TypeOK'
  <2>1. rp' \in [Inst -> RunningProc]
    BY <1>13, <1>0, RpMoves DEF GiveUp, InstPC
  <2> QED
    BY <1>13, <1>0, <2>1 DEF GiveUp, TypeOK, chans
<1>14. ASSUME NEW i \in Inst, Retry(i) PROVE TypeOK'
  <2>1. PICK j \in Inst :
          /\ procs' = [procs EXCEPT ![rp[i].prog] = j]
          /\ rp' = [rp EXCEPT ![i].at = "end",
                              ![j] = Fresh(rp[i].prog, rp[i].cfg, rp[i].tries + 1)]
    BY <1>14 DEF Retry
  <2>2. rp[i].prog \in Prog
    BY <1>14 DEF Retry, PhaseInv
  <2>3. rp[i].cfg \in Config \cup {Absent} /\ rp[i].tries + 1 \in Nat
    BY <1>0 DEF RunningProc
  <2>4. Fresh(rp[i].prog, rp[i].cfg, rp[i].tries + 1) \in RunningProc
    BY <2>2, <2>3, FreshType
  <2>5. [rp EXCEPT ![i].at = "end"] \in [Inst -> RunningProc]
    BY <1>0 DEF RunningProc, InstPC
  <2>6. rp' \in [Inst -> RunningProc]
    BY <2>1, <2>4, <2>5
  <2>7. procs' \in [Prog -> Inst \cup {NoInst}]
    BY <1>0, <2>1
  <2> QED
    BY <1>14, <1>0, <2>6, <2>7 DEF Retry, TypeOK, chans
<1>15. ASSUME NEW c \in Caller, NEW p \in Prog, StopLookup(c, p) PROVE TypeOK'
  <2>1. stopper' \in [Caller -> [Prog -> StopState]]
    BY <1>15, <1>0 DEF StopLookup, StopState, Off, Call, NoStops
  <2> QED
    BY <1>15, <1>0, <2>1 DEF StopLookup, TypeOK, chans
<1>16. ASSUME NEW c \in Caller, NEW p \in Prog, StopMark(c, p) PROVE TypeOK'
  <2>1. stopper[c][p] \in StopState /\ stopper[c][p].rp \in Inst
    BY <1>16, <1>0 DEF StopMark, StopState
  <2>2. rp' \in [Inst -> RunningProc]
    BY <1>16, <1>0, <2>1, RpUpdate DEF StopMark, InstPC
  <2>3. stopper' \in [Caller -> [Prog -> StopState]]
    BY <1>16, <1>0, <2>1 DEF StopMark, StopState, Off
  <2> QED
    BY <1>16, <1>0, <2>1, <2>2, <2>3 DEF StopMark, TypeOK, chans
<1>17. ASSUME NEW c \in Caller, NEW p \in Prog, Signal(c, p) PROVE TypeOK'
  <2>1. stopper[c][p] \in StopState /\ stopper[c][p].rp \in Inst
    BY <1>17, <1>0 DEF Signal, StopState
  <2>2. rp' \in [Inst -> RunningProc]
    <3> DEFINE i == stopper[c][p].rp
    <3> DEFINE o == IF rp[i].os = "run" THEN "term" ELSE rp[i].os
    <3>1. rp' = [rp EXCEPT ![i].os = o]
      BY <1>17 DEF Signal
    <3>2. i \in Inst /\ rp[i] \in RunningProc
      BY <1>0, <2>1
    <3>3. o \in {"none", "run", "term", "dead"}
      BY <3>2 DEF RunningProc
    <3> HIDE DEF i, o
    <3> QED
      BY <1>0, <3>1, <3>2, <3>3 DEF RunningProc
  <2>3. stopper' \in [Caller -> [Prog -> StopState]]
    BY <1>17, <1>0, <2>1 DEF Signal, StopState, Off
  <2> QED
    BY <1>17, <1>0, <2>1, <2>2, <2>3 DEF Signal, TypeOK, chans
<1>18. ASSUME NEW c \in Caller, NEW p \in Prog, NothingToSignal(c, p)
       PROVE TypeOK'
  <2>1. stopper' \in [Caller -> [Prog -> StopState]]
    BY <1>18, <1>0 DEF NothingToSignal, StopState, Off, Call, NoStops
  <2> QED
    BY <1>18, <1>0, <2>1 DEF NothingToSignal, TypeOK, chans
<1>19. ASSUME NEW c \in Caller, NEW p \in Prog, CloseForWaiters(c, p)
       PROVE TypeOK'
  <2>1. stopper[c][p] \in StopState /\ stopper[c][p].rp \in Inst
    BY <1>19, <1>0 DEF CloseForWaiters, StopState
  <2>2. rp' \in [Inst -> RunningProc]
    BY <1>19, <1>0, <2>1, RpUpdate DEF CloseForWaiters, InstPC
  <2>3. stopper' \in [Caller -> [Prog -> StopState]]
    BY <1>19, <1>0, <2>1 DEF CloseForWaiters, StopState, Off
  <2>4. panicked' \in BOOLEAN
    BY <1>19, <1>0, <2>1 DEF CloseForWaiters, Done, RunningProc
  <2> QED
    BY <1>19, <1>0, <2>1, <2>2, <2>3, <2>4 DEF CloseForWaiters, TypeOK, chans
<1>20. ASSUME NEW c \in Caller, NEW p \in Prog, StopReturns(c, p) PROVE TypeOK'
  <2>1. stopper' \in [Caller -> [Prog -> StopState]]
    BY <1>20, <1>0 DEF StopReturns, StopState, Off, Call, NoStops
  <2> QED
    BY <1>20, <1>0, <2>1 DEF StopReturns, TypeOK, chans
<1>21. ASSUME InitialLoad PROVE TypeOK'
  <2>1. progs' \in ProgMap
    BY <1>21, <1>0 DEF InitialLoad, Load, ProgMap
  <2>2. main' \in MainState
    <3>1. CASE file = BadFile
      BY <1>21, <3>1 DEF InitialLoad, Load, IdleMain, MainState
    <3>2. CASE file # BadFile
      <4> DEFINE J == {p \in Prog : /\ progs[p] # Absent
                                    /\ file[p] = Absent \/ configChanged(progs[p], file[p])}
      <4>1. main' = [IdleMain EXCEPT !.at = "jobs", !.jobs = J]
        BY <1>21, <3>2 DEF InitialLoad, Load
      <4>2. J \in SUBSET Prog
        OBVIOUS
      <4> HIDE DEF J
      <4> QED
        BY <4>1, <4>2 DEF IdleMain, MainState
    <3> QED
      BY <3>1, <3>2
  <2> QED
    BY <1>21, <1>0, <2>1, <2>2 DEF InitialLoad, TypeOK, chans
<1>22. ASSUME ReceiveHup PROVE TypeOK'
  <2>1. progs' \in ProgMap
    BY <1>22, <1>0 DEF ReceiveHup, Load, ProgMap
  <2>2. main' \in MainState
    <3>1. CASE file = BadFile
      BY <1>22, <3>1 DEF ReceiveHup, Load, IdleMain, MainState
    <3>2. CASE file # BadFile
      <4> DEFINE J == {p \in Prog : /\ progs[p] # Absent
                                    /\ file[p] = Absent \/ configChanged(progs[p], file[p])}
      <4>1. main' = [IdleMain EXCEPT !.at = "jobs", !.jobs = J]
        BY <1>22, <3>2 DEF ReceiveHup, Load
      <4>2. J \in SUBSET Prog
        OBVIOUS
      <4> HIDE DEF J
      <4> QED
        BY <4>1, <4>2 DEF IdleMain, MainState
    <3> QED
      BY <3>1, <3>2
  <2> QED
    BY <1>22, <1>0, <2>1, <2>2 DEF ReceiveHup, TypeOK, chans
<1>23. ASSUME ReceiveDep PROVE TypeOK'
  <2>1. main' \in MainState
    BY <1>23, <1>0 DEF ReceiveDep, MainState, IdleMain
  <2> QED
    BY <1>23, <1>0, <2>1 DEF ReceiveDep, TypeOK, chans
<1>24. ASSUME StartStopJobs PROVE TypeOK'
  <2>1. main' \in MainState
    BY <1>24, <1>0 DEF StartStopJobs, MainState, IdleMain
  <2>2. stopper' \in [Caller -> [Prog -> StopState]]
    BY <1>24, <1>0 DEF StartStopJobs, StopState, Off, Call, NoStops, Caller
  <2> QED
    BY <1>24, <1>0, <2>1, <2>2 DEF StartStopJobs, TypeOK, chans
<1>25. ASSUME DeleteRemoved PROVE TypeOK'
  <2>1. procs' \in [Prog -> Inst \cup {NoInst}]
    BY <1>25, <1>0 DEF DeleteRemoved
  <2>2. main' \in MainState
    <3>1. {p \in Prog : progs[p] # Absent} \in SUBSET Prog
      OBVIOUS
    <3> QED
      BY <1>25, <3>1 DEF DeleteRemoved, MainState, IdleMain
  <2> QED
    BY <1>25, <1>0, <2>1, <2>2 DEF DeleteRemoved, TypeOK, chans
<1>26. ASSUME Choose PROVE TypeOK'
  <2>1. PICK p \in main.todo :
          main' = [main EXCEPT !.todo = @ \ {p},
                              !.at = IF ShouldStart(p) THEN "start" ELSE "choose",
                              !.prog = IF ShouldStart(p) THEN p ELSE Absent]
    BY <1>26 DEF Choose
  <2>2. main.at = "choose" /\ main.todo \subseteq Prog
    BY <1>26, <1>0 DEF Choose, MainState
  <2>3. main' \in MainState
    <3>1. CASE ShouldStart(p)
      BY <1>0, <2>1, <2>2, <3>1 DEF MainState
    <3>2. CASE ~ShouldStart(p)
      BY <1>0, <2>1, <2>2, <3>2 DEF MainState
    <3> QED
      BY <3>1, <3>2
  <2> QED
    BY <1>26, <1>0, <2>3 DEF Choose, TypeOK, chans
<1>27. ASSUME ReconcileEnds PROVE TypeOK'
  <2>1. main' \in MainState
    BY <1>27, <1>0 DEF ReconcileEnds, MainState, IdleMain
  <2> QED
    BY <1>27, <1>0, <2>1 DEF ReconcileEnds, TypeOK, chans
<1>28. ASSUME MainStart PROVE TypeOK'
  <2>1. main.prog \in Prog /\ progs[main.prog] \in Config \cup {Absent}
    BY <1>28, <1>0 DEF MainStart, MainState, ProgMap
  <2>2. CASE AlreadyRunning(main.prog)
             /\ main' = [main EXCEPT !.at = "choose", !.prog = Absent]
    <3>1. main' \in MainState
      BY <1>28, <1>0, <2>2 DEF MainStart, MainState
    <3> QED
      BY <1>28, <1>0, <2>2, <3>1 DEF MainStart, AlreadyRunning, TypeOK, chans
  <2>3. ASSUME NEW j \in Inst, StartFresh(j, main.prog, progs[main.prog]),
               main' = [main EXCEPT !.at = "spawn", !.prog = Absent, !.rp = j]
        PROVE TypeOK'
    <3>1. main' \in MainState
      BY <1>28, <1>0, <2>3 DEF MainStart, MainState
    <3>2. Fresh(main.prog, progs[main.prog], 0) \in RunningProc
      BY <2>1, FreshType
    <3>3. /\ rp' \in [Inst -> RunningProc]
          /\ procs' \in [Prog -> Inst \cup {NoInst}]
      BY <1>0, <2>1, <2>3, <3>2 DEF StartFresh
    <3> QED
      BY <1>28, <1>0, <3>1, <3>3 DEF MainStart, TypeOK, chans
  <2> QED
    BY <1>28, <2>2, <2>3 DEF MainStart
<1>29. ASSUME MainSpawned PROVE TypeOK'
  <2>1. main' \in MainState
    BY <1>29, <1>0 DEF MainSpawned, MainState, IdleMain
  <2> QED
    BY <1>29, <1>0, <2>1 DEF MainSpawned, TypeOK, chans
<1>30. ASSUME NEW f \in File, Reload(f) PROVE TypeOK'
  <2>1. budget' \in [Events -> Nat]
    BY <1>30, <1>0 DEF Reload, Spend, Events
  <2>2. f \in ProgMap \cup {BadFile}
    BY KasAssumption
  <2> QED
    BY <1>30, <1>0, <2>1, <2>2 DEF Reload, TypeOK, chans
<1>31. ASSUME NEW p \in Prog, handleStart(p) PROVE TypeOK'
  <2>1. ipc' \in IpcState
    BY <1>31, <1>0 DEF handleStart, IpcState, IdleIpc, ProgMap
  <2>2. budget' \in [Events -> Nat]
    BY <1>31, <1>0 DEF handleStart, Spend, Events
  <2> QED
    BY <1>31, <1>0, <2>1, <2>2 DEF handleStart, TypeOK, chans
<1>32. ASSUME NEW p \in Prog, handleStop(p) PROVE TypeOK'
  <2>1. ipc' \in IpcState
    BY <1>32, <1>0 DEF handleStop, IpcState, IdleIpc
  <2>2. stopper' \in [Caller -> [Prog -> StopState]]
    BY <1>32, <1>0 DEF handleStop, StopState, Off, Call, NoStops, Caller
  <2>3. budget' \in [Events -> Nat]
    BY <1>32, <1>0 DEF handleStop, Spend, Events
  <2> QED
    BY <1>32, <1>0, <2>1, <2>2, <2>3 DEF handleStop, TypeOK, chans
<1>33. ASSUME NEW p \in Prog, handleRestart(p) PROVE TypeOK'
  <2>1. ipc' \in IpcState
    BY <1>33, <1>0 DEF handleRestart, IpcState, IdleIpc, ProgMap
  <2>2. stopper' \in [Caller -> [Prog -> StopState]]
    BY <1>33, <1>0 DEF handleRestart, StopState, Off, Call, NoStops, Caller
  <2>3. budget' \in [Events -> Nat]
    BY <1>33, <1>0 DEF handleRestart, Spend, Events
  <2> QED
    BY <1>33, <1>0, <2>1, <2>2, <2>3 DEF handleRestart, TypeOK, chans
<1>34. ASSUME IpcStopped PROVE TypeOK'
  <2>1. ipc' \in IpcState
    BY <1>34, <1>0 DEF IpcStopped, IpcState, IdleIpc
  <2> QED
    BY <1>34, <1>0, <2>1 DEF IpcStopped, TypeOK, chans
<1>35. ASSUME IpcStart PROVE TypeOK'
  <2>1. ipc.prog \in Prog /\ ipc.cfg \in Config \cup {Absent}
    BY <1>35, <1>0 DEF IpcStart, IpcState, IdleIpc
  <2>2. CASE AlreadyRunning(ipc.prog)
             /\ ipc' = IdleIpc
    <3>1. ipc' \in IpcState
      BY <1>35, <1>0, <2>2 DEF IpcStart, IpcState, IdleIpc
    <3> QED
      BY <1>35, <1>0, <2>2, <3>1 DEF IpcStart, AlreadyRunning, TypeOK, chans
  <2>3. ASSUME NEW j \in Inst, StartFresh(j, ipc.prog, ipc.cfg),
               ipc' = [IdleIpc EXCEPT !.at = "spawn", !.rp = j]
        PROVE TypeOK'
    <3>1. ipc' \in IpcState
      BY <1>35, <1>0, <2>3 DEF IpcStart, IpcState, IdleIpc
    <3>2. Fresh(ipc.prog, ipc.cfg, 0) \in RunningProc
      BY <2>1, FreshType
    <3>3. /\ rp' \in [Inst -> RunningProc]
          /\ procs' \in [Prog -> Inst \cup {NoInst}]
      BY <1>0, <2>1, <2>3, <3>2 DEF StartFresh
    <3> QED
      BY <1>35, <1>0, <3>1, <3>3 DEF IpcStart, TypeOK, chans
  <2> QED
    BY <1>35, <2>2, <2>3 DEF IpcStart
<1>36. ASSUME IpcSpawned PROVE TypeOK'
  <2>1. ipc' \in IpcState
    BY <1>36, <1>0 DEF IpcSpawned, IpcState, IdleIpc
  <2> QED
    BY <1>36, <1>0, <2>1 DEF IpcSpawned, TypeOK, chans
<1>37. ASSUME Shutdown PROVE TypeOK'
  <2>1. stopper' \in [Caller -> [Prog -> StopState]]
    BY <1>37, <1>0 DEF Shutdown, StopState, Off, Call, NoStops, Caller
  <2>2. budget' \in [Events -> Nat]
    BY <1>37, <1>0 DEF Shutdown, Spend, Events
  <2> QED
    BY <1>37, <1>0, <2>1, <2>2 DEF Shutdown, TypeOK, chans
<1>38. ASSUME ExitKas PROVE TypeOK'
  BY <1>38, <1>0 DEF ExitKas, TypeOK, chans
<1>39. ASSUME Reboot PROVE TypeOK'
  <2>1. progs' \in ProgMap
    BY <1>39, <1>0 DEF Reboot, ProgMap
  <2>2. procs' \in [Prog -> Inst \cup {NoInst}]
    BY <1>39, <1>0 DEF Reboot
  <2>3. rp' \in [Inst -> RunningProc]
    BY <1>39, <1>0 DEF Reboot, RunningProc, InstPC, FreeRp
  <2>4. main' \in MainState
    BY <1>39, <1>0 DEF Reboot, MainState, IdleMain
  <2>5. ipc' \in IpcState
    BY <1>39, <1>0 DEF Reboot, IpcState, IdleIpc
  <2>6. stopper' \in [Caller -> [Prog -> StopState]]
    BY <1>39, <1>0 DEF Reboot, StopState, Off, Call, NoStops
  <2>7. budget' \in [Events -> Nat]
    BY <1>39, <1>0 DEF Reboot, Spend, Events
  <2> QED
    BY <1>39, <1>0, <2>1, <2>2, <2>3, <2>4, <2>5, <2>6, <2>7 DEF Reboot,
       TypeOK, chans
<1>40. CASE UNCHANGED vars
  BY <1>40 DEF vars, chans, TypeOK
<1> QED
  BY <1>1, <1>2, <1>3, <1>4, <1>5, <1>6, <1>7, <1>8, <1>9, <1>10, <1>11,
     <1>12, <1>13, <1>14, <1>15, <1>16, <1>17, <1>18, <1>19, <1>20, <1>21,
     <1>22, <1>23, <1>24, <1>25, <1>26, <1>27, <1>28, <1>29, <1>30, <1>31,
     <1>32, <1>33, <1>34, <1>35, <1>36, <1>37, <1>38, <1>39, <1>40, Steps

(***************************************************************************)
(* What a step may do to the incarnations without breaking Safe.           *)
(***************************************************************************)

\* It leaves them alone.
LEMMA Quiet ==
  ASSUME Safe, UNCHANGED <<rp, procs, lost, panicked>>, StopInv'
  PROVE Safe'
  BY DEF Safe, PhaseInv, OwnerInv, NameInv, PanicNeedsEarlyClose, Open

\* It moves one of them forward.
LEMMA Update ==
  ASSUME TypeOK, Safe, UNCHANGED procs,
         NEW i \in Inst, rp' = [rp EXCEPT ![i] = rp'[i]], rp[i].at # "free",
         rp'[i].at # "free", rp'[i].prog = rp[i].prog,
         rp[i].done => rp'[i].done,
         rp'[i].os \in {"run", "term"} => rp'[i].at \in {"forked", "watch"},
         (rp'[i].at \in Early /\ rp'[i].done) => i \in lost',
         rp'[i].at \notin Early => rp'[i].done,
         lost \subseteq lost', panicked' => lost' # {},
         \A c \in Caller, p \in Prog : stopper'[c][p].rp \in {NoInst, stopper[c][p].rp}
  PROVE Safe'
<1>0. rp \in [Inst -> RunningProc] /\ procs \in [Prog -> Inst \cup {NoInst}]
  BY DEF TypeOK
<1>1. \A k \in Inst : k # i => rp'[k] = rp[k]
  BY <1>0
<1>2. PhaseInv'
  BY <1>1 DEF Safe, PhaseInv
<1>3. OwnerInv'
  BY <1>1 DEF Safe, OwnerInv, Open
<1>4. NameInv'
  BY <1>0, <1>1 DEF Safe, NameInv
<1>5. StopInv'
  <2>1. \A c \in Caller, p \in Prog : stopper[c][p].rp \in Inst \cup {NoInst}
    BY DEF TypeOK, StopState
  <2>2. \A k \in Inst : rp[k].at # "free" => rp'[k].at # "free"
    BY <1>1
  <2> QED
    BY <2>1, <2>2 DEF Safe, StopInv
<1> QED
  BY <1>2, <1>3, <1>4, <1>5 DEF Safe, PanicNeedsEarlyClose

\* It starts a new one for a program whose old one is done; the old one may
\* have been the retry's own.
LEMMA Begin ==
  ASSUME TypeOK, Safe, UNCHANGED <<lost, panicked, stopper>>,
         NEW j \in Inst, Unused(j), NEW p \in Prog, ~Alive(p),
         procs' = [procs EXCEPT ![p] = j],
         rp'[j].at = "new", rp'[j].prog = p, rp'[j].os = "none", ~rp'[j].done,
         \A k \in Inst \ {j} :
           rp'[k] = rp[k]
           \/ (rp[k].at = "sleep" /\ rp'[k] = [rp[k] EXCEPT !.at = "end"])
  PROVE Safe'
<1>0. /\ rp \in [Inst -> RunningProc] /\ procs \in [Prog -> Inst \cup {NoInst}]
      /\ j # NoInst /\ rp[j].at = "free"
  BY KasAssumption DEF TypeOK, Unused
<1>1. rp'[j].at = "new" /\ rp'[j].prog = p /\ rp'[j].os = "none" /\ ~rp'[j].done
  OBVIOUS
<1>2. \A k \in Inst \ {j} :
        /\ rp'[k].prog = rp[k].prog /\ rp'[k].os = rp[k].os /\ rp'[k].done = rp[k].done
        /\ rp'[k].at = rp[k].at \/ (rp[k].at = "sleep" /\ rp'[k].at = "end")
        /\ rp[k].at = "free" => rp'[k] = rp[k]
  <2> TAKE k \in Inst \ {j}
  <2>1. rp[k] \in RunningProc
    BY <1>0
  <2>2. CASE rp'[k] = rp[k]
    BY <2>2
  <2>3. CASE rp[k].at = "sleep" /\ rp'[k] = [rp[k] EXCEPT !.at = "end"]
    BY <2>1, <2>3 DEF RunningProc
  <2> QED
    BY <2>2, <2>3
<1>3. PhaseInv'
  BY <1>1, <1>2 DEF Safe, PhaseInv, Early
<1>4. OwnerInv'
  <2> SUFFICES ASSUME NEW k \in Inst, Open(k)', k \notin lost
               PROVE procs'[rp'[k].prog] = k
    BY DEF OwnerInv
  <2>1. CASE k = j
    BY <1>0, <1>1, <2>1
  <2>2. CASE k # j
    <3>1. Open(k) /\ rp[k].prog \in Prog
      BY <1>2, <2>2 DEF Open, Safe, PhaseInv
    <3>2. procs[rp[k].prog] = k
      BY <3>1 DEF Safe, OwnerInv
    <3>3. rp[k].prog # p
      BY <3>1, <3>2, KasAssumption DEF Alive, Done, Open
    <3> QED
      BY <1>0, <1>2, <2>2, <3>1, <3>2, <3>3
  <2> QED
    BY <2>1, <2>2
<1>5. NameInv'
  <2> SUFFICES ASSUME NEW q \in Prog, procs'[q] # NoInst
               PROVE rp'[procs'[q]].at # "free" /\ rp'[procs'[q]].prog = q
    BY DEF NameInv
  <2>1. CASE q = p
    BY <1>0, <1>1, <2>1
  <2>2. CASE q # p
    <3>1. procs'[q] = procs[q] /\ procs[q] \in Inst
      BY <1>0, <2>2
    <3>2. rp[procs[q]].at # "free" /\ rp[procs[q]].prog = q
      BY <3>1 DEF Safe, NameInv
    <3> QED
      BY <1>0, <1>2, <3>1, <3>2
  <2> QED
    BY <2>1, <2>2
<1>6. StopInv'
  <2>1. \A c \in Caller, q \in Prog : stopper[c][q].rp \in Inst \cup {NoInst}
    BY DEF TypeOK, StopState
  <2>2. \A k \in Inst : rp[k].at # "free" => rp'[k].at # "free"
    BY <1>0, <1>2
  <2> QED
    BY <2>1, <2>2 DEF Safe, StopInv
<1> QED
  BY <1>3, <1>4, <1>5, <1>6 DEF Safe, PanicNeedsEarlyClose

\* Every step keeps the ownership of the entries of procs.
LEMMA SafeStep ==
  ASSUME TypeOK, Safe, [Next]_vars
  PROVE Safe'
<1>0. /\ rp \in [Inst -> RunningProc] /\ main \in MainState /\ ipc \in IpcState
      /\ stopper \in [Caller -> [Prog -> StopState]]
      /\ procs \in [Prog -> Inst \cup {NoInst}] /\ progs \in ProgMap
  BY DEF TypeOK
<1>1. ASSUME NEW i \in Inst, CmdStart(i) PROVE Safe'
  <2>1. /\ rp[i].at # "free" /\ rp' = [rp EXCEPT ![i] = rp'[i]]
        /\ rp'[i].at # "free" /\ rp'[i].prog = rp[i].prog
        /\ rp[i].done => rp'[i].done
        /\ rp'[i].os \in {"run", "term"} => rp'[i].at \in {"forked", "watch"}
        /\ (rp'[i].at \in Early /\ rp'[i].done) => i \in lost'
        /\ rp'[i].at \notin Early => rp'[i].done
    BY <1>1, <1>0 DEF CmdStart, RunningProc, FreeRp, Safe, PhaseInv, Early
  <2>2. UNCHANGED <<procs, lost, stopper>> /\ (panicked' => lost' # {})
    BY <1>1, <1>0 DEF CmdStart, Safe, PhaseInv, Early, PanicNeedsEarlyClose
  <2> QED
    BY <2>1, <2>2, Update
<1>2. ASSUME NEW i \in Inst, CmdStartFails(i) PROVE Safe'
  <2>1. /\ rp[i].at # "free" /\ rp' = [rp EXCEPT ![i] = rp'[i]]
        /\ rp'[i].at # "free" /\ rp'[i].prog = rp[i].prog
        /\ rp[i].done => rp'[i].done
        /\ rp'[i].os \in {"run", "term"} => rp'[i].at \in {"forked", "watch"}
        /\ (rp'[i].at \in Early /\ rp'[i].done) => i \in lost'
        /\ rp'[i].at \notin Early => rp'[i].done
    BY <1>2, <1>0 DEF CmdStartFails, RunningProc, FreeRp, Safe, PhaseInv, Early
  <2>2. UNCHANGED <<procs, lost, stopper>> /\ (panicked' => lost' # {})
    BY <1>2, <1>0 DEF CmdStartFails, Safe, PhaseInv, Early, PanicNeedsEarlyClose
  <2> QED
    BY <2>1, <2>2, Update
<1>3. ASSUME NEW i \in Inst, EmptyCommand(i) PROVE Safe'
  <2>1. /\ rp[i].at # "free" /\ rp' = [rp EXCEPT ![i] = rp'[i]]
        /\ rp'[i].at # "free" /\ rp'[i].prog = rp[i].prog
        /\ rp[i].done => rp'[i].done
        /\ rp'[i].os \in {"run", "term"} => rp'[i].at \in {"forked", "watch"}
        /\ (rp'[i].at \in Early /\ rp'[i].done) => i \in lost'
        /\ rp'[i].at \notin Early => rp'[i].done
    BY <1>3, <1>0 DEF EmptyCommand, RunningProc, FreeRp, Safe, PhaseInv, Early
  <2>2. UNCHANGED <<procs, lost, stopper>> /\ (panicked' => lost' # {})
    BY <1>3, <1>0 DEF EmptyCommand, Safe, PhaseInv, Early, PanicNeedsEarlyClose
  <2> QED
    BY <2>1, <2>2, Update
<1>4. ASSUME NEW i \in Inst, GoSupervise(i) PROVE Safe'
  <2>1. /\ rp[i].at # "free" /\ rp' = [rp EXCEPT ![i] = rp'[i]]
        /\ rp'[i].at # "free" /\ rp'[i].prog = rp[i].prog
        /\ rp[i].done => rp'[i].done
        /\ rp'[i].os \in {"run", "term"} => rp'[i].at \in {"forked", "watch"}
        /\ (rp'[i].at \in Early /\ rp'[i].done) => i \in lost'
        /\ rp'[i].at \notin Early => rp'[i].done
    BY <1>4, <1>0 DEF GoSupervise, RunningProc, FreeRp, Safe, PhaseInv, Early
  <2>2. UNCHANGED <<procs, lost, stopper>> /\ (panicked' => lost' # {})
    BY <1>4, <1>0 DEF GoSupervise, Safe, PhaseInv, Early, PanicNeedsEarlyClose
  <2> QED
    BY <2>1, <2>2, Update
<1>5. ASSUME NEW i \in Inst, ChildExits(i) PROVE Safe'
  <2>1. /\ rp[i].at # "free" /\ rp' = [rp EXCEPT ![i] = rp'[i]]
        /\ rp'[i].at # "free" /\ rp'[i].prog = rp[i].prog
        /\ rp[i].done => rp'[i].done
        /\ rp'[i].os \in {"run", "term"} => rp'[i].at \in {"forked", "watch"}
        /\ (rp'[i].at \in Early /\ rp'[i].done) => i \in lost'
        /\ rp'[i].at \notin Early => rp'[i].done
    BY <1>5, <1>0 DEF ChildExits, RunningProc, FreeRp, Safe, PhaseInv, Early
  <2>2. UNCHANGED <<procs, lost, stopper>> /\ (panicked' => lost' # {})
    BY <1>5, <1>0 DEF ChildExits, Safe, PhaseInv, Early, PanicNeedsEarlyClose
  <2> QED
    BY <2>1, <2>2, Update
<1>6. ASSUME NEW i \in Inst, ChildDies(i) PROVE Safe'
  <2>1. /\ rp[i].at # "free" /\ rp' = [rp EXCEPT ![i] = rp'[i]]
        /\ rp'[i].at # "free" /\ rp'[i].prog = rp[i].prog
        /\ rp[i].done => rp'[i].done
        /\ rp'[i].os \in {"run", "term"} => rp'[i].at \in {"forked", "watch"}
        /\ (rp'[i].at \in Early /\ rp'[i].done) => i \in lost'
        /\ rp'[i].at \notin Early => rp'[i].done
    BY <1>6, <1>0 DEF ChildDies, RunningProc, FreeRp, Safe, PhaseInv, Early
  <2>2. UNCHANGED <<procs, lost, stopper>> /\ (panicked' => lost' # {})
    BY <1>6, <1>0 DEF ChildDies, Safe, PhaseInv, Early, PanicNeedsEarlyClose
  <2> QED
    BY <2>1, <2>2, Update
<1>7. ASSUME NEW i \in Inst, Notice(i) PROVE Safe'
  <2>1. /\ rp[i].at # "free" /\ rp' = [rp EXCEPT ![i] = rp'[i]]
        /\ rp'[i].at # "free" /\ rp'[i].prog = rp[i].prog
        /\ rp[i].done => rp'[i].done
        /\ rp'[i].os \in {"run", "term"} => rp'[i].at \in {"forked", "watch"}
        /\ (rp'[i].at \in Early /\ rp'[i].done) => i \in lost'
        /\ rp'[i].at \notin Early => rp'[i].done
    BY <1>7, <1>0 DEF Notice, RunningProc, FreeRp, Safe, PhaseInv, Early
  <2>2. UNCHANGED <<procs, lost, stopper>> /\ (panicked' => lost' # {})
    BY <1>7, <1>0 DEF Notice, Safe, PhaseInv, Early, PanicNeedsEarlyClose
  <2> QED
    BY <2>1, <2>2, Update
<1>8. ASSUME NEW i \in Inst, CloseDone(i) PROVE Safe'
  <2>1. /\ rp[i].at # "free" /\ rp' = [rp EXCEPT ![i] = rp'[i]]
        /\ rp'[i].at # "free" /\ rp'[i].prog = rp[i].prog
        /\ rp[i].done => rp'[i].done
        /\ rp'[i].os \in {"run", "term"} => rp'[i].at \in {"forked", "watch"}
        /\ (rp'[i].at \in Early /\ rp'[i].done) => i \in lost'
        /\ rp'[i].at \notin Early => rp'[i].done
    BY <1>8, <1>0 DEF CloseDone, RunningProc, FreeRp, Safe, PhaseInv, Early
  <2>2. UNCHANGED <<procs, lost, stopper>> /\ (panicked' => lost' # {})
    BY <1>8, <1>0 DEF CloseDone, Safe, PhaseInv, Early, PanicNeedsEarlyClose
  <2> QED
    BY <2>1, <2>2, Update
<1>9. ASSUME NEW i \in Inst, RecordRan(i) PROVE Safe'
  <2>1. /\ rp[i].at # "free" /\ rp' = [rp EXCEPT ![i] = rp'[i]]
        /\ rp'[i].at # "free" /\ rp'[i].prog = rp[i].prog
        /\ rp[i].done => rp'[i].done
        /\ rp'[i].os \in {"run", "term"} => rp'[i].at \in {"forked", "watch"}
        /\ (rp'[i].at \in Early /\ rp'[i].done) => i \in lost'
        /\ rp'[i].at \notin Early => rp'[i].done
    BY <1>9, <1>0 DEF RecordRan, RunningProc, FreeRp, Safe, PhaseInv, Early
  <2>2. UNCHANGED <<procs, lost, stopper>> /\ (panicked' => lost' # {})
    BY <1>9, <1>0 DEF RecordRan, Safe, PhaseInv, Early, PanicNeedsEarlyClose
  <2> QED
    BY <2>1, <2>2, Update
<1>10. ASSUME NEW i \in Inst, markRanOnce(i) PROVE Safe'
  <2>1. /\ rp[i].at # "free" /\ rp' = [rp EXCEPT ![i] = rp'[i]]
        /\ rp'[i].at # "free" /\ rp'[i].prog = rp[i].prog
        /\ rp[i].done => rp'[i].done
        /\ rp'[i].os \in {"run", "term"} => rp'[i].at \in {"forked", "watch"}
        /\ (rp'[i].at \in Early /\ rp'[i].done) => i \in lost'
        /\ rp'[i].at \notin Early => rp'[i].done
    BY <1>10, <1>0 DEF markRanOnce, RunningProc, FreeRp, Safe, PhaseInv, Early
  <2>2. UNCHANGED <<procs, lost, stopper>> /\ (panicked' => lost' # {})
    BY <1>10, <1>0 DEF markRanOnce, Safe, PhaseInv, Early, PanicNeedsEarlyClose
  <2> QED
    BY <2>1, <2>2, Update
<1>11. ASSUME NEW i \in Inst, SignalDeps(i) PROVE Safe'
  <2>1. /\ rp[i].at # "free" /\ rp' = [rp EXCEPT ![i] = rp'[i]]
        /\ rp'[i].at # "free" /\ rp'[i].prog = rp[i].prog
        /\ rp[i].done => rp'[i].done
        /\ rp'[i].os \in {"run", "term"} => rp'[i].at \in {"forked", "watch"}
        /\ (rp'[i].at \in Early /\ rp'[i].done) => i \in lost'
        /\ rp'[i].at \notin Early => rp'[i].done
    BY <1>11, <1>0 DEF SignalDeps, RunningProc, FreeRp, Safe, PhaseInv, Early
  <2>2. UNCHANGED <<procs, lost, stopper>> /\ (panicked' => lost' # {})
    BY <1>11, <1>0 DEF SignalDeps, Safe, PhaseInv, Early, PanicNeedsEarlyClose
  <2> QED
    BY <2>1, <2>2, Update
<1>12. ASSUME NEW i \in Inst, Decide(i) PROVE Safe'
  <2>1. /\ rp[i].at # "free" /\ rp' = [rp EXCEPT ![i] = rp'[i]]
        /\ rp'[i].at # "free" /\ rp'[i].prog = rp[i].prog
        /\ rp[i].done => rp'[i].done
        /\ rp'[i].os \in {"run", "term"} => rp'[i].at \in {"forked", "watch"}
        /\ (rp'[i].at \in Early /\ rp'[i].done) => i \in lost'
        /\ rp'[i].at \notin Early => rp'[i].done
    BY <1>12, <1>0 DEF Decide, RunningProc, FreeRp, Safe, PhaseInv, Early
  <2>2. UNCHANGED <<procs, lost, stopper>> /\ (panicked' => lost' # {})
    BY <1>12, <1>0 DEF Decide, Safe, PhaseInv, Early, PanicNeedsEarlyClose
  <2> QED
    BY <2>1, <2>2, Update
<1>13. ASSUME NEW i \in Inst, GiveUp(i) PROVE Safe'
  <2>1. /\ rp[i].at # "free" /\ rp' = [rp EXCEPT ![i] = rp'[i]]
        /\ rp'[i].at # "free" /\ rp'[i].prog = rp[i].prog
        /\ rp[i].done => rp'[i].done
        /\ rp'[i].os \in {"run", "term"} => rp'[i].at \in {"forked", "watch"}
        /\ (rp'[i].at \in Early /\ rp'[i].done) => i \in lost'
        /\ rp'[i].at \notin Early => rp'[i].done
    BY <1>13, <1>0 DEF GiveUp, RunningProc, FreeRp, Safe, PhaseInv, Early
  <2>2. UNCHANGED <<procs, lost, stopper>> /\ (panicked' => lost' # {})
    BY <1>13, <1>0 DEF GiveUp, Safe, PhaseInv, Early, PanicNeedsEarlyClose
  <2> QED
    BY <2>1, <2>2, Update
<1>14. ASSUME NEW i \in Inst, Retry(i) PROVE Safe'
  <2>1. PICK j \in Inst :
          /\ Unused(j)
          /\ procs' = [procs EXCEPT ![rp[i].prog] = j]
          /\ rp' = [rp EXCEPT ![i].at = "end",
                              ![j] = Fresh(rp[i].prog, rp[i].cfg, rp[i].tries + 1)]
    BY <1>14 DEF Retry
  <2>2. /\ rp[i].prog \in Prog /\ rp[i].at = "sleep" /\ i # j
        /\ procs[rp[i].prog] = i /\ rp[i].done
    BY <1>14, <2>1 DEF Retry, WantRestart, Owns, Unused, Safe, PhaseInv, Early
  <2>3. ~Alive(rp[i].prog)
    BY <2>2 DEF Alive, Done
  <2>4. /\ rp'[j].at = "new" /\ rp'[j].prog = rp[i].prog /\ rp'[j].os = "none"
        /\ ~rp'[j].done
        /\ \A k \in Inst \ {j} :
             rp'[k] = rp[k]
             \/ (rp[k].at = "sleep" /\ rp'[k] = [rp[k] EXCEPT !.at = "end"])
    BY <1>0, <2>1, <2>2 DEF Fresh, FreeRp
  <2>5. UNCHANGED <<lost, panicked, stopper>>
    BY <1>14 DEF Retry
  <2> QED
    BY <2>1, <2>2, <2>3, <2>4, <2>5, Begin
<1>15. ASSUME NEW c \in Caller, NEW p \in Prog, StopLookup(c, p) PROVE Safe'
  <2>1. StopInv'
    BY <1>15, <1>0, KasAssumption DEF StopLookup, Safe, StopInv, Off, Call, StopState, NameInv
  <2> QED
    BY <1>15, <2>1, Quiet DEF StopLookup
<1>16. ASSUME NEW c \in Caller, NEW p \in Prog, StopMark(c, p) PROVE Safe'
  <2> DEFINE i == stopper[c][p].rp
  <2>1. i \in Inst /\ stopper[c][p] \in StopState /\ rp[i].at # "free"
    BY <1>16, <1>0, KasAssumption DEF StopMark, StopState, Safe, StopInv
  <2>2. /\ rp' = [rp EXCEPT ![i] = rp'[i]]
        /\ rp'[i].at = rp[i].at /\ rp'[i].prog = rp[i].prog
        /\ rp[i].done => rp'[i].done
        /\ rp'[i].os \in {"run", "term"} => rp[i].os \in {"run", "term"}
        /\ rp'[i].done => rp[i].done \/ i \in lost'
    <3>1. rp' = [rp EXCEPT ![i] = [rp[i] EXCEPT !.stopped = TRUE]]
      BY <1>16 DEF StopMark
    <3> HIDE DEF i
    <3> QED
      BY <1>0, <2>1, <3>1 DEF RunningProc
  <2>3. UNCHANGED procs /\ lost \subseteq lost' /\ (panicked' => lost' # {})
    BY <1>16 DEF StopMark, Safe, PanicNeedsEarlyClose
  <2>4. \A d \in Caller, q \in Prog : stopper'[d][q].rp \in {NoInst, stopper[d][q].rp}
    BY <1>16, <1>0, <2>1 DEF StopMark, Off
  <2>5. /\ rp'[i].os \in {"run", "term"} => rp'[i].at \in {"forked", "watch"}
        /\ (rp'[i].at \in Early /\ rp'[i].done) => i \in lost'
        /\ rp'[i].at \notin Early => rp'[i].done
    BY <2>1, <2>2, <2>3 DEF Safe, PhaseInv
  <2> HIDE DEF i
  <2> QED
    BY <2>1, <2>2, <2>3, <2>4, <2>5, Update
<1>17. ASSUME NEW c \in Caller, NEW p \in Prog, Signal(c, p) PROVE Safe'
  <2> DEFINE i == stopper[c][p].rp
  <2>1. i \in Inst /\ stopper[c][p] \in StopState /\ rp[i].at # "free"
    BY <1>17, <1>0, KasAssumption DEF Signal, StopState, Safe, StopInv
  <2>2. /\ rp' = [rp EXCEPT ![i] = rp'[i]]
        /\ rp'[i].at = rp[i].at /\ rp'[i].prog = rp[i].prog
        /\ rp[i].done => rp'[i].done
        /\ rp'[i].os \in {"run", "term"} => rp[i].os \in {"run", "term"}
        /\ rp'[i].done => rp[i].done \/ i \in lost'
    <3>1. rp' = [rp EXCEPT ![i] = [rp[i] EXCEPT !.os = IF rp[i].os = "run" THEN "term" ELSE rp[i].os]]
      BY <1>17 DEF Signal
    <3> HIDE DEF i
    <3> QED
      BY <1>0, <2>1, <3>1 DEF RunningProc
  <2>3. UNCHANGED procs /\ lost \subseteq lost' /\ (panicked' => lost' # {})
    BY <1>17 DEF Signal, Safe, PanicNeedsEarlyClose
  <2>4. \A d \in Caller, q \in Prog : stopper'[d][q].rp \in {NoInst, stopper[d][q].rp}
    BY <1>17, <1>0, <2>1 DEF Signal, Off
  <2>5. /\ rp'[i].os \in {"run", "term"} => rp'[i].at \in {"forked", "watch"}
        /\ (rp'[i].at \in Early /\ rp'[i].done) => i \in lost'
        /\ rp'[i].at \notin Early => rp'[i].done
    BY <2>1, <2>2, <2>3 DEF Safe, PhaseInv
  <2> HIDE DEF i
  <2> QED
    BY <2>1, <2>2, <2>3, <2>4, <2>5, Update
<1>18. ASSUME NEW c \in Caller, NEW p \in Prog, NothingToSignal(c, p) PROVE Safe'
  <2>1. StopInv'
    BY <1>18, <1>0, KasAssumption DEF NothingToSignal, Safe, StopInv, Off, Call, StopState
  <2> QED
    BY <1>18, <2>1, Quiet DEF NothingToSignal
<1>19. ASSUME NEW c \in Caller, NEW p \in Prog, CloseForWaiters(c, p) PROVE Safe'
  <2> DEFINE i == stopper[c][p].rp
  <2>1. i \in Inst /\ stopper[c][p] \in StopState /\ rp[i].at # "free"
    BY <1>19, <1>0, KasAssumption DEF CloseForWaiters, StopState, Safe, StopInv
  <2>2. /\ rp' = [rp EXCEPT ![i] = rp'[i]]
        /\ rp'[i].at = rp[i].at /\ rp'[i].prog = rp[i].prog
        /\ rp[i].done => rp'[i].done
        /\ rp'[i].os \in {"run", "term"} => rp[i].os \in {"run", "term"}
        /\ rp'[i].done => rp[i].done \/ i \in lost'
    <3>1. rp' = [rp EXCEPT ![i] = [rp[i] EXCEPT !.done = TRUE]]
      BY <1>19 DEF CloseForWaiters
    <3>2. i \in lost'
      BY <1>19 DEF CloseForWaiters
    <3> HIDE DEF i
    <3> QED
      BY <1>0, <2>1, <3>1, <3>2 DEF RunningProc
  <2>3. UNCHANGED procs /\ lost \subseteq lost' /\ (panicked' => lost' # {})
    BY <1>19 DEF CloseForWaiters, Safe, PanicNeedsEarlyClose
  <2>4. \A d \in Caller, q \in Prog : stopper'[d][q].rp \in {NoInst, stopper[d][q].rp}
    BY <1>19, <1>0, <2>1 DEF CloseForWaiters, Off
  <2>5. /\ rp'[i].os \in {"run", "term"} => rp'[i].at \in {"forked", "watch"}
        /\ (rp'[i].at \in Early /\ rp'[i].done) => i \in lost'
        /\ rp'[i].at \notin Early => rp'[i].done
    BY <2>1, <2>2, <2>3 DEF Safe, PhaseInv
  <2> HIDE DEF i
  <2> QED
    BY <2>1, <2>2, <2>3, <2>4, <2>5, Update
<1>20. ASSUME NEW c \in Caller, NEW p \in Prog, StopReturns(c, p) PROVE Safe'
  <2>1. StopInv'
    BY <1>20, <1>0, KasAssumption DEF StopReturns, Safe, StopInv, Off, Call, StopState
  <2> QED
    BY <1>20, <2>1, Quiet DEF StopReturns
<1>21. ASSUME InitialLoad PROVE Safe'
  BY <1>21, Quiet DEF InitialLoad, Safe, StopInv, PhaseInv
<1>22. ASSUME ReceiveHup PROVE Safe'
  BY <1>22, Quiet DEF ReceiveHup, Safe, StopInv, PhaseInv
<1>23. ASSUME ReceiveDep PROVE Safe'
  BY <1>23, Quiet DEF ReceiveDep, Safe, StopInv, PhaseInv
<1>24. ASSUME StartStopJobs PROVE Safe'
  <2>1. StopInv'
    BY <1>24, <1>0, KasAssumption DEF StartStopJobs, Safe, StopInv, Off, Call, StopState
  <2> QED
    BY <1>24, <2>1, Quiet DEF StartStopJobs
<1>25. ASSUME DeleteRemoved PROVE Safe'
  <2> DEFINE gone == {p \in main.jobs : progs[p] = Absent}
  <2>1. /\ procs' = [p \in Prog |-> IF p \in gone THEN NoInst ELSE procs[p]]
        /\ lost' = lost \cup {i \in Inst : Open(i) /\ \E p \in gone : procs[p] = i}
        /\ UNCHANGED <<rp, stopper, panicked>>
    BY <1>25 DEF DeleteRemoved
  <2> HIDE DEF gone
  <2>2. PhaseInv' /\ NameInv' /\ StopInv'
    BY <2>1 DEF Safe, PhaseInv, NameInv, StopInv
  <2>3. OwnerInv'
    BY <2>1 DEF Safe, PhaseInv, OwnerInv, Open
  <2>4. PanicNeedsEarlyClose'
    BY <2>1 DEF Safe, PanicNeedsEarlyClose
  <2> QED
    BY <2>2, <2>3, <2>4 DEF Safe
<1>26. ASSUME Choose PROVE Safe'
  BY <1>26, Quiet DEF Choose, Safe, StopInv, PhaseInv
<1>27. ASSUME ReconcileEnds PROVE Safe'
  BY <1>27, Quiet DEF ReconcileEnds, Safe, StopInv, PhaseInv
<1>28. ASSUME MainStart PROVE Safe'
  <2>1. main.prog \in Prog /\ UNCHANGED <<lost, panicked, stopper>>
    BY <1>28, <1>0 DEF MainStart, MainState
  <2>2. CASE UNCHANGED <<procs, rp>>
    BY <2>1, <2>2, Quiet DEF Safe, StopInv
  <2>3. ASSUME NEW j \in Inst, StartFresh(j, main.prog, progs[main.prog])
        PROVE Safe'
    <3>1. /\ Unused(j) /\ ~Alive(main.prog) /\ procs' = [procs EXCEPT ![main.prog] = j]
          /\ rp'[j].at = "new" /\ rp'[j].prog = main.prog /\ rp'[j].os = "none"
          /\ ~rp'[j].done
          /\ \A k \in Inst \ {j} : rp'[k] = rp[k]
      BY <1>0, <2>3 DEF StartFresh, Fresh, FreeRp
    <3> QED
      BY <2>1, <3>1, Begin
  <2> QED
    BY <1>28, <2>2, <2>3 DEF MainStart, AlreadyRunning
<1>29. ASSUME MainSpawned PROVE Safe'
  BY <1>29, Quiet DEF MainSpawned, Safe, StopInv, PhaseInv
<1>30. ASSUME NEW f \in File, Reload(f) PROVE Safe'
  BY <1>30, Quiet DEF Reload, Safe, StopInv, PhaseInv
<1>31. ASSUME NEW p \in Prog, handleStart(p) PROVE Safe'
  BY <1>31, Quiet DEF handleStart, Safe, StopInv, PhaseInv
<1>32. ASSUME NEW p \in Prog, handleStop(p) PROVE Safe'
  <2>1. StopInv'
    BY <1>32, <1>0, KasAssumption DEF handleStop, Safe, StopInv, Off, Call, StopState
  <2> QED
    BY <1>32, <2>1, Quiet DEF handleStop
<1>33. ASSUME NEW p \in Prog, handleRestart(p) PROVE Safe'
  <2>1. StopInv'
    BY <1>33, <1>0, KasAssumption DEF handleRestart, Safe, StopInv, Off, Call, StopState
  <2> QED
    BY <1>33, <2>1, Quiet DEF handleRestart
<1>34. ASSUME IpcStopped PROVE Safe'
  BY <1>34, Quiet DEF IpcStopped, Safe, StopInv, PhaseInv
<1>35. ASSUME IpcStart PROVE Safe'
  <2>1. ipc.prog \in Prog /\ UNCHANGED <<lost, panicked, stopper>>
    BY <1>35, <1>0 DEF IpcStart, IpcState
  <2>2. CASE UNCHANGED <<procs, rp>>
    BY <2>1, <2>2, Quiet DEF Safe, StopInv
  <2>3. ASSUME NEW j \in Inst, StartFresh(j, ipc.prog, ipc.cfg)
        PROVE Safe'
    <3>1. /\ Unused(j) /\ ~Alive(ipc.prog) /\ procs' = [procs EXCEPT ![ipc.prog] = j]
          /\ rp'[j].at = "new" /\ rp'[j].prog = ipc.prog /\ rp'[j].os = "none"
          /\ ~rp'[j].done
          /\ \A k \in Inst \ {j} : rp'[k] = rp[k]
      BY <1>0, <2>3 DEF StartFresh, Fresh, FreeRp
    <3> QED
      BY <2>1, <3>1, Begin
  <2> QED
    BY <1>35, <2>2, <2>3 DEF IpcStart, AlreadyRunning
<1>36. ASSUME IpcSpawned PROVE Safe'
  BY <1>36, Quiet DEF IpcSpawned, Safe, StopInv, PhaseInv
<1>37. ASSUME Shutdown PROVE Safe'
  <2>1. StopInv'
    BY <1>37, <1>0, KasAssumption DEF Shutdown, Safe, StopInv, Off, Call, StopState
  <2> QED
    BY <1>37, <2>1, Quiet DEF Shutdown
<1>38. ASSUME ExitKas PROVE Safe'
  BY <1>38, Quiet DEF ExitKas, Safe, StopInv, PhaseInv
<1>39. ASSUME Reboot PROVE Safe'
  BY <1>39, KasAssumption
  DEF Reboot, Safe, PhaseInv, OwnerInv, NameInv, StopInv, Open, Early,
    PanicNeedsEarlyClose, FreeRp, NoStops, Off
<1>40. CASE UNCHANGED vars
  BY <1>40, Quiet DEF vars, chans, Safe, StopInv
<1> QED
  BY <1>1, <1>2, <1>3, <1>4, <1>5, <1>6, <1>7, <1>8, <1>9, <1>10, <1>11,
     <1>12, <1>13, <1>14, <1>15, <1>16, <1>17, <1>18, <1>19, <1>20, <1>21,
     <1>22, <1>23, <1>24, <1>25, <1>26, <1>27, <1>28, <1>29, <1>30, <1>31,
     <1>32, <1>33, <1>34, <1>35, <1>36, <1>37, <1>38, <1>39, <1>40, Steps

\* IInv holds in every reachable state.
THEOREM SpecIInv == Spec => []IInv
<1>1. Init => IInv
  BY InitIInv
<1>2. IInv /\ [Next]_vars => IInv'
  BY TypeStep, SafeStep DEF IInv, Safe
<1> QED
  BY <1>1, <1>2, PTL DEF Spec

\* Type correctness of the model of kas (main.go).
THEOREM TypeCorrect == Spec => []TypeOK
  BY SpecIInv, PTL DEF IInv

\* Every running child is the one procs names for its program, or was let go
\* of by terminate or by the deletion of a removed program.
THEOREM ChildrenTracked == Spec => []LiveIsTracked
<1>1. IInv => LiveIsTracked
  BY DEF IInv, Safe, PhaseInv, OwnerInv, LiveIsTracked, Live, Open, Early
<1> QED
  BY <1>1, SpecIInv, PTL

\* No program runs twice unless one of the two copies was let go of.
THEOREM NoSecondCopy == Spec => []OneCopy
<1>1. LiveIsTracked => OneCopy
  BY DEF LiveIsTracked, OneCopy
<1> QED
  BY <1>1, ChildrenTracked, PTL

\* kas closes a closed done channel only after terminate closed one early.
THEOREM PanicCause == Spec => []PanicNeedsEarlyClose
  BY SpecIInv, PTL DEF IInv, Safe

----------------------------------------------------------------------------
(* kas by itself, without requests over IPC: what reconcile, supervise and *)
(* the stops it starts do to the programs the configuration names.         *)

\* The files kas can load.
Files == File \ {BadFile}

\* A program is a once program in every file or in none; one that is stays
\* configured and is not restarted by supervise.
OnceType(p) == \E f \in Files : f[p] # Absent /\ f[p].once
FixedTypes ==
  \A f \in Files, p \in Prog : f[p] # Absent => (f[p].once <=> OnceType(p))
OnceStays ==
  \A f \in Files, p \in Prog : OnceType(p) => f[p] # Absent /\ ~f[p].restart

\* Nobody asks over IPC.
ByItself == Budget["ipc"] = 0
Unasked == budget["ipc"] = 0 /\ ipc.at = "idle"

\* What is loaded and what has been started from it.
ConfigInv ==
  /\ file \in File
  /\ \/ progs \in Files
     \/ /\ \A p \in Prog : progs[p] = Absent
        /\ \A i \in Inst : rp[i].at = "free"
  /\ \A p \in main.todo : progs[p] # Absent
  /\ main.at = "start" => progs[main.prog] # Absent /\ progs[main.prog].auto
  /\ \A i \in Inst : rp[i].at # "free" => rp[i].cfg # Absent

\* A program that the configuration dropped or switched off.
Stray(p) == progs[p] = Absent \/ ~progs[p].auto

\* The main goroutine has yet to stop what runs of p.
ToStop(p) ==
  Alive(p) => LET s == stopper["main"][p]
              IN s.at = "lookup" \/ (s.at # "off" /\ s.rp = procs[p])

StrayInv ==
  /\ main.at = "jobs" =>
       \A p \in Prog : progs[p] = Absent /\ Alive(p) => p \in main.jobs
  /\ main.at = "stopping" => \A p \in Prog : Stray(p) => ToStop(p)
  /\ main.at \notin {"jobs", "stopping"} => \A p \in Prog : Stray(p) => ~Alive(p)

\* The once programs c depends on have run.
OnceRun(c) == \A d \in c.deps : OnceType(d) => d \in ranOnce

DepsInv ==
  /\ \A i \in Inst : rp[i].at # "free" => OnceRun(rp[i].cfg)
  /\ main.at = "start" => OnceRun(progs[main.prog])

\* The entry of a once program keeps naming its only incarnation.
OnceInv ==
  /\ \A i \in Inst : rp[i].at # "free" =>
       /\ rp[i].cfg.once <=> OnceType(rp[i].prog)
       /\ OnceType(rp[i].prog) => procs[rp[i].prog] = i
       /\ OnceType(rp[i].prog) /\ Spawning(i) => rp[i].prog \notin ranOnce
  /\ main.at = "start" /\ OnceType(main.prog) =>
       procs[main.prog] = NoInst /\ main.prog \notin ranOnce

\* The incarnations move on and the main goroutine does not.
Moves ==
  /\ UNCHANGED <<progs, procs, main, file>>
  /\ \A i \in Inst :
       /\ rp'[i].at = "free" <=> rp[i].at = "free"
       /\ rp'[i].prog = rp[i].prog /\ rp'[i].cfg = rp[i].cfg
       /\ Spawning(i)' => Spawning(i)
       /\ rp[i].done => rp'[i].done
  /\ ranOnce \subseteq ranOnce'
  /\ \A p \in ranOnce' \ ranOnce : \E i \in Inst : rp[i].prog = p /\ rp[i].at = "closed"
  /\ \A p \in Prog : ToStop(p) => ToStop(p)'

\* One incarnation moves on, and the main goroutine's stops are left alone.
LEMMA MovesOne ==
  ASSUME TypeOK, UNCHANGED <<progs, procs, main, file, stopper>>,
         NEW i \in Inst, rp' = [rp EXCEPT ![i] = rp'[i]], rp[i].at # "free",
         rp'[i].at # "free", rp'[i].prog = rp[i].prog, rp'[i].cfg = rp[i].cfg,
         Spawning(i)' => Spawning(i), rp[i].done => rp'[i].done,
         ranOnce \subseteq ranOnce',
         \A p \in ranOnce' \ ranOnce : rp[i].prog = p /\ rp[i].at = "closed"
  PROVE Moves
<1>1. \A k \in Inst : k # i => rp'[k] = rp[k]
  BY DEF TypeOK
<1>2. \A p \in Prog : ToStop(p) => ToStop(p)'
  BY <1>1 DEF ToStop, Alive, Done, TypeOK
<1> QED
  BY <1>1, <1>2 DEF Moves, Spawning

\* A stop changes at most one incarnation, and what the main goroutine has yet
\* to stop remains to be stopped.
LEMMA MovesStop ==
  ASSUME TypeOK, UNCHANGED <<progs, procs, main, file, ranOnce>>,
         NEW c \in Caller, NEW p \in Prog, NEW s,
         stopper' = [stopper EXCEPT ![c][p] = s],
         \A k \in Inst : /\ rp'[k].at = rp[k].at /\ rp'[k].prog = rp[k].prog
                         /\ rp'[k].cfg = rp[k].cfg /\ (rp[k].done => rp'[k].done),
         c = "main" /\ ToStop(p) => ToStop(p)'
  PROVE Moves
<1>1. ASSUME NEW q \in Prog, ToStop(q) PROVE ToStop(q)'
  <2>1. CASE c = "main" /\ q = p
    BY <1>1, <2>1
  <2>2. CASE ~(c = "main" /\ q = p)
    <3>1. stopper'["main"][q] = stopper["main"][q]
      BY <2>2 DEF TypeOK, Caller
    <3> QED
      BY <1>1, <3>1, KasAssumption DEF ToStop, Alive, Done, TypeOK
  <2> QED
    BY <2>1, <2>2
<1> QED
  BY <1>1 DEF Moves, Spawning

\* Without requests over IPC every step is one of these.
LEMMA ByItselfSteps ==
  ASSUME IInv, Unasked, [Next]_vars
  PROVE /\ Unasked'
        /\ \/ Moves
           \/ \E i \in Inst : Retry(i)
           \/ InitialLoad \/ ReceiveHup \/ ReceiveDep \/ StartStopJobs \/ DeleteRemoved
           \/ Choose \/ ReconcileEnds \/ MainStart \/ MainSpawned
           \/ \E f \in File : Reload(f)
           \/ Reboot
<1> DEFINE Goal ==
      /\ Unasked'
      /\ \/ Moves
         \/ \E i \in Inst : Retry(i)
         \/ InitialLoad \/ ReceiveHup \/ ReceiveDep \/ StartStopJobs \/ DeleteRemoved
         \/ Choose \/ ReconcileEnds \/ MainStart \/ MainSpawned
         \/ \E f \in File : Reload(f)
         \/ Reboot
<1>0. /\ rp \in [Inst -> RunningProc] /\ budget \in [Events -> Nat] /\ budget["ipc"] = 0
      /\ stopper \in [Caller -> [Prog -> StopState]] /\ ipc.at = "idle"
      /\ procs \in [Prog -> Inst \cup {NoInst}] /\ TypeOK
  BY DEF IInv, TypeOK, Unasked
<1>a. ASSUME NEW e \in Events, Spend(e)
      PROVE e # "ipc" /\ budget'["ipc"] = 0
  BY <1>0, <1>a DEF Spend, Events
<1>1. ASSUME NEW i \in Inst, CmdStart(i) PROVE Goal
  <2>1. /\ rp' = [rp EXCEPT ![i] = rp'[i]] /\ rp[i].at # "free"
        /\ rp'[i].at # "free" /\ rp'[i].prog = rp[i].prog /\ rp'[i].cfg = rp[i].cfg
        /\ Spawning(i)' => Spawning(i)
        /\ rp[i].done => rp'[i].done
    BY <1>1, <1>0 DEF CmdStart, RunningProc, Spawning
  <2>2. Unasked'
    BY <1>1, <1>0 DEF CmdStart, Unasked
  <2>3. Moves
    BY <1>1, <1>0, <2>1, MovesOne DEF CmdStart
  <2> QED
    BY <2>2, <2>3
<1>2. ASSUME NEW i \in Inst, CmdStartFails(i) PROVE Goal
  <2>1. /\ rp' = [rp EXCEPT ![i] = rp'[i]] /\ rp[i].at # "free"
        /\ rp'[i].at # "free" /\ rp'[i].prog = rp[i].prog /\ rp'[i].cfg = rp[i].cfg
        /\ Spawning(i)' => Spawning(i)
        /\ rp[i].done => rp'[i].done
    BY <1>2, <1>0 DEF CmdStartFails, RunningProc, Spawning
  <2>2. Unasked'
    BY <1>2, <1>0, <1>a DEF CmdStartFails, Unasked, Events
  <2>3. Moves
    BY <1>2, <1>0, <2>1, MovesOne DEF CmdStartFails
  <2> QED
    BY <2>2, <2>3
<1>3. ASSUME NEW i \in Inst, EmptyCommand(i) PROVE Goal
  <2>1. /\ rp' = [rp EXCEPT ![i] = rp'[i]] /\ rp[i].at # "free"
        /\ rp'[i].at # "free" /\ rp'[i].prog = rp[i].prog /\ rp'[i].cfg = rp[i].cfg
        /\ Spawning(i)' => Spawning(i)
        /\ rp[i].done => rp'[i].done
    BY <1>3, <1>0 DEF EmptyCommand, RunningProc, Spawning
  <2>2. Unasked'
    BY <1>3, <1>0 DEF EmptyCommand, Unasked
  <2>3. Moves
    BY <1>3, <1>0, <2>1, MovesOne DEF EmptyCommand
  <2> QED
    BY <2>2, <2>3
<1>4. ASSUME NEW i \in Inst, GoSupervise(i) PROVE Goal
  <2>1. /\ rp' = [rp EXCEPT ![i] = rp'[i]] /\ rp[i].at # "free"
        /\ rp'[i].at # "free" /\ rp'[i].prog = rp[i].prog /\ rp'[i].cfg = rp[i].cfg
        /\ Spawning(i)' => Spawning(i)
        /\ rp[i].done => rp'[i].done
    BY <1>4, <1>0 DEF GoSupervise, RunningProc, Spawning
  <2>2. Unasked'
    BY <1>4, <1>0 DEF GoSupervise, Unasked
  <2>3. Moves
    BY <1>4, <1>0, <2>1, MovesOne DEF GoSupervise
  <2> QED
    BY <2>2, <2>3
<1>5. ASSUME NEW i \in Inst, ChildExits(i) PROVE Goal
  <2>1. /\ rp' = [rp EXCEPT ![i] = rp'[i]] /\ rp[i].at # "free"
        /\ rp'[i].at # "free" /\ rp'[i].prog = rp[i].prog /\ rp'[i].cfg = rp[i].cfg
        /\ Spawning(i)' => Spawning(i)
        /\ rp[i].done => rp'[i].done
    BY <1>5, <1>0 DEF ChildExits, RunningProc, Spawning, IInv, Safe, PhaseInv, FreeRp
  <2>2. Unasked'
    BY <1>5, <1>0, <1>a DEF ChildExits, Unasked, Events
  <2>3. Moves
    BY <1>5, <1>0, <2>1, MovesOne DEF ChildExits
  <2> QED
    BY <2>2, <2>3
<1>6. ASSUME NEW i \in Inst, ChildDies(i) PROVE Goal
  <2>1. /\ rp' = [rp EXCEPT ![i] = rp'[i]] /\ rp[i].at # "free"
        /\ rp'[i].at # "free" /\ rp'[i].prog = rp[i].prog /\ rp'[i].cfg = rp[i].cfg
        /\ Spawning(i)' => Spawning(i)
        /\ rp[i].done => rp'[i].done
    BY <1>6, <1>0 DEF ChildDies, RunningProc, Spawning, IInv, Safe, PhaseInv, FreeRp
  <2>2. Unasked'
    BY <1>6, <1>0 DEF ChildDies, Unasked
  <2>3. Moves
    BY <1>6, <1>0, <2>1, MovesOne DEF ChildDies
  <2> QED
    BY <2>2, <2>3
<1>7. ASSUME NEW i \in Inst, Notice(i) PROVE Goal
  <2>1. /\ rp' = [rp EXCEPT ![i] = rp'[i]] /\ rp[i].at # "free"
        /\ rp'[i].at # "free" /\ rp'[i].prog = rp[i].prog /\ rp'[i].cfg = rp[i].cfg
        /\ Spawning(i)' => Spawning(i)
        /\ rp[i].done => rp'[i].done
    BY <1>7, <1>0 DEF Notice, RunningProc, Spawning
  <2>2. Unasked'
    BY <1>7, <1>0 DEF Notice, Unasked
  <2>3. Moves
    BY <1>7, <1>0, <2>1, MovesOne DEF Notice
  <2> QED
    BY <2>2, <2>3
<1>8. ASSUME NEW i \in Inst, CloseDone(i) PROVE Goal
  <2>1. /\ rp' = [rp EXCEPT ![i] = rp'[i]] /\ rp[i].at # "free"
        /\ rp'[i].at # "free" /\ rp'[i].prog = rp[i].prog /\ rp'[i].cfg = rp[i].cfg
        /\ Spawning(i)' => Spawning(i)
        /\ rp[i].done => rp'[i].done
    BY <1>8, <1>0 DEF CloseDone, RunningProc, Spawning
  <2>2. Unasked'
    BY <1>8, <1>0 DEF CloseDone, Unasked
  <2>3. Moves
    BY <1>8, <1>0, <2>1, MovesOne DEF CloseDone
  <2> QED
    BY <2>2, <2>3
<1>9. ASSUME NEW i \in Inst, RecordRan(i) PROVE Goal
  <2>1. /\ rp' = [rp EXCEPT ![i] = rp'[i]] /\ rp[i].at # "free"
        /\ rp'[i].at # "free" /\ rp'[i].prog = rp[i].prog /\ rp'[i].cfg = rp[i].cfg
        /\ Spawning(i)' => Spawning(i)
        /\ rp[i].done => rp'[i].done
    BY <1>9, <1>0 DEF RecordRan, RunningProc, Spawning
  <2>2. Unasked'
    BY <1>9, <1>0 DEF RecordRan, Unasked
  <2>3. Moves
    BY <1>9, <1>0, <2>1, MovesOne DEF RecordRan
  <2> QED
    BY <2>2, <2>3
<1>10. ASSUME NEW i \in Inst, markRanOnce(i) PROVE Goal
  <2>1. /\ rp' = [rp EXCEPT ![i] = rp'[i]] /\ rp[i].at # "free"
        /\ rp'[i].at # "free" /\ rp'[i].prog = rp[i].prog /\ rp'[i].cfg = rp[i].cfg
        /\ Spawning(i)' => Spawning(i)
        /\ rp[i].done => rp'[i].done
    BY <1>10, <1>0 DEF markRanOnce, RunningProc, Spawning
  <2>2. Unasked'
    BY <1>10, <1>0 DEF markRanOnce, Unasked
  <2>3. Moves
    BY <1>10, <1>0, <2>1, MovesOne DEF markRanOnce
  <2> QED
    BY <2>2, <2>3
<1>11. ASSUME NEW i \in Inst, SignalDeps(i) PROVE Goal
  <2>1. /\ rp' = [rp EXCEPT ![i] = rp'[i]] /\ rp[i].at # "free"
        /\ rp'[i].at # "free" /\ rp'[i].prog = rp[i].prog /\ rp'[i].cfg = rp[i].cfg
        /\ Spawning(i)' => Spawning(i)
        /\ rp[i].done => rp'[i].done
    BY <1>11, <1>0 DEF SignalDeps, RunningProc, Spawning
  <2>2. Unasked'
    BY <1>11, <1>0 DEF SignalDeps, Unasked
  <2>3. Moves
    BY <1>11, <1>0, <2>1, MovesOne DEF SignalDeps
  <2> QED
    BY <2>2, <2>3
<1>12. ASSUME NEW i \in Inst, Decide(i) PROVE Goal
  <2>1. /\ rp' = [rp EXCEPT ![i] = rp'[i]] /\ rp[i].at # "free"
        /\ rp'[i].at # "free" /\ rp'[i].prog = rp[i].prog /\ rp'[i].cfg = rp[i].cfg
        /\ Spawning(i)' => Spawning(i)
        /\ rp[i].done => rp'[i].done
    BY <1>12, <1>0 DEF Decide, RunningProc, Spawning
  <2>2. Unasked'
    BY <1>12, <1>0 DEF Decide, Unasked
  <2>3. Moves
    BY <1>12, <1>0, <2>1, MovesOne DEF Decide
  <2> QED
    BY <2>2, <2>3
<1>13. ASSUME NEW i \in Inst, GiveUp(i) PROVE Goal
  <2>1. /\ rp' = [rp EXCEPT ![i] = rp'[i]] /\ rp[i].at # "free"
        /\ rp'[i].at # "free" /\ rp'[i].prog = rp[i].prog /\ rp'[i].cfg = rp[i].cfg
        /\ Spawning(i)' => Spawning(i)
        /\ rp[i].done => rp'[i].done
    BY <1>13, <1>0 DEF GiveUp, RunningProc, Spawning
  <2>2. Unasked'
    BY <1>13, <1>0 DEF GiveUp, Unasked
  <2>3. Moves
    BY <1>13, <1>0, <2>1, MovesOne DEF GiveUp
  <2> QED
    BY <2>2, <2>3
<1>14. ASSUME NEW i \in Inst, Retry(i) PROVE Goal
  BY <1>14 DEF Retry, Unasked
<1>15. ASSUME NEW c \in Caller, NEW p \in Prog, StopLookup(c, p) PROVE Goal
  <2> DEFINE s == IF procs[p] = NoInst THEN Off ELSE [at |-> "mark", rp |-> procs[p]]
  <2>1. stopper' = [stopper EXCEPT ![c][p] = s]
    BY <1>15, <1>0 DEF StopLookup
  <2>2. \A k \in Inst : /\ rp'[k].at = rp[k].at /\ rp'[k].prog = rp[k].prog
                       /\ rp'[k].cfg = rp[k].cfg /\ (rp[k].done => rp'[k].done)
    BY <1>15, <1>0 DEF StopLookup
  <2>3. stopper'[c][p] = s
    BY <1>0, <2>1
  <2>4. ASSUME c = "main", ToStop(p) PROVE ToStop(p)'
    <3>1. /\ UNCHANGED procs /\ (Alive(p)' => Alive(p))
          /\ Alive(p) => procs[p] \in Inst /\ ~Done(procs[p])
      BY <1>15, <1>0, <2>2 DEF StopLookup, Alive, Done
    <3> QED
      BY <1>15, <1>0, <2>3, <2>4, <3>1 DEF StopLookup, ToStop, Alive, Done, Off
  <2>5. Unasked'
    BY <1>15 DEF StopLookup, Unasked
  <2>6. UNCHANGED <<progs, procs, main, file, ranOnce>>
    BY <1>15 DEF StopLookup
  <2> HIDE DEF s
  <2>7. Moves
    BY <1>0, <2>1, <2>2, <2>4, <2>6, MovesStop
  <2> QED
    BY <2>5, <2>7
<1>16. ASSUME NEW c \in Caller, NEW p \in Prog, StopMark(c, p) PROVE Goal
  <2> DEFINE s == [at |-> "term", rp |-> stopper[c][p].rp]
  <2>1. stopper' = [stopper EXCEPT ![c][p] = s]
    BY <1>16, <1>0 DEF StopMark
  <2>2. \A k \in Inst : /\ rp'[k].at = rp[k].at /\ rp'[k].prog = rp[k].prog
                       /\ rp'[k].cfg = rp[k].cfg /\ (rp[k].done => rp'[k].done)
    BY <1>16, <1>0 DEF StopMark, RunningProc
  <2>3. stopper'[c][p] = s
    BY <1>0, <2>1
  <2>4. ASSUME c = "main", ToStop(p) PROVE ToStop(p)'
    <3>1. /\ UNCHANGED procs /\ (Alive(p)' => Alive(p))
          /\ Alive(p) => procs[p] \in Inst /\ ~Done(procs[p])
      BY <1>16, <1>0, <2>2 DEF StopMark, Alive, Done
    <3> QED
      BY <1>16, <1>0, <2>3, <2>4, <3>1 DEF StopMark, ToStop, Alive, Done, Off
  <2>5. Unasked'
    BY <1>16 DEF StopMark, Unasked
  <2>6. UNCHANGED <<progs, procs, main, file, ranOnce>>
    BY <1>16 DEF StopMark
  <2> HIDE DEF s
  <2>7. Moves
    BY <1>0, <2>1, <2>2, <2>4, <2>6, MovesStop
  <2> QED
    BY <2>5, <2>7
<1>17. ASSUME NEW c \in Caller, NEW p \in Prog, Signal(c, p) PROVE Goal
  <2> DEFINE s == [at |-> "wait", rp |-> stopper[c][p].rp]
  <2>1. stopper' = [stopper EXCEPT ![c][p] = s]
    BY <1>17, <1>0 DEF Signal
  <2>2. \A k \in Inst : /\ rp'[k].at = rp[k].at /\ rp'[k].prog = rp[k].prog
                       /\ rp'[k].cfg = rp[k].cfg /\ (rp[k].done => rp'[k].done)
    BY <1>17, <1>0 DEF Signal, RunningProc
  <2>3. stopper'[c][p] = s
    BY <1>0, <2>1
  <2>4. ASSUME c = "main", ToStop(p) PROVE ToStop(p)'
    <3>1. /\ UNCHANGED procs /\ (Alive(p)' => Alive(p))
          /\ Alive(p) => procs[p] \in Inst /\ ~Done(procs[p])
      BY <1>17, <1>0, <2>2 DEF Signal, Alive, Done
    <3> QED
      BY <1>17, <1>0, <2>3, <2>4, <3>1 DEF Signal, ToStop, Alive, Done, Off
  <2>5. Unasked'
    BY <1>17 DEF Signal, Unasked
  <2>6. UNCHANGED <<progs, procs, main, file, ranOnce>>
    BY <1>17 DEF Signal
  <2> HIDE DEF s
  <2>7. Moves
    BY <1>0, <2>1, <2>2, <2>4, <2>6, MovesStop
  <2> QED
    BY <2>5, <2>7
<1>18. ASSUME NEW c \in Caller, NEW p \in Prog, NothingToSignal(c, p) PROVE Goal
  <2> DEFINE s == IF Done(stopper[c][p].rp) THEN Off ELSE [at |-> "close", rp |-> stopper[c][p].rp]
  <2>1. stopper' = [stopper EXCEPT ![c][p] = s]
    BY <1>18, <1>0 DEF NothingToSignal
  <2>2. \A k \in Inst : /\ rp'[k].at = rp[k].at /\ rp'[k].prog = rp[k].prog
                       /\ rp'[k].cfg = rp[k].cfg /\ (rp[k].done => rp'[k].done)
    BY <1>18, <1>0 DEF NothingToSignal
  <2>3. stopper'[c][p] = s
    BY <1>0, <2>1
  <2>4. ASSUME c = "main", ToStop(p) PROVE ToStop(p)'
    <3>1. /\ UNCHANGED procs /\ (Alive(p)' => Alive(p))
          /\ Alive(p) => procs[p] \in Inst /\ ~Done(procs[p])
      BY <1>18, <1>0, <2>2 DEF NothingToSignal, Alive, Done
    <3> QED
      BY <1>18, <1>0, <2>3, <2>4, <3>1 DEF NothingToSignal, ToStop, Alive, Done, Off
  <2>5. Unasked'
    BY <1>18 DEF NothingToSignal, Unasked
  <2>6. UNCHANGED <<progs, procs, main, file, ranOnce>>
    BY <1>18 DEF NothingToSignal
  <2> HIDE DEF s
  <2>7. Moves
    BY <1>0, <2>1, <2>2, <2>4, <2>6, MovesStop
  <2> QED
    BY <2>5, <2>7
<1>19. ASSUME NEW c \in Caller, NEW p \in Prog, CloseForWaiters(c, p) PROVE Goal
  <2> DEFINE s == Off
  <2>1. stopper' = [stopper EXCEPT ![c][p] = s]
    BY <1>19, <1>0 DEF CloseForWaiters
  <2>2. \A k \in Inst : /\ rp'[k].at = rp[k].at /\ rp'[k].prog = rp[k].prog
                       /\ rp'[k].cfg = rp[k].cfg /\ (rp[k].done => rp'[k].done)
    BY <1>19, <1>0 DEF CloseForWaiters, RunningProc
  <2>3. stopper'[c][p] = s
    BY <1>0, <2>1
  <2>4. ASSUME c = "main", ToStop(p) PROVE ToStop(p)'
    <3>1. /\ UNCHANGED procs /\ (Alive(p)' => Alive(p))
          /\ Alive(p) => procs[p] \in Inst /\ ~Done(procs[p])
      BY <1>19, <1>0, <2>2 DEF CloseForWaiters, Alive, Done
    <3> QED
      BY <1>19, <1>0, <2>3, <2>4, <3>1 DEF CloseForWaiters, ToStop, Alive, Done, Off
  <2>5. Unasked'
    BY <1>19 DEF CloseForWaiters, Unasked
  <2>6. UNCHANGED <<progs, procs, main, file, ranOnce>>
    BY <1>19 DEF CloseForWaiters
  <2> HIDE DEF s
  <2>7. Moves
    BY <1>0, <2>1, <2>2, <2>4, <2>6, MovesStop
  <2> QED
    BY <2>5, <2>7
<1>20. ASSUME NEW c \in Caller, NEW p \in Prog, StopReturns(c, p) PROVE Goal
  <2> DEFINE s == Off
  <2>1. stopper' = [stopper EXCEPT ![c][p] = s]
    BY <1>20, <1>0 DEF StopReturns
  <2>2. \A k \in Inst : /\ rp'[k].at = rp[k].at /\ rp'[k].prog = rp[k].prog
                       /\ rp'[k].cfg = rp[k].cfg /\ (rp[k].done => rp'[k].done)
    BY <1>20, <1>0 DEF StopReturns
  <2>3. stopper'[c][p] = s
    BY <1>0, <2>1
  <2>4. ASSUME c = "main", ToStop(p) PROVE ToStop(p)'
    <3>1. /\ UNCHANGED procs /\ (Alive(p)' => Alive(p))
          /\ Alive(p) => procs[p] \in Inst /\ ~Done(procs[p])
      BY <1>20, <1>0, <2>2 DEF StopReturns, Alive, Done
    <3> QED
      BY <1>20, <1>0, <2>3, <2>4, <3>1 DEF StopReturns, ToStop, Alive, Done, Off
  <2>5. Unasked'
    BY <1>20 DEF StopReturns, Unasked
  <2>6. UNCHANGED <<progs, procs, main, file, ranOnce>>
    BY <1>20 DEF StopReturns
  <2> HIDE DEF s
  <2>7. Moves
    BY <1>0, <2>1, <2>2, <2>4, <2>6, MovesStop
  <2> QED
    BY <2>5, <2>7
<1>21. ASSUME InitialLoad PROVE Goal
  BY <1>21 DEF InitialLoad, Unasked
<1>22. ASSUME ReceiveHup PROVE Goal
  BY <1>22 DEF ReceiveHup, Unasked
<1>23. ASSUME ReceiveDep PROVE Goal
  BY <1>23 DEF ReceiveDep, Unasked
<1>24. ASSUME StartStopJobs PROVE Goal
  BY <1>24 DEF StartStopJobs, Unasked
<1>25. ASSUME DeleteRemoved PROVE Goal
  BY <1>25 DEF DeleteRemoved, Unasked
<1>26. ASSUME Choose PROVE Goal
  BY <1>26 DEF Choose, Unasked
<1>27. ASSUME ReconcileEnds PROVE Goal
  BY <1>27 DEF ReconcileEnds, Unasked
<1>28. ASSUME MainStart PROVE Goal
  BY <1>28 DEF MainStart, Unasked
<1>29. ASSUME MainSpawned PROVE Goal
  BY <1>29 DEF MainSpawned, Unasked
<1>30. ASSUME NEW f \in File, Reload(f) PROVE Goal
  BY <1>30, <1>a DEF Reload, Unasked, Events
<1>31. ASSUME NEW p \in Prog, handleStart(p) PROVE Goal
  BY <1>31, <1>a DEF handleStart, Events
<1>32. ASSUME NEW p \in Prog, handleStop(p) PROVE Goal
  BY <1>32, <1>a DEF handleStop, Events
<1>33. ASSUME NEW p \in Prog, handleRestart(p) PROVE Goal
  BY <1>33, <1>a DEF handleRestart, Events
<1>34. ASSUME IpcStopped PROVE Goal
  BY <1>34, <1>0 DEF IpcStopped
<1>35. ASSUME IpcStart PROVE Goal
  BY <1>35, <1>0 DEF IpcStart
<1>36. ASSUME IpcSpawned PROVE Goal
  BY <1>36, <1>0 DEF IpcSpawned
<1>37. ASSUME Shutdown PROVE Goal
  <2>1. /\ UNCHANGED <<progs, procs, main, file, ranOnce, rp>> /\ Unasked'
        /\ \A p \in Prog : stopper'["main"][p] = stopper["main"][p]
    BY <1>37, <1>0, <1>a DEF Shutdown, Unasked, Events, Caller
  <2>2. Moves
    BY <2>1 DEF Moves, ToStop, Alive, Done, Spawning
  <2> QED
    BY <2>1, <2>2
<1>38. ASSUME ExitKas PROVE Goal
  BY <1>38 DEF ExitKas, Unasked, Moves, ToStop, Alive, Done, Spawning
<1>39. ASSUME Reboot PROVE Goal
  BY <1>39, <1>0, <1>a DEF Reboot, Unasked, IdleIpc, Events
<1>40. CASE UNCHANGED vars
  BY <1>40 DEF vars, chans, Unasked, Moves, ToStop, Alive, Done, Spawning
<1> QED
  BY <1>1, <1>2, <1>3, <1>4, <1>5, <1>6, <1>7, <1>8, <1>9, <1>10, <1>11, <1>12,
     <1>13, <1>14, <1>15, <1>16, <1>17, <1>18, <1>19, <1>20, <1>21, <1>22,
     <1>23, <1>24, <1>25, <1>26, <1>27, <1>28, <1>29, <1>30, <1>31, <1>32,
     <1>33, <1>34, <1>35, <1>36, <1>37, <1>38, <1>39, <1>40, Steps

\* What parseConfig and the first part of reconcile leave.
LEMMA LoadFacts ==
  ASSUME Load
  PROVE /\ main'.at \in {"idle", "jobs"} /\ main'.todo = {}
        /\ UNCHANGED progs \/ (file # BadFile /\ progs' = file)
<1>1. CASE file = BadFile
  BY <1>1 DEF Load, IdleMain
<1>2. CASE file # BadFile
  <2> DEFINE jobs == {p \in Prog :
                       /\ progs[p] # Absent
                       /\ file[p] = Absent \/ configChanged(progs[p], file[p])}
  <2>1. progs' = file /\ main' = [IdleMain EXCEPT !.at = "jobs", !.jobs = jobs]
    BY <1>2 DEF Load
  <2> HIDE DEF jobs
  <2> QED
    BY <1>2, <2>1 DEF IdleMain
<1> QED
  BY <1>1, <1>2

\* Nothing is loaded or started at first.
LEMMA InitConfig == ByItself /\ Init => Unasked /\ ConfigInv /\ StrayInv
<1> SUFFICES ASSUME ByItself, Init PROVE Unasked /\ ConfigInv /\ StrayInv
  OBVIOUS
<1>1. Unasked
  BY DEF ByItself, Init, Unasked, IdleIpc
<1>2. ConfigInv
  BY DEF Init, ConfigInv, FreeRp, IdleMain
<1>3. StrayInv
  BY DEF Init, StrayInv, Alive, IdleMain
<1> QED
  BY <1>1, <1>2, <1>3

\* kas has loaded a file of Files or started nothing, and the start loop works
\* on programs of that file.
LEMMA ConfigStep ==
  ASSUME IInv, Unasked, ConfigInv, [Next]_vars
  PROVE ConfigInv'
<1>0. /\ rp \in [Inst -> RunningProc] /\ main \in MainState /\ progs \in ProgMap
  BY DEF IInv, TypeOK
<1>1. CASE Moves
  BY <1>1 DEF Moves, ConfigInv
<1>2. ASSUME NEW i \in Inst, Retry(i) PROVE ConfigInv'
  <2>1. PICK j \in Inst :
          rp' = [rp EXCEPT ![i].at = "end",
                           ![j] = Fresh(rp[i].prog, rp[i].cfg, rp[i].tries + 1)]
    BY <1>2 DEF Retry
  <2>2. \A k \in Inst : rp'[k].cfg \in {rp[k].cfg, rp[i].cfg}
    BY <1>0, <2>1 DEF Fresh, FreeRp, RunningProc
  <2>3. \A k \in Inst : rp'[k].at # "free" => rp[k].at # "free" \/ rp'[k].cfg = rp[i].cfg
    BY <1>0, <2>1 DEF Fresh, FreeRp, RunningProc
  <2>4. rp[i].at # "free" /\ UNCHANGED <<progs, main, file>>
    BY <1>2 DEF Retry
  <2> QED
    BY <2>2, <2>3, <2>4 DEF ConfigInv
<1>3. CASE InitialLoad
  BY <1>3, LoadFacts DEF InitialLoad, ConfigInv, Files
<1>4. CASE ReceiveHup
  BY <1>4, LoadFacts DEF ReceiveHup, ConfigInv, Files
<1>5. CASE ReceiveDep
  BY <1>5 DEF ReceiveDep, ConfigInv, IdleMain
<1>6. CASE StartStopJobs
  BY <1>6, <1>0 DEF StartStopJobs, ConfigInv, MainState
<1>7. CASE DeleteRemoved
  BY <1>7 DEF DeleteRemoved, ConfigInv, IdleMain
<1>8. CASE Choose
  BY <1>8, <1>0 DEF Choose, ShouldStart, ConfigInv, MainState
<1>9. CASE ReconcileEnds
  BY <1>9 DEF ReconcileEnds, ConfigInv, IdleMain
<1>10. CASE MainStart
  <2>1. /\ UNCHANGED <<progs, file>> /\ main.at = "start"
        /\ main'.todo = main.todo /\ main'.at # "start"
    BY <1>10, <1>0 DEF MainStart, MainState
  <2>2. CASE UNCHANGED rp
    BY <2>1, <2>2 DEF ConfigInv
  <2>3. ASSUME NEW j \in Inst, StartFresh(j, main.prog, progs[main.prog])
        PROVE ConfigInv'
    <3>1. \A k \in Inst : rp'[k] = rp[k] \/ rp'[k].cfg = progs[main.prog]
      BY <1>0, <2>3 DEF StartFresh, Fresh, FreeRp
    <3>2. main.prog \in Prog /\ progs[main.prog] # Absent /\ progs \in Files
      BY <1>0, <2>1 DEF ConfigInv, MainState
    <3> QED
      BY <2>1, <3>1, <3>2 DEF ConfigInv
  <2> QED
    BY <1>10, <2>2, <2>3 DEF MainStart, AlreadyRunning
<1>11. CASE MainSpawned
  BY <1>11, <1>0 DEF MainSpawned, ConfigInv, MainState
<1>12. ASSUME NEW f \in File, Reload(f) PROVE ConfigInv'
  BY <1>12 DEF Reload, ConfigInv
<1>13. CASE Reboot
  BY <1>13 DEF Reboot, ConfigInv, FreeRp, IdleMain
<1> QED
  BY <1>1, <1>2, <1>3, <1>4, <1>5, <1>6, <1>7, <1>8, <1>9, <1>10, <1>11, <1>12,
     <1>13, ByItselfSteps

\* Only the start of a program makes it alive.
LEMMA StrayStep ==
  ASSUME IInv, Unasked, ConfigInv, StrayInv, [Next]_vars
  PROVE StrayInv'
<1>0. /\ rp \in [Inst -> RunningProc] /\ main \in MainState /\ progs \in ProgMap
      /\ procs \in [Prog -> Inst \cup {NoInst}]
      /\ stopper \in [Caller -> [Prog -> StopState]] /\ NoInst \notin Inst
  BY KasAssumption DEF IInv, TypeOK
<1>1. CASE Moves
  <2>1. /\ UNCHANGED <<progs, main>>
        /\ \A p \in Prog : /\ Alive(p)' => Alive(p)
                           /\ ToStop(p) => ToStop(p)'
                           /\ Stray(p)' = Stray(p)
    BY <1>1, <1>0 DEF Moves, Alive, Done, Stray
  <2> QED
    BY <2>1 DEF StrayInv
<1>2. ASSUME NEW i \in Inst, Retry(i) PROVE StrayInv'
  <2>1. PICK j \in Inst :
          /\ Unused(j)
          /\ procs' = [procs EXCEPT ![rp[i].prog] = j]
          /\ rp' = [rp EXCEPT ![i].at = "end",
                              ![j] = Fresh(rp[i].prog, rp[i].cfg, rp[i].tries + 1)]
    BY <1>2 DEF Retry
  <2> DEFINE p == rp[i].prog
  <2>2. /\ p \in Prog /\ rp[i].at = "sleep" /\ ~Stray(p) /\ rp[j].at = "free"
        /\ UNCHANGED <<progs, main, stopper>>
    BY <1>2, <2>1 DEF Retry, WantRestart, RestartsItself, Stray, Unused, IInv, Safe, PhaseInv
  <2> HIDE DEF p
  <2>3. ASSUME NEW q \in Prog, q # p
        PROVE /\ procs'[q] = procs[q] /\ (Alive(q)' <=> Alive(q))
              /\ (ToStop(q) <=> ToStop(q)')
    <3>1. procs'[q] = procs[q]
      BY <1>0, <2>1, <2>2, <2>3 DEF p
    <3>2. procs[q] # NoInst => procs[q] \in Inst /\ procs[q] # j
      BY <1>0, <2>2 DEF IInv, Safe, NameInv
    <3>3. procs[q] # NoInst => rp'[procs[q]].done = rp[procs[q]].done
      BY <1>0, <2>1, <3>2 DEF RunningProc
    <3> QED
      BY <2>2, <3>1, <3>3 DEF Alive, Done, ToStop
  <2> QED
    BY <2>2, <2>3 DEF StrayInv, Stray
<1>3. ASSUME InitialLoad \/ ReceiveHup PROVE StrayInv'
  <2>1. /\ Load /\ UNCHANGED <<procs, rp>> /\ main.at \in {"begin", "idle"}
    BY <1>3 DEF InitialLoad, ReceiveHup
  <2>2. \A p \in Prog : (Alive(p)' <=> Alive(p)) /\ (Stray(p) => ~Alive(p))
    BY <2>1 DEF Alive, Done, StrayInv
  <2>3. CASE file = BadFile
    <3>1. UNCHANGED progs /\ main'.at = "idle"
      BY <2>1, <2>3 DEF Load, IdleMain
    <3> QED
      BY <2>2, <3>1 DEF StrayInv, Stray
  <2>4. CASE file # BadFile
    <3>1. progs' = file /\ main'.at = "jobs"
      BY <2>1, <2>4 DEF Load, IdleMain
    <3>2. \A p \in Prog : progs[p] # Absent /\ file[p] = Absent => p \in main'.jobs
      BY <2>1, <2>4 DEF Load, IdleMain
    <3> QED
      BY <2>2, <3>1, <3>2 DEF StrayInv, Stray
  <2> QED
    BY <2>3, <2>4
<1>4. CASE ReceiveDep
  <2>1. \A p \in Prog : (Alive(p)' <=> Alive(p)) /\ (Stray(p) => ~Alive(p))
    BY <1>4 DEF ReceiveDep, Alive, Done, StrayInv
  <2> QED
    BY <1>4, <2>1 DEF ReceiveDep, StrayInv, Stray, IdleMain
<1>5. CASE StartStopJobs
  <2>1. /\ UNCHANGED <<progs, procs, rp>> /\ main.at = "jobs" /\ main'.at = "stopping"
    BY <1>5, <1>0 DEF StartStopJobs, MainState
  <2>2. ASSUME NEW p \in Prog, Stray(p)' PROVE ToStop(p)'
    <3>1. SUFFICES ASSUME Alive(p) PROVE stopper'["main"][p] = Call
      BY <2>1 DEF ToStop, Alive, Done, Call
    <3>2. p \in main.jobs \cup {q \in Prog : progs[q] # Absent /\ ~progs[q].auto /\ Alive(q)}
      BY <2>1, <2>2, <3>1 DEF StrayInv, Stray
    <3> QED
      BY <1>5, <1>0, <3>2 DEF StartStopJobs, Caller
  <2> QED
    BY <2>1, <2>2 DEF StrayInv
<1>6. CASE DeleteRemoved
  <2>1. /\ \A p \in Prog : procs'[p] \in {procs[p], NoInst}
        /\ UNCHANGED <<progs, rp>> /\ main'.at = "choose" /\ main.at = "stopping"
        /\ Returned("main")
    BY <1>6 DEF DeleteRemoved, IdleMain
  <2>2. ASSUME NEW p \in Prog, Stray(p)' PROVE ~Alive(p)'
    <3>1. ToStop(p)
      BY <2>1, <2>2 DEF StrayInv, Stray
    <3>2. ~Alive(p)
      BY <2>1, <3>1 DEF ToStop, Returned, Called
    <3> QED
      BY <2>1, <3>2 DEF Alive, Done
  <2> QED
    BY <2>1, <2>2 DEF StrayInv
<1>7. ASSUME Choose \/ ReconcileEnds \/ MainSpawned PROVE StrayInv'
  <2>1. /\ UNCHANGED <<progs, procs, rp>> /\ main.at \notin {"jobs", "stopping"}
    BY <1>7 DEF Choose, ReconcileEnds, MainSpawned
  <2>2. main'.at \notin {"jobs", "stopping"}
    <3>1. CASE Choose
      BY <1>0, <3>1 DEF Choose, MainState
    <3>2. CASE ReconcileEnds
      BY <3>2 DEF ReconcileEnds, IdleMain
    <3>3. CASE MainSpawned
      BY <1>0, <3>3 DEF MainSpawned, MainState
    <3> QED
      BY <1>7, <3>1, <3>2, <3>3
  <2> QED
    BY <2>1, <2>2 DEF StrayInv, Stray, Alive, Done
<1>8. CASE MainStart
  <2>1. /\ UNCHANGED progs /\ main.at = "start" /\ main.prog \in Prog
        /\ main'.at \notin {"jobs", "stopping"} /\ ~Stray(main.prog)
    BY <1>8, <1>0 DEF MainStart, MainState, ConfigInv, Stray
  <2>2. CASE UNCHANGED <<procs, rp>>
    BY <2>1, <2>2 DEF StrayInv, Stray, Alive, Done
  <2>3. ASSUME NEW j \in Inst, StartFresh(j, main.prog, progs[main.prog])
        PROVE StrayInv'
    <3>1. ASSUME NEW q \in Prog, q # main.prog PROVE Alive(q)' <=> Alive(q)
      <4>1. procs'[q] = procs[q]
        BY <1>0, <2>3, <3>1 DEF StartFresh
      <4>2. procs[q] # NoInst => procs[q] # j /\ procs[q] \in Inst
        BY <1>0, <2>3 DEF StartFresh, Unused, IInv, Safe, NameInv
      <4>3. procs[q] # NoInst => rp'[procs[q]] = rp[procs[q]]
        BY <1>0, <2>3, <4>2 DEF StartFresh
      <4> QED
        BY <4>1, <4>3 DEF Alive, Done
    <3> QED
      BY <2>1, <3>1 DEF StrayInv, Stray
  <2> QED
    BY <1>8, <2>2, <2>3 DEF MainStart, AlreadyRunning
<1>9. ASSUME NEW f \in File, Reload(f) PROVE StrayInv'
  BY <1>9 DEF Reload, StrayInv, Stray, ToStop, Alive, Done
<1>10. CASE Reboot
  BY <1>10 DEF Reboot, StrayInv, Alive, IdleMain
<1> QED
  BY <1>1, <1>2, <1>3, <1>4, <1>5, <1>6, <1>7, <1>8, <1>9, <1>10, ByItselfSteps

\* The steps of the main goroutine that start nothing.
LEMMA NotStarting ==
  ASSUME TypeOK,
         \/ InitialLoad \/ ReceiveHup \/ ReceiveDep \/ StartStopJobs
         \/ DeleteRemoved \/ ReconcileEnds \/ MainSpawned
  PROVE UNCHANGED <<rp, ranOnce>> /\ main'.at # "start"
<1>0. main \in MainState
  BY DEF TypeOK
<1>1. ASSUME InitialLoad \/ ReceiveHup PROVE UNCHANGED <<rp, ranOnce>> /\ main'.at # "start"
  BY <1>1, LoadFacts DEF InitialLoad, ReceiveHup
<1>2. CASE ReceiveDep
  BY <1>2 DEF ReceiveDep, IdleMain
<1>3. CASE StartStopJobs
  BY <1>0, <1>3 DEF StartStopJobs, MainState
<1>4. CASE DeleteRemoved
  BY <1>4 DEF DeleteRemoved, IdleMain
<1>5. CASE ReconcileEnds
  BY <1>5 DEF ReconcileEnds, IdleMain
<1>6. CASE MainSpawned
  BY <1>0, <1>6 DEF MainSpawned, MainState
<1> QED
  BY <1>1, <1>2, <1>3, <1>4, <1>5, <1>6

\* Whatever is started starts after the once programs it depends on, also by
\* supervise, which does not look at them again.
LEMMA DepsStep ==
  ASSUME FixedTypes, IInv, Unasked, ConfigInv, DepsInv, [Next]_vars
  PROVE DepsInv'
<1>0. /\ rp \in [Inst -> RunningProc] /\ main \in MainState /\ progs \in ProgMap
  BY DEF IInv, TypeOK
<1>1. CASE Moves
  BY <1>1 DEF Moves, DepsInv, OnceRun
<1>2. ASSUME NEW i \in Inst, Retry(i) PROVE DepsInv'
  <2>1. PICK j \in Inst :
          rp' = [rp EXCEPT ![i].at = "end",
                           ![j] = Fresh(rp[i].prog, rp[i].cfg, rp[i].tries + 1)]
    BY <1>2 DEF Retry
  <2>2. \A k \in Inst :
          rp'[k].at # "free" =>
            (rp[k].at # "free" /\ rp'[k].cfg = rp[k].cfg) \/ rp'[k].cfg = rp[i].cfg
    BY <1>0, <2>1 DEF Fresh, FreeRp, RunningProc
  <2>3. rp[i].at # "free" /\ UNCHANGED <<progs, main, ranOnce>>
    BY <1>2 DEF Retry
  <2> QED
    BY <2>2, <2>3 DEF DepsInv, OnceRun
<1>3. ASSUME \/ InitialLoad \/ ReceiveHup \/ ReceiveDep \/ StartStopJobs
             \/ DeleteRemoved \/ ReconcileEnds \/ MainSpawned
      PROVE DepsInv'
  <2>1. UNCHANGED <<rp, ranOnce>> /\ main'.at # "start"
    BY <1>3, NotStarting DEF IInv
  <2> QED
    BY <2>1 DEF DepsInv, OnceRun
<1>4. CASE Choose
  <2>1. /\ UNCHANGED <<progs, rp, ranOnce>>
        /\ main'.at = "start" => /\ main'.prog \in main.todo /\ main'.prog \in Prog
                                 /\ depsReady(progs[main'.prog])
    BY <1>4, <1>0 DEF Choose, ShouldStart, MainState
  <2>2. ASSUME main'.at = "start" PROVE OnceRun(progs[main'.prog])
    <3>1. progs[main'.prog] \in Config /\ progs \in Files
      BY <1>0, <2>1, <2>2 DEF ConfigInv, ProgMap
    <3>2. \A d \in progs[main'.prog].deps :
            d \in Prog /\ progs[d] # Absent /\ (progs[d].once => d \in ranOnce)
      BY <2>1, <2>2, <3>1, KasAssumption DEF depsReady
    <3> QED
      BY <3>1, <3>2 DEF OnceRun, FixedTypes
  <2> QED
    BY <2>1, <2>2 DEF DepsInv, OnceRun
<1>5. CASE MainStart
  <2>1. UNCHANGED ranOnce /\ main'.at # "start" /\ main.at = "start"
    BY <1>5, <1>0 DEF MainStart, MainState
  <2>2. ASSUME NEW j \in Inst, StartFresh(j, main.prog, progs[main.prog])
        PROVE \A k \in Inst : rp'[k] = rp[k] \/ rp'[k].cfg = progs[main.prog]
    BY <1>0, <2>2 DEF StartFresh, Fresh, FreeRp
  <2>3. UNCHANGED rp \/ \A k \in Inst : rp'[k] = rp[k] \/ rp'[k].cfg = progs[main.prog]
    BY <1>5, <2>2 DEF MainStart, AlreadyRunning
  <2> QED
    BY <2>1, <2>3 DEF DepsInv, OnceRun
<1>6. ASSUME NEW f \in File, Reload(f) PROVE DepsInv'
  BY <1>6 DEF Reload, DepsInv, OnceRun
<1>7. CASE Reboot
  BY <1>7 DEF Reboot, DepsInv, FreeRp, IdleMain
<1> QED
  BY <1>1, <1>2, <1>3, <1>4, <1>5, <1>6, <1>7, ByItselfSteps

\* A once program is started for an empty entry only, and then the entry stays.
LEMMA OnceStep ==
  ASSUME FixedTypes, OnceStays, IInv, Unasked, ConfigInv, OnceInv, [Next]_vars
  PROVE OnceInv'
<1>0. /\ rp \in [Inst -> RunningProc] /\ main \in MainState /\ progs \in ProgMap
      /\ procs \in [Prog -> Inst \cup {NoInst}] /\ NoInst \notin Inst
      /\ \A i \in Inst : rp[i].at # "free" => rp[i].prog \in Prog
  BY KasAssumption DEF IInv, TypeOK, Safe, PhaseInv
<1>1. CASE Moves
  <2>1. ASSUME NEW i \in Inst, rp[i].at # "free", OnceType(rp[i].prog), Spawning(i)
        PROVE rp[i].prog \notin ranOnce'
    <3>1. procs[rp[i].prog] = i /\ rp[i].prog \notin ranOnce
      BY <2>1 DEF OnceInv
    <3>2. ASSUME NEW k \in Inst, rp[k].prog = rp[i].prog, rp[k].at = "closed" PROVE FALSE
      <4>1. k = i
        BY <2>1, <3>1, <3>2 DEF OnceInv
      <4> QED
        BY <2>1, <3>2, <4>1 DEF Spawning
    <3> QED
      BY <1>1, <3>1, <3>2 DEF Moves
  <2>2. ASSUME main.at = "start", OnceType(main.prog) PROVE main.prog \notin ranOnce'
    <3>1. procs[main.prog] = NoInst /\ main.prog \notin ranOnce
      BY <2>2 DEF OnceInv
    <3>2. ASSUME NEW k \in Inst, rp[k].prog = main.prog, rp[k].at = "closed" PROVE FALSE
      BY <1>0, <2>2, <3>1, <3>2 DEF OnceInv
    <3> QED
      BY <1>1, <3>1, <3>2 DEF Moves
  <2>3. ASSUME NEW i \in Inst, rp'[i].at # "free"
        PROVE /\ rp'[i].cfg.once <=> OnceType(rp'[i].prog)
              /\ OnceType(rp'[i].prog) => procs'[rp'[i].prog] = i
              /\ OnceType(rp'[i].prog) /\ Spawning(i)' => rp'[i].prog \notin ranOnce'
    BY <1>1, <2>1, <2>3 DEF Moves, OnceInv
  <2>4. main'.at = "start" /\ OnceType(main'.prog) =>
          procs'[main'.prog] = NoInst /\ main'.prog \notin ranOnce'
    BY <1>1, <2>2 DEF Moves, OnceInv
  <2> QED
    BY <2>3, <2>4 DEF OnceInv
<1>2. ASSUME NEW i \in Inst, Retry(i) PROVE OnceInv'
  <2> DEFINE p == rp[i].prog
             r == Fresh(p, rp[i].cfg, rp[i].tries + 1)
  <2>1. PICK j \in Inst :
          /\ Unused(j)
          /\ procs' = [procs EXCEPT ![p] = j]
          /\ rp' = [rp EXCEPT ![i].at = "end", ![j] = r]
    BY <1>2 DEF Retry
  <2>2. /\ p \in Prog /\ rp[i].at = "sleep" /\ ~OnceType(p) /\ rp[j].at = "free"
        /\ UNCHANGED <<progs, main, ranOnce>>
    <3>1. /\ rp[i].at = "sleep" /\ UNCHANGED <<progs, main, ranOnce>>
          /\ progs[p] # Absent /\ progs[p].restart /\ rp[j].at = "free"
      BY <1>2, <2>1 DEF Retry, WantRestart, RestartsItself, Unused
    <3>2. progs \in Files /\ p \in Prog
      BY <1>0, <3>1 DEF ConfigInv
    <3> QED
      BY <3>1, <3>2 DEF OnceStays
  <2>3. r.prog = p /\ r.cfg = rp[i].cfg
    BY DEF Fresh, FreeRp
  <2> HIDE DEF p, r
  <2>4. /\ \A q \in Prog : q # p => procs'[q] = procs[q]
        /\ \A k \in Inst : k = j => rp'[k] = r
        /\ \A k \in Inst : k # j =>
             /\ rp'[k].prog = rp[k].prog /\ rp'[k].cfg = rp[k].cfg
             /\ rp'[k].at = rp[k].at \/ (k = i /\ rp'[k].at = "end")
    BY <1>0, <2>1, <2>2 DEF RunningProc
  <2>5. ~rp[i].cfg.once
    BY <2>2 DEF OnceInv, p
  <2>6. ASSUME NEW k \in Inst, rp'[k].at # "free"
        PROVE /\ rp'[k].cfg.once <=> OnceType(rp'[k].prog)
              /\ OnceType(rp'[k].prog) => procs'[rp'[k].prog] = k
              /\ OnceType(rp'[k].prog) /\ Spawning(k)' => rp'[k].prog \notin ranOnce'
    <3>1. CASE k = j
      BY <2>2, <2>3, <2>4, <2>5, <3>1
    <3>2. CASE k # j
      <4>1. rp[k].at # "free" /\ (Spawning(k)' => Spawning(k))
        BY <2>2, <2>4, <2>6, <3>2 DEF Spawning
      <4>2. rp[k].prog \in Prog /\ (OnceType(rp[k].prog) => rp[k].prog # p)
        BY <1>0, <2>2, <4>1
      <4> QED
        BY <2>2, <2>4, <3>2, <4>1, <4>2 DEF OnceInv
    <3> QED
      BY <3>1, <3>2
  <2>7. main'.at = "start" /\ OnceType(main'.prog) =>
          procs'[main'.prog] = NoInst /\ main'.prog \notin ranOnce'
    BY <1>0, <2>2, <2>4 DEF OnceInv, MainState
  <2> QED
    BY <2>6, <2>7 DEF OnceInv
<1>3. ASSUME \/ InitialLoad \/ ReceiveHup \/ ReceiveDep \/ StartStopJobs
             \/ ReconcileEnds \/ MainSpawned
      PROVE OnceInv'
  <2>1. UNCHANGED <<rp, ranOnce>> /\ main'.at # "start"
    BY <1>3, NotStarting DEF IInv
  <2>2. UNCHANGED procs
    BY <1>3 DEF InitialLoad, ReceiveHup, ReceiveDep, StartStopJobs, ReconcileEnds, MainSpawned
  <2> QED
    BY <2>1, <2>2 DEF OnceInv, Spawning
<1>4. CASE DeleteRemoved
  <2>1. /\ UNCHANGED <<rp, ranOnce, progs>> /\ main'.at # "start"
        /\ \A p \in Prog : progs[p] # Absent => procs'[p] = procs[p]
    BY <1>4 DEF DeleteRemoved, IdleMain
  <2>2. ASSUME NEW i \in Inst, rp[i].at # "free", OnceType(rp[i].prog)
        PROVE procs'[rp[i].prog] = procs[rp[i].prog]
    <3>1. progs \in Files /\ rp[i].prog \in Prog
      BY <1>0, <2>2 DEF ConfigInv
    <3> QED
      BY <2>1, <2>2, <3>1 DEF OnceStays
  <2> QED
    BY <2>1, <2>2 DEF OnceInv, Spawning
<1>5. CASE Choose
  <2>1. /\ UNCHANGED <<progs, rp, procs, ranOnce>>
        /\ main'.at = "start" => /\ main'.prog \in main.todo /\ main'.prog \in Prog
                                 /\ ShouldStart(main'.prog)
    BY <1>5, <1>0 DEF Choose, MainState
  <2>2. ASSUME main'.at = "start", OnceType(main'.prog)
        PROVE procs[main'.prog] = NoInst /\ main'.prog \notin ranOnce
    <3>1. progs[main'.prog] # Absent /\ progs \in Files
      BY <2>1, <2>2 DEF ConfigInv
    <3> QED
      BY <2>1, <2>2, <3>1 DEF FixedTypes, ShouldStart
  <2> QED
    BY <2>1, <2>2 DEF OnceInv, Spawning
<1>6. CASE MainStart
  <2> DEFINE p == main.prog
  <2>1. /\ UNCHANGED <<ranOnce, progs>> /\ main'.at # "start" /\ main.at = "start"
        /\ p \in Prog
    BY <1>6, <1>0 DEF MainStart, MainState
  <2>2. CASE UNCHANGED <<procs, rp>>
    BY <2>1, <2>2 DEF OnceInv, Spawning
  <2>3. ASSUME NEW j \in Inst, StartFresh(j, p, progs[p])
        PROVE OnceInv'
    <3>1. /\ rp[j].at = "free" /\ procs'[p] = j
          /\ rp'[j].prog = p /\ rp'[j].cfg = progs[p]
          /\ \A k \in Inst : k # j => rp'[k] = rp[k]
          /\ \A q \in Prog : q # p => procs'[q] = procs[q]
      BY <1>0, <2>1, <2>3 DEF StartFresh, Unused, Fresh, FreeRp
    <3>2. progs[p] # Absent /\ progs \in Files
      BY <2>1 DEF ConfigInv
    <3> HIDE DEF p
    <3>3. /\ progs[p].once <=> OnceType(p)
          /\ OnceType(p) => procs[p] = NoInst /\ p \notin ranOnce
      BY <2>1, <3>2 DEF FixedTypes, OnceInv, p
    <3>4. ASSUME NEW k \in Inst, rp'[k].at # "free"
          PROVE /\ rp'[k].cfg.once <=> OnceType(rp'[k].prog)
                /\ OnceType(rp'[k].prog) => procs'[rp'[k].prog] = k
                /\ OnceType(rp'[k].prog) /\ Spawning(k)' => rp'[k].prog \notin ranOnce'
      <4>1. CASE k = j
        BY <2>1, <3>1, <3>3, <4>1
      <4>2. CASE k # j
        <5>1. rp'[k] = rp[k] /\ rp[k].at # "free" /\ rp[k].prog \in Prog
          BY <1>0, <3>1, <3>4, <4>2
        <5>2. OnceType(rp[k].prog) => rp[k].prog # p
          BY <1>0, <3>3, <5>1 DEF OnceInv
        <5> QED
          BY <2>1, <3>1, <5>1, <5>2 DEF OnceInv, Spawning
      <4> QED
        BY <4>1, <4>2
    <3> QED
      BY <2>1, <3>4 DEF OnceInv
  <2> QED
    BY <1>6, <2>2, <2>3 DEF MainStart, AlreadyRunning
<1>7. ASSUME NEW f \in File, Reload(f) PROVE OnceInv'
  BY <1>7 DEF Reload, OnceInv, Spawning
<1>8. CASE Reboot
  BY <1>8 DEF Reboot, OnceInv, FreeRp, IdleMain
<1> QED
  BY <1>1, <1>2, <1>3, <1>4, <1>5, <1>6, <1>7, <1>8, ByItselfSteps

\* The two invariants every theorem below rests on.
LEMMA Quietly ==
  ASSUME ByItself
  PROVE Spec => [](IInv /\ Unasked /\ ConfigInv)
<1>1. Init => Unasked /\ ConfigInv
  BY InitConfig
<1>2. IInv /\ Unasked /\ ConfigInv /\ [Next]_vars => Unasked' /\ ConfigInv'
  BY ByItselfSteps, ConfigStep
<1> QED
  BY <1>1, <1>2, SpecIInv, PTL DEF Spec

\* Without IPC, between two reconciles no program runs that the configuration
\* dropped or switched off, whatever supervise restarted during the reload
\* (reconcile and supervise, main.go:753-755).
THEOREM NoneStrays ==
  ASSUME ByItself
  PROVE Spec => []NothingStrays
<1>1. Init => StrayInv
  BY InitConfig
<1>2. IInv /\ Unasked /\ ConfigInv /\ StrayInv /\ [Next]_vars => StrayInv'
  BY StrayStep
<1>3. IInv /\ StrayInv => NothingStrays
  <2> SUFFICES ASSUME IInv, StrayInv, main.at = "idle",
                      NEW i \in Inst, Live(i), i \notin lost
               PROVE progs[rp[i].prog] # Absent /\ progs[rp[i].prog].auto
    BY DEF NothingStrays
  <2>1. Open(i) /\ rp[i].prog \in Prog
    BY DEF IInv, Safe, PhaseInv, Live, Open, Early
  <2>2. procs[rp[i].prog] = i
    BY <2>1 DEF IInv, Safe, OwnerInv
  <2>3. Alive(rp[i].prog)
    BY <2>1, <2>2, KasAssumption DEF Alive, Done, Open
  <2> QED
    BY <2>1, <2>3 DEF StrayInv, Stray
<1> QED
  BY <1>1, <1>2, <1>3, Quietly, PTL DEF Spec

\* Without IPC and with programs that keep their type, a child is started only
\* after every once program it depends on has run (depsReady, main.go:72-74).
THEOREM DepsFirst ==
  ASSUME ByItself, FixedTypes
  PROVE Spec => []DepsRunFirst
<1>1. Init => DepsInv
  BY DEF Init, DepsInv, FreeRp, IdleMain
<1>2. IInv /\ Unasked /\ ConfigInv /\ DepsInv /\ [Next]_vars => DepsInv'
  BY DepsStep
<1>3. IInv /\ ConfigInv /\ DepsInv => DepsRunFirst
  <2> SUFFICES ASSUME IInv, ConfigInv, DepsInv, NEW i \in Inst, Spawning(i),
                      NEW d \in rp[i].cfg.deps, progs[d] # Absent, progs[d].once
               PROVE d \in ranOnce
    BY DEF DepsRunFirst
  <2>1. rp[i].at # "free" /\ rp[i].cfg \in Config
    BY DEF Spawning, ConfigInv, IInv, TypeOK, RunningProc
  <2>2. d \in Prog /\ progs \in Files
    BY <2>1, KasAssumption DEF ConfigInv
  <2>3. OnceType(d)
    BY <2>2 DEF OnceType
  <2> QED
    BY <2>1, <2>3 DEF DepsInv, OnceRun
<1> QED
  BY <1>1, <1>2, <1>3, Quietly, PTL DEF Spec

\* Without IPC, a once program that stays configured and is not to be restarted
\* is started once, and not again when its marker survived (main.go:865-879).
THEOREM OnceIsOnce ==
  ASSUME ByItself, FixedTypes, OnceStays
  PROVE Spec => []OnceRunsOnce
<1>1. Init => OnceInv
  BY DEF Init, OnceInv, FreeRp, IdleMain
<1>2. IInv /\ Unasked /\ ConfigInv /\ OnceInv /\ [Next]_vars => OnceInv'
  BY OnceStep
<1>3. IInv /\ OnceInv => OnceRunsOnce
  <2> SUFFICES ASSUME IInv, OnceInv, NEW i \in Inst, Spawning(i), rp[i].cfg.once
               PROVE /\ rp[i].prog \notin ranOnce
                     /\ \A j \in Inst \ {i} : rp[j].prog # rp[i].prog
    BY DEF OnceRunsOnce
  <2>1. /\ rp[i].at # "free" /\ rp[i].prog \in Prog
        /\ \A j \in Inst : rp[j].at = "free" => rp[j].prog = Absent
    BY DEF Spawning, IInv, Safe, PhaseInv, FreeRp
  <2>2. OnceType(rp[i].prog) /\ procs[rp[i].prog] = i /\ rp[i].prog \notin ranOnce
    BY <2>1 DEF OnceInv
  <2>3. ASSUME NEW j \in Inst, rp[j].prog = rp[i].prog PROVE j = i
    BY <2>1, <2>2, <2>3, KasAssumption DEF OnceInv
  <2> QED
    BY <2>2, <2>3
<1> QED
  BY <1>1, <1>2, <1>3, Quietly, PTL DEF Spec

----------------------------------------------------------------------------
(* KasReaper: every exit reaches the goroutine that supervises it.         *)

\* A process has a number from its fork on; a spawn that is past the fork has
\* a process, one that failed has none.
ForkInv ==
  /\ \A p \in Proc : proc[p] # "unborn" => pid[p] \in Pid
  /\ \A i \in Incarnation :
       /\ spawn[i] \in {"idle", "noProcess"} => proc[i] = "unborn"
       /\ spawn[i] \in {"forked", "registered"} => proc[i] # "unborn"
       /\ spawn[i] \in {"idle", "forked"} => waitCh[i] = Empty

\* A table entry sits at the number of its incarnation, so there is at most one,
\* and neither it nor the reaper's pending send has filled the channel yet.
EntryInv ==
  \A n \in Pid, i \in Incarnation : reapTable[n] = i =>
    /\ pid[i] = n /\ proc[i] # "unborn"
    /\ spawn[i] \in {"registered", "done"}
    /\ waitCh[i] = Empty

SendInv ==
  reaper.at = "send" =>
    LET i == reaper.to IN
      /\ proc[i] # "unborn" /\ spawn[i] \in {"registered", "done"}
      /\ waitCh[i] = Empty
      /\ \A n \in Pid : reapTable[n] # i

ReaperIInv == ReaperTypeOK /\ ForkInv /\ EntryInv /\ SendInv

\* What the parts of ReaperNext do, one fact per action, so that the proofs below
\* can go through them by name.
LEMMA ReaperSteps ==
  ASSUME ReaperNext
  PROVE \/ \E i \in Incarnation :
             \/ ForkChild(i) \/ ForkFails(i) \/ SendFailed(i)
             \/ ReaperRegister(i) \/ StartSupervise(i)
             \/ Receive(i) \/ ProbeVanished(i) \/ ProbeNoProcess(i) \/ ReaperUnregister(i)
        \/ \E o \in Orphan : Reparent(o)
        \/ \E p \in Proc : Exit(p) \/ Wait4(p)
        \/ Lookup \/ Send
  BY DEF ReaperNext, SpawnSteps, SuperviseSteps, Reaper

\* The invariant holds before anything is started.
LEMMA InitReaperIInv == ReaperInit => ReaperIInv
  BY ReaperAssumption
  DEF ReaperInit, ReaperIInv, ReaperTypeOK, ForkInv, EntryInv, SendInv, ReaperState, SpawnPC, SupPC,
      Proc

\* Type correctness needs ForkInv: the pid the reaper carries to its table is
\* one the kernel assigned.
LEMMA ReaperTypeStep ==
  ASSUME ReaperTypeOK, ForkInv, [ReaperNext]_reaperVars
  PROVE ReaperTypeOK'
<1> USE ReaperAssumption DEF ReaperTypeOK, SpawnPC, SupPC
<1>1. ASSUME NEW i \in Incarnation, ForkChild(i) PROVE ReaperTypeOK'
  BY <1>1 DEF ForkChild, Fork, Proc
<1>2. ASSUME NEW i \in Incarnation, ForkFails(i) PROVE ReaperTypeOK'
  BY <1>2 DEF ForkFails
<1>3. ASSUME NEW i \in Incarnation, SendFailed(i) PROVE ReaperTypeOK'
  BY <1>3 DEF SendFailed, Status
<1>4. ASSUME NEW i \in Incarnation, ReaperRegister(i) PROVE ReaperTypeOK'
  BY <1>4 DEF ReaperRegister
<1>5. ASSUME NEW i \in Incarnation, StartSupervise(i) PROVE ReaperTypeOK'
  BY <1>5 DEF StartSupervise
<1>6. ASSUME NEW i \in Incarnation, Receive(i) PROVE ReaperTypeOK'
  BY <1>6 DEF Receive
<1>7. ASSUME NEW i \in Incarnation, ProbeVanished(i) PROVE ReaperTypeOK'
  BY <1>7 DEF ProbeVanished
<1>8. ASSUME NEW i \in Incarnation, ProbeNoProcess(i) PROVE ReaperTypeOK'
  BY <1>8 DEF ProbeNoProcess, Status
<1>9. ASSUME NEW i \in Incarnation, ReaperUnregister(i) PROVE ReaperTypeOK'
  BY <1>9 DEF ReaperUnregister, Status
<1>10. ASSUME NEW o \in Orphan, Reparent(o) PROVE ReaperTypeOK'
  BY <1>10 DEF Reparent, Fork, Proc
<1>11. ASSUME NEW p \in Proc, Exit(p) PROVE ReaperTypeOK'
  BY <1>11 DEF Exit
<1>12. ASSUME NEW p \in Proc, Wait4(p) PROVE ReaperTypeOK'
  <2>1. pid[p] \in Pid
    BY <1>12 DEF Wait4, ForkInv
  <2>2. reaper' \in ReaperState
    BY <1>12, <2>1 DEF Wait4, ReaperState
  <2> QED
    BY <1>12, <2>2 DEF Wait4
<1>13. ASSUME Lookup PROVE ReaperTypeOK'
  <2>1. reaper.pid \in Pid /\ reaper.of \in Proc
    BY <1>13 DEF Lookup, ReaperState
  <2>2. reaper' \in ReaperState
    BY <1>13, <2>1 DEF Lookup, ReaperState
  <2> QED
    BY <1>13, <2>2 DEF Lookup
<1>14. ASSUME Send PROVE ReaperTypeOK'
  <2>1. reaper.of \in Status /\ reaper' \in ReaperState
    BY <1>14 DEF Send, ReaperState, Status
  <2> QED
    BY <1>14, <2>1 DEF Send
<1>15. CASE UNCHANGED reaperVars
  BY <1>15 DEF reaperVars
<1> QED
  BY <1>1, <1>2, <1>3, <1>4, <1>5, <1>6, <1>7, <1>8, <1>9, <1>10, <1>11, <1>12,
     <1>13, <1>14, <1>15, ReaperSteps

\* Every step keeps the three parts of the invariant.
LEMMA ReaperInvStep ==
  ASSUME ReaperIInv, [ReaperNext]_reaperVars
  PROVE ForkInv' /\ EntryInv' /\ SendInv'
<1> USE ReaperAssumption DEF ReaperIInv, ReaperTypeOK, ForkInv, EntryInv, SendInv, ReaperState
<1> DEFINE Goal == ForkInv' /\ EntryInv' /\ SendInv'
<1>1. ASSUME NEW i \in Incarnation, ForkChild(i) PROVE Goal
  BY <1>1 DEF ForkChild, Fork, Proc
<1>2. ASSUME NEW i \in Incarnation, ForkFails(i) PROVE Goal
  BY <1>2 DEF ForkFails
<1>3. ASSUME NEW i \in Incarnation, SendFailed(i) PROVE Goal
  BY <1>3 DEF SendFailed
<1>4. ASSUME NEW i \in Incarnation, ReaperRegister(i) PROVE Goal
  BY <1>4 DEF ReaperRegister, Proc
<1>5. ASSUME NEW i \in Incarnation, StartSupervise(i) PROVE Goal
  BY <1>5 DEF StartSupervise
<1>6. ASSUME NEW i \in Incarnation, Receive(i) PROVE Goal
  BY <1>6 DEF Receive
<1>7. ASSUME NEW i \in Incarnation, ProbeVanished(i) PROVE Goal
  BY <1>7 DEF ProbeVanished
<1>8. ASSUME NEW i \in Incarnation, ProbeNoProcess(i) PROVE Goal
  BY <1>8 DEF ProbeNoProcess
<1>9. ASSUME NEW i \in Incarnation, ReaperUnregister(i) PROVE Goal
  BY <1>9 DEF ReaperUnregister
<1>10. ASSUME NEW o \in Orphan, Reparent(o) PROVE Goal
  BY <1>10 DEF Reparent, Fork, Proc
<1>11. ASSUME NEW p \in Proc, Exit(p) PROVE Goal
  BY <1>11 DEF Exit
<1>12. ASSUME NEW p \in Proc, Wait4(p) PROVE Goal
  BY <1>12 DEF Wait4
<1>13. ASSUME Lookup PROVE Goal
  BY <1>13 DEF Lookup
<1>14. ASSUME Send PROVE Goal
  BY <1>14 DEF Send
<1>15. CASE UNCHANGED reaperVars
  BY <1>15 DEF reaperVars
<1> QED
  BY <1>1, <1>2, <1>3, <1>4, <1>5, <1>6, <1>7, <1>8, <1>9, <1>10, <1>11, <1>12,
     <1>13, <1>14, <1>15, ReaperSteps

\* The inductive invariant of the exit delivery, with or without reuse of pids.
THEOREM SpecReaperIInv == ReaperSpec => []ReaperIInv
<1>1. ReaperIInv /\ [ReaperNext]_reaperVars => ReaperIInv'
  BY ReaperTypeStep, ReaperInvStep DEF ReaperIInv
<1> QED
  BY <1>1, InitReaperIInv, PTL DEF ReaperSpec

\* The variables stay within their types.
THEOREM ReaperTypeCorrect == ReaperSpec => []ReaperTypeOK
  BY SpecReaperIInv, PTL DEF ReaperIInv

\* The reaper is never blocked on a channel, also when pids are reused: the
\* buffer of one suffices for every number of incarnations (main.go:213-216).
THEOREM NeverBlocks == ReaperSpec => []ReaperNeverBlocks
<1>1. ReaperIInv => ReaperNeverBlocks
  BY DEF ReaperIInv, SendInv, ReaperNeverBlocks
<1> QED
  BY <1>1, SpecReaperIInv, PTL

\* supervise runs only after the registration, so no entry appears once it knows
\* the exit.
KnownInv ==
  \A i \in Incarnation :
    /\ sup[i] # "none" => spawn[i] \in {"noProcess", "done"}
    /\ sup[i] = "got" => \A n \in Pid : reapTable[n] # i

\* Every step keeps KnownInv.
LEMMA KnownStep ==
  ASSUME ReaperIInv, KnownInv, [ReaperNext]_reaperVars
  PROVE KnownInv'
<1> USE ReaperAssumption DEF ReaperIInv, ReaperTypeOK, EntryInv, KnownInv
<1>1. ASSUME NEW i \in Incarnation, ForkChild(i) PROVE KnownInv'
  BY <1>1 DEF ForkChild
<1>2. ASSUME NEW i \in Incarnation, ForkFails(i) PROVE KnownInv'
  BY <1>2 DEF ForkFails
<1>3. ASSUME NEW i \in Incarnation, SendFailed(i) PROVE KnownInv'
  BY <1>3 DEF SendFailed
<1>4. ASSUME NEW i \in Incarnation, ReaperRegister(i) PROVE KnownInv'
  BY <1>4 DEF ReaperRegister
<1>5. ASSUME NEW i \in Incarnation, StartSupervise(i) PROVE KnownInv'
  BY <1>5 DEF StartSupervise
<1>6. ASSUME NEW i \in Incarnation, Receive(i) PROVE KnownInv'
  BY <1>6 DEF Receive
<1>7. ASSUME NEW i \in Incarnation, ProbeVanished(i) PROVE KnownInv'
  BY <1>7 DEF ProbeVanished
<1>8. ASSUME NEW i \in Incarnation, ProbeNoProcess(i) PROVE KnownInv'
  BY <1>8 DEF ProbeNoProcess
<1>9. ASSUME NEW i \in Incarnation, ReaperUnregister(i) PROVE KnownInv'
  BY <1>9 DEF ReaperUnregister
<1>10. ASSUME NEW o \in Orphan, Reparent(o) PROVE KnownInv'
  BY <1>10 DEF Reparent
<1>11. ASSUME NEW p \in Proc, Exit(p) PROVE KnownInv'
  BY <1>11 DEF Exit
<1>12. ASSUME NEW p \in Proc, Wait4(p) PROVE KnownInv'
  BY <1>12 DEF Wait4
<1>13. ASSUME Lookup PROVE KnownInv'
  BY <1>13 DEF Lookup, ReaperState
<1>14. ASSUME Send PROVE KnownInv'
  BY <1>14 DEF Send
<1>15. CASE UNCHANGED reaperVars
  BY <1>15 DEF reaperVars
<1> QED
  BY <1>1, <1>2, <1>3, <1>4, <1>5, <1>6, <1>7, <1>8, <1>9, <1>10, <1>11, <1>12,
     <1>13, <1>14, <1>15, ReaperSteps

\* Once supervise knows about an exit, no entry of the table names the
\* incarnation, also when pids are reused (reaperUnregister, main.go:174).
THEOREM NoneStale == ReaperSpec => []NoStaleEntry
<1>1. ReaperInit => KnownInv
  BY DEF ReaperInit, KnownInv
<1>2. ReaperIInv /\ KnownInv /\ [ReaperNext]_reaperVars => KnownInv'
  BY KnownStep
<1>3. KnownInv => NoStaleEntry
  BY DEF KnownInv, NoStaleEntry
<1> QED
  BY <1>1, <1>2, <1>3, SpecReaperIInv, PTL DEF ReaperSpec

----------------------------------------------------------------------------
(* While no number is handed out twice, what travels to supervise is the   *)
(* child's own status, and KasReaper implements the safety of ExitReport.  *)

\* Numbers identify processes; a status on its way belongs to the child it is
\* on its way to, and that child is gone.
OwnInv ==
  /\ \A p, q \in Proc :
       (proc[p] # "unborn" /\ proc[q] # "unborn" /\ pid[p] = pid[q]) => p = q
  /\ reaper.at = "lookup" => reaper.pid = pid[reaper.of] /\ proc[reaper.of] = "gone"
  /\ reaper.at = "send" => reaper.of = reaper.to /\ proc[reaper.of] = "gone"
  /\ \A i \in Incarnation :
       /\ waitCh[i] = Empty \/ (waitCh[i] = i /\ proc[i] = "gone")
            \/ (waitCh[i] = Failed /\ proc[i] = "unborn" /\ spawn[i] # "idle")
       /\ sup[i] # "none" => spawn[i] \in {"noProcess", "done"}
       /\ sup[i] = "vanished" => proc[i] = "gone"
       /\ sup[i] # "got" => got[i] = Empty

\* Nothing is under way at first.
LEMMA InitOwnInv == ReaperInit => OwnInv
  BY DEF ReaperInit, OwnInv, Proc

\* Every step keeps OwnInv.
LEMMA OwnStep ==
  ASSUME ~Reuse, ReaperIInv, OwnInv, [ReaperNext]_reaperVars
  PROVE OwnInv'
<1> USE ReaperAssumption DEF ReaperIInv, ReaperTypeOK, ForkInv, OwnInv, ReaperState
<1>1. ASSUME NEW i \in Incarnation, ForkChild(i) PROVE OwnInv'
  BY <1>1 DEF ForkChild, Fork, Available, Proc
<1>2. ASSUME NEW i \in Incarnation, ForkFails(i) PROVE OwnInv'
  BY <1>2 DEF ForkFails
<1>3. ASSUME NEW i \in Incarnation, SendFailed(i) PROVE OwnInv'
  BY <1>3 DEF SendFailed
<1>4. ASSUME NEW i \in Incarnation, ReaperRegister(i) PROVE OwnInv'
  BY <1>4 DEF ReaperRegister
<1>5. ASSUME NEW i \in Incarnation, StartSupervise(i) PROVE OwnInv'
  BY <1>5 DEF StartSupervise
<1>6. ASSUME NEW i \in Incarnation, Receive(i) PROVE OwnInv'
  BY <1>6 DEF Receive
<1>7. ASSUME NEW i \in Incarnation, ProbeVanished(i) PROVE OwnInv'
  BY <1>7 DEF ProbeVanished, ProbeFails, InUse, Present, Proc
<1>8. ASSUME NEW i \in Incarnation, ProbeNoProcess(i) PROVE OwnInv'
  BY <1>8 DEF ProbeNoProcess
<1>9. ASSUME NEW i \in Incarnation, ReaperUnregister(i) PROVE OwnInv'
  BY <1>9 DEF ReaperUnregister
<1>10. ASSUME NEW o \in Orphan, Reparent(o) PROVE OwnInv'
  BY <1>10 DEF Reparent, Fork, Available, Proc
<1>11. ASSUME NEW p \in Proc, Exit(p) PROVE OwnInv'
  BY <1>11 DEF Exit, Proc
<1>12. ASSUME NEW p \in Proc, Wait4(p) PROVE OwnInv'
  BY <1>12 DEF Wait4, Proc
<1>13. ASSUME Lookup PROVE OwnInv'
  BY <1>13 DEF Lookup, EntryInv, Proc
<1>14. ASSUME Send PROVE OwnInv'
  BY <1>14 DEF Send, Proc
<1>15. CASE UNCHANGED reaperVars
  BY <1>15 DEF reaperVars
<1> QED
  BY <1>1, <1>2, <1>3, <1>4, <1>5, <1>6, <1>7, <1>8, <1>9, <1>10, <1>11, <1>12,
     <1>13, <1>14, <1>15, ReaperSteps

\* The initial states are those of ExitReport.
LEMMA InitAbstract == ReaperInit => Abstract!Init
  BY DEF ReaperInit, Abstract!Init, Child, Proc

\* Every step is a step of ExitReport or leaves child and report alone.
LEMMA AbstractStep ==
  ASSUME ReaperIInv, OwnInv, [ReaperNext]_reaperVars
  PROVE [Abstract!Next]_(Abstract!exitVars)
<1> USE ReaperAssumption
    DEF ReaperIInv, ReaperTypeOK, ForkInv, OwnInv, Abstract!exitVars, Abstract!Next, Child
<1> DEFINE Goal == [Abstract!Next]_(Abstract!exitVars)
<1>1. ASSUME NEW i \in Incarnation, ForkChild(i) PROVE Goal
  <2>1. proc[i] = "unborn" /\ i \in Proc /\ spawn[i] = "idle"
    BY <1>1 DEF ForkChild, Fork, Proc
  <2>2. PICK n \in Pid : Fork(i, n)
    BY <1>1 DEF ForkChild
  <2>3. proc' = [proc EXCEPT ![i] = "live"] /\ spawn' = [spawn EXCEPT ![i] = "forked"]
    BY <1>1, <2>2 DEF ForkChild, Fork
  <2>4. Child' = [Child EXCEPT ![i] = "running"]
    BY <2>1, <2>3 DEF Proc
  <2>5. Abstract!Start(i)
    BY <1>1, <2>1, <2>4 DEF ForkChild, Abstract!Start
  <2> QED BY <2>5
<1>2. ASSUME NEW i \in Incarnation, ForkFails(i) PROVE Goal
  <2>1. Abstract!Start(i)
    BY <1>2 DEF ForkFails, Abstract!Start, Proc
  <2> QED BY <2>1
<1>3. ASSUME NEW i \in Incarnation, SendFailed(i) PROVE Goal
  BY <1>3 DEF SendFailed
<1>4. ASSUME NEW i \in Incarnation, ReaperRegister(i) PROVE Goal
  BY <1>4 DEF ReaperRegister
<1>5. ASSUME NEW i \in Incarnation, StartSupervise(i) PROVE Goal
  BY <1>5 DEF StartSupervise
<1>6. ASSUME NEW i \in Incarnation, Receive(i) PROVE Goal
  <2>1. Abstract!Report(i)
    BY <1>6 DEF Receive, Abstract!Report, Proc, Status
  <2> QED BY <2>1
<1>7. ASSUME NEW i \in Incarnation, ProbeVanished(i) PROVE Goal
  BY <1>7 DEF ProbeVanished
<1>8. ASSUME NEW i \in Incarnation, ProbeNoProcess(i) PROVE Goal
  <2>1. Abstract!Report(i)
    BY <1>8 DEF ProbeNoProcess, Abstract!Report, Proc, Status
  <2> QED BY <2>1
<1>9. ASSUME NEW i \in Incarnation, ReaperUnregister(i) PROVE Goal
  <2>1. Abstract!Report(i)
    BY <1>9 DEF ReaperUnregister, Abstract!Report, Proc, Status
  <2> QED BY <2>1
<1>10. ASSUME NEW o \in Orphan, Reparent(o) PROVE Goal
  BY <1>10 DEF Reparent, Fork, Proc
<1>11. ASSUME NEW p \in Proc, Exit(p) PROVE Goal
  <2>1. CASE p \in Incarnation
    <3>1. Abstract!Exit(p)
      BY <1>11, <2>1 DEF Exit, Abstract!Exit, Proc
    <3> QED BY <3>1, <2>1
  <2>2. CASE p \in Orphan
    BY <1>11, <2>2 DEF Exit, Proc
  <2> QED BY <2>1, <2>2 DEF Proc
<1>12. ASSUME NEW p \in Proc, Wait4(p) PROVE Goal
  BY <1>12 DEF Wait4, Proc
<1>13. ASSUME Lookup PROVE Goal
  BY <1>13 DEF Lookup
<1>14. ASSUME Send PROVE Goal
  BY <1>14 DEF Send
<1>15. CASE UNCHANGED reaperVars
  BY <1>15 DEF reaperVars
<1> QED
  BY <1>1, <1>2, <1>3, <1>4, <1>5, <1>6, <1>7, <1>8, <1>9, <1>10, <1>11, <1>12,
     <1>13, <1>14, <1>15, ReaperSteps

\* supervise learns of an exit once, after it happened, and with the child's own
\* status: the reaper protocol implements the safety part of ExitReport
\* (main.go:578-603), provided that no pid is reused while kas refers to it.
THEOREM ImplementsReports ==
  ASSUME ~Reuse
  PROVE ReaperSpec => Abstract!SafeSpec
<1>1. ReaperInit => OwnInv /\ Abstract!Init
  BY InitOwnInv, InitAbstract
<1>2. ReaperIInv /\ OwnInv /\ [ReaperNext]_reaperVars => OwnInv'
  BY OwnStep
<1>3. ReaperIInv /\ OwnInv /\ [ReaperNext]_reaperVars => [Abstract!Next]_(Abstract!exitVars)
  BY AbstractStep
<1> QED
  BY <1>1, <1>2, <1>3, SpecReaperIInv, PTL DEF ReaperSpec, Abstract!SafeSpec

==============================================================================
