-------------------------------- MODULE Kas --------------------------------
(***************************************************************************)
(* The program manager kas (tools/kas/main.go): the main loop that         *)
(* reconciles the configured programs with the running ones, one supervise *)
(* goroutine per incarnation of a program, the IPC goroutine that serves   *)
(* `kas start|stop|restart|reload', the stop goroutines all of these start *)
(* or call, and the signal goroutine that shuts down.                      *)
(*                                                                         *)
(* A runningProc is an element of Inst; every start takes a fresh one.     *)
(* How the exit of a child reaches supervise is module KasReaper; here a   *)
(* child that exited is noticed at some later time.                        *)
(***************************************************************************)
EXTENDS Naturals, FiniteSets

CONSTANTS
  Prog,     \* program names, numbered in their lexical order
  Config,   \* the programConfig values that occur
  File,     \* contents the configuration file can have
  Inst,     \* runningProc values, allocated in order
  Absent,   \* "not in this map of programs"
  BadFile,  \* contents parseConfig rejects
  NoInst,   \* "not in procs"
  NoCmd,    \* a command that splits into no words
  Budget    \* bound: how often each kind of event in Events may occur

ProgMap == [Prog -> Config \cup {Absent}]

\* The fields of programConfig the lifecycle depends on.  "rest" stands for
\* the fields configChanged compares and nothing else here reads.
ConfigFields == {"cmd", "rest", "auto", "restart", "once", "deps", "max", "prio"}

\* A reload request, an IPC request, a fault of a service (its exit, a start
\* that fails), SIGTERM, a restart of the container.
Events == {"reload", "ipc", "fault", "term", "boot"}

ASSUME KasAssumption ==
  /\ Prog \subseteq Nat /\ Inst \subseteq Nat
  /\ File \subseteq ProgMap \cup {BadFile}
  /\ Absent \notin Config /\ Absent \notin Prog /\ BadFile \notin ProgMap /\ NoInst \notin Inst
  /\ \A c \in Config :
       /\ DOMAIN c = ConfigFields
       /\ c.auto \in BOOLEAN /\ c.restart \in BOOLEAN /\ c.once \in BOOLEAN
       /\ c.deps \subseteq Prog /\ c.max \in Nat /\ c.prio \in Nat
  /\ Budget \in [Events -> Nat]

VARIABLES
  progs,    \* kas.progs
  procs,    \* kas.procs
  ranOnce,  \* kas.ranOnce, as a set
  marker,   \* the files in onceDoneDir; they survive kas
  depCh,    \* kas.depCh holds its one token
  hupCh,    \* hupCh holds its one token
  file,     \* what the configuration file contains now
  rp,       \* the runningProc values
  main,     \* control point and locals of the main goroutine
  ipc,      \* control point and locals of the serveSock goroutine
  stopper,  \* the calls of stop, by caller and program name
  shut,     \* "no", "stopping", "exited": the signal goroutine
  panicked, \* some goroutine closed a closed channel
  lost,     \* history: incarnations kas gave up tracking while they were open
  budget    \* what is left of Budget

chans == <<depCh, hupCh>>
vars == <<progs, procs, ranOnce, marker, depCh, hupCh, file, rp, main, ipc,
          stopper, shut, panicked, lost, budget>>

Caller == {"main", "ipc", "shut"}

\* new: in procs, rp.cmd nil; forked: the child runs, rp.cmd still nil;
\* stuck: spawn returned for an empty command; from watch on: in supervise.
InstPC == {"free", "new", "forked", "stuck", "watch", "stopSeen", "crashSeen",
           "closed", "mark", "signal", "check", "sleep", "end"}

\* os: the child has not been forked, runs, was signalled, has exited.
RunningProc ==
  [prog : Prog \cup {Absent}, cfg : Config \cup {Absent}, at : InstPC,
   os : {"none", "run", "term", "dead"}, done : BOOLEAN, stopped : BOOLEAN,
   tries : Nat]

FreeRp == [prog |-> Absent, cfg |-> Absent, at |-> "free", os |-> "none",
           done |-> FALSE, stopped |-> FALSE, tries |-> 0]

MainState ==
  [at : {"begin", "idle", "jobs", "stopping", "choose"}, jobs : SUBSET Prog,
   todo : SUBSET Prog, prog : {Absent}, rp : {NoInst}]
  \cup [at : {"start"}, jobs : SUBSET Prog, todo : SUBSET Prog, prog : Prog,
        rp : {NoInst}]
  \cup [at : {"spawn"}, jobs : SUBSET Prog, todo : SUBSET Prog, prog : {Absent},
        rp : Inst]

IpcState ==
  [at : {"idle"}, prog : {Absent}, cfg : {Absent}, rp : {NoInst}]
  \cup [at : {"stop"}, prog : Prog, cfg : {Absent}, rp : {NoInst}]
  \cup [at : {"restart", "start"}, prog : Prog, cfg : Config, rp : {NoInst}]
  \cup [at : {"spawn"}, prog : {Absent}, cfg : {Absent}, rp : Inst]

StopState ==
  [at : {"off", "lookup"}, rp : {NoInst}]
  \cup [at : {"mark", "term", "close", "wait"}, rp : Inst]

TypeOK ==
  /\ progs \in ProgMap
  /\ procs \in [Prog -> Inst \cup {NoInst}]
  /\ ranOnce \subseteq Prog /\ marker \subseteq Prog
  /\ depCh \in BOOLEAN /\ hupCh \in BOOLEAN
  /\ file \in ProgMap \cup {BadFile}
  /\ rp \in [Inst -> RunningProc]
  /\ main \in MainState /\ ipc \in IpcState
  /\ stopper \in [Caller -> [Prog -> StopState]]
  /\ shut \in {"no", "stopping", "exited"}
  /\ panicked \in BOOLEAN
  /\ lost \subseteq Inst
  /\ budget \in [Events -> Nat]

IdleMain == [at |-> "idle", jobs |-> {}, todo |-> {}, prog |-> Absent, rp |-> NoInst]
IdleIpc == [at |-> "idle", prog |-> Absent, cfg |-> Absent, rp |-> NoInst]
Off == [at |-> "off", rp |-> NoInst]
Call == [at |-> "lookup", rp |-> NoInst]
NoStops == [c \in Caller |-> [p \in Prog |-> Off]]

Init ==
  /\ progs = [p \in Prog |-> Absent]
  /\ procs = [p \in Prog |-> NoInst]
  /\ ranOnce = {} /\ marker = {}
  /\ depCh = FALSE /\ hupCh = FALSE
  /\ file \in File
  /\ rp = [i \in Inst |-> FreeRp]
  /\ main = [IdleMain EXCEPT !.at = "begin"]
  /\ ipc = IdleIpc
  /\ stopper = NoStops
  /\ shut = "no" /\ panicked = FALSE /\ lost = {}
  /\ budget = Budget

Spend(what) ==
  /\ budget[what] > 0
  /\ budget' = [budget EXCEPT ![what] = @ - 1]

----------------------------------------------------------------------------
(* Reading the shared maps.                                                *)

Done(i) == rp[i].done
\* Mutant of Alive: the child is looked at instead of done.
AliveByChild(p) == procs[p] # NoInst /\ rp[procs[p]].os \in {"run", "term"}
Alive(p) == procs[p] # NoInst /\ ~Done(procs[p])
Open(i) == rp[i].at # "free" /\ ~rp[i].done
Live(i) == rp[i].os \in {"run", "term"}

configChanged(a, b) ==
  \/ a.cmd # b.cmd \/ a.once # b.once \/ a.max # b.max
  \/ a.deps # b.deps \/ a.rest # b.rest

\* Mutant of depsReady: a once program that is not alive counts as having run.
depsReadyWhenDone(c) ==
  \A d \in c.deps :
    /\ progs[d] # Absent
    /\ IF progs[d].once THEN procs[d] # NoInst /\ ~Alive(d) ELSE Alive(d)

depsReady(c) ==
  \A d \in c.deps :
    /\ progs[d] # Absent
    /\ IF progs[d].once THEN d \in ranOnce /\ ~Alive(d) ELSE Alive(d)

\* Priority, then name.
Before(p, q) ==
  \/ progs[p].prio < progs[q].prio
  \/ progs[p].prio = progs[q].prio /\ p < q

----------------------------------------------------------------------------
(* start and spawn.                                                        *)

\* The runningProc the next start will use.
Unused(i) ==
  /\ rp[i].at = "free"
  /\ \A j \in Inst : rp[j].at = "free" => i <= j

Fresh(p, c, n) ==
  [FreeRp EXCEPT !.prog = p, !.cfg = c, !.at = "new", !.tries = n]

\* cmd.Start succeeded; rp.cmd is assigned only in the next step.
CmdStart(i) ==
  /\ rp[i].at = "new" /\ rp[i].cfg.cmd # NoCmd
  /\ rp' = [rp EXCEPT ![i] = [@ EXCEPT !.at = "forked", !.os = "run"]]
  /\ UNCHANGED <<progs, procs, ranOnce, marker, chans, file, main, ipc, stopper,
                 shut, panicked, lost, budget>>

\* cmd.Start failed: supervise gets exit 127 from its channel.
CmdStartFails(i) ==
  /\ rp[i].at = "new" /\ rp[i].cfg.cmd # NoCmd
  /\ Spend("fault")
  /\ rp' = [rp EXCEPT ![i].at = "watch"]
  /\ UNCHANGED <<progs, procs, ranOnce, marker, chans, file, main, ipc, stopper,
                 shut, panicked, lost>>

\* An empty command: spawn returns and nobody will ever close done.
EmptyCommand(i) ==
  /\ rp[i].at = "new" /\ rp[i].cfg.cmd = NoCmd
  /\ rp' = [rp EXCEPT ![i].at = "stuck"]
  /\ UNCHANGED <<progs, procs, ranOnce, marker, chans, file, main, ipc, stopper,
                 shut, panicked, lost, budget>>

\* rp.cmd is set, the pid registered, the status "running", supervise started.
GoSupervise(i) ==
  /\ rp[i].at = "forked"
  /\ rp' = [rp EXCEPT ![i].at = "watch"]
  /\ UNCHANGED <<progs, procs, ranOnce, marker, chans, file, main, ipc, stopper,
                 shut, panicked, lost, budget>>

Spawning(i) == rp[i].at \in {"new", "forked"}

Spawn(i) == CmdStart(i) \/ CmdStartFails(i) \/ EmptyCommand(i) \/ GoSupervise(i)

----------------------------------------------------------------------------
(* The child.                                                              *)

\* A service that exits by itself crashed; a once program has completed.
ChildExits(i) ==
  /\ rp[i].os = "run"
  /\ IF rp[i].cfg.once THEN UNCHANGED budget ELSE Spend("fault")
  /\ rp' = [rp EXCEPT ![i].os = "dead"]
  /\ UNCHANGED <<progs, procs, ranOnce, marker, chans, file, main, ipc, stopper,
                 shut, panicked, lost>>

\* SIGTERM, or SIGKILL once the stop wait is over.
ChildDies(i) ==
  /\ rp[i].os = "term"
  /\ rp' = [rp EXCEPT ![i].os = "dead"]
  /\ UNCHANGED <<progs, procs, ranOnce, marker, chans, file, main, ipc, stopper,
                 shut, panicked, lost, budget>>

----------------------------------------------------------------------------
(* supervise.                                                              *)

\* The exit status arrived; stopped is read under stopMu, done closed later.
Notice(i) ==
  /\ rp[i].at = "watch" /\ rp[i].os \in {"none", "dead"}
  /\ rp' = [rp EXCEPT ![i].at = IF rp[i].stopped THEN "stopSeen" ELSE "crashSeen"]
  /\ UNCHANGED <<progs, procs, ranOnce, marker, chans, file, main, ipc, stopper,
                 shut, panicked, lost, budget>>

\* close(rp.done) panics when it is closed already.
CloseDone(i) ==
  /\ rp[i].at \in {"stopSeen", "crashSeen"}
  /\ rp' = [rp EXCEPT ![i] =
              [@ EXCEPT !.done = TRUE,
                        !.at = IF rp[i].at = "stopSeen" THEN "end"
                               ELSE IF rp[i].cfg.once THEN "closed" ELSE "check"]]
  /\ panicked' = rp[i].done
  /\ UNCHANGED <<progs, procs, ranOnce, marker, chans, file, main, ipc, stopper,
                 shut, lost, budget>>

\* Only for a once program: ranOnce, the marker file, the signal to main.
RecordRan(i) ==
  /\ rp[i].at = "closed"
  /\ ranOnce' = ranOnce \cup {rp[i].prog}
  /\ rp' = [rp EXCEPT ![i].at = "mark"]
  /\ UNCHANGED <<progs, procs, marker, chans, file, main, ipc, stopper, shut,
                 panicked, lost, budget>>

markRanOnce(i) ==
  /\ rp[i].at = "mark"
  /\ marker' = marker \cup {rp[i].prog}
  /\ rp' = [rp EXCEPT ![i].at = "signal"]
  /\ UNCHANGED <<progs, procs, ranOnce, chans, file, main, ipc, stopper, shut,
                 panicked, lost, budget>>

\* Mutant of SignalDeps: depCh without a buffer.
SignalDepsUnbuffered(i) ==
  /\ rp[i].at = "signal"
  /\ depCh' = (depCh \/ main.at = "idle")
  /\ rp' = [rp EXCEPT ![i].at = "check"]
  /\ UNCHANGED <<progs, procs, ranOnce, marker, hupCh, file, main, ipc, stopper,
                 shut, panicked, lost, budget>>

SignalDeps(i) ==
  /\ rp[i].at = "signal"
  /\ depCh' = TRUE
  /\ rp' = [rp EXCEPT ![i].at = "check"]
  /\ UNCHANGED <<progs, procs, ranOnce, marker, hupCh, file, main, ipc, stopper,
                 shut, panicked, lost, budget>>

\* Mutants of two conditions below: autostart is not read; a max of 0 is a cap
\* like any other.
RestartsAlways(c) == c.restart
TriesBelowMax(c, n) == n < c.max

\* The condition supervise evaluates before and again after the delay: it
\* still owns the entry, and the current configuration wants a retry.
Owns(i) == procs[rp[i].prog] = i

RestartsItself(c) == c.restart /\ c.auto

TriesLeft(c, n) == c.max > 0 => n < c.max

WantRestart(i) ==
  LET cur == progs[rp[i].prog] IN
    /\ cur # Absent /\ Owns(i)
    /\ RestartsItself(cur) /\ cur.cmd = rp[i].cfg.cmd
    /\ TriesLeft(cur, rp[i].tries)

Decide(i) ==
  /\ rp[i].at = "check"
  /\ rp' = [rp EXCEPT ![i].at = IF WantRestart(i) THEN "sleep" ELSE "end"]
  /\ UNCHANGED <<progs, procs, ranOnce, marker, chans, file, main, ipc, stopper,
                 shut, panicked, lost, budget>>

GiveUp(i) ==
  /\ rp[i].at = "sleep" /\ ~WantRestart(i)
  /\ rp' = [rp EXCEPT ![i].at = "end"]
  /\ UNCHANGED <<progs, procs, ranOnce, marker, chans, file, main, ipc, stopper,
                 shut, panicked, lost, budget>>

\* The new incarnation runs the configuration the old one was started with.
Retry(i) ==
  /\ rp[i].at = "sleep" /\ WantRestart(i)
  /\ \E j \in Inst :
       /\ Unused(j)
       /\ procs' = [procs EXCEPT ![rp[i].prog] = j]
       /\ rp' = [rp EXCEPT ![i].at = "end",
                           ![j] = Fresh(rp[i].prog, rp[i].cfg, rp[i].tries + 1)]
  /\ UNCHANGED <<progs, ranOnce, marker, chans, file, main, ipc, stopper, shut,
                 panicked, lost, budget>>

Supervise(i) ==
  \/ Notice(i) \/ CloseDone(i) \/ RecordRan(i) \/ markRanOnce(i) \/ SignalDeps(i)
  \/ Decide(i) \/ GiveUp(i) \/ Retry(i)

----------------------------------------------------------------------------
(* stop and terminate.  A caller sets its stopper to "lookup" and goes on  *)
(* when it is "off" again.                                                 *)

Called(s) == s.at # "off"

\* terminate finds no process: rp.cmd is nil or cmd.Process is.
NoProcess(i) == rp[i].at \in {"new", "forked", "stuck"} \/ rp[i].os = "none"

StopLookup(c, p) ==
  /\ stopper[c][p].at = "lookup"
  /\ stopper' = [stopper EXCEPT ![c][p] =
                   IF procs[p] = NoInst THEN Off
                   ELSE [at |-> "mark", rp |-> procs[p]]]
  /\ UNCHANGED <<progs, procs, ranOnce, marker, chans, file, rp, main, ipc, shut,
                 panicked, lost, budget>>

StopMark(c, p) ==
  /\ stopper[c][p].at = "mark"
  /\ rp' = [rp EXCEPT ![stopper[c][p].rp].stopped = TRUE]
  /\ stopper' = [stopper EXCEPT ![c][p] = [at |-> "term", rp |-> @.rp]]
  /\ UNCHANGED <<progs, procs, ranOnce, marker, chans, file, main, ipc, shut,
                 panicked, lost, budget>>

\* Mutant of Signal: done is closed for the waiters here too.
SignalAndClose(c, p) ==
  LET i == stopper[c][p].rp IN
    /\ stopper[c][p].at = "term" /\ ~NoProcess(i)
    /\ rp' = [rp EXCEPT ![i] = [@ EXCEPT !.done = TRUE,
                                        !.os = IF @ = "run" THEN "term" ELSE @]]
    /\ stopper' = [stopper EXCEPT ![c][p] = [at |-> "wait", rp |-> i]]
    /\ UNCHANGED <<progs, procs, ranOnce, marker, chans, file, main, ipc, shut,
                   panicked, lost, budget>>

\* terminate with a process: signal its group, then wait for done.
Signal(c, p) ==
  LET i == stopper[c][p].rp IN
    /\ stopper[c][p].at = "term" /\ ~NoProcess(i)
    /\ rp' = [rp EXCEPT ![i].os = IF @ = "run" THEN "term" ELSE @]
    /\ stopper' = [stopper EXCEPT ![c][p] = [at |-> "wait", rp |-> i]]
    /\ UNCHANGED <<progs, procs, ranOnce, marker, chans, file, main, ipc, shut,
                   panicked, lost, budget>>

\* Mutant of NothingToSignal: it waits for done as if there were a process.
NothingToSignalWaits(c, p) ==
  LET i == stopper[c][p].rp IN
    /\ stopper[c][p].at = "term" /\ NoProcess(i)
    /\ stopper' = [stopper EXCEPT ![c][p] = [at |-> "wait", rp |-> i]]
    /\ UNCHANGED <<progs, procs, ranOnce, marker, chans, file, rp, main, ipc, shut,
                   panicked, lost, budget>>

\* terminate without one: look whether done is closed ...
NothingToSignal(c, p) ==
  LET i == stopper[c][p].rp IN
    /\ stopper[c][p].at = "term" /\ NoProcess(i)
    /\ stopper' = [stopper EXCEPT ![c][p] =
                     IF Done(i) THEN Off ELSE [at |-> "close", rp |-> i]]
    /\ UNCHANGED <<progs, procs, ranOnce, marker, chans, file, rp, main, ipc, shut,
                   panicked, lost, budget>>

\* ... and close it on behalf of an incarnation that may be about to run.
CloseForWaiters(c, p) ==
  LET i == stopper[c][p].rp IN
    /\ stopper[c][p].at = "close"
    /\ rp' = [rp EXCEPT ![i].done = TRUE]
    /\ panicked' = Done(i)
    /\ lost' = lost \cup {i}
    /\ stopper' = [stopper EXCEPT ![c][p] = Off]
    /\ UNCHANGED <<progs, procs, ranOnce, marker, chans, file, main, ipc, shut,
                   budget>>

StopReturns(c, p) ==
  /\ stopper[c][p].at = "wait" /\ Done(stopper[c][p].rp)
  /\ stopper' = [stopper EXCEPT ![c][p] = Off]
  /\ UNCHANGED <<progs, procs, ranOnce, marker, chans, file, rp, main, ipc, shut,
                 panicked, lost, budget>>

Stop(c, p) ==
  \/ StopLookup(c, p) \/ StopMark(c, p) \/ Signal(c, p) \/ NothingToSignal(c, p)
  \/ CloseForWaiters(c, p) \/ StopReturns(c, p)

Returned(c) == \A p \in Prog : ~Called(stopper[c][p])

----------------------------------------------------------------------------
(* The main goroutine: load, reconcile, wait.                              *)

\* Mutant of Load: a file that does not parse ends the main loop.
LoadExits ==
  IF file = BadFile
    THEN /\ main' = [IdleMain EXCEPT !.at = "end"]
         /\ UNCHANGED progs
    ELSE /\ progs' = file
         /\ main' = [IdleMain EXCEPT !.at = "jobs"]

\* parseConfig, and the first critical section of reconcile.
Load ==
  IF file = BadFile
    THEN /\ main' = IdleMain
         /\ UNCHANGED progs
    ELSE /\ progs' = file
         /\ main' = [IdleMain EXCEPT
                       !.at = "jobs",
                       !.jobs = {p \in Prog :
                                   /\ progs[p] # Absent
                                   /\ file[p] = Absent \/ configChanged(progs[p], file[p])}]

InitialLoad ==
  /\ main.at = "begin"
  /\ Load
  /\ UNCHANGED <<procs, ranOnce, marker, chans, file, rp, ipc, stopper, shut,
                 panicked, lost, budget>>

ReceiveHup ==
  /\ main.at = "idle" /\ hupCh
  /\ hupCh' = FALSE
  /\ Load
  /\ UNCHANGED <<procs, ranOnce, marker, depCh, file, rp, ipc, stopper, shut,
                 panicked, lost, budget>>

\* reconcile(lastProgs): lastProgs is what progs holds, so nothing changed.
ReceiveDep ==
  /\ main.at = "idle" /\ depCh
  /\ depCh' = FALSE
  /\ main' = [IdleMain EXCEPT !.at = "jobs"]
  /\ UNCHANGED <<progs, procs, ranOnce, marker, hupCh, file, rp, ipc, stopper, shut,
                 panicked, lost, budget>>

\* The running programs with autostart=false join the jobs; one goroutine each.
StartStopJobs ==
  /\ main.at = "jobs"
  /\ LET off == {p \in Prog : progs[p] # Absent /\ ~progs[p].auto /\ Alive(p)}
         all == main.jobs \cup off IN
       /\ main' = [main EXCEPT !.at = "stopping", !.jobs = all]
       /\ stopper' = [stopper EXCEPT !["main"] =
                        [p \in Prog |-> IF p \in all THEN Call ELSE @[p]]]
  /\ UNCHANGED <<progs, procs, ranOnce, marker, chans, file, rp, ipc, shut,
                 panicked, lost, budget>>

\* wg.Wait is over: the entries of the removed programs are deleted.
DeleteRemoved ==
  /\ main.at = "stopping" /\ Returned("main")
  /\ LET gone == {p \in main.jobs : progs[p] = Absent} IN
       /\ procs' = [p \in Prog |-> IF p \in gone THEN NoInst ELSE procs[p]]
       /\ lost' = lost \cup {i \in Inst : Open(i) /\ \E p \in gone : procs[p] = i}
  /\ main' = [IdleMain EXCEPT !.at = "choose",
                              !.todo = {p \in Prog : progs[p] # Absent}]
  /\ UNCHANGED <<progs, ranOnce, marker, chans, file, rp, ipc, stopper, shut,
                 panicked, budget>>

\* Mutant of ShouldStart: only the marker of a once program is asked for.
ShouldStartUnmarked(p) ==
  /\ progs[p].auto
  /\ ~Alive(p)
  /\ progs[p].once => p \notin ranOnce
  /\ depsReady(progs[p])

\* What the start loop asks before it starts a program.
ShouldStart(p) ==
  /\ progs[p].auto
  /\ ~Alive(p)
  /\ progs[p].once => p \notin ranOnce /\ procs[p] = NoInst
  /\ depsReady(progs[p])

Choose ==
  /\ main.at = "choose"
  /\ \E p \in main.todo :
       /\ \A q \in main.todo \ {p} : Before(p, q)
       /\ main' = [main EXCEPT !.todo = @ \ {p},
                              !.at = IF ShouldStart(p) THEN "start" ELSE "choose",
                              !.prog = IF ShouldStart(p) THEN p ELSE Absent]
  /\ UNCHANGED <<progs, procs, ranOnce, marker, chans, file, rp, ipc, stopper, shut,
                 panicked, lost, budget>>

ReconcileEnds ==
  /\ main.at = "choose" /\ main.todo = {}
  /\ main' = IdleMain
  /\ UNCHANGED <<progs, procs, ranOnce, marker, chans, file, rp, ipc, stopper, shut,
                 panicked, lost, budget>>

\* start: nothing if the program is alive by now, else a fresh incarnation.
AlreadyRunning(p) == Alive(p) /\ UNCHANGED <<procs, rp>>

\* Mutant of StartFresh: whether the program is alive is not asked again.
StartAnyway(j, p, c) ==
  /\ Unused(j)
  /\ procs' = [procs EXCEPT ![p] = j]
  /\ rp' = [rp EXCEPT ![j] = Fresh(p, c, 0)]

StartFresh(j, p, c) ==
  /\ ~Alive(p) /\ Unused(j)
  /\ procs' = [procs EXCEPT ![p] = j]
  /\ rp' = [rp EXCEPT ![j] = Fresh(p, c, 0)]

MainStart ==
  /\ main.at = "start"
  /\ \/ /\ AlreadyRunning(main.prog)
        /\ main' = [main EXCEPT !.at = "choose", !.prog = Absent]
     \/ \E j \in Inst :
           /\ StartFresh(j, main.prog, progs[main.prog])
           /\ main' = [main EXCEPT !.at = "spawn", !.prog = Absent, !.rp = j]
  /\ UNCHANGED <<progs, ranOnce, marker, chans, file, ipc, stopper, shut, panicked,
                 lost, budget>>

MainSpawned ==
  /\ main.at = "spawn" /\ ~Spawning(main.rp)
  /\ main' = [main EXCEPT !.at = "choose", !.rp = NoInst]
  /\ UNCHANGED <<progs, procs, ranOnce, marker, chans, file, rp, ipc, stopper, shut,
                 panicked, lost, budget>>

Main ==
  \/ InitialLoad \/ ReceiveHup \/ ReceiveDep \/ StartStopJobs \/ DeleteRemoved
  \/ Choose \/ ReconcileEnds \/ MainStart \/ MainSpawned

----------------------------------------------------------------------------
(* The IPC goroutine serves one request at a time.                         *)

\* The operator edits the file, then asks for a reload or sends SIGHUP.
Reload(f) ==
  /\ Spend("reload")
  /\ file' = f
  /\ hupCh' = TRUE
  /\ UNCHANGED <<progs, procs, ranOnce, marker, depCh, rp, main, ipc, stopper, shut,
                 panicked, lost>>

Initialized(p) == progs[p].once /\ p \in ranOnce

\* The configuration a handler starts with is the one it reads here.
handleStart(p) ==
  /\ ipc.at = "idle" /\ progs[p] # Absent /\ ~Initialized(p)
  /\ Spend("ipc")
  /\ ipc' = [IdleIpc EXCEPT !.at = "start", !.prog = p, !.cfg = progs[p]]
  /\ UNCHANGED <<progs, procs, ranOnce, marker, chans, file, rp, main, stopper, shut,
                 panicked, lost>>

handleStop(p) ==
  /\ ipc.at = "idle" /\ progs[p] # Absent
  /\ Spend("ipc")
  /\ ipc' = [IdleIpc EXCEPT !.at = "stop", !.prog = p]
  /\ stopper' = [stopper EXCEPT !["ipc"][p] = Call]
  /\ UNCHANGED <<progs, procs, ranOnce, marker, chans, file, rp, main, shut, panicked,
                 lost>>

handleRestart(p) ==
  /\ ipc.at = "idle" /\ progs[p] # Absent /\ ~Initialized(p)
  /\ Spend("ipc")
  /\ ipc' = [IdleIpc EXCEPT !.at = "restart", !.prog = p, !.cfg = progs[p]]
  /\ stopper' = [stopper EXCEPT !["ipc"][p] = Call]
  /\ UNCHANGED <<progs, procs, ranOnce, marker, chans, file, rp, main, shut, panicked,
                 lost>>

IpcStopped ==
  /\ ipc.at \in {"stop", "restart"} /\ Returned("ipc")
  /\ ipc' = IF ipc.at = "stop" THEN IdleIpc ELSE [ipc EXCEPT !.at = "start"]
  /\ UNCHANGED <<progs, procs, ranOnce, marker, chans, file, rp, main, stopper, shut,
                 panicked, lost, budget>>

IpcStart ==
  /\ ipc.at = "start"
  /\ \/ /\ AlreadyRunning(ipc.prog)
        /\ ipc' = IdleIpc
     \/ \E j \in Inst :
           /\ StartFresh(j, ipc.prog, ipc.cfg)
           /\ ipc' = [IdleIpc EXCEPT !.at = "spawn", !.rp = j]
  /\ UNCHANGED <<progs, ranOnce, marker, chans, file, main, stopper, shut, panicked,
                 lost, budget>>

IpcSpawned ==
  /\ ipc.at = "spawn" /\ ~Spawning(ipc.rp)
  /\ ipc' = IdleIpc
  /\ UNCHANGED <<progs, procs, ranOnce, marker, chans, file, rp, main, stopper, shut,
                 panicked, lost, budget>>

Ipc == IpcStopped \/ IpcStart \/ IpcSpawned

----------------------------------------------------------------------------
(* SIGTERM, and the container around kas.                                  *)

\* One goroutine for every name in procs at this moment.
Shutdown ==
  /\ shut = "no"
  /\ Spend("term")
  /\ shut' = "stopping"
  /\ stopper' = [stopper EXCEPT !["shut"] =
                   [p \in Prog |-> IF procs[p] # NoInst THEN Call ELSE @[p]]]
  /\ UNCHANGED <<progs, procs, ranOnce, marker, chans, file, rp, main, ipc, panicked,
                 lost>>

ExitKas ==
  /\ shut = "stopping" /\ Returned("shut")
  /\ shut' = "exited"
  /\ UNCHANGED <<progs, procs, ranOnce, marker, chans, file, rp, main, ipc, stopper,
                 panicked, lost, budget>>

\* The container stops and is started again: only files survive.
Reboot ==
  /\ Spend("boot")
  /\ progs' = [p \in Prog |-> Absent]
  /\ procs' = [p \in Prog |-> NoInst]
  /\ ranOnce' = marker
  /\ depCh' = FALSE /\ hupCh' = FALSE
  /\ rp' = [i \in Inst |-> FreeRp]
  /\ main' = [IdleMain EXCEPT !.at = "begin"]
  /\ ipc' = IdleIpc
  /\ stopper' = NoStops
  /\ shut' = "no" /\ panicked' = FALSE /\ lost' = {}
  /\ UNCHANGED <<marker, file>>

----------------------------------------------------------------------------
Up == ~panicked /\ shut # "exited"

Goroutines ==
  \/ Main \/ Ipc \/ ExitKas
  \/ \E i \in Inst : Spawn(i) \/ Supervise(i)
  \/ \E c \in Caller, p \in Prog : Stop(c, p)

Children == \E i \in Inst : ChildExits(i) \/ ChildDies(i)

Requests ==
  \/ \E f \in File : Reload(f)
  \/ \E p \in Prog : handleStart(p) \/ handleStop(p) \/ handleRestart(p)
  \/ Shutdown

Next ==
  \/ Up /\ (Goroutines \/ Children \/ Requests)
  \/ Reboot

Spec == Init /\ [][Next]_vars

\* Every goroutine is scheduled, sleeps end, and SIGKILL is not survived.
\* Nothing obliges a request to come or a running child to exit by itself.
Fairness ==
  /\ WF_vars(Up /\ Main) /\ WF_vars(Up /\ Ipc) /\ WF_vars(Up /\ ExitKas)
  /\ \A i \in Inst :
       /\ WF_vars(Up /\ Supervise(i)) /\ WF_vars(Up /\ ChildDies(i))
       /\ WF_vars(Up /\ (CmdStart(i) \/ EmptyCommand(i) \/ GoSupervise(i)))
  /\ \A c \in Caller, p \in Prog : WF_vars(Up /\ Stop(c, p))

FairSpec == Spec /\ Fairness

----------------------------------------------------------------------------
(* Properties.                                                             *)

\* A running child is the incarnation procs names for its program, or one that
\* kas let go of in one of two places: terminate closed its done before
\* rp.cmd was set (main.go:730), or reconcile deleted the entry while it was
\* open (main.go:835).  Every other takeover waits until the old one is done.
LiveIsTracked ==
  \A i \in Inst : Live(i) => procs[rp[i].prog] = i \/ i \in lost

\* So a program never runs twice unless one of those two happened.
OneCopy ==
  \A i, j \in Inst :
    (Live(i) /\ Live(j) /\ i # j /\ rp[i].prog = rp[j].prog) => {i, j} \cap lost # {}

\* supervise closes done exactly once; a close can panic only after a terminate
\* closed it on behalf of a starting incarnation, which lost records.  It also
\* records deletions of removed programs, so the property is a little weaker.
PanicNeedsEarlyClose == panicked => lost # {}

\* Without IPC: between two reconciles no program runs that the configuration
\* dropped or switched off, although supervise may have restarted it meanwhile
\* (main.go:753-755).
NothingStrays ==
  main.at = "idle" =>
    \A i \in Inst : Live(i) /\ i \notin lost =>
      progs[rp[i].prog] # Absent /\ progs[rp[i].prog].auto

\* Without IPC, with programs that keep their type: a child is started only
\* after every once program it depends on has run, also across reloads,
\* retries and a restart of kas (main.go:72-74).
DepsRunFirst ==
  \A i \in Inst : Spawning(i) =>
    \A d \in rp[i].cfg.deps :
      progs[d] # Absent /\ progs[d].once => d \in ranOnce

\* Without IPC, while it stays configured: a once program is started once,
\* whatever reloads and completions interleave, and never again when its
\* marker survived a restart of kas (main.go:865-879).
OnceRunsOnce ==
  \A i \in Inst : Spawning(i) /\ rp[i].cfg.once =>
    /\ rp[i].prog \notin ranOnce
    /\ \A j \in Inst \ {i} : rp[j].prog # rp[i].prog

\* Every stop returns, so neither a reload nor the IPC socket hangs on a
\* program, whatever that program was doing (terminate, main.go:722-746).
StopIsAnswered ==
  \A c \in Caller, p \in Prog :
    Called(stopper[c][p]) ~> (~Called(stopper[c][p]) \/ ~Up)

\* A requested reload is taken up, also when it arrives during another one.
ReloadIsTaken == hupCh ~> (~hupCh \/ ~Up)

Started(p) == \E i \in Inst : rp[i].prog = p

\* No lost wakeup: once the once programs it waits for have run, a program
\* gets started although nobody asks for a reload (depCh, main.go:119-121).
DependentStarts ==
  \A p \in Prog :
    <>[](/\ Up /\ progs[p] # Absent /\ progs[p].auto
         /\ \A d \in progs[p].deps :
              progs[d] # Absent /\ progs[d].once /\ d \in ranOnce)
      => <>(Started(p) \/ p \in ranOnce)

\* Without IPC: a program that may be retried for ever is brought up again
\* and again, whatever reload races with its crash and its backoff.
KeptUp ==
  \A p \in Prog :
    <>[](/\ Up /\ progs[p] # Absent /\ progs[p].auto /\ progs[p].restart
         /\ ~progs[p].once /\ progs[p].max = 0 /\ progs[p].deps = {})
      => []<>(\E i \in Inst : rp[i].prog = p /\ Live(i))

----------------------------------------------------------------------------
(* What comments and documents say, for the runs that show otherwise.      *)

\* AUDIT.md:135, the double close of done in terminate is "safe".
NeverPanics == ~panicked

\* main.go:704, stop "marks it so autorestart is suppressed".
StopSuppressesRetry == [][\A i \in Inst : Retry(i) => ~rp[i].stopped]_vars

\* readme.md:241, on SIGTERM kas exits after all programs did.
ExitLeavesNobody == shut = "exited" => \A i \in Inst : ~Live(i)

=============================================================================
