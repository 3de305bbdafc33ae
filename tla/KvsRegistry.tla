---------------------------- MODULE KvsRegistry ----------------------------
(***************************************************************************)
(* The registry of the subprocesses that kvs manages (ServiceManager.pids  *)
(* in tools/kvs/pkg/service.go and its file kvs-svc.json in the home).  It *)
(* outlives kvs: a kvs that starts kills what an earlier one left behind,  *)
(* and a stop kills what survived it.  Pids are reused by the kernel, so a *)
(* recorded pid is checked against a marker in its environment first.  All *)
(* checks and signals go by number, one after the other, and the number    *)
(* may change hands between any two of them.                               *)
(*                                                                         *)
(* A process is gone when it exits (zombies are reaped at once), and       *)
(* SIGKILL always works.                                                   *)
(***************************************************************************)
EXTENDS Naturals, FiniteSets

CONSTANTS
  Kvs,         \* instances of kvs that share a home; one that is gone may boot again
  Svc, Pid,
  Configured,  \* the services in the configuration of an instance
  Handler,     \* stop and restart requests at work in one instance
  Main,        \* the main goroutine, in its shutdown
  PID1, Elsewhere,  \* parents of processes that are no kvs's children
  None,
  Limit        \* bound: starts, crashes of kvs, births of unrelated processes

ASSUME RegistryAssumption ==
  /\ Main \notin Handler
  /\ Configured \in [Kvs -> SUBSET Svc]
  /\ None \notin Svc \cup Pid \cup Kvs \cup {PID1, Elsewhere}
  /\ PID1 \notin Kvs /\ Elsewhere \notin Kvs
  /\ Limit \in [{"start", "crash", "other"} -> Nat]

VARIABLES
  kvs,      \* "off", at its sweep, "up", stopping all, at its final sweep
  mem,      \* ServiceManager.pids
  file,     \* kvs-svc.json; a file that cannot be parsed counts as empty
  tracked,  \* managedService.proc: the pid last started, until Stop forgets it
  environ,  \* the markers kvs has put into its own environment
  pending,  \* StartProc calls between Process.Start and registerPid
  stop,     \* StopOne and ensureDead calls; Main's first is the sweep at the start
  todo,     \* what the sweep, StopAll and the final sweep have still to do
  os,       \* the process table
  limit

own == <<kvs, mem, tracked, environ, pending, stop, todo>>
registryVars == <<own, file, os, limit>>

Stopper == Handler \cup {Main}
Recorded == [Svc -> Pid \cup {None}]

Free == [kind |-> "free", svc |-> None, parent |-> None, env |-> {}, lost |-> FALSE]

\* env: the markers a process carries.  lost is history: the process is alive
\* and what recorded it has been dropped.
ProcState == [kind : {"free", "other", "child"}, svc : Svc \cup {None},
              parent : Kvs \cup {PID1, Elsewhere, None}, env : SUBSET Svc, lost : BOOLEAN]

\* A child carries its own marker, other processes carry none.
Plausible(r) ==
  IF r.kind = "child" THEN r.svc \in r.env /\ r.parent \in Kvs \cup {PID1}
  ELSE r.env = {}

Entry == [svc : Svc, pid : Pid \cup {None}]

\* Where a call is: in StopOne, in SweepOrphans with killPID, in ensureDead.
\* reused is history: the number it is about to signal has been handed out
\* again since the check.
StopState == [at : {"idle", "stop", "group", "parent", "marker", "term", "verify", "kill", "forget"},
              svc : Svc \cup {None}, pid : Pid \cup {None}, reused : BOOLEAN]

RegistryTypeOK ==
  /\ kvs \in [Kvs -> {"off", "sweep", "up", "stop", "final"}]
  /\ mem \in [Kvs -> Recorded] /\ file \in Recorded
  /\ tracked \in [Kvs -> Recorded]
  /\ environ \in [Kvs -> SUBSET Svc]
  /\ pending \in [Kvs -> [Svc -> Nat]]
  /\ stop \in [Kvs -> [Stopper -> StopState]]
  /\ \A k \in Kvs, x \in Stopper : stop[k][x].at # "idle" => stop[k][x].svc \in Svc
  /\ todo \in [Kvs -> SUBSET Entry]
  /\ os \in [Pid -> ProcState]
  /\ \A p \in Pid : Plausible(os[p])
  /\ limit \in [{"start", "crash", "other"} -> Nat]

Empty == [s \in Svc |-> None]
Call(at, s, p) == [at |-> at, svc |-> s, pid |-> p, reused |-> FALSE]
Idle == Call("idle", None, None)

RegistryInit ==
  /\ kvs = [k \in Kvs |-> "off"]
  /\ mem = [k \in Kvs |-> Empty] /\ file = Empty
  /\ tracked = [k \in Kvs |-> Empty]
  /\ environ = [k \in Kvs |-> {}]
  /\ pending = [k \in Kvs |-> [s \in Svc |-> 0]]
  /\ stop = [k \in Kvs |-> [x \in Stopper |-> Idle]]
  /\ todo = [k \in Kvs |-> {}]
  /\ os = [p \in Pid |-> Free]
  /\ limit = Limit

Consume(what) ==
  /\ limit[what] > 0
  /\ limit' = [limit EXCEPT ![what] = @ - 1]

----------------------------------------------------------------------------
(* The registry.                                                           *)

Alive(p) == os[p].kind # "free"

\* Mutant of Carries: any process that has the number.
HasNumber(p, s) == Alive(p)

\* A child carries the markers of all services that kvs had started before.
Carries(p, s) == s \in os[p].env

Entries(rec) == {e \in Entry : e.pid # None /\ rec[e.svc] = e.pid}

\* The whole map is written at every change.
Save(k, rec) == mem' = [mem EXCEPT ![k] = rec] /\ file' = rec

forgetPid(k, s) ==
  IF mem[k][s] = None THEN UNCHANGED <<mem, file>>
  ELSE Save(k, [mem[k] EXCEPT ![s] = None])

\* Mutant of registerPid: the file is not written.
registerInMemory(k, s, p) ==
  IF p = None THEN UNCHANGED <<mem, file>>
  ELSE mem' = [mem EXCEPT ![k][s] = p] /\ UNCHANGED file

registerPid(k, s, p) ==
  IF p = None THEN UNCHANGED <<mem, file>>
  ELSE Save(k, [mem[k] EXCEPT ![s] = p])

----------------------------------------------------------------------------
(* The start of kvs: SetHomeDir, SweepOrphans.                             *)

Boot(k) ==
  /\ kvs[k] = "off"
  /\ kvs' = [kvs EXCEPT ![k] = "sweep"]
  /\ mem' = [mem EXCEPT ![k] = file]
  /\ todo' = [todo EXCEPT ![k] = Entries(file)]
  /\ UNCHANGED <<tracked, environ, pending, stop, file, os, limit>>

Orphan(p) == os[p].kind = "child" /\ os[p].parent = PID1

\* procAlive, for the next entry.
Sweep(k) ==
  /\ kvs[k] = "sweep" /\ stop[k][Main] = Idle
  /\ \E e \in todo[k] :
       /\ todo' = [todo EXCEPT ![k] = @ \ {e}]
       /\ stop' = [stop EXCEPT ![k][Main] =
                     Call(IF Alive(e.pid) THEN "parent" ELSE "forget", e.svc, e.pid)]
  /\ UNCHANGED <<kvs, mem, tracked, environ, pending, file, os, limit>>

\* The child of another live kvs is left alone, and so is its entry.
CheckParent(k) ==
  /\ stop[k][Main].at = "parent"
  /\ IF os[stop[k][Main].pid].parent = PID1
       THEN stop' = [stop EXCEPT ![k][Main].at = "marker"]
       ELSE stop' = [stop EXCEPT ![k][Main] = Idle]
  /\ UNCHANGED <<kvs, mem, tracked, environ, pending, todo, file, os, limit>>

CheckMarker(k) ==
  /\ stop[k][Main].at = "marker"
  /\ stop' = [stop EXCEPT ![k][Main].at =
                IF Carries(stop[k][Main].pid, stop[k][Main].svc) THEN "term" ELSE "forget"]
  /\ UNCHANGED <<kvs, mem, tracked, environ, pending, todo, file, os, limit>>

\* killPID: SIGTERM to whatever has the number, which may survive it.
SendTerm(k) ==
  /\ stop[k][Main].at = "term"
  /\ os' \in {os, [os EXCEPT ![stop[k][Main].pid] = Free]}
  /\ stop' = [stop EXCEPT ![k][Main].at = "kill"]
  /\ UNCHANGED <<kvs, mem, tracked, environ, pending, todo, file, limit>>

\* Mutant of Kill: no SIGKILL follows the SIGTERM.
TermOnly(k, x) ==
  /\ stop[k][x].at = "kill"
  /\ stop' = [stop EXCEPT ![k][x].at = "forget"]
  /\ UNCHANGED <<kvs, mem, tracked, environ, pending, todo, file, os, limit>>

\* killPID after its grace, and ensureDead: SIGKILL to whatever has the number.
Kill(k, x) ==
  /\ stop[k][x].at = "kill"
  /\ os' = [os EXCEPT ![stop[k][x].pid] = Free]
  /\ stop' = [stop EXCEPT ![k][x].at = "forget"]
  /\ UNCHANGED <<kvs, mem, tracked, environ, pending, todo, file, limit>>

ForgetSwept(k) ==
  /\ kvs[k] = "sweep" /\ stop[k][Main].at = "forget"
  /\ forgetPid(k, stop[k][Main].svc)
  /\ stop' = [stop EXCEPT ![k][Main] = Idle]
  /\ UNCHANGED <<kvs, tracked, environ, pending, todo, os, limit>>

Serve(k) ==
  /\ kvs[k] = "sweep" /\ stop[k][Main] = Idle /\ todo[k] = {}
  /\ kvs' = [kvs EXCEPT ![k] = "up"]
  /\ UNCHANGED <<mem, tracked, environ, pending, stop, todo, file, os, limit>>

----------------------------------------------------------------------------
(* StartProc, in preparation goroutines, which a shutdown does not stop.   *)

IsRunning(k, s) ==
  /\ tracked[k][s] # None
  /\ LET p == os[tracked[k][s]] IN p.kind = "child" /\ p.svc = s /\ p.parent = k

\* Process.lock, which Process.Stop holds to its end.
Unlocked(k, s) == \A x \in Stopper : ~(stop[k][x].at = "group" /\ stop[k][x].svc = s)

\* The number a call is about to signal by what it has checked.
Aims(k, x) == stop[k][x].at \in {"group", "marker", "term", "kill"}
Target(k, x) == IF stop[k][x].at = "group" THEN tracked[k][stop[k][x].svc] ELSE stop[k][x].pid

\* The kernel gives p to a new process.
HandOut(p) ==
  /\ ~Alive(p)
  /\ stop' = [k \in Kvs |-> [x \in Stopper |->
                IF Aims(k, x) /\ Target(k, x) = p
                THEN [stop[k][x] EXCEPT !.reused = TRUE] ELSE stop[k][x]]]

Start(k, s) ==
  /\ s \in Configured[k] /\ kvs[k] \in {"up", "stop", "final"}
  /\ Unlocked(k, s) /\ ~IsRunning(k, s)
  /\ Consume("start")
  /\ environ' = [environ EXCEPT ![k] = @ \cup {s}]
  /\ \E p \in Pid :
       /\ HandOut(p)
       /\ os' = [os EXCEPT ![p] = [kind |-> "child", svc |-> s, parent |-> k,
                                   env |-> environ[k] \cup {s}, lost |-> FALSE]]
       /\ tracked' = [tracked EXCEPT ![k][s] = p]
  /\ pending' = [pending EXCEPT ![k][s] = @ + 1]
  /\ UNCHANGED <<kvs, mem, todo, file>>

\* What is recorded is the pid that Process tracks by now, if any.
Register(k, s) ==
  /\ pending[k][s] > 0 /\ Unlocked(k, s)
  /\ pending' = [pending EXCEPT ![k][s] = @ - 1]
  /\ registerPid(k, s, tracked[k][s])
  /\ UNCHANGED <<kvs, tracked, environ, stop, todo, os, limit>>

----------------------------------------------------------------------------
(* StopOne, by a request or by StopAll; the final sweep only verifies.     *)

Ask(k, x, s) ==
  /\ x \in Handler /\ s \in Configured[k] /\ kvs[k] = "up" /\ stop[k][x] = Idle
  /\ Unlocked(k, s)
  /\ stop' = [stop EXCEPT ![k][x] = Call("stop", s, tracked[k][s])]
  /\ UNCHANGED <<kvs, mem, tracked, environ, pending, todo, file, os, limit>>

\* Process.Stop takes the lock and sees whether the child has been reaped.
StopProc(k, x) ==
  /\ stop[k][x].at = "stop" /\ Unlocked(k, stop[k][x].svc)
  /\ stop' = [stop EXCEPT ![k][x].at =
                IF IsRunning(k, stop[k][x].svc) THEN "group" ELSE "verify"]
  /\ UNCHANGED <<kvs, mem, tracked, environ, pending, todo, file, os, limit>>

\* terminateLocked signals the number and the group of that number; another
\* process that has the number by now may lead no group.
terminateLocked(k, x) ==
  /\ stop[k][x].at = "group"
  /\ LET s == stop[k][x].svc IN
       /\ \/ os' = [os EXCEPT ![tracked[k][s]] = Free]
          \/ ~IsRunning(k, s) /\ UNCHANGED os
       /\ tracked' = [tracked EXCEPT ![k][s] = None]
  /\ stop' = [stop EXCEPT ![k][x].at = "verify", ![k][x].reused = FALSE]
  /\ UNCHANGED <<kvs, mem, environ, pending, todo, file, limit>>

\* The pid is the one the caller read before the stop.
ensureDead(k, x) ==
  /\ stop[k][x].at = "verify"
  /\ LET s == stop[k][x].svc
         p == stop[k][x].pid
     IN  stop' = [stop EXCEPT ![k][x].at =
                    IF p # None /\ Alive(p) /\ Carries(p, s) THEN "kill" ELSE "forget"]
  /\ UNCHANGED <<kvs, mem, tracked, environ, pending, todo, file, os, limit>>

\* Whatever pid is recorded by now is dropped.
Forget(k, x) ==
  /\ kvs[k] # "sweep" /\ stop[k][x].at = "forget"
  /\ LET s == stop[k][x].svc IN
       /\ forgetPid(k, s)
       /\ os' = [p \in Pid |->
                   IF os[p].kind = "child" /\ os[p].svc = s /\ mem[k][s] = p
                   THEN [os[p] EXCEPT !.lost = TRUE] ELSE os[p]]
  /\ stop' = [stop EXCEPT ![k][x] = Idle]
  /\ UNCHANGED <<kvs, tracked, environ, pending, todo, limit>>

----------------------------------------------------------------------------
(* The end of kvs.                                                         *)

\* StopAll stops the configured services; the final sweep, what is recorded.
Shutdown(k) ==
  /\ kvs[k] = "up"
  /\ kvs' = [kvs EXCEPT ![k] = "stop"]
  /\ todo' = [todo EXCEPT ![k] = [svc : Configured[k], pid : {None}]]
  /\ UNCHANGED <<mem, tracked, environ, pending, stop, file, os, limit>>

StopNext(k) ==
  /\ kvs[k] = "stop" /\ stop[k][Main] = Idle
  /\ \E e \in todo[k] :
       /\ todo' = [todo EXCEPT ![k] = @ \ {e}]
       /\ Unlocked(k, e.svc)
       /\ stop' = [stop EXCEPT ![k][Main] = Call("stop", e.svc, tracked[k][e.svc])]
  /\ UNCHANGED <<kvs, mem, tracked, environ, pending, file, os, limit>>

FinalSweep(k) ==
  /\ kvs[k] = "stop" /\ stop[k][Main] = Idle /\ todo[k] = {}
  /\ kvs' = [kvs EXCEPT ![k] = "final"]
  /\ todo' = [todo EXCEPT ![k] = Entries(mem[k])]
  /\ UNCHANGED <<mem, tracked, environ, pending, stop, file, os, limit>>

FinalNext(k) ==
  /\ kvs[k] = "final" /\ stop[k][Main] = Idle
  /\ \E e \in todo[k] :
       /\ todo' = [todo EXCEPT ![k] = @ \ {e}]
       /\ stop' = [stop EXCEPT ![k][Main] = Call("verify", e.svc, e.pid)]
  /\ UNCHANGED <<kvs, mem, tracked, environ, pending, file, os, limit>>

\* A goroutine is at a write of the file, which is truncated first.
Saving(k) ==
  \/ \E s \in Svc : pending[k][s] > 0 /\ tracked[k][s] # None
  \/ \E x \in Stopper : stop[k][x].at = "forget" /\ mem[k][stop[k][x].svc] # None

\* The children are left to PID 1; what is not recorded by now never will be.
Gone(k) ==
  /\ kvs' = [kvs EXCEPT ![k] = "off"]
  /\ mem' = [mem EXCEPT ![k] = Empty]
  /\ tracked' = [tracked EXCEPT ![k] = Empty]
  /\ environ' = [environ EXCEPT ![k] = {}]
  /\ pending' = [pending EXCEPT ![k] = [s \in Svc |-> 0]]
  /\ stop' = [stop EXCEPT ![k] = [x \in Stopper |-> Idle]]
  /\ todo' = [todo EXCEPT ![k] = {}]
  /\ file' \in {file} \cup (IF Saving(k) THEN {Empty} ELSE {})
  /\ os' = [p \in Pid |->
              IF os[p].kind # "child" THEN os[p]
              ELSE [os[p] EXCEPT
                      !.parent = IF @ = k THEN PID1 ELSE @,
                      !.lost = \/ @
                               \/ file' # file
                               \/ os[p].parent = k /\ pending[k][os[p].svc] > 0]]

Exit(k) ==
  /\ kvs[k] = "final" /\ stop[k][Main] = Idle /\ todo[k] = {}
  /\ Gone(k)
  /\ UNCHANGED limit

Crash(k) ==
  /\ kvs[k] # "off" /\ Consume("crash")
  /\ Gone(k)

----------------------------------------------------------------------------
(* Other processes.                                                        *)

ProcessExits(p) ==
  /\ Alive(p)
  /\ os' = [os EXCEPT ![p] = Free]
  /\ UNCHANGED <<own, file, limit>>

UnrelatedStarts(p) ==
  /\ HandOut(p) /\ Consume("other")
  /\ \E q \in {PID1, Elsewhere} :
       os' = [os EXCEPT ![p] = [Free EXCEPT !.kind = "other", !.parent = q]]
  /\ UNCHANGED <<kvs, mem, tracked, environ, pending, todo, file>>

RegistryNext ==
  \/ \E k \in Kvs :
       \/ Boot(k) \/ Sweep(k) \/ CheckParent(k) \/ CheckMarker(k) \/ SendTerm(k)
       \/ ForgetSwept(k) \/ Serve(k)
       \/ Shutdown(k) \/ StopNext(k) \/ FinalSweep(k) \/ FinalNext(k) \/ Exit(k)
       \/ Crash(k)
       \/ \E s \in Svc : Start(k, s) \/ Register(k, s) \/ \E x \in Handler : Ask(k, x, s)
       \/ \E x \in Stopper : \/ StopProc(k, x) \/ terminateLocked(k, x)
                            \/ ensureDead(k, x) \/ Kill(k, x) \/ Forget(k, x)
  \/ \E p \in Pid : ProcessExits(p) \/ UnrelatedStarts(p)

RegistrySpec == RegistryInit /\ [][RegistryNext]_registryVars

----------------------------------------------------------------------------
(* Properties, of the only instance in its home but for the last.          *)

\* The next kvs finds what this one leaves behind: a managed process is in the
\* file, or a goroutine is about to record it, unless a stop forgot the entry
\* of a newer process, or kvs died before the record was written or while it
\* was (main.go:95-98).
RecordedOrLost ==
  \A p \in Pid : os[p].kind = "child" /\ ~os[p].lost =>
    \/ file[os[p].svc] = p
    \/ os[p].parent \in Kvs /\ pending[os[p].parent][os[p].svc] > 0

\* A kvs that serves has cleaned up: every orphan it met in the file is gone,
\* also when earlier sweeps were cut off by a crash (service.go:918-924).
NoOrphanAfterBoot ==
  \A k \in Kvs : kvs[k] \in {"up", "stop", "final"} =>
    \A p \in Pid : Orphan(p) => os[p].lost

\* Steps that signal a process.
Signals(k, x) ==
  \/ x = Main /\ SendTerm(k)
  \/ terminateLocked(k, x) \/ Kill(k, x)

\* Nobody is killed for the number alone: whom a signal of kvs ends is the
\* process that was checked, a child that carries the marker of the service,
\* at a sweep one whose kvs is dead, and in Process.Stop its own.  The only
\* other way is that this process exits between the check and the signal and
\* its number is handed out again (service.go:854-856, 922-924, 956-973).
OnlyReuseMisleads ==
  [][\A k \in Kvs, x \in Stopper, p \in Pid :
       Signals(k, x) /\ Alive(p) /\ ~Alive(p)' /\ ~stop[k][x].reused =>
         /\ os[p].kind = "child" /\ Carries(p, stop[k][x].svc)
         /\ kvs[k] = "sweep" => os[p].parent = PID1
         /\ stop[k][x].at = "group" => os[p].parent = k /\ os[p].svc = stop[k][x].svc]_registryVars

\* service.go:854-856, 891-893: the marker guards against recycled pids, and an
\* unrelated process that reuses a recorded one is spared.  It is not between
\* the look at the marker and the signals that follow, the last of them two
\* seconds later (956-973).
SparesUnrelated ==
  [][\A k \in Kvs, x \in Stopper, p \in Pid :
       Signals(k, x) /\ stop[k][x].at \in {"term", "kill"} /\ os[p].kind = "other" =>
         os'[p] = os[p]]_registryVars

\* service.go:922-924, main.go:771-773: a process that another live kvs owns is
\* left alone.
LeavesOthersAlone ==
  [][\A k \in Kvs, x \in Stopper, p \in Pid :
       Signals(k, x) /\ os[p].kind = "child" /\ os[p].parent \in Kvs \ {k} =>
         os'[p] = os[p]]_registryVars

=============================================================================
