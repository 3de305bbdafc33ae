----------------------------- MODULE KvsService -----------------------------
(***************************************************************************)
(* A service hosted by kvs (svc://name): prepared by the first request,    *)
(* proxied once it is ready, stopped and reset by /__restart, by the       *)
(* manager's apply hook and by /__manager/stop.  ServiceState              *)
(* (tools/kvs/pkg/service.go) is shared by the HTTP handlers and by the    *)
(* preparation goroutines, and each of its methods takes its lock for      *)
(* itself: a handler is several steps.                                     *)
(*                                                                         *)
(* One service stands for all: services share no state but the two maps of *)
(* the ServiceManager and their pid file.  Its address is a TCP address.   *)
(***************************************************************************)
EXTENDS Naturals, FiniteSets

CONSTANTS
  Req,      \* requests in flight at the same time
  Worker,   \* preparation goroutines, numbered
  Op,       \* stop and restart handlers at work at the same time
  Child,    \* backend subprocesses
  Config,   \* what LoadInitConfig can return for the service
  Ver,      \* versions; each has its own bin_home
  NoCfg, NoChild,
  Budget    \* bound: how often the operator stops or restarts, faults occur

\* initError: the version could not be resolved.  command, once: whether the
\* configuration has a command and a once_shell.
ASSUME ServiceAssumption ==
  /\ Worker \subseteq Nat
  /\ \A c \in Config :
       /\ DOMAIN c = {"ver", "initError", "command", "once"}
       /\ c.ver \in Ver
       /\ c.initError \in BOOLEAN /\ c.command \in BOOLEAN /\ c.once \in BOOLEAN
  /\ NoCfg \notin Config /\ NoChild \notin Child
  /\ Budget \in [{"op", "fault"} -> Nat]

VARIABLES
  cfg,      \* managedService.cfg
  st,       \* managedService.state: preparing, done, err
  req,      \* a request: control point, the config it read
  worker,   \* a preparation: control point, config, its error, gen at Begin
  op,       \* a stop or restart: control point, does it reload the config
  child,    \* subprocesses: "none", "starting", "up"; a dead one is "none"
  proc,     \* Process.proc, the child it tracks
  ext,      \* something that is not managed answers at the address
  bin,      \* bin_home of a version: "absent", "partial", "full"
  marker,   \* versions with the __once__ file
  gen,      \* history: number of resets
  early,    \* history: since the reset some Finish ended another's preparing
  onceRan,  \* history: versions whose once_shell has succeeded
  budget    \* what is left of Budget

disk == <<bin, marker, onceRan>>
procs == <<child, proc, ext>>
vars == <<cfg, st, req, worker, op, procs, disk, gen, early, budget>>

State == [preparing : BOOLEAN, done : BOOLEAN, err : BOOLEAN]

ReqState == [at : {"idle"}, cfg : {NoCfg}]
       \cup [at : {"result", "begin", "active", "final"}, cfg : Config]

WorkerPC == {"idle", "probe", "deploy", "download", "extract", "once", "mark",
             "init", "start", "finish"}

WorkerState == [at : {"idle"}, cfg : {NoCfg}, err : BOOLEAN, gen : Nat]
          \cup [at : WorkerPC \ {"idle"}, cfg : Config, err : BOOLEAN, gen : Nat]

OpState == [at : {"idle"}, reload : {FALSE}]
      \cup [at : {"stop", "reset"}, reload : BOOLEAN]
      \cup [at : {"report"}, reload : {TRUE}]

TypeOK ==
  /\ cfg \in Config
  /\ st \in State
  /\ req \in [Req -> ReqState]
  /\ worker \in [Worker -> WorkerState]
  /\ op \in [Op -> OpState]
  /\ child \in [Child -> {"none", "starting", "up"}]
  /\ proc \in Child \cup {NoChild}
  /\ ext \in BOOLEAN
  /\ bin \in [Ver -> {"absent", "partial", "full"}]
  /\ marker \subseteq Ver /\ onceRan \subseteq Ver
  /\ gen \in Nat
  /\ early \in BOOLEAN
  /\ budget \in [{"op", "fault"} -> Nat]

Fresh == [preparing |-> FALSE, done |-> FALSE, err |-> FALSE]
NoReq == [at |-> "idle", cfg |-> NoCfg]
NoWorker == [at |-> "idle", cfg |-> NoCfg, err |-> FALSE, gen |-> 0]
NoOp == [at |-> "idle", reload |-> FALSE]

Init ==
  /\ cfg \in Config
  /\ st = Fresh
  /\ req = [r \in Req |-> NoReq]
  /\ worker = [w \in Worker |-> NoWorker]
  /\ op = [o \in Op |-> NoOp]
  /\ child = [c \in Child |-> "none"]
  /\ proc = NoChild
  /\ ext \in BOOLEAN
  /\ bin = [v \in Ver |-> "absent"]
  /\ marker = {} /\ onceRan = {}
  /\ gen = 0 /\ early = FALSE
  /\ budget = Budget

Spend(what) ==
  /\ budget[what] > 0
  /\ budget' = [budget EXCEPT ![what] = @ - 1]

----------------------------------------------------------------------------
(* ServiceState.                                                           *)

Active(w) == worker[w].at # "idle"

\* A preparation that no reset has disowned.
Current(w) == Active(w) /\ worker[w].gen = gen

Failed == st.done /\ st.err
Succeeded == st.done /\ ~st.err

\* Mutant of MayBegin: a preparation in progress is not looked at.
MayBeginAgain == ~Succeeded

MayBegin == ~st.preparing /\ ~Succeeded

\* Mutant of Finished: done is not set.
FinishedQuietly(err) == [preparing |-> FALSE, done |-> FALSE, err |-> err]

Finished(err) == [preparing |-> FALSE, done |-> TRUE, err |-> err]

\* Whether a Finish ends a preparing that is not its caller's own.
EndsAnothers(others) == early \/ \E w \in others : Current(w)

----------------------------------------------------------------------------
(* A request under the route of the service.                               *)

\* The handler reads the configuration that a preparation would use.
Dispatch(r) ==
  /\ req[r].at = "idle"
  /\ req' = [req EXCEPT ![r] = [at |-> "result", cfg |-> cfg]]
  /\ UNCHANGED <<cfg, st, worker, op, procs, disk, gen, early, budget>>

\* A failed preparation is answered with its error and not tried again.
Result(r) ==
  /\ req[r].at = "result"
  /\ req' = [req EXCEPT ![r] = IF Failed THEN NoReq ELSE [@ EXCEPT !.at = "begin"]]
  /\ UNCHANGED <<cfg, st, worker, op, procs, disk, gen, early, budget>>

Unused(w) == ~Active(w) /\ \A v \in Worker : ~Active(v) => w <= v

Begin(r, w) ==
  /\ req[r].at = "begin" /\ MayBegin /\ Unused(w)
  /\ st' = [preparing |-> TRUE, done |-> FALSE, err |-> FALSE]
  /\ worker' = [worker EXCEPT ![w] = [at |-> "probe", cfg |-> req[r].cfg,
                                     err |-> FALSE, gen |-> gen]]
  /\ req' = [req EXCEPT ![r].at = "active"]
  /\ UNCHANGED <<cfg, op, procs, disk, gen, early, budget>>

BeginRefused(r) ==
  /\ req[r].at = "begin" /\ ~MayBegin
  /\ req' = [req EXCEPT ![r].at = "active"]
  /\ UNCHANGED <<cfg, st, worker, op, procs, disk, gen, early, budget>>

\* While preparing, the answer is the loading page; it reloads itself.
CheckActive(r) ==
  /\ req[r].at = "active"
  /\ req' = [req EXCEPT ![r] = IF st.preparing THEN NoReq ELSE [@ EXCEPT !.at = "final"]]
  /\ UNCHANGED <<cfg, st, worker, op, procs, disk, gen, early, budget>>

Proxy(r) ==
  /\ req[r].at = "final" /\ Succeeded
  /\ req' = [req EXCEPT ![r] = NoReq]
  /\ UNCHANGED <<cfg, st, worker, op, procs, disk, gen, early, budget>>

\* The error of a preparation, or the loading page.
NotReady(r) ==
  /\ req[r].at = "final" /\ ~Succeeded
  /\ req' = [req EXCEPT ![r] = NoReq]
  /\ UNCHANGED <<cfg, st, worker, op, procs, disk, gen, early, budget>>

Request(r) ==
  \/ Dispatch(r) \/ Result(r) \/ (\E w \in Worker : Begin(r, w)) \/ BeginRefused(r)
  \/ CheckActive(r) \/ Proxy(r) \/ NotReady(r)

----------------------------------------------------------------------------
(* PrepareService and the start of the command, in a goroutine of its own. *)

Goto(w, pc) == worker' = [worker EXCEPT ![w].at = pc]
Fail(w) == worker' = [worker EXCEPT ![w].at = "finish", ![w].err = TRUE]

Reachable == ext \/ \E c \in Child : child[c] = "up"

\* What answers the health probe is taken for an external service.
Probe(w) ==
  /\ worker[w].at = "probe"
  /\ IF worker[w].cfg.initError THEN Fail(w)
     ELSE Goto(w, IF Reachable THEN "finish" ELSE "deploy")
  /\ UNCHANGED <<cfg, st, req, op, procs, disk, gen, early, budget>>

\* A bin_home with anything in it counts as installed.
Installed(v) == bin[v] # "absent"

CheckDeployed(w) ==
  /\ worker[w].at = "deploy"
  /\ Goto(w, IF Installed(worker[w].cfg.ver) THEN "once" ELSE "download")
  /\ UNCHANGED <<cfg, st, req, op, procs, disk, gen, early, budget>>

\* Everything up to the first file that the extraction creates in bin_home,
\* where another preparation may have put files meanwhile.
Download(w) ==
  /\ worker[w].at = "download"
  /\ \/ Fail(w) /\ UNCHANGED bin
     \/ /\ Goto(w, "extract")
        /\ bin' = [bin EXCEPT ![worker[w].cfg.ver] = "partial"]
  /\ UNCHANGED <<cfg, st, req, op, procs, marker, onceRan, gen, early, budget>>

Extract(w) ==
  /\ worker[w].at = "extract"
  /\ \/ Fail(w) /\ UNCHANGED bin
     \/ /\ Goto(w, "once")
        /\ bin' = [bin EXCEPT ![worker[w].cfg.ver] = "full"]
  /\ UNCHANGED <<cfg, st, req, op, procs, marker, onceRan, gen, early, budget>>

NeedsOnce(w) == worker[w].cfg.once /\ worker[w].cfg.ver \notin marker

SkipOnce(w) ==
  /\ worker[w].at = "once" /\ ~NeedsOnce(w)
  /\ Goto(w, "init")
  /\ UNCHANGED <<cfg, st, req, op, procs, disk, gen, early, budget>>

\* Mutant of OnceShell: the marker is written first.
MarkerFirst(w) ==
  /\ worker[w].at = "once" /\ NeedsOnce(w)
  /\ marker' = marker \cup {worker[w].cfg.ver}
  /\ \/ Fail(w) /\ UNCHANGED onceRan
     \/ /\ Goto(w, "mark")
        /\ onceRan' = onceRan \cup {worker[w].cfg.ver}
  /\ UNCHANGED <<cfg, st, req, op, procs, bin, gen, early, budget>>

OnceShell(w) ==
  /\ worker[w].at = "once" /\ NeedsOnce(w)
  /\ \/ Fail(w) /\ UNCHANGED onceRan
     \/ /\ Goto(w, "mark")
        /\ onceRan' = onceRan \cup {worker[w].cfg.ver}
  /\ UNCHANGED <<cfg, st, req, op, procs, bin, marker, gen, early, budget>>

\* A marker that cannot be written is only logged.
WriteMarker(w) ==
  /\ worker[w].at = "mark"
  /\ marker' \in {marker, marker \cup {worker[w].cfg.ver}}
  /\ Goto(w, "init")
  /\ UNCHANGED <<cfg, st, req, op, procs, bin, onceRan, gen, early, budget>>

\* Mutant of InitShell: its error return is taken for the end of the goroutine.
InitShellReturns(w) ==
  /\ worker[w].at = "init"
  /\ Goto(w, "start") \/ worker' = [worker EXCEPT ![w] = NoWorker]
  /\ UNCHANGED <<cfg, st, req, op, procs, disk, gen, early, budget>>

InitShell(w) ==
  /\ worker[w].at = "init"
  /\ Fail(w) \/ Goto(w, "start")
  /\ UNCHANGED <<cfg, st, req, op, procs, disk, gen, early, budget>>

Live(c) == child[c] # "none"
Running == proc # NoChild /\ Live(proc)

\* Mutant of StartProc: Process.Start does not look for a running child.
StartProcAnyway(w) ==
  /\ worker[w].at = "start"
  /\ \/ UNCHANGED <<child, proc>>
     \/ /\ worker[w].cfg.command
        /\ \E c \in Child :
             /\ ~Live(c)
             /\ child' = [child EXCEPT ![c] = "starting"]
             /\ proc' = c
  /\ Goto(w, "finish")
  /\ UNCHANGED <<cfg, st, req, op, ext, disk, gen, early, budget>>

\* Whether there was a command, a running child or a failed start: the
\* preparation counts as a success.
StartProc(w) ==
  /\ worker[w].at = "start"
  /\ \/ UNCHANGED <<child, proc>>
     \/ /\ worker[w].cfg.command /\ ~Running
        /\ \E c \in Child :
             /\ ~Live(c)
             /\ child' = [child EXCEPT ![c] = "starting"]
             /\ proc' = c
  /\ Goto(w, "finish")
  /\ UNCHANGED <<cfg, st, req, op, ext, disk, gen, early, budget>>

Finish(w) ==
  /\ worker[w].at = "finish"
  /\ st' = Finished(worker[w].err)
  /\ early' = EndsAnothers(Worker \ {w})
  /\ worker' = [worker EXCEPT ![w] = NoWorker]
  /\ UNCHANGED <<cfg, req, op, procs, disk, gen, budget>>

Prepare(w) ==
  \/ Probe(w) \/ CheckDeployed(w) \/ Download(w) \/ Extract(w) \/ SkipOnce(w)
  \/ OnceShell(w) \/ WriteMarker(w) \/ InitShell(w) \/ StartProc(w) \/ Finish(w)

----------------------------------------------------------------------------
(* /__restart and the apply hook reload the configuration first, then stop *)
(* the child and reset the state; /__manager/stop only stops and resets.   *)

Restart(o, c) ==
  /\ op[o].at = "idle"
  /\ Spend("op")
  /\ cfg' = c
  /\ op' = [op EXCEPT ![o] = [at |-> "stop", reload |-> TRUE]]
  /\ UNCHANGED <<st, req, worker, procs, disk, gen, early>>

ManagerStop(o) ==
  /\ op[o].at = "idle"
  /\ Spend("op")
  /\ op' = [op EXCEPT ![o] = [at |-> "stop", reload |-> FALSE]]
  /\ UNCHANGED <<cfg, st, req, worker, procs, disk, gen, early>>

\* Process.Stop holds its lock until the child is gone.
StopOne(o) ==
  /\ op[o].at = "stop"
  /\ child' = [c \in Child |-> IF c = proc THEN "none" ELSE child[c]]
  /\ proc' = IF Running THEN NoChild ELSE proc
  /\ op' = [op EXCEPT ![o].at = "reset"]
  /\ UNCHANGED <<cfg, st, req, worker, ext, disk, gen, early, budget>>

Reset(o) ==
  /\ op[o].at = "reset"
  /\ st' = Fresh
  /\ gen' = gen + 1 /\ early' = FALSE
  /\ op' = [op EXCEPT ![o] = IF op[o].reload THEN [@ EXCEPT !.at = "report"] ELSE NoOp]
  /\ UNCHANGED <<cfg, req, worker, procs, disk, budget>>

\* An error of the current configuration is recorded at once.
ReportInitError(o) ==
  /\ op[o].at = "report"
  /\ IF cfg.initError
       THEN st' = Finished(TRUE) /\ early' = EndsAnothers(Worker)
       ELSE UNCHANGED <<st, early>>
  /\ op' = [op EXCEPT ![o] = NoOp]
  /\ UNCHANGED <<cfg, req, worker, procs, disk, gen, budget>>

Operator(o) == StopOne(o) \/ Reset(o) \/ ReportInitError(o)

----------------------------------------------------------------------------
(* Backends.                                                               *)

ChildUp(c) ==
  /\ child[c] = "starting"
  /\ child' = [child EXCEPT ![c] = "up"]
  /\ UNCHANGED <<cfg, st, req, worker, op, proc, ext, disk, gen, early, budget>>

\* The tracked child stays in Process.proc.
ChildExits(c) ==
  /\ Live(c) /\ Spend("fault")
  /\ child' = [child EXCEPT ![c] = "none"]
  /\ UNCHANGED <<cfg, st, req, worker, op, proc, ext, disk, gen, early>>

ExternalChanges ==
  /\ Spend("fault")
  /\ ext' = ~ext
  /\ UNCHANGED <<cfg, st, req, worker, op, child, proc, disk, gen, early>>

----------------------------------------------------------------------------
Next ==
  \/ \E r \in Req : Request(r)
  \/ \E w \in Worker : Prepare(w)
  \/ \E o \in Op : Operator(o) \/ ManagerStop(o) \/ \E c \in Config : Restart(o, c)
  \/ \E c \in Child : ChildUp(c) \/ ChildExits(c)
  \/ ExternalChanges

Spec == Init /\ [][Next]_vars

\* Downloads and scripts end, handlers are scheduled, and a browser that was
\* shown the loading page asks again (loading.html reloads after five seconds).
Fairness ==
  /\ \A w \in Worker : WF_vars(Prepare(w))
  /\ \A o \in Op : WF_vars(Operator(o))
  /\ \A r \in Req : WF_vars(Request(r))

FairSpec == Spec /\ Fairness

----------------------------------------------------------------------------
(* Properties.                                                             *)

\* Two preparations of the same reset never run at once, and while one runs
\* every request sees it (service.go:35-36), unless a preparation the reset
\* disowned, or a restart with an initError, called Finish in between.
PreparingCovers ==
  ~early => \A v, w \in Worker : Current(v) /\ Current(w) => st.preparing /\ v = w

\* The loading page is never shown for ever: preparing implies a preparation
\* that will call Finish, also when earlier ones were disowned by a reset.
NoStuckLoading == st.preparing => \E w \in Worker : Current(w)

\* kvs runs one copy of the command, the one Process tracks, although disowned
\* and current preparations and restarts start and stop it (proc.go:100-101).
OneChild == \A c \in Child : Live(c) => proc = c

\* init_shell and the command only ever run after once_shell has succeeded for
\* the deployment, also after failures and resets (service.go:344-347).
OnceFirst ==
  \A w \in Worker : worker[w].at \in {"mark", "init", "start"} /\ worker[w].cfg.once =>
    worker[w].cfg.ver \in onceRan

\* Nobody loops on the loading page: once the operator leaves a service alone
\* that is asked for, it stays ready, or its preparations fail again and again
\* and the error is there to be shown.
Settles == <>[]Succeeded \/ []<>Failed

----------------------------------------------------------------------------
(* What comments say, for the runs that show otherwise.                    *)

\* service.go:35-36, "requests never proxy to the backend before it is fully
\* ready".
NeverProxiesEarly == [][\A r \in Req : Proxy(r) => ~\E w \in Worker : Current(w)]_vars

=============================================================================
