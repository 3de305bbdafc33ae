-------------------------- MODULE KvsServiceProofs --------------------------
(***************************************************************************)
(* Theorems about KvsService, for every number of requests, preparations,  *)
(* operators and children and every configuration, and about KvsRegistry,  *)
(* for every set of services, pids and handlers and every limit; what is   *)
(* said of its file, for a kvs alone in its home.                          *)
(***************************************************************************)
EXTENDS KvsService, KvsRegistry, TLAPS

----------------------------------------------------------------------------
(* KvsService: preparing, starting and stopping one service.               *)

\* A reset disowns everything before it: no preparation is ahead of gen.
GenInv == \A w \in Worker : worker[w].gen \leq gen

\* The marker file is written after once_shell has succeeded only.
MarkerInv ==
  /\ marker \subseteq onceRan
  /\ \A w \in Worker : worker[w].at = "mark" => worker[w].cfg.ver \in onceRan

PrepInv == GenInv /\ PreparingCovers /\ NoStuckLoading

IInv == TypeOK /\ PrepInv /\ OneChild /\ MarkerInv /\ OnceFirst

\* Next as one disjunction of the actions the proofs go through.
LEMMA Steps ==
  ASSUME Next
  PROVE \/ \E r \in Req :
             \/ Dispatch(r) \/ Result(r) \/ (\E w \in Worker : Begin(r, w))
             \/ BeginRefused(r) \/ CheckActive(r) \/ Proxy(r) \/ NotReady(r)
        \/ \E w \in Worker :
             \/ Probe(w) \/ CheckDeployed(w) \/ Download(w) \/ Extract(w) \/ SkipOnce(w)
             \/ OnceShell(w) \/ WriteMarker(w) \/ InitShell(w) \/ StartProc(w)
             \/ Finish(w)
        \/ \E o \in Op :
             \/ StopOne(o) \/ Reset(o) \/ ReportInitError(o) \/ ManagerStop(o)
             \/ \E c \in Config : Restart(o, c)
        \/ \E c \in Child : ChildUp(c) \/ ChildExits(c)
        \/ ExternalChanges
  BY DEF Next, Request, Prepare, Operator

\* A preparation that goes on keeps its type, its configuration and its gen.
LEMMA WorkerUpdate ==
  ASSUME NEW r \in WorkerState, r.at # "idle"
  PROVE /\ \A pc \in WorkerPC \ {"idle"} : [r EXCEPT !.at = pc] \in WorkerState
        /\ [r EXCEPT !.at = "finish", !.err = TRUE] \in WorkerState
<1>1. r \in [at : WorkerPC \ {"idle"}, cfg : Config, err : BOOLEAN, gen : Nat]
  BY DEF WorkerState
<1> QED BY <1>1 DEF WorkerState, WorkerPC

\* What a step of a preparation other than its last does to worker.
Advance(w) ==
  /\ Active(w)
  /\ \/ \E pc \in WorkerPC \ {"idle"} : worker' = [worker EXCEPT ![w].at = pc]
     \/ worker' = [worker EXCEPT ![w].at = "finish", ![w].err = TRUE]

\* The steps of a preparation between its begin and its end only advance it.
LEMMA Advances ==
  ASSUME NEW w \in Worker,
         \/ Probe(w) \/ CheckDeployed(w) \/ Download(w) \/ Extract(w) \/ SkipOnce(w)
         \/ OnceShell(w) \/ WriteMarker(w) \/ InitShell(w) \/ StartProc(w)
  PROVE Advance(w) /\ UNCHANGED <<cfg, st, req, op, gen, early>>
<1> USE DEF Advance, Active, Goto, Fail, WorkerPC, disk, procs
<1>1. CASE Probe(w) BY <1>1 DEF Probe
<1>2. CASE CheckDeployed(w) BY <1>2 DEF CheckDeployed
<1>3. CASE Download(w) BY <1>3 DEF Download
<1>4. CASE Extract(w) BY <1>4 DEF Extract
<1>5. CASE SkipOnce(w) BY <1>5 DEF SkipOnce
<1>6. CASE OnceShell(w) BY <1>6 DEF OnceShell
<1>7. CASE WriteMarker(w) BY <1>7 DEF WriteMarker
<1>8. CASE InitShell(w) BY <1>8 DEF InitShell
<1>9. CASE StartProc(w) BY <1>9 DEF StartProc
<1> QED BY <1>1, <1>2, <1>3, <1>4, <1>5, <1>6, <1>7, <1>8, <1>9

\* Such a step moves one preparation and changes nothing of it that PrepInv
\* reads.
LEMMA AdvanceFacts ==
  ASSUME TypeOK, NEW w \in Worker, Advance(w)
  PROVE /\ worker' \in [Worker -> WorkerState]
        /\ \A v \in Worker \ {w} : worker'[v] = worker[v]
        /\ worker'[w].gen = worker[w].gen /\ worker'[w].cfg = worker[w].cfg
        /\ worker'[w].at # "idle"
<1>1. worker[w] \in WorkerState /\ worker[w].at # "idle"
  BY DEF TypeOK, Advance, Active
<1>2. CASE \E pc \in WorkerPC \ {"idle"} : worker' = [worker EXCEPT ![w].at = pc]
  <2>1. PICK pc \in WorkerPC \ {"idle"} : worker' = [worker EXCEPT ![w].at = pc]
    BY <1>2
  <2>2. [worker[w] EXCEPT !.at = pc] \in WorkerState
    BY <1>1, WorkerUpdate
  <2> QED BY <1>1, <2>1, <2>2 DEF TypeOK, WorkerState
<1>3. CASE worker' = [worker EXCEPT ![w].at = "finish", ![w].err = TRUE]
  <2>1. [worker[w] EXCEPT !.at = "finish", !.err = TRUE] \in WorkerState
    BY <1>1, WorkerUpdate
  <2> QED BY <1>1, <1>3, <2>1 DEF TypeOK, WorkerState
<1> QED BY <1>2, <1>3 DEF Advance

\* Where a preparation is after Goto and Fail.
LEMMA GotoFacts ==
  ASSUME TypeOK, NEW w \in Worker
  PROVE /\ \A pc \in WorkerPC : Goto(w, pc) => worker'[w].at = pc
        /\ Fail(w) => worker'[w].at = "finish"
<1>1. worker[w] \in WorkerState
  BY DEF TypeOK
<1>2. \A pc \in WorkerPC : [worker[w] EXCEPT !.at = pc].at = pc
  BY <1>1 DEF WorkerState
<1>3. [worker[w] EXCEPT !.at = "finish", !.err = TRUE].at = "finish"
  BY <1>1 DEF WorkerState
<1> QED BY <1>2, <1>3 DEF Goto, Fail, TypeOK

----------------------------------------------------------------------------

\* The invariant holds at first.
LEMMA InitIInv == Init => IInv
<1> SUFFICES ASSUME Init PROVE IInv
  OBVIOUS
<1> USE DEF Init, NoReq, NoWorker, NoOp, Fresh
<1>1. TypeOK
  BY ServiceAssumption DEF TypeOK, State, ReqState, WorkerState, WorkerPC, OpState
<1>2. PrepInv
  BY DEF PrepInv, GenInv, PreparingCovers, NoStuckLoading, Current, Active
<1>3. OneChild /\ MarkerInv /\ OnceFirst
  BY DEF OneChild, Live, MarkerInv, OnceFirst
<1> QED BY <1>1, <1>2, <1>3 DEF IInv

\* Every step keeps the state well typed.
LEMMA TypeStep == TypeOK /\ [Next]_vars => TypeOK'
<1> SUFFICES ASSUME TypeOK, [Next]_vars PROVE TypeOK'
  OBVIOUS
<1> USE DEF TypeOK
<1>0. CASE UNCHANGED vars
  BY <1>0 DEF vars, procs, disk
<1>1. ASSUME NEW r \in Req,
             \/ Dispatch(r) \/ Result(r) \/ BeginRefused(r) \/ CheckActive(r)
             \/ Proxy(r) \/ NotReady(r)
      PROVE TypeOK'
  <2>1. req' \in [Req -> ReqState]
    BY <1>1 DEF Dispatch, Result, BeginRefused, CheckActive, Proxy, NotReady,
                ReqState, NoReq
  <2>2. UNCHANGED <<cfg, st, worker, op, procs, disk, gen, early, budget>>
    BY <1>1 DEF Dispatch, Result, BeginRefused, CheckActive, Proxy, NotReady
  <2> QED BY <2>1, <2>2 DEF procs, disk
<1>2. ASSUME NEW r \in Req, NEW w \in Worker, Begin(r, w) PROVE TypeOK'
  <2>1. req[r].cfg \in Config
    BY <1>2 DEF Begin, ReqState
  <2>2. [at |-> "probe", cfg |-> req[r].cfg, err |-> FALSE, gen |-> gen] \in WorkerState
    BY <2>1 DEF WorkerState, WorkerPC
  <2>3. worker' \in [Worker -> WorkerState]
    BY <1>2, <2>2 DEF Begin
  <2>4. req' \in [Req -> ReqState] /\ st' \in State
    BY <1>2, <2>1 DEF Begin, ReqState, State
  <2> QED BY <1>2, <2>3, <2>4 DEF Begin, procs, disk
<1>3. ASSUME NEW w \in Worker, NEW S,
             S = (Probe(w) \/ CheckDeployed(w) \/ SkipOnce(w) \/ InitShell(w)), S
      PROVE TypeOK'
  <2>1. worker' \in [Worker -> WorkerState]
    BY <1>3, Advances, AdvanceFacts
  <2>2. UNCHANGED <<cfg, st, req, op, procs, disk, gen, early, budget>>
    BY <1>3 DEF Probe, CheckDeployed, SkipOnce, InitShell
  <2> QED BY <2>1, <2>2 DEF procs, disk
<1>4. ASSUME NEW w \in Worker, Download(w) \/ Extract(w) PROVE TypeOK'
  <2>1. worker' \in [Worker -> WorkerState]
    BY <1>4, Advances, AdvanceFacts
  <2>2. bin' \in [Ver -> {"absent", "partial", "full"}]
    BY <1>4 DEF Download, Extract
  <2>3. UNCHANGED <<cfg, st, req, op, procs, marker, onceRan, gen, early, budget>>
    BY <1>4 DEF Download, Extract
  <2> QED BY <2>1, <2>2, <2>3 DEF procs
<1>5. ASSUME NEW w \in Worker, OnceShell(w) \/ WriteMarker(w) PROVE TypeOK'
  <2>1. worker' \in [Worker -> WorkerState]
    BY <1>5, Advances, AdvanceFacts
  <2>2. worker[w] \in WorkerState /\ worker[w].at # "idle"
    BY <1>5 DEF OnceShell, WriteMarker
  <2>3. worker[w].cfg.ver \in Ver
    BY <2>2, ServiceAssumption DEF WorkerState
  <2>4. marker' \subseteq Ver /\ onceRan' \subseteq Ver
    BY <1>5, <2>3 DEF OnceShell, WriteMarker
  <2>5. UNCHANGED <<cfg, st, req, op, procs, bin, gen, early, budget>>
    BY <1>5 DEF OnceShell, WriteMarker
  <2> QED BY <2>1, <2>4, <2>5 DEF procs
<1>6. ASSUME NEW w \in Worker, StartProc(w) PROVE TypeOK'
  <2>1. worker' \in [Worker -> WorkerState]
    BY <1>6, Advances, AdvanceFacts
  <2>2. child' \in [Child -> {"none", "starting", "up"}]
        /\ proc' \in Child \cup {NoChild}
    BY <1>6 DEF StartProc
  <2>3. UNCHANGED <<cfg, st, req, op, ext, disk, gen, early, budget>>
    BY <1>6 DEF StartProc
  <2> QED BY <2>1, <2>2, <2>3 DEF disk
<1>7. ASSUME NEW w \in Worker, Finish(w) PROVE TypeOK'
  <2>1. worker[w].err \in BOOLEAN /\ NoWorker \in WorkerState
    BY DEF WorkerState, NoWorker
  <2>2. worker' \in [Worker -> WorkerState]
    BY <1>7, <2>1 DEF Finish
  <2>3. st' \in State /\ early' \in BOOLEAN
    BY <1>7, <2>1 DEF Finish, Finished, State, EndsAnothers
  <2> QED BY <1>7, <2>2, <2>3 DEF Finish, procs, disk
<1>8. ASSUME NEW o \in Op, StopOne(o) PROVE TypeOK'
  <2>1. op[o].reload \in BOOLEAN
    BY DEF OpState
  <2>2. op' \in [Op -> OpState]
    <3>1. [op[o] EXCEPT !.at = "reset"] \in OpState
      <4>1. op[o] \in OpState /\ op[o].at = "stop"
        BY <1>8 DEF StopOne
      <4>2. op[o] \in [at : {"stop", "reset"}, reload : BOOLEAN]
        BY <4>1 DEF OpState
      <4> QED BY <4>2 DEF OpState
    <3>2. op' = [op EXCEPT ![o] = [op[o] EXCEPT !.at = "reset"]]
      BY <1>8 DEF StopOne
    <3> HIDE DEF OpState
    <3> QED BY <3>1, <3>2
  <2>3. child' \in [Child -> {"none", "starting", "up"}]
        /\ proc' \in Child \cup {NoChild}
    BY <1>8 DEF StopOne
  <2> QED BY <1>8, <2>2, <2>3 DEF StopOne, disk
<1>9. ASSUME NEW o \in Op, Reset(o) PROVE TypeOK'
  <2>1. op' \in [Op -> OpState]
    <3>1. NoOp \in OpState /\ (op[o].reload => [op[o] EXCEPT !.at = "report"] \in OpState)
      <4>1. op[o] \in OpState /\ op[o].at = "reset"
        BY <1>9 DEF Reset
      <4>2. op[o] \in [at : {"stop", "reset"}, reload : BOOLEAN]
        BY <4>1 DEF OpState
      <4>3. op[o].reload => [op[o] EXCEPT !.at = "report"] \in [at : {"report"}, reload : {TRUE}]
        BY <4>2
      <4> QED BY <4>3 DEF OpState, NoOp
    <3>2. \/ op' = [op EXCEPT ![o] = NoOp]
          \/ op[o].reload /\ op' = [op EXCEPT ![o] = [op[o] EXCEPT !.at = "report"]]
      BY <1>9 DEF Reset
    <3> HIDE DEF OpState
    <3> QED BY <3>1, <3>2
  <2>2. st' \in State /\ gen' \in Nat
    BY <1>9 DEF Reset, State, Fresh
  <2> QED BY <1>9, <2>1, <2>2 DEF Reset, procs, disk
<1>10. ASSUME NEW o \in Op, ReportInitError(o) PROVE TypeOK'
  <2>1. op' \in [Op -> OpState]
    BY <1>10 DEF ReportInitError, OpState, NoOp
  <2>2. st' = Finished(TRUE) \/ st' = st
    BY <1>10 DEF ReportInitError
  <2>3. st' \in State
    <3>1. Finished(TRUE) \in State
      BY DEF State, Finished
    <3> QED BY <2>2, <3>1
  <2>5. early' = EndsAnothers(Worker) \/ early' = early
    BY <1>10 DEF ReportInitError
  <2>4. early' \in BOOLEAN
    BY <2>5 DEF EndsAnothers
  <2> QED BY <1>10, <2>1, <2>3, <2>4 DEF ReportInitError, procs, disk
<1>11. ASSUME NEW o \in Op, ManagerStop(o) \/ \E c \in Config : Restart(o, c)
       PROVE TypeOK'
  <2>1. \A b \in BOOLEAN : [at |-> "stop", reload |-> b] \in OpState
    BY DEF OpState
  <2>4. op' \in [Op -> OpState] /\ cfg' \in Config
    BY <1>11, <2>1 DEF ManagerStop, Restart
  <2>2. budget' \in [{"op", "fault"} -> Nat]
    BY <1>11 DEF ManagerStop, Restart, Spend
  <2>3. UNCHANGED <<st, req, worker, procs, disk, gen, early>>
    BY <1>11 DEF ManagerStop, Restart
  <2> QED BY <2>4, <2>2, <2>3 DEF procs, disk
<1>12. ASSUME NEW c \in Child, ChildUp(c) \/ ChildExits(c) PROVE TypeOK'
  <2>1. budget' \in [{"op", "fault"} -> Nat]
    BY <1>12 DEF ChildUp, ChildExits, Spend
  <2>2. child' \in [Child -> {"none", "starting", "up"}]
    BY <1>12 DEF ChildUp, ChildExits
  <2> QED BY <1>12, <2>1, <2>2 DEF ChildUp, ChildExits, disk
<1>13. CASE ExternalChanges
  BY <1>13 DEF ExternalChanges, Spend, disk
<1> QED
  BY <1>0, <1>1, <1>2, <1>3, <1>4, <1>5, <1>6, <1>7, <1>8, <1>9, <1>10, <1>11, <1>12,
     <1>13, Steps

----------------------------------------------------------------------------
(* The invariants, for groups of actions that touch the same state.        *)

\* Steps of preparations other than their last: none begins, none ends.
LEMMA AdvanceStep ==
  ASSUME TypeOK, PrepInv, NEW w \in Worker, Advance(w), UNCHANGED <<st, gen, early>>
  PROVE PrepInv'
<1>1. \A v \in Worker : worker'[v].gen = worker[v].gen /\ (Active(v)' <=> Active(v))
  BY AdvanceFacts DEF Advance, Active
<1>2. \A v \in Worker : Current(v)' <=> Current(v)
  BY <1>1 DEF Current
<1>3. GenInv'
  BY <1>1 DEF PrepInv, GenInv
<1>4. PreparingCovers' /\ NoStuckLoading'
  BY <1>2 DEF PrepInv, PreparingCovers, NoStuckLoading
<1> QED BY <1>3, <1>4 DEF PrepInv

\* Every step keeps PrepInv.
LEMMA PrepStep == TypeOK /\ PrepInv /\ [Next]_vars => PrepInv'
<1> SUFFICES ASSUME TypeOK, PrepInv, [Next]_vars PROVE PrepInv'
  OBVIOUS
<1>1. CASE UNCHANGED <<st, worker, gen, early>>
  BY <1>1 DEF PrepInv, GenInv, PreparingCovers, NoStuckLoading, Current, Active
<1>2. ASSUME NEW r \in Req, NEW w \in Worker, Begin(r, w) PROVE PrepInv'
  <2>1. /\ worker'[w].gen = gen /\ worker'[w].at = "probe"
        /\ \A v \in Worker \ {w} : worker'[v] = worker[v]
    BY <1>2 DEF Begin, TypeOK
  <2>2. ~st.preparing /\ st'.preparing /\ gen' = gen /\ early' = early
    BY <1>2 DEF Begin, MayBegin
  <2>3. GenInv'
    BY <2>1, <2>2 DEF PrepInv, GenInv, TypeOK
  <2>4. ~early => \A v \in Worker : ~Current(v)
    BY <2>2 DEF PrepInv, PreparingCovers
  <2>5. PreparingCovers'
    BY <2>1, <2>2, <2>4 DEF PreparingCovers, Current, Active
  <2>6. NoStuckLoading'
    BY <2>1, <2>2 DEF NoStuckLoading, Current, Active
  <2> QED BY <2>3, <2>5, <2>6 DEF PrepInv
<1>3. ASSUME NEW w \in Worker, Finish(w) PROVE PrepInv'
  <2>1. /\ ~Active(w)' /\ worker'[w].gen = 0
        /\ \A v \in Worker \ {w} : worker'[v] = worker[v]
    BY <1>3 DEF Finish, NoWorker, Active, TypeOK
  <2>2. ~st'.preparing /\ gen' = gen
    BY <1>3 DEF Finish, Finished
  <2>3. GenInv'
    BY <2>1, <2>2 DEF PrepInv, GenInv, TypeOK
  <2>4. ~early' => \A v \in Worker \ {w} : ~Current(v)
    BY <1>3 DEF Finish, EndsAnothers
  <2>5. ~early' => \A v \in Worker : ~Current(v)'
    BY <2>1, <2>2, <2>4 DEF Current, Active
  <2> QED BY <2>2, <2>3, <2>5 DEF PrepInv, PreparingCovers, NoStuckLoading
<1>4. ASSUME NEW o \in Op, Reset(o) PROVE PrepInv'
  <2>1. worker' = worker /\ gen' = gen + 1 /\ ~st'.preparing
    BY <1>4 DEF Reset, Fresh
  <2>2. \A v \in Worker : worker[v].gen \in Nat
    BY DEF TypeOK, WorkerState
  <2>3. GenInv'
    BY <2>1, <2>2 DEF PrepInv, GenInv, TypeOK
  <2>4. \A v \in Worker : ~Current(v)'
    BY <2>1, <2>2 DEF PrepInv, GenInv, Current, TypeOK
  <2> QED BY <2>1, <2>3, <2>4 DEF PrepInv, PreparingCovers, NoStuckLoading
<1>5. ASSUME NEW o \in Op, ReportInitError(o) PROVE PrepInv'
  <2>1. worker' = worker /\ gen' = gen
    BY <1>5 DEF ReportInitError
  <2>2. CASE cfg.initError
    <3>1. ~st'.preparing /\ early' = EndsAnothers(Worker)
      BY <1>5, <2>2 DEF ReportInitError, Finished
    <3>2. ~early' => \A v \in Worker : ~Current(v)
      BY <3>1 DEF EndsAnothers
    <3>3. \A v \in Worker : Current(v)' <=> Current(v)
      BY <2>1 DEF Current, Active
    <3>4. GenInv'
      BY <2>1 DEF PrepInv, GenInv
    <3> QED BY <3>1, <3>2, <3>3, <3>4 DEF PrepInv, PreparingCovers, NoStuckLoading
  <2>3. CASE ~cfg.initError
    BY <1>1, <1>5, <2>3 DEF ReportInitError
  <2> QED BY <2>2, <2>3
<1>6. ASSUME NEW w \in Worker,
             \/ Probe(w) \/ CheckDeployed(w) \/ Download(w) \/ Extract(w) \/ SkipOnce(w)
             \/ OnceShell(w) \/ WriteMarker(w) \/ InitShell(w) \/ StartProc(w)
      PROVE PrepInv'
  BY <1>6, Advances, AdvanceStep
<1>7. CASE UNCHANGED vars
  BY <1>1, <1>7 DEF vars
<1>8. ASSUME NEW r \in Req,
             \/ Dispatch(r) \/ Result(r) \/ BeginRefused(r) \/ CheckActive(r)
             \/ Proxy(r) \/ NotReady(r)
      PROVE PrepInv'
  BY <1>1, <1>8 DEF Dispatch, Result, BeginRefused, CheckActive, Proxy, NotReady
<1>9. ASSUME NEW o \in Op,
             StopOne(o) \/ ManagerStop(o) \/ \E c \in Config : Restart(o, c)
      PROVE PrepInv'
  BY <1>1, <1>9 DEF StopOne, ManagerStop, Restart
<1>10. ASSUME NEW c \in Child, ChildUp(c) \/ ChildExits(c) PROVE PrepInv'
  BY <1>1, <1>10 DEF ChildUp, ChildExits
<1>11. CASE ExternalChanges
  BY <1>1, <1>11 DEF ExternalChanges
<1> QED
  BY <1>2, <1>3, <1>4, <1>5, <1>6, <1>7, <1>8, <1>9, <1>10, <1>11, Steps

\* Process.Start refuses while the tracked child lives, and nothing but Stop,
\* which waits for its end, lets go of a live child.
LEMMA ChildStep == TypeOK /\ OneChild /\ [Next]_vars => OneChild'
<1> SUFFICES ASSUME TypeOK, OneChild, [Next]_vars PROVE OneChild'
  OBVIOUS
<1>1. CASE UNCHANGED <<child, proc>>
  BY <1>1 DEF OneChild, Live
<1>2. ASSUME NEW w \in Worker, StartProc(w) PROVE OneChild'
  <2>1. CASE UNCHANGED <<child, proc>>
    BY <1>1, <2>1
  <2>2. CASE ~UNCHANGED <<child, proc>>
    <3>1. ~Running
      BY <1>2, <2>2 DEF StartProc
    <3>2. \A c \in Child : ~Live(c)
      BY <3>1, ServiceAssumption DEF OneChild, Running
    <3>3. PICK c \in Child : child' = [child EXCEPT ![c] = "starting"] /\ proc' = c
      BY <1>2, <2>2 DEF StartProc
    <3> QED BY <3>2, <3>3 DEF OneChild, Live, TypeOK
  <2> QED BY <2>1, <2>2
<1>3. ASSUME NEW o \in Op, StopOne(o) PROVE OneChild'
  <2>1. \A c \in Child : ~Live(c)'
    BY <1>3 DEF StopOne, OneChild, Live
  <2> QED BY <2>1 DEF OneChild
<1>4. ASSUME NEW c \in Child, ChildUp(c) \/ ChildExits(c) PROVE OneChild'
  BY <1>4 DEF ChildUp, ChildExits, OneChild, Live, TypeOK
<1>5. CASE UNCHANGED vars
  BY <1>1, <1>5 DEF vars, procs
<1>6. ASSUME NEW w \in Worker,
             \/ Probe(w) \/ CheckDeployed(w) \/ Download(w) \/ Extract(w) \/ SkipOnce(w)
             \/ OnceShell(w) \/ WriteMarker(w) \/ InitShell(w) \/ Finish(w)
      PROVE OneChild'
  BY <1>1, <1>6 DEF procs, Probe, CheckDeployed, Download, Extract, SkipOnce, OnceShell,
                    WriteMarker, InitShell, Finish
<1>7. ASSUME NEW r \in Req,
             \/ Dispatch(r) \/ Result(r) \/ (\E w \in Worker : Begin(r, w))
             \/ BeginRefused(r) \/ CheckActive(r) \/ Proxy(r) \/ NotReady(r)
      PROVE OneChild'
  BY <1>1, <1>7 DEF procs, Dispatch, Result, Begin, BeginRefused, CheckActive, Proxy,
                    NotReady
<1>8. ASSUME NEW o \in Op,
             \/ Reset(o) \/ ReportInitError(o) \/ ManagerStop(o)
             \/ \E c \in Config : Restart(o, c)
      PROVE OneChild'
  BY <1>1, <1>8 DEF procs, Reset, ReportInitError, ManagerStop, Restart
<1>9. CASE ExternalChanges
  BY <1>1, <1>9 DEF ExternalChanges
<1> QED BY <1>2, <1>3, <1>4, <1>5, <1>6, <1>7, <1>8, <1>9, Steps

\* once_shell comes before its marker, and both before init_shell.
LEMMA OnceStep ==
  TypeOK /\ MarkerInv /\ OnceFirst /\ [Next]_vars => MarkerInv' /\ OnceFirst'
<1> SUFFICES ASSUME TypeOK, MarkerInv, OnceFirst, [Next]_vars
             PROVE MarkerInv' /\ OnceFirst'
  OBVIOUS
<1> USE DEF MarkerInv, OnceFirst
<1>1. CASE UNCHANGED <<worker, marker, onceRan>>
  BY <1>1
<1>2. ASSUME NEW r \in Req, NEW w \in Worker, Begin(r, w)
      PROVE MarkerInv' /\ OnceFirst'
  BY <1>2 DEF Begin, disk, TypeOK
<1>3. ASSUME NEW w \in Worker, Finish(w) PROVE MarkerInv' /\ OnceFirst'
  BY <1>3 DEF Finish, disk, TypeOK, NoWorker
<1>4. ASSUME NEW w \in Worker,
             \/ Probe(w) \/ CheckDeployed(w) \/ Download(w) \/ Extract(w) \/ SkipOnce(w)
             \/ OnceShell(w) \/ WriteMarker(w) \/ InitShell(w) \/ StartProc(w)
      PROVE MarkerInv' /\ OnceFirst'
  <2>1. /\ \A v \in Worker \ {w} : worker'[v] = worker[v]
        /\ worker'[w].cfg = worker[w].cfg
    BY <1>4, Advances, AdvanceFacts
  <2> DEFINE After(pc) == pc \in {"mark", "init", "start"}
             Step == /\ marker' \subseteq onceRan' /\ onceRan \subseteq onceRan'
                     /\ After(worker'[w].at) /\ worker[w].cfg.once
                          => worker[w].cfg.ver \in onceRan'
                     /\ worker'[w].at = "mark" => worker[w].cfg.ver \in onceRan'
  <2> USE GotoFacts DEF WorkerPC
  <2>2. ASSUME Probe(w) PROVE Step
    BY <2>2 DEF Probe, disk
  <2>3. ASSUME CheckDeployed(w) \/ Download(w) \/ Extract(w) PROVE Step
    BY <2>3 DEF CheckDeployed, Download, Extract, disk
  <2>4. ASSUME SkipOnce(w) PROVE Step
    BY <2>4 DEF SkipOnce, NeedsOnce, disk
  <2>5. ASSUME OnceShell(w) PROVE Step
    BY <2>5 DEF OnceShell
  <2>6. ASSUME WriteMarker(w) PROVE Step
    BY <2>6 DEF WriteMarker
  <2>7. ASSUME InitShell(w) \/ StartProc(w) PROVE Step
    BY <2>7 DEF InitShell, StartProc, disk
  <2>8. Step
    BY <1>4, <2>2, <2>3, <2>4, <2>5, <2>6, <2>7
  <2> QED BY <2>1, <2>8
<1>5. CASE UNCHANGED vars
  BY <1>1, <1>5 DEF vars, disk
<1>6. ASSUME NEW r \in Req,
             \/ Dispatch(r) \/ Result(r) \/ BeginRefused(r) \/ CheckActive(r)
             \/ Proxy(r) \/ NotReady(r)
      PROVE MarkerInv' /\ OnceFirst'
  BY <1>1, <1>6 DEF disk, Dispatch, Result, BeginRefused, CheckActive, Proxy, NotReady
<1>7. ASSUME NEW o \in Op,
             \/ StopOne(o) \/ Reset(o) \/ ReportInitError(o) \/ ManagerStop(o)
             \/ \E c \in Config : Restart(o, c)
      PROVE MarkerInv' /\ OnceFirst'
  BY <1>1, <1>7 DEF disk, StopOne, Reset, ReportInitError, ManagerStop, Restart
<1>8. ASSUME NEW c \in Child, ChildUp(c) \/ ChildExits(c)
      PROVE MarkerInv' /\ OnceFirst'
  BY <1>1, <1>8 DEF disk, ChildUp, ChildExits
<1>9. CASE ExternalChanges
  BY <1>1, <1>9 DEF disk, ExternalChanges
<1> QED BY <1>2, <1>3, <1>4, <1>5, <1>6, <1>7, <1>8, <1>9, Steps

----------------------------------------------------------------------------
(* The theorems.                                                           *)

\* The inductive invariant: in every reachable state.
THEOREM SpecIInv == Spec => []IInv
<1>1. IInv /\ [Next]_vars => IInv'
  BY TypeStep, PrepStep, ChildStep, OnceStep DEF IInv
<1> QED BY InitIInv, <1>1, PTL DEF Spec

\* The state of a hosted service is well typed.
THEOREM TypeCorrect == Spec => []TypeOK
<1>1. IInv => TypeOK
  BY DEF IInv
<1> QED BY <1>1, SpecIInv, PTL

\* preparing covers a preparation from Begin to its Finish unless a disowned
\* preparation or a restart that failed finishes in between; no two
\* preparations of one reset overlap.
THEOREM Covered == Spec => []PreparingCovers
<1>1. IInv => PreparingCovers
  BY DEF IInv, PrepInv
<1> QED BY <1>1, SpecIInv, PTL

\* A request that is shown the loading page waits for a running preparation.
THEOREM NeverStuck == Spec => []NoStuckLoading
<1>1. IInv => NoStuckLoading
  BY DEF IInv, PrepInv
<1> QED BY <1>1, SpecIInv, PTL

\* At most one subprocess of the service runs, and Process tracks it.
THEOREM SingleChild == Spec => []OneChild
<1>1. IInv => OneChild
  BY DEF IInv
<1> QED BY <1>1, SpecIInv, PTL

\* No init_shell and no command before a successful once_shell.
THEOREM OnceBeforeInit == Spec => []OnceFirst
<1>1. IInv => OnceFirst
  BY DEF IInv
<1> QED BY <1>1, SpecIInv, PTL

----------------------------------------------------------------------------
(* KvsRegistry: the children of every kvs, alive or gone.                  *)

Serving == {"up", "stop", "final"}

\* RegistryNext as one disjunction of the actions the proofs go through.
LEMMA RegistrySteps ==
  ASSUME RegistryNext
  PROVE \/ \E k \in Kvs : Boot(k) \/ Serve(k)
        \/ \E k \in Kvs : Sweep(k) \/ CheckParent(k) \/ CheckMarker(k) \/ SendTerm(k) \/ ForgetSwept(k)
        \/ \E k \in Kvs : Shutdown(k) \/ StopNext(k) \/ FinalSweep(k) \/ FinalNext(k)
        \/ \E k \in Kvs : Exit(k) \/ Crash(k)
        \/ \E k \in Kvs, s \in Svc :
             Start(k, s) \/ Register(k, s) \/ \E x \in Handler : Ask(k, x, s)
        \/ \E k \in Kvs, x \in Stopper :
             StopProc(k, x) \/ terminateLocked(k, x) \/ ensureDead(k, x) \/ Kill(k, x) \/ Forget(k, x)
        \/ \E p \in Pid : ProcessExits(p) \/ UnrelatedStarts(p)
  BY DEF RegistryNext

\* An unused process number is well typed.
LEMMA FreeFacts == Free \in ProcState /\ Plausible(Free) /\ Free.kind = "free"
  BY DEF Free, ProcState, Plausible

\* A child that is left behind or whose record is dropped.
LEMMA ChildFacts ==
  ASSUME NEW r \in ProcState, Plausible(r), r.kind = "child",
         NEW q \in {r.parent, PID1}, NEW b \in BOOLEAN,
         NEW t, t = [r EXCEPT !.parent = q, !.lost = b]
  PROVE /\ t \in ProcState /\ Plausible(t)
        /\ t.kind = "child" /\ t.svc = r.svc /\ t.parent = q /\ t.lost = b
<1>1. q \in Kvs \cup {PID1}
  BY DEF Plausible
<1> QED BY <1>1 DEF ProcState, Plausible

\* A child whose entry was lost is otherwise the child it was.
LEMMA LostFacts ==
  ASSUME NEW r \in ProcState, Plausible(r), r.kind = "child"
  PROVE [r EXCEPT !.lost = TRUE] \in ProcState /\ Plausible([r EXCEPT !.lost = TRUE])
<1>1. [r EXCEPT !.lost = TRUE] \in ProcState
  BY DEF ProcState
<1> QED BY <1>1 DEF ProcState, Plausible

\* Entries and records are well typed, and a record with one entry changed is one.
LEMMA EntryFacts ==
  /\ \A rec \in Recorded : Entries(rec) \subseteq Entry
  /\ \A e \in Entry : e.svc \in Svc /\ e.pid \in Pid \cup {None}
  /\ Empty \in Recorded /\ Idle \in StopState /\ Idle.at = "idle" /\ ~Idle.reused
  /\ \A rec \in Recorded, s \in Svc, p \in Pid \cup {None} :
       [rec EXCEPT ![s] = p] \in Recorded
<1>1. \A rec \in Recorded : Entries(rec) \subseteq Entry
  BY DEF Entries
<1>2. \A e \in Entry : e.svc \in Svc /\ e.pid \in Pid \cup {None}
  BY DEF Entry
<1>3. Empty \in Recorded /\ Idle \in StopState /\ Idle.at = "idle" /\ ~Idle.reused
  BY DEF Empty, Recorded, Idle, Call, StopState
<1>4. \A rec \in Recorded, s \in Svc, p \in Pid \cup {None} :
        [rec EXCEPT ![s] = p] \in Recorded
  BY DEF Recorded
<1> QED BY <1>1, <1>2, <1>3, <1>4

\* RegistryTypeOK in parts that steps change one by one.
OsOK == os \in [Pid -> ProcState] /\ \A p \in Pid : Plausible(os[p])
StopOK ==
  /\ stop \in [Kvs -> [Stopper -> StopState]]
  /\ \A k \in Kvs, x \in Stopper : stop[k][x].at # "idle" => stop[k][x].svc \in Svc
RegOK ==
  mem \in [Kvs -> Recorded] /\ file \in Recorded /\ tracked \in [Kvs -> Recorded]
RestOK ==
  /\ kvs \in [Kvs -> {"off", "sweep", "up", "stop", "final"}]
  /\ environ \in [Kvs -> SUBSET Svc]
  /\ pending \in [Kvs -> [Svc -> Nat]]
  /\ todo \in [Kvs -> SUBSET Entry]
  /\ limit \in [{"start", "crash", "other"} -> Nat]

\* RegistryTypeOK in the four parts the steps are proved for.
LEMMA Parts == (RegistryTypeOK <=> OsOK /\ StopOK /\ RegOK /\ RestOK)
  BY DEF RegistryTypeOK, OsOK, StopOK, RegOK, RestOK

\* The initial states are well typed.
LEMMA InitType == RegistryInit => RegistryTypeOK
<1> SUFFICES ASSUME RegistryInit PROVE OsOK /\ StopOK /\ RegOK /\ RestOK
  BY Parts
<1>1. OsOK
  BY FreeFacts DEF RegistryInit, OsOK
<1>2. StopOK
  BY EntryFacts DEF RegistryInit, StopOK
<1>3. RegOK
  BY EntryFacts DEF RegistryInit, RegOK
<1>4. RestOK
  BY RegistryAssumption DEF RegistryInit, RestOK
<1> QED BY <1>1, <1>2, <1>3, <1>4

----------------------------------------------------------------------------
(* Type correctness, part by part.                                         *)

\* A step on the process table, process by process.
LEMMA OsStep == OsOK /\ RegistryTypeOK /\ [RegistryNext]_registryVars => OsOK'
<1> SUFFICES ASSUME OsOK, RegistryTypeOK, [RegistryNext]_registryVars, os' # os PROVE OsOK'
  BY DEF OsOK
<1> USE DEF OsOK
<1>1. ASSUME NEW p, os' = [os EXCEPT ![p] = Free] PROVE OsOK'
  BY <1>1, FreeFacts
<1>2. ASSUME NEW k \in Kvs,
             \/ Boot(k) \/ Serve(k) \/ Sweep(k)
             \/ CheckParent(k) \/ CheckMarker(k) \/ SendTerm(k) \/ ForgetSwept(k)
      PROVE OsOK'
  BY <1>1, <1>2 DEF Boot, Sweep, Serve, CheckParent, CheckMarker, SendTerm, ForgetSwept
<1>3. ASSUME NEW k \in Kvs, Shutdown(k) \/ StopNext(k) \/ FinalSweep(k) \/ FinalNext(k)
      PROVE OsOK'
  BY <1>3 DEF Shutdown, StopNext, FinalSweep, FinalNext
<1>4. ASSUME NEW k \in Kvs, Gone(k) PROVE OsOK'
  <2> SUFFICES ASSUME NEW p \in Pid PROVE os'[p] \in ProcState /\ Plausible(os'[p])
    BY <1>4 DEF Gone
  <2>1. CASE os[p].kind # "child"
    BY <1>4, <2>1 DEF Gone
  <2>2. CASE os[p].kind = "child"
    <3> DEFINE q == IF os[p].parent = k THEN PID1 ELSE os[p].parent
               b == \/ os[p].lost
                    \/ file' # file
                    \/ os[p].parent = k /\ pending[k][os[p].svc] > 0
    <3>1. os'[p] = [os[p] EXCEPT !.parent = q, !.lost = b]
      BY <1>4, <2>2 DEF Gone
    <3>2. q \in {os[p].parent, PID1} /\ b \in BOOLEAN
      BY DEF ProcState
    <3> QED BY <2>2, <3>1, <3>2, ChildFacts
  <2> QED BY <2>1, <2>2
<1>5. ASSUME NEW k \in Kvs, NEW s \in Svc, Start(k, s) PROVE OsOK'
  <2> DEFINE r == [kind |-> "child", svc |-> s, parent |-> k,
                   env |-> environ[k] \cup {s}, lost |-> FALSE]
  <2>1. PICK p \in Pid : os' = [os EXCEPT ![p] = r]
    BY <1>5 DEF Start
  <2>2. r \in ProcState /\ Plausible(r)
    BY DEF RegistryTypeOK, ProcState, Plausible
  <2> HIDE DEF r
  <2> QED BY <2>1, <2>2
<1>6. ASSUME NEW k \in Kvs, NEW s \in Svc,
             Register(k, s) \/ \E x \in Handler : Ask(k, x, s)
      PROVE OsOK'
  BY <1>6 DEF Register, Ask
<1>7. ASSUME NEW k \in Kvs, NEW x \in Stopper,
             StopProc(k, x) \/ terminateLocked(k, x) \/ ensureDead(k, x) \/ Kill(k, x)
      PROVE OsOK'
  BY <1>1, <1>7 DEF StopProc, terminateLocked, ensureDead, Kill
<1>8. ASSUME NEW k \in Kvs, NEW x \in Stopper, Forget(k, x) PROVE OsOK'
  <2> SUFFICES ASSUME NEW p \in Pid PROVE os'[p] \in ProcState /\ Plausible(os'[p])
    BY <1>8 DEF Forget
  <2>1. os'[p] = os[p] \/ (os[p].kind = "child" /\ os'[p] = [os[p] EXCEPT !.lost = TRUE])
    BY <1>8 DEF Forget
  <2>2. CASE os[p].kind = "child" /\ os'[p] = [os[p] EXCEPT !.lost = TRUE]
    <3>1. os[p] \in ProcState /\ Plausible(os[p])
      OBVIOUS
    <3> QED BY <2>2, <3>1, LostFacts
  <2> QED BY <2>1, <2>2
<1>9. ASSUME NEW p \in Pid, UnrelatedStarts(p) PROVE OsOK'
  <2>1. PICK q \in {PID1, Elsewhere} :
          os' = [os EXCEPT ![p] = [Free EXCEPT !.kind = "other", !.parent = q]]
    BY <1>9 DEF UnrelatedStarts
  <2>2. [Free EXCEPT !.kind = "other", !.parent = q] \in ProcState
        /\ Plausible([Free EXCEPT !.kind = "other", !.parent = q])
    BY DEF Free, ProcState, Plausible
  <2> QED BY <2>1, <2>2
<1>10. ASSUME NEW p \in Pid, ProcessExits(p) PROVE OsOK'
  BY <1>1, <1>10 DEF ProcessExits
<1>11. CASE UNCHANGED registryVars
  BY <1>11 DEF registryVars
<1> QED
  BY <1>2, <1>3, <1>4, <1>5, <1>6, <1>7, <1>8, <1>9, <1>10, <1>11, RegistrySteps DEF Exit, Crash

\* The stops: each step rewrites one of them.
LEMMA StopStep == StopOK /\ RegistryTypeOK /\ [RegistryNext]_registryVars => StopOK'
<1> SUFFICES ASSUME StopOK, RegistryTypeOK, [RegistryNext]_registryVars, stop' # stop PROVE StopOK'
  BY DEF StopOK
<1>1. ASSUME NEW k \in Kvs, NEW x \in Stopper, NEW r \in StopState,
             r.at # "idle" => r.svc \in Svc, stop' = [stop EXCEPT ![k][x] = r]
      PROVE StopOK'
  <2>1. \A l \in Kvs, y \in Stopper :
          stop'[l][y] = IF l = k /\ y = x THEN r ELSE stop[l][y]
    BY <1>1 DEF StopOK
  <2>2. stop' \in [Kvs -> [Stopper -> StopState]]
    BY <1>1 DEF StopOK
  <2> QED BY <1>1, <2>1, <2>2 DEF StopOK
<1>2. ASSUME NEW k \in Kvs, Gone(k) PROVE StopOK'
  BY <1>2, EntryFacts DEF Gone, StopOK
<1>3. ASSUME NEW k \in Kvs, Sweep(k) \/ StopNext(k) \/ FinalNext(k) PROVE StopOK'
  <2>1. PICK e \in todo[k] :
          \E a \in {"stop", "verify", "parent", "forget"}, p \in {tracked[k][e.svc], e.pid} :
             stop' = [stop EXCEPT ![k][Main] = Call(a, e.svc, p)]
    BY <1>3 DEF Sweep, StopNext, FinalNext
  <2>2. PICK a \in {"stop", "verify", "parent", "forget"}, p \in {tracked[k][e.svc], e.pid} :
             stop' = [stop EXCEPT ![k][Main] = Call(a, e.svc, p)]
    BY <2>1
  <2>3. e.svc \in Svc /\ e.pid \in Pid \cup {None}
    BY EntryFacts DEF RegistryTypeOK
  <2>4. p \in Pid \cup {None}
    BY <2>3 DEF RegistryTypeOK, Recorded
  <2>5. Call(a, e.svc, p) \in StopState /\ Call(a, e.svc, p).svc \in Svc
    BY <2>3, <2>4 DEF StopState, Call
  <2> QED BY <1>1, <2>2, <2>5 DEF Stopper
<1>4. ASSUME NEW k \in Kvs, NEW s \in Svc, NEW x \in Handler, Ask(k, x, s) PROVE StopOK'
  <2>1. Call("stop", s, tracked[k][s]) \in StopState /\ Call("stop", s, tracked[k][s]).svc \in Svc
    BY DEF RegistryTypeOK, Recorded, StopState, Call
  <2> QED BY <1>1, <1>4, <2>1 DEF Ask, Stopper
<1>5. ASSUME NEW k \in Kvs, NEW x \in Stopper, stop[k][x].at # "idle",
             NEW a \in {"group", "marker", "term", "verify", "kill", "forget"}, NEW b \in BOOLEAN,
             stop' = [stop EXCEPT ![k][x].at = a, ![k][x].reused = b]
      PROVE StopOK'
  <2>1. stop[k][x] \in StopState /\ stop[k][x].svc \in Svc
    BY <1>5 DEF StopOK
  <2> DEFINE q == [stop[k][x] EXCEPT !.at = a, !.reused = b]
  <2>2. q \in StopState /\ q.svc \in Svc
    BY <2>1 DEF StopState
  <2>3. stop' = [stop EXCEPT ![k][x] = q]
    BY <1>5
  <2> HIDE DEF q
  <2> QED BY <1>1, <2>2, <2>3
<1>6. ASSUME NEW k \in Kvs, NEW x \in Stopper, stop[k][x].at # "idle",
             NEW a \in {"group", "marker", "term", "verify", "kill", "forget"},
             stop' = [stop EXCEPT ![k][x].at = a]
      PROVE StopOK'
  <2>1. stop[k][x] \in StopState /\ stop[k][x].svc \in Svc
    BY <1>6 DEF StopOK
  <2> DEFINE q == [stop[k][x] EXCEPT !.at = a]
  <2>2. q \in StopState /\ q.svc \in Svc
    BY <2>1 DEF StopState
  <2>3. stop' = [stop EXCEPT ![k][x] = q]
    BY <1>6
  <2> HIDE DEF q
  <2> QED BY <1>1, <2>2, <2>3
<1>7. ASSUME NEW k \in Kvs, NEW x \in Stopper, StopProc(k, x) \/ ensureDead(k, x) \/ Kill(k, x)
      PROVE StopOK'
  <2>1. PICK a \in {"group", "verify", "kill", "forget"} :
          stop[k][x].at # "idle" /\ stop' = [stop EXCEPT ![k][x].at = a]
    BY <1>7 DEF StopProc, ensureDead, Kill
  <2> QED BY <1>6, <2>1
<1>8. ASSUME NEW k \in Kvs, NEW x \in Stopper, terminateLocked(k, x) PROVE StopOK'
  BY <1>5, <1>8 DEF terminateLocked
<1>9. ASSUME NEW k \in Kvs, CheckParent(k) \/ CheckMarker(k) \/ SendTerm(k) PROVE StopOK'
  <2>1. Main \in Stopper
    BY DEF Stopper
  <2>2. stop[k][Main].at # "idle"
        /\ \/ stop' = [stop EXCEPT ![k][Main] = Idle]
           \/ \E a \in {"marker", "term", "kill", "forget"} : stop' = [stop EXCEPT ![k][Main].at = a]
    BY <1>9 DEF CheckParent, CheckMarker, SendTerm
  <2> QED BY <1>1, <1>6, <2>1, <2>2, EntryFacts
<1>10. ASSUME NEW k \in Kvs, NEW x \in Stopper, Forget(k, x) \/ (x = Main /\ ForgetSwept(k))
       PROVE StopOK'
  BY <1>1, <1>10, EntryFacts DEF Forget, ForgetSwept
<1>11. ASSUME NEW p \in Pid, HandOut(p) PROVE StopOK'
  <2> SUFFICES ASSUME NEW k \in Kvs, NEW x \in Stopper
               PROVE stop'[k][x] \in StopState /\ (stop'[k][x].at # "idle" => stop'[k][x].svc \in Svc)
    BY <1>11 DEF HandOut, StopOK
  <2>1. stop[k][x] \in StopState /\ (stop[k][x].at # "idle" => stop[k][x].svc \in Svc)
    BY DEF StopOK
  <2>2. stop'[k][x] = stop[k][x] \/ stop'[k][x] = [stop[k][x] EXCEPT !.reused = TRUE]
    BY <1>11 DEF HandOut
  <2> QED BY <2>1, <2>2 DEF StopState
<1>12. ASSUME NEW k \in Kvs, NEW s \in Svc, Start(k, s) PROVE StopOK'
  BY <1>11, <1>12 DEF Start
<1>13. ASSUME NEW p \in Pid, UnrelatedStarts(p) PROVE StopOK'
  BY <1>11, <1>13 DEF UnrelatedStarts
<1>14. ASSUME NEW k \in Kvs, ForgetSwept(k) PROVE StopOK'
  BY <1>10, <1>14 DEF Stopper
<1> QED
  BY <1>2, <1>3, <1>4, <1>7, <1>8, <1>9, <1>10, <1>12, <1>13, <1>14, RegistrySteps
  DEF Exit, Crash, Boot, Serve, Shutdown, FinalSweep, Register,
      ProcessExits, registryVars, own

\* What an update of the registry does: one entry of the map, or nothing.
LEMMA SaveFacts ==
  ASSUME RegOK, NEW k \in Kvs, NEW s \in Svc, NEW p \in Pid \cup {None},
         Save(k, [mem[k] EXCEPT ![s] = p])
  PROVE /\ mem' \in [Kvs -> Recorded] /\ file' \in Recorded
        /\ \A l \in Kvs \ {k} : mem'[l] = mem[l]
        /\ file' = mem'[k] /\ mem'[k][s] = p
        /\ \A t \in Svc \ {s} : mem'[k][t] = mem[k][t]
<1>1. mem[k] \in Recorded
  BY DEF RegOK
<1> DEFINE rec == [mem[k] EXCEPT ![s] = p]
<1>2. rec \in Recorded /\ rec[s] = p /\ \A t \in Svc \ {s} : rec[t] = mem[k][t]
  BY <1>1 DEF Recorded
<1> HIDE DEF rec
<1>3. Save(k, rec)
  BY DEF rec
<1> QED BY <1>2, <1>3 DEF Save, RegOK

\* What taking an entry out of the table leaves.
LEMMA ForgetFacts ==
  ASSUME RegOK, NEW k \in Kvs, NEW s \in Svc, forgetPid(k, s)
  PROVE /\ mem' \in [Kvs -> Recorded] /\ file' \in Recorded
        /\ \A l \in Kvs \ {k} : mem'[l] = mem[l]
        /\ UNCHANGED <<mem, file>> \/ file' = mem'[k]
        /\ mem'[k][s] = None
        /\ \A t \in Svc \ {s} : mem'[k][t] = mem[k][t]
<1>1. CASE UNCHANGED <<mem, file>> /\ mem[k][s] = None
  BY <1>1 DEF RegOK
<1>2. CASE Save(k, [mem[k] EXCEPT ![s] = None])
  BY <1>2, SaveFacts
<1> QED BY <1>1, <1>2 DEF forgetPid

\* What putting an entry into the table leaves.
LEMMA RegisterFacts ==
  ASSUME RegOK, NEW k \in Kvs, NEW s \in Svc, NEW p \in Pid \cup {None},
         registerPid(k, s, p)
  PROVE /\ mem' \in [Kvs -> Recorded] /\ file' \in Recorded
        /\ \A l \in Kvs \ {k} : mem'[l] = mem[l]
        /\ IF p = None THEN UNCHANGED <<mem, file>>
           ELSE file' = mem'[k] /\ mem'[k][s] = p
        /\ \A t \in Svc \ {s} : mem'[k][t] = mem[k][t]
<1>1. CASE UNCHANGED <<mem, file>> /\ p = None
  BY <1>1 DEF RegOK
<1>2. CASE Save(k, [mem[k] EXCEPT ![s] = p]) /\ p # None
  BY <1>2, SaveFacts
<1> QED BY <1>1, <1>2 DEF registerPid

\* Every step keeps the types of the table and its file.
LEMMA RegStep == RegOK /\ RegistryTypeOK /\ [RegistryNext]_registryVars => RegOK'
<1> SUFFICES ASSUME RegOK, RegistryTypeOK, [RegistryNext]_registryVars PROVE RegOK'
  OBVIOUS
<1>1. CASE UNCHANGED <<mem, file, tracked>>
  BY <1>1 DEF RegOK
<1>2. ASSUME NEW k \in Kvs, Boot(k) PROVE RegOK'
  BY <1>2 DEF Boot, RegOK
<1>3. ASSUME NEW k \in Kvs, ForgetSwept(k) PROVE RegOK'
  <2>1. stop[k][Main].svc \in Svc
    BY <1>3 DEF ForgetSwept, RegistryTypeOK, Stopper
  <2> QED BY <1>3, <2>1, ForgetFacts DEF ForgetSwept, RegOK
<1>4. ASSUME NEW k \in Kvs, NEW s \in Svc, NEW p \in Pid \cup {None},
             tracked' = [tracked EXCEPT ![k][s] = p], UNCHANGED <<mem, file>>
      PROVE RegOK'
  <2>1. [tracked[k] EXCEPT ![s] = p] \in Recorded
    BY EntryFacts DEF RegOK
  <2>2. tracked' = [tracked EXCEPT ![k] = [tracked[k] EXCEPT ![s] = p]]
    BY <1>4
  <2> HIDE DEF Recorded
  <2> QED BY <1>4, <2>1, <2>2 DEF RegOK
<1>5. ASSUME NEW k \in Kvs, NEW s \in Svc, Start(k, s) PROVE RegOK'
  BY <1>4, <1>5 DEF Start
<1>6. ASSUME NEW k \in Kvs, NEW s \in Svc, Register(k, s) PROVE RegOK'
  <2>1. tracked[k][s] \in Pid \cup {None}
    BY DEF RegOK, Recorded
  <2> QED BY <1>6, <2>1, RegisterFacts DEF Register, RegOK
<1>7. ASSUME NEW k \in Kvs, NEW x \in Stopper, terminateLocked(k, x) PROVE RegOK'
  <2>1. stop[k][x].svc \in Svc
    BY <1>7 DEF terminateLocked, RegistryTypeOK
  <2> QED BY <1>4, <1>7, <2>1 DEF terminateLocked
<1>8. ASSUME NEW k \in Kvs, NEW x \in Stopper, Forget(k, x) PROVE RegOK'
  <2>1. stop[k][x].svc \in Svc
    BY <1>8 DEF Forget, RegistryTypeOK
  <2> QED BY <1>8, <2>1, ForgetFacts DEF Forget, RegOK
<1>9. ASSUME NEW k \in Kvs, Gone(k) PROVE RegOK'
  BY <1>9, EntryFacts DEF Gone, RegOK
<1> QED
  BY <1>1, <1>2, <1>3, <1>5, <1>6, <1>7, <1>8, <1>9, RegistrySteps
  DEF Exit, Crash, Serve, Sweep, CheckParent, CheckMarker, SendTerm, Kill, StopProc,
      Shutdown, StopNext, FinalSweep, FinalNext, Ask, ensureDead, ProcessExits, UnrelatedStarts, registryVars, own

\* Every step keeps the types of everything else.
LEMMA RestStep == RestOK /\ RegistryTypeOK /\ [RegistryNext]_registryVars => RestOK'
<1> SUFFICES ASSUME RestOK, RegistryTypeOK, [RegistryNext]_registryVars PROVE RestOK'
  OBVIOUS
<1> USE DEF RestOK
<1>1. CASE UNCHANGED <<kvs, environ, pending, todo, limit>>
  BY <1>1
<1>2. ASSUME NEW k \in Kvs, NEW t \in SUBSET Entry, todo' = [todo EXCEPT ![k] = t]
      PROVE todo' \in [Kvs -> SUBSET Entry]
  BY <1>2
<1>3. ASSUME NEW k \in Kvs, Boot(k) PROVE RestOK'
  <2>1. Entries(file) \in SUBSET Entry
    BY EntryFacts DEF RegistryTypeOK
  <2> QED BY <1>2, <1>3, <2>1 DEF Boot
<1>4. ASSUME NEW k \in Kvs, Sweep(k) \/ StopNext(k) \/ FinalNext(k) PROVE RestOK'
  <2>1. PICK e \in todo[k] : todo' = [todo EXCEPT ![k] = @ \ {e}]
    BY <1>4 DEF Sweep, StopNext, FinalNext
  <2>2. todo[k] \ {e} \in SUBSET Entry
    OBVIOUS
  <2> QED BY <1>2, <1>4, <2>1, <2>2 DEF Sweep, StopNext, FinalNext
<1>5. ASSUME NEW k \in Kvs, Serve(k) PROVE RestOK'
  BY <1>5 DEF Serve
<1>6. ASSUME NEW k \in Kvs, Shutdown(k) PROVE RestOK'
  <2>1. [svc : Configured[k], pid : {None}] \in SUBSET Entry
    BY RegistryAssumption DEF Entry
  <2> QED BY <1>2, <1>6, <2>1 DEF Shutdown
<1>7. ASSUME NEW k \in Kvs, FinalSweep(k) PROVE RestOK'
  <2>1. Entries(mem[k]) \in SUBSET Entry
    BY EntryFacts DEF RegistryTypeOK
  <2> QED BY <1>2, <1>7, <2>1 DEF FinalSweep
<1>8. ASSUME NEW k \in Kvs, Exit(k) \/ Crash(k) PROVE RestOK'
  <2>1. Gone(k) /\ (limit' = limit \/ Consume("crash"))
    BY <1>8 DEF Exit, Crash
  <2>2. kvs' \in [Kvs -> {"off", "sweep", "up", "stop", "final"}]
        /\ environ' \in [Kvs -> SUBSET Svc] /\ todo' \in [Kvs -> SUBSET Entry]
    BY <2>1 DEF Gone
  <2>3. pending' \in [Kvs -> [Svc -> Nat]]
    BY <2>1 DEF Gone
  <2>4. limit' \in [{"start", "crash", "other"} -> Nat]
    BY <2>1 DEF Consume
  <2> QED BY <2>2, <2>3, <2>4
<1>9. ASSUME NEW k \in Kvs, NEW s \in Svc, Start(k, s) PROVE RestOK'
  BY <1>9 DEF Start, Consume
<1>10. ASSUME NEW k \in Kvs, NEW s \in Svc, Register(k, s) PROVE RestOK'
  BY <1>10 DEF Register
<1>11. ASSUME NEW p \in Pid, UnrelatedStarts(p) PROVE RestOK'
  BY <1>11 DEF UnrelatedStarts, Consume
<1>12. ASSUME NEW k \in Kvs, NEW x \in Stopper,
              StopProc(k, x) \/ terminateLocked(k, x) \/ ensureDead(k, x) \/ Kill(k, x) \/ Forget(k, x)
       PROVE RestOK'
  BY <1>1, <1>12 DEF StopProc, terminateLocked, ensureDead, Kill, Forget
<1>13. ASSUME NEW k \in Kvs, CheckParent(k) \/ CheckMarker(k) \/ SendTerm(k) \/ ForgetSwept(k)
       PROVE RestOK'
  BY <1>1, <1>13 DEF CheckParent, CheckMarker, SendTerm, ForgetSwept
<1>14. ASSUME NEW k \in Kvs, NEW s \in Svc, NEW x \in Handler, Ask(k, x, s) PROVE RestOK'
  BY <1>1, <1>14 DEF Ask
<1>15. ASSUME NEW p \in Pid, ProcessExits(p) PROVE RestOK'
  BY <1>1, <1>15 DEF ProcessExits, own
<1>16. CASE UNCHANGED registryVars
  BY <1>1, <1>16 DEF registryVars, own
<1> HIDE DEF RestOK
<1> QED
  BY <1>3, <1>4, <1>5, <1>6, <1>7, <1>8, <1>9, <1>10, <1>11, <1>12, <1>13, <1>14, <1>15, <1>16,
     RegistrySteps

\* The state of the registry is well typed.
THEOREM RegistryTypeCorrect == RegistrySpec => []RegistryTypeOK
<1>1. RegistryTypeOK /\ [RegistryNext]_registryVars => RegistryTypeOK'
  <2> SUFFICES ASSUME RegistryTypeOK, [RegistryNext]_registryVars PROVE RegistryTypeOK'
    OBVIOUS
  <2>1. OsOK /\ StopOK /\ RegOK /\ RestOK
    BY Parts
  <2>2. OsOK' /\ StopOK' /\ RegOK' /\ RestOK'
    BY <2>1, OsStep, StopStep, RegStep, RestStep
  <2> QED BY <2>2 DEF RegistryTypeOK, OsOK, StopOK, RegOK, RestOK
<1> QED BY InitType, <1>1, PTL DEF RegistrySpec

----------------------------------------------------------------------------
(* Which calls are under way, and what they have checked.                  *)

\* A sweep is Main's and over before kvs serves; until then nothing is started
\* or stopped.  Only recorded numbers are checked.
PhaseInv ==
  \A k \in Kvs :
    /\ kvs[k] \in {"off", "sweep"} => \A s \in Svc : pending[k][s] = 0
    /\ kvs[k] = "off" => \A x \in Stopper : stop[k][x].at = "idle"
    /\ kvs[k] = "sweep" =>
         /\ \A x \in Handler : stop[k][x].at = "idle"
         /\ stop[k][Main].at \in {"idle", "parent", "marker", "term", "kill", "forget"}
         /\ \A e \in todo[k] : e.pid # None
    /\ kvs[k] \in Serving =>
         \A x \in Stopper : stop[k][x].at \notin {"parent", "marker", "term"}
    /\ \A x \in Stopper :
         stop[k][x].at \in {"parent", "marker", "term", "kill"} => stop[k][x].pid # None

\* The process with the number a call aims at is what the call has seen of it,
\* unless the number was handed out again.
AimOf(k, x) ==
  Aims(k, x) /\ ~stop[k][x].reused /\ Target(k, x) # None /\ Alive(Target(k, x)) =>
    LET q == os[Target(k, x)] IN
      /\ stop[k][x].at = "group" => q.kind = "child" /\ q.parent = k /\ q.svc = stop[k][x].svc
      /\ stop[k][x].at = "marker" \/ kvs[k] = "sweep" => q.parent = PID1
      /\ stop[k][x].at \in {"term", "kill"} => q.kind = "child" /\ stop[k][x].svc \in q.env

AimInv == \A k \in Kvs, x \in Stopper : AimOf(k, x)

\* Where a call aims at nobody.
Aimless == {"idle", "stop", "verify", "parent", "forget"}

\* Handing a number out changes nothing of a call but its history.
LEMMA HandOutFacts ==
  ASSUME RegistryTypeOK, NEW p, HandOut(p), NEW k \in Kvs, NEW x \in Stopper
  PROVE  /\ stop'[k][x].at = stop[k][x].at /\ stop'[k][x].svc = stop[k][x].svc
         /\ stop'[k][x].pid = stop[k][x].pid
         /\ Aims(k, x) /\ Target(k, x) = p => stop'[k][x].reused
         /\ ~(Aims(k, x) /\ Target(k, x) = p) => stop'[k][x] = stop[k][x]
<1>1. stop[k][x] \in StopState
  BY DEF RegistryTypeOK
<1>2. stop'[k][x] = IF Aims(k, x) /\ Target(k, x) = p
                    THEN [stop[k][x] EXCEPT !.reused = TRUE] ELSE stop[k][x]
  BY DEF HandOut
<1> QED BY <1>1, <1>2 DEF StopState

\* Every step keeps PhaseInv.
LEMMA PhaseStep == RegistryTypeOK /\ PhaseInv /\ [RegistryNext]_registryVars => PhaseInv'
<1> SUFFICES ASSUME RegistryTypeOK, PhaseInv, [RegistryNext]_registryVars PROVE PhaseInv'
  OBVIOUS
<1>M. Main \in Stopper /\ Main \notin Handler /\ Handler \subseteq Stopper
      /\ \A x \in Stopper : x \in Handler \/ x = Main
  BY RegistryAssumption DEF Stopper
<1>1. ASSUME NEW k \in Kvs, Boot(k) PROVE PhaseInv'
  <2>1. kvs' = [kvs EXCEPT ![k] = "sweep"] /\ todo' = [todo EXCEPT ![k] = Entries(file)]
        /\ kvs[k] = "off" /\ UNCHANGED <<pending, stop>>
    BY <1>1 DEF Boot
  <2>2. \A e \in Entries(file) : e.pid # None
    BY DEF Entries
  <2> QED BY <1>M, <2>1, <2>2 DEF PhaseInv, RegistryTypeOK, Serving
<1>2. ASSUME NEW k \in Kvs, Serve(k) PROVE PhaseInv'
  BY <1>2, <1>M, EntryFacts DEF Serve, PhaseInv, RegistryTypeOK, Serving
<1>3. ASSUME NEW k \in Kvs, Sweep(k) PROVE PhaseInv'
  <2>1. PICK e \in todo[k] :
          /\ todo' = [todo EXCEPT ![k] = @ \ {e}]
          /\ \E a \in {"parent", "forget"} : stop' = [stop EXCEPT ![k][Main] = Call(a, e.svc, e.pid)]
    BY <1>3 DEF Sweep
  <2>2. PICK a \in {"parent", "forget"} : stop' = [stop EXCEPT ![k][Main] = Call(a, e.svc, e.pid)]
    BY <2>1
  <2>3. kvs[k] = "sweep" /\ e.pid # None /\ UNCHANGED <<kvs, pending>>
    BY <1>3 DEF Sweep, PhaseInv
  <2>4. stop'[k][Main].at = a /\ stop'[k][Main].pid = e.pid
        /\ \A l \in Kvs, y \in Stopper : l # k \/ y # Main => stop'[l][y] = stop[l][y]
    BY <1>M, <2>2 DEF Call, RegistryTypeOK
  <2>5. todo'[k] \subseteq todo[k] /\ \A l \in Kvs \ {k} : todo'[l] = todo[l]
    BY <2>1 DEF RegistryTypeOK
  <2> QED BY <1>M, <2>3, <2>4, <2>5 DEF PhaseInv, Serving
<1>4. ASSUME NEW k \in Kvs, NEW x \in Stopper, NEW a, stop' = [stop EXCEPT ![k][x].at = a],
             UNCHANGED <<kvs, pending, todo>>,
             \/ a = "marker" /\ x = Main /\ stop[k][x].at = "parent"
             \/ a = "term" /\ x = Main /\ stop[k][x].at = "marker"
             \/ a = "kill" /\ (stop[k][x].at = "term" \/ (stop[k][x].at = "verify" /\ stop[k][x].pid # None))
             \/ a = "forget" /\ stop[k][x].at # "idle"
             \/ a \in {"group", "verify"} /\ stop[k][x].at = "stop"
      PROVE PhaseInv'
  <2>1. stop'[k][x].at = a /\ stop'[k][x].pid = stop[k][x].pid
        /\ \A l \in Kvs, y \in Stopper : l # k \/ y # x => stop'[l][y] = stop[l][y]
    BY <1>4 DEF RegistryTypeOK, StopState
  <2> QED BY <1>4, <1>M, <2>1 DEF PhaseInv, Serving, RegistryTypeOK
<1>5. ASSUME NEW k \in Kvs, NEW x \in Stopper, stop' = [stop EXCEPT ![k][x] = Idle],
             UNCHANGED <<kvs, pending, todo>>
      PROVE PhaseInv'
  <2>1. stop'[k][x].at = "idle"
        /\ \A l \in Kvs, y \in Stopper : l # k \/ y # x => stop'[l][y] = stop[l][y]
    BY <1>5, EntryFacts DEF RegistryTypeOK
  <2> QED BY <1>5, <1>M, <2>1 DEF PhaseInv, Serving, RegistryTypeOK
<1>6. ASSUME NEW k \in Kvs, CheckParent(k) \/ CheckMarker(k) \/ SendTerm(k) PROVE PhaseInv'
  <2>1. UNCHANGED <<kvs, pending, todo>>
    BY <1>6 DEF CheckParent, CheckMarker, SendTerm
  <2>2. \/ stop' = [stop EXCEPT ![k][Main] = Idle]
        \/ stop[k][Main].at = "parent" /\ stop' = [stop EXCEPT ![k][Main].at = "marker"]
        \/ stop[k][Main].at = "marker"
           /\ \E a \in {"term", "forget"} : stop' = [stop EXCEPT ![k][Main].at = a]
        \/ stop[k][Main].at = "term" /\ stop' = [stop EXCEPT ![k][Main].at = "kill"]
    BY <1>6 DEF CheckParent, CheckMarker, SendTerm
  <2> QED BY <1>M, <1>4, <1>5, <2>1, <2>2
<1>7. ASSUME NEW k \in Kvs, ForgetSwept(k) PROVE PhaseInv'
  BY <1>7, <1>M, <1>5 DEF ForgetSwept
<1>8. ASSUME NEW k \in Kvs, NEW x \in Stopper, NEW s, NEW p, NEW a \in {"stop", "verify"},
             kvs[k] \in Serving, stop' = [stop EXCEPT ![k][x] = Call(a, s, p)],
             UNCHANGED <<kvs, pending>>, todo' = todo \/ (\E t : todo' = [todo EXCEPT ![k] = t])
      PROVE PhaseInv'
  <2>1. stop'[k][x].at = a
        /\ \A l \in Kvs, y \in Stopper : l # k \/ y # x => stop'[l][y] = stop[l][y]
    BY <1>8 DEF Call, RegistryTypeOK
  <2>2. \A l \in Kvs : l # k => todo'[l] = todo[l]
    BY <1>8 DEF RegistryTypeOK
  <2> QED BY <1>8, <1>M, <2>1, <2>2 DEF PhaseInv, Serving
<1>9. ASSUME NEW k \in Kvs, StopNext(k) \/ FinalNext(k) PROVE PhaseInv'
  <2>1. kvs[k] \in Serving /\ UNCHANGED <<kvs, pending>>
    BY <1>9 DEF StopNext, FinalNext, Serving
  <2>2. PICK e \in todo[k] :
          /\ todo' = [todo EXCEPT ![k] = todo[k] \ {e}]
          /\ \/ stop' = [stop EXCEPT ![k][Main] = Call("stop", e.svc, tracked[k][e.svc])]
             \/ stop' = [stop EXCEPT ![k][Main] = Call("verify", e.svc, e.pid)]
    BY <1>9 DEF StopNext, FinalNext
  <2> QED BY <1>M, <1>8, <2>1, <2>2
<1>10. ASSUME NEW k \in Kvs, NEW s \in Svc, NEW x \in Handler, Ask(k, x, s) PROVE PhaseInv'
  BY <1>10, <1>M, <1>8 DEF Ask, Serving
<1>11. ASSUME NEW k \in Kvs, Shutdown(k) \/ FinalSweep(k) PROVE PhaseInv'
  <2>1. kvs[k] \in {"up", "stop"} /\ UNCHANGED <<pending, stop>>
        /\ \E w \in {"stop", "final"} : kvs' = [kvs EXCEPT ![k] = w]
        /\ \E t : todo' = [todo EXCEPT ![k] = t]
    BY <1>11 DEF Shutdown, FinalSweep
  <2>2. kvs'[k] \in {"stop", "final"} /\ \A l \in Kvs : l # k => kvs'[l] = kvs[l] /\ todo'[l] = todo[l]
    BY <2>1 DEF RegistryTypeOK
  <2> QED BY <2>1, <2>2 DEF PhaseInv, Serving
<1>12. ASSUME NEW k \in Kvs, Gone(k) PROVE PhaseInv'
  <2>1. kvs'[k] = "off" /\ (\A s \in Svc : pending'[k][s] = 0)
        /\ \A x \in Stopper : stop'[k][x].at = "idle"
    BY <1>12, EntryFacts DEF Gone, RegistryTypeOK
  <2>2. \A l \in Kvs : l # k =>
          kvs'[l] = kvs[l] /\ pending'[l] = pending[l] /\ stop'[l] = stop[l] /\ todo'[l] = todo[l]
    BY <1>12 DEF Gone, RegistryTypeOK
  <2> QED BY <2>1, <2>2 DEF PhaseInv, Serving
<1>13. ASSUME NEW p, HandOut(p), UNCHANGED <<kvs, todo>>,
              \/ UNCHANGED pending
              \/ \E k \in Kvs, s \in Svc :
                   kvs[k] \in Serving /\ pending' = [pending EXCEPT ![k][s] = @ + 1]
       PROVE PhaseInv'
  <2>1. \A k \in Kvs, x \in Stopper :
          stop'[k][x].at = stop[k][x].at /\ stop'[k][x].pid = stop[k][x].pid
    BY <1>13, HandOutFacts
  <2>2. \A k \in Kvs : kvs[k] \in {"off", "sweep"} => pending'[k] = pending[k]
    BY <1>13 DEF RegistryTypeOK, Serving
  <2> QED BY <1>13, <1>M, <2>1, <2>2 DEF PhaseInv
<1>14. ASSUME NEW k \in Kvs, NEW s \in Svc, Start(k, s) PROVE PhaseInv'
  BY <1>14, <1>13 DEF Start, Serving
<1>15. ASSUME NEW p \in Pid, UnrelatedStarts(p) PROVE PhaseInv'
  BY <1>15, <1>13 DEF UnrelatedStarts
<1>16. ASSUME NEW k \in Kvs, NEW s \in Svc, Register(k, s) PROVE PhaseInv'
  <2>1. pending[k][s] # 0 /\ UNCHANGED <<kvs, stop, todo>>
        /\ \A l \in Kvs : l # k => pending'[l] = pending[l]
    BY <1>16 DEF Register, RegistryTypeOK
  <2>2. kvs[k] \notin {"off", "sweep"}
    BY <2>1 DEF PhaseInv
  <2> QED BY <2>1, <2>2 DEF PhaseInv
<1>17. ASSUME NEW k \in Kvs, NEW x \in Stopper, StopProc(k, x) \/ ensureDead(k, x) \/ Kill(k, x)
       PROVE PhaseInv'
  <2>1. UNCHANGED <<kvs, pending, todo>>
        /\ \/ /\ stop[k][x].at = "stop"
              /\ \E a \in {"group", "verify"} : stop' = [stop EXCEPT ![k][x].at = a]
           \/ /\ stop[k][x].at = "verify" /\ stop[k][x].pid # None
              /\ stop' = [stop EXCEPT ![k][x].at = "kill"]
           \/ stop[k][x].at # "idle" /\ stop' = [stop EXCEPT ![k][x].at = "forget"]
    BY <1>17 DEF StopProc, ensureDead, Kill
  <2> QED BY <1>4, <2>1
<1>18. ASSUME NEW k \in Kvs, NEW x \in Stopper, terminateLocked(k, x) PROVE PhaseInv'
  <2>1. UNCHANGED <<kvs, pending, todo>> /\ stop[k][x].at = "group"
        /\ stop' = [stop EXCEPT ![k][x] = [stop[k][x] EXCEPT !.at = "verify", !.reused = FALSE]]
    BY <1>18 DEF terminateLocked
  <2>2. stop[k][x] \in StopState
    BY DEF RegistryTypeOK
  <2>3. stop'[k][x].at = "verify"
        /\ \A l \in Kvs, y \in Stopper : l # k \/ y # x => stop'[l][y] = stop[l][y]
    BY <2>1, <2>2 DEF StopState, RegistryTypeOK
  <2>4. kvs[k] \in Serving
    BY <1>M, <2>1 DEF PhaseInv, Serving, RegistryTypeOK
  <2> QED BY <2>1, <2>3, <2>4, <1>M DEF PhaseInv, Serving
<1>19. ASSUME NEW k \in Kvs, NEW x \in Stopper, Forget(k, x) PROVE PhaseInv'
  BY <1>19, <1>5 DEF Forget
<1>20. CASE UNCHANGED <<kvs, pending, stop, todo>>
  BY <1>20 DEF PhaseInv
<1> QED
  BY <1>1, <1>2, <1>3, <1>6, <1>7, <1>9, <1>10, <1>11, <1>12, <1>14, <1>15, <1>16, <1>17, <1>18,
     <1>19, <1>20, RegistrySteps
  DEF Exit, Crash, ProcessExits, registryVars, own

\* The process that has p goes on as far as a call of k sees it.
Lasts(p, k) ==
  /\ os'[p].kind = os[p].kind /\ os'[p].svc = os[p].svc /\ os'[p].env = os[p].env
  /\ os'[p].parent = os[p].parent \/ (os[p].parent # k /\ os'[p].parent = PID1)

\* A call that stays where it is keeps its aim, whoever ends or loses a parent.
LEMMA AimKept ==
  ASSUME RegistryTypeOK, NEW k \in Kvs, NEW x \in Stopper, AimOf(k, x),
         stop'[k][x] = stop[k][x],
         Aims(k, x) => /\ kvs'[k] = "sweep" => kvs[k] = "sweep"
                       /\ Target(k, x)' \in {Target(k, x), None}
                       /\ Target(k, x) \in Pid =>
                            os'[Target(k, x)].kind = "free" \/ Lasts(Target(k, x), k)
  PROVE  AimOf(k, x)'
<1>1. Target(k, x) \in Pid \cup {None}
  <2>1. stop[k][x] \in StopState /\ (stop[k][x].at # "idle" => stop[k][x].svc \in Svc)
    BY DEF RegistryTypeOK
  <2>2. \A s \in Svc : tracked[k][s] \in Pid \cup {None}
    BY DEF RegistryTypeOK, Recorded
  <2> QED BY <2>1, <2>2 DEF Target, StopState
<1>2. Aims(k, x)' <=> Aims(k, x)
  BY DEF Aims
<1> DEFINE p == Target(k, x)
<1>3. CASE Aims(k, x) /\ Target(k, x)' = p /\ p \in Pid /\ os'[p].kind # "free" /\ ~stop[k][x].reused
  <2>1. Lasts(p, k) /\ Alive(p)
    BY <1>3 DEF Lasts, Alive
  <2>2. p # None
    BY <1>3, RegistryAssumption
  <2>3. LET q == os[p] IN
          /\ stop[k][x].at = "group" => q.kind = "child" /\ q.parent = k /\ q.svc = stop[k][x].svc
          /\ stop[k][x].at = "marker" \/ kvs[k] = "sweep" => q.parent = PID1
          /\ stop[k][x].at \in {"term", "kill"} => q.kind = "child" /\ stop[k][x].svc \in q.env
    BY <1>3, <2>1, <2>2 DEF AimOf
  <2> HIDE DEF p
  <2>4. LET q == os'[p] IN
          /\ stop[k][x].at = "group" => q.kind = "child" /\ q.parent = k /\ q.svc = stop[k][x].svc
          /\ stop[k][x].at = "marker" \/ kvs'[k] = "sweep" => q.parent = PID1
          /\ stop[k][x].at \in {"term", "kill"} => q.kind = "child" /\ stop[k][x].svc \in q.env
    BY <1>3, <2>1, <2>3 DEF Lasts
  <2> QED BY <1>3, <2>4 DEF AimOf
<1> QED BY <1>1, <1>2, <1>3 DEF AimOf, Alive

\* A call that is not about to signal aims at nobody.
LEMMA NoAim ==
  ASSUME NEW k \in Kvs, NEW x \in Stopper, ~Aims(k, x)'
  PROVE  AimOf(k, x)'
  BY DEF AimOf

\* Who dies does not last, everybody else does.
LEMMA Dies ==
  ASSUME RegistryTypeOK, NEW d, os' \in {os, [os EXCEPT ![d] = Free]}, NEW p \in Pid, NEW k
  PROVE  os'[p].kind = "free" \/ Lasts(p, k)
<1>1. os'[p] \in {os[p], Free}
  BY DEF RegistryTypeOK
<1> QED BY <1>1, FreeFacts DEF Lasts

\* Every step keeps AimInv.
LEMMA AimStep == RegistryTypeOK /\ PhaseInv /\ AimInv /\ [RegistryNext]_registryVars => AimInv'
<1> SUFFICES ASSUME RegistryTypeOK, PhaseInv, AimInv, [RegistryNext]_registryVars PROVE AimInv'
  OBVIOUS
<1>M. Main \in Stopper
  BY DEF Stopper
\* One call goes on, perhaps with a signal.
<1>1. ASSUME NEW k \in Kvs, NEW x \in Stopper, AimOf(k, x)', NEW d,
             os' \in {os, [os EXCEPT ![d] = Free]}, UNCHANGED <<kvs, tracked>>,
             \A l \in Kvs, y \in Stopper : l # k \/ y # x => stop'[l][y] = stop[l][y]
      PROVE AimInv'
  <2> SUFFICES ASSUME NEW l \in Kvs, NEW y \in Stopper, l # k \/ y # x PROVE AimOf(l, y)'
    BY <1>1 DEF AimInv
  <2>1. stop'[l][y] = stop[l][y] /\ AimOf(l, y)
    BY <1>1 DEF AimInv
  <2>2. Target(l, y)' = Target(l, y)
    BY <1>1, <2>1 DEF Target
  <2> QED BY <1>1, <2>1, <2>2, Dies, AimKept
\* One call starts or ends.
<1>2. ASSUME NEW k \in Kvs, NEW x \in Stopper, NEW r, r.at \in Aimless,
             stop' = [stop EXCEPT ![k][x] = r], UNCHANGED <<kvs, tracked, os>>
      PROVE AimInv'
  <2>1. stop'[k][x] = r /\ \A l \in Kvs, y \in Stopper : l # k \/ y # x => stop'[l][y] = stop[l][y]
    BY <1>2 DEF RegistryTypeOK
  <2>2. AimOf(k, x)'
    BY <1>2, <2>1, NoAim DEF Aims, Aimless
  <2> QED BY <1>1, <1>2, <2>1, <2>2
\* Nothing is called, and nobody dies or is tracked.
<1>3. ASSUME UNCHANGED <<tracked, stop, os>>,
             \A k \in Kvs, x \in Stopper : Aims(k, x) /\ kvs'[k] = "sweep" => kvs[k] = "sweep"
      PROVE AimInv'
  <2> SUFFICES ASSUME NEW k \in Kvs, NEW x \in Stopper PROVE AimOf(k, x)'
    BY DEF AimInv
  <2>1. AimOf(k, x) /\ stop'[k][x] = stop[k][x] /\ Target(k, x)' = Target(k, x)
    BY <1>3 DEF AimInv, Target
  <2>2. Lasts(Target(k, x), k)
    BY <1>3 DEF Lasts
  <2> QED BY <1>3, <2>1, <2>2, AimKept
<1>4. ASSUME NEW k \in Kvs, Boot(k) \/ Serve(k) \/ Shutdown(k) \/ FinalSweep(k) PROVE AimInv'
  <2>1. UNCHANGED <<tracked, stop, os>> /\ \A l \in Kvs : l # k => kvs'[l] = kvs[l]
    BY <1>4 DEF Boot, Serve, Shutdown, FinalSweep, RegistryTypeOK
  <2>2. kvs'[k] = "sweep" => \A x \in Stopper : ~Aims(k, x)
    BY <1>4 DEF Boot, Serve, Shutdown, FinalSweep, RegistryTypeOK, PhaseInv, Aims
  <2> QED BY <1>3, <2>1, <2>2
<1>5. ASSUME NEW k \in Kvs, NEW s \in Svc, Register(k, s) PROVE AimInv'
  BY <1>3, <1>5 DEF Register
<1>6. ASSUME NEW k \in Kvs, Sweep(k) \/ StopNext(k) \/ FinalNext(k) PROVE AimInv'
  <2>1. UNCHANGED <<kvs, tracked, os>>
        /\ \E a, s, p : /\ a \in {"parent", "forget", "stop", "verify"}
                        /\ stop' = [stop EXCEPT ![k][Main] = Call(a, s, p)]
    BY <1>6 DEF Sweep, StopNext, FinalNext
  <2>2. PICK a, s, p : /\ a \in {"parent", "forget", "stop", "verify"}
                       /\ stop' = [stop EXCEPT ![k][Main] = Call(a, s, p)]
    BY <2>1
  <2>3. Call(a, s, p).at \in Aimless
    BY <2>2 DEF Call, Aimless
  <2> QED BY <1>2, <1>M, <2>1, <2>2, <2>3
<1>7. ASSUME NEW k \in Kvs, NEW s \in Svc, NEW x \in Handler, Ask(k, x, s) PROVE AimInv'
  <2>1. Call("stop", s, tracked[k][s]).at \in Aimless /\ x \in Stopper
    BY DEF Call, Stopper, Aimless
  <2>2. stop' = [stop EXCEPT ![k][x] = Call("stop", s, tracked[k][s])] /\ UNCHANGED <<kvs, tracked, os>>
    BY <1>7 DEF Ask
  <2> QED BY <1>2, <2>1, <2>2
<1>8. ASSUME NEW k \in Kvs, ForgetSwept(k) PROVE AimInv'
  <2>1. Idle.at \in Aimless
    BY EntryFacts DEF Aimless
  <2>2. stop' = [stop EXCEPT ![k][Main] = Idle] /\ UNCHANGED <<kvs, tracked, os>>
    BY <1>8 DEF ForgetSwept
  <2> QED BY <1>2, <1>M, <2>1, <2>2
<1>9. ASSUME NEW k \in Kvs, NEW x \in Stopper, Forget(k, x) PROVE AimInv'
  <2>1. stop' = [stop EXCEPT ![k][x] = Idle] /\ UNCHANGED <<kvs, tracked>>
    BY <1>9 DEF Forget
  <2>2. stop'[k][x].at = "idle" /\ \A l \in Kvs, y \in Stopper : l # k \/ y # x => stop'[l][y] = stop[l][y]
    BY <2>1, EntryFacts DEF RegistryTypeOK
  <2>3. \A l : \A p \in Pid : Lasts(p, l)
    <3> SUFFICES ASSUME NEW l, NEW p \in Pid PROVE Lasts(p, l)
      OBVIOUS
    <3>1. os[p] \in ProcState /\ os'[p] \in {os[p], [os[p] EXCEPT !.lost = TRUE]}
      BY <1>9 DEF Forget, RegistryTypeOK
    <3> QED BY <3>1 DEF ProcState, Lasts
  <2> SUFFICES ASSUME NEW l \in Kvs, NEW y \in Stopper PROVE AimOf(l, y)'
    BY DEF AimInv
  <2>4. CASE l = k /\ y = x
    BY <2>2, <2>4, NoAim DEF Aims
  <2>5. CASE l # k \/ y # x
    <3>1. stop'[l][y] = stop[l][y] /\ AimOf(l, y) /\ Target(l, y)' = Target(l, y)
      BY <2>1, <2>2, <2>5 DEF AimInv, Target
    <3> QED BY <2>1, <2>3, <3>1, AimKept
  <2> QED BY <2>4, <2>5
<1>10. ASSUME NEW k \in Kvs, CheckParent(k) PROVE AimInv'
  <2>1. UNCHANGED <<kvs, tracked, os>> /\ stop[k][Main].at = "parent"
    BY <1>10 DEF CheckParent
  <2>2. CASE stop' = [stop EXCEPT ![k][Main] = Idle]
    <3>1. Idle.at \in Aimless
      BY EntryFacts DEF Aimless
    <3> QED BY <1>2, <1>M, <2>1, <2>2, <3>1
  <2>3. CASE os[stop[k][Main].pid].parent = PID1 /\ stop' = [stop EXCEPT ![k][Main].at = "marker"]
    <3>1. stop'[k][Main].at = "marker" /\ stop'[k][Main].pid = stop[k][Main].pid
          /\ \A l \in Kvs, y \in Stopper : l # k \/ y # Main => stop'[l][y] = stop[l][y]
      BY <1>M, <2>3 DEF RegistryTypeOK, StopState
    <3>2. AimOf(k, Main)'
      BY <2>1, <2>3, <3>1 DEF AimOf, Target
    <3> QED BY <1>1, <1>M, <2>1, <3>1, <3>2
  <2> QED BY <1>10, <2>2, <2>3 DEF CheckParent
<1>11. ASSUME NEW k \in Kvs, CheckMarker(k) PROVE AimInv'
  <2> DEFINE p == stop[k][Main].pid
             s == stop[k][Main].svc
  <2>1. UNCHANGED <<kvs, tracked, os>> /\ stop[k][Main].at = "marker"
        /\ stop' = [stop EXCEPT ![k][Main].at = IF Carries(p, s) THEN "term" ELSE "forget"]
    BY <1>11 DEF CheckMarker
  <2>2. stop'[k][Main].at = (IF Carries(p, s) THEN "term" ELSE "forget")
        /\ stop'[k][Main].svc = s /\ stop'[k][Main].pid = p
        /\ stop'[k][Main].reused = stop[k][Main].reused
        /\ \A l \in Kvs, y \in Stopper : l # k \/ y # Main => stop'[l][y] = stop[l][y]
    BY <1>M, <2>1 DEF RegistryTypeOK, StopState
  <2>3. p \in Pid
    BY <1>M, <2>1 DEF PhaseInv, RegistryTypeOK, StopState
  <2>4. AimOf(k, Main)'
    <3>1. CASE Carries(p, s)
      <4>1. s \in os[p].env /\ os[p].kind = "child"
        BY <2>3, <3>1 DEF Carries, RegistryTypeOK, Plausible
      <4>2. AimOf(k, Main) /\ Aims(k, Main) /\ Target(k, Main) = p
        BY <1>M, <2>1 DEF AimInv, Aims, Target
      <4>3. Alive(p) /\ ~stop[k][Main].reused => os[p].parent = PID1
        BY <2>1, <2>3, <4>2, RegistryAssumption DEF AimOf
      <4>4. Target(k, Main)' = p /\ os'[p] = os[p]
        BY <2>1, <2>2, <3>1 DEF Target
      <4> HIDE DEF p, s
      <4> QED BY <2>1, <2>2, <3>1, <4>1, <4>3, <4>4 DEF AimOf, Alive
    <3>2. CASE ~Carries(p, s)
      BY <1>M, <2>2, <3>2, NoAim DEF Aims
    <3> QED BY <3>1, <3>2
  <2> QED BY <1>1, <1>M, <2>1, <2>2, <2>4
<1>12. ASSUME NEW k \in Kvs, SendTerm(k) PROVE AimInv'
  <2> DEFINE p == stop[k][Main].pid
  <2>1. UNCHANGED <<kvs, tracked>> /\ stop[k][Main].at = "term"
        /\ stop' = [stop EXCEPT ![k][Main].at = "kill"] /\ os' \in {os, [os EXCEPT ![p] = Free]}
    BY <1>12 DEF SendTerm
  <2>2. stop'[k][Main].at = "kill" /\ stop'[k][Main].svc = stop[k][Main].svc /\ stop'[k][Main].pid = p
        /\ stop'[k][Main].reused = stop[k][Main].reused
        /\ \A l \in Kvs, y \in Stopper : l # k \/ y # Main => stop'[l][y] = stop[l][y]
    BY <1>M, <2>1 DEF RegistryTypeOK, StopState
  <2>3. p \in Pid
    BY <1>M, <2>1 DEF PhaseInv, RegistryTypeOK, StopState
  <2>4. AimOf(k, Main)'
    <3>1. AimOf(k, Main) /\ Aims(k, Main) /\ Target(k, Main) = p
      BY <1>M, <2>1 DEF AimInv, Aims, Target
    <3>2. os'[p] \in {os[p], Free} /\ Target(k, Main)' = p
      BY <2>1, <2>2, <2>3 DEF Target, RegistryTypeOK
    <3> HIDE DEF p
    <3>3. CASE os'[p].kind = "free"
      BY <3>2, <3>3 DEF AimOf, Alive
    <3>4. CASE os'[p] = os[p]
      BY <2>1, <2>2, <2>3, <3>1, <3>2, <3>4, RegistryAssumption DEF AimOf, Alive
    <3> QED BY <3>2, <3>3, <3>4, FreeFacts
  <2> QED BY <1>1, <1>M, <2>1, <2>2, <2>4
<1>13. ASSUME NEW k \in Kvs, NEW x \in Stopper, Kill(k, x) PROVE AimInv'
  <2>1. stop'[k][x].at = "forget" /\ \A l \in Kvs, y \in Stopper : l # k \/ y # x => stop'[l][y] = stop[l][y]
    BY <1>13 DEF Kill, RegistryTypeOK, StopState
  <2>2. AimOf(k, x)'
    BY <2>1, NoAim DEF Aims
  <2>3. os' \in {os, [os EXCEPT ![stop[k][x].pid] = Free]} /\ UNCHANGED <<kvs, tracked>>
    BY <1>13 DEF Kill
  <2> QED BY <1>1, <2>1, <2>2, <2>3
<1>14. ASSUME NEW k \in Kvs, NEW x \in Stopper, StopProc(k, x) PROVE AimInv'
  <2> DEFINE s == stop[k][x].svc
  <2>1. UNCHANGED <<kvs, tracked, os>> /\ stop[k][x].at = "stop"
        /\ stop' = [stop EXCEPT ![k][x].at = IF IsRunning(k, s) THEN "group" ELSE "verify"]
    BY <1>14 DEF StopProc
  <2>2. stop'[k][x].at = (IF IsRunning(k, s) THEN "group" ELSE "verify") /\ stop'[k][x].svc = s
        /\ \A l \in Kvs, y \in Stopper : l # k \/ y # x => stop'[l][y] = stop[l][y]
    BY <2>1 DEF RegistryTypeOK, StopState
  <2>3. kvs[k] # "sweep"
    BY <2>1 DEF PhaseInv, Stopper
  <2>4. AimOf(k, x)'
    <3>1. CASE IsRunning(k, s)
      <4>1. Target(k, x)' = tracked[k][s] /\ stop'[k][x].at = "group"
        BY <2>1, <2>2, <3>1 DEF Target
      <4> QED BY <2>1, <2>2, <2>3, <3>1, <4>1 DEF AimOf, IsRunning
    <3>2. CASE ~IsRunning(k, s)
      BY <2>2, <3>2, NoAim DEF Aims
    <3> QED BY <3>1, <3>2
  <2> QED BY <1>1, <2>1, <2>2, <2>4
<1>15. ASSUME NEW k \in Kvs, NEW x \in Stopper, ensureDead(k, x) PROVE AimInv'
  <2> DEFINE s == stop[k][x].svc
             p == stop[k][x].pid
             hit == p # None /\ Alive(p) /\ Carries(p, s)
  <2>1. UNCHANGED <<kvs, tracked, os>> /\ stop[k][x].at = "verify"
        /\ stop' = [stop EXCEPT ![k][x].at = IF hit THEN "kill" ELSE "forget"]
    BY <1>15 DEF ensureDead
  <2>2. stop'[k][x].at = (IF hit THEN "kill" ELSE "forget") /\ stop'[k][x].svc = s /\ stop'[k][x].pid = p
        /\ \A l \in Kvs, y \in Stopper : l # k \/ y # x => stop'[l][y] = stop[l][y]
    BY <2>1 DEF RegistryTypeOK, StopState
  <2>3. kvs[k] # "sweep"
    BY <2>1 DEF PhaseInv, Stopper
  <2>4. AimOf(k, x)'
    <3>1. CASE hit
      <4>1. p \in Pid
        BY <3>1 DEF RegistryTypeOK, StopState
      <4>2. s \in os[p].env /\ os[p].kind = "child"
        BY <3>1, <4>1 DEF Carries, RegistryTypeOK, Plausible
      <4>3. Target(k, x)' = p /\ stop'[k][x].at = "kill" /\ stop'[k][x].svc = s /\ os'[p] = os[p]
        BY <2>1, <2>2, <3>1 DEF Target
      <4> HIDE DEF p, s, hit
      <4> QED BY <2>1, <2>3, <4>2, <4>3 DEF AimOf
    <3>2. CASE ~hit
      BY <2>2, <3>2, NoAim DEF Aims
    <3> QED BY <3>1, <3>2
  <2> HIDE DEF hit
  <2> QED BY <1>1, <2>1, <2>2, <2>4
<1>16. ASSUME NEW k \in Kvs, NEW x \in Stopper, terminateLocked(k, x) PROVE AimInv'
  <2> DEFINE s == stop[k][x].svc
             r == [stop[k][x] EXCEPT !.at = "verify", !.reused = FALSE]
  <2>1. UNCHANGED kvs /\ stop[k][x].at = "group" /\ tracked' = [tracked EXCEPT ![k][s] = None]
        /\ os' \in {os, [os EXCEPT ![tracked[k][s]] = Free]}
        /\ stop' = [stop EXCEPT ![k][x] = r]
    BY <1>16 DEF terminateLocked
  <2>2. stop[k][x] \in StopState /\ s \in Svc
    BY <2>1 DEF RegistryTypeOK
  <2>3. stop'[k][x].at = "verify"
        /\ \A l \in Kvs, y \in Stopper : l # k \/ y # x => stop'[l][y] = stop[l][y]
    BY <2>1, <2>2 DEF StopState, RegistryTypeOK
  <2>4. \A l \in Kvs, t \in Svc : tracked'[l][t] \in {tracked[l][t], None}
    BY <2>1, <2>2 DEF RegistryTypeOK, Recorded
  <2> SUFFICES ASSUME NEW l \in Kvs, NEW y \in Stopper PROVE AimOf(l, y)'
    BY DEF AimInv
  <2>5. CASE l = k /\ y = x
    BY <2>3, <2>5, NoAim DEF Aims
  <2>6. CASE l # k \/ y # x
    <3>1. stop'[l][y] = stop[l][y] /\ AimOf(l, y) /\ (stop[l][y].at = "group" => stop[l][y].svc \in Svc)
      BY <2>3, <2>6 DEF AimInv, RegistryTypeOK
    <3>2. Target(l, y)' \in {Target(l, y), None}
      BY <2>4, <3>1 DEF Target
    <3> QED BY <2>1, <3>1, <3>2, Dies, AimKept
  <2> QED BY <2>5, <2>6
<1>17. ASSUME NEW p \in Pid, HandOut(p), UNCHANGED kvs, NEW q, os' = [os EXCEPT ![p] = q],
              \/ UNCHANGED tracked
              \/ \E k \in Kvs, s \in Svc :
                   Unlocked(k, s) /\ tracked' = [tracked EXCEPT ![k][s] = p]
       PROVE AimInv'
  <2> SUFFICES ASSUME NEW l \in Kvs, NEW y \in Stopper PROVE AimOf(l, y)'
    BY DEF AimInv
  <2>1. Target(l, y)' = Target(l, y)
    <3>1. stop'[l][y].at = stop[l][y].at /\ stop'[l][y].svc = stop[l][y].svc
          /\ stop'[l][y].pid = stop[l][y].pid
      BY <1>17, HandOutFacts
    <3>2. stop[l][y].at = "group" => tracked'[l][stop[l][y].svc] = tracked[l][stop[l][y].svc]
      <4> SUFFICES ASSUME stop[l][y].at = "group", NEW k \in Kvs, NEW s \in Svc,
                          Unlocked(k, s), tracked' = [tracked EXCEPT ![k][s] = p]
                   PROVE  tracked'[l][stop[l][y].svc] = tracked[l][stop[l][y].svc]
        BY <1>17
      <4>1. l = k => stop[l][y].svc # s
        BY DEF Unlocked
      <4>2. tracked \in [Kvs -> [Svc -> Pid \cup {None}]] /\ stop[l][y].svc \in Svc
        BY DEF RegistryTypeOK, Recorded
      <4> QED BY <4>1, <4>2
    <3> QED BY <3>1, <3>2 DEF Target
  <2>2. CASE Aims(l, y) /\ Target(l, y) = p
    <3>1. stop'[l][y].reused
      BY <1>17, <2>2, HandOutFacts
    <3> QED BY <3>1 DEF AimOf
  <2>3. CASE ~(Aims(l, y) /\ Target(l, y) = p)
    <3>1. stop'[l][y] = stop[l][y] /\ AimOf(l, y)
      BY <1>17, <2>3, HandOutFacts DEF AimInv
    <3>2. \A d \in Pid : d # p => Lasts(d, l)
      BY <1>17 DEF RegistryTypeOK, Lasts
    <3> QED BY <1>17, <2>1, <2>3, <3>1, <3>2, AimKept
  <2> QED BY <2>2, <2>3
<1>18. ASSUME NEW k \in Kvs, NEW s \in Svc, Start(k, s) PROVE AimInv'
  <2>1. PICK p \in Pid : /\ HandOut(p) /\ tracked' = [tracked EXCEPT ![k][s] = p]
                         /\ \E q : os' = [os EXCEPT ![p] = q]
    BY <1>18 DEF Start
  <2>2. PICK q : os' = [os EXCEPT ![p] = q]
    BY <2>1
  <2>3. UNCHANGED kvs /\ Unlocked(k, s)
    BY <1>18 DEF Start
  <2> QED BY <1>17, <2>1, <2>2, <2>3
<1>19. ASSUME NEW p \in Pid, UnrelatedStarts(p) PROVE AimInv'
  BY <1>17, <1>19 DEF UnrelatedStarts
<1>20. ASSUME NEW k \in Kvs, Gone(k) PROVE AimInv'
  <2>1. \A x \in Stopper : stop'[k][x].at = "idle"
    BY <1>20, EntryFacts DEF Gone, RegistryTypeOK
  <2>2. \A l \in Kvs : l # k => kvs'[l] = kvs[l] /\ stop'[l] = stop[l] /\ tracked'[l] = tracked[l]
    BY <1>20 DEF Gone, RegistryTypeOK
  <2>3. ASSUME NEW p \in Pid, NEW l \in Kvs, l # k PROVE Lasts(p, l)
    <3>1. CASE os[p].kind # "child"
      BY <1>20, <3>1 DEF Gone, Lasts
    <3>2. CASE os[p].kind = "child"
      <4> DEFINE q == IF os[p].parent = k THEN PID1 ELSE os[p].parent
                 b == \/ os[p].lost
                      \/ file' # file
                      \/ os[p].parent = k /\ pending[k][os[p].svc] > 0
      <4>1. os'[p] = [os[p] EXCEPT !.parent = q, !.lost = b] /\ os[p] \in ProcState
        BY <1>20, <3>2 DEF Gone, RegistryTypeOK
      <4>2. q = os[p].parent \/ (os[p].parent # l /\ q = PID1)
        BY <2>3
      <4> HIDE DEF q, b
      <4> QED BY <4>1, <4>2 DEF Lasts, ProcState
    <3> QED BY <3>1, <3>2
  <2> SUFFICES ASSUME NEW l \in Kvs, NEW y \in Stopper PROVE AimOf(l, y)'
    BY DEF AimInv
  <2>4. CASE l = k
    BY <2>1, <2>4, NoAim DEF Aims
  <2>5. CASE l # k
    <3>1. stop'[l][y] = stop[l][y] /\ AimOf(l, y) /\ Target(l, y)' = Target(l, y)
      BY <2>2, <2>5 DEF AimInv, Target
    <3> QED BY <2>2, <2>3, <2>5, <3>1, AimKept
  <2> QED BY <2>4, <2>5
<1>21. ASSUME NEW p \in Pid, ProcessExits(p) PROVE AimInv'
  <2> SUFFICES ASSUME NEW l \in Kvs, NEW y \in Stopper PROVE AimOf(l, y)'
    BY DEF AimInv
  <2>1. UNCHANGED <<kvs, tracked, stop>> /\ os' \in {os, [os EXCEPT ![p] = Free]}
    BY <1>21 DEF ProcessExits, own
  <2>2. stop'[l][y] = stop[l][y] /\ AimOf(l, y) /\ Target(l, y)' = Target(l, y)
    BY <2>1 DEF AimInv, Target
  <2> QED BY <2>1, <2>2, Dies, AimKept
<1>22. CASE UNCHANGED registryVars
  BY <1>3, <1>22 DEF registryVars, own
<1> QED
  BY <1>4, <1>5, <1>6, <1>7, <1>8, <1>9, <1>10, <1>11, <1>12, <1>13, <1>14, <1>15, <1>16, <1>18,
     <1>19, <1>20, <1>21, <1>22, RegistrySteps DEF Exit, Crash

\* Both hold in every reachable state.
LEMMA SpecPhases == RegistrySpec => [](RegistryTypeOK /\ PhaseInv /\ AimInv)
<1>1. RegistryInit => PhaseInv /\ AimInv
  <2> SUFFICES ASSUME RegistryInit PROVE PhaseInv /\ AimInv
    OBVIOUS
  <2>1. \A k \in Kvs, x \in Stopper : stop[k][x].at = "idle"
    BY EntryFacts DEF RegistryInit
  <2>2. \A k \in Kvs : kvs[k] = "off" /\ \A s \in Svc : pending[k][s] = 0
    BY DEF RegistryInit
  <2> QED BY <2>1, <2>2 DEF PhaseInv, AimInv, AimOf, Aims, Serving
<1> QED BY InitType, <1>1, RegistryTypeCorrect, PhaseStep, AimStep, PTL DEF RegistrySpec

\* Any number of kvs may share a home, be killed and have their numbers
\* reused: whom a sweep, a stop or a shutdown ends is the process it checked,
\* or one that was given its number since.
THEOREM ChecksMislead == RegistrySpec => OnlyReuseMisleads
<1>1. RegistryTypeOK /\ PhaseInv /\ AimInv /\ [RegistryNext]_registryVars =>
        [\A k \in Kvs, x \in Stopper, p \in Pid :
           Signals(k, x) /\ Alive(p) /\ ~Alive(p)' /\ ~stop[k][x].reused =>
             /\ os[p].kind = "child" /\ Carries(p, stop[k][x].svc)
             /\ kvs[k] = "sweep" => os[p].parent = PID1
             /\ stop[k][x].at = "group" =>
                  os[p].parent = k /\ os[p].svc = stop[k][x].svc]_registryVars
  <2> SUFFICES ASSUME RegistryTypeOK, PhaseInv, AimInv, NEW k \in Kvs, NEW x \in Stopper, NEW p \in Pid,
                      Signals(k, x), Alive(p), ~Alive(p)', ~stop[k][x].reused
               PROVE  /\ os[p].kind = "child" /\ Carries(p, stop[k][x].svc)
                      /\ kvs[k] = "sweep" => os[p].parent = PID1
                      /\ stop[k][x].at = "group" => os[p].parent = k /\ os[p].svc = stop[k][x].svc
    OBVIOUS
  <2>1. Aims(k, x) /\ stop[k][x].at # "marker" /\ os' \in {os, [os EXCEPT ![Target(k, x)] = Free]}
    <3>1. CASE x = Main /\ SendTerm(k)
      BY <3>1 DEF SendTerm, Aims, Target
    <3>2. CASE terminateLocked(k, x)
      BY <3>2 DEF terminateLocked, Aims, Target
    <3>3. CASE Kill(k, x)
      BY <3>3 DEF Kill, Aims, Target
    <3> QED BY <3>1, <3>2, <3>3 DEF Signals
  <2>2. p = Target(k, x)
    BY <2>1 DEF Alive, RegistryTypeOK
  <2>3. p # None /\ AimOf(k, x)
    BY RegistryAssumption DEF AimInv
  <2>4. CASE stop[k][x].at = "group"
    <3>1. os[p].kind = "child" /\ os[p].parent = k /\ os[p].svc = stop[k][x].svc
          /\ (kvs[k] = "sweep" => os[p].parent = PID1)
      BY <2>1, <2>2, <2>3, <2>4 DEF AimOf
    <3> QED BY <3>1 DEF RegistryTypeOK, Plausible, Carries
  <2>5. CASE stop[k][x].at \in {"term", "kill"}
    BY <2>1, <2>2, <2>3, <2>5 DEF AimOf, Carries
  <2> QED BY <2>1, <2>4, <2>5 DEF Aims
<1> QED BY SpecPhases, <1>1, PTL DEF RegistrySpec, OnlyReuseMisleads

----------------------------------------------------------------------------
(* A kvs alone in its home: what its file says about the processes.        *)

Alone == \A k, l \in Kvs : k = l

\* The file is the memory of the kvs that runs.
InStep == \A k \in Kvs : kvs[k] # "off" => mem[k] = file

\* Process tracks every child of a live kvs, which is past its sweep.
Owned ==
  \A p \in Pid, k \in Kvs : os[p].kind = "child" /\ os[p].parent = k =>
    kvs[k] \in Serving /\ tracked[k][os[p].svc] = p

\* The sweep is at an entry of p, before its last signal.
Held(k, p) ==
  /\ stop[k][Main].at \in {"parent", "marker", "term", "kill"}
  /\ stop[k][Main].svc = os[p].svc /\ stop[k][Main].pid = p

\* What the sweep has left to do is recorded, the entry it is at is no longer
\* part of that, and every recorded orphan is one of both.
SweepKnows ==
  \A k \in Kvs : kvs[k] = "sweep" =>
    /\ \A e \in todo[k] : e.pid # None /\ file[e.svc] = e.pid
    /\ stop[k][Main].at # "idle" =>
         /\ stop[k][Main].pid # None /\ file[stop[k][Main].svc] = stop[k][Main].pid
         /\ [svc |-> stop[k][Main].svc, pid |-> stop[k][Main].pid] \notin todo[k]
    /\ \A p \in Pid : Orphan(p) /\ ~os[p].lost =>
         [svc |-> os[p].svc, pid |-> p] \in todo[k] \/ Held(k, p)

AloneInv == InStep /\ Owned /\ SweepKnows /\ RecordedOrLost /\ NoOrphanAfterBoot

\* Some facts on one process.
LEMMA OneChildFacts ==
  ASSUME RegistryTypeOK, NEW p \in Pid, os[p].kind = "child"
  PROVE os[p].svc \in Svc /\ os[p].svc \in os[p].env /\ os[p].parent \in Kvs \cup {PID1}
        /\ os[p].env \subseteq Svc
  BY DEF RegistryTypeOK, Plausible, ProcState

\* The invariant of a single kvs holds at first.
LEMMA InitAlone == RegistryInit => AloneInv
<1> SUFFICES ASSUME RegistryInit PROVE AloneInv
  OBVIOUS
<1>1. \A p \in Pid : os[p].kind # "child"
  BY FreeFacts DEF RegistryInit
<1>2. \A k \in Kvs : kvs[k] = "off"
  BY DEF RegistryInit
<1>3. Owned /\ RecordedOrLost
  BY <1>1 DEF Owned, RecordedOrLost
<1>4. InStep
  BY <1>2 DEF InStep
<1>5. SweepKnows
  BY <1>2 DEF SweepKnows
<1>6. NoOrphanAfterBoot
  BY <1>2 DEF NoOrphanAfterBoot
<1> QED BY <1>3, <1>4, <1>5, <1>6 DEF AloneInv

\* Where nothing is recorded, started or forgotten, whatever may die.
LEMMA Kept ==
  ASSUME RegistryTypeOK, AloneInv, UNCHANGED <<mem, file, tracked, pending>>,
         \A p \in Pid : os'[p].kind = "child" => os'[p] = os[p],
         \A k \in Kvs : kvs'[k] = kvs[k] \/ (kvs[k] \in Serving /\ kvs'[k] \in Serving)
  PROVE  InStep' /\ Owned' /\ RecordedOrLost' /\ NoOrphanAfterBoot'
<1> USE DEF AloneInv
<1>1. InStep'
  BY DEF InStep, Serving
<1>2. Owned'
  BY OneChildFacts DEF Owned, Serving
<1>3. RecordedOrLost'
  BY DEF RecordedOrLost
<1>4. NoOrphanAfterBoot'
  BY DEF NoOrphanAfterBoot, Orphan, Serving
<1> QED BY <1>1, <1>2, <1>3, <1>4

\* The sweep takes the next entry, and looks whether its process lives.
LEMMA SweepStep ==
  ASSUME Alone, RegistryTypeOK, AloneInv, NEW k \in Kvs, Sweep(k)
  PROVE AloneInv'
<1> USE DEF AloneInv
<1>M. Main \in Stopper
  BY DEF Stopper
<1>1. PICK e \in todo[k] :
        /\ todo' = [todo EXCEPT ![k] = @ \ {e}]
        /\ stop' = [stop EXCEPT ![k][Main] =
                      Call(IF Alive(e.pid) THEN "parent" ELSE "forget", e.svc, e.pid)]
  BY DEF Sweep
<1>2. kvs[k] = "sweep" /\ UNCHANGED <<kvs, mem, tracked, pending, file, os>>
      /\ stop[k][Main].at = "idle"
  BY EntryFacts DEF Sweep
<1>3. /\ todo'[k] = todo[k] \ {e}
      /\ stop'[k][Main].at = (IF Alive(e.pid) THEN "parent" ELSE "forget")
      /\ stop'[k][Main].svc = e.svc /\ stop'[k][Main].pid = e.pid
  BY <1>M, <1>1 DEF RegistryTypeOK, Call
<1>4. e.pid # None /\ file[e.svc] = e.pid /\ e = [svc |-> e.svc, pid |-> e.pid]
  <2>1. e \in Entry
    BY DEF RegistryTypeOK
  <2>2. e = [svc |-> e.svc, pid |-> e.pid]
    BY <2>1 DEF Entry
  <2> QED BY <1>2, <2>2 DEF SweepKnows
<1>5. ASSUME NEW p \in Pid, Orphan(p), ~os[p].lost
      PROVE  [svc |-> os[p].svc, pid |-> p] \in todo'[k] \/ Held(k, p)'
  <2>1. [svc |-> os[p].svc, pid |-> p] \in todo[k]
    BY <1>2, <1>5 DEF SweepKnows, Held
  <2>2. CASE [svc |-> os[p].svc, pid |-> p] = e
    <3>1. os[p].svc = e.svc /\ p = e.pid /\ Alive(e.pid)
      BY <1>5, <2>2 DEF Orphan, Alive
    <3> QED BY <1>2, <1>3, <3>1 DEF Held
  <2> QED BY <1>3, <2>1, <2>2
<1>6. SweepKnows'
  <2> SUFFICES ASSUME NEW l \in Kvs, l = k
               PROVE /\ \A d \in todo'[k] : d.pid # None /\ file'[d.svc] = d.pid
                     /\ stop'[k][Main].pid # None /\ file'[stop'[k][Main].svc] = stop'[k][Main].pid
                     /\ [svc |-> stop'[k][Main].svc, pid |-> stop'[k][Main].pid] \notin todo'[k]
                     /\ \A p \in Pid : Orphan(p)' /\ ~os'[p].lost =>
                          [svc |-> os'[p].svc, pid |-> p] \in todo'[k] \/ Held(k, p)'
    BY DEF SweepKnows, Alone
  <2>1. \A d \in todo'[k] : d.pid # None /\ file'[d.svc] = d.pid
    BY <1>2, <1>3 DEF SweepKnows
  <2>2. \A p \in Pid : Orphan(p)' /\ ~os'[p].lost =>
          [svc |-> os'[p].svc, pid |-> p] \in todo'[k] \/ Held(k, p)'
    BY <1>2, <1>5 DEF Orphan
  <2> QED BY <1>2, <1>3, <1>4, <2>1, <2>2
<1> QED BY <1>2, <1>6, Kept

\* Its checks lose no orphan, and neither signal spares one.
LEMMA CheckStep ==
  ASSUME Alone, RegistryTypeOK, PhaseInv, AloneInv, NEW k \in Kvs, kvs[k] = "sweep",
         CheckParent(k) \/ CheckMarker(k) \/ SendTerm(k) \/ Kill(k, Main)
  PROVE AloneInv'
<1> USE DEF AloneInv
<1> DEFINE c == stop[k][Main]
           n == stop'[k][Main]
<1>M. Main \in Stopper /\ c \in StopState
  BY DEF Stopper, RegistryTypeOK
<1>1. UNCHANGED <<kvs, mem, file, tracked, pending, todo>>
      /\ c.at \in {"parent", "marker", "term", "kill"}
  BY DEF CheckParent, CheckMarker, SendTerm, Kill
<1>2. c.pid \in Pid /\ c.pid # None /\ file[c.svc] = c.pid /\ [svc |-> c.svc, pid |-> c.pid] \notin todo[k]
  BY <1>M, <1>1 DEF SweepKnows, StopState
<1>3. n.at = "idle" \/ (n.svc = c.svc /\ n.pid = c.pid)
  <2>1. ASSUME NEW a, stop' = [stop EXCEPT ![k][Main].at = a] PROVE n.svc = c.svc /\ n.pid = c.pid
    BY <1>M, <2>1 DEF RegistryTypeOK, StopState
  <2>2. CASE stop' = [stop EXCEPT ![k][Main] = Idle]
    BY <1>M, <2>2, EntryFacts DEF RegistryTypeOK
  <2> QED BY <2>1, <2>2 DEF CheckParent, CheckMarker, SendTerm, Kill
<1>4. \A p \in Pid : os'[p].kind = "child" => os'[p] = os[p]
  BY FreeFacts DEF CheckParent, CheckMarker, SendTerm, Kill, RegistryTypeOK
<1>5. ASSUME NEW p \in Pid, Orphan(p)', os'[p] = os[p], Held(k, p) PROVE Held(k, p)'
  <2>1. os[p].kind = "child" /\ os[p].parent = PID1 /\ os[p].svc = c.svc /\ p = c.pid
    BY <1>5 DEF Orphan, Held
  <2>2. n.at \in {"parent", "marker", "term", "kill"} /\ n.svc = c.svc /\ n.pid = c.pid
    <3>1. CASE CheckParent(k)
      <4>1. stop' = [stop EXCEPT ![k][Main].at = "marker"]
        BY <2>1, <3>1 DEF CheckParent
      <4> QED BY <1>M, <4>1 DEF RegistryTypeOK, StopState
    <3>2. CASE CheckMarker(k)
      <4>1. Carries(c.pid, c.svc)
        BY <2>1, OneChildFacts DEF Carries
      <4> QED BY <1>M, <3>2, <4>1 DEF CheckMarker, RegistryTypeOK, StopState
    <3>3. CASE SendTerm(k)
      BY <1>M, <3>3 DEF SendTerm, RegistryTypeOK, StopState
    <3>4. CASE Kill(k, Main)
      <4>1. os'[p] = Free
        BY <2>1, <3>4 DEF Kill, RegistryTypeOK
      <4> QED BY <1>5, <4>1, FreeFacts DEF Orphan
    <3> QED BY <3>1, <3>2, <3>3, <3>4
  <2> QED BY <1>5, <2>1, <2>2 DEF Held
<1>6. \A p \in Pid : Orphan(p)' /\ ~os'[p].lost =>
        [svc |-> os'[p].svc, pid |-> p] \in todo'[k] \/ Held(k, p)'
  <2> SUFFICES ASSUME NEW p \in Pid, Orphan(p)', ~os'[p].lost
               PROVE  [svc |-> os'[p].svc, pid |-> p] \in todo'[k] \/ Held(k, p)'
    OBVIOUS
  <2>1. os'[p] = os[p] /\ Orphan(p)
    BY <1>4 DEF Orphan
  <2>2. [svc |-> os[p].svc, pid |-> p] \in todo[k] \/ Held(k, p)
    BY <2>1 DEF SweepKnows
  <2> QED BY <1>1, <1>5, <2>1, <2>2
<1>7. SweepKnows'
  <2> SUFFICES ASSUME NEW l \in Kvs, l = k
               PROVE /\ \A d \in todo'[k] : d.pid # None /\ file'[d.svc] = d.pid
                     /\ n.at # "idle" =>
                          /\ n.pid # None /\ file'[n.svc] = n.pid
                          /\ [svc |-> n.svc, pid |-> n.pid] \notin todo'[k]
                     /\ \A p \in Pid : Orphan(p)' /\ ~os'[p].lost =>
                          [svc |-> os'[p].svc, pid |-> p] \in todo'[k] \/ Held(k, p)'
    BY DEF SweepKnows, Alone
  <2>1. \A d \in todo'[k] : d.pid # None /\ file'[d.svc] = d.pid
    BY <1>1 DEF SweepKnows
  <2>2. n.at # "idle" => /\ n.pid # None /\ file'[n.svc] = n.pid
                         /\ [svc |-> n.svc, pid |-> n.pid] \notin todo'[k]
    BY <1>1, <1>2, <1>3
  <2> QED BY <1>6, <2>1, <2>2
<1> QED BY <1>1, <1>4, <1>7, Kept

\* What the sweep forgets at last is the entry of no orphan.
LEMMA ForgetSweptStep ==
  ASSUME Alone, RegistryTypeOK, AloneInv, NEW k \in Kvs, ForgetSwept(k)
  PROVE AloneInv'
<1> USE DEF AloneInv
<1> DEFINE s == stop[k][Main].svc
<1>M. Main \in Stopper
  BY DEF Stopper
<1>1. kvs[k] = "sweep" /\ stop[k][Main].at = "forget" /\ forgetPid(k, s)
      /\ UNCHANGED <<kvs, tracked, pending, todo, os>> /\ stop'[k][Main].at = "idle"
  BY <1>M, EntryFacts DEF ForgetSwept, RegistryTypeOK
<1>2. s \in Svc /\ file[s] = stop[k][Main].pid /\ mem[k] = file
      /\ [svc |-> s, pid |-> file[s]] \notin todo[k]
  BY <1>M, <1>1 DEF SweepKnows, InStep, RegistryTypeOK
<1> HIDE DEF s
<1>3. file' = mem'[k] /\ \A t \in Svc \ {s} : file'[t] = file[t]
  BY <1>1, <1>2, Parts, ForgetFacts
<1>4. \A e \in todo[k] : e.pid # None /\ file'[e.svc] = e.pid
  <2> SUFFICES ASSUME NEW e \in todo[k] PROVE e.pid # None /\ file'[e.svc] = e.pid
    OBVIOUS
  <2>1. e.pid # None /\ file[e.svc] = e.pid /\ e.svc \in Svc /\ e = [svc |-> e.svc, pid |-> e.pid]
    <3>1. e \in Entry
      BY DEF RegistryTypeOK
    <3>2. e.svc \in Svc /\ e = [svc |-> e.svc, pid |-> e.pid]
      BY <3>1 DEF Entry
    <3> QED BY <1>1, <3>2 DEF SweepKnows
  <2>2. e.svc # s
    BY <1>2, <2>1
  <2> QED BY <1>3, <2>1, <2>2
<1>5. \A p \in Pid : Orphan(p) /\ ~os[p].lost =>
        [svc |-> os[p].svc, pid |-> p] \in todo[k] /\ file'[os[p].svc] = p
  <2> SUFFICES ASSUME NEW p \in Pid, Orphan(p), ~os[p].lost
               PROVE [svc |-> os[p].svc, pid |-> p] \in todo[k] /\ file'[os[p].svc] = p
    OBVIOUS
  <2>1. [svc |-> os[p].svc, pid |-> p] \in todo[k]
    BY <1>1 DEF SweepKnows, Held
  <2> QED BY <1>4, <2>1
<1>6. \A l \in Kvs : l = k
  BY DEF Alone
<1>7. \A p \in Pid : os[p].kind = "child" => Orphan(p)
  BY <1>1, <1>6, OneChildFacts DEF Owned, Orphan, Serving
<1>8. InStep' /\ Owned' /\ NoOrphanAfterBoot'
  BY <1>1, <1>3, <1>6 DEF InStep, Owned, NoOrphanAfterBoot, Orphan
<1>9. RecordedOrLost'
  BY <1>1, <1>5, <1>7 DEF RecordedOrLost
<1>10. SweepKnows'
  BY <1>1, <1>4, <1>5, <1>6 DEF SweepKnows, Orphan
<1> QED BY <1>8, <1>9, <1>10

\* kvs starts: what it reads is what the file says.
LEMMA BootStep ==
  ASSUME Alone, RegistryTypeOK, PhaseInv, AloneInv, NEW k \in Kvs, Boot(k) \/ Serve(k)
  PROVE AloneInv'
<1> USE DEF AloneInv
<1>1. \A l \in Kvs : l = k
  BY DEF Alone
<1>2. UNCHANGED <<tracked, pending, stop, file, os>> /\ mem'[k] = file
  BY DEF Boot, Serve, InStep, RegistryTypeOK
<1>3. kvs[k] \in {"off", "sweep"} /\ stop[k][Main].at = "idle"
  BY EntryFacts DEF Boot, Serve, PhaseInv, Stopper
<1>4. \A p \in Pid : os[p].kind = "child" =>
        Orphan(p) /\ os[p].svc \in Svc /\ (~os[p].lost => file[os[p].svc] = p)
  <2> SUFFICES ASSUME NEW p \in Pid, os[p].kind = "child"
               PROVE Orphan(p) /\ os[p].svc \in Svc /\ (~os[p].lost => file[os[p].svc] = p)
    OBVIOUS
  <2>1. os[p].parent \notin Kvs
    BY <1>1, <1>3 DEF Owned, Serving
  <2> QED BY <2>1, OneChildFacts DEF Orphan, RecordedOrLost
<1>5. Owned' /\ RecordedOrLost' /\ InStep'
  BY <1>1, <1>2, <1>4, RegistryAssumption DEF Owned, RecordedOrLost, InStep, Orphan
<1>6. CASE Boot(k)
  <2>1. kvs'[k] = "sweep" /\ todo'[k] = Entries(file)
    BY <1>6 DEF Boot, RegistryTypeOK
  <2>2. \A e \in Entries(file) : e.pid # None /\ file[e.svc] = e.pid
    BY DEF Entries
  <2>3. ASSUME NEW p \in Pid, Orphan(p), ~os[p].lost
        PROVE [svc |-> os[p].svc, pid |-> p] \in Entries(file)
    BY <1>4, <2>3, RegistryAssumption DEF Entries, Entry, Orphan
  <2>4. SweepKnows'
    BY <1>1, <1>2, <1>3, <2>1, <2>2, <2>3 DEF SweepKnows, Orphan
  <2>5. NoOrphanAfterBoot'
    BY <1>1, <2>1 DEF NoOrphanAfterBoot
  <2> QED BY <1>5, <2>4, <2>5
<1>7. CASE Serve(k)
  <2>1. kvs[k] = "sweep" /\ todo[k] = {} /\ kvs'[k] = "up"
    BY <1>7 DEF Serve, RegistryTypeOK
  <2>2. \A p \in Pid : Orphan(p) => os[p].lost
    BY <1>3, <2>1 DEF SweepKnows, Held
  <2>3. SweepKnows' /\ NoOrphanAfterBoot'
    BY <1>1, <1>2, <2>1, <2>2 DEF SweepKnows, NoOrphanAfterBoot, Orphan
  <2> QED BY <1>5, <2>3
<1> QED BY <1>6, <1>7

\* Steps of a kvs that serves, as far as they change no record: the plans of a
\* shutdown, the checks of a stop and its last signal.
LEMMA BookStep ==
  ASSUME Alone, RegistryTypeOK, PhaseInv, AloneInv, NEW k \in Kvs,
         \/ Shutdown(k) \/ StopNext(k) \/ FinalSweep(k) \/ FinalNext(k)
         \/ \E x \in Handler, s \in Svc : Ask(k, x, s)
         \/ \E x \in Stopper : \/ StopProc(k, x) \/ ensureDead(k, x)
                               \/ kvs[k] # "sweep" /\ Kill(k, x)
  PROVE AloneInv'
<1>1. UNCHANGED <<mem, file, tracked, pending>>
  BY DEF Shutdown, StopNext, FinalSweep, FinalNext, Ask, StopProc, ensureDead, Kill
<1>2. \A p \in Pid : os'[p].kind = "child" => os'[p] = os[p]
  BY FreeFacts DEF Shutdown, StopNext, FinalSweep, FinalNext, Ask, StopProc, ensureDead, Kill,
                   RegistryTypeOK
<1>3. kvs[k] \in Serving /\ kvs'[k] \in Serving
  <2>1. CASE \/ Shutdown(k) \/ StopNext(k) \/ FinalSweep(k) \/ FinalNext(k)
             \/ \E x \in Handler, s \in Svc : Ask(k, x, s)
    BY <2>1 DEF Shutdown, StopNext, FinalSweep, FinalNext, Ask, Serving, RegistryTypeOK
  <2>2. ASSUME NEW x \in Stopper, StopProc(k, x) \/ ensureDead(k, x) \/ (kvs[k] # "sweep" /\ Kill(k, x))
        PROVE kvs[k] \in Serving /\ kvs'[k] \in Serving
    <3>1. kvs[k] # "off" /\ kvs[k] # "sweep"
      BY <2>2 DEF StopProc, ensureDead, Kill, PhaseInv, Stopper
    <3>2. UNCHANGED kvs
      BY <2>2 DEF StopProc, ensureDead, Kill
    <3> QED BY <3>1, <3>2 DEF Serving, RegistryTypeOK
  <2> QED BY <2>1, <2>2
<1>4. \A l \in Kvs : l = k
  BY DEF Alone
<1>5. SweepKnows'
  BY <1>3, <1>4 DEF SweepKnows, Serving
<1> QED BY <1>1, <1>2, <1>3, <1>4, <1>5, Kept DEF AloneInv

\* A start is followed, and Register records what Process tracks by then.
LEMMA StartStep ==
  ASSUME Alone, RegistryTypeOK, AloneInv, NEW k \in Kvs, NEW s \in Svc, Start(k, s)
  PROVE AloneInv'
<1> USE DEF AloneInv
<1>1. \A l \in Kvs : l = k
  BY DEF Alone
<1>2. kvs[k] \in Serving /\ UNCHANGED <<kvs, mem, todo, file>> /\ ~IsRunning(k, s)
  BY DEF Start, Serving
<1>3. PICK p \in Pid :
        /\ ~Alive(p)
        /\ os' = [os EXCEPT ![p] = [kind |-> "child", svc |-> s, parent |-> k,
                                    env |-> environ[k] \cup {s}, lost |-> FALSE]]
        /\ tracked' = [tracked EXCEPT ![k][s] = p]
  BY DEF Start, HandOut
<1>4. os'[p].kind = "child" /\ os'[p].svc = s /\ os'[p].parent = k /\ ~os'[p].lost
      /\ \A q \in Pid \ {p} : os'[q] = os[q]
  BY <1>3 DEF RegistryTypeOK
<1>5. pending'[k][s] > 0 /\ \A t \in Svc : pending[k][t] > 0 => pending'[k][t] > 0
  <2>1. pending[k] \in [Svc -> Nat]
    BY DEF RegistryTypeOK
  <2>2. pending' = [pending EXCEPT ![k] = [pending[k] EXCEPT ![s] = pending[k][s] + 1]]
    BY DEF Start
  <2> QED BY <2>1, <2>2 DEF RegistryTypeOK
<1>6. tracked'[k][s] = p /\ \A t \in Svc \ {s} : tracked'[k][t] = tracked[k][t]
  <2>1. tracked[k] \in [Svc -> Pid \cup {None}]
    BY DEF RegistryTypeOK, Recorded
  <2>2. tracked' = [tracked EXCEPT ![k] = [tracked[k] EXCEPT ![s] = p]]
    BY <1>3
  <2> QED BY <2>1, <2>2 DEF RegistryTypeOK
<1>7. Owned'
  <2> SUFFICES ASSUME NEW q \in Pid, os'[q].kind = "child", os'[q].parent = k
               PROVE kvs'[k] \in Serving /\ tracked'[k][os'[q].svc] = q
    BY <1>1 DEF Owned
  <2>1. CASE q = p
    BY <1>2, <1>4, <1>6, <2>1
  <2>2. CASE q # p
    <3>1. os'[q] = os[q] /\ tracked[k][os[q].svc] = q /\ os[q].svc \in Svc
      BY <1>4, <2>2, OneChildFacts DEF Owned
    <3>2. os[q].svc # s
      BY <1>2, <3>1, RegistryAssumption DEF IsRunning
    <3> QED BY <1>2, <1>6, <3>1, <3>2
  <2> QED BY <2>1, <2>2
<1>8. RecordedOrLost'
  <2> SUFFICES ASSUME NEW q \in Pid, os'[q].kind = "child", ~os'[q].lost
               PROVE \/ file[os'[q].svc] = q
                     \/ os'[q].parent \in Kvs /\ pending'[os'[q].parent][os'[q].svc] > 0
    BY <1>2 DEF RecordedOrLost
  <2>1. CASE q = p
    BY <1>4, <1>5, <2>1
  <2>2. CASE q # p
    BY <1>1, <1>4, <1>5, <2>2, OneChildFacts DEF RecordedOrLost
  <2> QED BY <2>1, <2>2
<1>9. NoOrphanAfterBoot'
  BY <1>1, <1>2, <1>4, RegistryAssumption DEF NoOrphanAfterBoot, Orphan
<1>10. InStep' /\ SweepKnows'
  BY <1>1, <1>2 DEF InStep, SweepKnows, Serving
<1> QED BY <1>7, <1>8, <1>9, <1>10

\* A registration keeps the invariant of a single kvs.
LEMMA RegisterStep ==
  ASSUME Alone, RegistryTypeOK, PhaseInv, AloneInv, NEW k \in Kvs, NEW s \in Svc, Register(k, s)
  PROVE AloneInv'
<1> USE DEF AloneInv
<1>1. \A l \in Kvs : l = k
  BY DEF Alone
<1>2. kvs[k] \in Serving /\ UNCHANGED <<kvs, tracked, stop, todo, os>> /\ mem[k] = file
  BY DEF Register, PhaseInv, InStep, RegistryTypeOK, Serving
<1>3. tracked[k][s] \in Pid \cup {None}
  BY DEF RegistryTypeOK, Recorded
<1>4. /\ IF tracked[k][s] = None THEN UNCHANGED <<mem, file>>
         ELSE file' = mem'[k] /\ file'[s] = tracked[k][s]
      /\ \A t \in Svc \ {s} : file'[t] = file[t]
      /\ file' = mem'[k]
  BY <1>2, <1>3, Parts, RegisterFacts DEF Register
<1>5. \A t \in Svc \ {s} : pending'[k][t] = pending[k][t]
  <2>1. pending[k] \in [Svc -> Nat]
    BY DEF RegistryTypeOK
  <2>2. pending' = [pending EXCEPT ![k] = [pending[k] EXCEPT ![s] = pending[k][s] - 1]]
    BY DEF Register
  <2> QED BY <2>1, <2>2 DEF RegistryTypeOK
<1>6. RecordedOrLost'
  <2> SUFFICES ASSUME NEW p \in Pid, os[p].kind = "child", ~os[p].lost
               PROVE \/ file'[os[p].svc] = p
                     \/ os[p].parent \in Kvs /\ pending'[os[p].parent][os[p].svc] > 0
    BY <1>2 DEF RecordedOrLost
  <2>1. os[p].parent = k /\ os[p].svc \in Svc /\ tracked[k][os[p].svc] = p
    BY <1>1, <1>2, OneChildFacts DEF NoOrphanAfterBoot, Owned, Orphan, Serving
  <2>2. CASE os[p].svc = s
    BY <1>4, <2>1, <2>2, RegistryAssumption
  <2>3. CASE os[p].svc # s
    BY <1>4, <1>5, <2>1, <2>3 DEF RecordedOrLost
  <2> QED BY <2>2, <2>3
<1>7. InStep' /\ Owned' /\ NoOrphanAfterBoot'
  BY <1>1, <1>2, <1>4 DEF InStep, Owned, NoOrphanAfterBoot, Orphan
<1>8. SweepKnows'
  BY <1>1, <1>2 DEF SweepKnows, Serving
<1> QED BY <1>6, <1>7, <1>8

\* Process.Stop ends what it runs, and tracks nothing then.
LEMMA TerminateStep ==
  ASSUME Alone, RegistryTypeOK, PhaseInv, AloneInv, NEW k \in Kvs, NEW x \in Stopper,
         terminateLocked(k, x)
  PROVE AloneInv'
<1> USE DEF AloneInv
<1> DEFINE s == stop[k][x].svc
<1>1. \A l \in Kvs : l = k
  BY DEF Alone
<1>2. /\ UNCHANGED <<kvs, mem, file, pending, todo>> /\ s \in Svc
      /\ tracked' = [tracked EXCEPT ![k] = [tracked[k] EXCEPT ![s] = None]]
      /\ os' = [os EXCEPT ![tracked[k][s]] = Free] \/ (~IsRunning(k, s) /\ UNCHANGED os)
  BY DEF terminateLocked, RegistryTypeOK
<1>3. kvs[k] \in Serving
  BY DEF terminateLocked, PhaseInv, Stopper, Serving, RegistryTypeOK
<1> HIDE DEF s
<1>4. \A q \in Pid : os'[q].kind = "child" => os'[q] = os[q]
  BY <1>2, FreeFacts DEF RegistryTypeOK
<1>5. ASSUME NEW q \in Pid, os'[q].kind = "child", os'[q].parent = k
      PROVE tracked'[k][os[q].svc] = q
  <2>1. os'[q] = os[q] /\ os[q].svc \in Svc /\ tracked[k][os[q].svc] = q
    BY <1>4, <1>5, OneChildFacts DEF Owned
  <2>2. os[q].svc # s
    <3> SUFFICES ASSUME os[q].svc = s PROVE FALSE
      OBVIOUS
    <3>1. IsRunning(k, s)
      BY <1>5, <2>1, RegistryAssumption DEF IsRunning
    <3>2. os'[q] = Free
      BY <1>2, <2>1, <3>1 DEF RegistryTypeOK
    <3> QED BY <1>5, <3>2, FreeFacts
  <2>3. tracked[k] \in [Svc -> Pid \cup {None}]
    BY DEF RegistryTypeOK, Recorded
  <2>4. [tracked[k] EXCEPT ![s] = None][os[q].svc] = q
    BY <2>1, <2>2, <2>3
  <2> QED BY <1>2, <2>4 DEF RegistryTypeOK
<1>6. Owned'
  BY <1>1, <1>2, <1>3, <1>4, <1>5 DEF Owned
<1>7. RecordedOrLost' /\ NoOrphanAfterBoot'
  BY <1>2, <1>4 DEF RecordedOrLost, NoOrphanAfterBoot, Orphan
<1>8. InStep' /\ SweepKnows'
  BY <1>1, <1>2, <1>3 DEF InStep, SweepKnows, Serving
<1> QED BY <1>6, <1>7, <1>8

\* A removal from the table keeps it.
LEMMA ForgetStep ==
  ASSUME Alone, RegistryTypeOK, PhaseInv, AloneInv, NEW k \in Kvs, NEW x \in Stopper, Forget(k, x)
  PROVE AloneInv'
<1> USE DEF AloneInv
<1> DEFINE s == stop[k][x].svc
<1>1. \A l \in Kvs : l = k
  BY DEF Alone
<1>2. kvs[k] \in Serving /\ UNCHANGED <<kvs, tracked, pending, todo>> /\ mem[k] = file
  BY DEF Forget, PhaseInv, InStep, RegistryTypeOK, Serving
<1>3. s \in Svc /\ forgetPid(k, s)
  BY DEF Forget, RegistryTypeOK
<1> HIDE DEF s
<1>4. /\ file' = mem'[k]
      /\ \A t \in Svc \ {s} : file'[t] = file[t]
  BY <1>2, <1>3, Parts, ForgetFacts
<1>5. ASSUME NEW p \in Pid
      PROVE /\ os'[p].kind = os[p].kind /\ os'[p].svc = os[p].svc
            /\ os'[p].parent = os[p].parent
            /\ os[p].kind = "child" /\ ~os'[p].lost =>
                 ~os[p].lost /\ (os[p].svc # s \/ file[s] # p)
            /\ os[p].lost => os'[p].lost
  <2>1. os[p] \in ProcState
    BY DEF RegistryTypeOK
  <2>2. os'[p] = IF os[p].kind = "child" /\ os[p].svc = s /\ file[s] = p
                 THEN [os[p] EXCEPT !.lost = TRUE] ELSE os[p]
    BY <1>2 DEF Forget, s
  <2> QED BY <2>1, <2>2 DEF ProcState
<1>6. RecordedOrLost'
  <2> SUFFICES ASSUME NEW p \in Pid, os[p].kind = "child", ~os'[p].lost
               PROVE \/ file'[os[p].svc] = p
                     \/ os[p].parent \in Kvs /\ pending[os[p].parent][os[p].svc] > 0
    BY <1>2, <1>5 DEF RecordedOrLost
  <2>1. ~os[p].lost /\ os[p].svc \in Svc /\ (os[p].svc # s \/ file[s] # p)
    BY <1>5, OneChildFacts
  <2> QED BY <1>4, <2>1 DEF RecordedOrLost
<1>7. Owned' /\ NoOrphanAfterBoot'
  BY <1>2, <1>5 DEF Owned, NoOrphanAfterBoot, Orphan
<1>8. InStep' /\ SweepKnows'
  BY <1>1, <1>2, <1>4 DEF InStep, SweepKnows, Serving
<1> QED BY <1>6, <1>7, <1>8

\* kvs ends: its children are orphans from now on.
LEMMA GoneStep ==
  ASSUME Alone, RegistryTypeOK, AloneInv, NEW k \in Kvs, Gone(k)
  PROVE AloneInv'
<1> USE DEF AloneInv
<1>1. \A l \in Kvs : l = k
  BY DEF Alone
<1>2. kvs'[k] = "off" /\ (\A t \in Svc : pending'[k][t] = 0)
      /\ \A x \in Stopper : stop'[k][x].at = "idle"
  BY EntryFacts DEF Gone, RegistryTypeOK
<1>3. ASSUME NEW p \in Pid
      PROVE /\ os'[p].kind = os[p].kind
            /\ os[p].kind = "child" => os'[p].svc = os[p].svc /\ os'[p].parent = PID1
            /\ os[p].kind = "child" /\ ~os'[p].lost =>
                 /\ ~os[p].lost /\ file' = file
                 /\ ~(os[p].parent = k /\ pending[k][os[p].svc] > 0)
  <2>1. CASE os[p].kind # "child"
    BY <2>1 DEF Gone
  <2>2. CASE os[p].kind = "child"
    <3> DEFINE q == IF os[p].parent = k THEN PID1 ELSE os[p].parent
               b == \/ os[p].lost
                    \/ file' # file
                    \/ os[p].parent = k /\ pending[k][os[p].svc] > 0
    <3>1. os'[p] = [os[p] EXCEPT !.parent = q, !.lost = b]
      BY <2>2 DEF Gone
    <3>2. q = PID1
      BY <1>1, <2>2, OneChildFacts
    <3>3. b \in BOOLEAN /\ os[p] \in ProcState /\ Plausible(os[p])
      BY DEF RegistryTypeOK, ProcState
    <3>4. ~b => /\ ~os[p].lost /\ file' = file
                /\ ~(os[p].parent = k /\ pending[k][os[p].svc] > 0)
      OBVIOUS
    <3> HIDE DEF q, b
    <3>5. /\ os'[p].kind = os[p].kind /\ os'[p].svc = os[p].svc
          /\ os'[p].parent = q /\ os'[p].lost = b
      BY <3>1, <3>3 DEF ProcState
    <3> QED BY <2>2, <3>2, <3>4, <3>5
  <2> QED BY <2>1, <2>2
<1>4. Owned' /\ InStep' /\ NoOrphanAfterBoot' /\ SweepKnows'
  BY <1>1, <1>2, <1>3, RegistryAssumption
  DEF Owned, InStep, NoOrphanAfterBoot, SweepKnows
<1>5. RecordedOrLost'
  BY <1>1, <1>3, OneChildFacts DEF RecordedOrLost
<1> QED BY <1>4, <1>5

\* Other processes come and go, and the ones of kvs exit by themselves.
LEMMA OtherStep ==
  ASSUME RegistryTypeOK, AloneInv, NEW p \in Pid, ProcessExits(p) \/ UnrelatedStarts(p)
  PROVE AloneInv'
<1>1. UNCHANGED <<kvs, mem, file, tracked, pending, todo>>
      /\ \A q \in Pid : os'[q].kind = "child" => os'[q] = os[q]
  <2>1. CASE ProcessExits(p)
    BY <2>1, FreeFacts DEF ProcessExits, own, RegistryTypeOK
  <2>2. CASE UnrelatedStarts(p)
    BY <2>2 DEF UnrelatedStarts, RegistryTypeOK, Free
  <2> QED BY <2>1, <2>2
<1>2. \A k \in Kvs : stop'[k][Main].at = stop[k][Main].at /\ stop'[k][Main].svc = stop[k][Main].svc
                     /\ stop'[k][Main].pid = stop[k][Main].pid
  BY HandOutFacts DEF UnrelatedStarts, ProcessExits, own, Stopper
<1>3. \A q \in Pid : Orphan(q)' => Orphan(q) /\ os'[q] = os[q]
  BY <1>1 DEF Orphan
<1>4. \A k \in Kvs, q \in Pid : os'[q] = os[q] /\ Held(k, q) => Held(k, q)'
  BY <1>2 DEF Held
<1>5. SweepKnows'
  BY <1>1, <1>2, <1>3, <1>4 DEF AloneInv, SweepKnows
<1> QED BY <1>1, <1>5, Kept DEF AloneInv

\* Every step of a single kvs keeps it.
LEMMA AloneStep ==
  ASSUME Alone
  PROVE  RegistryTypeOK /\ PhaseInv /\ AloneInv /\ [RegistryNext]_registryVars => AloneInv'
<1> SUFFICES ASSUME RegistryTypeOK, PhaseInv, AloneInv, [RegistryNext]_registryVars PROVE AloneInv'
  OBVIOUS
<1>1. ASSUME NEW k \in Kvs, Boot(k) \/ Serve(k) PROVE AloneInv'
  BY <1>1, BootStep
<1>2. ASSUME NEW k \in Kvs,
             Sweep(k) \/ CheckParent(k) \/ CheckMarker(k) \/ SendTerm(k) \/ ForgetSwept(k)
      PROVE AloneInv'
  <2>1. CheckParent(k) \/ CheckMarker(k) \/ SendTerm(k) => kvs[k] = "sweep"
    BY DEF CheckParent, CheckMarker, SendTerm, PhaseInv, RegistryTypeOK, Stopper, Serving
  <2> QED BY <1>2, <2>1, SweepStep, CheckStep, ForgetSweptStep
<1>3. ASSUME NEW k \in Kvs, Shutdown(k) \/ StopNext(k) \/ FinalSweep(k) \/ FinalNext(k)
      PROVE AloneInv'
  BY <1>3, BookStep
<1>4. ASSUME NEW k \in Kvs, Exit(k) \/ Crash(k) PROVE AloneInv'
  BY <1>4, GoneStep DEF Exit, Crash
<1>5. ASSUME NEW k \in Kvs, NEW s \in Svc,
             Start(k, s) \/ Register(k, s) \/ \E x \in Handler : Ask(k, x, s)
      PROVE AloneInv'
  BY <1>5, StartStep, RegisterStep, BookStep
<1>6. ASSUME NEW k \in Kvs, NEW x \in Stopper,
             StopProc(k, x) \/ terminateLocked(k, x) \/ ensureDead(k, x) \/ Kill(k, x) \/ Forget(k, x)
      PROVE AloneInv'
  <2>1. Kill(k, x) /\ kvs[k] = "sweep" => x = Main
    BY DEF Kill, PhaseInv, Stopper
  <2> QED BY <1>6, <2>1, BookStep, CheckStep, TerminateStep, ForgetStep
<1>7. ASSUME NEW p \in Pid, ProcessExits(p) \/ UnrelatedStarts(p) PROVE AloneInv'
  BY <1>7, OtherStep
<1>8. CASE UNCHANGED registryVars
  BY <1>8
  DEF registryVars, own, AloneInv, InStep, Owned, SweepKnows, Held, RecordedOrLost,
      NoOrphanAfterBoot, Orphan
<1> QED BY <1>1, <1>2, <1>3, <1>4, <1>5, <1>6, <1>7, <1>8, RegistrySteps

\* What a kvs alone in its home leaves behind is in its file, but for what a
\* stop forgot or the end of kvs cut off.
THEOREM OrphansRecorded == ASSUME Alone PROVE RegistrySpec => []RecordedOrLost
<1>1. RegistryTypeOK /\ PhaseInv /\ AloneInv /\ [RegistryNext]_registryVars => AloneInv'
  BY AloneStep
<1>2. AloneInv => RecordedOrLost
  BY DEF AloneInv
<1> QED BY InitAlone, SpecPhases, <1>1, <1>2, PTL DEF RegistrySpec

\* Once it serves, every recorded orphan of its predecessors is gone.
THEOREM OrphansSwept == ASSUME Alone PROVE RegistrySpec => []NoOrphanAfterBoot
<1>1. RegistryTypeOK /\ PhaseInv /\ AloneInv /\ [RegistryNext]_registryVars => AloneInv'
  BY AloneStep
<1>2. AloneInv => NoOrphanAfterBoot
  BY DEF AloneInv
<1> QED BY InitAlone, SpecPhases, <1>1, <1>2, PTL DEF RegistrySpec

=============================================================================
