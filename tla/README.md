# Verification of docker-vscode

docker-vscode builds development containers. Its own programs are three Go
tools under `tools/` and the scripts that put them into images:

- **kas** (`tools/kas/main.go`) is PID 1 of a container: it reaps every child
  and manages the programs of an ini file.
- **kvs** (`tools/kvs`) is the HTTP gateway in the container: it routes
  requests to backends, installs and runs the backends it hosts (VS Code server
  among them), relays tunnels, caches downloads and serves a management page.
- **kss** (`tools/kss/main.go`) relays SSH connections by login name.

This directory holds TLA+ models of the parts of these tools in which several
goroutines, processes or crashes interact, the TLC runs that check them, and
theorems about them that TLAPS has checked.

| module | what it is |
|---|---|
| `Kas` | programs of kas: start, supervise, stop, reconcile, IPC, shutdown |
| `KasReaper` | how the exit of a child reaches the goroutine that supervises it |
| `ExitReport` | what `KasReaper` promises: every exit is reported once |
| `KvsService` | preparation, restart and stop of one hosted service of kvs |
| `KvsRegistry` | the file of managed pids, across crashes and instances of kvs |
| `VscTunnel` | VS Code relay: registration, replacement and loss of tunnels, sessions |
| `VscFlow` | one session of it: queues, back-pressure, the end of both directions |
| `ByteStream` | what `VscFlow` promises: two ordered streams without gaps |
| `ZcdRelay` | ZCode relay: authentication, pairing, kicks, forwarding |
| `ZcdStore` | the state file that relay and management page share, and its delayed write |
| `KvsCache` | one entry of the response cache: body, metadata, backup, rewriting |
| `WsTunnel` | WebSocket proxy: handshake, fallback, the two copy goroutines |
| `WsConn` | a relay's own WebSocket connection: frames, deadlines, close |
| `MC*.tla`, `MC*.cfg` | instances and bounds for TLC |
| `*Proofs.tla` | theorems and proofs about the module of that name; `KasProofs` also about `KasReaper`, `KvsServiceProofs` also about `KvsRegistry` |

`PROJECT.json` maps every definition to the lines it models and lists the runs,
the mutants (one per property: a plausible bug in a mapped definition that makes
TLC report the property), the hazards, the findings and the theorems.

## 1. Inventory

For each part: its state, its operations, what makes it hard, and what it has
to guarantee.

### kas

**Programs** (`main.go` 89-165, 445-964, 1072-1234, 1547-1610) — *modelled: `Kas`.*
State: `progs` (parsed file), `procs` (name → `runningProc`), `ranOnce` and its
marker files, the channels `depCh` and `hupCh` with room for one token, and in
each `runningProc` the child, `done`, `stopped`, `tries`. Operations: `start`,
`spawn`, `supervise` with its retry, `stop`/`terminate`, `reconcile`, the IPC
handlers, `shutdown`. Goroutines: main loop, one supervise per incarnation, the
IPC goroutine, a stop goroutine per stopped program, the signal goroutine. They
share the maps under one mutex but decide outside it; `rp.cmd` is shared without
a lock. It has to guarantee: no program runs twice; every running child is
tracked; a stop returns and is not undone; a reload leaves exactly what the file
says; a once program runs once and before those that depend on it; nothing
survives kas.

**Exit delivery** (`main.go` 167-220, 544-604) — *modelled: `KasReaper`.* State:
`reapTable` (pid → channel), `waitCh` with room for one status. `Wait4(-1)`
collects managed children and orphans alike; `spawn` registers a child only after
the fork, so a child may be reaped before anybody waits for it, and supervise
probes every two seconds. It has to guarantee: every exit is reported once and
truthfully, the reaper never blocks, no zombie stays, no table entry stays.

**Ini parsing, shell splitting, command line; output pumps, users, socket
clients, ps** — text and I/O without concurrent state; not modelled. `applyKV`
is run over a Go map in random order and has settings that depend on the order
(section 2).

### kvs

**Hosted services** (`service.go` 34-104, 141-417, 1032-1069, 1208-1237,
`main.go` 260-343, 630-700) — *modelled: `KvsService`.* State: `ServiceState`
(preparing, done, err), the configuration, the tracked process, `bin_home` and
the `__once__` marker on disk. The first request begins a preparation in a
goroutine (probe, download, extract, once_shell, init_shell, start); restart,
apply hook and stop reset the state without stopping it. It has to guarantee:
one preparation at a time, requests are proxied only to what is ready, nobody
waits for ever, the command runs once, once_shell succeeds before init_shell.

**Registry of managed pids** (`service.go` 769-973, 1208-1262) — *modelled:
`KvsRegistry`.* State: `pids` and its file `kvs-svc.json`, the marker in the
environment of a child, `Process.proc`. Operations: load and sweep at the start,
register, forget, `ensureDead`, `StopOne`, `StopAll`. kvs may be killed between
any two steps, several kvs may share a home, and pids are reused, also between the
look at a marker and the signals that follow it by number. It has to guarantee:
what a dead kvs left is found and killed by the next one, and nothing else is
killed, as far as checks by number can guarantee that.

**Child processes** (`proc.go`) — *partly, in `KvsRegistry`.* `Process` tracks
one child in a session of its own; `terminateLocked` signals the wrapper first,
then the group, then kills the group. Hard: a wrapper that respawns its children,
a wrapper that is reaped while its group lives on, a pid that is recycled.
`KvsRegistry` has the check that the child has not been reaped and then the signals
of the whole escalation as one step, which may meet another process by then.

**VS Code relay, tunnels** (`vscrelay.go` 85-233, 364-510, 529-554, 577-677,
800-915) — *modelled: `VscTunnel`.* State: tunnels by token, channels by device,
sessions per tunnel and their count. Workers register (a second one with the same
token replaces the first), are probed, and die; clients open sessions; the manager
forgets tunnels; a tunnel without a channel keeps its token for a grace period.
Hard: a registration checks, upgrades without the lock, unlinks its predecessor
and checks again; `dropChannel` of a replaced channel walks the sessions of the
tunnel, not its own; a session that was routed may be registered after its channel
died. It has to guarantee: a worker that serves can be found; a device has one
channel; the count of sessions is their number; sessions do not outlive their
channel.

**VS Code relay, bytes of a session** (`vscrelay.go` 235-362, 512-609, 684-824) —
*modelled: `VscFlow`.* State: per session a staging queue with `paused` and
`peerHold`, per channel the bytes in flight. Four goroutines (the channel's
reader, the session's writer and reader, whoever ends the session) sleep on two
condition variables. Hard: pause and resume of one session are sent by two
goroutines outside the lock; every change must wake everyone who waits for it;
the 502 of a session that got no answer must not follow an answer. It has to
guarantee: order, no gap, caps, and that both goroutines end.

**ZCode relay** (`zcdrelay.go` 40-120, 526-969) — *modelled: `ZcdRelay`.* State:
connections with role, id and authentication, one desktop and its remote controls
per device id, the auth timers. Hard: `kick` and `sendLocked` release the lock in
the middle of an update, a second registration or attempt changes the id of a
connection that is being authenticated, the timer races with the answer. It has to guarantee: data reaches
only the peers of the pair; a closed connection is in no table; both sides learn
that they are paired.

**Store of cards, notes, settings and devices** (`zcdrelay.go` 120-525,
`manager.go` 1220-1699) — *modelled: `ZcdStore`.* State: the maps in memory with
`dirty`, the goroutine that writes them at most once a second, the file. Handlers
look a card up in several holds of the lock. kvs may be signalled, killed or
restarted. It has to guarantee: the index of devices agrees with the devices; an
edit reaches the file; an orderly exit loses no edit.

**WebSocket proxy** (`wsproxy.go`) — *modelled: `WsTunnel`.* Handshake with the
backend, which may fall back to the standard proxy; two copy goroutines with a
read deadline that tells silence and a write deadline that tells a receiver which
does not read. It has to guarantee: one answer; bytes in order and complete when
a direction ended cleanly; an error of one direction ends both.

**WebSocket connection of the relays** (`wsconn.go`) — *modelled: `WsConn`.* A
reader and several senders share a mutex and a deadline that is moved on only now
and then; nobody looks at the error of a write.

**Response cache** (`cache.go`, `cacherec.go`, `cachehdr.go`) — *modelled:
`KvsCache`.* An entry is a body file and a metadata file, each replaced
atomically, not both together and without a lock; rewriting rules are applied when
a body is stored or on each answer. It has to guarantee: a HIT repeats what the
MISS that wrote it answered; entries are not mixed from two requests unless those
overlapped.

**Server and login** (`server.go`, `main.go`) — cookies `hash.ts.salt` with
sliding renewal; a pure check per request, not modelled.

**Backends, transport, agents, JSON head** (`backend.go`, `transport.go`,
`vagent.go`, `jsonhead.go`) — request rewriting; **configuration** (`config.go`)
— parsing and defaults; **management API** (`manager.go`) — handlers over the
parts above; **VS Code assets, S3 mirror, statistics, help** — transfers and
text. Pure functions of interest among them (route gates, cookie merge, version
overrides) may be checked against reference definitions; the rest is I/O.

### kss and the images

**kss** — per connection two request pumps, a pump per channel and direction,
and a context that is cancelled when either side ends. Not modelled: the next
candidate, since a channel is to be closed on one side exactly when the other is
done, and no goroutine may outlive the connection. **Scripts, nginx configuration, browser scripts** — run once; no
state machine.

### How the parts interact

kas starts kvs (a program of its file) and sees it as a child that may exit;
kvs starts its services as children of its own, in sessions kas does not see,
and when kvs dies they are reparented to PID 1, which is kas: `KasReaper` has
them as orphans, `KvsRegistry` as processes whose parent is `PID1`. Inside kvs
the HTTP handlers call `ServiceState`, `PrepareService` and the `ServiceManager`;
`KvsService` is the one service seen by requests, `KvsRegistry` is all services
seen by the file. `ZcdRelay` and `ZcdStore` share the device records: a
registration is a step of both, and each model keeps of the other what it reads
(`bySid` and `byMid` occur in both). `VscFlow` is one session of a tunnel of
`VscTunnel`: it takes from there that `dropChannel` ends the session, and gives
that `endSession` closes the client. `WsConn` is the connection under the two
relays, whose models take a write as one step that succeeds or fails. The proxy
and the cache share only configuration with the rest.

## 2. Plan

Done, in this order: `KasReaper` with `ExitReport`, `Kas`, `KvsService`,
`KvsRegistry`, `VscTunnel`, `VscFlow` with `ByteStream`, `ZcdStore`, `ZcdRelay`,
`KvsCache`, `WsTunnel`, `WsConn`, each with its run, and then the proofs of
everything that the passing runs check and that is not liveness (section 5). What
is left, most valuable first:

1. **KssChannel**: per SSH channel two copy directions, the request pumps and the
   cancelled context of `tools/kss/main.go`; a channel is closed on one side
   exactly when the other is done.
2. **KvsProc**: `proc.go` 284-385, one wrapper that respawns, two group members,
   pid reuse, as a refinement of the single step `terminateLocked` of
   `KvsRegistry`.
3. **KvsText**: pure functions in one module, checked against reference
   definitions over bounded inputs: `applyKV` in every order of its keys,
   `validateHashedToken` at its boundaries, `applyUpstreamCookies`, `splitQueryGate`
   and route choice, the first-key rule of `jsonhead.go`.

A run answers one question, and the number of runs stays small so that all of it
is checked again on every change. Behaviour that contradicts a comment is stated
as a definition beside the properties of its module (section 6) rather than kept
as a run; one such run, `halves`, is kept because the module has no other.

## 3. Models and code

### KasReaper, ExitReport

| code | model |
|---|---|
| `cmd.Start`, `reaperRegister`, `go supervise` | `ForkChild`, `ReaperRegister`, `StartSupervise` |
| `cmd.Start` fails, the 127 sent on `waitCh` | `ForkFails`, `SendFailed` |
| `reaper`: `Wait4`, lookup and delete, send | `Wait4`, `Lookup`, `Send` |
| `supervise`: receive, probe, `reaperUnregister` | `Receive`, `ProbeVanished`, `ProbeNoProcess`, `ReaperUnregister` |
| the kernel | `Fork` (its pid), `Reparent`, `Exit` |

`PidFd` says whether `Process.Signal(0)` addresses the process or the number
(both occur, depending on Go and kernel); `Reuse` whether the kernel hands a
number out again while kas still refers to it. `ExitReport` says what supervise
relies on: a report follows the exit, is made once, and is the child's own
status or "vanished". Where `Kas` has an operator of the same meaning, that of
`KasReaper` has another name (`ReaperInit`, `ForkChild` for `CmdStart`), since one
module holds the proofs about both; so do `KvsRegistry` and `KvsService`.

### Kas

| code | model |
|---|---|
| `start` | `AlreadyRunning`, `StartFresh`, called by `MainStart`, `IpcStart` |
| `spawn` | `CmdStart`, `CmdStartFails`, `EmptyCommand`, `GoSupervise` |
| `supervise` | `Notice`, `CloseDone`, `RecordRan`, `markRanOnce`, `SignalDeps`, `Decide`, `GiveUp`, `Retry` |
| `stop`, `terminate` | `StopLookup`, `StopMark`, `Signal`, `NothingToSignal`, `CloseForWaiters`, `StopReturns` |
| `reconcile` | `Load`, `StartStopJobs`, `DeleteRemoved`, `Choose`, `MainStart`, `MainSpawned`, `ReconcileEnds` |
| main loop | `InitialLoad`, `ReceiveHup`, `ReceiveDep` |
| IPC | `Reload`, `handleStart`, `handleStop`, `handleRestart`, `IpcStopped`, `IpcStart`, `IpcSpawned` |
| `shutdown` | `Shutdown`, stops of the caller `"shut"`, `ExitKas` |
| restart of the container | `Reboot`: the marker files survive |

A step is what one goroutine does under one hold of the mutex, or between two
operations others can see (`close(done)`, a channel operation, `rp.cmd`).
`Inst` are the `runningProc` values, never reused. Abstractions: the check of
the jobs and of the dependencies of a program is one step; SIGTERM and the
SIGKILL after `stopwaitsecs` are one step followed by the death of the child;
delays are left out, so a sleep may end at any time; the edit of the file and
the request to reload are one step; `lastProgs` equals `progs` whenever both
are read; `ps` only reads. The field `rest` of a configuration stands for all
fields that only `configChanged` looks at. The unlocked `rp.cmd` appears as two
steps (the child runs, `rp.cmd` is set). How an exit gets to supervise is left
open here (`Notice` some time after it), which `KasReaper` justifies.

### KvsService

| code | model |
|---|---|
| `Begin`, `Finish`, `Reset`, `Result`, `Active` | operators on `st`; one step each |
| handler of `/` (`main.go` 630-700) | `Dispatch`, `Result`, `Begin`, `BeginRefused`, `CheckActive`, `Proxy`, `NotReady` |
| `PrepareService`, `runShellScripts`, `StartProc` | `Probe`, `CheckDeployed`, `Download`, `Extract`, `SkipOnce`, `OnceShell`, `WriteMarker`, `InitShell`, `StartProc`, `Finish` |
| `/__restart`, apply hook, `/__manager/stop` | `Restart`, `ManagerStop`, `StopOne`, `Reset`, `ReportInitError` |
| backends | `ChildUp`, `ChildExits`, `ExternalChanges` |

One service stands for all: they share only the registry. Its address is a TCP
address; configurations without `bin_home`, health probe or download are left
out (they skip steps). `Process.Stop` and the check before `Process.Start` hold
one lock and are one step; the test of the marker and the script it guards are
one step. `gen`, `early` and `onceRan` are history: they count resets, note that
a `Finish` ended a preparation of somebody else, and remember real successes.

### KvsRegistry

| code | model |
|---|---|
| `SetHomeDir`, serving | `Boot`, `Serve` |
| `SweepOrphans` | for each entry `Sweep` (the next one; `procAlive`), `CheckParent`, `CheckMarker`, `ForgetSwept` |
| `killPID` | `SendTerm`, which a process may survive, `Kill` |
| `StartProc` | `Start` (marker and child), `Register` |
| `StopOne` | `Ask` (reads the pid), `StopProc` (runs it, and takes the lock), `terminateLocked`, `ensureDead` |
| `ensureDead` | `ensureDead` (the marker), `Kill`, `Forget` |
| `StopAll` | `Shutdown`, `StopNext`, `FinalSweep`, `FinalNext` |
| `savePidsLocked` | `Save`; a kvs that dies in it leaves an empty file (`Gone`) |
| end of kvs | `Exit`, `Crash`: children go to PID 1 |

`Kvs` are the instances that share a home; one that is gone may boot again, so
generations need no second element. Every check and every signal is a step of its
own and goes by number; between any two of them the process may exit and its
number may be given to another one, of kvs or not. A sweep has its place and the
entry in hand in the record of `Main`, like the stops. Abstractions: zombies are
reaped at once; SIGKILL works; the signals that `terminateLocked` sends to one group
are one step; failed starts leave nothing; `environ` grows as `os.Setenv` makes it
grow. `tracked` is the pid in `Process.proc`. Two parts are history: `lost`, the
record of a live process was dropped, and `reused`, the number that a call has
checked and will signal has been handed out again since the check.

### VscTunnel

| code | model |
|---|---|
| `handleWorker` | `CheckWorker` (first hold of the lock), `UpgradeFails`, `Replace` (unlinks the predecessor), `Replaced` (its `dropChannel` is over), `Enter` (checks again; gives way or serves) |
| `probeLoop`, `onControl` | `ProbeTick`, `ProbeAnswered`, `ProbeTimeout` |
| `dropChannel` | `BeginDrop` by whoever comes first (`ChannelBreaks`, `ProbeTimeout`, `DropReplaced`, `DropForgotten`), `Unlink`, `EndNext` (a session a step), `Dropped` |
| `handleClient`, `readLoop` of the session, `endSession` | `Route`, `Open`, `SendHead`, `SessionEnds`, `EndSession` |
| `sweepLocked`, grace period, manager | `sweepLocked`, `GraceEnds`, `Poll`, `forgetTunnel` |

`c` names a connection, its channel and the tunnel it creates. `deadSince` is the
time zero, a time within the grace period or one past it. Probes count up to
`MaxMiss`. The third field of a worker's request and the status page are left out.

### VscFlow, ByteStream

| code | model |
|---|---|
| `readLoop` of the channel, `onControl`, `onData`, `push` | `OnData`, `Push`, `SendPause`, `Overflow`, `OnClose`, `setPeerHold`, `Ended` |
| `writeLoop` | `Dequeue`, `AwaitChunk`, `WriteClient`, `WriteFails`, `SendResume` |
| `readLoop` of the session, `writeSession` | `RebuildHead`, `HeadFails`, `AwaitRelease`, `ReadClient`, `ReadFails`, `SendClose`, `Gate`, `WriteSession`; `OtherEnters`, `OtherLeaves` are other sessions at the gate |
| `endSession` | `TakeOut` within the step of its caller, then `MarkDead`, `CloseClient` |
| `dropChannel` | `CloseSocket`, `DropSession`, `WakeGate`, `ReaderStops` |

A chunk has size one, so high water and cap are numbers of chunks. A condition
variable is a control point `asleep` (or `gated`) that a Broadcast leaves.
`ByteStream` sees what the senders handed over and what the receivers got.

### ZcdRelay

| code | model |
|---|---|
| `handleConnection` | `Open`, `onMessage` frame by frame, `ReadFails`, `ClientCloses` |
| `onRegisterInit`, `onAuthInit`, `onAuthResponse` | `Register`, `Adopt`; `AuthInit`; `AuthResponse`, `Settle`, `Authenticate`, `Resettle`, `AuthAck` |
| `kick` | `KickMark`, `KickDrop`: the lock is released in between |
| `pairStatusLocked`, `notifyPeer`, queries | `pairStatus`, `TellPeer`, `onPairStatusQuery`, `Answer` |
| `detach`, auth timer | `detach`, `StatusLeft`; `TimerFires`, `TimerDetaches`, `TimerTells`, `TimerCloses` |
| forwarding | `Targets`: to whom `onData` would send |
| `managerDeleteApp` on a device | `Forget` |

A proof is right or the attempt fails; every message is one step that the
recipient sees. `heard` keeps the peers a connection was last told of.

### ZcdStore

| code | model |
|---|---|
| `managerVisit`, `managerNoteSet`, `managerDeleteApp`, `managerAddApp`, `mgrAddBuiltIn`, `managerSaveTags`, `managerSaveOrder`, tools | an action per hold of the lock: look-ups (`Find`, `Lookup`), then `appSave`, `noteSet`, `appDelete`, `remove`, `settingSave`, `settingDelete` |
| `onRegisterInit`, `upsert`, `touch` | `Lookup`, `Upsert`, `Ack`, `touch` |
| `requestFlush`, `flushLoop`, `flush`, `FlushNow` | `notify` (room for one), `Wake`, `Flush`, `Written`, `NotWritten`, `FlushNow` |
| signal, shutdown with its deadline, kill, restart | `Drained`, `Exit`, `Restart` with `zcdLoadStore` |

### KvsCache

| code | model |
|---|---|
| `HandleCache`, `handleCachedCache` | `Arrive`, `Lookup`, `Miss`, `Fetch`, `FetchFails` |
| `streamToTemp`, `backupOriginalOnce`, `storeEntry`, `writeCacheMeta` | `LookForBackup`, `WriteBody`, one step per file; `WriteFails` |
| `sedPipeline`, `sedApply`, `gzipEncode`, `applyEntryFraming` | operators of the same names on texts |
| `serveFromCache`, `sedServeFromMeta` | `Open`, `HitAnswer` |
| reload of the rules, crash, cleared directory | `Reload`, `Crash`, `Purge` |

A text is the upstream's version, the rules whose old text occurs in it, and the
replacements made in it; bytes are a text and the encodings around it. `Order` is
the order of the configured rules; `sedApply` goes through it and applies those
that a plan has chosen, so a plan is a set of rules.

### WsTunnel, WsConn

| code | model |
|---|---|
| `handleWSUpgrade`, `wsUpgradeHandler` | `dial`, `WriteRequest`, `NoAnswer`, `Refused`, `Accepted`, `Hijack`, `writeUpgradeResponse`, `DrainDown`, `DrainUp`, `ServeNext` |
| `copyTunnel` | `Read`, `Write`, `EOF`, `ReadTimeout`, `WriteTimeout`, `Broken`, `Judge` |
| `runWSTunnel`, `closeWrite` | `Report`, `FirstEnd`, `SecondEnd` |
| `writeFrame` | `Lock`, `WriteWhole` or `WriteHead` and `WriteRest`, `WriteFails` |
| `wsReadMessage`, `readFrame` | `ReadMessage`, `Pong`, `Echo`, `ReadError` |
| `Close`, `Abort` | `Send` of a close frame and `close`; `Abort` |

Deadlines are counted in ticks; a goroutine whose deadline has passed acts before
the next tick. The interval of `WsConn` is half a write timeout, which is what
`writeFrame` compares with.

## 4. Runs

| run | instance | states | shows |
|---|---|---|---|
| `reaper` | 2 children, 1 orphan, 3 pids, no reuse | 22,512 | `NoStaleEntry`; the steps are those of `ExitReport`; `NoZombieStays` |
| `ipc` | 1 program, files that run it, change it, leave it empty, drop it or cannot be read; 3 incarnations; a reload, an IPC request, SIGTERM | 161,443 | `LiveIsTracked`, `OneCopy`, `PanicNeedsEarlyClose`, `StopIsAnswered`, `ReloadIsTaken` |
| `once` | a once program and one that waits for it, 5 files, 5 incarnations; a reload, a fault, a container restart | 149,713 | `NothingStrays`, `DepsRunFirst`, `OnceRunsOnce`, `DependentStarts`, `KeptUp` |
| `service` | 1 request at a time, 2 preparations, 2 children; a restart or stop, a fault | 232,652 | `PreparingCovers`, `NoStuckLoading`, `OneChild`, `OnceFirst`, `Settles` |
| `registry` | 1 kvs over 3 generations, 2 services, 2 pids, 1 stop handler; 2 starts, 2 crashes, an unrelated process | 641,515 | `RecordedOrLost`, `NoOrphanAfterBoot`, `OnlyReuseMisleads` |
| `tunnel` | 3 worker connections for 2 tokens and 2 devices, 1 client, 2 interferences | 496,850 | `NoStrayChannel`, `OneChannelPerDevice`, `CountMatches`, `LiveIsCovered`, `SessionsEnd` |
| `flow` | 3 chunks down, 2 up, high water and cap 2, channel limit 1, link of 1 frame, 1 interference | 110,926 | `PauseIsOwed`, `ErrorStandsAlone`, `IsByteStream`, `GoroutinesEnd` |
| `store` | 2 devices, 1 mid, 2 cards, 1 setting, 2 requests at a time, 3 in all, 1 fault | 2,126,636 | `IndexAgrees`, `ExitKeepsEdits`, `EditsReachDisk` |
| `relay` | 3 connections, 1 id, 2 machines, 1 slow client, 1 registration, query or removal | 453,087 | `DataStaysInPair` (for one id its part about machines), `GhostNeedsTimer`, `BothLearn` |
| `cache` | 3 requests, 2 hosts, 2 rules that meddle with each other, 5 answers, a reload or failure | 1,596,665 | `HitRepeatsMiss`, `MixNeedsOverlap` |
| `upgrade` | 2 chunks down, 1 up, window and grace of 1 tick, 1 failure | 524,129 | `BytesIntact`, `EndIsShared` |
| `halves` | 2 senders, a reader, 3 frames out, 1 in, 1 loss | | violates `FramesAreWhole` (section 6) |

Type correctness is proved for every module with state but `WsConn`, whose only run
is the one that ends in a violation. Deadlock checking is off because
every model stops by itself: budgets run out, kas exits, an idle service waits.

**Why the bounds suffice to be interesting.** `Budget` (in `KvsRegistry`: `Limit`) bounds what
the environment does, not what the program does about it. In `ipc` one event of each
kind meets in all orders; it has no crash, since its safety properties are proved
for any number of crashes and its liveness properties are about requests. In
`once` a reload, a crash and a container restart meet. One reset is what it takes
for an outdated preparation to run beside the current one; two preparations of
the same reset would already break `PreparingCovers`. Two crashes let a sweep be
cut off and repeated. Three workers are the least for a registration that
overtakes one which is replacing another; two tokens and devices let them meet in
one and differ in the other. In `flow` a cap equal to the high water makes one
chunk too many end the session, and three chunks drain and refill the queue. Three
connections to one id are a pair and a newcomer that kicks. `store` has two requests
that overlap and one that follows a restart. In `cache` two requests that miss
together and one that hits, under two rules of which one depends on the request.
In `upgrade` the direction with two chunks has one left when the other peer
is silent. `cache` declares symmetry of requests and of hosts, `registry` of pids and
of services; neither checks liveness, and the step property `OnlyReuseMisleads` is
symmetric itself. `registry` has one instance, so that of `OnlyReuseMisleads` it
checks what concerns its own and earlier children and unrelated processes; that
the sweep also spares the children of another live kvs is left to the theorem.

**Properties that leave IPC out.** `NothingStrays`, `DepsRunFirst`,
`OnceRunsOnce` and `KeptUp` are about what kas does by itself; `kas start` may
rightly start what autostart has switched off, and section 6 says what IPC
does to them beyond that.

**Fairness.** `Kas`: every goroutine that can take a step takes one in the end
(Go's scheduler), a sleep ends, and a signalled child dies, as SIGKILL follows
SIGTERM. Nobody is obliged to send a request, to crash or to let `cmd.Start`
fail. `KasReaper`: the reaper, spawn and supervise run; no process must exit.
`KvsService`: downloads and scripts end, handlers run, and somebody who was
shown the loading page asks again, since `loading.html` reloads every five
seconds; without this last assumption a service nobody asks for may remain
unprepared, as it should. `VscTunnel`: handlers and teardowns that have begun go
on; no worker or client must come or leave. `VscFlow`: the relay's goroutines run,
the client takes what it is sent (else `writeLoop` blocks in the kernel, rightly),
the worker reads its channel at all times (its reader is a loop of its own) and
other sessions finish their writes. `ZcdRelay`: readers serve what they have begun.
`ZcdStore`: `flushLoop` runs. `WsTunnel`: goroutines run; a peer need neither read
nor send, which is what the deadlines are for. `KvsRegistry`, `KvsCache` and
`WsConn` have safety properties only.

## 5. Theorems

Everything below holds for all values of the constants that satisfy the named
ASSUME of the module, so for every number of programs, incarnations, goroutines,
pids and events.

**`KasProofs`.** `TypeCorrect`, `ChildrenTracked` (`LiveIsTracked`),
`NoSecondCopy` (`OneCopy`), `PanicCause` (`PanicNeedsEarlyClose`), all from
`SpecIInv`: `TypeOK`, `PhaseInv`, `OwnerInv`, `NameInv`, `StopInv` and
`PanicNeedsEarlyClose` are inductive together. The heart is `OwnerInv`: an
incarnation whose `done` is open owns the entry of its program, or kas let go
of it. It is stronger than `LiveIsTracked`, which fails to be inductive because
a child that is not running may be about to run, and the takeover of an entry
looks at `done`, not at the child; `PhaseInv` ties the two together (a running
child means an open `done` or a lost incarnation). Three theorems assume `ByItself`,
no requests over IPC, since an operator may start what the configuration does not
want. `NoneStrays` (`NothingStrays`) follows a reload: between `Load` and the end of
the stops every stray program that is alive has a stop that looks it up or waits for
its present incarnation (`ToStop`, `StrayInv`), although supervise may replace that
one meanwhile. `DepsFirst` (`DepsRunFirst`) assumes that programs keep their type
over all files (`FixedTypes`); a retry does not ask for its dependencies again, and
need not, because `ranOnce` only grows. `OnceIsOnce` (`OnceRunsOnce`) assumes also
that a once program stays configured and has no `autorestart` (`OnceStays`;
`main.go` 369-371 switches it off where `type=once` is read, and an `autorestart`
line after it switches it on again): then the entry of a once program keeps naming
its only incarnation.

**`KasProofs`, about `KasReaper`.** `ReaperTypeCorrect`; `NeverBlocks`: with or
without reuse of pids the reaper never waits on a full channel, from `ForkInv`,
`EntryInv` and `SendInv` (a status is under way at most once per incarnation, and an
entry means that none has been sent). `ImplementsReports`: without reuse every step is
a step of `ExitReport` or a stutter, and `NoneStale` (`NoStaleEntry`) holds with
reuse too; `OwnInv` says that what is under way to an
incarnation is its own status. With reuse this is false: the entry of a child may
then receive the status of an earlier process with its number.

**`KvsServiceProofs`.** `TypeCorrect`, `Covered` (`PreparingCovers`),
`NeverStuck` (`NoStuckLoading`), `SingleChild` (`OneChild`), `OnceBeforeInit`
(`OnceFirst`), from `SpecIInv`. Needed besides the properties themselves:
`GenInv` (no preparation is ahead of the resets, so a reset makes none of them
current) and `MarkerInv` (the marker is written after a success only).

**`KvsServiceProofs`, about `KvsRegistry`.** `RegistryTypeCorrect` and `ChecksMislead`
(`OnlyReuseMisleads`) for any number of instances in one home, any reuse of numbers
and any interleaving of checks, exits and signals. `PhaseInv` says which calls a
kvs can have under way before it serves and after, `AimInv` that the process with
the number a call aims at is still as the call saw it (its own child; an orphan; a
child with the marker) unless it is gone or the number was handed out since. A
check alone would not be inductive: its results hold on because a child keeps its
environment, and its parent unless that is a kvs that ends. `OrphansRecorded`
(`RecordedOrLost`) and `OrphansSwept` (`NoOrphanAfterBoot`) assume `Alone`, one
kvs at a time, since two instances overwrite each other's file. Their invariant
adds `InStep` (memory and file agree), `Owned` (`Process` tracks every child of
a live kvs) and `SweepKnows` (every recorded orphan is an entry the sweep still has
before it or the one it has in hand and has not killed yet, and what it will forget
is no other's entry).

**`VscTunnelProofs`.** `TypeCorrect`, `ChannelsAreFound` (`NoStrayChannel`),
`DevicesAreUnique` (`OneChannelPerDevice`), `SessionsAreCounted` (`CountMatches`)
and `SessionsAreCollected` (`LiveIsCovered`) for any number of connections, tokens,
devices and limits. `SpecIInv` adds `WorkerInv` (how far a handler is and how far
its channel is agree; what is about to be replaced belongs to the same token),
`TableInv` (a tunnel and the channel it names agree on token and device) and
`ClientInv` (a session's channel served the tunnel it was routed to).
`CountMatches` is inductive with these, since `endSession` takes a session out of
the map and the count under one hold of the lock, whoever calls it.

**`VscFlowProofs`.** For any limits and any amount of data: `TypeCorrect`,
`PauseOwed` (`PauseIsOwed`), `ErrorAlone` (`ErrorStandsAlone`), `NobodySleeps`
(`NoLostWakeup`: writeLoop and readLoop never sleep through the change they wait
for), `FlightIsCounted` (`PendIsExact`), and `ImplementsStreams`: the steps of a
session are those of `ByteStream`, the safety half of `IsByteStream`. The argument
follows the chunks: `InOrder(s, a, b)` says that the data frames in `s` are
exactly `a + 1 .. b` in that order, with control frames anywhere between them.
`UpInv` and `DownInv` give each of the queues its interval (the client's bytes:
`link`; the worker's: `wire`, then what the reader holds, `queue`, what the writer
holds), so that the intervals meet and the next chunk delivered is the next one
sent. Both hold only while nothing has been cut: a closed channel empties its
socket, and then nothing more is delivered from it. Five lemmas about sequences
say that appending and taking frames keeps `InOrder`. `EnderInv` and `AnswerInv`
say how far `endSession` is and that `wrote`, once set, decides about the 502 for
good.

**`ZcdStoreProofs`.** `TypeCorrect`, `IndexIsRight` (`IndexAgrees`) and `EditsKept`
(`ExitKeepsEdits`) for any number of devices, cards and concurrent requests. A
registration reads the index under one hold of the lock and writes under another, so
`UpsertInv` says what must still be true at the write: the device has the mid it is
about to get or none, and two registrations of a device agree about it. `CleanInv`
(a store that is not dirty is in the file) and `QuietInv` (a complete drain leaves no
manager request at work) give `FlushedInv`, that nothing changes the store between
the last flush and the exit.

**`WsTunnelProofs`.** `TypeCorrect` and `Intact` (`BytesIntact`) for any windows and
any amount of data. `ToldInv`: nothing is forwarded before the one answer 101.
`DataInv` says where the chunks read from a source are: those in `got` and then the
one in the pipe, or before that those still `ahead` in the reader's buffer, are
1 .. `read`; bytes are lost only on the way to an ending with an error.

**`ZcdRelayProofs`.** For any number of connections and devices, whatever opens a
connection and however late a timer is: `TypeCorrect`, `StaysInPair`
(`DataStaysInPair`) and `GhostsAreTimers` (`GhostNeedsTimer`). Since `kick` lets the
lock go, what a handler knew before it must still be true after; `ReaderInv` says
what a reader holds at each point (role, sid, the registration or authentication
under way), and that whom it kicks has been in a table. `TableInv`: whoever is in a
table is there for the sid and in the role it has, which is why data stays in the
pair. A registration may still change the sid of its connection after the kick, which
does not break this because that connection is in no table yet (`Registering`).
`TimerInv`: a detached connection takes no further frame, and one detached before it
enters its table was detached by its auth timer; together with `GhostNeedsTimer`
this is inductive. `RecordInv` is about the machines: the index points at records of
its mids, and a registration under way agrees with the record, with the connections
that have a claim on the sid and with the other registrations of it; without it two
connections could be given the sid of a third. `StepKinds` reduces every action to
what it does to those groups of fields, and each part is then proved from that.

**`KvsCacheProofs`.** For any requests, hosts, answers and number of rules, whatever
one rule does to the text another looks for: `TypeCorrect`, `HitsRepeat`
(`HitRepeatsMiss`) and `MixesOverlap` (`MixNeedsOverlap`). `sedPipeline` bakes in the
rules that do not depend on the request and leaves the others to each answer; by
`StoredForAllHosts` what it stores is the same for every host (`OnceIgnoresHost`: the
two recursions of `sedApply` have the same equation), and by `HitIsMiss` a HIT
applies to it what the MISS applied. `FilesInv`: the two files, and the metadata a
HIT has read, are those of requests that change them no more (`Settled`). Typing
`sedApply` takes an induction over the rules; the library's induction theorems
cannot be used, so `UpTo` gets it from the well-foundedness of the subsets of
`0 .. n`. `MixesOverlap` speaks of runs without a fault: `OrderInv` says that the
files then appear in their order and stay, `MetInv` that a request in its MISS has
met all others in theirs and those whose files it may replace.

**Only model-checked:** liveness, which is beyond the provers (`NoZombieStays`,
`StopIsAnswered`, `ReloadIsTaken`, `DependentStarts`, `KeptUp`, `Settles`,
`SessionsEnd`, `GoroutinesEnd`, `EditsReachDisk`, `BothLearn`, `EndIsShared`), and the
liveness part of `ImplementsExitReport` and `IsByteStream`. Every other property of
the passing runs is a theorem; where one needs an assumption that the run makes by
its constants (`ByItself`, `FixedTypes`, `OnceStays`, `Alone`, no reuse of pids),
the theorem names it.

## 6. Where the code and its documents disagree

Kept as a run whose property TLC refutes:

- `halves`: `writeFrame` moves its write deadline on only when half of it has
  elapsed (`wsconn.go` 303), and nobody looks at the error of a write. A frame
  whose write times out leaves its head on the wire, and the next frame is
  written behind it; the comment at 70-72 says that frames cannot be interleaved.

Stated in the modules beside the properties; a cfg that names them as INVARIANT
or PROPERTY makes TLC refute them:

- `Kas!NeverPanics`: `terminate` closes `done` while `spawn` is between the entry in
  `procs` and `rp.cmd` (`main.go` 730); the exit of that child closes it again and
  PID 1 panics. `AUDIT.md` 135 calls the double close safe.
- `Kas!StopSuppressesRetry`: a program stopped during the sleep before a retry is
  retried (678-694), against the comment at 704.
- `Kas!ExitLeavesNobody`: on SIGTERM kas may exit while a program it was starting
  runs (1104), against `readme.md` 241.
- `KvsService!NeverProxiesEarly`: after a reset the `Finish` of the disowned
  preparation ends "preparing" for the new one, and requests reach a backend that
  is not ready (`service.go` 97), against 31-32.
- `KvsRegistry!SparesUnrelated`: `killPID` is called after one look at the marker,
  sends SIGTERM, polls the number for two seconds and sends SIGKILL to whoever has it
  by then (`service.go` 956-973); `ensureDead` signals by number after its check
  (906). Comments at 854-856 and 892-893 say that the marker spares an unrelated
  process that reuses the number. `OnlyReuseMisleads`, which holds, says that such a
  change of hands between check and signal is the only way to hit one; one service
  and one pid are enough for TLC to show the way.
- `KvsRegistry!LeavesOthersAlone`: the final sweep of one kvs kills the service of
  another that shares its home (1259), which the sweep at the start had left alone,
  as 922-923 say.
- `VscFlow!ResumedAtRest`: `push` decides on a pause under the lock and sends it
  after; `writeLoop` may drain the queue and send the resume in between, and the
  worker sees resume before pause. The session stays paused, against `vscrelay.go`
  767-768.
- `VscTunnel!OfflineExpires`: a registration that unlinked its predecessor and then
  gives way leaves a tunnel without a channel and without a time of loss, which
  never expires (43-45). `VscTunnel!TeardownSparesSuccessor`: the teardown of a
  replaced channel ends sessions that its successor has already taken (433, 594).
- `ZcdRelay!NewestWins`: two newcomers that kick the same predecessor both stay
  (`zcdrelay.go` 433, 757). `ZcdRelay!SupersededIsReplaced`: a desktop that is
  kicked for a registration has no successor yet, and its terminals are not told
  (939).
- `ZcdStore!ChangesReachDisk`: `remove` asks nobody to write, so a deleted device
  comes back after a restart unless something else changes (173).
  `ZcdStore!CardsHaveNames`: `managerVisit` looks a card up twice; a deletion
  between saves a record without an id (`manager.go` 1582).
  `ZcdStore!NotesHaveCards`: a note that is being saved survives its card (1323).
- `KvsCache!FramingIsTrue`: two overlapping misses with different encodings leave
  the body of the one with the header of the other, which every HIT then sends
  (`cachehdr.go` 176).
- `WsTunnel!SilenceIsBoth`: a direction's counter grows only when its round ends, so
  the other may judge both silent although bytes moved (`wsproxy.go` 362, 396).
- `WsConn!CloseIsLast`: between the close frame and the closed socket the mutex is
  free. `WsConn!UnexpectedTerminates`: where `readFrame` refuses a frame, zcode's
  `detach` does not close the socket (`wsconn.go` 16).

Seen while modelling, in the models, but without a definition of their own:

- kas: a retry starts the configuration read before the sleep (`main.go`
  694-701), although line 752 says a reload restarts changed programs.
- kas: `handleRestart` keeps its configuration over a stop that may take
  seconds and starts what a reload removed meanwhile (1229-1231, 755).
- kas: a once program that is stopped before its end is neither marked nor
  started again by any reconcile (874-876).
- kas: an IPC start between `close(done)` and the entry in `ranOnce` runs a once
  program a second time (619-631; `readme.md` 157).
- kas: the end of any once program makes reconcile start a service again that
  had given up at `max_retries` (1602; 75-77).
- kvs: `service.go` 33 says the next request retries after a failure, `main.go`
  656-658 says it does not; the code shows the error until a reset.
- kvs: a failed extraction leaves files that count as an installation
  (`service.go` 182).
- kvs: a failed `StartProc` is only logged and requests are proxied to nothing
  (`main.go` 669).
- kvs: a preparation keeps the configuration of the request that began it while
  a restart loads another (`main.go` 655).
- kvs: the end of `StopOne` forgets by name and so drops the record of a child
  started after its `Process.Stop` (`service.go` 915); a crash then leaves an
  orphan no sweep finds. The model calls it `lost`.
- kvs: the MANAGED marker is put into kvs's own environment (`service.go` 1063),
  so children carry the markers of services started before them; a recycled pid
  of another service's child passes the check of 892-893 and is killed.
  `OnlyReuseMisleads` therefore promises a child with the marker of the service, not
  the service's own process.
- ZCode relay: an auth timer that looked before a connection was authenticated
  detaches it after, and it stays in a table (`GhostNeedsTimer` says that this is
  the only way); frames of a desktop that was replaced but not yet told are still
  forwarded; two first registrations of one machine mint two ids.
- store: a registration that is acknowledged after `FlushNow` is lost; a card that
  is deleted while it is saved comes back; a write that failed is repeated only
  after the next change; `managerFolderAdd` and `managerFolderDel` change the
  `Folders` array of a shared record outside the lock.
- cache: when the upstream breaks off while a body is read for rewriting, the
  handler returns without a status and the client gets an empty 200 (`cache.go`
  497); overlapping misses write the backup twice.
- WebSocket proxy: a request may reach the backend twice, since a read error after
  it was sent falls back to the standard proxy, although 221-222 say that a
  consumed request cannot; an answer other than 101 leaves the backend's socket
  to the garbage collector (220-230).
- JSON head (not modelled): the scanner takes the first `type` member, the full
  parse the last.

## 7. Not modelled

Parsing and text, HTML, downloads and archives, request rewriting, statistics,
scripts: no concurrent state of their own (section 1). kss and the escalation of
`proc.go` are the next candidates (section 2). Data races on single words beyond
the order of two steps (`rp.cmd`); a signal to the group of a pid that was reused
since (`main.go` 738), because `Kas` abstracts pids; time as a quantity: delays,
deadlines and backoff only order events, except in `WsTunnel` and `WsConn`, which
count ticks; the contents of files other than markers, the ini file, the pid file,
the state file and a cache entry; sockets and slow clients of the IPC (1135). In
the relays: status pages, the rebuilding of a request head, notify and event frames
that concern one side only, the import of older state files. In the cache: the
choice of the key, Range and HEAD, the copy of the metadata in memory.
