----------------------------- MODULE VscTunnel -----------------------------
(***************************************************************************)
(* relay://vscode (tools/kvs/pkg/vscrelay.go): workers register tunnels    *)
(* and serve them over a channel, clients open sessions on them.  A worker *)
(* that comes back replaces its old channel; a channel dies of its socket, *)
(* of missed probes or by the manager's hand, and takes its sessions with  *)
(* it; a tunnel without a channel keeps its token for a grace period.      *)
(*                                                                         *)
(* Every handler takes the relay's lock several times and lets it go       *)
(* before it writes to a socket: a step is one hold of the lock.  What     *)
(* flows inside a session is VscFlow's concern.                            *)
(***************************************************************************)
EXTENDS Integers, FiniteSets

CONSTANTS
  Conn,      \* worker connections; c also names the channel and the tunnel
             \* that the handler of connection c creates
  Client,    \* client connections; s also names the session
  Token, Device, None,
  Asks,      \* the tokens and devices a connection may ask for
  MaxTunnels, MaxSessions, MaxPerTunnel,  \* vscMaxTunnels, ...
  MaxMiss,   \* probeMaxMiss
  Budget     \* bound: how often a fault, the manager or time interferes

ASSUME VscAssumption ==
  /\ None \notin Conn
  /\ IsFiniteSet(Client)
  /\ Asks \in [Conn -> SUBSET (Token \X Device)]
  /\ {MaxTunnels, MaxSessions, MaxPerTunnel, MaxMiss, Budget} \subseteq Nat

VARIABLES
  tunnels,  \* vscRelay.tunnels, from tokens to tunnels
  devices,  \* vscRelay.devices, from devices to channels
  sessions, \* vscRelay.sessions
  tunnel,   \* a vscTunnel: token, device, channel, deadSince
  members,  \* vscTunnel.sessions
  channel,  \* a vscChannel: tunnel, how far dropChannel is, missed probes
  worker,   \* a handleWorker: control point, what it asks for
  client,   \* a handleClient and its session: control point, tunnel, channel
  forget,   \* channels that forgetTunnel has still to drop
  budget

vars == <<tunnels, devices, sessions, tunnel, members, channel, worker,
          client, forget, budget>>

ConnOrNone == Conn \cup {None}

\* deadSince: not set, within the grace period, beyond it.
DeadSince == {"zero", "grace", "over"}

WorkerPC == {"idle", "checked", "replace", "enter", "serving", "gone"}

\* drop: the steps of dropChannel.  "up" is before it, "new" before the
\* channel exists.
DropPC == {"new", "up", "closing", "ending", "dead"}

ClientPC == {"idle", "routed", "open", "live", "closed"}

TypeOK ==
  /\ tunnels \in [Token -> ConnOrNone]
  /\ devices \in [Device -> ConnOrNone]
  /\ sessions \in Nat
  /\ tunnel \in [Conn -> [token : Token \cup {None}, device : Device \cup {None},
                          ch : ConnOrNone, dead : DeadSince]]
  /\ members \in [Conn -> SUBSET Client]
  /\ channel \in [Conn -> [tun : ConnOrNone, drop : DropPC,
                           ids : SUBSET Client, missed : Nat]]
  /\ worker \in [Conn -> [at : WorkerPC, token : Token \cup {None},
                          device : Device \cup {None}, old : ConnOrNone]]
  /\ client \in [Client -> [at : ClientPC, tun : ConnOrNone, ch : ConnOrNone]]
  /\ forget \subseteq Conn
  /\ budget \in Nat

Init ==
  /\ tunnels = [t \in Token |-> None]
  /\ devices = [d \in Device |-> None]
  /\ sessions = 0
  /\ tunnel = [c \in Conn |-> [token |-> None, device |-> None, ch |-> None,
                               dead |-> "zero"]]
  /\ members = [c \in Conn |-> {}]
  /\ channel = [c \in Conn |-> [tun |-> None, drop |-> "new", ids |-> {},
                                missed |-> 0]]
  /\ worker = [c \in Conn |-> [at |-> "idle", token |-> None, device |-> None,
                               old |-> None]]
  /\ client = [s \in Client |-> [at |-> "idle", tun |-> None, ch |-> None]]
  /\ forget = {}
  /\ budget = Budget

Spend ==
  /\ budget > 0
  /\ budget' = budget - 1

----------------------------------------------------------------------------
(* The tables.                                                             *)

Expired(x) == tunnel[x].ch = None /\ tunnel[x].dead = "over"

\* The table after the lazy sweep that every look at it begins with.
sweepLocked ==
  [t \in Token |-> IF tunnels[t] # None /\ Expired(tunnels[t])
                     THEN None ELSE tunnels[t]]

Reserved(table) == {t \in Token : table[t] # None}

\* The device is connected under another token.
Conflict(d, t) == devices[d] # None /\ tunnel[channel[devices[d]].tun].token # t

\* Mutant of EndSession: the count goes down for one that is gone already.
EndSessionAgain(x, s) ==
  /\ members' = [members EXCEPT ![x] = @ \ {s}]
  /\ sessions' = sessions - 1
  /\ client' = IF s \in members[x] THEN [client EXCEPT ![s].at = "closed"] ELSE client

\* endSession: whoever takes the session out of the map ends it.
EndSession(x, s) ==
  /\ members' = [members EXCEPT ![x] = @ \ {s}]
  /\ IF s \in members[x]
       THEN /\ sessions' = sessions - 1
            /\ client' = [client EXCEPT ![s].at = "closed"]
       ELSE UNCHANGED <<sessions, client>>

----------------------------------------------------------------------------
(* handleWorker.                                                           *)

\* A worker asks for token t as device d: capacity and device are judged.
CheckWorker(c, t, d) ==
  /\ worker[c].at = "idle"
  /\ tunnels' = sweepLocked
  /\ LET refused == \/ /\ sweepLocked[t] = None
                       /\ Cardinality(Reserved(sweepLocked)) >= MaxTunnels
                    \/ Conflict(d, t)
     IN worker' = [worker EXCEPT ![c] = [@ EXCEPT !.at = IF refused THEN "gone" ELSE "checked",
                                                  !.token = t, !.device = d]]
  /\ UNCHANGED <<devices, sessions, tunnel, members, channel, client, forget, budget>>

\* wsUpgrade does not succeed.
UpgradeFails(c) ==
  /\ worker[c].at = "checked"
  /\ Spend
  /\ worker' = [worker EXCEPT ![c].at = "gone"]
  /\ UNCHANGED <<tunnels, devices, sessions, tunnel, members, channel, client, forget>>

\* After the upgrade the previous channel of the token is unlinked.
Replace(c) ==
  /\ worker[c].at = "checked"
  /\ LET x == tunnels[worker[c].token]
         old == IF x = None THEN None ELSE tunnel[x].ch
     IN /\ worker' = [worker EXCEPT ![c].at = IF old = None THEN "enter" ELSE "replace",
                                    ![c].old = old]
        /\ tunnel' = IF x = None THEN tunnel ELSE [tunnel EXCEPT ![x].ch = None]
  /\ UNCHANGED <<tunnels, devices, sessions, members, channel, client, forget, budget>>

\* dropChannel has returned, for whoever runs it runs it to its end first.
Replaced(c) ==
  /\ worker[c].at = "replace"
  /\ channel[worker[c].old].drop = "dead"
  /\ worker' = [worker EXCEPT ![c].at = "enter"]
  /\ UNCHANGED <<tunnels, devices, sessions, tunnel, members, channel, client, forget, budget>>

\* Mutant of Superseded: only the device is looked at again.
SupersededByDevice(c, x) == Conflict(worker[c].device, worker[c].token)

\* Another registration has taken the tunnel or the device in between.
Superseded(c, x) ==
  \/ tunnel[x].ch # None
  \/ Conflict(worker[c].device, worker[c].token)

\* The registration enters the tables, or gives way.
Enter(c) ==
  LET t == worker[c].token
      d == worker[c].device
      x == IF tunnels[t] = None THEN c ELSE tunnels[t]
  IN /\ worker[c].at = "enter"
     /\ \/ /\ Superseded(c, x)
           /\ worker' = [worker EXCEPT ![c].at = "gone"]
           /\ UNCHANGED <<tunnels, devices, tunnel, channel>>
        \/ /\ ~Superseded(c, x)
           /\ tunnels' = [tunnels EXCEPT ![t] = x]
           /\ tunnel' = [tunnel EXCEPT ![x] = [token |-> t, device |-> d, ch |-> c,
                                               dead |-> "zero"]]
           /\ devices' = [devices EXCEPT ![d] = c]
           /\ channel' = [channel EXCEPT ![c].tun = x, ![c].drop = "up"]
           /\ worker' = [worker EXCEPT ![c].at = "serving"]
     /\ UNCHANGED <<sessions, members, client, forget, budget>>

----------------------------------------------------------------------------
(* The channel and its end.                                                *)

\* probeLoop: a probe is sent, one more is unanswered.
ProbeTick(c) ==
  /\ channel[c].drop = "up"
  /\ channel[c].missed < MaxMiss
  /\ Spend
  /\ channel' = [channel EXCEPT ![c].missed = @ + 1]
  /\ UNCHANGED <<tunnels, devices, sessions, tunnel, members, worker, client, forget>>

\* onControl: the worker's version message.
ProbeAnswered(c) ==
  /\ channel[c].drop = "up"
  /\ channel[c].missed > 0
  /\ channel' = [channel EXCEPT ![c].missed = 0]
  /\ UNCHANGED <<tunnels, devices, sessions, tunnel, members, worker, client, forget, budget>>

\* dropChannel closes the socket; the first who calls it runs it.
BeginDrop(c) ==
  /\ channel[c].drop = "up"
  /\ channel' = [channel EXCEPT ![c].drop = "closing"]
  /\ UNCHANGED <<tunnels, devices, sessions, tunnel, members, worker, client>>

ProbeTimeout(c) ==
  /\ channel[c].missed >= MaxMiss
  /\ BeginDrop(c)
  /\ UNCHANGED <<forget, budget>>

\* readLoop: the socket is closed by the worker or breaks.
ChannelBreaks(c) ==
  /\ Spend
  /\ BeginDrop(c)
  /\ UNCHANGED forget

DropReplaced(c) ==
  /\ \E w \in Conn : worker[w].at = "replace" /\ worker[w].old = c
  /\ BeginDrop(c)
  /\ UNCHANGED <<forget, budget>>

DropForgotten(c) ==
  /\ c \in forget
  /\ forget' = forget \ {c}
  /\ \/ BeginDrop(c)
     \/ /\ channel[c].drop # "up"
        /\ UNCHANGED <<tunnels, devices, sessions, tunnel, members, channel, worker, client>>
  /\ UNCHANGED budget

\* Mutant of Unlink: the device is released whoever holds it now.
UnlinkAnyDevice(c) ==
  LET x == channel[c].tun
      d == worker[c].device
  IN /\ channel[c].drop = "closing"
     /\ channel' = [channel EXCEPT ![c].drop = "ending", ![c].ids = members[x]]
     /\ tunnel' = IF tunnel[x].ch = c
                    THEN [tunnel EXCEPT ![x].ch = None, ![x].dead = "grace"] ELSE tunnel
     /\ devices' = [devices EXCEPT ![d] = None]
     /\ UNCHANGED <<tunnels, sessions, members, worker, client, forget, budget>>

\* Mutant of Unlink: the sessions are left to themselves.
UnlinkOnly(c) ==
  LET x == channel[c].tun
      d == worker[c].device
  IN /\ channel[c].drop = "closing"
     /\ channel' = [channel EXCEPT ![c].drop = "ending"]
     /\ tunnel' = IF tunnel[x].ch = c
                    THEN [tunnel EXCEPT ![x].ch = None, ![x].dead = "grace"] ELSE tunnel
     /\ devices' = IF devices[d] = c THEN [devices EXCEPT ![d] = None] ELSE devices
     /\ UNCHANGED <<tunnels, sessions, members, worker, client, forget, budget>>

\* The channel leaves the tables; every session of the tunnel will end,
\* those a successor has opened meanwhile included.
Unlink(c) ==
  LET x == channel[c].tun
      d == worker[c].device
  IN /\ channel[c].drop = "closing"
     /\ channel' = [channel EXCEPT ![c].drop = "ending", ![c].ids = members[x]]
     /\ tunnel' = IF tunnel[x].ch = c
                    THEN [tunnel EXCEPT ![x].ch = None, ![x].dead = "grace"] ELSE tunnel
     /\ devices' = IF devices[d] = c THEN [devices EXCEPT ![d] = None] ELSE devices
     /\ UNCHANGED <<tunnels, sessions, members, worker, client, forget, budget>>

EndNext(c) ==
  /\ channel[c].drop = "ending"
  /\ \E s \in channel[c].ids :
       /\ channel' = [channel EXCEPT ![c].ids = @ \ {s}]
       /\ EndSession(channel[c].tun, s)
  /\ UNCHANGED <<tunnels, devices, tunnel, worker, forget, budget>>

\* The writers at the channel's gate are woken.
Dropped(c) ==
  /\ channel[c].drop = "ending" /\ channel[c].ids = {}
  /\ channel' = [channel EXCEPT ![c].drop = "dead"]
  /\ UNCHANGED <<tunnels, devices, sessions, tunnel, members, worker, client, forget, budget>>

----------------------------------------------------------------------------
(* handleClient and the session.                                           *)

\* A client asks for token t: a verdict, or the tunnel and its channel.
Route(s, t) ==
  LET x == sweepLocked[t]
      served == /\ x # None /\ tunnel[x].ch # None
                /\ sessions < MaxSessions /\ Cardinality(members[x]) < MaxPerTunnel
  IN /\ client[s].at = "idle"
     /\ tunnels' = sweepLocked
     /\ client' = [client EXCEPT ![s] =
                     IF served THEN [at |-> "routed", tun |-> x, ch |-> tunnel[x].ch]
                               ELSE [@ EXCEPT !.at = "closed"]]
     /\ UNCHANGED <<devices, sessions, tunnel, members, channel, worker, forget, budget>>

\* After the hijack the session is registered and announced to the worker.
Open(s) ==
  /\ client[s].at = "routed"
  /\ members' = [members EXCEPT ![client[s].tun] = @ \cup {s}]
  /\ sessions' = sessions + 1
  /\ client' = [client EXCEPT ![s].at = "open"]
  /\ UNCHANGED <<tunnels, devices, tunnel, channel, worker, forget, budget>>

\* Mutant of SendHead: a failed write is not noticed.
SendHeadBlindly(s) ==
  /\ client[s].at = "open"
  /\ client' = [client EXCEPT ![s].at = "live"]
  /\ UNCHANGED <<tunnels, devices, sessions, tunnel, members, channel, worker, forget, budget>>

\* The request head goes to the worker; the socket of a channel that is
\* being dropped is closed and the session ends.
SendHead(s) ==
  /\ client[s].at = "open"
  /\ IF channel[client[s].ch].drop = "up"
       THEN /\ client' = [client EXCEPT ![s].at = "live"]
            /\ UNCHANGED <<sessions, members>>
       ELSE EndSession(client[s].tun, s)
  /\ UNCHANGED <<tunnels, devices, tunnel, channel, worker, forget, budget>>

\* The client goes away, a write to either side fails, or the worker
\* closes the session.
SessionEnds(s) ==
  /\ client[s].at \in {"open", "live"}
  /\ Spend
  /\ EndSession(client[s].tun, s)
  /\ UNCHANGED <<tunnels, devices, tunnel, channel, worker, forget>>

----------------------------------------------------------------------------
(* Time and the manager.                                                   *)

\* The grace period of a tunnel is over.
GraceEnds(x) ==
  /\ tunnel[x].dead = "grace"
  /\ Spend
  /\ tunnel' = [tunnel EXCEPT ![x].dead = "over"]
  /\ UNCHANGED <<tunnels, devices, sessions, members, channel, worker, client, forget>>

\* tunnelList, handleStatus.
Poll ==
  /\ tunnels # sweepLocked
  /\ tunnels' = sweepLocked
  /\ UNCHANGED <<devices, sessions, tunnel, members, channel, worker, client, forget, budget>>

\* forgetTunnel: some tunnel of the device leaves the table.
forgetTunnel(t) ==
  /\ tunnels[t] # None
  /\ Spend
  /\ tunnels' = [tunnels EXCEPT ![t] = None]
  /\ forget' = IF tunnel[tunnels[t]].ch = None THEN forget
               ELSE forget \cup {tunnel[tunnels[t]].ch}
  /\ UNCHANGED <<devices, sessions, tunnel, members, channel, worker, client>>

----------------------------------------------------------------------------

HandleWorker(c) ==
  \/ \E ask \in Asks[c] : CheckWorker(c, ask[1], ask[2])
  \/ UpgradeFails(c) \/ Replace(c) \/ Replaced(c) \/ Enter(c)

\* What the relay does by itself to a channel that is to be dropped.
Drop(c) == DropReplaced(c) \/ DropForgotten(c) \/ Unlink(c) \/ EndNext(c) \/ Dropped(c)

Channel(c) == ProbeTick(c) \/ ProbeAnswered(c) \/ ProbeTimeout(c) \/ ChannelBreaks(c) \/ Drop(c)

HandleClient(s) ==
  \/ \E t \in Token : Route(s, t)
  \/ Open(s) \/ SendHead(s) \/ SessionEnds(s)

Next ==
  \/ \E c \in Conn : HandleWorker(c) \/ Channel(c) \/ GraceEnds(c)
  \/ \E s \in Client : HandleClient(s)
  \/ \E t \in Token : forgetTunnel(t)
  \/ Poll

\* Goroutines that can run do; nobody has to connect, to answer or to fail.
Fairness ==
  /\ \A c \in Conn : WF_vars(Replaced(c)) /\ WF_vars(Drop(c))
  /\ \A s \in Client : WF_vars(Open(s)) /\ WF_vars(SendHead(s))

Spec == Init /\ [][Next]_vars /\ Fairness

----------------------------------------------------------------------------
(* Properties.                                                             *)

InSession(s) == client[s].at \in {"open", "live"}

\* Somebody is about to drop the channel: a registration that replaces it,
\* or the manager.
Doomed(c) ==
  \/ c \in forget
  \/ \E w \in Conn : worker[w].at = "replace" /\ worker[w].old = c

\* A channel that serves is the one through which its token is reached, or
\* somebody is about to drop it: however registrations, replacements, the
\* sweep and the manager overtake each other (handleWorker, forgetTunnel,
\* sweepLocked), no worker is left connected to a tunnel nobody finds.
NoStrayChannel ==
  \A c \in Conn :
    channel[c].drop = "up" /\ ~Doomed(c) =>
      /\ tunnel[channel[c].tun].ch = c
      /\ tunnels[worker[c].token] = channel[c].tun

\* The device map names every serving channel that is not about to be
\* dropped, so a device is connected once (handleWorker refuses the second
\* tunnel of a device; dropChannel releases only what the channel holds).
OneChannelPerDevice ==
  \A c \in Conn :
    channel[c].drop = "up" /\ ~Doomed(c) => devices[worker[c].device] = c

\* The count that limits sessions is their number, and a session is in the
\* table of the tunnel it was routed to, until it ends (handleClient,
\* endSession, which several goroutines call for one session).
CountMatches ==
  /\ sessions = Cardinality({s \in Client : InSession(s)})
  /\ \A x \in Conn : members[x] = {s \in Client : InSession(s) /\ client[s].tun = x}

\* A session in use has a channel whose teardown is still to collect it or
\* has: one that was routed before the channel died and registered after its
\* sessions had been collected never gets to use it (dropChannel, readLoop).
LiveIsCovered ==
  \A s \in Client :
    client[s].at = "live" =>
      \/ channel[client[s].ch].drop \in {"up", "closing"}
      \/ s \in channel[client[s].ch].ids

\* The sessions of a channel that dies end, and a registration that replaces
\* a channel gets on (dropChannel, endSession).
SessionsEnd ==
  \A s \in Client :
    (InSession(s) /\ channel[client[s].ch].drop = "closing")
      ~> client[s].at = "closed"

\* A tunnel without a channel has the time of its loss noted, so that its
\* token is kept for the grace period and released after it (vscrelay.go
\* 43-45), unless a registration of its token is under way.
OfflineExpires ==
  \A t \in Token :
    tunnels[t] # None /\ tunnel[tunnels[t]].ch = None =>
      \/ tunnel[tunnels[t]].dead # "zero"
      \/ \E w \in Conn : worker[w].at \in {"replace", "enter"} /\ worker[w].token = t

\* The teardown of a replaced channel leaves the sessions of the new one
\* alone (vscrelay.go 433).
TeardownSparesSuccessor ==
  [][\A s \in Client :
       InSession(s) /\ client'[s].at = "closed" =>
         \A c \in Conn :
           channel'[c].drop = "ending" /\ channel[c].ids # channel'[c].ids
             => client[s].ch = c \/ channel[client[s].ch].drop # "up"]_vars

=============================================================================
