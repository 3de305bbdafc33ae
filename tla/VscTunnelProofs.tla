-------------------------- MODULE VscTunnelProofs --------------------------
(***************************************************************************)
(* Theorems about VscTunnel for every number of connections, clients,      *)
(* tokens and devices, every limit and every budget.                       *)
(***************************************************************************)
EXTENDS VscTunnel, FiniteSetTheorems, TLAPS

Served(c) == c \in Conn /\ worker[c].at = "serving"

TunnelType == [token : Token \cup {None}, device : Device \cup {None},
               ch : ConnOrNone, dead : DeadSince]
ChannelType == [tun : ConnOrNone, drop : DropPC, ids : SUBSET Client, missed : Nat]
WorkerType == [at : WorkerPC, token : Token \cup {None}, device : Device \cup {None},
               old : ConnOrNone]
ClientType == [at : ClientPC, tun : ConnOrNone, ch : ConnOrNone]

\* A connection is registered before its channel exists, and for ever after.
WorkerInv ==
  \A c \in Conn :
    /\ channel[c].drop = "new" <=> ~Served(c)
    /\ channel[c].tun # None => Served(c)
    /\ worker[c].at # "idle" => worker[c].token \in Token /\ worker[c].device \in Device
    /\ Served(c) => /\ Served(channel[c].tun)
                    /\ tunnel[channel[c].tun].token = worker[c].token

\* The tables name what was registered, under its own token.
TableInv ==
  /\ \A t \in Token : tunnels[t] # None =>
       Served(tunnels[t]) /\ tunnel[tunnels[t]].token = t
  /\ \A d \in Device : devices[d] # None => Served(devices[d])
  /\ \A x \in Conn : tunnel[x].ch # None =>
       Served(tunnel[x].ch) /\ channel[tunnel[x].ch].tun = x

\* A client that was routed has a channel of the tunnel it was routed to.
ClientInv ==
  \A s \in Client :
    client[s].at \in {"routed", "open", "live"} =>
      Served(client[s].ch) /\ channel[client[s].ch].tun = client[s].tun

IInv ==
  /\ TypeOK /\ WorkerInv /\ TableInv /\ ClientInv
  /\ NoStrayChannel /\ OneChannelPerDevice /\ CountMatches /\ LiveIsCovered

\* The invariant holds at first.
LEMMA InitIInv == Init => IInv
<1> SUFFICES ASSUME Init PROVE IInv
  OBVIOUS
<1> USE DEF Init
<1>1. TypeOK
  BY VscAssumption DEF TypeOK, ConnOrNone, DeadSince, DropPC, WorkerPC, ClientPC
<1>2. WorkerInv /\ TableInv /\ ClientInv
  BY VscAssumption DEF WorkerInv, TableInv, ClientInv, Served
<1>3. NoStrayChannel /\ OneChannelPerDevice /\ LiveIsCovered
  BY DEF NoStrayChannel, OneChannelPerDevice, LiveIsCovered
<1>4. CountMatches
  <2>1. {s \in Client : InSession(s)} = {}
    BY DEF InSession
  <2>2. \A x \in Conn : {s \in Client : InSession(s) /\ client[s].tun = x} = {}
    BY DEF InSession
  <2> QED BY <2>1, <2>2, FS_EmptySet DEF CountMatches
<1> QED BY <1>1, <1>2, <1>3, <1>4 DEF IInv

----------------------------------------------------------------------------
(* The sessions are counted.                                               *)

InUse == {s \in Client : InSession(s)}

\* A session that ends is taken off the count once, and only its own.
LEMMA EndKeepsCount ==
  ASSUME TypeOK, CountMatches, NEW x \in Conn, NEW s \in Client, EndSession(x, s)
  PROVE /\ sessions' \in Nat /\ members' \in [Conn -> SUBSET Client]
        /\ client' \in [Client -> [at : ClientPC, tun : ConnOrNone, ch : ConnOrNone]]
        /\ \A o \in Client : \/ client'[o] = client[o]
                             \/ /\ o = s /\ client'[o].at = "closed"
                                /\ client[o].tun = x
                                /\ client'[o].tun = client[o].tun
        /\ s \in members[x] => client'[s].at = "closed"
        /\ CountMatches'
<1> USE DEF EndSession, TypeOK
<1>1. members' \in [Conn -> SUBSET Client]
  OBVIOUS
<1>2. CASE s \in members[x]
  <2>1. InSession(s) /\ client[s].tun = x
    BY <1>2 DEF CountMatches
  <2>2. /\ client' = [client EXCEPT ![s].at = "closed"]
        /\ sessions' = sessions - 1
    BY <1>2
  <2>3. client' \in [Client -> [at : ClientPC, tun : ConnOrNone, ch : ConnOrNone]]
    BY <2>2 DEF ClientPC
  <2>4. \A o \in Client : InSession(o)' <=> InSession(o) /\ o # s
    BY <2>2 DEF InSession
  <2>5. InUse' = InUse \ {s}
    BY <2>4 DEF InUse
  <2>6. IsFiniteSet(InUse)
    BY FS_Subset, VscAssumption DEF InUse
  <2>7. /\ Cardinality(InUse \ {s}) = Cardinality(InUse) - 1
        /\ Cardinality(InUse) \in Nat /\ Cardinality(InUse \ {s}) \in Nat
    BY <2>1, <2>6, FS_RemoveElement, FS_CardinalityType, FS_Subset DEF InUse
  <2>8. sessions' = Cardinality(InUse') /\ sessions' \in Nat
    <3>1. sessions = Cardinality(InUse)
      BY DEF CountMatches, InUse
    <3> QED BY <3>1, <2>2, <2>5, <2>7
  <2>9. \A y \in Conn : members'[y] = {o \in Client : InSession(o)' /\ client'[o].tun = y}
    BY <2>1, <2>2, <2>4 DEF CountMatches
  <2>10. CountMatches'
    BY <2>8, <2>9 DEF CountMatches, InUse
  <2> QED BY <1>1, <2>1, <2>2, <2>3, <2>8, <2>10
<1>3. CASE s \notin members[x]
  <2>1. UNCHANGED <<members, sessions, client>>
    BY <1>3
  <2> QED BY <1>3, <2>1 DEF CountMatches, InSession
<1> QED BY <1>2, <1>3

\* A session that is opened is counted.
LEMMA OpenKeepsCount ==
  ASSUME TypeOK, ClientInv, CountMatches, NEW s \in Client, Open(s)
  PROVE sessions' \in Nat /\ CountMatches'
<1> USE DEF Open, TypeOK
<1>1. client' = [client EXCEPT ![s].at = "open"] /\ client[s].at = "routed"
  OBVIOUS
<1>2. \A o \in Client : InSession(o)' <=> InSession(o) \/ o = s
  BY <1>1 DEF InSession
<1>3. InUse' = InUse \cup {s}
  BY <1>2 DEF InUse
<1>4. IsFiniteSet(InUse) /\ s \notin InUse
  BY <1>1, FS_Subset, VscAssumption DEF InUse, InSession
<1>5. Cardinality(InUse \cup {s}) = Cardinality(InUse) + 1 /\ Cardinality(InUse) \in Nat
  BY <1>4, FS_AddElement, FS_CardinalityType
<1>6. sessions' = Cardinality(InUse') /\ sessions' \in Nat
  <2>1. sessions = Cardinality(InUse)
    BY DEF CountMatches, InUse
  <2> QED BY <2>1, <1>3, <1>5
<1>7. \A x \in Conn : members'[x] = {o \in Client : InSession(o)' /\ client'[o].tun = x}
  BY <1>1, <1>2 DEF CountMatches, ClientInv, Served
<1> QED BY <1>6, <1>7 DEF CountMatches, InUse

----------------------------------------------------------------------------
(* What the steps of a registration do, point by point.                    *)

\* TypeOK with the types of this module.
LEMMA Types ==
  ASSUME TypeOK
  PROVE /\ tunnels \in [Token -> ConnOrNone] /\ devices \in [Device -> ConnOrNone]
        /\ tunnel \in [Conn -> TunnelType] /\ channel \in [Conn -> ChannelType]
        /\ worker \in [Conn -> WorkerType] /\ client \in [Client -> ClientType]
        /\ members \in [Conn -> SUBSET Client]
  BY DEF TypeOK, TunnelType, ChannelType, WorkerType, ClientType

\* The sweep takes expired tunnels out, which have no channel.
LEMMA SweepFacts ==
  ASSUME TypeOK, NEW t \in Token
  PROVE sweepLocked[t] = tunnels[t]
        \/ (sweepLocked[t] = None /\ tunnels[t] # None /\ tunnel[tunnels[t]].ch = None)
  BY DEF sweepLocked, Expired

\* What the look at the tables before a registration finds.
LEMMA CheckFacts ==
  ASSUME IInv, NEW c \in Conn, NEW t \in Token, NEW d \in Device, CheckWorker(c, t, d)
  PROVE /\ worker[c].at = "idle" /\ worker'[c].at \in {"gone", "checked"}
        /\ worker'[c].token = t /\ worker'[c].device = d
        /\ \A k \in Conn \ {c} : worker'[k] = worker[k]
        /\ tunnels' = sweepLocked
        /\ UNCHANGED <<devices, tunnel, members, channel, client, forget>>
<1>1. worker \in [Conn -> WorkerType]
  BY Types DEF IInv
<1>2. PICK pc \in {"gone", "checked"} :
        worker' = [worker EXCEPT ![c] = [@ EXCEPT !.at = pc, !.token = t, !.device = d]]
  BY DEF CheckWorker
<1>3. worker'[c] = [worker[c] EXCEPT !.at = pc, !.token = t, !.device = d]
  BY <1>1, <1>2
<1>4. worker'[c].at = pc /\ worker'[c].token = t /\ worker'[c].device = d
  BY <1>1, <1>3 DEF WorkerType
<1> QED BY <1>1, <1>2, <1>4 DEF CheckWorker

\* What replacing a tunnel does to the tables.
LEMMA ReplaceFacts ==
  ASSUME IInv, NEW c \in Conn, Replace(c)
  PROVE /\ worker[c].at = "checked" /\ worker'[c].at \in {"enter", "replace"}
        /\ worker'[c].token = worker[c].token /\ worker'[c].device = worker[c].device
        /\ worker[c].token \in Token
        /\ \A k \in Conn \ {c} : worker'[k] = worker[k]
        /\ \A y \in Conn :
             /\ tunnel'[y].token = tunnel[y].token
             /\ tunnel'[y].ch = IF y = tunnels[worker[c].token] THEN None ELSE tunnel[y].ch
        /\ LET x == tunnels[worker[c].token]
           IN x # None /\ tunnel[x].ch # None =>
                worker'[c].at = "replace" /\ worker'[c].old = tunnel[x].ch
        /\ UNCHANGED <<tunnels, devices, members, channel, client, forget>>
<1> DEFINE x == tunnels[worker[c].token]
           old == IF x = None THEN None ELSE tunnel[x].ch
           pc == IF old = None THEN "enter" ELSE "replace"
<1>1. worker \in [Conn -> WorkerType] /\ tunnel \in [Conn -> TunnelType]
  BY Types DEF IInv
<1>2. worker[c].at = "checked" /\ worker[c].token \in Token
  BY DEF IInv, WorkerInv, Replace
<1>3. /\ worker' = [worker EXCEPT ![c].at = pc, ![c].old = old]
      /\ tunnel' = IF x = None THEN tunnel ELSE [tunnel EXCEPT ![x].ch = None]
  BY DEF Replace
<1>4. x \in Conn \cup {None}
  BY <1>2, Types DEF IInv, ConnOrNone
<1>5. \A y \in Conn : /\ tunnel'[y].token = tunnel[y].token
                      /\ tunnel'[y].ch = IF y = x THEN None ELSE tunnel[y].ch
  <2> HIDE DEF x
  <2> QED BY <1>1, <1>3, <1>4, VscAssumption DEF TunnelType
<1>6. /\ worker'[c].at = pc /\ worker'[c].old = old
      /\ worker'[c].token = worker[c].token /\ worker'[c].device = worker[c].device
      /\ \A k \in Conn \ {c} : worker'[k] = worker[k]
  <2> HIDE DEF x, pc, old
  <2> QED BY <1>1, <1>3 DEF WorkerType
<1> QED BY <1>2, <1>5, <1>6 DEF Replace

\* A registration that enters found no channel of its token and no other
\* token on its device.
Enters(c, x) ==
  /\ tunnels' = [tunnels EXCEPT ![worker[c].token] = x]
  /\ devices' = [devices EXCEPT ![worker[c].device] = c]
  /\ tunnel'[x].token = worker[c].token /\ tunnel'[x].ch = c
  /\ \A y \in Conn \ {x} : tunnel'[y] = tunnel[y]
  /\ channel'[c].tun = x /\ channel'[c].drop = "up" /\ channel'[c].ids = channel[c].ids
  /\ \A k \in Conn \ {c} : channel'[k] = channel[k]
  /\ worker'[c].at = "serving"
  /\ ~Superseded(c, x)

\* What entering a tunnel does to the tables.
LEMMA EnterFacts ==
  ASSUME IInv, NEW c \in Conn, Enter(c)
  PROVE /\ worker[c].at = "enter" /\ worker[c].token \in Token /\ worker[c].device \in Device
        /\ worker'[c].token = worker[c].token /\ worker'[c].device = worker[c].device
        /\ \A k \in Conn \ {c} : worker'[k] = worker[k]
        /\ LET x == IF tunnels[worker[c].token] = None THEN c ELSE tunnels[worker[c].token]
           IN /\ x \in Conn
              /\ \/ worker'[c].at = "gone" /\ UNCHANGED <<tunnels, devices, tunnel, channel>>
                 \/ Enters(c, x)
        /\ UNCHANGED <<members, client, forget>>
<1> DEFINE t == worker[c].token
           d == worker[c].device
           x == IF tunnels[t] = None THEN c ELSE tunnels[t]
<1>1. /\ worker \in [Conn -> WorkerType] /\ tunnel \in [Conn -> TunnelType]
      /\ channel \in [Conn -> ChannelType]
  BY Types DEF IInv
<1>2. worker[c].at = "enter" /\ t \in Token /\ d \in Device
  BY DEF IInv, WorkerInv, Enter
<1>3. x \in Conn
  BY <1>2, Types DEF IInv, ConnOrNone
<1>4. PICK pc \in {"gone", "serving"} : worker' = [worker EXCEPT ![c].at = pc]
  BY DEF Enter
<1>5. /\ worker'[c].at = pc
      /\ worker'[c].token = worker[c].token /\ worker'[c].device = worker[c].device
      /\ \A k \in Conn \ {c} : worker'[k] = worker[k]
  BY <1>1, <1>4 DEF WorkerType
<1>6. CASE /\ worker' = [worker EXCEPT ![c].at = "gone"]
           /\ UNCHANGED <<tunnels, devices, tunnel, channel>>
  <2>1. worker'[c].at = "gone"
    BY <1>1, <1>6 DEF WorkerType
  <2> QED BY <1>2, <1>3, <1>5, <1>6, <2>1 DEF Enter
<1>7. CASE /\ ~Superseded(c, x)
           /\ tunnels' = [tunnels EXCEPT ![t] = x]
           /\ tunnel' = [tunnel EXCEPT ![x] = [token |-> t, device |-> d, ch |-> c,
                                               dead |-> "zero"]]
           /\ devices' = [devices EXCEPT ![d] = c]
           /\ channel' = [channel EXCEPT ![c].tun = x, ![c].drop = "up"]
           /\ worker' = [worker EXCEPT ![c].at = "serving"]
  <2> HIDE DEF x
  <2>1. /\ tunnel'[x].token = t /\ tunnel'[x].ch = c
        /\ \A y \in Conn \ {x} : tunnel'[y] = tunnel[y]
    BY <1>1, <1>3, <1>7
  <2>2. /\ channel'[c].tun = x /\ channel'[c].drop = "up" /\ channel'[c].ids = channel[c].ids
        /\ \A k \in Conn \ {c} : channel'[k] = channel[k]
    BY <1>1, <1>3, <1>7 DEF ChannelType
  <2>3. worker'[c].at = "serving"
    BY <1>1, <1>7 DEF WorkerType
  <2>4. Enters(c, x)
    BY <1>7, <2>1, <2>2, <2>3 DEF Enters
  <2> QED BY <1>2, <1>3, <1>5, <2>4 DEF Enter, x
<1> QED BY <1>6, <1>7 DEF Enter

\* The three steps that may end a session do nothing else to it.
LEMMA SessionFacts ==
  ASSUME IInv, NEW s \in Client, SendHead(s) \/ SessionEnds(s)
  PROVE /\ CountMatches'
        /\ UNCHANGED <<tunnels, devices, tunnel, channel, worker, forget>>
        /\ client[s].at \in {"open", "live"}
        /\ client'[s].at \in {"live", "closed"} \cup {client[s].at}
        /\ client'[s].at = "live" =>
             client[s].at = "live" \/ channel[client[s].ch].drop = "up"
        /\ \A o \in Client :
             /\ client'[o].tun = client[o].tun /\ client'[o].ch = client[o].ch
             /\ o # s => client'[o].at = client[o].at
<1>1. client \in [Client -> ClientType] /\ TypeOK /\ CountMatches
  BY Types DEF IInv
<1>2. client[s].tun \in Conn /\ client[s].at \in {"open", "live"}
  BY DEF IInv, ClientInv, WorkerInv, Served, SendHead, SessionEnds
<1>3. UNCHANGED <<tunnels, devices, tunnel, channel, worker, forget>>
  BY DEF SendHead, SessionEnds
<1>4. CASE EndSession(client[s].tun, s)
  <2>1. \/ client' = client
        \/ client' = [client EXCEPT ![s].at = "closed"]
    BY <1>4 DEF EndSession
  <2>2. CountMatches'
    BY <1>1, <1>2, <1>4, EndKeepsCount
  <2>3. s \in members[client[s].tun]
    BY <1>1, <1>2 DEF CountMatches, InSession
  <2>4. client' = [client EXCEPT ![s].at = "closed"]
    BY <1>4, <2>3 DEF EndSession
  <2> QED BY <1>1, <1>2, <1>3, <2>2, <2>4 DEF ClientType
<1>5. CASE /\ channel[client[s].ch].drop = "up" /\ client[s].at = "open"
           /\ client' = [client EXCEPT ![s].at = "live"]
           /\ UNCHANGED <<sessions, members>>
  <2>1. \A o \in Client : /\ client'[o].tun = client[o].tun /\ client'[o].ch = client[o].ch
                          /\ InSession(o)' <=> InSession(o)
                          /\ client'[o].at = IF o = s THEN "live" ELSE client[o].at
    BY <1>1, <1>5 DEF InSession, ClientType
  <2>2. InUse' = InUse
    BY <2>1 DEF InUse
  <2>3. CountMatches'
    <3>1. sessions' = Cardinality(InUse')
      BY <1>1, <1>5, <2>2 DEF CountMatches, InUse
    <3>2. \A x \in Conn : members'[x] = {o \in Client : InSession(o)' /\ client'[o].tun = x}
      BY <1>1, <1>5, <2>1 DEF CountMatches
    <3> QED BY <3>1, <3>2 DEF CountMatches, InUse
  <2> QED BY <1>2, <1>3, <1>5, <2>1, <2>3
<1> QED BY <1>4, <1>5 DEF SendHead, SessionEnds

\* One session ended by the teardown of a channel: the counts stay exact.
LEMMA EndNextFacts ==
  ASSUME IInv, NEW c \in Conn, EndNext(c)
  PROVE /\ CountMatches'
        /\ UNCHANGED <<tunnels, devices, tunnel, worker, forget>>
        /\ channel[c].drop = "ending"
        /\ \A k \in Conn : /\ channel'[k].tun = channel[k].tun
                           /\ channel'[k].drop = channel[k].drop
                           /\ k # c => channel'[k].ids = channel[k].ids
        /\ \E s \in Client :
             /\ channel'[c].ids = channel[c].ids \ {s}
             /\ client[s].tun = channel[c].tun => ~InSession(s)'
             /\ \A o \in Client :
                  /\ client'[o].tun = client[o].tun /\ client'[o].ch = client[o].ch
                  /\ client'[o].at = client[o].at \/ (o = s /\ client'[o].at = "closed")
<1>1. /\ client \in [Client -> ClientType] /\ channel \in [Conn -> ChannelType]
      /\ TypeOK /\ CountMatches
  BY Types DEF IInv
<1>2. channel[c].tun \in Conn
  BY DEF IInv, WorkerInv, Served, EndNext
<1>3. PICK s \in channel[c].ids :
        /\ channel' = [channel EXCEPT ![c].ids = @ \ {s}]
        /\ EndSession(channel[c].tun, s)
  BY DEF EndNext
<1>4. s \in Client
  BY <1>1 DEF ChannelType
<1>5. channel' = [channel EXCEPT ![c].ids = @ \ {s}]
  BY <1>3
<1>6. /\ channel'[c].ids = channel[c].ids \ {s}
      /\ \A k \in Conn : /\ channel'[k].tun = channel[k].tun
                         /\ channel'[k].drop = channel[k].drop
                         /\ k # c => channel'[k].ids = channel[k].ids
  BY <1>1, <1>5 DEF ChannelType
<1>7. /\ CountMatches'
      /\ client' = client \/ client' = [client EXCEPT ![s].at = "closed"]
      /\ s \in members[channel[c].tun] => client' = [client EXCEPT ![s].at = "closed"]
  <2>1. CountMatches'
    BY <1>1, <1>2, <1>3, <1>4, EndKeepsCount
  <2> QED BY <1>3, <2>1 DEF EndSession
<1>8. /\ \A o \in Client :
           /\ client'[o].tun = client[o].tun /\ client'[o].ch = client[o].ch
           /\ client'[o].at = client[o].at \/ (o = s /\ client'[o].at = "closed")
      /\ client[s].tun = channel[c].tun => ~InSession(s)'
  <2>1. CASE s \in members[channel[c].tun]
    BY <1>1, <1>4, <1>7, <2>1 DEF ClientType, InSession
  <2>2. CASE s \notin members[channel[c].tun]
    <3>1. client[s].tun = channel[c].tun => ~InSession(s)
      BY <1>1, <1>2, <1>4, <2>2 DEF CountMatches
    <3> QED BY <1>1, <1>4, <1>7, <3>1 DEF ClientType, InSession
  <2> QED BY <2>1, <2>2
<1> QED BY <1>4, <1>6, <1>7, <1>8 DEF EndNext

----------------------------------------------------------------------------
(* Every step.                                                             *)

\* Next as one disjunction of the actions the proofs go through.
LEMMA Steps ==
  ASSUME Next
  PROVE \/ \E c \in Conn :
             \/ \E ask \in Asks[c] : CheckWorker(c, ask[1], ask[2])
             \/ UpgradeFails(c) \/ Replace(c) \/ Replaced(c) \/ Enter(c)
             \/ ProbeTick(c) \/ ProbeAnswered(c) \/ ProbeTimeout(c) \/ ChannelBreaks(c)
             \/ DropReplaced(c) \/ DropForgotten(c) \/ Unlink(c) \/ EndNext(c)
             \/ Dropped(c) \/ GraceEnds(c)
        \/ \E s \in Client :
             \/ \E t \in Token : Route(s, t)
             \/ Open(s) \/ SendHead(s) \/ SessionEnds(s)
        \/ \E t \in Token : forgetTunnel(t)
        \/ Poll
  BY DEF Next, HandleWorker, Channel, Drop, HandleClient

\* Every step keeps the state well typed.
LEMMA TypeStep == IInv /\ [Next]_vars => TypeOK'
<1> SUFFICES ASSUME IInv, [Next]_vars PROVE TypeOK'
  OBVIOUS
<1>a. tunnels \in [Token -> ConnOrNone]
  BY DEF IInv, TypeOK
<1>b. devices \in [Device -> ConnOrNone]
  BY DEF IInv, TypeOK
<1>c. tunnel \in [Conn -> TunnelType]
  BY DEF IInv, TypeOK, TunnelType
<1>d. members \in [Conn -> SUBSET Client]
  BY DEF IInv, TypeOK
<1>e. channel \in [Conn -> ChannelType]
  BY DEF IInv, TypeOK, ChannelType
<1>f. worker \in [Conn -> WorkerType]
  BY DEF IInv, TypeOK, WorkerType
<1>g. client \in [Client -> ClientType]
  BY DEF IInv, TypeOK, ClientType
<1>h. forget \in SUBSET Conn
  BY DEF IInv, TypeOK
<1>i. budget \in Nat
  BY DEF IInv, TypeOK
<1>j. sessions \in Nat
  BY DEF IInv, TypeOK
<1>k. WorkerInv /\ ClientInv
  BY DEF IInv
<1>l. TypeOK /\ CountMatches
  BY DEF IInv
<1>0. CASE UNCHANGED vars
  BY <1>0, <1>l DEF vars, TypeOK
<1>1. ASSUME NEW c \in Conn, NEW ask \in Asks[c], CheckWorker(c, ask[1], ask[2]) PROVE TypeOK'
  <2>1. ask[1] \in Token /\ ask[2] \in Device
    BY VscAssumption
  <2>2. sweepLocked \in [Token -> ConnOrNone]
    BY <1>a DEF sweepLocked, ConnOrNone
  <2>3. tunnels' \in [Token -> ConnOrNone]
    BY <1>1, <2>1, <2>2 DEF CheckWorker
  <2>4. worker' \in [Conn -> WorkerType]
    <3>1. PICK pc \in {"gone", "checked"} :
            worker' = [worker EXCEPT ![c] = [@ EXCEPT !.at = pc, !.token = ask[1],
                                                      !.device = ask[2]]]
      BY <1>1 DEF CheckWorker
    <3>2. [worker[c] EXCEPT !.at = pc, !.token = ask[1], !.device = ask[2]] \in WorkerType
      BY <1>f, <2>1 DEF WorkerType, WorkerPC
    <3> QED BY <1>f, <3>1, <3>2
  <2>5. UNCHANGED <<devices, sessions, tunnel, members, channel, client, forget, budget>>
    BY <1>1 DEF CheckWorker
  <2> QED BY <1>a, <1>b, <1>c, <1>d, <1>e, <1>f, <1>g, <1>h, <1>i, <1>j, <2>3, <2>4, <2>5
    DEF TypeOK, TunnelType, ChannelType, WorkerType, ClientType
<1>2. ASSUME NEW c \in Conn, UpgradeFails(c) PROVE TypeOK'
  <2>1. worker' \in [Conn -> WorkerType]
    BY <1>2, <1>f DEF UpgradeFails, WorkerType, WorkerPC
  <2>2. budget' \in Nat
    BY <1>2, <1>i DEF UpgradeFails, Spend
  <2>3. UNCHANGED <<tunnels, devices, sessions, tunnel, members, channel, client, forget>>
    BY <1>2 DEF UpgradeFails
  <2> QED BY <1>a, <1>b, <1>c, <1>d, <1>e, <1>f, <1>g, <1>h, <1>i, <1>j, <2>1, <2>2, <2>3
    DEF TypeOK, TunnelType, ChannelType, WorkerType, ClientType
<1>3. ASSUME NEW c \in Conn, Replace(c) PROVE TypeOK'
  <2>1. worker[c].token \in Token
    BY <1>3, <1>k DEF Replace, WorkerInv
  <2>2. tunnels[worker[c].token] # None => tunnel[tunnels[worker[c].token]].ch \in ConnOrNone
    BY <2>1, <1>a, <1>c DEF ConnOrNone, TunnelType
  <2>3. worker' \in [Conn -> WorkerType]
    <3>1. PICK o \in ConnOrNone, pc \in WorkerPC :
            worker' = [worker EXCEPT ![c].at = pc, ![c].old = o]
      BY <1>3, <2>2 DEF Replace, ConnOrNone, WorkerPC
    <3> QED BY <1>f, <3>1 DEF WorkerType
  <2>4. tunnel' \in [Conn -> TunnelType]
    BY <1>3, <1>c DEF Replace, TunnelType, ConnOrNone
  <2>5. UNCHANGED <<tunnels, devices, sessions, members, channel, client, forget, budget>>
    BY <1>3 DEF Replace
  <2> QED BY <1>a, <1>b, <1>c, <1>d, <1>e, <1>f, <1>g, <1>h, <1>i, <1>j, <2>3, <2>4, <2>5
    DEF TypeOK, TunnelType, ChannelType, WorkerType, ClientType
<1>4. ASSUME NEW c \in Conn, Replaced(c) PROVE TypeOK'
  <2>1. worker' \in [Conn -> WorkerType]
    BY <1>4, <1>f DEF Replaced, WorkerType, WorkerPC
  <2>2. UNCHANGED <<tunnels, devices, sessions, tunnel, members, channel, client, forget, budget>>
    BY <1>4 DEF Replaced
  <2> QED BY <1>a, <1>b, <1>c, <1>d, <1>e, <1>f, <1>g, <1>h, <1>i, <1>j, <2>1, <2>2
    DEF TypeOK, TunnelType, ChannelType, WorkerType, ClientType
<1>5. ASSUME NEW c \in Conn, Enter(c) PROVE TypeOK'
  <2>1. worker[c].token \in Token /\ worker[c].device \in Device
    BY <1>5, <1>k DEF Enter, WorkerInv
  <2>2. tunnels[worker[c].token] # None => tunnels[worker[c].token] \in Conn
    BY <2>1, <1>a DEF ConnOrNone
  <2>3. tunnels' \in [Token -> ConnOrNone]
    BY <1>5, <1>a, <2>1, <2>2 DEF Enter, ConnOrNone
  <2>4. devices' \in [Device -> ConnOrNone]
    BY <1>5, <1>b, <2>1, <2>2 DEF Enter, ConnOrNone
  <2>5. tunnel' \in [Conn -> TunnelType]
    BY <1>5, <1>c, <2>1, <2>2 DEF Enter, TunnelType, ConnOrNone, DeadSince
  <2>6. channel' \in [Conn -> ChannelType]
    BY <1>5, <1>e, <2>1, <2>2 DEF Enter, ChannelType, ConnOrNone, DropPC
  <2>7. worker' \in [Conn -> WorkerType]
    BY <1>5, <1>f DEF Enter, WorkerType, WorkerPC
  <2>8. UNCHANGED <<sessions, members, client, forget, budget>>
    BY <1>5 DEF Enter
  <2> QED BY <1>a, <1>b, <1>c, <1>d, <1>e, <1>f, <1>g, <1>h, <1>i, <1>j, <2>3, <2>4, <2>5, <2>6, <2>7, <2>8
    DEF TypeOK, TunnelType, ChannelType, WorkerType, ClientType
<1>6. ASSUME NEW c \in Conn, ProbeTick(c) PROVE TypeOK'
  <2>1. channel' \in [Conn -> ChannelType]
    BY <1>6, <1>e DEF ProbeTick, ChannelType
  <2>2. budget' \in Nat
    BY <1>6, <1>i DEF ProbeTick, Spend
  <2>3. UNCHANGED <<tunnels, devices, sessions, tunnel, members, worker, client, forget>>
    BY <1>6 DEF ProbeTick
  <2> QED BY <1>a, <1>b, <1>c, <1>d, <1>e, <1>f, <1>g, <1>h, <1>i, <1>j, <2>1, <2>2, <2>3
    DEF TypeOK, TunnelType, ChannelType, WorkerType, ClientType
<1>7. ASSUME NEW c \in Conn, ProbeAnswered(c) PROVE TypeOK'
  <2>1. channel' \in [Conn -> ChannelType]
    BY <1>7, <1>e DEF ProbeAnswered, ChannelType
  <2>2. UNCHANGED <<tunnels, devices, sessions, tunnel, members, worker, client, forget, budget>>
    BY <1>7 DEF ProbeAnswered
  <2> QED BY <1>a, <1>b, <1>c, <1>d, <1>e, <1>f, <1>g, <1>h, <1>i, <1>j, <2>1, <2>2
    DEF TypeOK, TunnelType, ChannelType, WorkerType, ClientType
<1>8. ASSUME NEW c \in Conn, ProbeTimeout(c) PROVE TypeOK'
  <2>1. channel' \in [Conn -> ChannelType]
    BY <1>8, <1>e DEF ProbeTimeout, ChannelType, BeginDrop, DropPC
  <2>2. UNCHANGED <<tunnels, devices, sessions, tunnel, members, worker, client, forget, budget>>
    BY <1>8 DEF ProbeTimeout, BeginDrop
  <2> QED BY <1>a, <1>b, <1>c, <1>d, <1>e, <1>f, <1>g, <1>h, <1>i, <1>j, <2>1, <2>2
    DEF TypeOK, TunnelType, ChannelType, WorkerType, ClientType
<1>9. ASSUME NEW c \in Conn, ChannelBreaks(c) PROVE TypeOK'
  <2>1. channel' \in [Conn -> ChannelType]
    BY <1>9, <1>e DEF ChannelBreaks, ChannelType, BeginDrop, DropPC
  <2>2. budget' \in Nat
    BY <1>9, <1>i DEF ChannelBreaks, Spend
  <2>3. UNCHANGED <<tunnels, devices, sessions, tunnel, members, worker, client, forget>>
    BY <1>9 DEF ChannelBreaks, BeginDrop
  <2> QED BY <1>a, <1>b, <1>c, <1>d, <1>e, <1>f, <1>g, <1>h, <1>i, <1>j, <2>1, <2>2, <2>3
    DEF TypeOK, TunnelType, ChannelType, WorkerType, ClientType
<1>10. ASSUME NEW c \in Conn, DropReplaced(c) PROVE TypeOK'
  <2>1. channel' \in [Conn -> ChannelType]
    BY <1>10, <1>e DEF DropReplaced, ChannelType, BeginDrop, DropPC
  <2>2. UNCHANGED <<tunnels, devices, sessions, tunnel, members, worker, client, forget, budget>>
    BY <1>10 DEF DropReplaced, BeginDrop
  <2> QED BY <1>a, <1>b, <1>c, <1>d, <1>e, <1>f, <1>g, <1>h, <1>i, <1>j, <2>1, <2>2
    DEF TypeOK, TunnelType, ChannelType, WorkerType, ClientType
<1>11. ASSUME NEW c \in Conn, DropForgotten(c) PROVE TypeOK'
  <2>1. channel' \in [Conn -> ChannelType]
    BY <1>11, <1>e DEF DropForgotten, ChannelType, BeginDrop, DropPC
  <2>2. forget' \in SUBSET Conn
    BY <1>11, <1>h DEF DropForgotten
  <2>3. UNCHANGED <<tunnels, devices, sessions, tunnel, members, worker, client, budget>>
    BY <1>11 DEF DropForgotten, BeginDrop
  <2> QED BY <1>a, <1>b, <1>c, <1>d, <1>e, <1>f, <1>g, <1>h, <1>i, <1>j, <2>1, <2>2, <2>3
    DEF TypeOK, TunnelType, ChannelType, WorkerType, ClientType
<1>12. ASSUME NEW c \in Conn, Unlink(c) PROVE TypeOK'
  <2>1. channel[c].tun \in Conn
    BY <1>12, <1>k DEF Unlink, WorkerInv, Served
  <2>2. channel' \in [Conn -> ChannelType]
    <3>1. channel' = [channel EXCEPT ![c] = [@ EXCEPT !.drop = "ending",
                                                      !.ids = members[channel[c].tun]]]
      BY <1>12, <1>e DEF Unlink
    <3>2. members[channel[c].tun] \in SUBSET Client
      BY <1>d, <2>1
    <3>3. [channel[c] EXCEPT !.drop = "ending", !.ids = members[channel[c].tun]] \in ChannelType
      BY <1>e, <3>2 DEF ChannelType, DropPC
    <3> QED BY <1>e, <3>1, <3>3
  <2>3. tunnel' \in [Conn -> TunnelType]
    <3>1. \/ tunnel' = tunnel
          \/ tunnel' = [tunnel EXCEPT ![channel[c].tun].ch = None, ![channel[c].tun].dead = "grace"]
      BY <1>12 DEF Unlink
    <3> QED BY <1>c, <2>1, <3>1 DEF TunnelType, ConnOrNone, DeadSince
  <2>4. devices' \in [Device -> ConnOrNone]
    BY <1>12, <1>b DEF Unlink, ConnOrNone
  <2>5. UNCHANGED <<tunnels, sessions, members, worker, client, forget, budget>>
    BY <1>12 DEF Unlink
  <2> QED BY <1>a, <1>b, <1>c, <1>d, <1>e, <1>f, <1>g, <1>h, <1>i, <1>j, <2>2, <2>3, <2>4, <2>5
    DEF TypeOK, TunnelType, ChannelType, WorkerType, ClientType
<1>13. ASSUME NEW c \in Conn, EndNext(c) PROVE TypeOK'
  <2>1. PICK s \in channel[c].ids :
           /\ channel' = [channel EXCEPT ![c].ids = @ \ {s}]
           /\ EndSession(channel[c].tun, s)
    BY <1>13 DEF EndNext
  <2>2. channel[c].tun \in Conn
    BY <1>13, <1>k DEF EndNext, WorkerInv, Served
  <2>3. s \in Client
    BY <1>e DEF ChannelType
  <2>4. /\ sessions' \in Nat /\ members' \in [Conn -> SUBSET Client]
        /\ client' \in [Client -> ClientType]
    BY <1>k, <1>l, <2>1, <2>2, <2>3, EndKeepsCount DEF ClientType
  <2>5. channel' \in [Conn -> ChannelType]
    <3>1. channel' = [channel EXCEPT ![c].ids = @ \ {s}]
      BY <2>1
    <3> QED BY <1>e, <3>1 DEF ChannelType
  <2>6. UNCHANGED <<tunnels, devices, tunnel, worker, forget, budget>>
    BY <1>13 DEF EndNext
  <2> QED BY <1>a, <1>b, <1>c, <1>d, <1>e, <1>f, <1>g, <1>h, <1>i, <1>j, <2>4, <2>5, <2>6
    DEF TypeOK, TunnelType, ChannelType, WorkerType, ClientType
<1>14. ASSUME NEW c \in Conn, Dropped(c) PROVE TypeOK'
  <2>1. channel' \in [Conn -> ChannelType]
    BY <1>14, <1>e DEF Dropped, ChannelType, DropPC
  <2>2. UNCHANGED <<tunnels, devices, sessions, tunnel, members, worker, client, forget, budget>>
    BY <1>14 DEF Dropped
  <2> QED BY <1>a, <1>b, <1>c, <1>d, <1>e, <1>f, <1>g, <1>h, <1>i, <1>j, <2>1, <2>2
    DEF TypeOK, TunnelType, ChannelType, WorkerType, ClientType
<1>15. ASSUME NEW c \in Conn, GraceEnds(c) PROVE TypeOK'
  <2>1. tunnel' \in [Conn -> TunnelType]
    BY <1>15, <1>c DEF GraceEnds, TunnelType, DeadSince
  <2>2. budget' \in Nat
    BY <1>15, <1>i DEF GraceEnds, Spend
  <2>3. UNCHANGED <<tunnels, devices, sessions, members, channel, worker, client, forget>>
    BY <1>15 DEF GraceEnds
  <2> QED BY <1>a, <1>b, <1>c, <1>d, <1>e, <1>f, <1>g, <1>h, <1>i, <1>j, <2>1, <2>2, <2>3
    DEF TypeOK, TunnelType, ChannelType, WorkerType, ClientType
<1>16. ASSUME NEW s \in Client, NEW t \in Token, Route(s, t) PROVE TypeOK'
  <2>1. sweepLocked \in [Token -> ConnOrNone]
    BY <1>a DEF sweepLocked, ConnOrNone
  <2>2. sweepLocked[t] # None => sweepLocked[t] \in Conn /\ tunnel[sweepLocked[t]].ch \in ConnOrNone
    BY <2>1, <1>c DEF ConnOrNone, TunnelType
  <2>3. tunnels' \in [Token -> ConnOrNone]
    BY <1>16, <2>1, <2>2 DEF Route
  <2>4. client' \in [Client -> ClientType]
    BY <1>16, <1>g, <2>1, <2>2 DEF Route, ClientType, ClientPC, ConnOrNone
  <2>5. UNCHANGED <<devices, sessions, tunnel, members, channel, worker, forget, budget>>
    BY <1>16 DEF Route
  <2> QED BY <1>a, <1>b, <1>c, <1>d, <1>e, <1>f, <1>g, <1>h, <1>i, <1>j, <2>3, <2>4, <2>5
    DEF TypeOK, TunnelType, ChannelType, WorkerType, ClientType
<1>17. ASSUME NEW s \in Client, Open(s) PROVE TypeOK'
  <2>1. client[s].tun \in Conn
    BY <1>17, <1>k DEF Open, ClientInv, WorkerInv, Served
  <2>2. sessions' \in Nat
    BY <1>17, <1>k, <1>l, OpenKeepsCount
  <2>3. members' \in [Conn -> SUBSET Client]
    BY <1>17, <1>d, <2>1, <2>2 DEF Open
  <2>4. client' \in [Client -> ClientType]
    BY <1>17, <1>g DEF Open, ClientType, ClientPC
  <2>5. UNCHANGED <<tunnels, devices, tunnel, channel, worker, forget, budget>>
    BY <1>17 DEF Open
  <2> QED BY <1>a, <1>b, <1>c, <1>d, <1>e, <1>f, <1>g, <1>h, <1>i, <1>j, <2>2, <2>3, <2>4, <2>5
    DEF TypeOK, TunnelType, ChannelType, WorkerType, ClientType
<1>18. ASSUME NEW s \in Client, SendHead(s) PROVE TypeOK'
  <2>1. client[s].tun \in Conn
    BY <1>18, <1>k DEF SendHead, ClientInv, WorkerInv, Served
  <2>2. /\ sessions' \in Nat /\ members' \in [Conn -> SUBSET Client]
        /\ client' \in [Client -> ClientType]
    <3>1. CASE channel[client[s].ch].drop = "up"
      BY <1>18, <3>1, <1>d, <1>g, <1>j DEF SendHead, ClientType, ClientPC
    <3>2. CASE channel[client[s].ch].drop # "up"
      BY <1>18, <3>2, <1>k, <1>l, <2>1, EndKeepsCount DEF SendHead, ClientType
    <3> QED BY <3>1, <3>2
  <2>3. UNCHANGED <<tunnels, devices, tunnel, channel, worker, forget, budget>>
    BY <1>18 DEF SendHead
  <2> QED BY <1>a, <1>b, <1>c, <1>d, <1>e, <1>f, <1>g, <1>h, <1>i, <1>j, <2>2, <2>3
    DEF TypeOK, TunnelType, ChannelType, WorkerType, ClientType
<1>19. ASSUME NEW s \in Client, SessionEnds(s) PROVE TypeOK'
  <2>1. client[s].tun \in Conn
    BY <1>19, <1>k DEF SessionEnds, ClientInv, WorkerInv, Served
  <2>2. /\ sessions' \in Nat /\ members' \in [Conn -> SUBSET Client]
        /\ client' \in [Client -> ClientType]
    BY <1>19, <1>k, <1>l, <2>1, EndKeepsCount DEF SessionEnds, ClientType
  <2>3. budget' \in Nat
    BY <1>19, <1>i DEF SessionEnds, Spend
  <2>4. UNCHANGED <<tunnels, devices, tunnel, channel, worker, forget>>
    BY <1>19 DEF SessionEnds
  <2> QED BY <1>a, <1>b, <1>c, <1>d, <1>e, <1>f, <1>g, <1>h, <1>i, <1>j, <2>2, <2>3, <2>4
    DEF TypeOK, TunnelType, ChannelType, WorkerType, ClientType
<1>20. ASSUME NEW t \in Token, forgetTunnel(t) PROVE TypeOK'
  <2>1. tunnels[t] # None => tunnel[tunnels[t]].ch \in ConnOrNone
    BY <1>a, <1>c DEF ConnOrNone, TunnelType
  <2>2. tunnels' \in [Token -> ConnOrNone]
    BY <1>20, <1>a DEF forgetTunnel, ConnOrNone
  <2>3. forget' \in SUBSET Conn
    BY <1>20, <1>h, <2>1 DEF forgetTunnel, ConnOrNone
  <2>4. budget' \in Nat
    BY <1>20, <1>i DEF forgetTunnel, Spend
  <2>5. UNCHANGED <<devices, sessions, tunnel, members, channel, worker, client>>
    BY <1>20 DEF forgetTunnel
  <2> QED BY <1>a, <1>b, <1>c, <1>d, <1>e, <1>f, <1>g, <1>h, <1>i, <1>j, <2>2, <2>3, <2>4, <2>5
    DEF TypeOK, TunnelType, ChannelType, WorkerType, ClientType
<1>21. ASSUME Poll PROVE TypeOK'
  <2>1. sweepLocked \in [Token -> ConnOrNone]
    BY <1>a DEF sweepLocked, ConnOrNone
  <2>2. tunnels' \in [Token -> ConnOrNone]
    BY <1>21, <2>1 DEF Poll
  <2>3. UNCHANGED <<devices, sessions, tunnel, members, channel, worker, client, forget, budget>>
    BY <1>21 DEF Poll
  <2> QED BY <1>a, <1>b, <1>c, <1>d, <1>e, <1>f, <1>g, <1>h, <1>i, <1>j, <2>2, <2>3
    DEF TypeOK, TunnelType, ChannelType, WorkerType, ClientType
<1> QED BY <1>0, <1>1, <1>2, <1>3, <1>4, <1>5, <1>6, <1>7, <1>8, <1>9, <1>10, <1>11, <1>12, <1>13, <1>14, <1>15, <1>16, <1>17, <1>18, <1>19, <1>20, <1>21, Steps

\* Registrations and channels stay in step.
LEMMA WorkerStep == IInv /\ [Next]_vars => WorkerInv'
<1> SUFFICES ASSUME IInv, [Next]_vars PROVE WorkerInv'
  OBVIOUS
<1>a. /\ channel \in [Conn -> ChannelType]
      /\ worker \in [Conn -> WorkerType]
      /\ tunnel \in [Conn -> TunnelType]
  BY DEF IInv, TypeOK, ChannelType, WorkerType, TunnelType
<1>b. WorkerInv /\ TableInv /\ None \notin Conn
  BY VscAssumption DEF IInv
<1>0. CASE UNCHANGED vars
  BY <1>0, <1>a, <1>b DEF vars, Served, WorkerInv
<1>1. ASSUME NEW c \in Conn, NEW ask \in Asks[c], CheckWorker(c, ask[1], ask[2]) PROVE WorkerInv'
  <2>1. ask[1] \in Token /\ ask[2] \in Device
    BY VscAssumption
  <2> QED BY <1>1, <1>a, <1>b, <2>1, CheckFacts DEF WorkerInv, Served
<1>2. ASSUME NEW c \in Conn, UpgradeFails(c) PROVE WorkerInv'
  BY <1>2, <1>a, <1>b DEF UpgradeFails, Spend, WorkerInv, TableInv, ConnOrNone, ChannelType, WorkerType, TunnelType, Served
<1>3. ASSUME NEW c \in Conn, Replace(c) PROVE WorkerInv'
  BY <1>3, <1>a, <1>b, ReplaceFacts DEF WorkerInv, Served
<1>4. ASSUME NEW c \in Conn, Replaced(c) PROVE WorkerInv'
  BY <1>4, <1>a, <1>b DEF Replaced, WorkerInv, TableInv, ConnOrNone, ChannelType, WorkerType, TunnelType, Served
<1>5. ASSUME NEW c \in Conn, Enter(c) PROVE WorkerInv'
  <2> DEFINE x == IF tunnels[worker[c].token] = None THEN c ELSE tunnels[worker[c].token]
  <2>1. CASE worker'[c].at = "gone" /\ UNCHANGED <<tunnels, devices, tunnel, channel>>
    BY <1>5, <1>b, <2>1, EnterFacts DEF WorkerInv, Served
  <2>2. CASE Enters(c, x)
    <3>1. x = c \/ (Served(x) /\ tunnel[x].token = worker[c].token)
      BY <1>5, <1>b, EnterFacts DEF TableInv
    <3>2. x \in Conn
      BY <1>5, EnterFacts
    <3> HIDE DEF x
    <3>a. /\ tunnel'[x].ch = c /\ tunnel'[x].token = worker[c].token
          /\ tunnels' = [tunnels EXCEPT ![worker[c].token] = x]
          /\ devices' = [devices EXCEPT ![worker[c].device] = c]
          /\ channel'[c].tun = x /\ channel'[c].drop = "up" /\ worker'[c].at = "serving"
          /\ \A y \in Conn \ {x} : tunnel'[y] = tunnel[y]
          /\ \A k \in Conn \ {c} : channel'[k] = channel[k]
      BY <2>2 DEF Enters
    <3>b. /\ worker[c].token \in Token /\ worker[c].device \in Device
          /\ worker[c].at = "enter"
          /\ worker'[c].token = worker[c].token /\ worker'[c].device = worker[c].device
          /\ \A k \in Conn \ {c} : worker'[k] = worker[k]
      BY <1>5, EnterFacts
    <3> QED BY <1>b, <3>1, <3>2, <3>a, <3>b DEF WorkerInv, Served
  <2> QED BY <1>5, <2>1, <2>2, EnterFacts
<1>6. ASSUME NEW c \in Conn, ProbeTick(c) PROVE WorkerInv'
  BY <1>6, <1>a, <1>b DEF ProbeTick, Spend, WorkerInv, TableInv, ConnOrNone, ChannelType, WorkerType, TunnelType, Served
<1>7. ASSUME NEW c \in Conn, ProbeAnswered(c) PROVE WorkerInv'
  BY <1>7, <1>a, <1>b DEF ProbeAnswered, WorkerInv, TableInv, ConnOrNone, ChannelType, WorkerType, TunnelType, Served
<1>8. ASSUME NEW c \in Conn, ProbeTimeout(c) PROVE WorkerInv'
  BY <1>8, <1>a, <1>b DEF ProbeTimeout, BeginDrop, WorkerInv, TableInv, ConnOrNone, ChannelType, WorkerType, TunnelType, Served
<1>9. ASSUME NEW c \in Conn, ChannelBreaks(c) PROVE WorkerInv'
  BY <1>9, <1>a, <1>b DEF ChannelBreaks, BeginDrop, Spend, WorkerInv, TableInv, ConnOrNone, ChannelType, WorkerType, TunnelType, Served
<1>10. ASSUME NEW c \in Conn, DropReplaced(c) PROVE WorkerInv'
  BY <1>10, <1>a, <1>b DEF DropReplaced, BeginDrop, WorkerInv, TableInv, ConnOrNone, ChannelType, WorkerType, TunnelType, Served
<1>11. ASSUME NEW c \in Conn, DropForgotten(c) PROVE WorkerInv'
  BY <1>11, <1>a, <1>b, SMTT(30) DEF DropForgotten, BeginDrop, WorkerInv, TableInv, ConnOrNone, ChannelType, WorkerType, TunnelType, Served
<1>12. ASSUME NEW c \in Conn, Unlink(c) PROVE WorkerInv'
  BY <1>12, <1>a, <1>b DEF Unlink, WorkerInv, TableInv, ConnOrNone, ChannelType, WorkerType, TunnelType, Served
<1>13. ASSUME NEW c \in Conn, EndNext(c) PROVE WorkerInv'
  BY <1>13, <1>a, <1>b DEF EndNext, WorkerInv, TableInv, ConnOrNone, ChannelType, WorkerType, TunnelType, Served
<1>14. ASSUME NEW c \in Conn, Dropped(c) PROVE WorkerInv'
  BY <1>14, <1>a, <1>b DEF Dropped, WorkerInv, TableInv, ConnOrNone, ChannelType, WorkerType, TunnelType, Served
<1>15. ASSUME NEW c \in Conn, GraceEnds(c) PROVE WorkerInv'
  BY <1>15, <1>a, <1>b DEF GraceEnds, Spend, WorkerInv, TableInv, ConnOrNone, ChannelType, WorkerType, TunnelType, Served
<1>16. ASSUME NEW s \in Client, NEW t \in Token, Route(s, t) PROVE WorkerInv'
  BY <1>16, <1>a, <1>b DEF Route, sweepLocked, WorkerInv, TableInv, ConnOrNone, ChannelType, WorkerType, TunnelType, Served
<1>17. ASSUME NEW s \in Client, Open(s) PROVE WorkerInv'
  BY <1>17, <1>a, <1>b DEF Open, WorkerInv, TableInv, ConnOrNone, ChannelType, WorkerType, TunnelType, Served
<1>18. ASSUME NEW s \in Client, SendHead(s) PROVE WorkerInv'
  BY <1>18, <1>a, <1>b DEF SendHead, WorkerInv, TableInv, ConnOrNone, ChannelType, WorkerType, TunnelType, Served
<1>19. ASSUME NEW s \in Client, SessionEnds(s) PROVE WorkerInv'
  BY <1>19, <1>a, <1>b DEF SessionEnds, Spend, WorkerInv, TableInv, ConnOrNone, ChannelType, WorkerType, TunnelType, Served
<1>20. ASSUME NEW t \in Token, forgetTunnel(t) PROVE WorkerInv'
  BY <1>20, <1>a, <1>b DEF forgetTunnel, Spend, WorkerInv, TableInv, ConnOrNone, ChannelType, WorkerType, TunnelType, Served
<1>21. ASSUME Poll PROVE WorkerInv'
  BY <1>21, <1>a, <1>b DEF Poll, sweepLocked, WorkerInv, TableInv, ConnOrNone, ChannelType, WorkerType, TunnelType, Served
<1> QED BY <1>0, <1>1, <1>2, <1>3, <1>4, <1>5, <1>6, <1>7, <1>8, <1>9, <1>10, <1>11, <1>12, <1>13, <1>14, <1>15, <1>16, <1>17, <1>18, <1>19, <1>20, <1>21, Steps

\* The tables name what is registered.
LEMMA TableStep == IInv /\ [Next]_vars => TableInv'
<1> SUFFICES ASSUME IInv, [Next]_vars PROVE TableInv'
  OBVIOUS
<1>a. /\ tunnels \in [Token -> ConnOrNone]
      /\ devices \in [Device -> ConnOrNone]
      /\ channel \in [Conn -> ChannelType]
      /\ worker \in [Conn -> WorkerType]
      /\ tunnel \in [Conn -> TunnelType]
  BY DEF IInv, TypeOK, ChannelType, WorkerType, TunnelType
<1>b. WorkerInv /\ TableInv /\ None \notin Conn
  BY VscAssumption DEF IInv
<1>0. CASE UNCHANGED vars
  BY <1>0, <1>a, <1>b DEF vars, Served, TableInv
<1>1. ASSUME NEW c \in Conn, NEW ask \in Asks[c], CheckWorker(c, ask[1], ask[2]) PROVE TableInv'
  BY <1>1, <1>a, <1>b DEF CheckWorker, sweepLocked, Conflict, WorkerInv, TableInv, ConnOrNone, ChannelType, WorkerType, TunnelType, Served
<1>2. ASSUME NEW c \in Conn, UpgradeFails(c) PROVE TableInv'
  BY <1>2, <1>a, <1>b, SMTT(30) DEF UpgradeFails, Spend, WorkerInv, TableInv, ConnOrNone, ChannelType, WorkerType, TunnelType, Served
<1>3. ASSUME NEW c \in Conn, Replace(c) PROVE TableInv'
  BY <1>3, <1>a, <1>b, ReplaceFacts DEF TableInv, Served
<1>4. ASSUME NEW c \in Conn, Replaced(c) PROVE TableInv'
  BY <1>4, <1>a, <1>b DEF Replaced, WorkerInv, TableInv, ConnOrNone, ChannelType, WorkerType, TunnelType, Served
<1>5. ASSUME NEW c \in Conn, Enter(c) PROVE TableInv'
  <2> DEFINE x == IF tunnels[worker[c].token] = None THEN c ELSE tunnels[worker[c].token]
  <2>1. CASE worker'[c].at = "gone" /\ UNCHANGED <<tunnels, devices, tunnel, channel>>
    BY <1>5, <1>b, <2>1, EnterFacts DEF TableInv, Served
  <2>2. CASE Enters(c, x)
    <3>1. x = c \/ (Served(x) /\ tunnel[x].token = worker[c].token)
      BY <1>5, <1>b, EnterFacts DEF TableInv
    <3>2. x \in Conn
      BY <1>5, EnterFacts
    <3>3. \A k \in Conn : worker'[k].at = "serving" <=> worker[k].at = "serving" \/ k = c
      <4>1. \A k \in Conn \ {c} : worker'[k] = worker[k]
        BY <1>5, EnterFacts
      <4>2. worker'[c].at = "serving"
        BY <2>2 DEF Enters
      <4> QED BY <4>1, <4>2
    <3>4. worker[c].at # "serving"
      BY <1>5, EnterFacts
    <3> HIDE DEF x
    <3>a. /\ tunnel'[x].ch = c /\ tunnel'[x].token = worker[c].token
          /\ tunnels' = [tunnels EXCEPT ![worker[c].token] = x]
          /\ devices' = [devices EXCEPT ![worker[c].device] = c]
          /\ channel'[c].tun = x /\ channel'[c].drop = "up" /\ worker'[c].at = "serving"
          /\ \A y \in Conn \ {x} : tunnel'[y] = tunnel[y]
          /\ \A k \in Conn \ {c} : channel'[k] = channel[k]
      BY <2>2 DEF Enters
    <3>b. /\ worker[c].token \in Token /\ worker[c].device \in Device
          /\ worker[c].at = "enter"
          /\ worker'[c].token = worker[c].token /\ worker'[c].device = worker[c].device
          /\ \A k \in Conn \ {c} : worker'[k] = worker[k]
      BY <1>5, EnterFacts
    <3>5. \A u \in Token : tunnels'[u] # None =>
             /\ tunnels'[u] \in Conn /\ worker'[tunnels'[u]].at = "serving"
             /\ tunnel'[tunnels'[u]].token = u
      BY <1>a, <1>b, <3>1, <3>2, <3>3, <3>4, <3>a, <3>b DEF TableInv, Served
    <3>6. \A d \in Device : devices'[d] # None => devices'[d] \in Conn /\ worker'[devices'[d]].at = "serving"
      BY <1>a, <1>b, <3>3, <3>a, <3>b DEF TableInv, Served
    <3>7. \A y \in Conn : tunnel'[y].ch # None =>
             /\ tunnel'[y].ch \in Conn /\ worker'[tunnel'[y].ch].at = "serving"
             /\ channel'[tunnel'[y].ch].tun = y
      BY <1>a, <1>b, <3>2, <3>3, <3>4, <3>a, <3>b DEF TableInv, Served
    <3> QED BY <3>5, <3>6, <3>7 DEF TableInv, Served
  <2> QED BY <1>5, <2>1, <2>2, EnterFacts
<1>6. ASSUME NEW c \in Conn, ProbeTick(c) PROVE TableInv'
  BY <1>6, <1>a, <1>b DEF ProbeTick, Spend, WorkerInv, TableInv, ConnOrNone, ChannelType, WorkerType, TunnelType, Served
<1>7. ASSUME NEW c \in Conn, ProbeAnswered(c) PROVE TableInv'
  BY <1>7, <1>a, <1>b DEF ProbeAnswered, WorkerInv, TableInv, ConnOrNone, ChannelType, WorkerType, TunnelType, Served
<1>8. ASSUME NEW c \in Conn, ProbeTimeout(c) PROVE TableInv'
  BY <1>8, <1>a, <1>b DEF ProbeTimeout, BeginDrop, WorkerInv, TableInv, ConnOrNone, ChannelType, WorkerType, TunnelType, Served
<1>9. ASSUME NEW c \in Conn, ChannelBreaks(c) PROVE TableInv'
  BY <1>9, <1>a, <1>b DEF ChannelBreaks, BeginDrop, Spend, WorkerInv, TableInv, ConnOrNone, ChannelType, WorkerType, TunnelType, Served
<1>10. ASSUME NEW c \in Conn, DropReplaced(c) PROVE TableInv'
  BY <1>10, <1>a, <1>b DEF DropReplaced, BeginDrop, WorkerInv, TableInv, ConnOrNone, ChannelType, WorkerType, TunnelType, Served
<1>11. ASSUME NEW c \in Conn, DropForgotten(c) PROVE TableInv'
  BY <1>11, <1>a, <1>b, SMTT(30) DEF DropForgotten, BeginDrop, WorkerInv, TableInv, ConnOrNone, ChannelType, WorkerType, TunnelType, Served
<1>12. ASSUME NEW c \in Conn, Unlink(c) PROVE TableInv'
  BY <1>12, <1>a, <1>b, SMTT(30) DEF Unlink, WorkerInv, TableInv, ConnOrNone, ChannelType, WorkerType, TunnelType, Served
<1>13. ASSUME NEW c \in Conn, EndNext(c) PROVE TableInv'
  BY <1>13, <1>a, <1>b, SMTT(30) DEF EndNext, WorkerInv, TableInv, ConnOrNone, ChannelType, WorkerType, TunnelType, Served
<1>14. ASSUME NEW c \in Conn, Dropped(c) PROVE TableInv'
  BY <1>14, <1>a, <1>b DEF Dropped, WorkerInv, TableInv, ConnOrNone, ChannelType, WorkerType, TunnelType, Served
<1>15. ASSUME NEW c \in Conn, GraceEnds(c) PROVE TableInv'
  BY <1>15, <1>a, <1>b DEF GraceEnds, Spend, WorkerInv, TableInv, ConnOrNone, ChannelType, WorkerType, TunnelType, Served
<1>16. ASSUME NEW s \in Client, NEW t \in Token, Route(s, t) PROVE TableInv'
  BY <1>16, <1>a, <1>b DEF Route, sweepLocked, WorkerInv, TableInv, ConnOrNone, ChannelType, WorkerType, TunnelType, Served
<1>17. ASSUME NEW s \in Client, Open(s) PROVE TableInv'
  BY <1>17, <1>a, <1>b DEF Open, WorkerInv, TableInv, ConnOrNone, ChannelType, WorkerType, TunnelType, Served
<1>18. ASSUME NEW s \in Client, SendHead(s) PROVE TableInv'
  BY <1>18, <1>a, <1>b DEF SendHead, WorkerInv, TableInv, ConnOrNone, ChannelType, WorkerType, TunnelType, Served
<1>19. ASSUME NEW s \in Client, SessionEnds(s) PROVE TableInv'
  BY <1>19, <1>a, <1>b DEF SessionEnds, Spend, WorkerInv, TableInv, ConnOrNone, ChannelType, WorkerType, TunnelType, Served
<1>20. ASSUME NEW t \in Token, forgetTunnel(t) PROVE TableInv'
  BY <1>20, <1>a, <1>b DEF forgetTunnel, Spend, WorkerInv, TableInv, ConnOrNone, ChannelType, WorkerType, TunnelType, Served
<1>21. ASSUME Poll PROVE TableInv'
  BY <1>21, <1>a, <1>b DEF Poll, sweepLocked, WorkerInv, TableInv, ConnOrNone, ChannelType, WorkerType, TunnelType, Served
<1> QED BY <1>0, <1>1, <1>2, <1>3, <1>4, <1>5, <1>6, <1>7, <1>8, <1>9, <1>10, <1>11, <1>12, <1>13, <1>14, <1>15, <1>16, <1>17, <1>18, <1>19, <1>20, <1>21, Steps

\* Routed clients have a channel of their tunnel.
LEMMA ClientStep == IInv /\ [Next]_vars => ClientInv'
<1> SUFFICES ASSUME IInv, [Next]_vars PROVE ClientInv'
  OBVIOUS
<1>a. /\ tunnels \in [Token -> ConnOrNone]
      /\ client \in [Client -> ClientType]
      /\ channel \in [Conn -> ChannelType]
      /\ worker \in [Conn -> WorkerType]
      /\ tunnel \in [Conn -> TunnelType]
  BY DEF IInv, TypeOK, ClientType, ChannelType, WorkerType, TunnelType
<1>b. WorkerInv /\ TableInv /\ ClientInv /\ None \notin Conn
  BY VscAssumption DEF IInv
<1>0. CASE UNCHANGED vars
  BY <1>0, <1>a, <1>b DEF vars, Served, ClientInv
<1>1. ASSUME NEW c \in Conn, NEW ask \in Asks[c], CheckWorker(c, ask[1], ask[2]) PROVE ClientInv'
  BY <1>1, <1>a, <1>b DEF CheckWorker, sweepLocked, Conflict, WorkerInv, TableInv, ClientInv, ConnOrNone, ChannelType, WorkerType, ClientType, Served
<1>2. ASSUME NEW c \in Conn, UpgradeFails(c) PROVE ClientInv'
  BY <1>2, <1>a, <1>b DEF UpgradeFails, Spend, WorkerInv, TableInv, ClientInv, ConnOrNone, ChannelType, WorkerType, ClientType, Served
<1>3. ASSUME NEW c \in Conn, Replace(c) PROVE ClientInv'
  BY <1>3, <1>a, <1>b DEF Replace, WorkerInv, TableInv, ClientInv, ConnOrNone, ChannelType, WorkerType, ClientType, Served
<1>4. ASSUME NEW c \in Conn, Replaced(c) PROVE ClientInv'
  BY <1>4, <1>a, <1>b DEF Replaced, WorkerInv, TableInv, ClientInv, ConnOrNone, ChannelType, WorkerType, ClientType, Served
<1>5. ASSUME NEW c \in Conn, Enter(c) PROVE ClientInv'
  <2> DEFINE x == IF tunnels[worker[c].token] = None THEN c ELSE tunnels[worker[c].token]
  <2>1. \A s \in Client : client[s].at \in {"routed", "open", "live"} =>
          client[s].ch # c /\ Served(client[s].ch)
    BY <1>5, <1>b, EnterFacts DEF ClientInv, Served
  <2>2. CASE worker'[c].at = "gone" /\ UNCHANGED <<tunnels, devices, tunnel, channel>>
    BY <1>5, <1>b, <2>1, <2>2, EnterFacts DEF ClientInv, Served
  <2>3. CASE Enters(c, x)
    <3> HIDE DEF x
    <3>a. /\ tunnel'[x].ch = c /\ tunnel'[x].token = worker[c].token
          /\ tunnels' = [tunnels EXCEPT ![worker[c].token] = x]
          /\ devices' = [devices EXCEPT ![worker[c].device] = c]
          /\ channel'[c].tun = x /\ channel'[c].drop = "up" /\ worker'[c].at = "serving"
          /\ \A y \in Conn \ {x} : tunnel'[y] = tunnel[y]
          /\ \A k \in Conn \ {c} : channel'[k] = channel[k]
      BY <2>3 DEF Enters
    <3>b. /\ worker[c].token \in Token /\ worker[c].device \in Device
          /\ worker[c].at = "enter"
          /\ worker'[c].token = worker[c].token /\ worker'[c].device = worker[c].device
          /\ \A k \in Conn \ {c} : worker'[k] = worker[k]
      BY <1>5, EnterFacts
    <3>c. UNCHANGED client
      BY <1>5, EnterFacts
    <3> QED BY <1>b, <2>1, <3>a, <3>b, <3>c DEF ClientInv, Served
  <2> QED BY <1>5, <2>2, <2>3, EnterFacts
<1>6. ASSUME NEW c \in Conn, ProbeTick(c) PROVE ClientInv'
  BY <1>6, <1>a, <1>b DEF ProbeTick, Spend, WorkerInv, TableInv, ClientInv, ConnOrNone, ChannelType, WorkerType, ClientType, Served
<1>7. ASSUME NEW c \in Conn, ProbeAnswered(c) PROVE ClientInv'
  BY <1>7, <1>a, <1>b DEF ProbeAnswered, WorkerInv, TableInv, ClientInv, ConnOrNone, ChannelType, WorkerType, ClientType, Served
<1>8. ASSUME NEW c \in Conn, ProbeTimeout(c) PROVE ClientInv'
  BY <1>8, <1>a, <1>b DEF ProbeTimeout, BeginDrop, WorkerInv, TableInv, ClientInv, ConnOrNone, ChannelType, WorkerType, ClientType, Served
<1>9. ASSUME NEW c \in Conn, ChannelBreaks(c) PROVE ClientInv'
  BY <1>9, <1>a, <1>b DEF ChannelBreaks, BeginDrop, Spend, WorkerInv, TableInv, ClientInv, ConnOrNone, ChannelType, WorkerType, ClientType, Served
<1>10. ASSUME NEW c \in Conn, DropReplaced(c) PROVE ClientInv'
  BY <1>10, <1>a, <1>b DEF DropReplaced, BeginDrop, WorkerInv, TableInv, ClientInv, ConnOrNone, ChannelType, WorkerType, ClientType, Served
<1>11. ASSUME NEW c \in Conn, DropForgotten(c) PROVE ClientInv'
  <2>1. \A k \in Conn : channel'[k].tun = channel[k].tun
    BY <1>11, <1>a DEF DropForgotten, BeginDrop, ChannelType
  <2>2. UNCHANGED <<worker, client>>
    BY <1>11 DEF DropForgotten, BeginDrop
  <2> QED BY <1>b, <2>1, <2>2 DEF ClientInv, Served
<1>12. ASSUME NEW c \in Conn, Unlink(c) PROVE ClientInv'
  BY <1>12, <1>a, <1>b DEF Unlink, WorkerInv, TableInv, ClientInv, ConnOrNone, ChannelType, WorkerType, ClientType, Served
<1>13. ASSUME NEW c \in Conn, EndNext(c) PROVE ClientInv'
  BY <1>13, <1>b, EndNextFacts DEF ClientInv, Served
<1>14. ASSUME NEW c \in Conn, Dropped(c) PROVE ClientInv'
  BY <1>14, <1>a, <1>b DEF Dropped, WorkerInv, TableInv, ClientInv, ConnOrNone, ChannelType, WorkerType, ClientType, Served
<1>15. ASSUME NEW c \in Conn, GraceEnds(c) PROVE ClientInv'
  BY <1>15, <1>a, <1>b DEF GraceEnds, Spend, WorkerInv, TableInv, ClientInv, ConnOrNone, ChannelType, WorkerType, ClientType, Served
<1>16. ASSUME NEW s \in Client, NEW t \in Token, Route(s, t) PROVE ClientInv'
  BY <1>16, <1>a, <1>b, SMTT(30) DEF Route, sweepLocked, WorkerInv, TableInv, ClientInv, ConnOrNone, ChannelType, WorkerType, ClientType, Served
<1>17. ASSUME NEW s \in Client, Open(s) PROVE ClientInv'
  BY <1>17, <1>a, <1>b DEF Open, WorkerInv, TableInv, ClientInv, ConnOrNone, ChannelType, WorkerType, ClientType, Served
<1>18. ASSUME NEW s \in Client, SendHead(s) PROVE ClientInv'
  BY <1>18, <1>b, SessionFacts DEF ClientInv, Served
<1>19. ASSUME NEW s \in Client, SessionEnds(s) PROVE ClientInv'
  BY <1>19, <1>b, SessionFacts DEF ClientInv, Served
<1>20. ASSUME NEW t \in Token, forgetTunnel(t) PROVE ClientInv'
  BY <1>20, <1>a, <1>b DEF forgetTunnel, Spend, WorkerInv, TableInv, ClientInv, ConnOrNone, ChannelType, WorkerType, ClientType, Served
<1>21. ASSUME Poll PROVE ClientInv'
  BY <1>21, <1>a, <1>b DEF Poll, sweepLocked, WorkerInv, TableInv, ClientInv, ConnOrNone, ChannelType, WorkerType, ClientType, Served
<1> QED BY <1>0, <1>1, <1>2, <1>3, <1>4, <1>5, <1>6, <1>7, <1>8, <1>9, <1>10, <1>11, <1>12, <1>13, <1>14, <1>15, <1>16, <1>17, <1>18, <1>19, <1>20, <1>21, Steps

\* A serving channel is found through the tables.
LEMMA StrayStep == IInv /\ [Next]_vars => NoStrayChannel' /\ OneChannelPerDevice'
<1> SUFFICES ASSUME IInv, [Next]_vars PROVE NoStrayChannel' /\ OneChannelPerDevice'
  OBVIOUS
<1>a. /\ tunnels \in [Token -> ConnOrNone]
      /\ devices \in [Device -> ConnOrNone]
      /\ channel \in [Conn -> ChannelType]
      /\ worker \in [Conn -> WorkerType]
      /\ tunnel \in [Conn -> TunnelType]
  BY DEF IInv, TypeOK, ChannelType, WorkerType, TunnelType
<1>b. WorkerInv /\ TableInv /\ NoStrayChannel /\ OneChannelPerDevice /\ None \notin Conn
  BY VscAssumption DEF IInv
<1>0. CASE UNCHANGED vars
  BY <1>0, <1>a, <1>b DEF vars, Served, Doomed, NoStrayChannel, OneChannelPerDevice
<1>1. ASSUME NEW c \in Conn, NEW ask \in Asks[c], CheckWorker(c, ask[1], ask[2]) PROVE NoStrayChannel' /\ OneChannelPerDevice'
  <2>1. ask[1] \in Token /\ ask[2] \in Device
    BY VscAssumption
  <2>2. \A k \in Conn : Doomed(k)' <=> Doomed(k)
    BY <1>1, <2>1, CheckFacts DEF Doomed
  <2>3. TypeOK /\ channel \in [Conn -> ChannelType]
    BY <1>a DEF IInv
  <2>4. \A k \in Conn : channel[k].drop = "up" => Served(k) /\ k # c
    BY <1>1, <1>b, <2>1, CheckFacts DEF WorkerInv, Served
  <2>5. \A k \in Conn : channel[k].drop = "up" /\ ~Doomed(k) =>
          sweepLocked[worker[k].token] = tunnels[worker[k].token]
    <3>1. \A k \in Conn : Served(k) => worker[k].token \in Token /\ channel[k].tun # None
      BY <1>b DEF WorkerInv, Served
    <3> QED BY <1>b, <2>3, <2>4, <3>1, SweepFacts DEF NoStrayChannel, Served
  <2> QED BY <1>1, <1>b, <2>1, <2>2, <2>4, <2>5, CheckFacts DEF NoStrayChannel, OneChannelPerDevice
<1>2. ASSUME NEW c \in Conn, UpgradeFails(c) PROVE NoStrayChannel' /\ OneChannelPerDevice'
  BY <1>2, <1>a, <1>b DEF UpgradeFails, Spend, WorkerInv, TableInv, NoStrayChannel, OneChannelPerDevice, ChannelType, WorkerType, TunnelType, Served, Doomed
<1>3. ASSUME NEW c \in Conn, Replace(c) PROVE NoStrayChannel' /\ OneChannelPerDevice'
  <2>1. \A k \in Conn : Doomed(k) => Doomed(k)'
    BY <1>3, ReplaceFacts DEF Doomed
  <2>2. \A k \in Conn : channel[k].drop = "up" => Served(k) /\ k # c
    BY <1>3, <1>b, ReplaceFacts DEF WorkerInv, Served
  <2>3. \A k \in Conn : channel[k].drop = "up" /\ ~Doomed(k)' =>
          channel[k].tun # tunnels[worker[c].token]
    <3> SUFFICES ASSUME NEW k \in Conn, channel[k].drop = "up", ~Doomed(k)',
                        channel[k].tun = tunnels[worker[c].token]
                 PROVE FALSE
      OBVIOUS
    <3>1. tunnel[channel[k].tun].ch = k /\ channel[k].tun # None
      BY <1>b, <2>1, <2>2 DEF NoStrayChannel, WorkerInv, Served
    <3>2. worker'[c].at = "replace" /\ worker'[c].old = k
      BY <1>3, <1>b, <3>1, ReplaceFacts
    <3> QED BY <3>2 DEF Doomed
  <2>4. \A k \in Conn : channel[k].drop = "up" => channel[k].tun \in Conn
    BY <1>b, <2>2 DEF WorkerInv, Served
  <2> QED BY <1>3, <1>b, <2>1, <2>2, <2>3, <2>4, ReplaceFacts DEF NoStrayChannel, OneChannelPerDevice
<1>4. ASSUME NEW c \in Conn, Replaced(c) PROVE NoStrayChannel' /\ OneChannelPerDevice'
  BY <1>4, <1>a, <1>b DEF Replaced, WorkerInv, TableInv, NoStrayChannel, OneChannelPerDevice, ChannelType, WorkerType, TunnelType, Served, Doomed
<1>5. ASSUME NEW c \in Conn, Enter(c) PROVE NoStrayChannel' /\ OneChannelPerDevice'
  <2> DEFINE x == IF tunnels[worker[c].token] = None THEN c ELSE tunnels[worker[c].token]
  <2>1. \A k \in Conn : Doomed(k)' <=> Doomed(k)
    BY <1>5, EnterFacts DEF Doomed, Enters
  <2>2. \A k \in Conn : channel[k].drop = "up" =>
          /\ Served(k) /\ k # c /\ channel[k].tun \in Conn /\ channel[k].tun # c
          /\ worker[k].token \in Token /\ tunnel[channel[k].tun].token = worker[k].token
    BY <1>5, <1>b, EnterFacts DEF WorkerInv, Served
  <2>3. CASE worker'[c].at = "gone" /\ UNCHANGED <<tunnels, devices, tunnel, channel>>
    BY <1>5, <1>b, <2>1, <2>2, <2>3, EnterFacts DEF NoStrayChannel, OneChannelPerDevice
  <2>4. CASE Enters(c, x)
    <3>1. ~Superseded(c, x)
      BY <2>4 DEF Enters
    <3>2. \A k \in Conn : channel[k].drop = "up" /\ ~Doomed(k) =>
            /\ channel[k].tun # x /\ worker[k].token # worker[c].token
            /\ worker[k].device # worker[c].device
      <4> SUFFICES ASSUME NEW k \in Conn, channel[k].drop = "up", ~Doomed(k)
                   PROVE /\ channel[k].tun # x /\ worker[k].token # worker[c].token
                         /\ worker[k].device # worker[c].device
        OBVIOUS
      <4>1. /\ tunnel[channel[k].tun].ch = k /\ tunnels[worker[k].token] = channel[k].tun
            /\ devices[worker[k].device] = k
        BY <1>b DEF NoStrayChannel, OneChannelPerDevice
      <4>2. channel[k].tun # x
        BY <1>b, <3>1, <4>1 DEF Superseded
      <4>3. worker[k].token # worker[c].token
        BY <1>b, <2>2, <4>1, <4>2
      <4>4. worker[k].device # worker[c].device
        BY <1>b, <2>2, <3>1, <4>1, <4>3 DEF Superseded, Conflict
      <4> QED BY <4>2, <4>3, <4>4
    <3> HIDE DEF x
    <3>3. /\ tunnel'[x].ch = c /\ tunnels' = [tunnels EXCEPT ![worker[c].token] = x]
          /\ devices' = [devices EXCEPT ![worker[c].device] = c]
          /\ channel'[c].tun = x
          /\ \A y \in Conn \ {x} : tunnel'[y] = tunnel[y]
          /\ \A k \in Conn \ {c} : channel'[k] = channel[k]
      BY <2>4 DEF Enters
    <3>4. /\ worker[c].token \in Token /\ worker[c].device \in Device
          /\ worker'[c].token = worker[c].token /\ worker'[c].device = worker[c].device
          /\ \A k \in Conn \ {c} : worker'[k] = worker[k]
      BY <1>5, EnterFacts
    <3>5. \A k \in Conn : channel[k].drop = "up" => worker[k].device \in Device
      BY <1>b, <2>2 DEF WorkerInv, Served
    <3>6. NoStrayChannel'
      BY <1>a, <1>b, <2>1, <2>2, <3>2, <3>3, <3>4 DEF NoStrayChannel
    <3>7. OneChannelPerDevice'
      BY <1>a, <1>b, <2>1, <2>2, <3>2, <3>3, <3>4, <3>5 DEF OneChannelPerDevice
    <3> QED BY <3>6, <3>7
  <2> QED BY <1>5, <2>3, <2>4, EnterFacts
<1>6. ASSUME NEW c \in Conn, ProbeTick(c) PROVE NoStrayChannel' /\ OneChannelPerDevice'
  BY <1>6, <1>a, <1>b DEF ProbeTick, Spend, WorkerInv, TableInv, NoStrayChannel, OneChannelPerDevice, ChannelType, WorkerType, TunnelType, Served, Doomed
<1>7. ASSUME NEW c \in Conn, ProbeAnswered(c) PROVE NoStrayChannel' /\ OneChannelPerDevice'
  BY <1>7, <1>a, <1>b DEF ProbeAnswered, WorkerInv, TableInv, NoStrayChannel, OneChannelPerDevice, ChannelType, WorkerType, TunnelType, Served, Doomed
<1>8. ASSUME NEW c \in Conn, ProbeTimeout(c) PROVE NoStrayChannel' /\ OneChannelPerDevice'
  BY <1>8, <1>a, <1>b DEF ProbeTimeout, BeginDrop, WorkerInv, TableInv, NoStrayChannel, OneChannelPerDevice, ChannelType, WorkerType, TunnelType, Served, Doomed
<1>9. ASSUME NEW c \in Conn, ChannelBreaks(c) PROVE NoStrayChannel' /\ OneChannelPerDevice'
  BY <1>9, <1>a, <1>b DEF ChannelBreaks, BeginDrop, Spend, WorkerInv, TableInv, NoStrayChannel, OneChannelPerDevice, ChannelType, WorkerType, TunnelType, Served, Doomed
<1>10. ASSUME NEW c \in Conn, DropReplaced(c) PROVE NoStrayChannel' /\ OneChannelPerDevice'
  BY <1>10, <1>a, <1>b DEF DropReplaced, BeginDrop, WorkerInv, TableInv, NoStrayChannel, OneChannelPerDevice, ChannelType, WorkerType, TunnelType, Served, Doomed
<1>11. ASSUME NEW c \in Conn, DropForgotten(c) PROVE NoStrayChannel' /\ OneChannelPerDevice'
  <2>1. /\ \A k \in Conn : channel'[k].tun = channel[k].tun
        /\ \A k \in Conn : channel'[k].drop = "up" => channel[k].drop = "up" /\ k # c
    BY <1>11, <1>a DEF DropForgotten, BeginDrop, ChannelType
  <2>2. UNCHANGED <<tunnels, devices, tunnel, worker>> /\ forget' = forget \ {c}
    BY <1>11 DEF DropForgotten, BeginDrop
  <2>3. \A k \in Conn \ {c} : Doomed(k)' <=> Doomed(k)
    BY <2>2 DEF Doomed
  <2> QED BY <1>b, <2>1, <2>2, <2>3 DEF NoStrayChannel, OneChannelPerDevice
<1>12. ASSUME NEW c \in Conn, Unlink(c) PROVE NoStrayChannel' /\ OneChannelPerDevice'
  BY <1>12, <1>a, <1>b, SMTT(30) DEF Unlink, WorkerInv, TableInv, NoStrayChannel, OneChannelPerDevice, ChannelType, WorkerType, TunnelType, Served, Doomed
<1>13. ASSUME NEW c \in Conn, EndNext(c) PROVE NoStrayChannel' /\ OneChannelPerDevice'
  BY <1>13, <1>a, <1>b DEF EndNext, WorkerInv, TableInv, NoStrayChannel, OneChannelPerDevice, ChannelType, WorkerType, TunnelType, Served, Doomed
<1>14. ASSUME NEW c \in Conn, Dropped(c) PROVE NoStrayChannel' /\ OneChannelPerDevice'
  BY <1>14, <1>a, <1>b DEF Dropped, WorkerInv, TableInv, NoStrayChannel, OneChannelPerDevice, ChannelType, WorkerType, TunnelType, Served, Doomed
<1>15. ASSUME NEW c \in Conn, GraceEnds(c) PROVE NoStrayChannel' /\ OneChannelPerDevice'
  BY <1>15, <1>a, <1>b DEF GraceEnds, Spend, WorkerInv, TableInv, NoStrayChannel, OneChannelPerDevice, ChannelType, WorkerType, TunnelType, Served, Doomed
<1>16. ASSUME NEW s \in Client, NEW t \in Token, Route(s, t) PROVE NoStrayChannel' /\ OneChannelPerDevice'
  <2>1. tunnels' = sweepLocked /\ UNCHANGED <<devices, tunnel, channel, worker, forget>>
    BY <1>16 DEF Route
  <2>2. TypeOK
    BY DEF IInv
  <2>3. \A k \in Conn : channel[k].drop = "up" =>
          worker[k].token \in Token /\ channel[k].tun # None
    BY <1>b DEF WorkerInv, Served
  <2>4. \A k \in Conn : channel[k].drop = "up" /\ ~Doomed(k) =>
          sweepLocked[worker[k].token] = tunnels[worker[k].token]
    BY <1>b, <2>2, <2>3, SweepFacts DEF NoStrayChannel
  <2> QED BY <1>b, <2>1, <2>4 DEF NoStrayChannel, OneChannelPerDevice, Doomed
<1>17. ASSUME NEW s \in Client, Open(s) PROVE NoStrayChannel' /\ OneChannelPerDevice'
  BY <1>17, <1>a, <1>b DEF Open, WorkerInv, TableInv, NoStrayChannel, OneChannelPerDevice, ChannelType, WorkerType, TunnelType, Served, Doomed
<1>18. ASSUME NEW s \in Client, SendHead(s) PROVE NoStrayChannel' /\ OneChannelPerDevice'
  BY <1>18, <1>a, <1>b DEF SendHead, WorkerInv, TableInv, NoStrayChannel, OneChannelPerDevice, ChannelType, WorkerType, TunnelType, Served, Doomed
<1>19. ASSUME NEW s \in Client, SessionEnds(s) PROVE NoStrayChannel' /\ OneChannelPerDevice'
  BY <1>19, <1>a, <1>b DEF SessionEnds, Spend, WorkerInv, TableInv, NoStrayChannel, OneChannelPerDevice, ChannelType, WorkerType, TunnelType, Served, Doomed
<1>20. ASSUME NEW t \in Token, forgetTunnel(t) PROVE NoStrayChannel' /\ OneChannelPerDevice'
  BY <1>20, <1>a, <1>b DEF forgetTunnel, Spend, WorkerInv, TableInv, NoStrayChannel, OneChannelPerDevice, ChannelType, WorkerType, TunnelType, Served, Doomed
<1>21. ASSUME Poll PROVE NoStrayChannel' /\ OneChannelPerDevice'
  <2>1. tunnels' = sweepLocked /\ UNCHANGED <<devices, tunnel, channel, worker, forget>>
    BY <1>21 DEF Poll
  <2>2. TypeOK
    BY DEF IInv
  <2>3. \A k \in Conn : channel[k].drop = "up" =>
          worker[k].token \in Token /\ channel[k].tun # None
    BY <1>b DEF WorkerInv, Served
  <2>4. \A k \in Conn : channel[k].drop = "up" /\ ~Doomed(k) =>
          sweepLocked[worker[k].token] = tunnels[worker[k].token]
    BY <1>b, <2>2, <2>3, SweepFacts DEF NoStrayChannel
  <2> QED BY <1>b, <2>1, <2>4 DEF NoStrayChannel, OneChannelPerDevice, Doomed
<1> QED BY <1>0, <1>1, <1>2, <1>3, <1>4, <1>5, <1>6, <1>7, <1>8, <1>9, <1>10, <1>11, <1>12, <1>13, <1>14, <1>15, <1>16, <1>17, <1>18, <1>19, <1>20, <1>21, Steps

\* The sessions are counted, whatever happens.
LEMMA CountStep == IInv /\ [Next]_vars => CountMatches'
<1> SUFFICES ASSUME IInv, [Next]_vars PROVE CountMatches'
  OBVIOUS
<1>a. client \in [Client -> ClientType] /\ TypeOK /\ ClientInv /\ CountMatches
  BY Types DEF IInv
<1>b. CASE UNCHANGED <<sessions, members, client>>
  BY <1>a, <1>b DEF CountMatches, InSession
<1>0. CASE UNCHANGED vars
  BY <1>0, <1>b DEF vars
<1>1. ASSUME NEW c \in Conn, NEW ask \in Asks[c], CheckWorker(c, ask[1], ask[2]) PROVE CountMatches'
  BY <1>1, <1>b DEF CheckWorker
<1>2. ASSUME NEW c \in Conn, UpgradeFails(c) PROVE CountMatches'
  BY <1>2, <1>b DEF UpgradeFails
<1>3. ASSUME NEW c \in Conn, Replace(c) PROVE CountMatches'
  BY <1>3, <1>b DEF Replace
<1>4. ASSUME NEW c \in Conn, Replaced(c) PROVE CountMatches'
  BY <1>4, <1>b DEF Replaced
<1>5. ASSUME NEW c \in Conn, Enter(c) PROVE CountMatches'
  BY <1>5, <1>b DEF Enter
<1>6. ASSUME NEW c \in Conn, ProbeTick(c) PROVE CountMatches'
  BY <1>6, <1>b DEF ProbeTick
<1>7. ASSUME NEW c \in Conn, ProbeAnswered(c) PROVE CountMatches'
  BY <1>7, <1>b DEF ProbeAnswered
<1>8. ASSUME NEW c \in Conn, ProbeTimeout(c) PROVE CountMatches'
  BY <1>8, <1>b DEF ProbeTimeout, BeginDrop
<1>9. ASSUME NEW c \in Conn, ChannelBreaks(c) PROVE CountMatches'
  BY <1>9, <1>b DEF ChannelBreaks, BeginDrop
<1>10. ASSUME NEW c \in Conn, DropReplaced(c) PROVE CountMatches'
  BY <1>10, <1>b DEF DropReplaced, BeginDrop
<1>11. ASSUME NEW c \in Conn, DropForgotten(c) PROVE CountMatches'
  BY <1>11, <1>b DEF DropForgotten, BeginDrop
<1>12. ASSUME NEW c \in Conn, Unlink(c) PROVE CountMatches'
  BY <1>12, <1>b DEF Unlink
<1>13. ASSUME NEW c \in Conn, EndNext(c) PROVE CountMatches'
  BY <1>13, EndNextFacts
<1>14. ASSUME NEW c \in Conn, Dropped(c) PROVE CountMatches'
  BY <1>14, <1>b DEF Dropped
<1>15. ASSUME NEW c \in Conn, GraceEnds(c) PROVE CountMatches'
  BY <1>15, <1>b DEF GraceEnds
<1>16. ASSUME NEW s \in Client, NEW t \in Token, Route(s, t) PROVE CountMatches'
  <2>1. /\ client[s].at = "idle" /\ client'[s].at \in {"routed", "closed"}
        /\ \A o \in Client \ {s} : client'[o] = client[o]
        /\ sessions' = sessions /\ members' = members
    BY <1>16, <1>a DEF Route, ClientType
  <2>2. \A o \in Client : InSession(o)' <=> InSession(o)
    BY <2>1 DEF InSession
  <2>3. InUse' = InUse
    BY <2>2 DEF InUse
  <2>4. sessions' = Cardinality(InUse')
    <3>1. sessions = Cardinality(InUse)
      BY <1>a DEF CountMatches, InUse
    <3>2. sessions' = sessions
      BY <2>1
    <3> QED BY <2>3, <3>1, <3>2
  <2>5. \A x \in Conn : members'[x] = {o \in Client : InSession(o)' /\ client'[o].tun = x}
    <3>1. \A x \in Conn, o \in Client :
            InSession(o)' /\ client'[o].tun = x <=> InSession(o) /\ client[o].tun = x
      BY <2>1, <2>2 DEF InSession
    <3>2. members' = members
      BY <2>1
    <3>3. \A x \in Conn : members[x] = {o \in Client : InSession(o) /\ client[o].tun = x}
      BY <1>a DEF CountMatches
    <3> QED BY <3>1, <3>2, <3>3
  <2> QED BY <2>4, <2>5 DEF CountMatches, InUse
<1>17. ASSUME NEW s \in Client, Open(s) PROVE CountMatches'
  BY <1>17, <1>a, OpenKeepsCount
<1>18. ASSUME NEW s \in Client, SendHead(s) PROVE CountMatches'
  BY <1>18, SessionFacts
<1>19. ASSUME NEW s \in Client, SessionEnds(s) PROVE CountMatches'
  BY <1>19, SessionFacts
<1>20. ASSUME NEW t \in Token, forgetTunnel(t) PROVE CountMatches'
  BY <1>20, <1>b DEF forgetTunnel
<1>21. ASSUME Poll PROVE CountMatches'
  BY <1>21, <1>b DEF Poll
<1> QED BY <1>0, <1>1, <1>2, <1>3, <1>4, <1>5, <1>6, <1>7, <1>8, <1>9, <1>10, <1>11, <1>12, <1>13, <1>14, <1>15, <1>16, <1>17, <1>18, <1>19, <1>20, <1>21, Steps

\* A session in use has a channel that will collect it.
LEMMA CoverStep == IInv /\ [Next]_vars => LiveIsCovered'
<1> SUFFICES ASSUME IInv, [Next]_vars PROVE LiveIsCovered'
  OBVIOUS
<1>a. /\ channel \in [Conn -> ChannelType]
      /\ client \in [Client -> ClientType]
  BY DEF IInv, TypeOK, ChannelType, ClientType
<1>b. WorkerInv /\ ClientInv /\ CountMatches /\ LiveIsCovered /\ None \notin Conn
  BY VscAssumption DEF IInv
<1>0. CASE UNCHANGED vars
  BY <1>0, <1>a, <1>b DEF vars, LiveIsCovered
<1>1. ASSUME NEW c \in Conn, NEW ask \in Asks[c], CheckWorker(c, ask[1], ask[2]) PROVE LiveIsCovered'
  BY <1>1, <1>a, <1>b DEF CheckWorker, sweepLocked, Conflict, LiveIsCovered, ClientInv, Served, ChannelType, ClientType
<1>2. ASSUME NEW c \in Conn, UpgradeFails(c) PROVE LiveIsCovered'
  BY <1>2, <1>a, <1>b DEF UpgradeFails, Spend, LiveIsCovered, ClientInv, Served, ChannelType, ClientType
<1>3. ASSUME NEW c \in Conn, Replace(c) PROVE LiveIsCovered'
  BY <1>3, <1>a, <1>b DEF Replace, LiveIsCovered, ClientInv, Served, ChannelType, ClientType
<1>4. ASSUME NEW c \in Conn, Replaced(c) PROVE LiveIsCovered'
  BY <1>4, <1>a, <1>b DEF Replaced, LiveIsCovered, ClientInv, Served, ChannelType, ClientType
<1>5. ASSUME NEW c \in Conn, Enter(c) PROVE LiveIsCovered'
  <2>1. \A s \in Client : client[s].at = "live" => client[s].ch \in Conn \ {c}
    BY <1>5, <1>b, EnterFacts DEF ClientInv, Served
  <2>2. \A k \in Conn \ {c} : channel'[k] = channel[k]
    BY <1>5, EnterFacts DEF Enters
  <2>3. UNCHANGED client
    BY <1>5, EnterFacts
  <2> QED BY <1>b, <2>1, <2>2, <2>3 DEF LiveIsCovered
<1>6. ASSUME NEW c \in Conn, ProbeTick(c) PROVE LiveIsCovered'
  BY <1>6, <1>a, <1>b DEF ProbeTick, Spend, LiveIsCovered, ClientInv, Served, ChannelType, ClientType
<1>7. ASSUME NEW c \in Conn, ProbeAnswered(c) PROVE LiveIsCovered'
  BY <1>7, <1>a, <1>b DEF ProbeAnswered, LiveIsCovered, ClientInv, Served, ChannelType, ClientType
<1>8. ASSUME NEW c \in Conn, ProbeTimeout(c) PROVE LiveIsCovered'
  <2>1. \/ channel' = channel
        \/ channel[c].drop = "up" /\ channel' = [channel EXCEPT ![c].drop = "closing"]
    BY <1>8 DEF ProbeTimeout, BeginDrop
  <2>2. UNCHANGED client
    BY <1>8 DEF ProbeTimeout, BeginDrop
  <2>3. \A s \in Client : client[s].at = "live" => client[s].ch \in Conn
    BY <1>b DEF ClientInv, Served
  <2> QED BY <1>a, <1>b, <2>1, <2>2, <2>3 DEF LiveIsCovered, ChannelType
<1>9. ASSUME NEW c \in Conn, ChannelBreaks(c) PROVE LiveIsCovered'
  <2>1. \/ channel' = channel
        \/ channel[c].drop = "up" /\ channel' = [channel EXCEPT ![c].drop = "closing"]
    BY <1>9 DEF ChannelBreaks, BeginDrop
  <2>2. UNCHANGED client
    BY <1>9 DEF ChannelBreaks, BeginDrop
  <2>3. \A s \in Client : client[s].at = "live" => client[s].ch \in Conn
    BY <1>b DEF ClientInv, Served
  <2> QED BY <1>a, <1>b, <2>1, <2>2, <2>3 DEF LiveIsCovered, ChannelType
<1>10. ASSUME NEW c \in Conn, DropReplaced(c) PROVE LiveIsCovered'
  <2>1. \/ channel' = channel
        \/ channel[c].drop = "up" /\ channel' = [channel EXCEPT ![c].drop = "closing"]
    BY <1>10 DEF DropReplaced, BeginDrop
  <2>2. UNCHANGED client
    BY <1>10 DEF DropReplaced, BeginDrop
  <2>3. \A s \in Client : client[s].at = "live" => client[s].ch \in Conn
    BY <1>b DEF ClientInv, Served
  <2> QED BY <1>a, <1>b, <2>1, <2>2, <2>3 DEF LiveIsCovered, ChannelType
<1>11. ASSUME NEW c \in Conn, DropForgotten(c) PROVE LiveIsCovered'
  <2>1. \/ channel' = channel
        \/ channel[c].drop = "up" /\ channel' = [channel EXCEPT ![c].drop = "closing"]
    BY <1>11 DEF DropForgotten, BeginDrop
  <2>2. UNCHANGED client
    BY <1>11 DEF DropForgotten, BeginDrop
  <2>3. \A s \in Client : client[s].at = "live" => client[s].ch \in Conn
    BY <1>b DEF ClientInv, Served
  <2> QED BY <1>a, <1>b, <2>1, <2>2, <2>3 DEF LiveIsCovered, ChannelType
<1>12. ASSUME NEW c \in Conn, Unlink(c) PROVE LiveIsCovered'
  <2>1. \A s \in Client : client[s].at = "live" /\ client[s].ch = c =>
          s \in members[channel[c].tun]
    BY <1>a, <1>b DEF ClientInv, Served, WorkerInv, CountMatches, InSession
  <2>2. channel[c].tun \in Conn
    BY <1>12, <1>b DEF Unlink, WorkerInv, Served
  <2>3. /\ channel'[c].ids = members[channel[c].tun]
        /\ \A k \in Conn \ {c} : channel'[k] = channel[k]
    BY <1>12, <1>a DEF Unlink, ChannelType
  <2>4. \A s \in Client : client[s].at = "live" => client[s].ch \in Conn
    BY <1>b DEF ClientInv, Served
  <2>5. UNCHANGED client
    BY <1>12 DEF Unlink
  <2> QED BY <1>b, <2>1, <2>2, <2>3, <2>4, <2>5 DEF LiveIsCovered
<1>13. ASSUME NEW c \in Conn, EndNext(c) PROVE LiveIsCovered'
  <2>1. PICK s \in Client :
          /\ channel'[c].ids = channel[c].ids \ {s}
          /\ client[s].tun = channel[c].tun => ~InSession(s)'
          /\ \A o \in Client :
               /\ client'[o].tun = client[o].tun /\ client'[o].ch = client[o].ch
               /\ client'[o].at = client[o].at \/ (o = s /\ client'[o].at = "closed")
    BY <1>13, EndNextFacts
  <2>2. \A k \in Conn : /\ channel'[k].drop = channel[k].drop
                        /\ k # c => channel'[k].ids = channel[k].ids
    BY <1>13, EndNextFacts
  <2>3. \A o \in Client : client[o].at = "live" =>
          client[o].ch \in Conn /\ channel[client[o].ch].tun = client[o].tun
    BY <1>b DEF ClientInv, Served
  <2> SUFFICES ASSUME NEW o \in Client, client'[o].at = "live"
               PROVE \/ channel'[client'[o].ch].drop \in {"up", "closing"}
                     \/ o \in channel'[client'[o].ch].ids
    BY DEF LiveIsCovered
  <2>4. client[o].at = "live" /\ client'[o].ch = client[o].ch
    BY <2>1
  <2>5. o = s => client[o].ch # c
    BY <2>1, <2>3, <2>4 DEF InSession
  <2>6. /\ client[o].ch \in Conn
        /\ \/ channel[client[o].ch].drop \in {"up", "closing"}
           \/ o \in channel[client[o].ch].ids
    BY <1>b, <2>3, <2>4 DEF LiveIsCovered
  <2>10. client[o].ch \in Conn
    BY <2>6
  <2>7. channel'[client[o].ch].drop = channel[client[o].ch].drop
    BY <2>2, <2>10
  <2>8. o \in channel[client[o].ch].ids => o \in channel'[client[o].ch].ids
    <3>1. CASE client[o].ch # c
      <4>1. channel'[client[o].ch].ids = channel[client[o].ch].ids
        BY <2>2, <2>10, <3>1
      <4> QED BY <4>1
    <3>2. CASE client[o].ch = c
      <4>1. o # s
        BY <2>5, <3>2
      <4>2. channel'[c].ids = channel[c].ids \ {s}
        BY <2>1
      <4> QED BY <3>2, <4>1, <4>2
    <3> QED BY <3>1, <3>2
  <2>9. client'[o].ch = client[o].ch
    BY <2>4
  <2> QED BY <2>6, <2>7, <2>8, <2>9
<1>14. ASSUME NEW c \in Conn, Dropped(c) PROVE LiveIsCovered'
  <2>1. channel[c].ids = {} /\ channel[c].drop = "ending"
    BY <1>14 DEF Dropped
  <2>2. \A s \in Client : client[s].at = "live" => client[s].ch \in Conn \ {c}
    BY <1>b, <2>1 DEF LiveIsCovered, ClientInv, Served
  <2>3. (\A k \in Conn \ {c} : channel'[k] = channel[k]) /\ UNCHANGED client
    BY <1>14, <1>a DEF Dropped
  <2> QED BY <1>b, <2>2, <2>3 DEF LiveIsCovered
<1>15. ASSUME NEW c \in Conn, GraceEnds(c) PROVE LiveIsCovered'
  BY <1>15, <1>a, <1>b DEF GraceEnds, Spend, LiveIsCovered, ClientInv, Served, ChannelType, ClientType
<1>16. ASSUME NEW s \in Client, NEW t \in Token, Route(s, t) PROVE LiveIsCovered'
  BY <1>16, <1>a, <1>b DEF Route, sweepLocked, LiveIsCovered, ClientInv, Served, ChannelType, ClientType
<1>17. ASSUME NEW s \in Client, Open(s) PROVE LiveIsCovered'
  BY <1>17, <1>a, <1>b DEF Open, LiveIsCovered, ClientInv, Served, ChannelType, ClientType
<1>18. ASSUME NEW s \in Client, SendHead(s) PROVE LiveIsCovered'
  BY <1>18, <1>b, SessionFacts DEF LiveIsCovered
<1>19. ASSUME NEW s \in Client, SessionEnds(s) PROVE LiveIsCovered'
  BY <1>19, <1>b, SessionFacts DEF LiveIsCovered
<1>20. ASSUME NEW t \in Token, forgetTunnel(t) PROVE LiveIsCovered'
  BY <1>20, <1>a, <1>b DEF forgetTunnel, Spend, LiveIsCovered, ClientInv, Served, ChannelType, ClientType
<1>21. ASSUME Poll PROVE LiveIsCovered'
  BY <1>21, <1>a, <1>b DEF Poll, sweepLocked, LiveIsCovered, ClientInv, Served, ChannelType, ClientType
<1> QED BY <1>0, <1>1, <1>2, <1>3, <1>4, <1>5, <1>6, <1>7, <1>8, <1>9, <1>10, <1>11, <1>12, <1>13, <1>14, <1>15, <1>16, <1>17, <1>18, <1>19, <1>20, <1>21, Steps

----------------------------------------------------------------------------

\* The inductive invariant of the registration and the routing of sessions.
THEOREM SpecIInv == Spec => []IInv
<1>1. IInv /\ [Next]_vars => IInv'
  BY TypeStep, WorkerStep, TableStep, ClientStep, StrayStep, CountStep, CoverStep DEF IInv
<1> QED BY InitIInv, <1>1, PTL DEF Spec

\* The relay's tables and records are well typed (vscrelay.go: vscRelay,
\* vscTunnel, vscChannel, vscSession).
THEOREM TypeCorrect == Spec => []TypeOK
<1>1. IInv => TypeOK
  BY DEF IInv
<1> QED BY <1>1, SpecIInv, PTL

\* No worker is left connected to a tunnel nobody finds (handleWorker,
\* forgetTunnel, sweepLocked).
THEOREM ChannelsAreFound == Spec => []NoStrayChannel
<1>1. IInv => NoStrayChannel
  BY DEF IInv
<1> QED BY <1>1, SpecIInv, PTL

\* A device has one serving channel (handleWorker, dropChannel).
THEOREM DevicesAreUnique == Spec => []OneChannelPerDevice
<1>1. IInv => OneChannelPerDevice
  BY DEF IInv
<1> QED BY <1>1, SpecIInv, PTL

\* The count that limits sessions is exact (handleClient, endSession).
THEOREM SessionsAreCounted == Spec => []CountMatches
<1>1. IInv => CountMatches
  BY DEF IInv
<1> QED BY <1>1, SpecIInv, PTL

\* No session outlives the channel it is used on (dropChannel, readLoop).
THEOREM SessionsAreCollected == Spec => []LiveIsCovered
<1>1. IInv => LiveIsCovered
  BY DEF IInv
<1> QED BY <1>1, SpecIInv, PTL

=============================================================================
