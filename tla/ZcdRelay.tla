------------------------------ MODULE ZcdRelay ------------------------------
(***************************************************************************)
(* relay://zcode (tools/kvs/pkg/zcdrelay.go): desktops ("device") and      *)
(* their remote controls ("terminal") authenticate for a device_sid, and   *)
(* frames are forwarded between the two sides of a sid.  A newer           *)
(* connection for the same side kicks the older.                           *)
(*                                                                         *)
(* Every connection has a reader, which serves one frame after the other,  *)
(* and an auth timer.  A step is one hold of a lock, or one message to a   *)
(* client; the lock is released while somebody is kicked or told.  The     *)
(* file behind the records is ZcdStore.                                    *)
(***************************************************************************)
EXTENDS Naturals

CONSTANTS
  Conn,     \* connections
  Asks,     \* bound: what may open a connection, Conn -> sets of <<role, ?mid=>>
  Slow,     \* bound: connections that may let their auth timer fire
  Device,   \* device_sid values
  Mid,      \* device_mid values
  None,
  Budget    \* bound: registrations, queries, removals of a device

Role == {"device", "terminal"}
Status == {"waiting", "matched"}

ASSUME RelayAssumption ==
  /\ None \notin Conn \cup Device \cup Mid \cup Role
  /\ Asks \in [Conn -> SUBSET (Role \X (Mid \cup {None}))]
  /\ Slow \subseteq Conn
  /\ Budget \in Nat

VARIABLES
  bySid, byMid, \* the store's records and their index
  conn,         \* the fields of a connection and its reader's control point
  timer,        \* the auth timers
  devices,      \* device_sid -> the live device connection
  terminals,    \* device_sid -> live terminal connections
  heard,        \* the peers it had when it was told "matched"
  budget

store == <<bySid, byMid>>
tables == <<devices, terminals>>
vars == <<store, conn, timer, tables, heard, budget>>

\* at: where the reader is.  want, says: the sid of a registration
\* and its mid.  peer: whom it
\* kicks, and then: where it goes on after that.  due, todo: connections a
\* loop over a table must and may still visit.  word: the status to send.
Reader ==
  [at : {"new", "read", "upsert", "register", "adopt", "auth", "settle", "mark", "drop",
         "ack", "notify", "answer", "farewell", "gone"},
   mid : Mid \cup {None}, role : Role \cup {None}, sid : Device \cup {None},
   nonce : BOOLEAN, authenticated : BOOLEAN, detached : BOOLEAN, superseded : BOOLEAN,
   open : BOOLEAN, want : Device \cup {None},
   says : Mid \cup {None}, peer : Conn \cup {None},
   then : {"read", "adopt", "settle"}, due : SUBSET Conn, todo : SUBSET Conn,
   word : Status]
Timer == [at : {"off", "set", "late", "closed", "telling", "done"}, due : SUBSET Conn, word : Status]

TypeOK ==
  /\ bySid \in [Device -> Mid \cup {None}]
  /\ byMid \in [Mid -> Device \cup {None}]
  /\ conn \in [Conn -> Reader]
  /\ timer \in [Conn -> Timer]
  /\ devices \in [Device -> Conn \cup {None}]
  /\ terminals \in [Device -> SUBSET Conn]
  /\ heard \in [Conn -> SUBSET Conn]
  /\ budget \in Nat

Fresh == [at |-> "new", mid |-> None, role |-> None, sid |-> None, nonce |-> FALSE,
          authenticated |-> FALSE, detached |-> FALSE, superseded |-> FALSE,
          open |-> TRUE, want |-> None, says |-> None, peer |-> None, then |-> "read", due |-> {},
          todo |-> {}, word |-> "waiting"]

\* The store knows one device, or none.
Init ==
  /\ bySid \in {[s \in Device |-> None]} \cup
       {[[s \in Device |-> None] EXCEPT ![d] = m] : d \in Device, m \in Mid}
  /\ byMid = [m \in Mid |-> IF \E s \in Device : bySid[s] = m
                              THEN CHOOSE s \in Device : bySid[s] = m ELSE None]
  /\ conn = [c \in Conn |-> Fresh]
  /\ timer = [c \in Conn |-> [at |-> "off", due |-> {}, word |-> "waiting"]]
  /\ devices = [s \in Device |-> None]
  /\ terminals = [s \in Device |-> {}]
  /\ heard = [c \in Conn |-> {}]
  /\ budget = Budget

Spend ==
  /\ budget > 0
  /\ budget' = budget - 1

Live(c) == devices[conn[c].sid]

pairStatus(s) == IF devices[s] # None /\ terminals[s] # {} THEN "matched" ELSE "waiting"

\* The other side of a connection's pairing, which notifyPeer tells and
\* onData forwards to.
Peers(c) ==
  LET s == conn[c].sid
  IN IF conn[c].role = "device" THEN terminals[s]
     ELSE IF devices[s] # None THEN {devices[s]} ELSE {}

\* onData: nothing is forwarded while the pairing waits.
Targets(c) ==
  IF conn[c].authenticated /\ pairStatus(conn[c].sid) = "matched" THEN Peers(c) ELSE {}

\* send: nothing goes to a detached connection.
Tell(c, word) ==
  heard' = IF word = "matched" /\ ~conn[c].detached
             THEN [heard EXCEPT ![c] = @ \cup Peers(c)] ELSE heard

At(c, at) == conn[c].at = at

----------------------------------------------------------------------------
(* A connection comes and goes.                                            *)

\* A desktop authenticates as device, a remote control as terminal.
Open(c) ==
  /\ At(c, "new")
  /\ \E ask \in Asks[c] : conn' = [conn EXCEPT ![c].at = "read", ![c].role = ask[1],
                                         ![c].mid = ask[2]]
  /\ timer' = [timer EXCEPT ![c].at = "set"]
  /\ UNCHANGED <<store, tables, heard, budget>>

\* detach: whom it leaves in the tables, and whom it tells what.
Leaves(c) == conn[c].authenticated /\ conn[c].sid # None /\ ~conn[c].detached

\* Mutant of detach: a superseded connection is taken to be out already.
detachUnlessReplaced(c) ==
  LET s == conn[c].sid
      leaves == Leaves(c) /\ ~conn[c].superseded
  IN /\ devices' = IF leaves /\ devices[s] = c THEN [devices EXCEPT ![s] = None] ELSE devices
     /\ terminals' = IF leaves /\ conn[c].role = "terminal"
                       THEN [terminals EXCEPT ![s] = @ \ {c}] ELSE terminals

detach(c) ==
  LET s == conn[c].sid
  IN /\ devices' = IF Leaves(c) /\ conn[c].role = "device" /\ devices[s] = c
                     THEN [devices EXCEPT ![s] = None] ELSE devices
     /\ terminals' = IF Leaves(c) /\ conn[c].role = "terminal"
                       THEN [terminals EXCEPT ![s] = @ \ {c}] ELSE terminals

\* A superseded connection pushes no status; nor does a device that is not in
\* the table any more.
LeftBehind(c) ==
  IF ~Leaves(c) \/ conn[c].superseded THEN {}
  ELSE IF conn[c].role = "device" /\ Live(c) # c THEN {} ELSE Peers(c)

StatusLeft(c) ==
  IF Leaves(c) /\ conn[c].role = "terminal" /\ Live(c) # None
     /\ terminals[conn[c].sid] \ {c} # {}
    THEN "matched" ELSE "waiting"

\* The reader's read fails: the timer is stopped.
Closed(c) ==
  /\ At(c, "read")
  /\ detach(c)
  /\ conn' = [conn EXCEPT ![c].at = IF LeftBehind(c) = {} THEN "gone" ELSE "farewell",
                         ![c].detached = TRUE, ![c].open = FALSE,
                         ![c].due = LeftBehind(c), ![c].word = StatusLeft(c)]
  /\ timer' = IF timer[c].at = "set" THEN [timer EXCEPT ![c].at = "off"] ELSE timer
  /\ UNCHANGED <<store, heard, budget>>

ReadFails(c) == ~conn[c].open /\ Closed(c)

\* The client goes.  A reader at work finds out when it reads again.
ClientCloses(c) == conn[c].open /\ Closed(c)

\* A loop over peers: each is told after the lock is released.
TellPeer(c) ==
  /\ conn[c].at \in {"notify", "farewell"}
  /\ \E p \in conn[c].due \cap Peers(c) :
       /\ Tell(p, conn[c].word)
       /\ conn' = [conn EXCEPT ![c].due = conn[c].due \ {p}]
  /\ UNCHANGED <<store, timer, tables, budget>>

PeersTold(c) ==
  /\ conn[c].at \in {"notify", "farewell"}
  /\ conn[c].due \cap Peers(c) = {}
  /\ conn' = [conn EXCEPT ![c].at = IF @ = "notify" THEN "read" ELSE "gone", ![c].due = {}]
  /\ UNCHANGED <<store, timer, tables, heard, budget>>

----------------------------------------------------------------------------
(* The auth timer: it looks, and closes and detaches without looking       *)
(* again.                                                                  *)

\* In time, the timer does nothing.
TimerFires(c) ==
  /\ c \in Slow
  /\ timer[c].at = "set" /\ ~conn[c].authenticated
  /\ timer' = [timer EXCEPT ![c].at = "late"]
  /\ UNCHANGED <<store, conn, tables, heard, budget>>

TimerCloses(c) ==
  /\ timer[c].at = "late"
  /\ timer' = [timer EXCEPT ![c].at = "closed"]
  /\ conn' = [conn EXCEPT ![c].open = FALSE]
  /\ UNCHANGED <<store, tables, heard, budget>>

TimerDetaches(c) ==
  /\ timer[c].at = "closed"
  /\ detach(c)
  /\ timer' = [timer EXCEPT ![c] =
               [at |-> IF LeftBehind(c) = {} THEN "done" ELSE "telling",
                due |-> LeftBehind(c), word |-> StatusLeft(c)]]
  /\ conn' = [conn EXCEPT ![c].detached = TRUE]
  /\ UNCHANGED <<store, heard, budget>>

TimerTells(c) ==
  /\ timer[c].at = "telling"
  /\ IF timer[c].due \cap Peers(c) = {}
       THEN /\ timer' = [timer EXCEPT ![c].at = "done", ![c].due = {}]
            /\ UNCHANGED heard
       ELSE \E p \in timer[c].due \cap Peers(c) :
              /\ Tell(p, timer[c].word)
              /\ timer' = [timer EXCEPT ![c].due = @ \ {p}]
  /\ UNCHANGED <<store, conn, tables, budget>>

AuthTimer(c) == TimerFires(c) \/ TimerCloses(c) \/ TimerDetaches(c) \/ TimerTells(c)

----------------------------------------------------------------------------
(* kick: marked under the lock, told and closed outside of it.             *)

KickMark(c) ==
  /\ At(c, "mark")
  /\ LET p == conn[c].peer
     IN conn' = IF conn[p].detached
                  THEN [conn EXCEPT ![c].at = conn[c].then, ![c].peer = None]
                  ELSE [conn EXCEPT ![c].at = "drop", ![p].superseded = TRUE]
  /\ UNCHANGED <<store, timer, tables, heard, budget>>

KickDrop(c) ==
  /\ At(c, "drop")
  /\ LET p == conn[c].peer
     IN /\ detach(p)
        /\ conn' = [conn EXCEPT ![c].at = conn[c].then, ![c].peer = None,
                                ![p].open = FALSE, ![p].detached = TRUE]
  /\ UNCHANGED <<store, timer, heard, budget>>

----------------------------------------------------------------------------
(* device_register_init.                                                   *)

Frame(c) == At(c, "read") /\ conn[c].open

\* A mid keeps its sid; for a new one a sid is minted.
RegisterInit(c, m) ==
  /\ Frame(c) /\ ~conn[c].authenticated /\ conn[c].role = "device"
  /\ conn[c].mid \in {None, m}
  /\ \E s \in Device :
       /\ IF byMid[m] # None THEN s = byMid[m]
          ELSE bySid[s] = None /\ \A o \in Conn : s \notin {conn[o].want, conn[o].sid}
       /\ conn' = [conn EXCEPT ![c].at = "upsert", ![c].want = s, ![c].says = m]
  /\ Spend
  /\ UNCHANGED <<store, timer, tables, heard>>

upsert(c) ==
  /\ At(c, "upsert")
  /\ bySid' = [bySid EXCEPT ![conn[c].want] = conn[c].says]
  /\ byMid' = [byMid EXCEPT ![conn[c].says] = conn[c].want]
  /\ conn' = [conn EXCEPT ![c].at = "register", ![c].says = None]
  /\ UNCHANGED <<timer, tables, heard, budget>>

\* A previous socket of this identity is kicked before the ack.
Register(c) ==
  /\ At(c, "register")
  /\ LET live == devices[conn[c].want]
     IN conn' = IF live \in {None, c}
                  THEN [conn EXCEPT ![c].at = "read", ![c].sid = conn[c].want, ![c].want = None]
                  ELSE [conn EXCEPT ![c].at = "mark", ![c].peer = live, ![c].then = "adopt"]
  /\ UNCHANGED <<store, timer, tables, heard, budget>>

Adopt(c) ==
  /\ At(c, "adopt")
  /\ conn' = [conn EXCEPT ![c].at = "read", ![c].sid = conn[c].want, ![c].want = None]
  /\ UNCHANGED <<store, timer, tables, heard, budget>>

----------------------------------------------------------------------------
(* auth_init and auth_response.                                            *)

\* Mutant of AuthInit: the mid is not compared.
AuthInitAnyMid(c, s) ==
  /\ Frame(c) /\ ~conn[c].authenticated
  /\ bySid[s] # None
  /\ conn' = [conn EXCEPT ![c].sid = s, ![c].nonce = TRUE]
  /\ UNCHANGED <<store, timer, tables, heard, budget>>

\* A connection with ?mid= is for the device of that mid alone.
AuthInit(c, s) ==
  /\ Frame(c) /\ ~conn[c].authenticated
  /\ bySid[s] # None
  /\ conn[c].mid \in {None, bySid[s]}
  /\ conn' = [conn EXCEPT ![c].sid = s, ![c].nonce = TRUE]
  /\ UNCHANGED <<store, timer, tables, heard, budget>>

\* A good proof; a bad one is answered with an error.
AuthResponse(c) ==
  /\ Frame(c) /\ ~conn[c].authenticated
  /\ conn[c].nonce
  /\ bySid[conn[c].sid] # None
  /\ conn' = [conn EXCEPT ![c].at = "auth"]
  /\ UNCHANGED <<store, timer, tables, heard, budget>>

\* onAuthResponse under the relay's lock: from here on the connection counts
\* as authenticated.  Whoever it replaces is kicked with the lock released.
Replaced(c) ==
  IF conn[c].role = "terminal" THEN terminals[conn[c].sid]
  ELSE {devices[conn[c].sid]} \ {None, c}

\* The next to kick, where somebody is left, or the connection enters its
\* table and learns the status there.  A terminal that joins during the loop
\* may be met or missed.
Settle(c, conns, due, todo) ==
  \/ /\ \E o \in todo \cap Replaced(c) :
          conn' = [conns EXCEPT ![c].at = "mark", ![c].peer = o, ![c].then = "settle",
                                ![c].due = due \ {o}, ![c].todo = todo \ {o}]
     /\ UNCHANGED tables
  \/ /\ due \cap Replaced(c) = {}
     /\ IF conn[c].role = "device"
          THEN /\ devices' = [devices EXCEPT ![conn[c].sid] = c]
               /\ UNCHANGED terminals
          ELSE /\ terminals' = [terminals EXCEPT ![conn[c].sid] = @ \cup {c}]
               /\ UNCHANGED devices
     /\ conn' = [conns EXCEPT ![c].at = "ack", ![c].due = {}, ![c].todo = {},
                              ![c].word = IF Peers(c) # {} THEN "matched" ELSE "waiting"]

Authenticate(c) ==
  /\ At(c, "auth")
  /\ Settle(c, [conn EXCEPT ![c].nonce = FALSE, ![c].authenticated = TRUE], Replaced(c),
            IF conn[c].role = "device" THEN Replaced(c) ELSE Conn \ {c})
  /\ UNCHANGED <<store, timer, heard, budget>>

Resettle(c) ==
  /\ At(c, "settle")
  /\ Settle(c, conn, conn[c].due, conn[c].todo)
  /\ UNCHANGED <<store, timer, heard, budget>>

\* Mutant of AuthAck: only a desktop tells the other side.
AuthAckDevice(c) ==
  /\ At(c, "ack")
  /\ Tell(c, conn[c].word)
  /\ conn' = IF conn[c].word = "matched" /\ conn[c].role = "device"
               THEN [conn EXCEPT ![c].at = "notify", ![c].due = Peers(c)]
               ELSE [conn EXCEPT ![c].at = "read"]
  /\ UNCHANGED <<store, timer, tables, budget>>

\* auth_ack, and the other side is told of a match.
AuthAck(c) ==
  /\ At(c, "ack")
  /\ Tell(c, conn[c].word)
  /\ conn' = IF conn[c].word = "matched"
               THEN [conn EXCEPT ![c].at = "notify", ![c].due = Peers(c)]
               ELSE [conn EXCEPT ![c].at = "read"]
  /\ UNCHANGED <<store, timer, tables, budget>>

----------------------------------------------------------------------------
(* pair_status_query.                                                      *)

onPairStatusQuery(c) ==
  /\ Frame(c) /\ conn[c].authenticated
  /\ conn' = [conn EXCEPT ![c].at = "answer", ![c].word = pairStatus(conn[c].sid)]
  /\ Spend
  /\ UNCHANGED <<store, timer, tables, heard>>

Answer(c) ==
  /\ At(c, "answer")
  /\ Tell(c, conn[c].word)
  /\ conn' = [conn EXCEPT ![c].at = "read"]
  /\ UNCHANGED <<store, timer, tables, budget>>

----------------------------------------------------------------------------
\* The manager deletes the card of a device (ZcdStore).
Forget(s) ==
  /\ bySid[s] # None
  /\ bySid' = [bySid EXCEPT ![s] = None]
  /\ byMid' = [m \in Mid |-> IF bySid[s] = m /\ byMid[m] = s THEN None ELSE byMid[m]]
  /\ Spend
  /\ UNCHANGED <<conn, timer, tables, heard>>

\* What a reader does before it reads again.
Serve(c) ==
  \/ ReadFails(c) \/ TellPeer(c) \/ PeersTold(c)
  \/ KickMark(c) \/ KickDrop(c)
  \/ upsert(c) \/ Register(c) \/ Adopt(c)
  \/ Authenticate(c) \/ Resettle(c) \/ AuthAck(c)
  \/ Answer(c)

onMessage(c) ==
  \/ \E m \in Mid : RegisterInit(c, m)
  \/ \E s \in Device : AuthInit(c, s)
  \/ AuthResponse(c)
  \/ onPairStatusQuery(c)

Next ==
  \/ \E c \in Conn : Open(c) \/ ClientCloses(c) \/ onMessage(c) \/ Serve(c) \/ AuthTimer(c)
  \/ \E s \in Device : Forget(s)

\* Readers are goroutines; clients need not send anything.
Spec == Init /\ [][Next]_vars /\ \A c \in Conn : WF_vars(Serve(c))

----------------------------------------------------------------------------
(* Properties.                                                             *)

Tabled(c) == \E s \in Device : devices[s] = c \/ c \in terminals[s]

\* onData forwards to authenticated connections of the other side and of the
\* same sid; a connection that named its mid stays with the device of that
\* mid, although devices may share the relay and be deleted and minted anew.
DataStaysInPair ==
  \A c \in Conn :
    /\ \A t \in Targets(c) : /\ conn[t].authenticated /\ conn[t].sid = conn[c].sid
                             /\ conn[t].role # conn[c].role
    /\ conn[c].authenticated /\ conn[c].mid # None =>
         bySid[conn[c].sid] \in {None, conn[c].mid}

\* A connection that is gone stays in a table for one reason alone: its auth
\* timer looked before it was authenticated and detached it after.
GhostNeedsTimer ==
  \A c \in Conn :
    Tabled(c) /\ conn[c].detached => timer[c].at \in {"telling", "done"}

\* A desktop and a terminal that stay paired are both told so, whoever comes
\* first and whoever is kicked or leaves meanwhile: again and again there is a
\* time when nobody is left uninformed.
Paired(d, t) ==
  /\ \E s \in Device : devices[s] = d /\ t \in terminals[s]
  /\ ~conn[d].detached /\ ~conn[t].detached
BothLearn ==
  []<>(\A d, t \in Conn : Paired(d, t) => t \in heard[d] /\ d \in heard[t])

\* zcdrelay.go says of devices "the single live device connection", and of
\* terminals "Single terminal policy: newest wins".  Two that kick a third at
\* once both stay: each looked before the other was in the table.
NewestWins ==
  \A c, o \in Conn :
    /\ At(c, "read") /\ conn[c].authenticated /\ ~conn[c].detached
    /\ At(o, "read") /\ conn[o].authenticated /\ ~conn[o].detached
    /\ conn[c].sid = conn[o].sid /\ conn[c].role = conn[o].role
    => c = o

\* zcdrelay.go says in detach that a superseded connection "has already been
\* replaced, so it must not push status".  One that is kicked for a
\* registration has not: its terminals are not told.
SupersededIsReplaced ==
  \A c \in Conn :
    conn[c].superseded /\ conn[c].detached /\ conn[c].role = "device" /\ conn[c].sid # None =>
      \/ Live(c) # None
      \/ terminals[conn[c].sid] = {}
      \/ \E o \in Conn : conn[o].sid = conn[c].sid /\ conn[o].at \in {"settle", "mark", "drop"}

=============================================================================
