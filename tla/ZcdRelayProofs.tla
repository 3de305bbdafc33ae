--------------------------- MODULE ZcdRelayProofs ---------------------------
(***************************************************************************)
(* Theorems about ZcdRelay for every number of connections and devices,    *)
(* whatever opens a connection and however slow the auth timers are.       *)
(***************************************************************************)
EXTENDS ZcdRelay, TLAPS

----------------------------------------------------------------------------
(* The invariants.                                                         *)

Kicking(q) == q.at \in {"mark", "drop"}

\* From the registration's frame to the sid the connection gets.
Registering(q) ==
  \/ q.at \in {"upsert", "register", "adopt"}
  \/ Kicking(q) /\ q.then = "adopt"

\* From a good proof to the table.
Entering(q) ==
  \/ q.at \in {"auth", "settle"}
  \/ Kicking(q) /\ q.then = "settle"

\* A connection that has been in a table.
Entered(q) == q.authenticated /\ ~Entering(q)

\* What the reader has, by where it is.
Reads(q) ==
  /\ q.at = "new" => q.sid = None /\ q.want = None /\ ~q.authenticated /\ ~q.nonce
  /\ q.at # "new" => q.role # None
  /\ Registering(q) => ~q.authenticated /\ q.want # None
  /\ q.at = "upsert" => q.says # None
  /\ Entering(q) => q.at = "auth" \/ q.authenticated
  /\ q.at \in {"ack", "notify", "answer", "farewell"} => q.authenticated
  /\ q.at = "auth" \/ q.nonce \/ q.authenticated => q.sid # None
  /\ Kicking(q) => q.then # "read" /\ q.peer # None

\* The readers, and whom they kick.
ReaderInv ==
  \A c \in Conn :
    /\ Reads(conn[c])
    /\ Kicking(conn[c]) => Entered(conn[conn[c].peer])

\* Closing and detaching: a detached connection takes no frame, and one that
\* is detached before it enters its table was late.
TimerInv ==
  \A c \in Conn :
    /\ conn[c].at = "new" => timer[c].at = "off" /\ ~conn[c].detached
    /\ conn[c].detached \/ timer[c].at \in {"closed", "telling", "done"} => ~conn[c].open
    /\ timer[c].at = "telling" => conn[c].authenticated
    /\ Entering(conn[c]) /\ conn[c].detached => timer[c].at \in {"telling", "done"}

\* Who is in a table is there for its sid and in its role.
TableInv ==
  \A s \in Device :
    /\ devices[s] # None => LET d == devices[s] IN
         Entered(conn[d]) /\ conn[d].sid = s /\ conn[d].role = "device"
    /\ \A t \in terminals[s] : Entered(conn[t]) /\ conn[t].sid = s /\ conn[t].role = "terminal"

\* A connection has a claim on its sid, and on the one it registers.
Claims(c, s) == s # None /\ s \in {conn[c].sid, conn[c].want}

\* The index points at records of its mids, and the connections that named
\* their mid claim no other device.  A registration under way agrees with the
\* record, with those and with the other registrations of its sid.
RecordInv ==
  /\ \A m \in Mid : byMid[m] # None => bySid[byMid[m]] = m
  /\ \A c \in Conn, s \in Device :
       Claims(c, s) /\ conn[c].mid # None => bySid[s] \in {None, conn[c].mid}
  /\ \A c \in Conn : conn[c].at = "upsert" =>
       /\ bySid[conn[c].want] \in {None, conn[c].says}
       /\ \A o \in Conn :
            /\ Claims(o, conn[c].want) /\ conn[o].mid # None => conn[o].mid = conn[c].says
            /\ conn[o].at = "upsert" /\ conn[o].want = conn[c].want => conn[o].says = conn[c].says

IInv == TypeOK /\ ReaderInv /\ TimerInv /\ TableInv /\ RecordInv /\ GhostNeedsTimer

----------------------------------------------------------------------------
(* Steps.                                                                  *)

\* Next as one disjunction of the actions the proofs go through.
LEMMA Steps ==
  ASSUME Next
  PROVE \/ \E c \in Conn :
             \/ Open(c) \/ Closed(c) \/ TellPeer(c) \/ PeersTold(c)
             \/ TimerFires(c) \/ TimerCloses(c) \/ TimerDetaches(c) \/ TimerTells(c)
             \/ KickMark(c) \/ KickDrop(c)
             \/ \E m \in Mid : RegisterInit(c, m)
             \/ upsert(c) \/ Register(c) \/ Adopt(c)
             \/ \E s \in Device : AuthInit(c, s)
             \/ AuthResponse(c) \/ Authenticate(c) \/ Resettle(c) \/ AuthAck(c)
             \/ onPairStatusQuery(c) \/ Answer(c)
        \/ \E s \in Device : Forget(s)
  BY DEF Next, Serve, onMessage, AuthTimer, ReadFails, ClientCloses

\* The peers of a connection are authenticated connections.
LEMMA PeersType ==
  ASSUME TypeOK, ReaderInv, TableInv, NEW c \in Conn, conn[c].authenticated
  PROVE  /\ Peers(c) \subseteq Conn
         /\ \A p \in Peers(c) : conn[p].authenticated
<1>1. conn[c].sid \in Device
  BY DEF TypeOK, Reader, ReaderInv, Reads
<1> QED BY <1>1 DEF TypeOK, Peers, TableInv, Entered

\* heard after somebody was told.
LEMMA TellType ==
  ASSUME TypeOK, ReaderInv, TableInv, NEW c \in Conn, conn[c].authenticated, NEW word, Tell(c, word)
  PROVE  heard' \in [Conn -> SUBSET Conn]
  BY PeersType DEF TypeOK, Tell

\* Detaching keeps the tables typed; who leaves somebody behind was
\* authenticated.
LEMMA DetachType ==
  ASSUME TypeOK, ReaderInv, TableInv, NEW c \in Conn, detach(c)
  PROVE  /\ devices' \in [Device -> Conn \cup {None}] /\ terminals' \in [Device -> SUBSET Conn]
         /\ LeftBehind(c) \subseteq Conn /\ StatusLeft(c) \in Status
         /\ LeftBehind(c) # {} => conn[c].authenticated
<1>1. conn[c].sid \in Device \cup {None}
  BY DEF TypeOK, Reader
<1>2. devices' \in [Device -> Conn \cup {None}] /\ terminals' \in [Device -> SUBSET Conn]
  BY <1>1 DEF TypeOK, detach, Leaves
<1>3. LeftBehind(c) \subseteq Conn /\ StatusLeft(c) \in Status
  BY PeersType DEF LeftBehind, StatusLeft, Status, Leaves
<1>4. LeftBehind(c) # {} => conn[c].authenticated
  BY DEF LeftBehind, Leaves
<1> QED BY <1>2, <1>3, <1>4

----------------------------------------------------------------------------
(* What a step is to the invariants.                                       *)

\* Groups of fields that stay.
Who(q, r) == q.mid = r.mid /\ q.role = r.role
Sid(q, r) == q.sid = r.sid /\ q.want = r.want /\ q.says = r.says
Auth(q, r) == q.nonce = r.nonce /\ q.authenticated = r.authenticated
Life(q, r) == q.detached = r.detached /\ q.open = r.open
Kick(q, r) == q.peer = r.peer /\ q.then = r.then

SameWho(c) == Who(conn'[c], conn[c])
SameSid(c) == Sid(conn'[c], conn[c])
SameAuth(c) == Auth(conn'[c], conn[c])
SameLife(c) == Life(conn'[c], conn[c])
SameKick(c) == Kick(conn'[c], conn[c])

Unmoved(c) ==
  /\ conn'[c].at = conn[c].at
  /\ SameWho(c) /\ SameSid(c) /\ SameAuth(c) /\ SameLife(c) /\ SameKick(c)

Others(c) == \A o \in Conn \ {c} : Unmoved(o)

\* The reader of c goes from one point to another.
Walks(c, from, to) == Others(c) /\ conn[c].at \in from /\ conn'[c].at \in to

Opens(c) ==
  /\ Walks(c, {"new"}, {"read"})
  /\ conn'[c].role # None /\ SameSid(c) /\ SameAuth(c) /\ SameLife(c)
  /\ timer' = [timer EXCEPT ![c].at = "set"]
  /\ UNCHANGED <<store, tables>>

Leaving(c) ==
  /\ Walks(c, {"read"}, {"gone", "farewell"})
  /\ SameWho(c) /\ SameSid(c) /\ SameAuth(c)
  /\ conn'[c].detached /\ ~conn'[c].open
  /\ conn'[c].at = "farewell" => conn[c].authenticated
  /\ detach(c)
  /\ timer' = IF timer[c].at = "set" THEN [timer EXCEPT ![c].at = "off"] ELSE timer
  /\ UNCHANGED store

GoesOn(c) ==
  /\ Walks(c, {"read", "notify", "farewell", "ack", "answer"},
           {"read", "notify", "farewell", "answer", "gone"})
  /\ conn[c].at = "read" => conn[c].authenticated
  /\ SameWho(c) /\ SameSid(c) /\ SameAuth(c) /\ SameLife(c)
  /\ UNCHANGED <<store, timer, tables>>

Ticks(c) ==
  /\ \/ timer[c].at = "set" /\ timer'[c].at = "late"
     \/ timer[c].at = "telling" /\ timer'[c].at \in {"telling", "done"}
  /\ \A o \in Conn \ {c} : timer'[o] = timer[o]
  /\ UNCHANGED <<store, conn, tables>>

CutsOff(c) ==
  /\ Walks(c, {conn[c].at}, {conn[c].at})
  /\ SameWho(c) /\ SameSid(c) /\ SameAuth(c) /\ SameKick(c)
  /\ conn'[c].detached = conn[c].detached /\ ~conn'[c].open
  /\ timer[c].at = "late" /\ timer' = [timer EXCEPT ![c].at = "closed"]
  /\ UNCHANGED <<store, tables>>

TakesOut(c) ==
  /\ Walks(c, {conn[c].at}, {conn[c].at})
  /\ SameWho(c) /\ SameSid(c) /\ SameAuth(c) /\ SameKick(c)
  /\ conn'[c].detached /\ conn'[c].open = conn[c].open
  /\ detach(c)
  /\ timer[c].at = "closed" /\ timer'[c].at \in {"telling", "done"}
  /\ timer'[c].at = "telling" => conn[c].authenticated
  /\ \A o \in Conn \ {c} : timer'[o] = timer[o]
  /\ UNCHANGED store

Marks(c) ==
  /\ Others(c) /\ conn[c].at = "mark"
  /\ SameWho(c) /\ SameSid(c) /\ SameAuth(c) /\ SameLife(c)
  /\ conn'[c].at = conn[c].then \/ (conn'[c].at = "drop" /\ SameKick(c))
  /\ UNCHANGED <<store, timer, tables>>

Drops(c, p) ==
  /\ conn[c].at = "drop" /\ p = conn[c].peer
  /\ conn'[c].at = conn[c].then
  /\ SameWho(c) /\ SameSid(c) /\ SameAuth(c) /\ SameLife(c)
  /\ conn'[p].at = conn[p].at
  /\ SameWho(p) /\ SameSid(p) /\ SameAuth(p) /\ SameKick(p)
  /\ conn'[p].detached /\ ~conn'[p].open
  /\ \A o \in Conn \ {c, p} : Unmoved(o)
  /\ detach(p)
  /\ UNCHANGED <<store, timer>>

Registers(c, m, s) ==
  /\ Walks(c, {"read"}, {"upsert"})
  /\ ~conn[c].authenticated /\ conn[c].open /\ conn[c].mid \in {None, m}
  /\ s = byMid[m] \/ (bySid[s] = None /\ \A o \in Conn : s \notin {conn[o].want, conn[o].sid})
  /\ SameWho(c) /\ SameAuth(c) /\ SameLife(c)
  /\ conn'[c].sid = conn[c].sid /\ conn'[c].want = s /\ conn'[c].says = m
  /\ UNCHANGED <<store, timer, tables>>

Upserts(c) ==
  /\ Walks(c, {"upsert"}, {"register"})
  /\ SameWho(c) /\ SameAuth(c) /\ SameLife(c)
  /\ conn'[c].sid = conn[c].sid /\ conn'[c].want = conn[c].want
  /\ bySid' = [bySid EXCEPT ![conn[c].want] = conn[c].says]
  /\ byMid' = [byMid EXCEPT ![conn[c].says] = conn[c].want]
  /\ UNCHANGED <<timer, tables>>

Adopts(c) ==
  /\ Walks(c, {"register", "adopt"}, {"read"})
  /\ SameWho(c) /\ SameAuth(c) /\ SameLife(c)
  /\ conn'[c].sid = conn[c].want /\ conn'[c].want = None
  /\ UNCHANGED <<store, timer, tables>>

\* c finds a predecessor p, by its registration or on its way to the table.
Finds(c, p) ==
  /\ Walks(c, {"register", "auth", "settle"}, {"mark"})
  /\ SameWho(c) /\ SameSid(c) /\ SameLife(c)
  /\ conn'[c].nonce => conn[c].nonce
  /\ IF conn[c].at = "register"
       THEN conn'[c].then = "adopt" /\ conn'[c].authenticated = conn[c].authenticated
       ELSE conn'[c].then = "settle" /\ (conn[c].authenticated \/ conn[c].at = "auth" => conn'[c].authenticated)
  /\ conn'[c].peer = p
  /\ p \in Conn /\ \E s \in Device : devices[s] = p \/ p \in terminals[s]
  /\ UNCHANGED <<store, timer, tables>>

Begins(c, s) ==
  /\ Walks(c, {"read"}, {"read"})
  /\ bySid[s] # None /\ conn[c].mid \in {None, bySid[s]} /\ ~conn[c].authenticated
  /\ SameWho(c) /\ SameLife(c)
  /\ conn'[c].sid = s /\ conn'[c].want = conn[c].want
  /\ conn'[c].authenticated = conn[c].authenticated
  /\ UNCHANGED <<store, timer, tables>>

Proves(c) ==
  /\ Walks(c, {"read"}, {"auth"})
  /\ conn[c].nonce /\ conn[c].open /\ ~conn[c].authenticated
  /\ SameWho(c) /\ SameSid(c) /\ SameAuth(c) /\ SameLife(c)
  /\ UNCHANGED <<store, timer, tables>>

Enters(c) ==
  /\ Walks(c, {"auth", "settle"}, {"ack"})
  /\ SameWho(c) /\ SameSid(c) /\ SameLife(c)
  /\ conn[c].authenticated \/ conn[c].at = "auth" => conn'[c].authenticated
  /\ IF conn[c].role = "device"
       THEN /\ devices' = [devices EXCEPT ![conn[c].sid] = c]
            /\ UNCHANGED terminals
       ELSE /\ terminals' = [terminals EXCEPT ![conn[c].sid] = @ \cup {c}]
            /\ UNCHANGED devices
  /\ UNCHANGED <<store, timer>>

Forgets(s) ==
  /\ bySid' = [bySid EXCEPT ![s] = None]
  /\ byMid' = [m \in Mid |-> IF bySid[s] = m /\ byMid[m] = s THEN None ELSE byMid[m]]
  /\ UNCHANGED <<conn, timer, tables>>

Kinds ==
  \/ UNCHANGED <<store, conn, timer, tables>>
  \/ \E c \in Conn :
       \/ Opens(c) \/ Leaving(c) \/ GoesOn(c)
       \/ Ticks(c) \/ CutsOff(c) \/ TakesOut(c)
       \/ Marks(c) \/ \E p \in Conn : Drops(c, p) \/ Finds(c, p)
       \/ \E m \in Mid, s \in Device : Registers(c, m, s)
       \/ Upserts(c) \/ Adopts(c)
       \/ \E s \in Device : Begins(c, s)
       \/ Proves(c) \/ Enters(c)
  \/ \E s \in Device : Forgets(s)

\* One reader's record is replaced.
LEMMA Put ==
  ASSUME TypeOK, NEW c \in Conn, NEW q \in Reader, conn' = [conn EXCEPT ![c] = q]
  PROVE  /\ conn' \in [Conn -> Reader] /\ conn'[c] = q /\ Others(c)
<1>1. \A o \in Conn \ {c} : conn'[o] = conn[o]
  BY DEF TypeOK
<1> QED BY <1>1 DEF TypeOK, Others, Unmoved, SameWho, SameSid, SameAuth, SameLife, SameKick,
                 Who, Sid, Auth, Life, Kick

\* A record of a reader stays one: its point changes.
LEMMA PutAt ==
  ASSUME NEW q \in Reader, NEW at \in {"adopt", "settle", "drop", "gone", "farewell"}
  PROVE  [q EXCEPT !.at = at] \in Reader
  BY DEF Reader

\* A record of a reader stays one: its peer changes.
LEMMA PutPeer ==
  ASSUME NEW q \in Reader, NEW peer \in Conn \cup {None}
  PROVE  [q EXCEPT !.peer = peer] \in Reader
  BY DEF Reader

\* A record of a reader stays one: it is kicked.
LEMMA PutSuperseded ==
  ASSUME NEW q \in Reader
  PROVE  [q EXCEPT !.superseded = TRUE] \in Reader
  BY DEF Reader

\* A record of a reader stays one: its socket ends.
LEMMA CutShort ==
  ASSUME NEW q \in Reader
  PROVE  [q EXCEPT !.open = FALSE, !.detached = TRUE] \in Reader
  BY DEF Reader

\* A record of a reader stays one: whom it tells what changes.
LEMMA PutDue ==
  ASSUME NEW q \in Reader, NEW due \in SUBSET Conn, NEW word \in Status
  PROVE  [q EXCEPT !.due = due, !.word = word] \in Reader
  BY DEF Reader

\* A record of a reader stays one: it goes on after a kick.
LEMMA MovedOn ==
  ASSUME NEW q \in Reader, NEW at \in {"adopt", "settle", "drop", "gone", "farewell"},
         NEW peer \in Conn \cup {None}
  PROVE  [q EXCEPT !.at = at, !.peer = peer] \in Reader
<1> DEFINE r == [q EXCEPT !.at = at]
<1>1. [r EXCEPT !.peer = peer] \in Reader
  BY PutAt, PutPeer
<1>2. [r EXCEPT !.peer = peer] = [q EXCEPT !.at = at, !.peer = peer]
  BY DEF Reader
<1> QED BY <1>1, <1>2

\* A record of a reader stays one: it leaves.
LEMMA LeftOff ==
  ASSUME NEW q \in Reader, NEW at \in {"gone", "farewell"}, NEW due \in SUBSET Conn, NEW word \in Status
  PROVE  [q EXCEPT !.at = at, !.detached = TRUE, !.open = FALSE, !.due = due, !.word = word] \in Reader
<1> DEFINE r == [q EXCEPT !.open = FALSE, !.detached = TRUE]
           x == [r EXCEPT !.at = at]
<1>1. r \in Reader
  BY CutShort
<1>2. x \in Reader
  BY <1>1, PutAt
<1>3. [x EXCEPT !.due = due, !.word = word] \in Reader
  BY <1>2, PutDue
<1>4. [x EXCEPT !.due = due, !.word = word]
        = [q EXCEPT !.at = at, !.detached = TRUE, !.open = FALSE, !.due = due, !.word = word]
  BY DEF Reader
<1> QED BY <1>3, <1>4

\* The timers stay timers: one of them goes to another point.
LEMMA TimerPut ==
  ASSUME TypeOK, NEW c \in Conn, NEW at \in {"off", "set", "late", "closed", "done"}
  PROVE  [timer EXCEPT ![c].at = at] \in [Conn -> Timer]
<1>1. timer \in [Conn -> Timer] /\ timer[c] \in Timer
  BY DEF TypeOK
<1>2. [timer[c] EXCEPT !.at = at] \in Timer
  BY <1>1 DEF Timer
<1> QED BY <1>1, <1>2

\* Two readers' records are replaced.
LEMMA PutTwo ==
  ASSUME TypeOK, NEW c \in Conn, NEW p \in Conn \ {c}, NEW q \in Reader, NEW r \in Reader,
         conn' = [conn EXCEPT ![c] = q, ![p] = r]
  PROVE  /\ conn' \in [Conn -> Reader] /\ conn'[c] = q /\ conn'[p] = r
         /\ \A o \in Conn \ {c, p} : Unmoved(o)
<1>1. \A o \in Conn \ {c, p} : conn'[o] = conn[o]
  BY DEF TypeOK
<1> QED BY <1>1 DEF TypeOK, Unmoved, SameWho, SameSid, SameAuth, SameLife, SameKick,
                 Who, Sid, Auth, Life, Kick

\* Whom a connection kicks is another one.
LEMMA PeerIsOther ==
  ASSUME TypeOK, ReaderInv, NEW c \in Conn, Kicking(conn[c])
  PROVE  conn[c].peer \in Conn \ {c} /\ conn[c].then \in {"adopt", "settle"}
<1>1. conn[c].peer \in Conn \cup {None}
  BY DEF TypeOK, Reader
<1>2. /\ conn[c].peer # None /\ Entered(conn[conn[c].peer]) /\ conn[c].then # "read"
      /\ Registering(conn[c]) => ~conn[c].authenticated
  BY DEF ReaderInv, Reads
<1>3. conn[c].then \in {"adopt", "settle"}
  BY <1>2 DEF TypeOK, Reader
<1>4. ~Entered(conn[c])
  BY <1>2, <1>3 DEF Entered, Registering, Entering
<1> QED BY <1>1, <1>2, <1>3, <1>4

\* On its way to the table a connection kicks one that is in it, or enters;
\* r is its record once it is authenticated.
LEMMA Settling ==
  ASSUME TypeOK, ReaderInv, NEW c \in Conn, conn[c].at \in {"auth", "settle"},
         NEW r \in Reader, Who(r, conn[c]), Sid(r, conn[c]), Life(r, conn[c]),
         r.nonce => conn[c].nonce, r.authenticated,
         NEW conns, conns = [conn EXCEPT ![c] = r],
         NEW due \in SUBSET Conn, NEW todo \in SUBSET Conn, Settle(c, conns, due, todo),
         UNCHANGED <<store, timer>>
  PROVE  /\ conn' \in [Conn -> Reader]
         /\ devices' \in [Device -> Conn \cup {None}] /\ terminals' \in [Device -> SUBSET Conn]
         /\ Enters(c) \/ \E p \in Conn : Finds(c, p)
<1>1. conn[c].sid \in Device /\ conn[c] \in Reader
  BY DEF TypeOK, Reader, ReaderInv, Reads, Entering
<1>2. ASSUME NEW o \in todo \cap Replaced(c), UNCHANGED tables,
             conn' = [conns EXCEPT ![c].at = "mark", ![c].peer = o, ![c].then = "settle",
                                   ![c].due = due \ {o}, ![c].todo = todo \ {o}]
      PROVE  conn' \in [Conn -> Reader] /\ Finds(c, o)
  <2> DEFINE q == [r EXCEPT !.at = "mark", !.peer = o, !.then = "settle",
                            !.due = due \ {o}, !.todo = todo \ {o}]
  <2>1. q \in Reader
    BY DEF Reader
  <2>2. /\ Who(q, r) /\ Sid(q, r) /\ Life(q, r) /\ Auth(q, r)
        /\ q.at = "mark" /\ q.peer = o /\ q.then = "settle"
    BY DEF Reader, Who, Sid, Life, Auth
  <2>3. conn' = [conn EXCEPT ![c] = q]
    BY <1>2 DEF TypeOK
  <2>4. \E s \in Device : devices[s] = o \/ o \in terminals[s]
    BY <1>1 DEF Replaced
  <2> HIDE DEF q
  <2>5. conn' \in [Conn -> Reader] /\ conn'[c] = q /\ Others(c)
    BY <2>1, <2>3, Put
  <2> QED BY <1>2, <2>2, <2>4, <2>5
          DEF Finds, Walks, SameWho, SameSid, SameLife, Who, Sid, Life, Auth, tables
<1>3. ASSUME NEW word \in Status,
             conn' = [conns EXCEPT ![c].at = "ack", ![c].due = {}, ![c].todo = {}, ![c].word = word],
             IF conn[c].role = "device"
               THEN /\ devices' = [devices EXCEPT ![conn[c].sid] = c]
                    /\ UNCHANGED terminals
               ELSE /\ terminals' = [terminals EXCEPT ![conn[c].sid] = @ \cup {c}]
                    /\ UNCHANGED devices
      PROVE  /\ conn' \in [Conn -> Reader] /\ Enters(c)
             /\ devices' \in [Device -> Conn \cup {None}] /\ terminals' \in [Device -> SUBSET Conn]
  <2> DEFINE q == [r EXCEPT !.at = "ack", !.due = {}, !.todo = {}, !.word = word]
  <2>1. q \in Reader
    BY DEF Reader
  <2>2. Who(q, r) /\ Sid(q, r) /\ Life(q, r) /\ Auth(q, r) /\ q.at = "ack"
    BY DEF Reader, Who, Sid, Life, Auth
  <2>3. conn' = [conn EXCEPT ![c] = q]
    BY <1>3 DEF TypeOK
  <2> HIDE DEF q
  <2>4. conn' \in [Conn -> Reader] /\ conn'[c] = q /\ Others(c)
    BY <2>1, <2>3, Put
  <2>5. Enters(c)
    BY <1>3, <2>2, <2>4 DEF Enters, Walks, SameWho, SameSid, SameLife, Who, Sid, Life, Auth
  <2>6. devices' \in [Device -> Conn \cup {None}] /\ terminals' \in [Device -> SUBSET Conn]
    BY <1>1, <1>3 DEF TypeOK
  <2> QED BY <2>4, <2>5, <2>6
<1>4. CASE \E o \in todo \cap Replaced(c) :
             /\ conn' = [conns EXCEPT ![c].at = "mark", ![c].peer = o, ![c].then = "settle",
                                      ![c].due = due \ {o}, ![c].todo = todo \ {o}]
             /\ UNCHANGED tables
  <2>1. PICK o \in todo \cap Replaced(c) :
             /\ conn' = [conns EXCEPT ![c].at = "mark", ![c].peer = o, ![c].then = "settle",
                                      ![c].due = due \ {o}, ![c].todo = todo \ {o}]
             /\ UNCHANGED tables
    BY <1>4
  <2>2. conn' \in [Conn -> Reader] /\ Finds(c, o) /\ o \in Conn
    BY <1>2, <2>1
  <2> QED BY <2>1, <2>2 DEF TypeOK, tables
<1>5. (IF Peers(c) # {} THEN "matched" ELSE "waiting") \in Status
  BY DEF Status
<1> QED BY <1>3, <1>4, <1>5 DEF Settle

\* Every step keeps the state well typed, and is of one of the kinds.
LEMMA StepKinds ==
  ASSUME TypeOK, ReaderInv, TimerInv, TableInv, [Next]_vars
  PROVE  TypeOK' /\ Kinds
<1> USE DEF store, tables
<1>R. \A c \in Conn : conn[c] \in Reader
  BY DEF TypeOK
<1>0. CASE UNCHANGED vars
  BY <1>0 DEF vars, TypeOK, Kinds
<1>1. ASSUME NEW c \in Conn, Open(c) PROVE TypeOK' /\ Kinds
  <2>1. PICK role \in Role, mid \in Mid \cup {None} :
          conn' = [conn EXCEPT ![c].at = "read", ![c].role = role, ![c].mid = mid]
    <3>1. PICK ask \in Asks[c] : conn' = [conn EXCEPT ![c].at = "read", ![c].role = ask[1], ![c].mid = ask[2]]
      BY <1>1 DEF Open
    <3>2. ask \in Role \X (Mid \cup {None})
      BY RelayAssumption
    <3> QED BY <3>1, <3>2
  <2>2. conn[c] \in Reader
    BY <1>R
  <2> DEFINE q == [conn[c] EXCEPT !.at = "read", !.role = role, !.mid = mid]
  <2>3. q \in Reader
    BY <2>2, <2>1 DEF Reader
  <2>4. /\ Sid(q, conn[c]) /\ Auth(q, conn[c]) /\ Life(q, conn[c])
        /\ q.at = "read" /\ q.role = role /\ q.mid = mid
    BY <2>2 DEF Reader, Sid, Auth, Life
  <2>5. conn' = [conn EXCEPT ![c] = q]
    BY <2>1
  <2> HIDE DEF q
  <2>6. conn' \in [Conn -> Reader] /\ conn'[c] = q /\ Others(c)
    BY <2>3, <2>5, Put
  <2>7. Opens(c)
    BY <1>1, <2>1, <2>4, <2>6, RelayAssumption DEF Open, At, Opens, Walks, SameSid, SameAuth, SameLife
  <2>8. timer' \in [Conn -> Timer]
    BY <1>1, TimerPut DEF Open
  <2>9. TypeOK'
    BY <1>1, <2>6, <2>8 DEF Open, TypeOK
  <2> QED BY <2>7, <2>9 DEF Kinds
<1>2. ASSUME NEW c \in Conn, Closed(c) PROVE TypeOK' /\ Kinds
  <2>1. /\ LeftBehind(c) \subseteq Conn /\ StatusLeft(c) \in Status
        /\ devices' \in [Device -> Conn \cup {None}] /\ terminals' \in [Device -> SUBSET Conn]
        /\ LeftBehind(c) # {} => conn[c].authenticated
    BY <1>2, DetachType DEF Closed
  <2>2. PICK at \in {"gone", "farewell"}, due \in SUBSET Conn, word \in Status :
          /\ at = "farewell" => conn[c].authenticated
          /\ conn' = [conn EXCEPT ![c].at = at, ![c].detached = TRUE, ![c].open = FALSE,
                                  ![c].due = due, ![c].word = word]
    BY <1>2, <2>1 DEF Closed
  <2>3. conn[c] \in Reader
    BY <1>R
  <2> DEFINE q == [conn[c] EXCEPT !.at = at, !.detached = TRUE, !.open = FALSE, !.due = due, !.word = word]
  <2>4. q \in Reader
    BY <2>3, <2>2, LeftOff
  <2>5. /\ Who(q, conn[c]) /\ Sid(q, conn[c]) /\ Auth(q, conn[c])
        /\ q.at = at /\ q.detached = TRUE /\ q.open = FALSE
    BY <2>3 DEF Reader, Who, Sid, Auth
  <2>6. conn' = [conn EXCEPT ![c] = q]
    BY <2>2
  <2> HIDE DEF q
  <2>7. conn' \in [Conn -> Reader] /\ conn'[c] = q /\ Others(c)
    BY <2>4, <2>6, Put
  <2>8. Leaving(c)
    BY <1>2, <2>1, <2>2, <2>5, <2>7 DEF Closed, At, Leaving, Walks, SameWho, SameSid, SameAuth
  <2>9. timer' \in [Conn -> Timer]
    BY <1>2, TimerPut DEF Closed, TypeOK
  <2>10. TypeOK'
    BY <1>2, <2>1, <2>7, <2>9 DEF Closed, TypeOK
  <2> QED BY <2>8, <2>10 DEF Kinds
<1>3. ASSUME NEW c \in Conn, TellPeer(c) PROVE TypeOK' /\ Kinds
  <2>1. conn[c].at \in {"notify", "farewell"} /\ conn[c].authenticated
    BY <1>3 DEF TellPeer, ReaderInv, Reads
  <2>2. PICK due \in SUBSET Conn : conn' = [conn EXCEPT ![c].due = due]
    <3>1. conn[c].due \in SUBSET Conn
      BY <1>R DEF Reader
    <3> QED BY <1>3, <3>1 DEF TellPeer
  <2>3. conn[c] \in Reader
    BY <1>R
  <2> DEFINE q == [conn[c] EXCEPT !.due = due]
  <2>4. q \in Reader
    BY <2>3, <2>2 DEF Reader
  <2>5. Who(q, conn[c]) /\ Sid(q, conn[c]) /\ Auth(q, conn[c]) /\ Life(q, conn[c]) /\ q.at = conn[c].at
    BY <2>3 DEF Reader, Who, Sid, Auth, Life
  <2>6. conn' = [conn EXCEPT ![c] = q]
    BY <2>2
  <2> HIDE DEF q
  <2>7. conn' \in [Conn -> Reader] /\ conn'[c] = q /\ Others(c)
    BY <2>4, <2>6, Put
  <2>8. GoesOn(c)
    BY <1>3, <2>1, <2>2, <2>5, <2>7 DEF TellPeer, At, GoesOn, Walks, SameWho, SameSid, SameAuth, SameLife
  <2>9. heard' \in [Conn -> SUBSET Conn]
    <3>1. PICK p \in Peers(c) : Tell(p, conn[c].word)
      BY <1>3 DEF TellPeer
    <3>2. p \in Conn /\ conn[p].authenticated
      BY <2>1, PeersType
    <3> QED BY <3>1, <3>2, TellType
  <2>10. TypeOK'
    BY <1>3, <2>1, <2>7, <2>9 DEF TellPeer, TypeOK
  <2> QED BY <2>8, <2>10 DEF Kinds
<1>4. ASSUME NEW c \in Conn, PeersTold(c) PROVE TypeOK' /\ Kinds
  <2>1. PICK at \in {"read", "gone"} : conn' = [conn EXCEPT ![c].at = at, ![c].due = {}]
    <3>1. conn' = [conn EXCEPT ![c].at = IF conn[c].at = "notify" THEN "read" ELSE "gone", ![c].due = {}]
      BY <1>4 DEF PeersTold
    <3> QED BY <3>1
  <2>2. conn[c] \in Reader
    BY <1>R
  <2> DEFINE q == [conn[c] EXCEPT !.at = at, !.due = {}]
  <2>3. q \in Reader
    BY <2>2, <2>1 DEF Reader
  <2>4. /\ Who(q, conn[c]) /\ Sid(q, conn[c]) /\ Auth(q, conn[c]) /\ Life(q, conn[c])
        /\ q.at = at
    BY <2>2 DEF Reader, Who, Sid, Auth, Life
  <2>5. conn' = [conn EXCEPT ![c] = q]
    BY <2>1
  <2> HIDE DEF q
  <2>6. conn' \in [Conn -> Reader] /\ conn'[c] = q /\ Others(c)
    BY <2>3, <2>5, Put
  <2>7. GoesOn(c)
    BY <1>4, <2>1, <2>4, <2>6 DEF PeersTold, At, GoesOn, Walks, SameWho, SameSid, SameAuth, SameLife
  <2>8. TypeOK'
    BY <1>4, <2>6 DEF PeersTold, TypeOK
  <2> QED BY <2>7, <2>8 DEF Kinds
<1>5. ASSUME NEW c \in Conn, TimerFires(c) PROVE TypeOK' /\ Kinds
  <2>1. timer' \in [Conn -> Timer]
    BY <1>5, TimerPut DEF TimerFires
  <2>2. Ticks(c)
    BY <1>5 DEF TimerFires, TypeOK, Timer, Ticks
  <2>3. TypeOK'
    BY <1>5, <2>1 DEF TimerFires, TypeOK
  <2> QED BY <2>2, <2>3 DEF Kinds
<1>6. ASSUME NEW c \in Conn, TimerCloses(c) PROVE TypeOK' /\ Kinds
  <2>1. conn[c] \in Reader
    BY <1>R
  <2> DEFINE q == [conn[c] EXCEPT !.open = FALSE]
  <2>2. q \in Reader
    BY <2>1 DEF Reader
  <2>3. /\ Who(q, conn[c]) /\ Sid(q, conn[c]) /\ Auth(q, conn[c]) /\ Kick(q, conn[c])
        /\ q.open = FALSE /\ q.detached = conn[c].detached
    BY <2>1 DEF Reader, Who, Sid, Auth, Kick
  <2>4. q.at = conn[c].at
    BY <2>1 DEF Reader
  <2>5. conn' = [conn EXCEPT ![c] = q]
    BY <1>6 DEF TimerCloses
  <2> HIDE DEF q
  <2>6. conn' \in [Conn -> Reader] /\ conn'[c] = q /\ Others(c)
    BY <2>2, <2>5, Put
  <2>7. CutsOff(c)
    BY <1>6, <2>3, <2>4, <2>6 DEF TimerCloses, At, CutsOff, Walks, SameWho, SameSid, SameAuth, SameKick
  <2>8. timer' \in [Conn -> Timer]
    BY <1>6, TimerPut DEF TimerCloses
  <2>9. TypeOK'
    BY <1>6, <2>6, <2>8 DEF TimerCloses, TypeOK
  <2> QED BY <2>7, <2>9 DEF Kinds
<1>7. ASSUME NEW c \in Conn, TimerDetaches(c) PROVE TypeOK' /\ Kinds
  <2>1. /\ LeftBehind(c) \subseteq Conn /\ StatusLeft(c) \in Status
        /\ devices' \in [Device -> Conn \cup {None}] /\ terminals' \in [Device -> SUBSET Conn]
        /\ LeftBehind(c) # {} => conn[c].authenticated
    BY <1>7, DetachType DEF TimerDetaches
  <2>2. conn[c] \in Reader
    BY <1>R
  <2> DEFINE q == [conn[c] EXCEPT !.detached = TRUE]
  <2>3. q \in Reader
    BY <2>2 DEF Reader
  <2>4. /\ Who(q, conn[c]) /\ Sid(q, conn[c]) /\ Auth(q, conn[c]) /\ Kick(q, conn[c])
        /\ q.detached = TRUE /\ q.open = conn[c].open
    BY <2>2 DEF Reader, Who, Sid, Auth, Kick
  <2>5. q.at = conn[c].at
    BY <2>2 DEF Reader
  <2>6. conn' = [conn EXCEPT ![c] = q]
    BY <1>7 DEF TimerDetaches
  <2> HIDE DEF q
  <2>7. conn' \in [Conn -> Reader] /\ conn'[c] = q /\ Others(c)
    BY <2>3, <2>6, Put
  <2>8. TakesOut(c)
    BY <1>7, <2>1, <2>4, <2>5, <2>7 DEF TimerDetaches, At, TakesOut, Walks, SameWho, SameSid, SameAuth, SameKick, TypeOK, Timer
  <2>9. timer' \in [Conn -> Timer]
    BY <1>7, <2>1 DEF TimerDetaches, TypeOK, Timer
  <2>10. TypeOK'
    BY <1>7, <2>1, <2>7, <2>9 DEF TimerDetaches, TypeOK
  <2> QED BY <2>8, <2>10 DEF Kinds
<1>8. ASSUME NEW c \in Conn, TimerTells(c) PROVE TypeOK' /\ Kinds
  <2>1. timer[c].at = "telling" /\ conn[c].authenticated
    BY <1>8 DEF TimerTells, TimerInv
  <2>2. timer' \in [Conn -> Timer] /\ Ticks(c)
    <3>1. CASE timer' = [timer EXCEPT ![c].at = "done", ![c].due = {}]
      BY <1>8, <2>1, <3>1 DEF TimerTells, TypeOK, Timer, Ticks
    <3>2. ASSUME NEW p, timer' = [timer EXCEPT ![c].due = @ \ {p}] PROVE timer' \in [Conn -> Timer] /\ Ticks(c)
      <4>1. timer \in [Conn -> Timer] /\ timer[c] \in Timer
        BY DEF TypeOK
      <4>2. [timer[c] EXCEPT !.due = @ \ {p}] \in Timer /\ [timer[c] EXCEPT !.due = @ \ {p}].at = "telling"
        BY <2>1, <4>1 DEF Timer
      <4>3. timer' = [timer EXCEPT ![c] = [timer[c] EXCEPT !.due = @ \ {p}]]
        BY <3>2
      <4> QED BY <1>8, <2>1, <4>1, <4>2, <4>3 DEF TimerTells, Ticks
    <3> QED BY <1>8, <3>1, <3>2 DEF TimerTells
  <2>3. heard' \in [Conn -> SUBSET Conn]
    <3>1. CASE UNCHANGED heard
      BY <3>1 DEF TypeOK
    <3>2. ASSUME NEW p \in Peers(c), Tell(p, timer[c].word) PROVE heard' \in [Conn -> SUBSET Conn]
      <4>1. p \in Conn /\ conn[p].authenticated
        BY <2>1, PeersType
      <4> QED BY <3>2, <4>1, TellType
    <3> QED BY <1>8, <3>1, <3>2 DEF TimerTells
  <2>4. TypeOK'
    BY <1>8, <2>2, <2>3 DEF TimerTells, TypeOK
  <2> QED BY <2>2, <2>4 DEF Kinds
<1>9. ASSUME NEW c \in Conn, KickMark(c) PROVE TypeOK' /\ Kinds
  <2> DEFINE p == conn[c].peer
  <2>1. /\ conn[c].at = "mark" /\ p \in Conn \ {c} /\ conn[c].then \in {"adopt", "settle"}
        /\ UNCHANGED <<store, timer, tables>>
    BY <1>9, PeerIsOther DEF KickMark, At, Kicking
  <2> HIDE DEF p
  <2>2. conn[c] \in Reader /\ conn[p] \in Reader
    BY <1>R, <2>1
  <2>3. ASSUME conn' = [conn EXCEPT ![c].at = conn[c].then, ![c].peer = None]
        PROVE  conn' \in [Conn -> Reader] /\ Marks(c)
    <3> DEFINE q == [conn[c] EXCEPT !.at = conn[c].then, !.peer = None]
    <3>1. q \in Reader
      BY <2>1, <2>2, MovedOn
    <3>2. /\ Who(q, conn[c]) /\ Sid(q, conn[c]) /\ Auth(q, conn[c]) /\ Life(q, conn[c])
          /\ q.at = conn[c].then
      BY <2>2 DEF Reader, Who, Sid, Auth, Life
    <3>3. conn' = [conn EXCEPT ![c] = q]
      BY <2>3
    <3> HIDE DEF q
    <3>4. conn' \in [Conn -> Reader] /\ conn'[c] = q /\ Others(c)
      BY <3>1, <3>3, Put
    <3> QED BY <2>1, <3>2, <3>4 DEF Marks, SameWho, SameSid, SameAuth, SameLife
  <2>4. ASSUME conn' = [conn EXCEPT ![c].at = "drop", ![p].superseded = TRUE]
        PROVE  conn' \in [Conn -> Reader] /\ Marks(c)
    <3> DEFINE q == [conn[c] EXCEPT !.at = "drop"]
               r == [conn[p] EXCEPT !.superseded = TRUE]
    <3>0. q \in Reader
      BY <2>2, PutAt
    <3>1. r \in Reader
      BY <2>2, PutSuperseded
    <3>2. /\ Who(q, conn[c]) /\ Sid(q, conn[c]) /\ Auth(q, conn[c]) /\ Life(q, conn[c])
          /\ Kick(q, conn[c]) /\ q.at = "drop"
      BY <2>2 DEF Reader, Who, Sid, Auth, Life, Kick
    <3>3. /\ Who(r, conn[p]) /\ Sid(r, conn[p]) /\ Auth(r, conn[p]) /\ Life(r, conn[p])
          /\ Kick(r, conn[p]) /\ r.at = conn[p].at
      BY <2>2 DEF Reader, Who, Sid, Auth, Life, Kick
    <3>4. conn' = [conn EXCEPT ![c] = q, ![p] = r]
      BY <2>1, <2>4 DEF TypeOK
    <3> HIDE DEF q, r
    <3>5. /\ conn' \in [Conn -> Reader] /\ conn'[c] = q /\ conn'[p] = r
          /\ \A o \in Conn \ {c, p} : Unmoved(o)
      BY <2>1, <3>0, <3>1, <3>4, PutTwo
    <3>6. Unmoved(p)
      BY <3>3, <3>5 DEF Unmoved, SameWho, SameSid, SameAuth, SameLife, SameKick
    <3>7. Others(c)
      BY <3>5, <3>6 DEF Others
    <3> QED BY <2>1, <3>2, <3>5, <3>7 DEF Marks, SameWho, SameSid, SameAuth, SameLife, SameKick
  <2>5. conn' \in [Conn -> Reader] /\ Marks(c)
    BY <1>9, <2>3, <2>4 DEF KickMark, p
  <2>6. TypeOK'
    BY <1>9, <2>5 DEF KickMark, TypeOK
  <2> QED BY <2>5, <2>6 DEF Kinds
<1>10. ASSUME NEW c \in Conn, KickDrop(c) PROVE TypeOK' /\ Kinds
  <2> DEFINE p == conn[c].peer
             q == [conn[c] EXCEPT !.at = conn[c].then, !.peer = None]
             r == [conn[p] EXCEPT !.open = FALSE, !.detached = TRUE]
  <2>1. conn[c].at = "drop" /\ p \in Conn \ {c} /\ conn[c].then \in {"adopt", "settle"} /\ detach(p)
    BY <1>10, PeerIsOther DEF KickDrop, At, Kicking
  <2>2. conn[c] \in Reader /\ conn[p] \in Reader
    BY <1>R, <2>1
  <2> HIDE DEF p
  <2>3. q \in Reader
    BY <2>1, <2>2, MovedOn
  <2>11. r \in Reader
    BY <2>2, CutShort
  <2>4. /\ Who(q, conn[c]) /\ Sid(q, conn[c]) /\ Auth(q, conn[c]) /\ Life(q, conn[c])
        /\ q.at = conn[c].then
    BY <2>2 DEF Reader, Who, Sid, Auth, Life
  <2>5. /\ Who(r, conn[p]) /\ Sid(r, conn[p]) /\ Auth(r, conn[p]) /\ Kick(r, conn[p])
        /\ r.at = conn[p].at /\ r.open = FALSE /\ r.detached = TRUE
    BY <2>2 DEF Reader, Who, Sid, Auth, Kick
  <2>6. conn' = [conn EXCEPT ![c] = q, ![p] = r]
    BY <1>10, <2>1 DEF KickDrop, TypeOK, p
  <2> HIDE DEF q, r
  <2>7. /\ conn' \in [Conn -> Reader] /\ conn'[c] = q /\ conn'[p] = r
        /\ \A o \in Conn \ {c, p} : Unmoved(o)
    BY <2>1, <2>3, <2>6, <2>11, PutTwo
  <2>8. Drops(c, p)
    BY <1>10, <2>1, <2>4, <2>5, <2>7 DEF p, KickDrop, Drops, SameWho, SameSid, SameAuth, SameLife, SameKick
  <2>9. devices' \in [Device -> Conn \cup {None}] /\ terminals' \in [Device -> SUBSET Conn]
    BY <2>1, DetachType
  <2>10. TypeOK'
    BY <1>10, <2>7, <2>9 DEF KickDrop, TypeOK
  <2> QED BY <2>1, <2>8, <2>10 DEF Kinds
<1>11. ASSUME NEW c \in Conn, NEW m \in Mid, RegisterInit(c, m) PROVE TypeOK' /\ Kinds
  <2>1. PICK s \in Device :
          /\ s = byMid[m] \/ (bySid[s] = None /\ \A o \in Conn : s \notin {conn[o].want, conn[o].sid})
          /\ conn' = [conn EXCEPT ![c].at = "upsert", ![c].want = s, ![c].says = m]
    BY <1>11 DEF RegisterInit
  <2>2. conn[c] \in Reader
    BY <1>R
  <2> DEFINE q == [conn[c] EXCEPT !.at = "upsert", !.want = s, !.says = m]
  <2>3. q \in Reader
    BY <2>2, <2>1 DEF Reader
  <2>4. /\ Who(q, conn[c]) /\ Auth(q, conn[c]) /\ Life(q, conn[c])
        /\ q.sid = conn[c].sid /\ q.at = "upsert" /\ q.want = s /\ q.says = m
    BY <2>2 DEF Reader, Who, Auth, Life
  <2>5. conn' = [conn EXCEPT ![c] = q]
    BY <2>1
  <2> HIDE DEF q
  <2>6. conn' \in [Conn -> Reader] /\ conn'[c] = q /\ Others(c)
    BY <2>3, <2>5, Put
  <2>7. Registers(c, m, s)
    BY <1>11, <2>1, <2>4, <2>6 DEF RegisterInit, At, Registers, Walks, SameWho, SameAuth, SameLife, Frame
  <2>8. TypeOK'
    BY <1>11, <2>6 DEF RegisterInit, TypeOK, Spend
  <2> QED BY <2>7, <2>8 DEF Kinds
<1>12. ASSUME NEW c \in Conn, upsert(c) PROVE TypeOK' /\ Kinds
  <2>1. conn[c].at = "upsert" /\ conn[c].want \in Device /\ conn[c].says \in Mid
    BY <1>12, <1>R DEF upsert, At, ReaderInv, Reads, Registering, Reader
  <2>2. conn[c] \in Reader
    BY <1>R
  <2> DEFINE q == [conn[c] EXCEPT !.at = "register", !.says = None]
  <2>3. q \in Reader
    BY <2>2 DEF Reader
  <2>4. /\ Who(q, conn[c]) /\ Auth(q, conn[c]) /\ Life(q, conn[c])
        /\ q.sid = conn[c].sid /\ q.want = conn[c].want /\ q.at = "register" /\ q.says = None
    BY <2>2 DEF Reader, Who, Auth, Life
  <2>5. conn' = [conn EXCEPT ![c] = q]
    BY <1>12 DEF upsert
  <2> HIDE DEF q
  <2>6. conn' \in [Conn -> Reader] /\ conn'[c] = q /\ Others(c)
    BY <2>3, <2>5, Put
  <2>7. Upserts(c)
    BY <1>12, <2>1, <2>4, <2>6 DEF upsert, At, Upserts, Walks, SameWho, SameAuth, SameLife
  <2>8. TypeOK'
    BY <1>12, <2>1, <2>6 DEF upsert, TypeOK
  <2> QED BY <2>7, <2>8 DEF Kinds
<1>13. ASSUME NEW c \in Conn, Register(c) PROVE TypeOK' /\ Kinds
  <2>1. conn[c].at = "register" /\ conn[c].want \in Device /\ conn[c] \in Reader
    BY <1>13, <1>R DEF Register, At, ReaderInv, Reads, Registering, Reader
  <2>2. ASSUME conn' = [conn EXCEPT ![c].at = "read", ![c].sid = conn[c].want, ![c].want = None]
        PROVE  conn' \in [Conn -> Reader] /\ Kinds
    <3> DEFINE q == [conn[c] EXCEPT !.at = "read", !.sid = conn[c].want, !.want = None]
    <3>1. q \in Reader
      BY <2>1 DEF Reader
    <3>2. /\ Who(q, conn[c]) /\ Auth(q, conn[c]) /\ Life(q, conn[c])
          /\ q.at = "read" /\ q.sid = conn[c].want /\ q.want = None
      BY <2>1 DEF Reader, Who, Auth, Life
    <3>3. conn' = [conn EXCEPT ![c] = q]
      BY <2>2
    <3> HIDE DEF q
    <3>4. conn' \in [Conn -> Reader] /\ conn'[c] = q /\ Others(c)
      BY <3>1, <3>3, Put
    <3>5. Adopts(c)
      BY <1>13, <2>1, <3>2, <3>4 DEF Register, Adopts, Walks, SameWho, SameAuth, SameLife
    <3> QED BY <3>4, <3>5 DEF Kinds
  <2>3. ASSUME devices[conn[c].want] # None,
               conn' = [conn EXCEPT ![c].at = "mark", ![c].peer = devices[conn[c].want], ![c].then = "adopt"]
        PROVE  conn' \in [Conn -> Reader] /\ Kinds
    <3> DEFINE p == devices[conn[c].want]
               q == [conn[c] EXCEPT !.at = "mark", !.peer = p, !.then = "adopt"]
    <3>1. p \in Conn
      BY <2>1, <2>3 DEF TypeOK
    <3>2. q \in Reader
      BY <2>1, <3>1 DEF Reader
    <3>3. /\ Who(q, conn[c]) /\ Sid(q, conn[c]) /\ Auth(q, conn[c]) /\ Life(q, conn[c])
          /\ q.at = "mark" /\ q.peer = p /\ q.then = "adopt"
      BY <2>1 DEF Reader, Who, Sid, Auth, Life
    <3>4. conn' = [conn EXCEPT ![c] = q]
      BY <2>3
    <3>5. \E s \in Device : devices[s] = p
      BY <2>1
    <3> HIDE DEF p, q
    <3>6. conn' \in [Conn -> Reader] /\ conn'[c] = q /\ Others(c)
      BY <3>2, <3>4, Put
    <3>7. Finds(c, p)
      BY <1>13, <2>1, <3>1, <3>3, <3>5, <3>6
      DEF Register, Finds, Walks, SameWho, SameSid, SameLife, Auth
    <3> QED BY <3>1, <3>6, <3>7 DEF Kinds
  <2>4. conn' \in [Conn -> Reader] /\ Kinds
    BY <1>13, <2>2, <2>3 DEF Register
  <2> QED BY <1>13, <2>4 DEF Register, TypeOK
<1>14. ASSUME NEW c \in Conn, Adopt(c) PROVE TypeOK' /\ Kinds
  <2>1. conn[c] \in Reader
    BY <1>R
  <2> DEFINE q == [conn[c] EXCEPT !.at = "read", !.sid = conn[c].want, !.want = None]
  <2>2. q \in Reader
    BY <2>1 DEF Reader
  <2>3. /\ Who(q, conn[c]) /\ Auth(q, conn[c]) /\ Life(q, conn[c])
        /\ q.at = "read" /\ q.sid = conn[c].want /\ q.want = None
    BY <2>1 DEF Reader, Who, Auth, Life
  <2>4. conn' = [conn EXCEPT ![c] = q]
    BY <1>14 DEF Adopt
  <2> HIDE DEF q
  <2>5. conn' \in [Conn -> Reader] /\ conn'[c] = q /\ Others(c)
    BY <2>2, <2>4, Put
  <2>6. Adopts(c)
    BY <1>14, <2>3, <2>5 DEF Adopt, At, Adopts, Walks, SameWho, SameAuth, SameLife
  <2>7. TypeOK'
    BY <1>14, <2>5 DEF Adopt, TypeOK
  <2> QED BY <2>6, <2>7 DEF Kinds
<1>15. ASSUME NEW c \in Conn, NEW s \in Device, AuthInit(c, s) PROVE TypeOK' /\ Kinds
  <2>1. conn[c] \in Reader
    BY <1>R
  <2> DEFINE q == [conn[c] EXCEPT !.sid = s, !.nonce = TRUE]
  <2>2. q \in Reader
    BY <2>1 DEF Reader
  <2>3. /\ Who(q, conn[c]) /\ Life(q, conn[c])
        /\ q.want = conn[c].want /\ q.authenticated = conn[c].authenticated /\ q.sid = s /\ q.nonce = TRUE
    BY <2>1 DEF Reader, Who, Life
  <2>4. q.at = conn[c].at
    BY <2>1 DEF Reader
  <2>5. conn' = [conn EXCEPT ![c] = q]
    BY <1>15 DEF AuthInit
  <2> HIDE DEF q
  <2>6. conn' \in [Conn -> Reader] /\ conn'[c] = q /\ Others(c)
    BY <2>2, <2>5, Put
  <2>7. Begins(c, s)
    BY <1>15, <2>3, <2>4, <2>6 DEF AuthInit, At, Begins, Walks, SameWho, SameLife, Frame
  <2>8. TypeOK'
    BY <1>15, <2>6 DEF AuthInit, TypeOK
  <2> QED BY <2>7, <2>8 DEF Kinds
<1>16. ASSUME NEW c \in Conn, AuthResponse(c) PROVE TypeOK' /\ Kinds
  <2>1. conn[c] \in Reader
    BY <1>R
  <2> DEFINE q == [conn[c] EXCEPT !.at = "auth"]
  <2>2. q \in Reader
    BY <2>1 DEF Reader
  <2>3. /\ Who(q, conn[c]) /\ Sid(q, conn[c]) /\ Auth(q, conn[c]) /\ Life(q, conn[c])
        /\ q.at = "auth"
    BY <2>1 DEF Reader, Who, Sid, Auth, Life
  <2>4. conn' = [conn EXCEPT ![c] = q]
    BY <1>16 DEF AuthResponse
  <2> HIDE DEF q
  <2>5. conn' \in [Conn -> Reader] /\ conn'[c] = q /\ Others(c)
    BY <2>2, <2>4, Put
  <2>6. Proves(c)
    BY <1>16, <2>3, <2>5 DEF AuthResponse, At, Proves, Walks, SameWho, SameSid, SameAuth, SameLife, Frame
  <2>7. TypeOK'
    BY <1>16, <2>5 DEF AuthResponse, TypeOK
  <2> QED BY <2>6, <2>7 DEF Kinds
<1>17. ASSUME NEW c \in Conn, Authenticate(c) PROVE TypeOK' /\ Kinds
  <2> DEFINE r == [conn[c] EXCEPT !.nonce = FALSE, !.authenticated = TRUE]
             conns == [conn EXCEPT ![c].nonce = FALSE, ![c].authenticated = TRUE]
             todo == IF conn[c].role = "device" THEN Replaced(c) ELSE Conn \ {c}
  <2>1. conn[c] \in Reader /\ conn[c].at = "auth" /\ conn[c].sid \in Device
    BY <1>R, <1>17 DEF Authenticate, At, ReaderInv, Reads, Reader
  <2>2. r \in Reader
    BY <2>1 DEF Reader
  <2>3. /\ Who(r, conn[c]) /\ Sid(r, conn[c]) /\ Life(r, conn[c]) /\ r.nonce = FALSE /\ r.authenticated = TRUE
    BY <2>1 DEF Reader, Who, Sid, Life
  <2>4. conns = [conn EXCEPT ![c] = r]
    OBVIOUS
  <2>5. Replaced(c) \in SUBSET Conn /\ todo \in SUBSET Conn
    BY <2>1 DEF Replaced, TypeOK
  <2>6. Settle(c, conns, Replaced(c), todo) /\ UNCHANGED <<store, timer>>
    BY <1>17 DEF Authenticate
  <2> HIDE DEF r, conns, todo
  <2>7. /\ conn' \in [Conn -> Reader]
        /\ devices' \in [Device -> Conn \cup {None}] /\ terminals' \in [Device -> SUBSET Conn]
        /\ Enters(c) \/ \E p \in Conn : Finds(c, p)
    BY <2>1, <2>2, <2>3, <2>4, <2>5, <2>6, Settling
  <2>8. TypeOK'
    BY <1>17, <2>7 DEF Authenticate, TypeOK
  <2> QED BY <2>7, <2>8 DEF Kinds
<1>18. ASSUME NEW c \in Conn, Resettle(c) PROVE TypeOK' /\ Kinds
  <2>1. conn[c] \in Reader /\ conn[c].at = "settle"
    BY <1>R, <1>18 DEF Resettle, At
  <2>2. /\ Who(conn[c], conn[c]) /\ Sid(conn[c], conn[c]) /\ Life(conn[c], conn[c])
        /\ conn[c].authenticated
    BY <2>1 DEF Who, Sid, Life, ReaderInv, Reads, Entering
  <2>3. conn = [conn EXCEPT ![c] = conn[c]] /\ conn[c].due \in SUBSET Conn /\ conn[c].todo \in SUBSET Conn
    BY <2>1 DEF TypeOK, Reader
  <2>4. Settle(c, conn, conn[c].due, conn[c].todo) /\ UNCHANGED <<store, timer>>
    BY <1>18 DEF Resettle
  <2>5. /\ conn' \in [Conn -> Reader]
        /\ devices' \in [Device -> Conn \cup {None}] /\ terminals' \in [Device -> SUBSET Conn]
        /\ Enters(c) \/ \E p \in Conn : Finds(c, p)
    BY <2>1, <2>2, <2>3, <2>4, Settling
  <2>6. TypeOK'
    BY <1>18, <2>5 DEF Resettle, TypeOK
  <2> QED BY <2>5, <2>6 DEF Kinds
<1>19. ASSUME NEW c \in Conn, AuthAck(c) PROVE TypeOK' /\ Kinds
  <2>1. conn[c].at = "ack" /\ conn[c].authenticated
    BY <1>19 DEF AuthAck, At, ReaderInv, Reads
  <2>2. PICK at \in {"notify", "read"}, due \in SUBSET Conn :
          conn' = [conn EXCEPT ![c].at = at, ![c].due = due]
    <3>1. CASE conn' = [conn EXCEPT ![c].at = "notify", ![c].due = Peers(c)]
      BY <2>1, <3>1, PeersType
    <3>2. CASE conn' = [conn EXCEPT ![c].at = "read"]
      <4>1. conn' = [conn EXCEPT ![c].at = "read", ![c].due = conn[c].due] /\ conn[c].due \in SUBSET Conn
        BY <1>R, <3>2 DEF TypeOK, Reader
      <4> QED BY <4>1
    <3> QED BY <1>19, <3>1, <3>2 DEF AuthAck
  <2>3. conn[c] \in Reader
    BY <1>R
  <2> DEFINE q == [conn[c] EXCEPT !.at = at, !.due = due]
  <2>4. q \in Reader
    BY <2>3, <2>2 DEF Reader
  <2>5. /\ Who(q, conn[c]) /\ Sid(q, conn[c]) /\ Auth(q, conn[c]) /\ Life(q, conn[c])
        /\ q.at = at
    BY <2>3 DEF Reader, Who, Sid, Auth, Life
  <2>6. conn' = [conn EXCEPT ![c] = q]
    BY <2>2
  <2> HIDE DEF q
  <2>7. conn' \in [Conn -> Reader] /\ conn'[c] = q /\ Others(c)
    BY <2>4, <2>6, Put
  <2>8. GoesOn(c)
    BY <1>19, <2>1, <2>2, <2>5, <2>7 DEF AuthAck, At, GoesOn, Walks, SameWho, SameSid, SameAuth, SameLife
  <2>9. heard' \in [Conn -> SUBSET Conn]
    BY <1>19, <2>1, TellType DEF AuthAck
  <2>10. TypeOK'
    BY <1>19, <2>1, <2>7, <2>9 DEF AuthAck, TypeOK
  <2> QED BY <2>8, <2>10 DEF Kinds
<1>20. ASSUME NEW c \in Conn, onPairStatusQuery(c) PROVE TypeOK' /\ Kinds
  <2>1. PICK word \in Status : conn' = [conn EXCEPT ![c].at = "answer", ![c].word = word]
    BY <1>20 DEF onPairStatusQuery, pairStatus, Status
  <2>2. conn[c] \in Reader
    BY <1>R
  <2> DEFINE q == [conn[c] EXCEPT !.at = "answer", !.word = word]
  <2>3. q \in Reader
    BY <2>2, <2>1 DEF Reader
  <2>4. /\ Who(q, conn[c]) /\ Sid(q, conn[c]) /\ Auth(q, conn[c]) /\ Life(q, conn[c])
        /\ q.at = "answer"
    BY <2>2 DEF Reader, Who, Sid, Auth, Life
  <2>5. conn' = [conn EXCEPT ![c] = q]
    BY <2>1
  <2> HIDE DEF q
  <2>6. conn' \in [Conn -> Reader] /\ conn'[c] = q /\ Others(c)
    BY <2>3, <2>5, Put
  <2>7. GoesOn(c)
    BY <1>20, <2>1, <2>4, <2>6 DEF onPairStatusQuery, At, GoesOn, Walks, SameWho, SameSid, SameAuth, SameLife, Frame
  <2>8. TypeOK'
    BY <1>20, <2>6 DEF onPairStatusQuery, TypeOK, Spend
  <2> QED BY <2>7, <2>8 DEF Kinds
<1>21. ASSUME NEW c \in Conn, Answer(c) PROVE TypeOK' /\ Kinds
  <2>1. conn[c].at = "answer" /\ conn[c].authenticated
    BY <1>21 DEF Answer, At, ReaderInv, Reads
  <2>2. conn[c] \in Reader
    BY <1>R
  <2> DEFINE q == [conn[c] EXCEPT !.at = "read"]
  <2>3. q \in Reader
    BY <2>2 DEF Reader
  <2>4. /\ Who(q, conn[c]) /\ Sid(q, conn[c]) /\ Auth(q, conn[c]) /\ Life(q, conn[c])
        /\ q.at = "read"
    BY <2>2 DEF Reader, Who, Sid, Auth, Life
  <2>5. conn' = [conn EXCEPT ![c] = q]
    BY <1>21 DEF Answer
  <2> HIDE DEF q
  <2>6. conn' \in [Conn -> Reader] /\ conn'[c] = q /\ Others(c)
    BY <2>3, <2>5, Put
  <2>7. GoesOn(c)
    BY <1>21, <2>1, <2>4, <2>6 DEF Answer, At, GoesOn, Walks, SameWho, SameSid, SameAuth, SameLife
  <2>8. heard' \in [Conn -> SUBSET Conn]
    BY <1>21, <2>1, TellType DEF Answer
  <2>9. TypeOK'
    BY <1>21, <2>1, <2>6, <2>8 DEF Answer, TypeOK
  <2> QED BY <2>7, <2>9 DEF Kinds
<1>22. ASSUME NEW s \in Device, Forget(s) PROVE TypeOK' /\ Kinds
  <2>1. TypeOK'
    BY <1>22 DEF Forget, Spend, TypeOK
  <2>2. Forgets(s)
    BY <1>22 DEF Forget, Forgets
  <2> QED BY <2>1, <2>2 DEF Kinds
<1> QED
  BY <1>0, <1>1, <1>2, <1>3, <1>4, <1>5, <1>6, <1>7, <1>8, <1>9, <1>10, <1>11, <1>12, <1>13,
     <1>14, <1>15, <1>16, <1>17, <1>18, <1>19, <1>20, <1>21, <1>22, Steps

----------------------------------------------------------------------------
(* Each invariant is kept.                                                 *)

\* A connection that has entered keeps its sid and role, whatever happens.
LEMMA EnteredStays ==
  ASSUME TypeOK, ReaderInv, Kinds, NEW p \in Conn, Entered(conn[p])
  PROVE  Entered(conn'[p]) /\ conn'[p].sid = conn[p].sid /\ conn'[p].role = conn[p].role
<1>1. /\ conn[p].authenticated /\ ~Entering(conn[p]) /\ ~Registering(conn[p])
      /\ conn[p].at # "new" /\ (Kicking(conn[p]) => conn[p].then # "read")
  BY DEF Entered, ReaderInv, Reads
<1>2. conn[p].then \in {"read", "adopt", "settle"}
  BY DEF TypeOK, Reader
<1>3. conn[p].at \notin {"upsert", "register", "adopt", "auth", "settle", "mark", "drop"}
  BY <1>1, <1>2 DEF Registering, Entering, Kicking
<1>4. CASE Unmoved(p)
  BY <1>1, <1>3, <1>4 DEF Unmoved, SameWho, SameSid, SameAuth, Who, Sid, Auth, Entered, Entering, Kicking
<1>5. CASE Leaving(p) \/ GoesOn(p) \/ CutsOff(p) \/ TakesOut(p)
  BY <1>1, <1>3, <1>5 DEF Leaving, GoesOn, CutsOff, TakesOut, Walks, SameWho, SameSid, SameAuth, Who, Sid, Auth,
     Entered, Entering, Kicking
<1>6. ASSUME NEW c \in Conn, Drops(c, p) PROVE Entered(conn'[p]) /\ conn'[p].sid = conn[p].sid /\ conn'[p].role = conn[p].role
  BY <1>1, <1>3, <1>6 DEF Drops, SameWho, SameSid, SameAuth, Who, Sid, Auth, Entered, Entering, Kicking
<1>7. UNCHANGED conn => Unmoved(p)
  BY DEF Unmoved, SameWho, SameSid, SameAuth, SameLife, SameKick, Who, Sid, Auth, Life, Kick
<1>8. Unmoved(p) \/ Leaving(p) \/ GoesOn(p) \/ CutsOff(p) \/ TakesOut(p) \/ \E c \in Conn : Drops(c, p)
  <2>1. ASSUME NEW c \in Conn, Others(c), c # p PROVE Unmoved(p)
    BY <2>1 DEF Others
  <2>2. ASSUME NEW c \in Conn,
               \/ Opens(c) \/ Leaving(c) \/ GoesOn(c) \/ CutsOff(c) \/ TakesOut(c)
               \/ Marks(c) \/ \E o \in Conn : Finds(c, o)
               \/ \E m \in Mid, s \in Device : Registers(c, m, s)
               \/ Upserts(c) \/ Adopts(c)
               \/ \E s \in Device : Begins(c, s)
               \/ Proves(c) \/ Enters(c)
        PROVE  Unmoved(p) \/ Leaving(p) \/ GoesOn(p) \/ CutsOff(p) \/ TakesOut(p)
    <3>1. Others(c)
      BY <2>2 DEF Opens, Leaving, GoesOn, CutsOff, TakesOut, Marks, Finds, Registers, Upserts,
         Adopts, Begins, Proves, Enters, Walks
    <3>2. CASE c = p
      BY <1>1, <1>3, <2>2, <3>2 DEF Opens, Marks, Finds, Registers, Upserts, Adopts, Begins, Proves, Enters, Walks
    <3> QED BY <2>1, <3>1, <3>2
  <2>3. ASSUME NEW c \in Conn, NEW o \in Conn, Drops(c, o)
        PROVE  Unmoved(p) \/ Drops(c, p)
    <3>1. c # p
      BY <1>3, <2>3 DEF Drops
    <3> QED BY <2>3, <3>1 DEF Drops
  <2>4. ASSUME NEW c \in Conn, Ticks(c) PROVE Unmoved(p)
    BY <1>7, <2>4 DEF Ticks
  <2>5. ASSUME NEW s \in Device, Forgets(s) PROVE Unmoved(p)
    BY <1>7, <2>5 DEF Forgets
  <2>6. CASE UNCHANGED <<store, conn, timer, tables>>
    BY <1>7, <2>6
  <2> QED BY <2>2, <2>3, <2>4, <2>5, <2>6 DEF Kinds
<1> QED BY <1>1, <1>4, <1>5, <1>6, <1>8

\* A step is one of others', or p's own.
LEMMA Own ==
  ASSUME TypeOK, ReaderInv, Kinds, NEW p \in Conn
  PROVE  \/ Unmoved(p) \/ Opens(p) \/ Leaving(p) \/ GoesOn(p) \/ CutsOff(p) \/ TakesOut(p)
         \/ Marks(p) \/ \E o \in Conn : Drops(p, o) \/ Drops(o, p) \/ Finds(p, o)
         \/ \E m \in Mid, s \in Device : Registers(p, m, s)
         \/ Upserts(p) \/ Adopts(p)
         \/ \E s \in Device : Begins(p, s)
         \/ Proves(p) \/ Enters(p)
<1>1. UNCHANGED conn => Unmoved(p)
  BY DEF Unmoved, SameWho, SameSid, SameAuth, SameLife, SameKick, Who, Sid, Auth, Life, Kick
<1>2. ASSUME NEW c \in Conn, Others(c), c # p PROVE Unmoved(p)
  BY <1>2 DEF Others
<1>3. ASSUME NEW c \in Conn,
             \/ Opens(c) \/ Leaving(c) \/ GoesOn(c) \/ CutsOff(c) \/ TakesOut(c)
             \/ Marks(c) \/ \E o \in Conn : Finds(c, o)
             \/ \E m \in Mid, s \in Device : Registers(c, m, s)
             \/ Upserts(c) \/ Adopts(c)
             \/ \E s \in Device : Begins(c, s)
             \/ Proves(c) \/ Enters(c)
      PROVE  Others(c)
  BY <1>3 DEF Opens, Leaving, GoesOn, CutsOff, TakesOut, Marks, Finds, Registers, Upserts,
     Adopts, Begins, Proves, Enters, Walks
<1>4. ASSUME NEW c \in Conn, NEW o \in Conn, Drops(c, o)
      PROVE  Unmoved(p) \/ Drops(p, o) \/ Drops(c, p)
  BY <1>4 DEF Drops
<1>5. ASSUME NEW c \in Conn, Ticks(c) PROVE Unmoved(p)
  BY <1>1, <1>5 DEF Ticks
<1>6. ASSUME NEW s \in Device, Forgets(s) PROVE Unmoved(p)
  BY <1>1, <1>6 DEF Forgets
<1>7. CASE UNCHANGED <<store, conn, timer, tables>>
  BY <1>1, <1>7
<1> QED BY <1>2, <1>3, <1>4, <1>5, <1>6, <1>7 DEF Kinds

\* Every step keeps ReaderInv.
LEMMA ReaderStep ==
  ASSUME TypeOK, TypeOK', ReaderInv, TableInv, Kinds
  PROVE  ReaderInv'
<1> SUFFICES ASSUME NEW c \in Conn
             PROVE  Reads(conn'[c]) /\ (Kicking(conn'[c]) => Entered(conn'[conn'[c].peer]))
  BY DEF ReaderInv
<1> USE DEF SameWho, SameSid, SameAuth, SameLife, SameKick, Who, Sid, Auth, Life, Kick
<1>1. Reads(conn[c]) /\ (Kicking(conn[c]) => Entered(conn[conn[c].peer]))
  BY DEF ReaderInv
<1>2. /\ conn[c].peer \in Conn \cup {None} /\ conn[c].then \in {"read", "adopt", "settle"}
      /\ conn[c].sid \in Device \cup {None} /\ conn[c].want \in Device \cup {None}
  BY DEF TypeOK, Reader
<1>3. Kicking(conn[c]) => conn[c].peer \in Conn /\ Entered(conn'[conn[c].peer])
  BY <1>1, <1>2, EnteredStays DEF Reads
<1>4. CASE Unmoved(c)
  BY <1>1, <1>3, <1>4 DEF Unmoved, Reads, Kicking, Registering, Entering
<1>5. CASE Opens(c)
  BY <1>1, <1>5 DEF Opens, Walks, Reads, Kicking, Registering, Entering
<1>6. CASE Leaving(c) \/ GoesOn(c)
  BY <1>1, <1>6 DEF Leaving, GoesOn, Walks, Reads, Kicking, Registering, Entering
<1>7. CASE CutsOff(c) \/ TakesOut(c)
  BY <1>1, <1>3, <1>7 DEF CutsOff, TakesOut, Walks, Reads, Kicking, Registering, Entering
<1>8. CASE Marks(c)
  BY <1>1, <1>2, <1>3, <1>8 DEF Marks, Reads, Kicking, Registering, Entering
<1>9. ASSUME NEW o \in Conn, Drops(c, o)
      PROVE  Reads(conn'[c]) /\ (Kicking(conn'[c]) => Entered(conn'[conn'[c].peer]))
  BY <1>1, <1>2, <1>9 DEF Drops, Reads, Kicking, Registering, Entering
<1>10. ASSUME NEW o \in Conn, Drops(o, c)
       PROVE  Reads(conn'[c]) /\ (Kicking(conn'[c]) => Entered(conn'[conn'[c].peer]))
  <2>1. /\ conn'[c].at = conn[c].at
        /\ SameWho(c) /\ SameSid(c) /\ SameAuth(c) /\ SameKick(c)
    BY <1>10 DEF Drops
  <2> QED BY <1>1, <1>3, <2>1 DEF Reads, Kicking, Registering, Entering
<1>11. ASSUME NEW o \in Conn, Finds(c, o)
       PROVE  Reads(conn'[c]) /\ (Kicking(conn'[c]) => Entered(conn'[conn'[c].peer]))
  <2>1. Entered(conn[o]) /\ o # None
    BY <1>11, RelayAssumption DEF Finds, TableInv
  <2>2. Entered(conn'[o])
    BY <2>1, EnteredStays
  <2> QED BY <1>1, <1>11, <2>1, <2>2 DEF Finds, Walks, Reads, Kicking, Registering, Entering
<1>12. ASSUME NEW m \in Mid, NEW s \in Device, Registers(c, m, s)
       PROVE  Reads(conn'[c]) /\ (Kicking(conn'[c]) => Entered(conn'[conn'[c].peer]))
  <2>1. s # None /\ m # None
    BY RelayAssumption
  <2> QED BY <1>1, <1>12, <2>1 DEF Registers, Walks, Reads, Kicking, Registering, Entering
<1>13. CASE Upserts(c) \/ Adopts(c)
  BY <1>1, <1>13 DEF Upserts, Adopts, Walks, Reads, Kicking, Registering, Entering
<1>14. ASSUME NEW s \in Device, Begins(c, s)
       PROVE  Reads(conn'[c]) /\ (Kicking(conn'[c]) => Entered(conn'[conn'[c].peer]))
  BY <1>1, <1>14, RelayAssumption DEF Begins, Walks, Reads, Kicking, Registering, Entering
<1>15. CASE Proves(c) \/ Enters(c)
  BY <1>1, <1>15 DEF Proves, Enters, Walks, Reads, Kicking, Registering, Entering
<1> QED
  BY <1>4, <1>5, <1>6, <1>7, <1>8, <1>9, <1>10, <1>11, <1>12, <1>13, <1>14, <1>15, Own

\* What detach leaves of the tables.
LEMMA Detached ==
  ASSUME TypeOK, TableInv, NEW c \in Conn, detach(c)
  PROVE  /\ \A s \in Device : devices'[s] \in {devices[s], None} /\ terminals'[s] \subseteq terminals[s]
         /\ ~conn[c].detached => \A s \in Device : devices'[s] # c /\ c \notin terminals'[s]
<1>1. conn[c].sid \in Device \cup {None}
  BY DEF TypeOK, Reader
<1>2. \A s \in Device : devices'[s] \in {devices[s], None} /\ terminals'[s] \subseteq terminals[s]
  BY <1>1 DEF TypeOK, detach, Leaves
<1>3. ASSUME ~conn[c].detached, NEW s \in Device, devices[s] = c PROVE devices'[s] # c
  <2>1. conn[c].authenticated /\ conn[c].sid = s /\ conn[c].role = "device" /\ c # None /\ s # None
    BY <1>3, RelayAssumption DEF TableInv, Entered
  <2> QED BY <1>3, <2>1 DEF TypeOK, detach, Leaves
<1>4. ASSUME ~conn[c].detached, NEW s \in Device, c \in terminals[s] PROVE c \notin terminals'[s]
  <2>1. conn[c].authenticated /\ conn[c].sid = s /\ conn[c].role = "terminal" /\ s # None
    BY <1>4, RelayAssumption DEF TableInv, Entered
  <2> QED BY <1>4, <2>1 DEF TypeOK, detach, Leaves
<1>5. \A s \in Device : c # None
  BY RelayAssumption
<1> QED BY <1>2, <1>3, <1>4, <1>5

\* What a step does to the tables.
LEMMA Tables ==
  ASSUME TypeOK, TableInv, Kinds
  PROVE  \A s \in Device :
           /\ devices'[s] \notin {devices[s], None} =>
                \E c \in Conn : Enters(c) /\ conn[c].role = "device" /\ conn[c].sid = s /\ devices'[s] = c
           /\ \A t \in terminals'[s] \ terminals[s] :
                t \in Conn /\ Enters(t) /\ conn[t].role # "device" /\ conn[t].sid = s
<1> SUFFICES ASSUME NEW s \in Device
    PROVE  /\ devices'[s] \notin {devices[s], None} =>
                \E c \in Conn : Enters(c) /\ conn[c].role = "device" /\ conn[c].sid = s /\ devices'[s] = c
           /\ \A t \in terminals'[s] \ terminals[s] :
                t \in Conn /\ Enters(t) /\ conn[t].role # "device" /\ conn[t].sid = s
  OBVIOUS
<1>1. ASSUME NEW c \in Conn, detach(c) PROVE devices'[s] \in {devices[s], None} /\ terminals'[s] \subseteq terminals[s]
  BY <1>1, Detached
<1>2. ASSUME NEW c \in Conn, Enters(c)
      PROVE  /\ devices'[s] # devices[s] => conn[c].role = "device" /\ conn[c].sid = s /\ devices'[s] = c
             /\ \A t \in terminals'[s] \ terminals[s] : t = c /\ conn[c].role # "device" /\ conn[c].sid = s
  <2>1. CASE conn[c].role = "device"
    BY <1>2, <2>1 DEF Enters, TypeOK
  <2>2. CASE conn[c].role # "device"
    BY <1>2, <2>2 DEF Enters, TypeOK
  <2> QED BY <2>1, <2>2
<1>3. \/ UNCHANGED <<devices, terminals>>
      \/ \E c \in Conn : detach(c) \/ Enters(c)
  <2>1. ASSUME NEW c \in Conn, NEW o \in Conn, Drops(c, o) PROVE detach(o)
    BY <2>1 DEF Drops
  <2>2. ASSUME NEW c \in Conn, Leaving(c) \/ TakesOut(c) PROVE detach(c)
    BY <2>2 DEF Leaving, TakesOut
  <2>3. ASSUME NEW c \in Conn, Opens(c) \/ GoesOn(c) \/ Ticks(c) \/ CutsOff(c) \/ Marks(c)
                                \/ Upserts(c) \/ Adopts(c) \/ Proves(c)
        PROVE  UNCHANGED <<devices, terminals>>
    BY <2>3 DEF Opens, GoesOn, Ticks, CutsOff, Marks, Upserts, Adopts, Proves, tables
  <2>4. ASSUME NEW c \in Conn,
               \/ \E o \in Conn : Finds(c, o)
               \/ \E m \in Mid, d \in Device : Registers(c, m, d)
               \/ \E d \in Device : Begins(c, d) \/ Forgets(d)
        PROVE  UNCHANGED <<devices, terminals>>
    BY <2>4 DEF Finds, Registers, Begins, Forgets, tables
  <2>5. ASSUME NEW d \in Device, Forgets(d) PROVE UNCHANGED <<devices, terminals>>
    BY <2>5 DEF Forgets, tables
  <2>6. CASE UNCHANGED <<store, conn, timer, tables>>
    BY <2>6 DEF tables
  <2> QED BY <2>1, <2>2, <2>3, <2>4, <2>5, <2>6 DEF Kinds
<1> QED BY <1>1, <1>2, <1>3

\* Every step keeps TableInv.
LEMMA TableStep ==
  ASSUME TypeOK, TypeOK', ReaderInv, TableInv, Kinds
  PROVE  TableInv'
<1>1. ASSUME NEW c \in Conn, Enters(c)
      PROVE  Entered(conn'[c]) /\ conn'[c].sid = conn[c].sid
             /\ conn'[c].role = conn[c].role /\ conn[c].role \in {"device", "terminal"}
  <2>1. Reads(conn[c]) /\ conn[c].role \in Role \cup {None}
    BY DEF ReaderInv, TypeOK, Reader
  <2> QED BY <1>1, <2>1 DEF Enters, Walks, Reads, Entered, Entering, Kicking, SameSid, SameWho, Sid, Who, Role
<1>2. ASSUME NEW s \in Device, devices'[s] # None
      PROVE  Entered(conn'[devices'[s]]) /\ conn'[devices'[s]].sid = s /\ conn'[devices'[s]].role = "device"
  <2>1. CASE devices'[s] = devices[s]
    <3> DEFINE d == devices[s]
    <3>1. d \in Conn /\ Entered(conn[d]) /\ conn[d].sid = s /\ conn[d].role = "device"
      BY <1>2, <2>1 DEF TypeOK, TableInv
    <3> HIDE DEF d
    <3>2. Entered(conn'[d]) /\ conn'[d].sid = s /\ conn'[d].role = "device"
      BY <3>1, EnteredStays
    <3> QED BY <2>1, <3>2 DEF d
  <2>2. CASE devices'[s] # devices[s]
    BY <1>1, <1>2, <2>2, Tables
  <2> QED BY <2>1, <2>2
<1>3. ASSUME NEW s \in Device, NEW t \in terminals'[s]
      PROVE  Entered(conn'[t]) /\ conn'[t].sid = s /\ conn'[t].role = "terminal"
  <2>1. CASE t \in terminals[s]
    <3>1. t \in Conn /\ Entered(conn[t]) /\ conn[t].sid = s /\ conn[t].role = "terminal"
      BY <2>1 DEF TypeOK, TableInv
    <3> QED BY <3>1, EnteredStays
  <2>2. CASE t \notin terminals[s]
    BY <1>1, <1>3, <2>2, Tables
  <2> QED BY <2>1, <2>2
<1> QED BY <1>2, <1>3 DEF TableInv

\* What a step does to the auth timer of a connection.
LEMMA Timers ==
  ASSUME TypeOK, Kinds, NEW c \in Conn
  PROVE  \/ timer'[c] = timer[c]
         \/ Opens(c) /\ timer'[c].at = "set"
         \/ Leaving(c) /\ timer[c].at = "set" /\ timer'[c].at = "off"
         \/ Ticks(c)
         \/ CutsOff(c) /\ timer'[c].at = "closed"
         \/ TakesOut(c)
<1>1. timer \in [Conn -> Timer] /\ timer[c] \in Timer
  BY DEF TypeOK
<1>2. ASSUME NEW at, NEW o \in Conn, timer' = [timer EXCEPT ![o].at = at]
      PROVE  IF o = c THEN timer'[c].at = at ELSE timer'[c] = timer[c]
  BY <1>1, <1>2 DEF Timer
<1>3. ASSUME NEW o \in Conn, Opens(o) PROVE timer'[c] = timer[c] \/ (o = c /\ timer'[c].at = "set")
  BY <1>2, <1>3 DEF Opens
<1>4. ASSUME NEW o \in Conn, Leaving(o)
      PROVE  timer'[c] = timer[c] \/ (o = c /\ timer[c].at = "set" /\ timer'[c].at = "off")
  BY <1>2, <1>4 DEF Leaving
<1>5. ASSUME NEW o \in Conn, CutsOff(o) PROVE timer'[c] = timer[c] \/ (o = c /\ timer'[c].at = "closed")
  BY <1>2, <1>5 DEF CutsOff
<1>6. ASSUME NEW o \in Conn, Ticks(o) \/ TakesOut(o) PROVE timer'[c] = timer[c] \/ o = c
  BY <1>6 DEF Ticks, TakesOut
<1>7. ASSUME NEW o \in Conn,
             \/ GoesOn(o) \/ Marks(o) \/ \E p \in Conn : Drops(o, p) \/ Finds(o, p)
             \/ \E m \in Mid, s \in Device : Registers(o, m, s)
             \/ Upserts(o) \/ Adopts(o)
             \/ \E s \in Device : Begins(o, s)
             \/ Proves(o) \/ Enters(o)
      PROVE  timer' = timer
  BY <1>7 DEF GoesOn, Marks, Drops, Finds, Registers, Upserts, Adopts, Begins, Proves, Enters
<1>8. ASSUME NEW s \in Device, Forgets(s) PROVE timer' = timer
  BY <1>8 DEF Forgets
<1> QED BY <1>3, <1>4, <1>5, <1>6, <1>7, <1>8 DEF Kinds

\* Every step keeps TimerInv.
LEMMA TimerStep ==
  ASSUME TypeOK, ReaderInv, TimerInv, Kinds
  PROVE  TimerInv'
<1> DEFINE Kept(c) ==
      /\ conn'[c].at = "new" => timer'[c].at = "off" /\ ~conn'[c].detached
      /\ conn'[c].detached \/ timer'[c].at \in {"closed", "telling", "done"} => ~conn'[c].open
      /\ timer'[c].at = "telling" => conn'[c].authenticated
      /\ Entering(conn'[c]) /\ conn'[c].detached => timer'[c].at \in {"telling", "done"}
<1> SUFFICES ASSUME NEW c \in Conn
             PROVE  Kept(c)
  BY DEF TimerInv
<1> USE DEF SameWho, SameSid, SameAuth, SameLife, SameKick, Who, Sid, Auth, Life, Kick
<1>1. /\ conn[c].at = "new" => timer[c].at = "off" /\ ~conn[c].detached
      /\ conn[c].detached \/ timer[c].at \in {"closed", "telling", "done"} => ~conn[c].open
      /\ timer[c].at = "telling" => conn[c].authenticated
      /\ Entering(conn[c]) /\ conn[c].detached => timer[c].at \in {"telling", "done"}
  BY DEF TimerInv
<1>2. Reads(conn[c]) /\ conn[c].then \in {"read", "adopt", "settle"}
  BY DEF ReaderInv, TypeOK, Reader
<1>3. CASE Opens(c) /\ timer'[c].at = "set"
  BY <1>1, <1>3 DEF Opens, Walks, Entering, Kicking
<1>4. CASE Leaving(c) /\ timer[c].at = "set" /\ timer'[c].at = "off"
  BY <1>1, <1>4 DEF Leaving, Walks, Entering, Kicking
<1>5. CASE Ticks(c)
  BY <1>1, <1>5 DEF Ticks
<1>6. CASE CutsOff(c) /\ timer'[c].at = "closed"
  BY <1>1, <1>6 DEF CutsOff, Walks, Entering, Kicking
<1>7. CASE TakesOut(c)
  BY <1>1, <1>7 DEF TakesOut, Walks, Entering, Kicking
<1>8. CASE timer'[c] = timer[c]
  <2>1. CASE Unmoved(c)
    BY <1>1, <1>8, <2>1 DEF Unmoved, Entering, Kicking
  <2>2. CASE Opens(c) \/ Leaving(c)
    BY <1>1, <1>8, <2>2 DEF Opens, Leaving, Walks, Entering, Kicking
  <2>3. CASE GoesOn(c) \/ Upserts(c) \/ Adopts(c) \/ Enters(c)
    BY <1>1, <1>2, <1>8, <2>3 DEF GoesOn, Upserts, Adopts, Enters, Walks, Entering, Kicking, Reads
  <2>4. CASE CutsOff(c) \/ TakesOut(c)
    BY <1>1, <1>8, <2>4 DEF CutsOff, TakesOut, Walks, Entering, Kicking
  <2>5. CASE Marks(c)
    BY <1>1, <1>2, <1>8, <2>5 DEF Marks, Entering, Kicking, Reads
  <2>6. ASSUME NEW o \in Conn, Drops(c, o) PROVE Kept(c)
    BY <1>1, <1>2, <1>8, <2>6 DEF Drops, Entering, Kicking, Reads
  <2>7. ASSUME NEW o \in Conn, Drops(o, c) PROVE Kept(c)
    <3>1. Entered(conn[c])
      BY <2>7 DEF Drops, ReaderInv, Kicking
    <3>2. conn[c].at # "new" /\ ~Entering(conn[c]) /\ conn[c].authenticated
      BY <1>2, <3>1 DEF Entered, Reads
    <3> QED BY <1>1, <1>8, <2>7, <3>2 DEF Drops, Entering, Kicking
  <2>8. ASSUME NEW o \in Conn, Finds(c, o) PROVE Kept(c)
    <3>1. CASE conn[c].at = "register"
      BY <1>1, <1>8, <2>8, <3>1 DEF Finds, Walks, Entering, Kicking
    <3>2. CASE conn[c].at # "register"
      <4>1. Entering(conn[c])
        BY <2>8, <3>2 DEF Finds, Walks, Entering
      <4>2. conn'[c].authenticated \/ ~conn[c].authenticated
        BY <2>8, <3>2 DEF Finds
      <4>3. conn'[c].at = "mark" /\ SameLife(c)
        BY <2>8 DEF Finds, Walks
      <4> QED BY <1>1, <1>8, <4>1, <4>2, <4>3
    <3> QED BY <3>1, <3>2
  <2>9. ASSUME NEW m \in Mid, NEW s \in Device, Registers(c, m, s) PROVE Kept(c)
    BY <1>1, <1>8, <2>9 DEF Registers, Walks, Entering, Kicking
  <2>10. ASSUME NEW s \in Device, Begins(c, s) PROVE Kept(c)
    BY <1>1, <1>8, <2>10 DEF Begins, Walks, Entering, Kicking
  <2>11. CASE Proves(c)
    BY <1>1, <1>8, <2>11 DEF Proves, Walks, Entering, Kicking
  <2> HIDE DEF Kept
  <2> QED BY <2>1, <2>2, <2>3, <2>4, <2>5, <2>6, <2>7, <2>8, <2>9, <2>10, <2>11, Own
<1> HIDE DEF Kept
<1> QED BY <1>3, <1>4, <1>5, <1>6, <1>7, <1>8, Timers

\* Every step keeps GhostNeedsTimer.
LEMMA GhostStep ==
  ASSUME TypeOK, ReaderInv, TimerInv, TableInv, GhostNeedsTimer, Kinds
  PROVE  GhostNeedsTimer'
<1> SUFFICES ASSUME NEW c \in Conn, NEW s \in Device, devices'[s] = c \/ c \in terminals'[s],
                    conn'[c].detached
             PROVE  timer'[c].at \in {"telling", "done"}
  BY DEF GhostNeedsTimer, Tabled
<1>1. ASSUME timer[c].at \in {"telling", "done"}
      PROVE  timer'[c].at \in {"telling", "done"}
  <2>1. conn[c].at # "new"
    BY <1>1 DEF TimerInv
  <2> QED BY <1>1, <2>1, Timers DEF Opens, Walks, Leaving, Ticks, CutsOff, TakesOut
<1>2. CASE ~Tabled(c)
  <2>1. devices[s] # c /\ c \notin terminals[s] /\ c # None
    BY <1>2, RelayAssumption DEF Tabled
  <2>2. Enters(c)
    BY <2>1, Tables
  <2>3. Entering(conn[c]) /\ conn[c].detached
    BY <2>2 DEF Enters, Walks, Entering, SameLife, Life
  <2> QED BY <1>1, <2>3 DEF TimerInv
<1>3. CASE Tabled(c) /\ conn[c].detached
  BY <1>1, <1>3 DEF GhostNeedsTimer
<1>4. ASSUME ~conn[c].detached PROVE FALSE
  <2>1. ~detach(c)
    BY <1>4, Detached
  <2>2. /\ ~Leaving(c) /\ ~TakesOut(c) /\ \A o \in Conn : ~Drops(o, c)
    BY <2>1 DEF Leaving, TakesOut, Drops
  <2> USE DEF SameLife, Life
  <2>3. ~Unmoved(c) /\ ~Opens(c) /\ ~GoesOn(c) /\ ~CutsOff(c) /\ ~Marks(c)
    BY <1>4 DEF Unmoved, Opens, GoesOn, CutsOff, Marks
  <2>4. \A o \in Conn : ~Drops(c, o) /\ ~Finds(c, o)
    BY <1>4 DEF Drops, Finds
  <2>5. /\ \A m \in Mid, d \in Device : ~Registers(c, m, d)
        /\ \A d \in Device : ~Begins(c, d)
        /\ ~Upserts(c) /\ ~Adopts(c) /\ ~Proves(c) /\ ~Enters(c)
    BY <1>4 DEF Registers, Begins, Upserts, Adopts, Proves, Enters
  <2> QED BY <2>2, <2>3, <2>4, <2>5, Own
<1> QED BY <1>2, <1>3, <1>4

\* A connection gets no claim with a mid and starts no registration.
Modest(o) ==
  /\ \A s \in Device : Claims(o, s)' /\ conn'[o].mid # None =>
       Claims(o, s) /\ conn'[o].mid = conn[o].mid
  /\ conn'[o].at = "upsert" =>
       conn[o].at = "upsert" /\ conn'[o].want = conn[o].want /\ conn'[o].says = conn[o].says

\* Only a registration and a begun authentication get a claim.
LEMMA Claiming ==
  ASSUME TypeOK, ReaderInv, Kinds, NEW o \in Conn
  PROVE  \/ Modest(o)
         \/ \E m \in Mid, s \in Device : Registers(o, m, s)
         \/ \E s \in Device : Begins(o, s)
<1> USE DEF SameWho, SameSid, Who, Sid
<1>1. Reads(conn[o]) /\ conn[o].then \in {"read", "adopt", "settle"}
  BY DEF ReaderInv, TypeOK, Reader
<1>2. CASE Unmoved(o)
  BY <1>2 DEF Unmoved, Modest, Claims
<1>3. CASE Opens(o)
  BY <1>1, <1>3 DEF Opens, Walks, Modest, Claims, Reads
<1>4. CASE Leaving(o) \/ GoesOn(o) \/ Proves(o) \/ Enters(o)
  BY <1>4 DEF Leaving, GoesOn, Proves, Enters, Walks, Modest, Claims
<1>5. CASE CutsOff(o) \/ TakesOut(o)
  BY <1>5 DEF CutsOff, TakesOut, Walks, Modest, Claims
<1>6. CASE Marks(o)
  BY <1>1, <1>6 DEF Marks, Modest, Claims
<1>7. CASE Upserts(o) \/ Adopts(o)
  BY <1>7 DEF Upserts, Adopts, Walks, Modest, Claims
<1>8. ASSUME NEW p \in Conn, Drops(o, p) \/ Drops(p, o) PROVE Modest(o)
  BY <1>1, <1>8 DEF Drops, Modest, Claims
<1>9. ASSUME NEW p \in Conn, Finds(o, p) PROVE Modest(o)
  BY <1>9 DEF Finds, Walks, Modest, Claims
<1> QED BY <1>2, <1>3, <1>4, <1>5, <1>6, <1>7, <1>8, <1>9, Own

\* Only a registration and the manager change the records.
LEMMA Records ==
  ASSUME Kinds
  PROVE  \/ UNCHANGED <<bySid, byMid>>
         \/ \E c \in Conn : Upserts(c)
         \/ \E s \in Device : Forgets(s)
<1>1. ASSUME NEW c \in Conn,
             \/ Opens(c) \/ Leaving(c) \/ GoesOn(c) \/ Ticks(c) \/ CutsOff(c) \/ TakesOut(c)
             \/ Marks(c) \/ Adopts(c) \/ Proves(c) \/ Enters(c)
      PROVE  UNCHANGED <<bySid, byMid>>
  BY <1>1 DEF Opens, Leaving, GoesOn, Ticks, CutsOff, TakesOut, Marks, Adopts, Proves, Enters, store
<1>2. ASSUME NEW c \in Conn,
             \/ \E p \in Conn : Drops(c, p) \/ Finds(c, p)
             \/ \E m \in Mid, s \in Device : Registers(c, m, s)
             \/ \E s \in Device : Begins(c, s)
      PROVE  UNCHANGED <<bySid, byMid>>
  BY <1>2 DEF Drops, Finds, Registers, Begins, store
<1>3. CASE UNCHANGED <<store, conn, timer, tables>>
  BY <1>3 DEF store
<1> QED BY <1>1, <1>2, <1>3 DEF Kinds

\* Every step keeps RecordInv.
LEMMA RecordStep ==
  ASSUME TypeOK, TypeOK', ReaderInv, RecordInv, Kinds
  PROVE  RecordInv'
<1> USE DEF SameWho, SameSid, Who, Sid
<1>1. \A c \in Conn : /\ conn[c].want \in Device \cup {None} /\ conn[c].sid \in Device \cup {None}
                      /\ conn[c].says \in Mid \cup {None}
                      /\ conn[c].at = "upsert" => conn[c].want \in Device /\ conn[c].says \in Mid
                                                 /\ Claims(c, conn[c].want)
  BY DEF TypeOK, Reader, ReaderInv, Reads, Registering, Claims
<1>2. /\ \A m \in Mid : byMid[m] # None => byMid[m] \in Device /\ bySid[byMid[m]] = m
      /\ \A c \in Conn, s \in Device :
           Claims(c, s) /\ conn[c].mid # None => bySid[s] \in {None, conn[c].mid}
      /\ \A c \in Conn : conn[c].at = "upsert" =>
           /\ bySid[conn[c].want] \in {None, conn[c].says}
           /\ \A o \in Conn :
                /\ Claims(o, conn[c].want) /\ conn[o].mid # None => conn[o].mid = conn[c].says
                /\ conn[o].at = "upsert" /\ conn[o].want = conn[c].want => conn[o].says = conn[c].says
  BY DEF RecordInv, TypeOK
<1>3. (\A s \in Device : s # None) /\ (\A m \in Mid : m # None)
  BY RelayAssumption
<1>4. CASE UNCHANGED <<bySid, byMid>> /\ \A o \in Conn : Modest(o)
  <2>1. \A m \in Mid : byMid'[m] # None => bySid'[byMid'[m]] = m
    BY <1>2, <1>4
  <2>2. \A c \in Conn, s \in Device :
          Claims(c, s)' /\ conn'[c].mid # None => bySid'[s] \in {None, conn'[c].mid}
    BY <1>2, <1>4 DEF Modest
  <2>3. ASSUME NEW c \in Conn, conn'[c].at = "upsert"
        PROVE  /\ bySid'[conn'[c].want] \in {None, conn'[c].says}
               /\ \A o \in Conn :
                    /\ Claims(o, conn[c].want)' /\ conn'[o].mid # None => conn'[o].mid = conn'[c].says
                    /\ conn'[o].at = "upsert" /\ conn'[o].want = conn'[c].want =>
                         conn'[o].says = conn'[c].says
    BY <1>1, <1>2, <1>4, <2>3 DEF Modest, Claims
  <2> QED BY <1>1, <1>4, <2>1, <2>2, <2>3 DEF RecordInv, Modest, Claims
<1>5. ASSUME NEW c \in Conn, NEW m \in Mid, NEW s \in Device, Registers(c, m, s)
      PROVE  RecordInv'
  <2>1. /\ UNCHANGED <<bySid, byMid>> /\ \A o \in Conn \ {c} : Modest(o)
        /\ conn'[c].mid = conn[c].mid /\ conn[c].mid \in {None, m}
        /\ conn'[c].sid = conn[c].sid /\ conn'[c].want = s /\ conn'[c].says = m
        /\ conn'[c].at = "upsert"
    BY <1>5 DEF Registers, Walks, Others, Unmoved, Modest, Claims, store
  <2>2. bySid[s] \in {None, m}
    BY <1>2, <1>3, <1>5 DEF Registers
  <2>3. \A o \in Conn : Claims(o, s) /\ conn[o].mid # None => conn[o].mid = m
    BY <1>2, <1>3, <1>5 DEF Registers, Claims
  <2>4. \A o \in Conn : conn[o].at = "upsert" /\ conn[o].want = s => conn[o].says = m
    BY <1>2, <1>3, <1>5 DEF Registers
  <2>5. \A d \in Device : Claims(c, d)' => Claims(c, d) \/ d = s
    BY <2>1 DEF Claims
  <2>6. \A x \in Mid : byMid'[x] # None => bySid'[byMid'[x]] = x
    BY <1>2, <2>1
  <2>7. ASSUME NEW o \in Conn, NEW d \in Device, Claims(o, d)', conn'[o].mid # None
        PROVE  bySid'[d] \in {None, conn'[o].mid}
    <3>1. CASE o = c
      BY <1>2, <2>1, <2>2, <2>5, <2>7, <3>1
    <3>2. CASE o # c
      BY <1>2, <2>1, <2>7, <3>2 DEF Modest
    <3> QED BY <3>1, <3>2
  <2>8. ASSUME NEW x \in Conn, conn'[x].at = "upsert"
        PROVE  /\ bySid'[conn'[x].want] \in {None, conn'[x].says}
               /\ \A o \in Conn :
                    /\ Claims(o, conn[x].want)' /\ conn'[o].mid # None => conn'[o].mid = conn'[x].says
                    /\ conn'[o].at = "upsert" /\ conn'[o].want = conn'[x].want =>
                         conn'[o].says = conn'[x].says
    <3>1. CASE x = c
      <4>1. bySid'[s] \in {None, m}
        BY <2>1, <2>2
      <4>2. \A o \in Conn : Claims(o, s)' /\ conn'[o].mid # None => conn'[o].mid = m
        BY <2>1, <2>3 DEF Modest
      <4>3. \A o \in Conn : conn'[o].at = "upsert" /\ conn'[o].want = s => conn'[o].says = m
        BY <2>1, <2>4 DEF Modest
      <4> QED BY <2>1, <3>1, <4>1, <4>2, <4>3
    <3>2. CASE x # c
      <4>1. conn[x].at = "upsert" /\ conn'[x].want = conn[x].want /\ conn'[x].says = conn[x].says
            /\ conn[x].want \in Device
        BY <1>1, <2>1, <2>8, <3>2 DEF Modest
      <4>2. bySid'[conn[x].want] \in {None, conn[x].says}
        BY <1>2, <2>1, <4>1
      <4>3. ASSUME NEW o \in Conn, Claims(o, conn[x].want)', conn'[o].mid # None
            PROVE  conn'[o].mid = conn[x].says
        <5>1. CASE o # c
          BY <1>2, <2>1, <4>1, <4>3, <5>1 DEF Modest
        <5>2. CASE o = c /\ conn[x].want = s
          BY <2>1, <2>4, <4>1, <4>3, <5>2
        <5>3. CASE o = c /\ conn[x].want # s
          BY <1>2, <2>1, <2>5, <4>1, <4>3, <5>3
        <5> QED BY <5>1, <5>2, <5>3
      <4>4. ASSUME NEW o \in Conn, conn'[o].at = "upsert", conn'[o].want = conn[x].want
            PROVE  conn'[o].says = conn[x].says
        <5>1. CASE o # c
          BY <1>2, <2>1, <4>1, <4>4, <5>1 DEF Modest
        <5>2. CASE o = c
          BY <2>1, <2>4, <4>1, <4>4, <5>2
        <5> QED BY <5>1, <5>2
      <4> QED BY <4>1, <4>2, <4>3, <4>4
    <3> QED BY <3>1, <3>2
  <2> QED BY <2>6, <2>7, <2>8 DEF RecordInv
<1>6. ASSUME NEW c \in Conn, Upserts(c)
      PROVE  RecordInv'
  <2> DEFINE w == conn[c].want
             y == conn[c].says
  <2>1. /\ conn[c].at = "upsert" /\ conn'[c].at # "upsert" /\ \A o \in Conn : Modest(o)
        /\ w \in Device /\ y \in Mid
    BY <1>1, <1>6 DEF Upserts, Walks, Others, Unmoved, Modest, Claims
  <2>2. bySid' = [bySid EXCEPT ![w] = y] /\ byMid' = [byMid EXCEPT ![y] = w]
    BY <1>6 DEF Upserts
  <2>3. /\ bySid[w] \in {None, y}
        /\ \A o \in Conn :
             /\ Claims(o, w) /\ conn[o].mid # None => conn[o].mid = y
             /\ conn[o].at = "upsert" /\ conn[o].want = w => conn[o].says = y
    BY <1>2, <2>1
  <2> HIDE DEF w, y
  <2>4. /\ \A d \in Device : bySid'[d] = IF d = w THEN y ELSE bySid[d]
        /\ \A m \in Mid : byMid'[m] = IF m = y THEN w ELSE byMid[m]
    BY <2>1, <2>2 DEF TypeOK
  <2>5. \A m \in Mid : byMid'[m] # None => bySid'[byMid'[m]] = m
    BY <1>2, <1>3, <2>1, <2>3, <2>4
  <2>6. ASSUME NEW o \in Conn, NEW d \in Device, Claims(o, d)', conn'[o].mid # None
        PROVE  bySid'[d] \in {None, conn'[o].mid}
    BY <1>2, <2>1, <2>3, <2>4, <2>6 DEF Modest
  <2>7. ASSUME NEW x \in Conn, conn'[x].at = "upsert"
        PROVE  /\ bySid'[conn'[x].want] \in {None, conn'[x].says}
               /\ \A o \in Conn :
                    /\ Claims(o, conn[x].want)' /\ conn'[o].mid # None => conn'[o].mid = conn'[x].says
                    /\ conn'[o].at = "upsert" /\ conn'[o].want = conn'[x].want =>
                         conn'[o].says = conn'[x].says
    <3>1. conn[x].at = "upsert" /\ conn'[x].want = conn[x].want /\ conn'[x].says = conn[x].says
          /\ conn[x].want \in Device
      BY <1>1, <2>1, <2>7 DEF Modest
    <3>2. bySid'[conn[x].want] \in {None, conn[x].says}
      BY <1>2, <2>3, <2>4, <3>1
    <3>3. \A o \in Conn : Claims(o, conn[x].want)' /\ conn'[o].mid # None => conn'[o].mid = conn[x].says
      BY <1>2, <2>1, <3>1 DEF Modest
    <3>4. \A o \in Conn : conn'[o].at = "upsert" /\ conn'[o].want = conn[x].want => conn'[o].says = conn[x].says
      BY <1>2, <2>1, <3>1 DEF Modest
    <3> QED BY <3>1, <3>2, <3>3, <3>4
  <2> QED BY <2>5, <2>6, <2>7 DEF RecordInv
<1>7. ASSUME NEW c \in Conn, NEW s \in Device, Begins(c, s)
      PROVE  RecordInv'
  <2>1. /\ UNCHANGED <<bySid, byMid>> /\ \A o \in Conn \ {c} : Modest(o)
        /\ conn'[c].mid = conn[c].mid /\ bySid[s] # None /\ conn[c].mid \in {None, bySid[s]}
        /\ conn'[c].sid = s /\ conn'[c].want = conn[c].want /\ conn'[c].at # "upsert"
    BY <1>7 DEF Begins, Walks, Others, Unmoved, Modest, Claims, store
  <2>2. \A d \in Device : Claims(c, d)' => Claims(c, d) \/ d = s
    BY <2>1 DEF Claims
  <2>3. \A x \in Mid : byMid'[x] # None => bySid'[byMid'[x]] = x
    BY <1>2, <2>1
  <2>4. ASSUME NEW o \in Conn, NEW d \in Device, Claims(o, d)', conn'[o].mid # None
        PROVE  bySid'[d] \in {None, conn'[o].mid}
    BY <1>2, <2>1, <2>2, <2>4 DEF Modest
  <2>5. ASSUME NEW x \in Conn, conn'[x].at = "upsert"
        PROVE  /\ bySid'[conn'[x].want] \in {None, conn'[x].says}
               /\ \A o \in Conn :
                    /\ Claims(o, conn[x].want)' /\ conn'[o].mid # None => conn'[o].mid = conn'[x].says
                    /\ conn'[o].at = "upsert" /\ conn'[o].want = conn'[x].want =>
                         conn'[o].says = conn'[x].says
    <3>1. conn[x].at = "upsert" /\ conn'[x].want = conn[x].want /\ conn'[x].says = conn[x].says
          /\ conn[x].want \in Device /\ x # c
      BY <1>1, <2>1, <2>5 DEF Modest
    <3>2. bySid'[conn[x].want] \in {None, conn[x].says}
      BY <1>2, <2>1, <3>1
    <3>3. ASSUME NEW o \in Conn, Claims(o, conn[x].want)', conn'[o].mid # None
          PROVE  conn'[o].mid = conn[x].says
      BY <1>2, <2>1, <2>2, <3>1, <3>3 DEF Modest
    <3>4. \A o \in Conn : conn'[o].at = "upsert" /\ conn'[o].want = conn[x].want => conn'[o].says = conn[x].says
      BY <1>2, <2>1, <3>1 DEF Modest
    <3> QED BY <3>1, <3>2, <3>3, <3>4
  <2> QED BY <2>3, <2>4, <2>5 DEF RecordInv
<1>8. ASSUME NEW s \in Device, Forgets(s)
      PROVE  RecordInv'
  <2>1. /\ conn' = conn /\ \A d \in Device : bySid'[d] = IF d = s THEN None ELSE bySid[d]
        /\ \A m \in Mid : byMid'[m] = IF bySid[s] = m /\ byMid[m] = s THEN None ELSE byMid[m]
    BY <1>8 DEF Forgets, TypeOK
  <2>2. \A m \in Mid : byMid'[m] # None => bySid'[byMid'[m]] = m
    BY <1>2, <2>1
  <2>3. \A c \in Conn, d \in Device :
          Claims(c, d)' /\ conn'[c].mid # None => bySid'[d] \in {None, conn'[c].mid}
    BY <1>2, <2>1 DEF Claims
  <2>4. \A c \in Conn : conn'[c].at = "upsert" =>
          /\ bySid'[conn'[c].want] \in {None, conn'[c].says}
          /\ \A o \in Conn :
               /\ Claims(o, conn[c].want)' /\ conn'[o].mid # None => conn'[o].mid = conn'[c].says
               /\ conn'[o].at = "upsert" /\ conn'[o].want = conn'[c].want => conn'[o].says = conn'[c].says
    BY <1>1, <1>2, <2>1 DEF Claims
  <2> QED BY <2>2, <2>3, <2>4 DEF RecordInv
<1> QED BY <1>4, <1>5, <1>6, <1>7, <1>8, Claiming, Records

----------------------------------------------------------------------------
(* The theorems.                                                           *)

\* The invariant holds at the start: nobody is connected, and the store knows
\* one device or none.
LEMMA InitIInv ==
  ASSUME Init
  PROVE  IInv
<1>1. /\ \A s \in Device : s # None /\ devices[s] = None /\ terminals[s] = {}
      /\ \A c \in Conn : conn[c] = Fresh /\ timer[c].at = "off" /\ timer[c] \in Timer
  BY RelayAssumption DEF Init, Timer, Status
<1>2. Fresh \in Reader
  BY DEF Fresh, Reader, Status
<1>3. bySid \in [Device -> Mid \cup {None}]
  BY DEF Init
<1>4. ASSUME NEW m \in Mid
      PROVE  byMid[m] \in Device \cup {None} /\ (byMid[m] # None => bySid[byMid[m]] = m)
  <2>1. byMid[m] = IF \E s \in Device : bySid[s] = m THEN CHOOSE s \in Device : bySid[s] = m ELSE None
    BY DEF Init
  <2> QED BY <2>1
<1>5. TypeOK
  <2>1. byMid \in [Mid -> Device \cup {None}]
    BY <1>4 DEF Init
  <2>2. conn \in [Conn -> Reader]
    BY <1>2 DEF Init
  <2>3. timer \in [Conn -> Timer]
    BY DEF Init, Timer, Status
  <2>4. devices \in [Device -> Conn \cup {None}] /\ terminals \in [Device -> SUBSET Conn]
        /\ heard \in [Conn -> SUBSET Conn] /\ budget \in Nat
    BY RelayAssumption DEF Init
  <2> QED BY <1>3, <2>1, <2>2, <2>3, <2>4 DEF TypeOK
<1>6. \A c \in Conn : /\ conn[c].at = "new" /\ conn[c].sid = None /\ conn[c].want = None
                      /\ ~conn[c].authenticated /\ ~conn[c].nonce /\ ~conn[c].detached
  <2>1. /\ Fresh.at = "new" /\ Fresh.sid = None /\ Fresh.want = None
        /\ ~Fresh.authenticated /\ ~Fresh.nonce /\ ~Fresh.detached
    BY DEF Fresh
  <2> QED BY <1>1, <2>1
<1>7. ReaderInv
  BY <1>6 DEF ReaderInv, Reads, Kicking, Registering, Entering
<1>8. TimerInv
  BY <1>1, <1>6 DEF TimerInv, Entering, Kicking
<1>9. TableInv
  BY <1>1 DEF TableInv
<1>10. RecordInv
  BY <1>4, <1>6 DEF RecordInv, Claims
<1>11. GhostNeedsTimer
  BY <1>6 DEF GhostNeedsTimer
<1> QED BY <1>5, <1>7, <1>8, <1>9, <1>10, <1>11 DEF IInv

\* Every step keeps the invariant.
LEMMA NextIInv ==
  ASSUME IInv, [Next]_vars
  PROVE  IInv'
<1>1. CASE Next
  <2>1. TypeOK' /\ Kinds
    BY <1>1, StepKinds DEF IInv
  <2>2. ReaderInv'
    BY <2>1, ReaderStep DEF IInv
  <2>3. TimerInv'
    BY <2>1, TimerStep DEF IInv
  <2>4. TableInv'
    BY <2>1, TableStep DEF IInv
  <2>5. RecordInv'
    BY <2>1, RecordStep DEF IInv
  <2>6. GhostNeedsTimer'
    BY <2>1, GhostStep DEF IInv
  <2> QED BY <2>1, <2>2, <2>3, <2>4, <2>5, <2>6 DEF IInv
<1>2. CASE UNCHANGED vars
  BY <1>2 DEF vars, store, tables, IInv, TypeOK, ReaderInv, TimerInv, TableInv, RecordInv, Claims,
     GhostNeedsTimer, Tabled
<1> QED BY <1>1, <1>2

\* The inductive invariant of the relay.
LEMMA SpecIInv == Spec => []IInv
  BY InitIInv, NextIInv, PTL DEF Spec

\* The state keeps its types: whom a connection kicks, replaces or tells is a
\* connection, and a sid it registers or proves is a device's.
THEOREM TypeCorrect == Spec => []TypeOK
  BY SpecIInv, PTL DEF IInv

\* What a connection sends goes to the other side of its sid alone, and one
\* that named its mid stays with the device of that mid, however many
\* connections register, kick, leave and run into their timers at once.
THEOREM StaysInPair == Spec => []DataStaysInPair
<1>1. IInv => DataStaysInPair
  <2> SUFFICES ASSUME IInv, NEW c \in Conn
               PROVE  /\ \A t \in Targets(c) : /\ conn[t].authenticated /\ conn[t].sid = conn[c].sid
                                                /\ conn[t].role # conn[c].role
                      /\ conn[c].authenticated /\ conn[c].mid # None =>
                           bySid[conn[c].sid] \in {None, conn[c].mid}
    BY DEF DataStaysInPair
  <2>1. conn[c].authenticated => conn[c].sid \in Device /\ Claims(c, conn[c].sid)
    BY DEF IInv, ReaderInv, Reads, TypeOK, Reader, Claims
  <2>2. \A t \in Targets(c) : /\ conn[t].authenticated /\ conn[t].sid = conn[c].sid
                              /\ conn[t].role # conn[c].role
    BY <2>1 DEF IInv, TableInv, Targets, Peers, Entered
  <2>3. conn[c].authenticated /\ conn[c].mid # None => bySid[conn[c].sid] \in {None, conn[c].mid}
    BY <2>1 DEF IInv, RecordInv
  <2> QED BY <2>2, <2>3
<1> QED BY <1>1, SpecIInv, PTL

\* A connection that is gone stays in a table only if its auth timer, which
\* looked before it was authenticated, detaches it after.
THEOREM GhostsAreTimers == Spec => []GhostNeedsTimer
  BY SpecIInv, PTL DEF IInv

=============================================================================
