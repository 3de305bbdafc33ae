------------------------------ MODULE WsTunnel ------------------------------
(***************************************************************************)
(* One upgrade request through kvs (tools/kvs/pkg/wsproxy.go): the         *)
(* handshake with the backend, which either leaves the request to the      *)
(* standard proxy or answers it, and the tunnel: two goroutines that copy  *)
(* bytes between the raw sockets, with a read deadline that tells silence  *)
(* from traffic and a later write deadline that tells a receiver which     *)
(* does not read.                                                          *)
(*                                                                         *)
(* Bytes travel in chunks; the chunks of a direction are the numbers 1, 2, *)
(* ...  A tick is a fraction of the idle timeout, and a goroutine whose    *)
(* deadline passed acts before the next one.                               *)
(***************************************************************************)
EXTENDS Naturals, Sequences, FiniteSets

CONSTANTS
  Window,   \* wsIdleTimeout in ticks; 0: none
  Grace,    \* the write deadline's ticks after the read deadline
  Chunk,    \* wsCopyChunk
  MaxSent,  \* bound: chunks of each direction
  Budget,   \* bound: failures
  None

ASSUME TunnelAssumption ==
  /\ Window \in Nat /\ Grace \in Nat /\ Window <= Grace
  /\ Chunk \in Nat \ {0}
  /\ MaxSent \in [{"up", "down"} -> Nat] /\ Budget \in Nat
  /\ None \notin {"idle", "stalled", "error"}

Dir == {"up", "down"}
Other(d) == IF d = "up" THEN "down" ELSE "up"
Src(d) == IF d = "up" THEN "client" ELSE "backend"
Dst(d) == Src(Other(d))

VARIABLES
  at,      \* handleWSUpgrade's and then runWSTunnel's control point
  asked,   \* how often the backend has got the request
  told,    \* the responses the client got, by whom
  sent,    \* chunks the source has sent
  read,    \* chunks kvs has taken from the source
  ahead,   \* read together with the handshake, not yet forwarded
  got,     \* chunks the destination got
  fin,     \* the source has sent its last
  reset,   \* peers whose connection broke
  closed,  \* sockets kvs has closed
  copy,    \* the two copyTunnel
  count,   \* upProgress and downProgress
  endc,    \* what the goroutines reported
  quiet,   \* ticks since a chunk moved, up to two windows
  budget

handshake == <<at, asked, told, ahead>>
peers == <<sent, fin, reset>>
vars == <<handshake, peers, read, got, closed, copy, count, endc, quiet, budget>>

Copying == {"round", "copy", "judge"}
CopyPC == {"off", "ending", "done"} \cup Copying
Reason == {None, "idle", "stalled", "error"}

TypeOK ==
  /\ at \in {"start", "dial", "write", "read", "hijack", "say", "drainDown", "drainUp",
             "next", "first", "second", "done"}
  /\ asked \in Nat
  /\ told \in Seq({"next", "status", "502", "500", "101"})
  /\ sent \in [Dir -> Nat] /\ read \in [Dir -> Nat]
  /\ ahead \in [Dir -> Seq(Nat)] /\ got \in [Dir -> Seq(Nat)]
  /\ fin \in [Dir -> BOOLEAN]
  /\ reset \subseteq {"client", "backend"} /\ closed \subseteq {"client", "backend"}
  /\ copy \in [Dir -> [at : CopyPC, pipe : Seq(Nat), n : Nat, before : Nat, age : Nat,
                       strikes : Nat, why : Reason]]
  /\ count \in [Dir -> Nat]
  /\ endc \in Seq(Dir)
  /\ quiet \in Nat /\ budget \in Nat

Idle == [at |-> "off", pipe |-> <<>>, n |-> 0, before |-> 0, age |-> 0, strikes |-> 0,
         why |-> None]

Init ==
  /\ at = "start" /\ asked = 0 /\ told = <<>>
  /\ sent = [d \in Dir |-> 0] /\ read = [d \in Dir |-> 0]
  /\ ahead = [d \in Dir |-> <<>>] /\ got = [d \in Dir |-> <<>>]
  /\ fin = [d \in Dir |-> FALSE] /\ reset = {} /\ closed = {}
  /\ copy = [d \in Dir |-> Idle] /\ count = [d \in Dir |-> 0]
  /\ endc = <<>> /\ quiet = 0
  /\ budget = Budget

Spend == budget > 0 /\ budget' = budget - 1

----------------------------------------------------------------------------
(* The handshake.                                                          *)

Goto(pc) == at' = pc
Tell(who) == told' = Append(told, who)
Tunnel == <<peers, got, copy, count, endc, quiet>>

\* Another mode, no upgrade, no hijacker, no valid protocol name; or the backend
\* cannot be dialled.
NotOurs ==
  /\ at \in {"start", "dial"}
  /\ \/ at = "start" /\ UNCHANGED budget
     \/ at = "dial" /\ Spend
  /\ Goto("next")
  /\ UNCHANGED <<asked, told, ahead, read, closed, Tunnel>>

Upgrade ==
  /\ at = "start"
  /\ Goto("dial")
  /\ UNCHANGED <<asked, told, ahead, read, closed, budget, Tunnel>>

dial ==
  /\ at = "dial"
  /\ Goto("write")
  /\ UNCHANGED <<asked, told, ahead, read, closed, budget, Tunnel>>

\* The request is written.  When that fails the backend may have it all the same.
WriteRequest ==
  /\ at = "write"
  /\ \/ /\ Goto("read") /\ asked' = asked + 1
        /\ UNCHANGED <<closed, budget>>
     \/ /\ Goto("next") /\ Spend
        /\ asked' \in {asked, asked + 1}
        /\ closed' = closed \cup {"backend"}
  /\ UNCHANGED <<told, ahead, read, Tunnel>>

\* No answer in time, or not one that can be read.
NoAnswer ==
  /\ at = "read"
  /\ Goto("next") /\ Spend
  /\ closed' = closed \cup {"backend"}
  /\ UNCHANGED <<asked, told, ahead, read, Tunnel>>

\* Any status but 101, written to the client as it is, or another protocol than
\* the one asked for.  Only then is the backend's socket closed.
Refused ==
  /\ at = "read"
  /\ \/ Tell("status") /\ UNCHANGED closed
     \/ Tell("502") /\ closed' = closed \cup {"backend"}
  /\ Goto("done")
  /\ UNCHANGED <<asked, ahead, read, budget, Tunnel>>

\* The first k chunks of the source that were read with the handshake.
ReadAhead(d) ==
  \E k \in 0 .. sent[d] :
    /\ read' = [read EXCEPT ![d] = k]
    /\ ahead' = [ahead EXCEPT ![d] = [i \in 1 .. k |-> i]]

\* 101.  The reader may hold bytes that followed it.
Accepted ==
  /\ at = "read"
  /\ Goto("hijack")
  /\ ReadAhead("down")
  /\ UNCHANGED <<asked, told, closed, budget, Tunnel>>

Hijack ==
  /\ at = "hijack"
  /\ \/ /\ Goto("say") /\ ReadAhead("up")
        /\ UNCHANGED <<told, closed, budget>>
     \/ /\ Goto("done") /\ Tell("500") /\ Spend
        /\ closed' = closed \cup {"backend"}
        /\ UNCHANGED <<read, ahead>>
  /\ UNCHANGED <<asked, Tunnel>>

Abandon == closed' = {"client", "backend"} /\ Goto("done")

writeUpgradeResponse ==
  /\ at = "say"
  /\ \/ Goto("drainDown") /\ Tell("101") /\ UNCHANGED <<closed, budget>>
     \/ Abandon /\ Spend /\ UNCHANGED told
  /\ UNCHANGED <<asked, ahead, read, Tunnel>>

\* What was read with the handshake is forwarded, whole or the tunnel is given up.
drainBuffered(d, pc) ==
  /\ \/ /\ got' = [got EXCEPT ![d] = @ \o ahead[d]]
        /\ ahead' = [ahead EXCEPT ![d] = <<>>]
        /\ Goto(pc) /\ UNCHANGED <<closed, budget>>
     \/ /\ \E k \in 0 .. Len(ahead[d]) : got' = [got EXCEPT ![d] = @ \o SubSeq(ahead[d], 1, k)]
        /\ Abandon /\ Spend /\ UNCHANGED ahead
  /\ UNCHANGED <<asked, told, peers, read, count, endc, quiet>>

DrainDown == at = "drainDown" /\ drainBuffered("down", "drainUp") /\ UNCHANGED copy

\* Then runWSTunnel starts the two goroutines.
DrainUp ==
  /\ at = "drainUp"
  /\ drainBuffered("up", "first")
  /\ copy' = IF at' = "first" THEN [d \in Dir |-> [Idle EXCEPT !.at = "round"]] ELSE copy

\* The standard proxy asks the backend again and writes one answer.
ServeNext ==
  /\ at = "next"
  /\ Goto("done") /\ Tell("next")
  /\ asked' = asked + 1
  /\ UNCHANGED <<ahead, read, closed, budget, Tunnel>>

handleWSUpgrade ==
  \/ NotOurs \/ Upgrade \/ dial \/ WriteRequest \/ NoAnswer \/ Refused \/ Accepted
  \/ Hijack \/ writeUpgradeResponse \/ DrainDown \/ DrainUp \/ ServeNext

----------------------------------------------------------------------------
(* copyTunnel: one goroutine per direction.                                *)

Outside == <<handshake, peers, closed, endc, budget>>
Copy(d, c) == copy' = [copy EXCEPT ![d] = c]

\* Deadlines of this round passed.
ReadLate(d) == Window > 0 /\ copy[d].age >= Window
WriteLate(d) == Window > 0 /\ copy[d].age >= Window + Grace

Readable(d) == read[d] < sent[d] /\ Src(d) \notin closed

\* A round begins with a look at the other direction's counter.
Round(d) ==
  /\ copy[d].at = "round"
  /\ Copy(d, [copy[d] EXCEPT !.at = "copy", !.before = count[Other(d)], !.age = 0, !.n = 0])
  /\ UNCHANGED <<Outside, read, got, count, quiet>>

Read(d) ==
  /\ copy[d].at = "copy" /\ copy[d].pipe = <<>>
  /\ Readable(d) /\ ~ReadLate(d)
  /\ read' = [read EXCEPT ![d] = @ + 1]
  /\ Copy(d, [copy[d] EXCEPT !.pipe = <<read[d] + 1>>])
  /\ UNCHANGED <<Outside, got, count, quiet>>

\* A receiver that does not read takes nothing: this step may wait for ever.
\* A full chunk ends the round.
Write(d) ==
  LET n == copy[d].n + 1
      full == Window > 0 /\ n = Chunk
  IN /\ copy[d].at = "copy" /\ copy[d].pipe # <<>>
     /\ Dst(d) \notin closed \cup reset /\ ~WriteLate(d)
     /\ got' = [got EXCEPT ![d] = @ \o copy[d].pipe]
     /\ count' = IF full THEN [count EXCEPT ![d] = @ + n] ELSE count
     /\ Copy(d, [copy[d] EXCEPT !.pipe = <<>>, !.n = n,
                                !.at = IF full THEN "round" ELSE "copy",
                                !.strikes = IF full THEN 0 ELSE @])
     /\ quiet' = 0
     /\ UNCHANGED <<Outside, read>>

\* CopyN returns n chunks and goes on at pc, or ends.
Return(d, pc, why) ==
  /\ count' = IF Window > 0 THEN [count EXCEPT ![d] = @ + copy[d].n] ELSE count
  /\ Copy(d, [copy[d] EXCEPT !.at = pc, !.why = why, !.pipe = <<>>])
  /\ UNCHANGED <<Outside, read, got, quiet>>

EOF(d) ==
  /\ copy[d].at = "copy" /\ copy[d].pipe = <<>>
  /\ fin[d] /\ read[d] = sent[d] /\ Src(d) \notin closed \cup reset
  /\ ~ReadLate(d)
  /\ Return(d, "ending", None)

\* Nothing to read until the deadline.
ReadTimeout(d) ==
  /\ copy[d].at = "copy" /\ copy[d].pipe = <<>>
  /\ Src(d) \notin closed
  /\ ReadLate(d) /\ ~WriteLate(d)
  /\ Return(d, "judge", None)

\* Mutant of WriteTimeout: a late write is taken for silence.
WriteTimeoutGoesOn(d) ==
  /\ copy[d].at = "copy" /\ WriteLate(d)
  /\ {Src(d), Dst(d)} \cap closed = {}
  /\ Return(d, "judge", None)

\* The write deadline passed: what was read and not written is lost, and so is
\* the tunnel.
WriteTimeout(d) ==
  /\ copy[d].at = "copy" /\ WriteLate(d)
  /\ {Src(d), Dst(d)} \cap closed = {}
  /\ Return(d, "ending", "stalled")

\* Reading from a socket that broke or is closed, or writing to one.
Broken(d) ==
  /\ copy[d].at = "copy"
  /\ IF copy[d].pipe = <<>>
       THEN Src(d) \in closed \/ (Src(d) \in reset /\ ~Readable(d))
       ELSE Dst(d) \in closed \cup reset
  /\ Return(d, "ending", "error")

\* Two windows of silence end the tunnel: this direction moved nothing, and the
\* other direction's counter is what it was when the window began.
Judge(d) ==
  LET c == copy[d]
      alive == c.n > 0 \/ count[Other(d)] # c.before
      strikes == IF alive THEN 0 ELSE c.strikes + 1
  IN /\ c.at = "judge"
     /\ Copy(d, IF strikes >= 2 THEN [c EXCEPT !.at = "ending", !.why = "idle"]
                ELSE [c EXCEPT !.at = "round", !.strikes = strikes])
     /\ UNCHANGED <<Outside, read, got, count, quiet>>

copyTunnel(d) ==
  \/ Round(d) \/ Read(d) \/ Write(d) \/ EOF(d)
  \/ ReadTimeout(d) \/ WriteTimeout(d) \/ Broken(d) \/ Judge(d)

----------------------------------------------------------------------------
(* runWSTunnel.                                                            *)

\* closeWrite of the destination, then the report.
Report(d) ==
  /\ copy[d].at = "ending"
  /\ Copy(d, [copy[d] EXCEPT !.at = "done"])
  /\ endc' = Append(endc, d)
  /\ UNCHANGED <<handshake, peers, read, got, closed, count, quiet, budget>>

\* Mutant of FirstEnd: both sockets are left to the deferred Close.
FirstEndWaits ==
  /\ at = "first" /\ endc # <<>>
  /\ Goto("second")
  /\ UNCHANGED <<asked, told, ahead, peers, read, got, closed, copy, count, endc, quiet, budget>>

\* An error of one direction closes both sockets, so that the other one ends.
FirstEnd ==
  /\ at = "first" /\ endc # <<>>
  /\ closed' = IF copy[Head(endc)].why = None THEN closed ELSE {"client", "backend"}
  /\ Goto("second")
  /\ UNCHANGED <<asked, told, ahead, peers, read, got, copy, count, endc, quiet, budget>>

SecondEnd ==
  /\ at = "second" /\ Len(endc) = 2
  /\ closed' = {"client", "backend"}
  /\ Goto("done")
  /\ UNCHANGED <<asked, told, ahead, peers, read, got, copy, count, endc, quiet, budget>>

runWSTunnel == FirstEnd \/ SecondEnd \/ \E d \in Dir : Report(d)

----------------------------------------------------------------------------
(* The two peers, and time.                                                *)

\* The client sends from the start, a backend once it has accepted.
Sends(d) ==
  /\ ~fin[d] /\ Src(d) \notin reset /\ sent[d] < MaxSent[d]
  /\ d = "down" => asked > 0
  /\ sent' = [sent EXCEPT ![d] = @ + 1]
  /\ UNCHANGED <<handshake, fin, reset, read, got, closed, copy, count, endc, quiet, budget>>

Fin(d) ==
  /\ ~fin[d] /\ Src(d) \notin reset /\ told = <<"101">>
  /\ fin' = [fin EXCEPT ![d] = TRUE]
  /\ UNCHANGED <<handshake, sent, reset, read, got, closed, copy, count, endc, quiet, budget>>

Reset(peer) ==
  /\ at = "first" \/ at = "second"
  /\ peer \notin reset
  /\ Spend
  /\ reset' = reset \cup {peer}
  /\ UNCHANGED <<handshake, sent, fin, read, got, closed, copy, count, endc, quiet>>

\* A goroutine that waits: for a byte, or for a receiver to read.
Waits(d) ==
  IF copy[d].pipe = <<>>
    THEN ~Readable(d) /\ ~fin[d] /\ Src(d) \notin closed \cup reset /\ ~ReadLate(d)
    ELSE Dst(d) \notin closed \cup reset /\ ~WriteLate(d)

\* Time passes while every goroutine waits or is done.
Tick ==
  /\ Window > 0
  /\ \/ at = "first" /\ endc = <<>>
     \/ at = "second" /\ Len(endc) = 1
  /\ \A d \in Dir : copy[d].at = "done" \/ (copy[d].at = "copy" /\ Waits(d))
  /\ copy' = [d \in Dir |-> IF copy[d].at = "copy" THEN [copy[d] EXCEPT !.age = @ + 1]
                            ELSE copy[d]]
  /\ quiet' = IF quiet < 2 * Window THEN quiet + 1 ELSE quiet
  /\ UNCHANGED <<handshake, peers, read, got, closed, count, endc, budget>>

Next ==
  \/ handleWSUpgrade \/ runWSTunnel
  \/ \E d \in Dir : copyTunnel(d) \/ Sends(d) \/ Fin(d)
  \/ \E peer \in {"client", "backend"} : Reset(peer)
  \/ Tick

\* A goroutine that can run runs.  A peer that reads is not assumed.
Fairness ==
  /\ WF_vars(runWSTunnel)
  /\ \A d \in Dir : WF_vars(Round(d) \/ Broken(d) \/ Judge(d) \/ Report(d))

Spec == Init /\ [][Next]_vars /\ Fairness

----------------------------------------------------------------------------
(* Properties.                                                             *)

\* The client gets one response, the backend's 101 before any of its bytes: what
\* was answered is not left to the standard proxy.  A destination gets the chunks of
\* its source in order and without a gap, whatever was read with the handshake, lost
\* in a pipe or cut off by an error; and when the direction ended cleanly it has got
\* every chunk.
BytesIntact ==
  /\ Len(told) <= 1
  /\ \A d \in Dir :
       /\ got[d] # <<>> => told = <<"101">>
       /\ \A i \in 1 .. Len(got[d]) : got[d][i] = i
       /\ copy[d].at = "done" /\ copy[d].why = None => Len(got[d]) = sent[d]

\* When a direction ends with an error, the other one ends too and the handler
\* returns, although its peer neither reads nor sends.
EndIsShared == (\E d \in Dir : copy[d].why # None) ~> at = "done"

\* A tunnel ends as idle when both directions have been silent for two windows:
\* wsproxy.go says so of errTunnelIdle.  But a direction adds to its counter when
\* its round ends, up to a window after the byte moved, and then the other one has
\* judged.
SilenceIsBoth == \A d \in Dir : copy[d].why = "idle" => quiet >= 2 * Window

=============================================================================
