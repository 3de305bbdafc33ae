------------------------------ MODULE VscFlow ------------------------------
(***************************************************************************)
(* One session of relay://vscode (tools/kvs/pkg/vscrelay.go): bytes of the *)
(* worker are staged in a queue and written to the client by writeLoop,    *)
(* bytes of the client are read by readLoop and written to the channel.    *)
(* Who falls behind asks the other side to pause: the relay when the queue *)
(* passes its high water, the worker when its backend is slow; writers     *)
(* wait at a gate while the channel is congested.                          *)
(*                                                                         *)
(* A step is one hold of a lock or one write to a socket.  Waiting on a    *)
(* condition variable is modelled as sleeping until a Broadcast.  A chunk  *)
(* has size one; the request head is the first chunk of the client.  The   *)
(* tunnel around the session is VscTunnel.                                 *)
(***************************************************************************)
EXTENDS Naturals, Sequences

CONSTANTS
  SinkHigh, SinkCap, \* sinkHighWater, sinkCap
  ChanHigh,          \* chanHighWater
  LinkCap,           \* frames the socket to the worker takes before it blocks
  MaxDown, MaxUp,    \* bound: chunks of the worker and of the client
  Budget             \* bound: closes and failures, pauses of the worker, chunks
                     \* of other sessions

ASSUME FlowAssumption ==
  /\ {SinkHigh, SinkCap, ChanHigh, LinkCap, MaxDown, MaxUp, Budget} \subseteq Nat
  /\ 0 < SinkHigh /\ SinkHigh <= SinkCap /\ 0 < ChanHigh /\ 0 < LinkCap

VARIABLES
  wire,    \* frames of the worker on their way to the relay
  link,    \* frames of the relay on their way to the worker
  chan,    \* the channel: "up", "closed" (dropChannel at work), "dead"
  pend,    \* vscChannel.pend
  other,   \* what other sessions have of pend
  queue, paused, peerHold, dead, wrote,   \* fields of vscSession
  reg,     \* the session is in tunnel.sessions
  ender,   \* the rest of endSession: "no", "removed", "dead", "done"
  reader,  \* the channel's readLoop: control point, chunk at hand
  writer,  \* writeLoop: control point, chunk at hand, resume
  sreader, \* the session's readLoop: control point
  client,  \* the client: its chunks read so far, has it gone, is its socket
           \* closed, did it get the 502, what else it got
  peer,    \* the worker: chunks sent, told to pause, holding the client
           \* back, what it got
  budget

session == <<queue, paused, peerHold, dead, wrote>>
channel == <<wire, link, chan, pend, other>>
vars == <<channel, session, reg, ender, reader, writer, sreader, client, peer, budget>>

Frame == [type : {"data"}, n : Nat] \cup [type : {"pause", "resume", "close"}, n : {0}]

ReaderPC == {"read", "push", "pause", "overflow", "ending", "done"}
WriterPC == {"check", "asleep", "write", "resume", "done"}
SreaderPC == {"head", "check", "asleep", "read", "gate", "gated", "send", "close", "done"}

TypeOK ==
  /\ wire \in Seq(Frame) /\ link \in Seq(Frame)
  /\ chan \in {"up", "closed", "dead"}
  /\ pend \in Nat /\ other \in Nat
  /\ queue \in Seq(Nat)
  /\ paused \in BOOLEAN /\ peerHold \in BOOLEAN /\ dead \in BOOLEAN /\ wrote \in BOOLEAN
  /\ reg \in BOOLEAN
  /\ ender \in {"no", "removed", "dead", "done"}
  /\ reader \in [at : ReaderPC, n : Nat]
  /\ writer \in [at : WriterPC, n : Nat, resume : BOOLEAN]
  /\ sreader \in SreaderPC
  /\ client \in [read : Nat, gone : BOOLEAN, closed : BOOLEAN, err : BOOLEAN, got : Seq(Nat)]
  /\ peer \in [sent : Nat, paused : BOOLEAN, holds : BOOLEAN, got : Seq(Nat)]
  /\ budget \in Nat

\* handleClient has registered the session; readLoop has the head to send.
\* Another session may be in the middle of a write.
Init ==
  /\ wire = <<>> /\ link = <<>>
  /\ chan = "up"
  /\ other \in {0, 1} /\ pend = other
  /\ queue = <<>>
  /\ paused = FALSE /\ peerHold = FALSE /\ dead = FALSE /\ wrote = FALSE
  /\ reg = TRUE /\ ender = "no"
  /\ reader = [at |-> "read", n |-> 0]
  /\ writer = [at |-> "check", n |-> 0, resume |-> FALSE]
  /\ sreader = "head"
  /\ client = [read |-> 0, gone |-> FALSE, closed |-> FALSE, err |-> FALSE, got |-> <<>>]
  /\ peer = [sent |-> 0, paused |-> FALSE, holds |-> FALSE, got |-> <<>>]
  /\ budget = Budget

Spend ==
  /\ budget > 0
  /\ budget' = budget - 1

Control(t) == [type |-> t, n |-> 0]
Data(n) == [type |-> "data", n |-> n]

\* writeFrame to the worker: it blocks while the socket is full; on a closed
\* socket it fails.
Writable == chan = "up" /\ Len(link) < LinkCap

\* sendControl: errors are ignored.
SendControl(t) ==
  \/ Writable /\ link' = Append(link, Control(t))
  \/ chan # "up" /\ UNCHANGED link

\* cond.Broadcast on the session's lock.
WakeWriter == IF writer.at = "asleep" THEN "check" ELSE writer.at
WakeSreader == IF sreader = "asleep" THEN "check" ELSE sreader

----------------------------------------------------------------------------
(* endSession.                                                             *)

\* Whoever finds the session in the map takes it out.
TakeOut ==
  /\ reg' = FALSE
  /\ ender' = IF reg THEN "removed" ELSE ender

MarkDead ==
  /\ ender = "removed"
  /\ ender' = "dead"
  /\ dead' = TRUE
  /\ writer' = [writer EXCEPT !.at = WakeWriter]
  /\ sreader' = WakeSreader
  /\ UNCHANGED <<channel, queue, paused, peerHold, wrote, reg, reader, client, peer, budget>>

\* Mutant of CloseClient: the 502 is sent to whoever got no bytes yet.
CloseClientUnread ==
  /\ ender = "dead"
  /\ ender' = "done"
  /\ client' = [client EXCEPT !.closed = TRUE, !.err = ~wrote \/ writer.at = "write"]
  /\ UNCHANGED <<channel, session, reg, reader, writer, sreader, peer, budget>>

\* Mutant of CloseClient: a client that was answered keeps its socket.
CloseClientUnanswered ==
  /\ ender = "dead"
  /\ ender' = "done"
  /\ client' = [client EXCEPT !.closed = ~wrote, !.err = ~wrote]
  /\ UNCHANGED <<channel, session, reg, reader, writer, sreader, peer, budget>>

\* A client that was forwarded nothing gets a 502; the socket is closed.
CloseClient ==
  /\ ender = "dead"
  /\ ender' = "done"
  /\ client' = [client EXCEPT !.closed = TRUE, !.err = ~wrote]
  /\ UNCHANGED <<channel, session, reg, reader, writer, sreader, peer, budget>>

EndSession == MarkDead \/ CloseClient

----------------------------------------------------------------------------
(* readLoop of the channel: onControl, onData, push.                       *)

\* A data frame: the session is looked up.
OnData ==
  /\ reader.at = "read" /\ chan = "up"
  /\ wire # <<>> /\ Head(wire).type = "data"
  /\ wire' = Tail(wire)
  /\ reader' = IF reg THEN [at |-> "push", n |-> Head(wire).n] ELSE reader
  /\ UNCHANGED <<link, chan, pend, other, session, reg, ender, writer, sreader, client, peer, budget>>

\* A chunk goes on the queue; past the high water the worker is to pause,
\* past the cap the session is to end.
Push ==
  /\ reader.at = "push"
  /\ \/ /\ dead
        /\ reader' = [at |-> "read", n |-> 0]
        /\ UNCHANGED <<session, writer, sreader>>
     \/ /\ ~dead /\ Len(queue) + 1 > SinkCap
        /\ wrote' = TRUE
        /\ reader' = [at |-> "overflow", n |-> 0]
        /\ UNCHANGED <<queue, paused, peerHold, dead, writer, sreader>>
     \/ /\ ~dead /\ Len(queue) + 1 <= SinkCap
        /\ wrote' = TRUE
        /\ queue' = Append(queue, reader.n)
        /\ LET pause == ~paused /\ Len(queue) + 1 >= SinkHigh
           IN /\ paused' = (paused \/ pause)
              /\ reader' = [at |-> IF pause THEN "pause" ELSE "read", n |-> 0]
        /\ writer' = [writer EXCEPT !.at = WakeWriter]
        /\ sreader' = WakeSreader
        /\ UNCHANGED <<peerHold, dead>>
  /\ UNCHANGED <<channel, reg, ender, client, peer, budget>>

\* The request to pause is sent after the lock is released.
SendPause ==
  /\ reader.at = "pause"
  /\ SendControl("pause")
  /\ reader' = [at |-> "read", n |-> 0]
  /\ UNCHANGED <<wire, chan, pend, other, session, reg, ender, writer, sreader, client, peer, budget>>

Overflow ==
  /\ reader.at = "overflow"
  /\ TakeOut
  /\ reader' = [at |-> IF reg THEN "ending" ELSE "read", n |-> 0]
  /\ UNCHANGED <<channel, session, writer, sreader, client, peer, budget>>

\* The worker closes the session.
OnClose ==
  /\ reader.at = "read" /\ chan = "up"
  /\ wire # <<>> /\ Head(wire).type = "close"
  /\ wire' = Tail(wire)
  /\ TakeOut
  /\ reader' = [at |-> IF reg THEN "ending" ELSE "read", n |-> 0]
  /\ UNCHANGED <<link, chan, pend, other, session, writer, sreader, client, peer, budget>>

Ended ==
  /\ reader.at = "ending" /\ ender = "done"
  /\ reader' = [at |-> "read", n |-> 0]
  /\ UNCHANGED <<channel, session, reg, ender, writer, sreader, client, peer, budget>>

\* The worker holds the client back, or lets it go on.
setPeerHold ==
  /\ reader.at = "read" /\ chan = "up"
  /\ wire # <<>> /\ Head(wire).type \in {"pause", "resume"}
  /\ wire' = Tail(wire)
  /\ IF reg
       THEN /\ peerHold' = (Head(wire).type = "pause")
            /\ writer' = [writer EXCEPT !.at = WakeWriter]
            /\ sreader' = WakeSreader
       ELSE UNCHANGED <<peerHold, writer, sreader>>
  /\ UNCHANGED <<link, chan, pend, other, queue, paused, dead, wrote, reg, ender, reader,
                 client, peer, budget>>

Demux == OnData \/ Push \/ SendPause \/ Overflow \/ OnClose \/ Ended \/ setPeerHold

----------------------------------------------------------------------------
(* writeLoop.                                                              *)

\* Mutant of Dequeue: the queue is looked at before the chunk is taken.
DequeueLate ==
  /\ writer.at = "check" /\ ~dead /\ queue # <<>>
  /\ queue' = Tail(queue)
  /\ writer' = [at |-> "write", n |-> Head(queue), resume |-> FALSE]
  /\ UNCHANGED <<channel, paused, peerHold, dead, wrote, reg, ender, reader, sreader, client, peer, budget>>

\* Mutant of Dequeue: the newest chunk first.
DequeueNewest ==
  /\ writer.at = "check" /\ ~dead /\ queue # <<>>
  /\ queue' = SubSeq(queue, 1, Len(queue) - 1)
  /\ LET resume == paused /\ Len(queue) = 1
     IN /\ paused' = (paused /\ ~resume)
        /\ writer' = [at |-> "write", n |-> queue[Len(queue)], resume |-> resume]
  /\ UNCHANGED <<channel, peerHold, dead, wrote, reg, ender, reader, sreader, client, peer, budget>>

\* The next chunk is taken; the last one of a paused session takes the
\* pause back.
Dequeue ==
  /\ writer.at = "check" /\ ~dead /\ queue # <<>>
  /\ queue' = Tail(queue)
  /\ LET resume == paused /\ Len(queue) = 1
     IN /\ paused' = (paused /\ ~resume)
        /\ writer' = [at |-> "write", n |-> Head(queue), resume |-> resume]
  /\ UNCHANGED <<channel, peerHold, dead, wrote, reg, ender, reader, sreader, client, peer, budget>>

AwaitChunk ==
  /\ writer.at = "check"
  /\ \/ dead /\ writer' = [writer EXCEPT !.at = "done"]
     \/ ~dead /\ queue = <<>> /\ writer' = [writer EXCEPT !.at = "asleep"]
  /\ UNCHANGED <<channel, session, reg, ender, reader, sreader, client, peer, budget>>

\* The client takes the chunk.
WriteClient ==
  /\ writer.at = "write" /\ ~client.closed /\ ~client.gone
  /\ client' = [client EXCEPT !.got = Append(@, writer.n)]
  /\ writer' = [at |-> IF writer.resume THEN "resume" ELSE "check", n |-> 0, resume |-> FALSE]
  /\ UNCHANGED <<channel, session, reg, ender, reader, sreader, peer, budget>>

WriteFails ==
  /\ writer.at = "write" /\ (client.closed \/ client.gone)
  /\ TakeOut
  /\ writer' = [at |-> "done", n |-> 0, resume |-> FALSE]
  /\ UNCHANGED <<channel, session, reader, sreader, client, peer, budget>>

SendResume ==
  /\ writer.at = "resume"
  /\ SendControl("resume")
  /\ writer' = [writer EXCEPT !.at = "check"]
  /\ UNCHANGED <<wire, chan, pend, other, session, reg, ender, reader, sreader, client, peer, budget>>

WriteLoop == Dequeue \/ AwaitChunk \/ WriteClient \/ WriteFails \/ SendResume

----------------------------------------------------------------------------
(* readLoop of the session, and the gate of the channel.                   *)

\* The request head is rebuilt, or cannot be.
RebuildHead ==
  /\ sreader = "head"
  /\ client' = [client EXCEPT !.read = 1]
  /\ sreader' = "gate"
  /\ UNCHANGED <<channel, session, reg, ender, reader, writer, peer, budget>>

HeadFails ==
  /\ sreader = "head"
  /\ Spend
  /\ TakeOut
  /\ sreader' = "done"
  /\ UNCHANGED <<channel, session, reader, writer, client, peer>>

AwaitRelease ==
  /\ sreader = "check"
  /\ sreader' = IF dead THEN "done" ELSE IF peerHold THEN "asleep" ELSE "read"
  /\ UNCHANGED <<channel, session, reg, ender, reader, writer, client, peer, budget>>

ReadClient ==
  /\ sreader = "read" /\ ~client.closed /\ ~client.gone
  /\ client.read < MaxUp
  /\ client' = [client EXCEPT !.read = @ + 1]
  /\ sreader' = "gate"
  /\ UNCHANGED <<channel, session, reg, ender, reader, writer, peer, budget>>

\* The client is gone, or its socket was closed by endSession.
ReadFails ==
  /\ sreader = "read" /\ (client.closed \/ client.gone)
  /\ sreader' = "close"
  /\ UNCHANGED <<channel, session, reg, ender, reader, writer, client, peer, budget>>

SendClose ==
  /\ sreader = "close"
  /\ SendControl("close")
  /\ TakeOut
  /\ sreader' = "done"
  /\ UNCHANGED <<wire, chan, pend, other, session, reader, writer, client, peer, budget>>

\* writeSession: a chunk passes the gate while the channel is not congested.
Gate ==
  /\ sreader = "gate"
  /\ \/ /\ pend >= ChanHigh /\ chan = "dead"
        /\ TakeOut
        /\ sreader' = "done"
        /\ UNCHANGED pend
     \/ /\ pend >= ChanHigh /\ chan # "dead"
        /\ sreader' = "gated"
        /\ UNCHANGED <<pend, reg, ender>>
     \/ /\ pend < ChanHigh
        /\ pend' = pend + 1
        /\ sreader' = "send"
        /\ UNCHANGED <<reg, ender>>
  /\ UNCHANGED <<wire, link, chan, other, session, reader, writer, client, peer, budget>>

\* pend goes down by one; who waits at the gate is woken when it is open.
Written(s) ==
  /\ pend' = pend - 1
  /\ sreader' = IF s = "gated" /\ pend - 1 < ChanHigh THEN "gate" ELSE s

WriteSession ==
  /\ sreader = "send"
  /\ \/ Writable /\ link' = Append(link, Data(client.read)) /\ Written("check")
        /\ UNCHANGED <<reg, ender>>
     \/ chan # "up" /\ Written("done") /\ TakeOut /\ UNCHANGED link
  /\ UNCHANGED <<wire, chan, other, session, reader, writer, client, peer, budget>>

ReadLoop == RebuildHead \/ AwaitRelease \/ ReadFails \/ SendClose \/ Gate \/ WriteSession

\* Other sessions of the channel in writeSession.
OtherEnters ==
  /\ chan = "up"
  /\ pend < ChanHigh
  /\ Spend
  /\ pend' = pend + 1 /\ other' = other + 1
  /\ UNCHANGED <<wire, link, chan, session, reg, ender, reader, writer, sreader, client, peer>>

OtherLeaves ==
  /\ other > 0
  /\ other' = other - 1
  /\ Written(sreader)
  /\ UNCHANGED <<wire, link, chan, session, reg, ender, reader, writer, client, peer, budget>>

----------------------------------------------------------------------------
(* dropChannel, as far as the session sees it.                             *)

\* The socket breaks or is closed; what is on the way is lost.
CloseSocket ==
  /\ chan = "up"
  /\ Spend
  /\ chan' = "closed"
  /\ wire' = <<>> /\ link' = <<>>
  /\ UNCHANGED <<pend, other, session, reg, ender, reader, writer, sreader, client, peer>>

DropSession ==
  /\ chan = "closed" /\ reg
  /\ TakeOut
  /\ UNCHANGED <<channel, session, reader, writer, sreader, client, peer, budget>>

WakeGate ==
  /\ chan = "closed" /\ ~reg
  /\ chan' = "dead"
  /\ sreader' = IF sreader = "gated" THEN "gate" ELSE sreader
  /\ UNCHANGED <<wire, link, pend, other, session, reg, ender, reader, writer, client, peer, budget>>

ReaderStops ==
  /\ reader.at = "read" /\ chan # "up"
  /\ reader' = [at |-> "done", n |-> 0]
  /\ UNCHANGED <<channel, session, reg, ender, writer, sreader, client, peer, budget>>

DropChannel == DropSession \/ WakeGate \/ ReaderStops

----------------------------------------------------------------------------
(* The worker and the client.                                              *)

\* The worker sends what its backend says, unless it was told to pause.
PeerSends ==
  /\ chan = "up" /\ ~peer.paused /\ peer.sent < MaxDown
  /\ peer' = [peer EXCEPT !.sent = @ + 1]
  /\ wire' = Append(wire, Data(peer.sent + 1))
  /\ UNCHANGED <<link, chan, pend, other, session, reg, ender, reader, writer, sreader, client, budget>>

PeerCloses ==
  /\ chan = "up"
  /\ Spend
  /\ wire' = Append(wire, Control("close"))
  /\ UNCHANGED <<link, chan, pend, other, session, reg, ender, reader, writer, sreader, client, peer>>

PeerHolds ==
  /\ chan = "up" /\ ~peer.holds
  /\ Spend
  /\ peer' = [peer EXCEPT !.holds = TRUE]
  /\ wire' = Append(wire, Control("pause"))
  /\ UNCHANGED <<link, chan, pend, other, session, reg, ender, reader, writer, sreader, client>>

PeerReleases ==
  /\ chan = "up" /\ peer.holds
  /\ peer' = [peer EXCEPT !.holds = FALSE]
  /\ wire' = Append(wire, Control("resume"))
  /\ UNCHANGED <<link, chan, pend, other, session, reg, ender, reader, writer, sreader, client, budget>>

\* The worker reads its channel at all times.
PeerReads ==
  /\ link # <<>>
  /\ link' = Tail(link)
  /\ LET f == Head(link)
     IN peer' = IF f.type = "data" THEN [peer EXCEPT !.got = Append(@, f.n)]
                ELSE IF f.type = "close" THEN peer
                ELSE [peer EXCEPT !.paused = (f.type = "pause")]
  /\ UNCHANGED <<wire, chan, pend, other, session, reg, ender, reader, writer, sreader, client, budget>>

ClientGoes ==
  /\ ~client.gone
  /\ Spend
  /\ client' = [client EXCEPT !.gone = TRUE]
  /\ UNCHANGED <<channel, session, reg, ender, reader, writer, sreader, peer>>

----------------------------------------------------------------------------

Relay == EndSession \/ Demux \/ WriteLoop \/ ReadLoop \/ DropChannel

Next ==
  \/ Relay \/ ReadClient \/ HeadFails
  \/ OtherEnters \/ OtherLeaves \/ CloseSocket
  \/ PeerSends \/ PeerCloses \/ PeerHolds \/ PeerReleases \/ PeerReads
  \/ ClientGoes

\* The relay's goroutines run, the client takes what it is sent (WriteClient),
\* the worker reads its channel, and other sessions finish their writes.
Fairness ==
  /\ WF_vars(EndSession) /\ WF_vars(Demux) /\ WF_vars(WriteLoop)
  /\ WF_vars(ReadLoop) /\ WF_vars(DropSession) /\ WF_vars(WakeGate)
  /\ WF_vars(ReaderStops)
  /\ WF_vars(OtherLeaves) /\ WF_vars(PeerReads)

Spec == Init /\ [][Next]_vars /\ Fairness

----------------------------------------------------------------------------
(* Properties.                                                             *)

\* Nobody sleeps through the change it waits for: writeLoop sleeps only on an
\* empty queue, readLoop only while the worker holds the client back, a
\* writer at the gate only while the channel is congested, and none of them
\* in a session or channel that is dead (push, setPeerHold, writeSession,
\* endSession, dropChannel: each change and its Broadcast).
NoLostWakeup ==
  /\ writer.at = "asleep" => queue = <<>> /\ ~dead
  /\ sreader = "asleep" => peerHold /\ ~dead
  /\ sreader = "gated" => pend >= ChanHigh /\ chan # "dead"

\* A queue above the high water has asked for a pause, and a pause in effect
\* has something left to drain, so that the resume will follow (push,
\* writeLoop).
PauseIsOwed ==
  /\ Len(queue) >= SinkHigh => paused
  /\ paused => queue # <<>>
  /\ Len(queue) <= SinkCap

\* The 502 is never mixed into an answer of the backend: a client gets the
\* one or the other (endSession against push and writeLoop).
ErrorStandsAlone == client.err => client.got = <<>> /\ writer.at # "write"

\* pend is what is in flight in writeFrame, and it passes the high water by
\* less than one chunk (writeSession, whichever way each write ends).
PendIsExact ==
  /\ pend = other + (IF sreader = "send" THEN 1 ELSE 0)
  /\ pend <= ChanHigh

Streams == INSTANCE ByteStream WITH
  Dir <- {"down", "up"},
  sent <- [d \in {"down", "up"} |-> IF d = "down" THEN peer.sent ELSE client.read],
  got <- [d \in {"down", "up"} |-> IF d = "down" THEN client.got ELSE peer.got],
  open <- reg

\* The session is a pair of byte streams: in order, without gaps, and while it
\* is open every chunk arrives at a client and a worker that read.
IsByteStream == Streams!Spec

\* Both goroutines of a session that has ended return (endSession wakes or
\* unblocks them wherever they are; dropChannel does it at the gate).
GoroutinesEnd == ~reg ~> writer.at = "done" /\ sreader = "done"

\* Nothing is under way between the worker and the client.
Quiet ==
  /\ chan = "up" /\ reg /\ wire = <<>> /\ link = <<>> /\ queue = <<>>
  /\ reader.at = "read" /\ writer.at \in {"check", "asleep"}

\* Once the queue has drained the worker is told to go on (vscrelay.go
\* 767-768), so a session in which nothing is under way is not paused.
ResumedAtRest == Quiet => ~peer.paused

=============================================================================
