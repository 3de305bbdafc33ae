------------------------------- MODULE WsConn -------------------------------
(***************************************************************************)
(* One upgraded connection of a relay (tools/kvs/pkg/wsconn.go): a reader  *)
(* that answers pings and closes, and goroutines that send.  writeFrame    *)
(* writes under writeMu; its deadline is moved on only when half of it has *)
(* elapsed.  Nobody looks at the error of a write: the relays log it, or   *)
(* drop it, and send again.                                                *)
(*                                                                         *)
(* A frame goes out in one or in two writes to the socket, and a write may *)
(* put only a part of it on the wire before it fails.                      *)
(***************************************************************************)
EXTENDS Naturals, Sequences

CONSTANTS
  Sender,      \* goroutines that send
  Reader,      \* the goroutine that reads
  OwnerCloses, \* whether the relay closes the socket when reading failed
  None,
  MaxOut,      \* bound: frames sent
  MaxIn,       \* bound: frames received
  Budget       \* bound: losses of the connection

Proc == Sender \cup {Reader}

\* What the client may send, and what readFrame makes of it.
Kinds == {"message", "ping", "pong", "close"}
Unexpected == {"continuation", "fragment", "unknown"}
Unreadable == {"tooLarge", "rsv", "unmasked", "eof"}

VARIABLES
  inbox,    \* the client's frames
  came,     \* how many there were
  holder,   \* writeMu
  shut,     \* closed
  socket,   \* "open", "closed" by kvs, "lost"
  age,      \* halves of wsWriteTimeout since the deadline was set, None: never
  proc,     \* goroutines: control point and frame
  wire,     \* what left: the number of a frame and which part of it
  out,      \* frames begun
  budget

vars == <<inbox, came, holder, shut, socket, age, proc, wire, out, budget>>

Free == [at |-> "free", op |-> None, n |-> 0]

TypeOK ==
  /\ inbox \in Seq(Kinds \cup Unexpected \cup Unreadable) /\ came \in Nat
  /\ holder \in Proc \cup {None}
  /\ shut \in BOOLEAN /\ socket \in {"open", "closed", "lost"}
  /\ age \in {None, 0, 1, 2}
  /\ proc \in [Proc -> [at : {"free", "lock", "write", "rest", "close", "over", "done"},
                        op : {None, "message", "pong", "close"}, n : Nat]]
  /\ wire \in Seq([n : Nat, op : {"message", "pong", "close"}, part : {"whole", "head", "rest"}])
  /\ out \in Nat /\ budget \in Nat

\* wsUpgrade has written the 101.
Init ==
  /\ inbox = <<>> /\ came = 0
  /\ holder = None /\ shut = FALSE /\ socket = "open" /\ age = None
  /\ proc = [p \in Proc |-> Free]
  /\ wire = <<>> /\ out = 0
  /\ budget = Budget

Conn == <<shut, socket, budget>>
Sends(p, op) == /\ out < MaxOut
                /\ out' = out + 1
                /\ proc' = [proc EXCEPT ![p] = [at |-> "lock", op |-> op, n |-> out + 1]]
Put(p, part) == wire' = Append(wire, [n |-> proc[p].n, op |-> proc[p].op, part |-> part])

\* After writeFrame: who closes goes on to close(), the reader reads, a sender may
\* send again.
After(p) == IF proc[p].op = "close" THEN [proc[p] EXCEPT !.at = "close"] ELSE Free
Release(p) == holder' = None /\ proc' = [proc EXCEPT ![p] = After(p)]

----------------------------------------------------------------------------
(* writeFrame.                                                             *)

\* wsWriteText, a frame of writeSession, or Close.
Send(p) ==
  /\ p \in Sender /\ proc[p].at = "free"
  /\ \E op \in {"message", "close"} : Sends(p, op)
  /\ UNCHANGED <<inbox, came, holder, age, wire, Conn>>

Lock(p) ==
  /\ proc[p].at = "lock" /\ holder = None
  /\ IF shut
       THEN /\ proc' = [proc EXCEPT ![p] = After(p)]
            /\ UNCHANGED <<holder, age>>
       ELSE /\ holder' = p
            /\ age' = 0
            /\ proc' = [proc EXCEPT ![p].at = "write"]
  /\ UNCHANGED <<inbox, came, wire, out, Conn>>

CanWrite == socket = "open" /\ age < 2

WriteWhole(p) ==
  /\ proc[p].at = "write" /\ CanWrite
  /\ Put(p, "whole") /\ Release(p)
  /\ UNCHANGED <<inbox, came, age, out, Conn>>

\* The header, or as much as the socket takes.
WriteHead(p) ==
  /\ proc[p].at = "write" /\ CanWrite
  /\ Put(p, "head")
  /\ proc' = [proc EXCEPT ![p].at = "rest"]
  /\ UNCHANGED <<inbox, came, holder, age, out, Conn>>

WriteRest(p) ==
  /\ proc[p].at = "rest" /\ CanWrite
  /\ Put(p, "rest") /\ Release(p)
  /\ UNCHANGED <<inbox, came, age, out, Conn>>

\* The deadline passed, or the connection is gone.
WriteFails(p) ==
  /\ proc[p].at \in {"write", "rest"} /\ ~CanWrite
  /\ Release(p)
  /\ UNCHANGED <<inbox, came, age, wire, out, Conn>>

writeFrame(p) == Lock(p) \/ WriteWhole(p) \/ WriteHead(p) \/ WriteRest(p) \/ WriteFails(p)

\* close, after a close frame or of Abort.
close(p) ==
  /\ proc[p].at = "close" /\ holder = None
  /\ shut' = TRUE
  /\ socket' = IF shut THEN socket ELSE "closed"
  /\ proc' = [proc EXCEPT ![p] = IF p = Reader THEN [Free EXCEPT !.at = "over"] ELSE Free]
  /\ UNCHANGED <<inbox, came, holder, age, wire, out, budget>>

----------------------------------------------------------------------------
(* wsReadMessage, called again and again.                                  *)

Reads(kinds) ==
  /\ proc[Reader].at = "free" /\ socket = "open"
  /\ inbox # <<>> /\ Head(inbox) \in kinds
  /\ inbox' = Tail(inbox)
  /\ UNCHANGED <<came, holder, age, wire, Conn>>

Becomes(at) == proc' = [proc EXCEPT ![Reader].at = at] /\ UNCHANGED out

ReadMessage == Reads({"message", "pong"}) /\ Becomes("free")
Pong == Reads({"ping"}) /\ Sends(Reader, "pong")
Echo == Reads({"close"}) /\ Sends(Reader, "close")
Abort == Reads(Unexpected) /\ Becomes("close")

\* readFrame returns an error and leaves the socket as it is.
ReadError == Reads(Unreadable) /\ Becomes("over")

ReadLost ==
  /\ proc[Reader].at = "free" /\ socket # "open"
  /\ Becomes("over")
  /\ UNCHANGED <<inbox, came, holder, age, wire, Conn>>

wsReadMessage == ReadMessage \/ Pong \/ Echo \/ Abort \/ ReadError \/ ReadLost

\* The relay's handler returns: dropChannel closes the socket past writeMu,
\* detach does not.
Owner ==
  /\ proc[Reader].at = "over"
  /\ socket' = IF OwnerCloses /\ socket = "open" THEN "closed" ELSE socket
  /\ Becomes("done")
  /\ UNCHANGED <<inbox, came, holder, shut, age, wire, budget>>

----------------------------------------------------------------------------
(* The client, the network, and time.                                      *)

ClientSends ==
  /\ came < MaxIn /\ came' = came + 1
  /\ \E kind \in Kinds \cup Unexpected \cup Unreadable : inbox' = Append(inbox, kind)
  /\ UNCHANGED <<holder, age, proc, wire, out, Conn>>

Lose ==
  /\ budget > 0 /\ budget' = budget - 1
  /\ socket = "open" /\ socket' = "lost"
  /\ UNCHANGED <<inbox, came, holder, shut, age, proc, wire, out>>

HalfElapses ==
  /\ age \in {0, 1} /\ age' = age + 1
  /\ UNCHANGED <<inbox, came, holder, proc, wire, out, Conn>>

Next ==
  \/ \E p \in Proc : Send(p) \/ writeFrame(p) \/ close(p)
  \/ wsReadMessage \/ Owner
  \/ ClientSends \/ Lose \/ HalfElapses

Spec == Init /\ [][Next]_vars

----------------------------------------------------------------------------
(* Properties.                                                             *)

\* What two frames have on the wire is never mixed: the rest of a frame follows
\* its head before anything else does.  wsconn.go says of writeMu that reader and
\* relay "cannot interleave half-frames".  A write that times out leaves its head,
\* and half a deadline later the next frame is written behind it.
FramesAreWhole ==
  \A i \in 1 .. Len(wire) - 1 :
    wire[i].part = "head" => wire[i + 1] = [wire[i] EXCEPT !.part = "rest"]

\* A close frame is the last one: Close "sends a proper close frame then closes".
\* Between the two the mutex is free.
CloseIsLast == \A i \in 1 .. Len(wire) - 1 : wire[i].op = "close" => wire[i].part = "head"

\* The header of wsconn.go: "Anything unexpected terminates the connection".  It
\* does not where readFrame refuses a frame and the relay is zcode.
UnexpectedTerminates == proc[Reader].at = "done" => socket # "open"

=============================================================================
