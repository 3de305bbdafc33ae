--------------------------- MODULE VscFlowProofs ---------------------------
(***************************************************************************)
(* Theorems about VscFlow for every size of queue, link and channel, every *)
(* number of chunks and every number of interferences: its types, the      *)
(* debt of a pause, the 502, that nobody sleeps through a change, the      *)
(* count of bytes in flight, and that its steps are those of ByteStream.   *)
(***************************************************************************)
EXTENDS VscFlow, SequenceTheorems, TLAPS

\* The chunks in a sequence of frames are a + 1 .. b, in that order.
InOrder(s, a, b) ==
  /\ \A i \in 1 .. Len(s) : s[i].type = "data" => s[i].n \in a + 1 .. b
  /\ \A i, j \in 1 .. Len(s) :
       i < j /\ s[i].type = "data" /\ s[j].type = "data" => s[i].n < s[j].n
  /\ \A n \in a + 1 .. b : \E i \in 1 .. Len(s) : s[i].type = "data" /\ s[i].n = n

\* Who has ended a session, and how far that is.
EnderInv ==
  /\ reg <=> ender = "no"
  /\ dead <=> ender \in {"dead", "done"}
  /\ client.closed <=> ender = "done"
  /\ chan = "dead" => ~reg

\* A client gets something only after wrote was set, and a 502 only if it
\* was not, for good.
AnswerInv ==
  /\ ~wrote => queue = <<>> /\ writer.at # "write" /\ client.got = <<>>
  /\ client.err => ~wrote /\ dead

\* How many of the client's chunks have left readLoop, and how many of the
\* worker's chunks are past the queue, past the reader.
Forwarded == IF sreader \in {"gate", "gated", "send"} THEN client.read - 1 ELSE client.read
Taken == IF writer.at = "write" THEN Len(client.got) + 1 ELSE Len(client.got)
Staged == IF reader.at = "push" THEN Taken + Len(queue) + 1 ELSE Taken + Len(queue)

\* The client's chunks on their way to the worker.
UpInv ==
  /\ sreader = "head" => client.read = 0
  /\ sreader \in {"gate", "gated", "send"} => client.read > 0
  /\ chan # "up" => link = <<>>
  /\ Len(peer.got) <= Forwarded
  /\ chan = "up" => InOrder(link, Len(peer.got), Forwarded)

\* The worker's chunks on their way to the client, until writeLoop gives up.
DownInv ==
  /\ chan # "up" => wire = <<>>
  /\ writer.at # "done" =>
       /\ writer.at = "write" => writer.n = Len(client.got) + 1
       /\ \A i \in 1 .. Len(queue) : queue[i] = Taken + i
       /\ reader.at = "push" => reader.n = Staged
       /\ Staged <= peer.sent
       /\ chan = "up" /\ reg /\ reader.at # "overflow" => InOrder(wire, Staged, peer.sent)

IInv ==
  /\ TypeOK /\ PendIsExact /\ EnderInv /\ PauseIsOwed /\ AnswerInv /\ NoLostWakeup
  /\ UpInv /\ DownInv

----------------------------------------------------------------------------
(* Frames and chunks.                                                      *)

\* Frames of each type are frames.
LEMMA FrameFacts ==
  /\ \A f \in Frame : f.n \in Nat /\ f.type \in {"data", "pause", "resume", "close"}
  /\ \A n \in Nat : Data(n) \in Frame /\ Data(n).type = "data" /\ Data(n).n = n
  /\ \A t \in {"pause", "resume", "close"} : Control(t) \in Frame /\ Control(t).type = t
  BY DEF Frame, Data, Control

\* An empty queue holds the empty interval.
LEMMA EmptyInOrder ==
  ASSUME NEW a \in Nat
  PROVE InOrder(<<>>, a, a)
  BY DEF InOrder

\* A chunk is added at the end.
LEMMA AppendChunk ==
  ASSUME NEW s \in Seq(Frame), NEW a \in Nat, NEW b \in Nat, a <= b, InOrder(s, a, b)
  PROVE InOrder(Append(s, Data(b + 1)), a, b + 1)
<1> DEFINE t == Append(s, Data(b + 1))
<1>1. Len(t) = Len(s) + 1 /\ Len(s) \in Nat
  OBVIOUS
<1>2. \A i \in 1 .. Len(s) : t[i] = s[i] /\ s[i] \in Frame
  OBVIOUS
<1>3. t[Len(s) + 1].type = "data" /\ t[Len(s) + 1].n = b + 1
  BY FrameFacts
<1> HIDE DEF t
<1>4. \A i \in 1 .. Len(s) : s[i].n \in Nat
  BY <1>2, FrameFacts
<1>o. \A i \in 1 .. Len(t) : i \in 1 .. Len(s) \/ i = Len(s) + 1
  BY <1>1
<1>r. \A i \in 1 .. Len(s) : t[i].type = "data" => t[i].n \in a + 1 .. b
  BY <1>2 DEF InOrder
<1>5. \A i \in 1 .. Len(t) : t[i].type = "data" => t[i].n \in a + 1 .. b + 1
  BY <1>o, <1>r, <1>3
<1>6. ASSUME NEW i \in 1 .. Len(t), NEW j \in 1 .. Len(t),
             i < j, t[i].type = "data", t[j].type = "data"
      PROVE t[i].n < t[j].n
  <2>1. i \in 1 .. Len(s)
    BY <1>1, <1>6
  <2>2. CASE j \in 1 .. Len(s)
    BY <1>2, <1>6, <2>1, <2>2 DEF InOrder
  <2>3. CASE j = Len(s) + 1
    BY <1>r, <1>3, <1>6, <2>1, <2>3
  <2> QED BY <1>o, <2>2, <2>3
<1>7. ASSUME NEW n \in a + 1 .. b + 1
      PROVE \E i \in 1 .. Len(t) : t[i].type = "data" /\ t[i].n = n
  <2>1. CASE n = b + 1
    BY <1>1, <1>3, <2>1
  <2>2. CASE n # b + 1
    <3>1. PICK i \in 1 .. Len(s) : s[i].type = "data" /\ s[i].n = n
      BY <2>2 DEF InOrder
    <3> QED BY <1>1, <1>2, <3>1
  <2> QED BY <2>1, <2>2
<1>8. InOrder(t, a, b + 1)
  BY <1>5, <1>6, <1>7 DEF InOrder
<1> QED BY <1>8 DEF t

\* A control frame is added at the end.
LEMMA AppendControl ==
  ASSUME NEW s \in Seq(Frame), NEW a \in Nat, NEW b \in Nat, InOrder(s, a, b),
         NEW f \in Frame, f.type # "data"
  PROVE InOrder(Append(s, f), a, b)
<1> DEFINE t == Append(s, f)
<1>1. Len(t) = Len(s) + 1 /\ Len(s) \in Nat
  OBVIOUS
<1>2. \A i \in 1 .. Len(s) : t[i] = s[i]
  OBVIOUS
<1>3. t[Len(s) + 1] = f
  OBVIOUS
<1> HIDE DEF t
<1>4. \A i \in 1 .. Len(t) : t[i].type = "data" => i \in 1 .. Len(s)
  BY <1>1, <1>3
<1>5. \A i \in 1 .. Len(t) : t[i].type = "data" => t[i].n \in a + 1 .. b
  BY <1>2, <1>4 DEF InOrder
<1>6. \A i, j \in 1 .. Len(t) :
        i < j /\ t[i].type = "data" /\ t[j].type = "data" => t[i].n < t[j].n
  BY <1>2, <1>4 DEF InOrder
<1>7. ASSUME NEW n \in a + 1 .. b
      PROVE \E i \in 1 .. Len(t) : t[i].type = "data" /\ t[i].n = n
  <2>1. PICK i \in 1 .. Len(s) : s[i].type = "data" /\ s[i].n = n
    BY DEF InOrder
  <2>2. i \in 1 .. Len(t)
    BY <1>1
  <2> QED BY <1>2, <2>1, <2>2
<1>8. InOrder(t, a, b)
  BY <1>5, <1>6, <1>7 DEF InOrder
<1> QED BY <1>8 DEF t

\* The first chunk is taken: it is the next one.
LEMMA TakeChunk ==
  ASSUME NEW s \in Seq(Frame), NEW a \in Nat, NEW b \in Nat, InOrder(s, a, b),
         s # <<>>, Head(s).type = "data"
  PROVE Head(s).n = a + 1 /\ a < b /\ InOrder(Tail(s), a + 1, b)
<1> DEFINE t == Tail(s)
<1>1. Len(s) \in Nat /\ Len(s) > 0 /\ Len(t) = Len(s) - 1 /\ Head(s) = s[1]
  OBVIOUS
<1>2. \A i \in 1 .. Len(t) : t[i] = s[i + 1]
  OBVIOUS
<1> HIDE DEF t
<1>3. s[1].n \in a + 1 .. b
  BY <1>1 DEF InOrder
<1>4. PICK i \in 1 .. Len(s) : s[i].type = "data" /\ s[i].n = a + 1
  BY <1>3 DEF InOrder
<1>5. s[1].n = a + 1
  <2>1. i # 1 => s[1].n < s[i].n
    BY <1>1, <1>4 DEF InOrder
  <2> QED BY <1>3, <1>4, <2>1
<1>6. ASSUME NEW k \in 1 .. Len(t), t[k].type = "data"
      PROVE t[k].n \in a + 2 .. b
  <2>1. k + 1 \in 1 .. Len(s) /\ t[k] = s[k + 1]
    BY <1>1, <1>2
  <2>2. s[k + 1].type = "data" /\ s[1].type = "data"
    BY <1>1, <1>6, <2>1
  <2>3. s[k + 1].n \in a + 1 .. b
    BY <2>1, <2>2 DEF InOrder
  <2>4. 1 \in 1 .. Len(s) /\ 1 < k + 1
    BY <1>1
  <2>5. s[1].n < s[k + 1].n
    BY <2>1, <2>2, <2>4 DEF InOrder
  <2> QED BY <1>5, <2>1, <2>3, <2>5
<1>7. ASSUME NEW k \in 1 .. Len(t), NEW j \in 1 .. Len(t),
             k < j, t[k].type = "data", t[j].type = "data"
      PROVE t[k].n < t[j].n
  <2>1. /\ k + 1 \in 1 .. Len(s) /\ t[k] = s[k + 1]
        /\ j + 1 \in 1 .. Len(s) /\ t[j] = s[j + 1]
    BY <1>1, <1>2
  <2>2. k + 1 < j + 1
    BY <1>7
  <2> QED BY <1>7, <2>1, <2>2 DEF InOrder
<1>8. ASSUME NEW n \in a + 2 .. b
      PROVE \E k \in 1 .. Len(t) : t[k].type = "data" /\ t[k].n = n
  <2>1. PICK k \in 1 .. Len(s) : s[k].type = "data" /\ s[k].n = n
    BY DEF InOrder
  <2>2. k # 1
    BY <1>5, <2>1
  <2>3. k - 1 \in 1 .. Len(t)
    BY <1>1, <2>2
  <2>4. t[k - 1] = s[k]
    BY <1>2, <2>3
  <2> QED BY <2>1, <2>3, <2>4
<1>9. a + 1 \in Nat /\ (a + 1) + 1 = a + 2
  OBVIOUS
<1>10. \A k \in 1 .. Len(t) : t[k].type = "data" => t[k].n \in (a + 1) + 1 .. b
  BY <1>6, <1>9
<1>11. \A n \in (a + 1) + 1 .. b : \E k \in 1 .. Len(t) : t[k].type = "data" /\ t[k].n = n
  BY <1>8, <1>9
<1>12. InOrder(t, a + 1, b)
  BY <1>7, <1>10, <1>11 DEF InOrder
<1> QED BY <1>1, <1>3, <1>5, <1>12 DEF t

\* A control frame is taken.
LEMMA TakeControl ==
  ASSUME NEW s \in Seq(Frame), NEW a \in Nat, NEW b \in Nat, InOrder(s, a, b),
         s # <<>>, Head(s).type # "data"
  PROVE InOrder(Tail(s), a, b)
<1> DEFINE t == Tail(s)
<1>1. Len(s) \in Nat /\ Len(s) > 0 /\ Len(t) = Len(s) - 1 /\ Head(s) = s[1]
  OBVIOUS
<1>2. \A i \in 1 .. Len(t) : t[i] = s[i + 1]
  OBVIOUS
<1> HIDE DEF t
<1>3. \A k \in 1 .. Len(s) : s[k].type = "data" => k - 1 \in 1 .. Len(t) /\ t[k - 1] = s[k]
  BY <1>1, <1>2
<1>4. ASSUME NEW n \in a + 1 .. b
      PROVE \E k \in 1 .. Len(t) : t[k].type = "data" /\ t[k].n = n
  <2>1. PICK k \in 1 .. Len(s) : s[k].type = "data" /\ s[k].n = n
    BY DEF InOrder
  <2> QED BY <1>3, <2>1
<1>5. \A k \in 1 .. Len(t) : k + 1 \in 1 .. Len(s) /\ t[k] = s[k + 1]
  BY <1>1, <1>2
<1>6. \A k \in 1 .. Len(t) : t[k].type = "data" => t[k].n \in a + 1 .. b
  BY <1>5 DEF InOrder
<1>7. ASSUME NEW k \in 1 .. Len(t), NEW j \in 1 .. Len(t),
             k < j, t[k].type = "data", t[j].type = "data"
      PROVE t[k].n < t[j].n
  <2>1. /\ k + 1 \in 1 .. Len(s) /\ t[k] = s[k + 1]
        /\ j + 1 \in 1 .. Len(s) /\ t[j] = s[j + 1]
    BY <1>5
  <2>2. k + 1 < j + 1
    BY <1>7
  <2> QED BY <1>7, <2>1, <2>2 DEF InOrder
<1>8. InOrder(t, a, b)
  BY <1>4, <1>6, <1>7 DEF InOrder
<1> QED BY <1>8 DEF t

\* A sequence is over after its last element was taken.
LEMMA TailEmpty ==
  ASSUME NEW s \in Seq(Nat), s # <<>>
  PROVE Tail(s) # <<>> <=> Len(s) # 1
<1>1. Tail(s) \in Seq(Nat)
  OBVIOUS
<1>2. Len(Tail(s)) = Len(s) - 1 /\ Len(s) \in Nat
  OBVIOUS
<1>3. Tail(s) = <<>> <=> Len(Tail(s)) = 0
  BY <1>1, EmptySeq
<1>4. Len(Tail(s)) = 0 <=> Len(s) = 1
  BY <1>2
<1> QED BY <1>3, <1>4

\* The limits are numbers.
LEMMA Limits ==
  /\ SinkHigh \in Nat /\ SinkCap \in Nat /\ ChanHigh \in Nat /\ LinkCap \in Nat
  /\ MaxDown \in Nat /\ MaxUp \in Nat /\ Budget \in Nat
  /\ 0 < SinkHigh /\ SinkHigh <= SinkCap /\ 0 < ChanHigh
  BY FlowAssumption

WriterType == [at : WriterPC, n : Nat, resume : BOOLEAN]
ReaderType == [at : ReaderPC, n : Nat]
ClientType == [read : Nat, gone : BOOLEAN, closed : BOOLEAN, err : BOOLEAN, got : Seq(Nat)]
PeerType == [sent : Nat, paused : BOOLEAN, holds : BOOLEAN, got : Seq(Nat)]

\* TypeOK with the record types of this module.
LEMMA Types ==
  ASSUME TypeOK
  PROVE /\ wire \in Seq(Frame) /\ link \in Seq(Frame) /\ queue \in Seq(Nat)
        /\ pend \in Nat /\ other \in Nat
        /\ reader \in ReaderType /\ writer \in WriterType
        /\ client \in ClientType /\ peer \in PeerType
  BY DEF TypeOK, ReaderType, WriterType, ClientType, PeerType

----------------------------------------------------------------------------
(* Every step.                                                             *)

\* Next as one disjunction of the actions the proofs go through.
LEMMA Steps ==
  ASSUME Next
  PROVE \/ MarkDead \/ CloseClient \/ OnData \/ Push \/ SendPause
        \/ Overflow \/ OnClose \/ Ended \/ setPeerHold \/ Dequeue
        \/ AwaitChunk \/ WriteClient \/ WriteFails \/ SendResume \/ RebuildHead
        \/ AwaitRelease \/ ReadFails \/ SendClose \/ Gate \/ WriteSession
        \/ DropSession \/ WakeGate \/ ReaderStops \/ ReadClient \/ HeadFails
        \/ OtherEnters \/ OtherLeaves \/ CloseSocket \/ PeerSends \/ PeerCloses
        \/ PeerHolds \/ PeerReleases \/ PeerReads \/ ClientGoes
  BY DEF Next, Relay, EndSession, Demux, WriteLoop, ReadLoop, DropChannel

\* What a step has to show for TypeOK.
LEMMA Retype ==
  ASSUME wire' \in Seq(Frame), link' \in Seq(Frame), chan' \in {"up", "closed", "dead"},
     pend' \in Nat, other' \in Nat, queue' \in Seq(Nat), paused' \in BOOLEAN,
     peerHold' \in BOOLEAN, dead' \in BOOLEAN, wrote' \in BOOLEAN, reg' \in BOOLEAN,
     ender' \in {"no", "removed", "dead", "done"}, reader' \in ReaderType, writer' \in WriterType,
     sreader' \in SreaderPC, client' \in ClientType, peer' \in PeerType, budget' \in Nat
  PROVE TypeOK'
  BY DEF TypeOK, ReaderType, WriterType, ClientType, PeerType

\* Types.
LEMMA TypeStep == IInv /\ [Next]_vars => TypeOK'
<1> SUFFICES ASSUME IInv, [Next]_vars PROVE TypeOK'
  OBVIOUS
<1>t. TypeOK /\ PendIsExact
  BY DEF IInv
<1>a. wire \in Seq(Frame)
  BY <1>t, Types DEF TypeOK
<1>b. link \in Seq(Frame)
  BY <1>t, Types DEF TypeOK
<1>c. chan \in {"up", "closed", "dead"}
  BY <1>t, Types DEF TypeOK
<1>d. pend \in Nat
  BY <1>t, Types DEF TypeOK
<1>e. other \in Nat
  BY <1>t, Types DEF TypeOK
<1>f. queue \in Seq(Nat)
  BY <1>t, Types DEF TypeOK
<1>g. paused \in BOOLEAN
  BY <1>t, Types DEF TypeOK
<1>h. peerHold \in BOOLEAN
  BY <1>t, Types DEF TypeOK
<1>i. dead \in BOOLEAN
  BY <1>t, Types DEF TypeOK
<1>j. wrote \in BOOLEAN
  BY <1>t, Types DEF TypeOK
<1>k. reg \in BOOLEAN
  BY <1>t, Types DEF TypeOK
<1>l. ender \in {"no", "removed", "dead", "done"}
  BY <1>t, Types DEF TypeOK
<1>m. reader \in ReaderType
  BY <1>t, Types DEF TypeOK
<1>n. writer \in WriterType
  BY <1>t, Types DEF TypeOK
<1>o. sreader \in SreaderPC
  BY <1>t, Types DEF TypeOK
<1>p. client \in ClientType
  BY <1>t, Types DEF TypeOK
<1>q. peer \in PeerType
  BY <1>t, Types DEF TypeOK
<1>r. budget \in Nat
  BY <1>t, Types DEF TypeOK
<1>0. CASE UNCHANGED vars
  BY <1>0, <1>a, <1>b, <1>c, <1>d, <1>e, <1>f, <1>g, <1>h, <1>i, <1>j, <1>k, <1>l, <1>m, <1>n,
     <1>o, <1>p, <1>q, <1>r, Retype DEF vars, session, channel
<1>1. CASE MarkDead
  <2>1. ender' \in {"no", "removed", "dead", "done"}
    BY <1>1, <1>l DEF MarkDead, WakeWriter, WakeSreader, session, channel
  <2>2. dead' \in BOOLEAN
    BY <1>1, <1>i DEF MarkDead, WakeWriter, WakeSreader, session, channel
  <2>3. writer' \in WriterType
    BY <1>1, <1>n, <1>f DEF MarkDead, WakeWriter, WakeSreader, session, channel, WriterType,
       WriterPC
  <2>4. sreader' \in SreaderPC
    BY <1>1, <1>o DEF MarkDead, WakeWriter, WakeSreader, session, channel, SreaderPC
  <2>5. UNCHANGED <<wire, link, chan, pend, other, queue, paused, peerHold, wrote, reg, reader,
                    client, peer, budget>>
    BY <1>1 DEF MarkDead, WakeWriter, WakeSreader, session, channel
  <2> QED BY <1>a, <1>b, <1>c, <1>d, <1>e, <1>f, <1>g, <1>h, <1>j, <1>k, <1>m, <1>p, <1>q, <1>r,
           <2>1, <2>2, <2>3, <2>4, <2>5, Retype
<1>2. CASE CloseClient
  <2>1. ender' \in {"no", "removed", "dead", "done"}
    BY <1>2, <1>l DEF CloseClient, session, channel
  <2>2. client' \in ClientType
    BY <1>2, <1>p, <1>n DEF CloseClient, session, channel, ClientType, WriterType
  <2>3. UNCHANGED <<wire, link, chan, pend, other, queue, paused, peerHold, dead, wrote, reg,
                    reader, writer, sreader, peer, budget>>
    BY <1>2 DEF CloseClient, session, channel
  <2> QED BY <1>a, <1>b, <1>c, <1>d, <1>e, <1>f, <1>g, <1>h, <1>i, <1>j, <1>k, <1>m, <1>n, <1>o,
           <1>q, <1>r, <2>1, <2>2, <2>3, Retype
<1>3. CASE OnData
  <2>1. wire' \in Seq(Frame)
    BY <1>3, <1>a, FrameFacts DEF OnData, session, channel, PeerType
  <2>2. reader' \in ReaderType
    BY <1>3, <1>m, <1>a, FrameFacts DEF OnData, session, channel, ReaderType, ReaderPC
  <2>3. UNCHANGED <<link, chan, pend, other, queue, paused, peerHold, dead, wrote, reg, ender,
                    writer, sreader, client, peer, budget>>
    BY <1>3 DEF OnData, session, channel
  <2> QED BY <1>b, <1>c, <1>d, <1>e, <1>f, <1>g, <1>h, <1>i, <1>j, <1>k, <1>l, <1>n, <1>o, <1>p,
           <1>q, <1>r, <2>1, <2>2, <2>3, Retype
<1>4. CASE Push
  <2>1. reader' \in ReaderType
    BY <1>4, <1>m, <1>a, FrameFacts DEF Push, WakeWriter, WakeSreader, session, channel,
       ReaderType, ReaderPC
  <2>2. wrote' \in BOOLEAN
    BY <1>4, <1>j DEF Push, WakeWriter, WakeSreader, session, channel
  <2>3. queue' \in Seq(Nat)
    <3>1. queue' = queue \/ queue' = Append(queue, reader.n)
      BY <1>4 DEF Push, session
    <3>2. reader.n \in Nat
      BY <1>m DEF ReaderType
    <3> QED BY <1>f, <3>1, <3>2
  <2>4. paused' \in BOOLEAN
    BY <1>4, <1>g DEF Push, WakeWriter, WakeSreader, session, channel
  <2>5. writer' \in WriterType
    BY <1>4, <1>n, <1>f DEF Push, WakeWriter, WakeSreader, session, channel, WriterType, WriterPC
  <2>6. sreader' \in SreaderPC
    BY <1>4, <1>o DEF Push, WakeWriter, WakeSreader, session, channel, SreaderPC
  <2>7. UNCHANGED <<wire, link, chan, pend, other, peerHold, dead, reg, ender, client, peer,
                    budget>>
    BY <1>4 DEF Push, WakeWriter, WakeSreader, session, channel
  <2> QED BY <1>a, <1>b, <1>c, <1>d, <1>e, <1>h, <1>i, <1>k, <1>l, <1>p, <1>q, <1>r, <2>1, <2>2,
           <2>3, <2>4, <2>5, <2>6, <2>7, Retype
<1>5. CASE SendPause
  <2>1. link' \in Seq(Frame)
    <3>1. link' = link \/ link' = Append(link, Control("pause"))
      BY <1>5 DEF SendPause, SendControl
    <3> QED BY <1>b, <3>1, FrameFacts
  <2>2. reader' \in ReaderType
    BY <1>5, <1>m, <1>a, FrameFacts DEF SendPause, SendControl, Writable, session, channel,
       ReaderType, ReaderPC
  <2>3. UNCHANGED <<wire, chan, pend, other, queue, paused, peerHold, dead, wrote, reg, ender,
                    writer, sreader, client, peer, budget>>
    BY <1>5 DEF SendPause, SendControl, Writable, session, channel
  <2> QED BY <1>a, <1>c, <1>d, <1>e, <1>f, <1>g, <1>h, <1>i, <1>j, <1>k, <1>l, <1>n, <1>o, <1>p,
           <1>q, <1>r, <2>1, <2>2, <2>3, Retype
<1>6. CASE Overflow
  <2>1. reg' \in BOOLEAN
    BY <1>6, <1>k DEF Overflow, TakeOut, session, channel
  <2>2. ender' \in {"no", "removed", "dead", "done"}
    BY <1>6, <1>l DEF Overflow, TakeOut, session, channel
  <2>3. reader' \in ReaderType
    BY <1>6, <1>m, <1>a, FrameFacts DEF Overflow, TakeOut, session, channel, ReaderType, ReaderPC
  <2>4. UNCHANGED <<wire, link, chan, pend, other, queue, paused, peerHold, dead, wrote, writer,
                    sreader, client, peer, budget>>
    BY <1>6 DEF Overflow, TakeOut, session, channel
  <2> QED BY <1>a, <1>b, <1>c, <1>d, <1>e, <1>f, <1>g, <1>h, <1>i, <1>j, <1>n, <1>o, <1>p, <1>q,
           <1>r, <2>1, <2>2, <2>3, <2>4, Retype
<1>7. CASE OnClose
  <2>1. wire' \in Seq(Frame)
    BY <1>7, <1>a, FrameFacts DEF OnClose, TakeOut, session, channel, PeerType
  <2>2. reg' \in BOOLEAN
    BY <1>7, <1>k DEF OnClose, TakeOut, session, channel
  <2>3. ender' \in {"no", "removed", "dead", "done"}
    BY <1>7, <1>l DEF OnClose, TakeOut, session, channel
  <2>4. reader' \in ReaderType
    BY <1>7, <1>m, <1>a, FrameFacts DEF OnClose, TakeOut, session, channel, ReaderType, ReaderPC
  <2>5. UNCHANGED <<link, chan, pend, other, queue, paused, peerHold, dead, wrote, writer, sreader,
                    client, peer, budget>>
    BY <1>7 DEF OnClose, TakeOut, session, channel
  <2> QED BY <1>b, <1>c, <1>d, <1>e, <1>f, <1>g, <1>h, <1>i, <1>j, <1>n, <1>o, <1>p, <1>q, <1>r,
           <2>1, <2>2, <2>3, <2>4, <2>5, Retype
<1>8. CASE Ended
  <2>1. reader' \in ReaderType
    BY <1>8, <1>m, <1>a, FrameFacts DEF Ended, session, channel, ReaderType, ReaderPC
  <2>2. UNCHANGED <<wire, link, chan, pend, other, queue, paused, peerHold, dead, wrote, reg,
                    ender, writer, sreader, client, peer, budget>>
    BY <1>8 DEF Ended, session, channel
  <2> QED BY <1>a, <1>b, <1>c, <1>d, <1>e, <1>f, <1>g, <1>h, <1>i, <1>j, <1>k, <1>l, <1>n, <1>o,
           <1>p, <1>q, <1>r, <2>1, <2>2, Retype
<1>9. CASE setPeerHold
  <2>1. wire' \in Seq(Frame)
    BY <1>9, <1>a, FrameFacts DEF setPeerHold, WakeWriter, WakeSreader, session, channel, PeerType
  <2>2. peerHold' \in BOOLEAN
    BY <1>9, <1>h DEF setPeerHold, WakeWriter, WakeSreader, session, channel
  <2>3. writer' \in WriterType
    BY <1>9, <1>n, <1>f DEF setPeerHold, WakeWriter, WakeSreader, session, channel, WriterType,
       WriterPC
  <2>4. sreader' \in SreaderPC
    BY <1>9, <1>o DEF setPeerHold, WakeWriter, WakeSreader, session, channel, SreaderPC
  <2>5. UNCHANGED <<link, chan, pend, other, queue, paused, dead, wrote, reg, ender, reader,
                    client, peer, budget>>
    BY <1>9 DEF setPeerHold, WakeWriter, WakeSreader, session, channel
  <2> QED BY <1>b, <1>c, <1>d, <1>e, <1>f, <1>g, <1>i, <1>j, <1>k, <1>l, <1>m, <1>p, <1>q, <1>r,
           <2>1, <2>2, <2>3, <2>4, <2>5, Retype
<1>10. CASE Dequeue
  <2>1. queue' \in Seq(Nat)
    BY <1>10, <1>f, <1>m DEF Dequeue, session, channel, ReaderType
  <2>2. paused' \in BOOLEAN
    BY <1>10, <1>g DEF Dequeue, session, channel
  <2>3. writer' \in WriterType
    BY <1>10, <1>n, <1>f DEF Dequeue, session, channel, WriterType, WriterPC
  <2>4. UNCHANGED <<wire, link, chan, pend, other, peerHold, dead, wrote, reg, ender, reader,
                    sreader, client, peer, budget>>
    BY <1>10 DEF Dequeue, session, channel
  <2> QED BY <1>a, <1>b, <1>c, <1>d, <1>e, <1>h, <1>i, <1>j, <1>k, <1>l, <1>m, <1>o, <1>p, <1>q,
           <1>r, <2>1, <2>2, <2>3, <2>4, Retype
<1>11. CASE AwaitChunk
  <2>1. writer' \in WriterType
    BY <1>11, <1>n, <1>f DEF AwaitChunk, session, channel, WriterType, WriterPC
  <2>2. UNCHANGED <<wire, link, chan, pend, other, queue, paused, peerHold, dead, wrote, reg,
                    ender, reader, sreader, client, peer, budget>>
    BY <1>11 DEF AwaitChunk, session, channel
  <2> QED BY <1>a, <1>b, <1>c, <1>d, <1>e, <1>f, <1>g, <1>h, <1>i, <1>j, <1>k, <1>l, <1>m, <1>o,
           <1>p, <1>q, <1>r, <2>1, <2>2, Retype
<1>12. CASE WriteClient
  <2>1. client' \in ClientType
    <3>1. client' = [client EXCEPT !.got = Append(client.got, writer.n)]
      BY <1>12 DEF WriteClient
    <3>2. writer.n \in Nat /\ client.got \in Seq(Nat)
      BY <1>n, <1>p DEF ClientType, WriterType
    <3>3. Append(client.got, writer.n) \in Seq(Nat)
      BY <3>2
    <3> QED BY <1>p, <3>1, <3>3 DEF ClientType
  <2>2. writer' \in WriterType
    BY <1>12, <1>n, <1>f DEF WriteClient, session, channel, WriterType, WriterPC
  <2>3. UNCHANGED <<wire, link, chan, pend, other, queue, paused, peerHold, dead, wrote, reg,
                    ender, reader, sreader, peer, budget>>
    BY <1>12 DEF WriteClient, session, channel
  <2> QED BY <1>a, <1>b, <1>c, <1>d, <1>e, <1>f, <1>g, <1>h, <1>i, <1>j, <1>k, <1>l, <1>m, <1>o,
           <1>q, <1>r, <2>1, <2>2, <2>3, Retype
<1>13. CASE WriteFails
  <2>1. reg' \in BOOLEAN
    BY <1>13, <1>k DEF WriteFails, TakeOut, session, channel
  <2>2. ender' \in {"no", "removed", "dead", "done"}
    BY <1>13, <1>l DEF WriteFails, TakeOut, session, channel
  <2>3. writer' \in WriterType
    BY <1>13, <1>n, <1>f DEF WriteFails, TakeOut, session, channel, WriterType, WriterPC
  <2>4. UNCHANGED <<wire, link, chan, pend, other, queue, paused, peerHold, dead, wrote, reader,
                    sreader, client, peer, budget>>
    BY <1>13 DEF WriteFails, TakeOut, session, channel
  <2> QED BY <1>a, <1>b, <1>c, <1>d, <1>e, <1>f, <1>g, <1>h, <1>i, <1>j, <1>m, <1>o, <1>p, <1>q,
           <1>r, <2>1, <2>2, <2>3, <2>4, Retype
<1>14. CASE SendResume
  <2>1. link' \in Seq(Frame)
    <3>1. link' = link \/ link' = Append(link, Control("resume"))
      BY <1>14 DEF SendResume, SendControl
    <3> QED BY <1>b, <3>1, FrameFacts
  <2>2. writer' \in WriterType
    BY <1>14, <1>n, <1>f DEF SendResume, SendControl, Writable, session, channel, WriterType,
       WriterPC
  <2>3. UNCHANGED <<wire, chan, pend, other, queue, paused, peerHold, dead, wrote, reg, ender,
                    reader, sreader, client, peer, budget>>
    BY <1>14 DEF SendResume, SendControl, Writable, session, channel
  <2> QED BY <1>a, <1>c, <1>d, <1>e, <1>f, <1>g, <1>h, <1>i, <1>j, <1>k, <1>l, <1>m, <1>o, <1>p,
           <1>q, <1>r, <2>1, <2>2, <2>3, Retype
<1>15. CASE RebuildHead
  <2>1. client' \in ClientType
    BY <1>15, <1>p, <1>n DEF RebuildHead, session, channel, ClientType, WriterType
  <2>2. sreader' \in SreaderPC
    BY <1>15, <1>o DEF RebuildHead, session, channel, SreaderPC
  <2>3. UNCHANGED <<wire, link, chan, pend, other, queue, paused, peerHold, dead, wrote, reg,
                    ender, reader, writer, peer, budget>>
    BY <1>15 DEF RebuildHead, session, channel
  <2> QED BY <1>a, <1>b, <1>c, <1>d, <1>e, <1>f, <1>g, <1>h, <1>i, <1>j, <1>k, <1>l, <1>m, <1>n,
           <1>q, <1>r, <2>1, <2>2, <2>3, Retype
<1>16. CASE AwaitRelease
  <2>1. sreader' \in SreaderPC
    BY <1>16, <1>o DEF AwaitRelease, session, channel, SreaderPC
  <2>2. UNCHANGED <<wire, link, chan, pend, other, queue, paused, peerHold, dead, wrote, reg,
                    ender, reader, writer, client, peer, budget>>
    BY <1>16 DEF AwaitRelease, session, channel
  <2> QED BY <1>a, <1>b, <1>c, <1>d, <1>e, <1>f, <1>g, <1>h, <1>i, <1>j, <1>k, <1>l, <1>m, <1>n,
           <1>p, <1>q, <1>r, <2>1, <2>2, Retype
<1>17. CASE ReadFails
  <2>1. sreader' \in SreaderPC
    BY <1>17, <1>o DEF ReadFails, session, channel, SreaderPC
  <2>2. UNCHANGED <<wire, link, chan, pend, other, queue, paused, peerHold, dead, wrote, reg,
                    ender, reader, writer, client, peer, budget>>
    BY <1>17 DEF ReadFails, session, channel
  <2> QED BY <1>a, <1>b, <1>c, <1>d, <1>e, <1>f, <1>g, <1>h, <1>i, <1>j, <1>k, <1>l, <1>m, <1>n,
           <1>p, <1>q, <1>r, <2>1, <2>2, Retype
<1>18. CASE SendClose
  <2>1. link' \in Seq(Frame)
    <3>1. link' = link \/ link' = Append(link, Control("close"))
      BY <1>18 DEF SendClose, SendControl
    <3> QED BY <1>b, <3>1, FrameFacts
  <2>2. reg' \in BOOLEAN
    BY <1>18, <1>k DEF SendClose, SendControl, Writable, TakeOut, session, channel
  <2>3. ender' \in {"no", "removed", "dead", "done"}
    BY <1>18, <1>l DEF SendClose, SendControl, Writable, TakeOut, session, channel
  <2>4. sreader' \in SreaderPC
    BY <1>18, <1>o DEF SendClose, SendControl, Writable, TakeOut, session, channel, SreaderPC
  <2>5. UNCHANGED <<wire, chan, pend, other, queue, paused, peerHold, dead, wrote, reader, writer,
                    client, peer, budget>>
    BY <1>18 DEF SendClose, SendControl, Writable, TakeOut, session, channel
  <2> QED BY <1>a, <1>c, <1>d, <1>e, <1>f, <1>g, <1>h, <1>i, <1>j, <1>m, <1>n, <1>p, <1>q, <1>r,
           <2>1, <2>2, <2>3, <2>4, <2>5, Retype
<1>19. CASE Gate
  <2>1. reg' \in BOOLEAN
    BY <1>19, <1>k DEF Gate, TakeOut, session, channel
  <2>2. ender' \in {"no", "removed", "dead", "done"}
    BY <1>19, <1>l DEF Gate, TakeOut, session, channel
  <2>3. sreader' \in SreaderPC
    BY <1>19, <1>o DEF Gate, TakeOut, session, channel, SreaderPC
  <2>4. pend' \in Nat
    BY <1>19, <1>d, <1>e, <1>t DEF Gate, TakeOut, session, channel, PendIsExact
  <2>5. UNCHANGED <<wire, link, chan, other, queue, paused, peerHold, dead, wrote, reader, writer,
                    client, peer, budget>>
    BY <1>19 DEF Gate, TakeOut, session, channel
  <2> QED BY <1>a, <1>b, <1>c, <1>e, <1>f, <1>g, <1>h, <1>i, <1>j, <1>m, <1>n, <1>p, <1>q, <1>r,
           <2>1, <2>2, <2>3, <2>4, <2>5, Retype
<1>20. CASE WriteSession
  <2>1. link' \in Seq(Frame)
    <3>1. link' = link \/ link' = Append(link, Data(client.read))
      BY <1>20 DEF WriteSession
    <3>2. client.read \in Nat
      BY <1>p DEF ClientType
    <3>3. Data(client.read) \in Frame
      BY <3>2, FrameFacts
    <3> QED BY <1>b, <3>1, <3>3
  <2>2. pend' \in Nat
    <3>1. sreader = "send" /\ (Written("check") \/ Written("done"))
      BY <1>20 DEF WriteSession
    <3>2. pend' = pend - 1
      BY <3>1 DEF Written
    <3>3. pend = other + 1
      BY <1>t, <3>1 DEF PendIsExact
    <3> QED BY <1>e, <3>2, <3>3
  <2>3. sreader' \in SreaderPC
    BY <1>20, <1>o DEF WriteSession, TakeOut, Written, Writable, session, channel, SreaderPC
  <2>4. reg' \in BOOLEAN
    BY <1>20, <1>k DEF WriteSession, TakeOut, Written, Writable, session, channel
  <2>5. ender' \in {"no", "removed", "dead", "done"}
    BY <1>20, <1>l DEF WriteSession, TakeOut, Written, Writable, session, channel
  <2>6. UNCHANGED <<wire, chan, other, queue, paused, peerHold, dead, wrote, reader, writer,
                    client, peer, budget>>
    BY <1>20 DEF WriteSession, TakeOut, Written, Writable, session, channel
  <2> QED BY <1>a, <1>c, <1>e, <1>f, <1>g, <1>h, <1>i, <1>j, <1>m, <1>n, <1>p, <1>q, <1>r, <2>1,
           <2>2, <2>3, <2>4, <2>5, <2>6, Retype
<1>21. CASE DropSession
  <2>1. reg' \in BOOLEAN
    BY <1>21, <1>k DEF DropSession, TakeOut, session, channel
  <2>2. ender' \in {"no", "removed", "dead", "done"}
    BY <1>21, <1>l DEF DropSession, TakeOut, session, channel
  <2>3. UNCHANGED <<wire, link, chan, pend, other, queue, paused, peerHold, dead, wrote, reader,
                    writer, sreader, client, peer, budget>>
    BY <1>21 DEF DropSession, TakeOut, session, channel
  <2> QED BY <1>a, <1>b, <1>c, <1>d, <1>e, <1>f, <1>g, <1>h, <1>i, <1>j, <1>m, <1>n, <1>o, <1>p,
           <1>q, <1>r, <2>1, <2>2, <2>3, Retype
<1>22. CASE WakeGate
  <2>1. chan' \in {"up", "closed", "dead"}
    BY <1>22, <1>c DEF WakeGate, session, channel
  <2>2. sreader' \in SreaderPC
    BY <1>22, <1>o DEF WakeGate, session, channel, SreaderPC
  <2>3. UNCHANGED <<wire, link, pend, other, queue, paused, peerHold, dead, wrote, reg, ender,
                    reader, writer, client, peer, budget>>
    BY <1>22 DEF WakeGate, session, channel
  <2> QED BY <1>a, <1>b, <1>d, <1>e, <1>f, <1>g, <1>h, <1>i, <1>j, <1>k, <1>l, <1>m, <1>n, <1>p,
           <1>q, <1>r, <2>1, <2>2, <2>3, Retype
<1>23. CASE ReaderStops
  <2>1. reader' \in ReaderType
    BY <1>23, <1>m, <1>a, FrameFacts DEF ReaderStops, session, channel, ReaderType, ReaderPC
  <2>2. UNCHANGED <<wire, link, chan, pend, other, queue, paused, peerHold, dead, wrote, reg,
                    ender, writer, sreader, client, peer, budget>>
    BY <1>23 DEF ReaderStops, session, channel
  <2> QED BY <1>a, <1>b, <1>c, <1>d, <1>e, <1>f, <1>g, <1>h, <1>i, <1>j, <1>k, <1>l, <1>n, <1>o,
           <1>p, <1>q, <1>r, <2>1, <2>2, Retype
<1>24. CASE ReadClient
  <2>1. client' \in ClientType
    <3>1. client' = [client EXCEPT !.read = client.read + 1]
      BY <1>24 DEF ReadClient
    <3>2. client.read + 1 \in Nat
      BY <1>p DEF ClientType
    <3> QED BY <1>p, <3>1, <3>2 DEF ClientType
  <2>2. sreader' \in SreaderPC
    BY <1>24, <1>o DEF ReadClient, session, channel, SreaderPC
  <2>3. UNCHANGED <<wire, link, chan, pend, other, queue, paused, peerHold, dead, wrote, reg,
                    ender, reader, writer, peer, budget>>
    BY <1>24 DEF ReadClient, session, channel
  <2> QED BY <1>a, <1>b, <1>c, <1>d, <1>e, <1>f, <1>g, <1>h, <1>i, <1>j, <1>k, <1>l, <1>m, <1>n,
           <1>q, <1>r, <2>1, <2>2, <2>3, Retype
<1>25. CASE HeadFails
  <2>1. reg' \in BOOLEAN
    BY <1>25, <1>k DEF HeadFails, TakeOut, Spend, session, channel
  <2>2. ender' \in {"no", "removed", "dead", "done"}
    BY <1>25, <1>l DEF HeadFails, TakeOut, Spend, session, channel
  <2>3. sreader' \in SreaderPC
    BY <1>25, <1>o DEF HeadFails, TakeOut, Spend, session, channel, SreaderPC
  <2>4. budget' \in Nat
    BY <1>25, <1>r DEF HeadFails, TakeOut, Spend, session, channel
  <2>5. UNCHANGED <<wire, link, chan, pend, other, queue, paused, peerHold, dead, wrote, reader,
                    writer, client, peer>>
    BY <1>25 DEF HeadFails, TakeOut, Spend, session, channel
  <2> QED BY <1>a, <1>b, <1>c, <1>d, <1>e, <1>f, <1>g, <1>h, <1>i, <1>j, <1>m, <1>n, <1>p, <1>q,
           <2>1, <2>2, <2>3, <2>4, <2>5, Retype
<1>26. CASE OtherEnters
  <2>1. pend' \in Nat
    BY <1>26, <1>d, <1>e, <1>t DEF OtherEnters, Spend, session, channel, PendIsExact
  <2>2. other' \in Nat
    BY <1>26, <1>e, <1>t DEF OtherEnters, Spend, session, channel
  <2>3. budget' \in Nat
    BY <1>26, <1>r DEF OtherEnters, Spend, session, channel
  <2>4. UNCHANGED <<wire, link, chan, queue, paused, peerHold, dead, wrote, reg, ender, reader,
                    writer, sreader, client, peer>>
    BY <1>26 DEF OtherEnters, Spend, session, channel
  <2> QED BY <1>a, <1>b, <1>c, <1>f, <1>g, <1>h, <1>i, <1>j, <1>k, <1>l, <1>m, <1>n, <1>o, <1>p,
           <1>q, <2>1, <2>2, <2>3, <2>4, Retype
<1>27. CASE OtherLeaves
  <2>1. other' \in Nat
    BY <1>27, <1>e, <1>t DEF OtherLeaves, Written, session, channel
  <2>2. pend' \in Nat
    BY <1>27, <1>d, <1>e, <1>t DEF OtherLeaves, Written, session, channel, PendIsExact
  <2>3. sreader' \in SreaderPC
    BY <1>27, <1>o DEF OtherLeaves, Written, session, channel, SreaderPC
  <2>4. UNCHANGED <<wire, link, chan, queue, paused, peerHold, dead, wrote, reg, ender, reader,
                    writer, client, peer, budget>>
    BY <1>27 DEF OtherLeaves, Written, session, channel
  <2> QED BY <1>a, <1>b, <1>c, <1>f, <1>g, <1>h, <1>i, <1>j, <1>k, <1>l, <1>m, <1>n, <1>p, <1>q,
           <1>r, <2>1, <2>2, <2>3, <2>4, Retype
<1>28. CASE CloseSocket
  <2>1. chan' \in {"up", "closed", "dead"}
    BY <1>28, <1>c DEF CloseSocket, Spend, session, channel
  <2>2. wire' \in Seq(Frame)
    BY <1>28, <1>a, FrameFacts DEF CloseSocket, Spend, session, channel, PeerType
  <2>3. link' \in Seq(Frame)
    BY <1>28, <1>b, <1>p, FrameFacts DEF CloseSocket, Spend, session, channel, ClientType
  <2>4. budget' \in Nat
    BY <1>28, <1>r DEF CloseSocket, Spend, session, channel
  <2>5. UNCHANGED <<pend, other, queue, paused, peerHold, dead, wrote, reg, ender, reader, writer,
                    sreader, client, peer>>
    BY <1>28 DEF CloseSocket, Spend, session, channel
  <2> QED BY <1>d, <1>e, <1>f, <1>g, <1>h, <1>i, <1>j, <1>k, <1>l, <1>m, <1>n, <1>o, <1>p, <1>q,
           <2>1, <2>2, <2>3, <2>4, <2>5, Retype
<1>29. CASE PeerSends
  <2>1. peer' \in PeerType
    <3>1. peer' = [peer EXCEPT !.sent = peer.sent + 1]
      BY <1>29 DEF PeerSends
    <3>2. peer.sent + 1 \in Nat
      BY <1>q DEF PeerType
    <3> QED BY <1>q, <3>1, <3>2 DEF PeerType
  <2>2. wire' \in Seq(Frame)
    BY <1>29, <1>a, FrameFacts, <1>q DEF PeerSends, session, channel, PeerType
  <2>3. UNCHANGED <<link, chan, pend, other, queue, paused, peerHold, dead, wrote, reg, ender,
                    reader, writer, sreader, client, budget>>
    BY <1>29 DEF PeerSends, session, channel
  <2> QED BY <1>b, <1>c, <1>d, <1>e, <1>f, <1>g, <1>h, <1>i, <1>j, <1>k, <1>l, <1>m, <1>n, <1>o,
           <1>p, <1>r, <2>1, <2>2, <2>3, Retype
<1>30. CASE PeerCloses
  <2>1. wire' \in Seq(Frame)
    BY <1>30, <1>a, FrameFacts DEF PeerCloses, Spend, session, channel, PeerType
  <2>2. budget' \in Nat
    BY <1>30, <1>r DEF PeerCloses, Spend, session, channel
  <2>3. UNCHANGED <<link, chan, pend, other, queue, paused, peerHold, dead, wrote, reg, ender,
                    reader, writer, sreader, client, peer>>
    BY <1>30 DEF PeerCloses, Spend, session, channel
  <2> QED BY <1>b, <1>c, <1>d, <1>e, <1>f, <1>g, <1>h, <1>i, <1>j, <1>k, <1>l, <1>m, <1>n, <1>o,
           <1>p, <1>q, <2>1, <2>2, <2>3, Retype
<1>31. CASE PeerHolds
  <2>1. peer' \in PeerType
    BY <1>31, <1>q, <1>b, FrameFacts DEF PeerHolds, Spend, session, channel, PeerType
  <2>2. wire' \in Seq(Frame)
    BY <1>31, <1>a, FrameFacts DEF PeerHolds, Spend, session, channel, PeerType
  <2>3. budget' \in Nat
    BY <1>31, <1>r DEF PeerHolds, Spend, session, channel
  <2>4. UNCHANGED <<link, chan, pend, other, queue, paused, peerHold, dead, wrote, reg, ender,
                    reader, writer, sreader, client>>
    BY <1>31 DEF PeerHolds, Spend, session, channel
  <2> QED BY <1>b, <1>c, <1>d, <1>e, <1>f, <1>g, <1>h, <1>i, <1>j, <1>k, <1>l, <1>m, <1>n, <1>o,
           <1>p, <2>1, <2>2, <2>3, <2>4, Retype
<1>32. CASE PeerReleases
  <2>1. peer' \in PeerType
    BY <1>32, <1>q, <1>b, FrameFacts DEF PeerReleases, session, channel, PeerType
  <2>2. wire' \in Seq(Frame)
    BY <1>32, <1>a, FrameFacts DEF PeerReleases, session, channel, PeerType
  <2>3. UNCHANGED <<link, chan, pend, other, queue, paused, peerHold, dead, wrote, reg, ender,
                    reader, writer, sreader, client, budget>>
    BY <1>32 DEF PeerReleases, session, channel
  <2> QED BY <1>b, <1>c, <1>d, <1>e, <1>f, <1>g, <1>h, <1>i, <1>j, <1>k, <1>l, <1>m, <1>n, <1>o,
           <1>p, <1>r, <2>1, <2>2, <2>3, Retype
<1>33. CASE PeerReads
  <2>1. link' \in Seq(Frame)
    BY <1>33, <1>b, <1>p, FrameFacts DEF PeerReads, session, channel, ClientType
  <2>2. peer' \in PeerType
    <3>1. Head(link) \in Frame /\ Head(link).n \in Nat
      BY <1>33, <1>b, FrameFacts DEF PeerReads
    <3>2. peer.got \in Seq(Nat) /\ Append(peer.got, Head(link).n) \in Seq(Nat)
      BY <1>q, <3>1 DEF PeerType
    <3>3. \/ peer' = peer
          \/ peer' = [peer EXCEPT !.got = Append(peer.got, Head(link).n)]
          \/ \E b \in BOOLEAN : peer' = [peer EXCEPT !.paused = b]
      BY <1>33 DEF PeerReads
    <3> QED BY <1>q, <3>2, <3>3 DEF PeerType
  <2>3. UNCHANGED <<wire, chan, pend, other, queue, paused, peerHold, dead, wrote, reg, ender,
                    reader, writer, sreader, client, budget>>
    BY <1>33 DEF PeerReads, session, channel
  <2> QED BY <1>a, <1>c, <1>d, <1>e, <1>f, <1>g, <1>h, <1>i, <1>j, <1>k, <1>l, <1>m, <1>n, <1>o,
           <1>p, <1>r, <2>1, <2>2, <2>3, Retype
<1>34. CASE ClientGoes
  <2>1. client' \in ClientType
    BY <1>34, <1>p, <1>n DEF ClientGoes, Spend, session, channel, ClientType, WriterType
  <2>2. budget' \in Nat
    BY <1>34, <1>r DEF ClientGoes, Spend, session, channel
  <2>3. UNCHANGED <<wire, link, chan, pend, other, queue, paused, peerHold, dead, wrote, reg,
                    ender, reader, writer, sreader, peer>>
    BY <1>34 DEF ClientGoes, Spend, session, channel
  <2> QED BY <1>a, <1>b, <1>c, <1>d, <1>e, <1>f, <1>g, <1>h, <1>i, <1>j, <1>k, <1>l, <1>m, <1>n,
           <1>o, <1>q, <2>1, <2>2, <2>3, Retype
<1> QED
  BY <1>0, <1>1, <1>2, <1>3, <1>4, <1>5, <1>6, <1>7, <1>8, <1>9, <1>10, <1>11,
     <1>12, <1>13, <1>14, <1>15, <1>16, <1>17, <1>18, <1>19, <1>20, <1>21, <1>22, <1>23,
     <1>24, <1>25, <1>26, <1>27, <1>28, <1>29, <1>30, <1>31, <1>32, <1>33, <1>34, Steps

\* The chunks in flight are counted.
LEMMA PendStep == IInv /\ [Next]_vars => PendIsExact'
<1> SUFFICES ASSUME IInv, [Next]_vars PROVE PendIsExact'
  OBVIOUS
<1>a. PendIsExact /\ pend \in Nat /\ other \in Nat
  BY DEF IInv, TypeOK
<1>0. CASE UNCHANGED vars
  BY <1>0, <1>a, Limits DEF vars, session, channel, PendIsExact
<1>1. CASE MarkDead
  BY <1>1, <1>a, Limits DEF MarkDead, WakeWriter, WakeSreader, session, channel, PendIsExact
<1>2. CASE CloseClient
  BY <1>2, <1>a, Limits DEF CloseClient, session, channel, PendIsExact
<1>3. CASE OnData
  BY <1>3, <1>a, Limits DEF OnData, session, channel, PendIsExact
<1>4. CASE Push
  BY <1>4, <1>a, Limits DEF Push, WakeWriter, WakeSreader, session, channel, PendIsExact
<1>5. CASE SendPause
  BY <1>5, <1>a, Limits DEF SendPause, SendControl, Writable, session, channel, PendIsExact
<1>6. CASE Overflow
  BY <1>6, <1>a, Limits DEF Overflow, TakeOut, session, channel, PendIsExact
<1>7. CASE OnClose
  BY <1>7, <1>a, Limits DEF OnClose, TakeOut, session, channel, PendIsExact
<1>8. CASE Ended
  BY <1>8, <1>a, Limits DEF Ended, session, channel, PendIsExact
<1>9. CASE setPeerHold
  BY <1>9, <1>a, Limits DEF setPeerHold, WakeWriter, WakeSreader, session, channel, PendIsExact
<1>10. CASE Dequeue
  BY <1>10, <1>a, Limits DEF Dequeue, session, channel, PendIsExact
<1>11. CASE AwaitChunk
  BY <1>11, <1>a, Limits DEF AwaitChunk, session, channel, PendIsExact
<1>12. CASE WriteClient
  BY <1>12, <1>a, Limits DEF WriteClient, session, channel, PendIsExact
<1>13. CASE WriteFails
  BY <1>13, <1>a, Limits DEF WriteFails, TakeOut, session, channel, PendIsExact
<1>14. CASE SendResume
  BY <1>14, <1>a, Limits DEF SendResume, SendControl, Writable, session, channel, PendIsExact
<1>15. CASE RebuildHead
  BY <1>15, <1>a, Limits DEF RebuildHead, session, channel, PendIsExact
<1>16. CASE AwaitRelease
  BY <1>16, <1>a, Limits DEF AwaitRelease, session, channel, PendIsExact
<1>17. CASE ReadFails
  BY <1>17, <1>a, Limits DEF ReadFails, session, channel, PendIsExact
<1>18. CASE SendClose
  BY <1>18, <1>a, Limits DEF SendClose, SendControl, Writable, TakeOut, session, channel,
     PendIsExact
<1>19. CASE Gate
  BY <1>19, <1>a, Limits DEF Gate, TakeOut, session, channel, PendIsExact
<1>20. CASE WriteSession
  BY <1>20, <1>a, Limits DEF WriteSession, TakeOut, Written, Writable, session, channel, PendIsExact
<1>21. CASE DropSession
  BY <1>21, <1>a, Limits DEF DropSession, TakeOut, session, channel, PendIsExact
<1>22. CASE WakeGate
  BY <1>22, <1>a, Limits DEF WakeGate, session, channel, PendIsExact
<1>23. CASE ReaderStops
  BY <1>23, <1>a, Limits DEF ReaderStops, session, channel, PendIsExact
<1>24. CASE ReadClient
  BY <1>24, <1>a, Limits DEF ReadClient, session, channel, PendIsExact
<1>25. CASE HeadFails
  BY <1>25, <1>a, Limits DEF HeadFails, TakeOut, Spend, session, channel, PendIsExact
<1>26. CASE OtherEnters
  BY <1>26, <1>a, Limits DEF OtherEnters, Spend, session, channel, PendIsExact
<1>27. CASE OtherLeaves
  BY <1>27, <1>a, Limits DEF OtherLeaves, Written, session, channel, PendIsExact
<1>28. CASE CloseSocket
  BY <1>28, <1>a, Limits DEF CloseSocket, Spend, session, channel, PendIsExact
<1>29. CASE PeerSends
  BY <1>29, <1>a, Limits DEF PeerSends, session, channel, PendIsExact
<1>30. CASE PeerCloses
  BY <1>30, <1>a, Limits DEF PeerCloses, Spend, session, channel, PendIsExact
<1>31. CASE PeerHolds
  BY <1>31, <1>a, Limits DEF PeerHolds, Spend, session, channel, PendIsExact
<1>32. CASE PeerReleases
  BY <1>32, <1>a, Limits DEF PeerReleases, session, channel, PendIsExact
<1>33. CASE PeerReads
  BY <1>33, <1>a, Limits DEF PeerReads, session, channel, PendIsExact
<1>34. CASE ClientGoes
  BY <1>34, <1>a, Limits DEF ClientGoes, Spend, session, channel, PendIsExact
<1> QED
  BY <1>0, <1>1, <1>2, <1>3, <1>4, <1>5, <1>6, <1>7, <1>8, <1>9, <1>10, <1>11,
     <1>12, <1>13, <1>14, <1>15, <1>16, <1>17, <1>18, <1>19, <1>20, <1>21, <1>22, <1>23,
     <1>24, <1>25, <1>26, <1>27, <1>28, <1>29, <1>30, <1>31, <1>32, <1>33, <1>34, Steps

\* The end of a session.
LEMMA EnderStep == IInv /\ [Next]_vars => EnderInv'
<1> SUFFICES ASSUME IInv, [Next]_vars PROVE EnderInv'
  OBVIOUS
<1>a. EnderInv /\ client \in ClientType
  BY Types DEF IInv
<1>0. CASE UNCHANGED vars
  BY <1>0, <1>a DEF vars, session, channel, EnderInv, ClientType
<1>1. CASE MarkDead
  BY <1>1, <1>a DEF MarkDead, WakeWriter, WakeSreader, session, channel, EnderInv, ClientType
<1>2. CASE CloseClient
  BY <1>2, <1>a DEF CloseClient, session, channel, EnderInv, ClientType
<1>3. CASE OnData
  BY <1>3, <1>a DEF OnData, session, channel, EnderInv, ClientType
<1>4. CASE Push
  BY <1>4, <1>a DEF Push, WakeWriter, WakeSreader, session, channel, EnderInv, ClientType
<1>5. CASE SendPause
  BY <1>5, <1>a DEF SendPause, SendControl, Writable, session, channel, EnderInv, ClientType
<1>6. CASE Overflow
  BY <1>6, <1>a DEF Overflow, TakeOut, session, channel, EnderInv, ClientType
<1>7. CASE OnClose
  BY <1>7, <1>a DEF OnClose, TakeOut, session, channel, EnderInv, ClientType
<1>8. CASE Ended
  BY <1>8, <1>a DEF Ended, session, channel, EnderInv, ClientType
<1>9. CASE setPeerHold
  BY <1>9, <1>a DEF setPeerHold, WakeWriter, WakeSreader, session, channel, EnderInv, ClientType
<1>10. CASE Dequeue
  BY <1>10, <1>a DEF Dequeue, session, channel, EnderInv, ClientType
<1>11. CASE AwaitChunk
  BY <1>11, <1>a DEF AwaitChunk, session, channel, EnderInv, ClientType
<1>12. CASE WriteClient
  BY <1>12, <1>a DEF WriteClient, session, channel, EnderInv, ClientType
<1>13. CASE WriteFails
  BY <1>13, <1>a DEF WriteFails, TakeOut, session, channel, EnderInv, ClientType
<1>14. CASE SendResume
  BY <1>14, <1>a DEF SendResume, SendControl, Writable, session, channel, EnderInv, ClientType
<1>15. CASE RebuildHead
  BY <1>15, <1>a DEF RebuildHead, session, channel, EnderInv, ClientType
<1>16. CASE AwaitRelease
  BY <1>16, <1>a DEF AwaitRelease, session, channel, EnderInv, ClientType
<1>17. CASE ReadFails
  BY <1>17, <1>a DEF ReadFails, session, channel, EnderInv, ClientType
<1>18. CASE SendClose
  BY <1>18, <1>a DEF SendClose, SendControl, Writable, TakeOut, session, channel, EnderInv,
     ClientType
<1>19. CASE Gate
  BY <1>19, <1>a DEF Gate, TakeOut, session, channel, EnderInv, ClientType
<1>20. CASE WriteSession
  BY <1>20, <1>a DEF WriteSession, TakeOut, Written, Writable, session, channel, EnderInv,
     ClientType
<1>21. CASE DropSession
  BY <1>21, <1>a DEF DropSession, TakeOut, session, channel, EnderInv, ClientType
<1>22. CASE WakeGate
  BY <1>22, <1>a DEF WakeGate, session, channel, EnderInv, ClientType
<1>23. CASE ReaderStops
  BY <1>23, <1>a DEF ReaderStops, session, channel, EnderInv, ClientType
<1>24. CASE ReadClient
  BY <1>24, <1>a DEF ReadClient, session, channel, EnderInv, ClientType
<1>25. CASE HeadFails
  BY <1>25, <1>a DEF HeadFails, TakeOut, Spend, session, channel, EnderInv, ClientType
<1>26. CASE OtherEnters
  BY <1>26, <1>a DEF OtherEnters, Spend, session, channel, EnderInv, ClientType
<1>27. CASE OtherLeaves
  BY <1>27, <1>a DEF OtherLeaves, Written, session, channel, EnderInv, ClientType
<1>28. CASE CloseSocket
  BY <1>28, <1>a DEF CloseSocket, Spend, session, channel, EnderInv, ClientType
<1>29. CASE PeerSends
  BY <1>29, <1>a DEF PeerSends, session, channel, EnderInv, ClientType
<1>30. CASE PeerCloses
  BY <1>30, <1>a DEF PeerCloses, Spend, session, channel, EnderInv, ClientType
<1>31. CASE PeerHolds
  BY <1>31, <1>a DEF PeerHolds, Spend, session, channel, EnderInv, ClientType
<1>32. CASE PeerReleases
  BY <1>32, <1>a DEF PeerReleases, session, channel, EnderInv, ClientType
<1>33. CASE PeerReads
  BY <1>33, <1>a DEF PeerReads, session, channel, EnderInv, ClientType
<1>34. CASE ClientGoes
  BY <1>34, <1>a DEF ClientGoes, Spend, session, channel, EnderInv, ClientType
<1> QED
  BY <1>0, <1>1, <1>2, <1>3, <1>4, <1>5, <1>6, <1>7, <1>8, <1>9, <1>10, <1>11,
     <1>12, <1>13, <1>14, <1>15, <1>16, <1>17, <1>18, <1>19, <1>20, <1>21, <1>22, <1>23,
     <1>24, <1>25, <1>26, <1>27, <1>28, <1>29, <1>30, <1>31, <1>32, <1>33, <1>34, Steps

\* The debt of a pause.
LEMMA PauseStep == IInv /\ [Next]_vars => PauseIsOwed'
<1> SUFFICES ASSUME IInv, [Next]_vars PROVE PauseIsOwed'
  OBVIOUS
<1>a. PauseIsOwed /\ queue \in Seq(Nat) /\ reader \in ReaderType
  BY Types DEF IInv
<1>0. CASE UNCHANGED vars
  BY <1>0, <1>a DEF vars, session, channel, PauseIsOwed
<1>1. CASE MarkDead
  BY <1>1, <1>a DEF MarkDead, WakeWriter, WakeSreader, session, channel, PauseIsOwed
<1>2. CASE CloseClient
  BY <1>2, <1>a DEF CloseClient, session, channel, PauseIsOwed
<1>3. CASE OnData
  BY <1>3, <1>a DEF OnData, session, channel, PauseIsOwed
<1>4. CASE Push
  <2>1. \/ queue' = queue /\ paused' = paused
        \/ /\ queue' = Append(queue, reader.n) /\ Len(queue) + 1 <= SinkCap
           /\ paused' = (paused \/ (~paused /\ Len(queue) + 1 >= SinkHigh))
    BY <1>4 DEF Push, session
  <2>2. CASE queue' = queue /\ paused' = paused
    BY <1>a, <2>2 DEF PauseIsOwed
  <2>3. CASE /\ queue' = Append(queue, reader.n) /\ Len(queue) + 1 <= SinkCap
             /\ paused' = (paused \/ (~paused /\ Len(queue) + 1 >= SinkHigh))
    <3>1. Len(queue') = Len(queue) + 1 /\ queue' # <<>> /\ Len(queue) \in Nat
      BY <1>a, <2>3 DEF ReaderType
    <3>2. paused' <=> paused \/ Len(queue) + 1 >= SinkHigh
      BY <2>3
    <3> QED BY <1>a, <2>3, <3>1, <3>2, Limits DEF PauseIsOwed
  <2> QED BY <2>1, <2>2, <2>3
<1>5. CASE SendPause
  BY <1>5, <1>a DEF SendPause, SendControl, Writable, session, channel, PauseIsOwed
<1>6. CASE Overflow
  BY <1>6, <1>a DEF Overflow, TakeOut, session, channel, PauseIsOwed
<1>7. CASE OnClose
  BY <1>7, <1>a DEF OnClose, TakeOut, session, channel, PauseIsOwed
<1>8. CASE Ended
  BY <1>8, <1>a DEF Ended, session, channel, PauseIsOwed
<1>9. CASE setPeerHold
  BY <1>9, <1>a DEF setPeerHold, WakeWriter, WakeSreader, session, channel, PauseIsOwed
<1>10. CASE Dequeue
  <2>1. queue # <<>> /\ queue' = Tail(queue) /\ (paused' <=> paused /\ Len(queue) # 1)
    BY <1>10 DEF Dequeue
  <2>2. Len(queue') = Len(queue) - 1 /\ Len(queue) \in Nat /\ Len(queue) > 0
    BY <1>a, <2>1
  <2>3. queue' # <<>> <=> Len(queue) # 1
    BY <1>a, <2>1, TailEmpty
  <2> QED BY <1>a, <2>1, <2>2, <2>3, Limits DEF PauseIsOwed
<1>11. CASE AwaitChunk
  BY <1>11, <1>a DEF AwaitChunk, session, channel, PauseIsOwed
<1>12. CASE WriteClient
  BY <1>12, <1>a DEF WriteClient, session, channel, PauseIsOwed
<1>13. CASE WriteFails
  BY <1>13, <1>a DEF WriteFails, TakeOut, session, channel, PauseIsOwed
<1>14. CASE SendResume
  BY <1>14, <1>a DEF SendResume, SendControl, Writable, session, channel, PauseIsOwed
<1>15. CASE RebuildHead
  BY <1>15, <1>a DEF RebuildHead, session, channel, PauseIsOwed
<1>16. CASE AwaitRelease
  BY <1>16, <1>a DEF AwaitRelease, session, channel, PauseIsOwed
<1>17. CASE ReadFails
  BY <1>17, <1>a DEF ReadFails, session, channel, PauseIsOwed
<1>18. CASE SendClose
  BY <1>18, <1>a DEF SendClose, SendControl, Writable, TakeOut, session, channel, PauseIsOwed
<1>19. CASE Gate
  BY <1>19, <1>a DEF Gate, TakeOut, session, channel, PauseIsOwed
<1>20. CASE WriteSession
  BY <1>20, <1>a DEF WriteSession, TakeOut, Written, Writable, session, channel, PauseIsOwed
<1>21. CASE DropSession
  BY <1>21, <1>a DEF DropSession, TakeOut, session, channel, PauseIsOwed
<1>22. CASE WakeGate
  BY <1>22, <1>a DEF WakeGate, session, channel, PauseIsOwed
<1>23. CASE ReaderStops
  BY <1>23, <1>a DEF ReaderStops, session, channel, PauseIsOwed
<1>24. CASE ReadClient
  BY <1>24, <1>a DEF ReadClient, session, channel, PauseIsOwed
<1>25. CASE HeadFails
  BY <1>25, <1>a DEF HeadFails, TakeOut, Spend, session, channel, PauseIsOwed
<1>26. CASE OtherEnters
  BY <1>26, <1>a DEF OtherEnters, Spend, session, channel, PauseIsOwed
<1>27. CASE OtherLeaves
  BY <1>27, <1>a DEF OtherLeaves, Written, session, channel, PauseIsOwed
<1>28. CASE CloseSocket
  BY <1>28, <1>a DEF CloseSocket, Spend, session, channel, PauseIsOwed
<1>29. CASE PeerSends
  BY <1>29, <1>a DEF PeerSends, session, channel, PauseIsOwed
<1>30. CASE PeerCloses
  BY <1>30, <1>a DEF PeerCloses, Spend, session, channel, PauseIsOwed
<1>31. CASE PeerHolds
  BY <1>31, <1>a DEF PeerHolds, Spend, session, channel, PauseIsOwed
<1>32. CASE PeerReleases
  BY <1>32, <1>a DEF PeerReleases, session, channel, PauseIsOwed
<1>33. CASE PeerReads
  BY <1>33, <1>a DEF PeerReads, session, channel, PauseIsOwed
<1>34. CASE ClientGoes
  BY <1>34, <1>a DEF ClientGoes, Spend, session, channel, PauseIsOwed
<1> QED
  BY <1>0, <1>1, <1>2, <1>3, <1>4, <1>5, <1>6, <1>7, <1>8, <1>9, <1>10, <1>11,
     <1>12, <1>13, <1>14, <1>15, <1>16, <1>17, <1>18, <1>19, <1>20, <1>21, <1>22, <1>23,
     <1>24, <1>25, <1>26, <1>27, <1>28, <1>29, <1>30, <1>31, <1>32, <1>33, <1>34, Steps

\* The answer and the 502.
LEMMA AnswerStep == IInv /\ [Next]_vars => AnswerInv'
<1> SUFFICES ASSUME IInv, [Next]_vars PROVE AnswerInv'
  OBVIOUS
<1>a. AnswerInv /\ EnderInv /\ client \in ClientType /\ writer \in WriterType /\ queue \in Seq(Nat)
  BY Types DEF IInv
<1>0. CASE UNCHANGED vars
  BY <1>0, <1>a DEF vars, session, channel, AnswerInv, EnderInv, ClientType, WriterType
<1>1. CASE MarkDead
  BY <1>1, <1>a DEF MarkDead, WakeWriter, WakeSreader, session, channel, AnswerInv, EnderInv,
     ClientType, WriterType
<1>2. CASE CloseClient
  BY <1>2, <1>a DEF CloseClient, session, channel, AnswerInv, EnderInv, ClientType, WriterType
<1>3. CASE OnData
  BY <1>3, <1>a DEF OnData, session, channel, AnswerInv, EnderInv, ClientType, WriterType
<1>4. CASE Push
  BY <1>4, <1>a DEF Push, WakeWriter, WakeSreader, session, channel, AnswerInv, EnderInv,
     ClientType, WriterType
<1>5. CASE SendPause
  BY <1>5, <1>a DEF SendPause, SendControl, Writable, session, channel, AnswerInv, EnderInv,
     ClientType, WriterType
<1>6. CASE Overflow
  BY <1>6, <1>a DEF Overflow, TakeOut, session, channel, AnswerInv, EnderInv, ClientType, WriterType
<1>7. CASE OnClose
  BY <1>7, <1>a DEF OnClose, TakeOut, session, channel, AnswerInv, EnderInv, ClientType, WriterType
<1>8. CASE Ended
  BY <1>8, <1>a DEF Ended, session, channel, AnswerInv, EnderInv, ClientType, WriterType
<1>9. CASE setPeerHold
  BY <1>9, <1>a DEF setPeerHold, WakeWriter, WakeSreader, session, channel, AnswerInv, EnderInv,
     ClientType, WriterType
<1>10. CASE Dequeue
  BY <1>10, <1>a DEF Dequeue, session, channel, AnswerInv, EnderInv, ClientType, WriterType
<1>11. CASE AwaitChunk
  BY <1>11, <1>a DEF AwaitChunk, session, channel, AnswerInv, EnderInv, ClientType, WriterType
<1>12. CASE WriteClient
  BY <1>12, <1>a DEF WriteClient, session, channel, AnswerInv, EnderInv, ClientType, WriterType
<1>13. CASE WriteFails
  BY <1>13, <1>a DEF WriteFails, TakeOut, session, channel, AnswerInv, EnderInv, ClientType,
     WriterType
<1>14. CASE SendResume
  BY <1>14, <1>a DEF SendResume, SendControl, Writable, session, channel, AnswerInv, EnderInv,
     ClientType, WriterType
<1>15. CASE RebuildHead
  BY <1>15, <1>a DEF RebuildHead, session, channel, AnswerInv, EnderInv, ClientType, WriterType
<1>16. CASE AwaitRelease
  BY <1>16, <1>a DEF AwaitRelease, session, channel, AnswerInv, EnderInv, ClientType, WriterType
<1>17. CASE ReadFails
  BY <1>17, <1>a DEF ReadFails, session, channel, AnswerInv, EnderInv, ClientType, WriterType
<1>18. CASE SendClose
  BY <1>18, <1>a DEF SendClose, SendControl, Writable, TakeOut, session, channel, AnswerInv,
     EnderInv, ClientType, WriterType
<1>19. CASE Gate
  BY <1>19, <1>a DEF Gate, TakeOut, session, channel, AnswerInv, EnderInv, ClientType, WriterType
<1>20. CASE WriteSession
  BY <1>20, <1>a DEF WriteSession, TakeOut, Written, Writable, session, channel, AnswerInv,
     EnderInv, ClientType, WriterType
<1>21. CASE DropSession
  BY <1>21, <1>a DEF DropSession, TakeOut, session, channel, AnswerInv, EnderInv, ClientType,
     WriterType
<1>22. CASE WakeGate
  BY <1>22, <1>a DEF WakeGate, session, channel, AnswerInv, EnderInv, ClientType, WriterType
<1>23. CASE ReaderStops
  BY <1>23, <1>a DEF ReaderStops, session, channel, AnswerInv, EnderInv, ClientType, WriterType
<1>24. CASE ReadClient
  BY <1>24, <1>a DEF ReadClient, session, channel, AnswerInv, EnderInv, ClientType, WriterType
<1>25. CASE HeadFails
  BY <1>25, <1>a DEF HeadFails, TakeOut, Spend, session, channel, AnswerInv, EnderInv, ClientType,
     WriterType
<1>26. CASE OtherEnters
  BY <1>26, <1>a DEF OtherEnters, Spend, session, channel, AnswerInv, EnderInv, ClientType,
     WriterType
<1>27. CASE OtherLeaves
  BY <1>27, <1>a DEF OtherLeaves, Written, session, channel, AnswerInv, EnderInv, ClientType,
     WriterType
<1>28. CASE CloseSocket
  BY <1>28, <1>a DEF CloseSocket, Spend, session, channel, AnswerInv, EnderInv, ClientType,
     WriterType
<1>29. CASE PeerSends
  BY <1>29, <1>a DEF PeerSends, session, channel, AnswerInv, EnderInv, ClientType, WriterType
<1>30. CASE PeerCloses
  BY <1>30, <1>a DEF PeerCloses, Spend, session, channel, AnswerInv, EnderInv, ClientType,
     WriterType
<1>31. CASE PeerHolds
  BY <1>31, <1>a DEF PeerHolds, Spend, session, channel, AnswerInv, EnderInv, ClientType, WriterType
<1>32. CASE PeerReleases
  BY <1>32, <1>a DEF PeerReleases, session, channel, AnswerInv, EnderInv, ClientType, WriterType
<1>33. CASE PeerReads
  BY <1>33, <1>a DEF PeerReads, session, channel, AnswerInv, EnderInv, ClientType, WriterType
<1>34. CASE ClientGoes
  BY <1>34, <1>a DEF ClientGoes, Spend, session, channel, AnswerInv, EnderInv, ClientType,
     WriterType
<1> QED
  BY <1>0, <1>1, <1>2, <1>3, <1>4, <1>5, <1>6, <1>7, <1>8, <1>9, <1>10, <1>11,
     <1>12, <1>13, <1>14, <1>15, <1>16, <1>17, <1>18, <1>19, <1>20, <1>21, <1>22, <1>23,
     <1>24, <1>25, <1>26, <1>27, <1>28, <1>29, <1>30, <1>31, <1>32, <1>33, <1>34, Steps

\* Nobody sleeps through a change.
LEMMA WakeStep == IInv /\ [Next]_vars => NoLostWakeup'
<1> SUFFICES ASSUME IInv, [Next]_vars PROVE NoLostWakeup'
  OBVIOUS
<1>a. /\ NoLostWakeup /\ PendIsExact /\ EnderInv /\ pend \in Nat /\ other \in Nat
      /\ writer \in WriterType
  BY Types DEF IInv
<1>0. CASE UNCHANGED vars
  BY <1>0, <1>a, Limits DEF vars, session, channel, NoLostWakeup, EnderInv, WriterType
<1>1. CASE MarkDead
  BY <1>1, <1>a, Limits DEF MarkDead, WakeWriter, WakeSreader, session, channel, NoLostWakeup,
     EnderInv, WriterType
<1>2. CASE CloseClient
  BY <1>2, <1>a, Limits DEF CloseClient, session, channel, NoLostWakeup, EnderInv, WriterType
<1>3. CASE OnData
  BY <1>3, <1>a, Limits DEF OnData, session, channel, NoLostWakeup, EnderInv, WriterType
<1>4. CASE Push
  BY <1>4, <1>a, Limits DEF Push, WakeWriter, WakeSreader, session, channel, NoLostWakeup,
     EnderInv, WriterType
<1>5. CASE SendPause
  BY <1>5, <1>a, Limits DEF SendPause, SendControl, Writable, session, channel, NoLostWakeup,
     EnderInv, WriterType
<1>6. CASE Overflow
  BY <1>6, <1>a, Limits DEF Overflow, TakeOut, session, channel, NoLostWakeup, EnderInv, WriterType
<1>7. CASE OnClose
  BY <1>7, <1>a, Limits DEF OnClose, TakeOut, session, channel, NoLostWakeup, EnderInv, WriterType
<1>8. CASE Ended
  BY <1>8, <1>a, Limits DEF Ended, session, channel, NoLostWakeup, EnderInv, WriterType
<1>9. CASE setPeerHold
  BY <1>9, <1>a, Limits DEF setPeerHold, WakeWriter, WakeSreader, session, channel, NoLostWakeup,
     EnderInv, WriterType
<1>10. CASE Dequeue
  BY <1>10, <1>a, Limits DEF Dequeue, session, channel, NoLostWakeup, EnderInv, WriterType
<1>11. CASE AwaitChunk
  BY <1>11, <1>a, Limits DEF AwaitChunk, session, channel, NoLostWakeup, EnderInv, WriterType
<1>12. CASE WriteClient
  BY <1>12, <1>a, Limits DEF WriteClient, session, channel, NoLostWakeup, EnderInv, WriterType
<1>13. CASE WriteFails
  BY <1>13, <1>a, Limits DEF WriteFails, TakeOut, session, channel, NoLostWakeup, EnderInv,
     WriterType
<1>14. CASE SendResume
  BY <1>14, <1>a, Limits DEF SendResume, SendControl, Writable, session, channel, NoLostWakeup,
     EnderInv, WriterType
<1>15. CASE RebuildHead
  BY <1>15, <1>a, Limits DEF RebuildHead, session, channel, NoLostWakeup, EnderInv, WriterType
<1>16. CASE AwaitRelease
  BY <1>16, <1>a, Limits DEF AwaitRelease, session, channel, NoLostWakeup, EnderInv, WriterType
<1>17. CASE ReadFails
  BY <1>17, <1>a, Limits DEF ReadFails, session, channel, NoLostWakeup, EnderInv, WriterType
<1>18. CASE SendClose
  BY <1>18, <1>a, Limits DEF SendClose, SendControl, Writable, TakeOut, session, channel,
     NoLostWakeup, EnderInv, WriterType
<1>19. CASE Gate
  BY <1>19, <1>a, Limits DEF Gate, TakeOut, session, channel, NoLostWakeup, EnderInv, WriterType
<1>20. CASE WriteSession
  BY <1>20, <1>a, Limits DEF WriteSession, TakeOut, Written, Writable, session, channel,
     NoLostWakeup, EnderInv, WriterType
<1>21. CASE DropSession
  BY <1>21, <1>a, Limits DEF DropSession, TakeOut, session, channel, NoLostWakeup, EnderInv,
     WriterType
<1>22. CASE WakeGate
  BY <1>22, <1>a, Limits DEF WakeGate, session, channel, NoLostWakeup, EnderInv, WriterType
<1>23. CASE ReaderStops
  BY <1>23, <1>a, Limits DEF ReaderStops, session, channel, NoLostWakeup, EnderInv, WriterType
<1>24. CASE ReadClient
  BY <1>24, <1>a, Limits DEF ReadClient, session, channel, NoLostWakeup, EnderInv, WriterType
<1>25. CASE HeadFails
  BY <1>25, <1>a, Limits DEF HeadFails, TakeOut, Spend, session, channel, NoLostWakeup, EnderInv,
     WriterType
<1>26. CASE OtherEnters
  BY <1>26, <1>a, Limits DEF OtherEnters, Spend, session, channel, NoLostWakeup, EnderInv,
     WriterType
<1>27. CASE OtherLeaves
  BY <1>27, <1>a, Limits DEF OtherLeaves, Written, session, channel, NoLostWakeup, EnderInv,
     WriterType
<1>28. CASE CloseSocket
  BY <1>28, <1>a, Limits DEF CloseSocket, Spend, session, channel, NoLostWakeup, EnderInv,
     WriterType
<1>29. CASE PeerSends
  BY <1>29, <1>a, Limits DEF PeerSends, session, channel, NoLostWakeup, EnderInv, WriterType
<1>30. CASE PeerCloses
  BY <1>30, <1>a, Limits DEF PeerCloses, Spend, session, channel, NoLostWakeup, EnderInv, WriterType
<1>31. CASE PeerHolds
  BY <1>31, <1>a, Limits DEF PeerHolds, Spend, session, channel, NoLostWakeup, EnderInv, WriterType
<1>32. CASE PeerReleases
  BY <1>32, <1>a, Limits DEF PeerReleases, session, channel, NoLostWakeup, EnderInv, WriterType
<1>33. CASE PeerReads
  BY <1>33, <1>a, Limits DEF PeerReads, session, channel, NoLostWakeup, EnderInv, WriterType
<1>34. CASE ClientGoes
  BY <1>34, <1>a, Limits DEF ClientGoes, Spend, session, channel, NoLostWakeup, EnderInv, WriterType
<1> QED
  BY <1>0, <1>1, <1>2, <1>3, <1>4, <1>5, <1>6, <1>7, <1>8, <1>9, <1>10, <1>11,
     <1>12, <1>13, <1>14, <1>15, <1>16, <1>17, <1>18, <1>19, <1>20, <1>21, <1>22, <1>23,
     <1>24, <1>25, <1>26, <1>27, <1>28, <1>29, <1>30, <1>31, <1>32, <1>33, <1>34, Steps

\* The client's chunks stay in order.
LEMMA UpStep == IInv /\ [Next]_vars => UpInv'
<1> SUFFICES ASSUME IInv, [Next]_vars PROVE UpInv'
  OBVIOUS
<1>a. UpInv
  BY DEF IInv
<1>b. /\ link \in Seq(Frame) /\ client \in ClientType /\ peer \in PeerType
      /\ client.read \in Nat /\ peer.got \in Seq(Nat) /\ Len(peer.got) \in Nat
  BY Types DEF IInv, ClientType, PeerType
<1>c. Forwarded \in Nat
  BY <1>a, <1>b DEF UpInv, Forwarded
<1>0. CASE UNCHANGED vars
  BY <1>0, <1>a, <1>b DEF vars, session, channel, UpInv, Forwarded, ClientType, PeerType
<1>1. CASE MarkDead
  BY <1>1, <1>a, <1>b DEF MarkDead, WakeWriter, WakeSreader, session, channel, UpInv, Forwarded,
     ClientType, PeerType
<1>2. CASE CloseClient
  BY <1>2, <1>a, <1>b DEF CloseClient, session, channel, UpInv, Forwarded, ClientType, PeerType
<1>3. CASE OnData
  BY <1>3, <1>a, <1>b DEF OnData, session, channel, UpInv, Forwarded, ClientType, PeerType
<1>4. CASE Push
  BY <1>4, <1>a, <1>b DEF Push, WakeWriter, WakeSreader, session, channel, UpInv, Forwarded,
     ClientType, PeerType
<1>5. CASE SendPause
  <2>1. \/ link' = link
        \/ chan = "up" /\ link' = Append(link, Control("pause"))
    BY <1>5 DEF SendPause, SendControl, Writable
  <2>2. Forwarded' = Forwarded
    BY <1>5 DEF SendPause, Forwarded
  <2>3. InOrder(link, Len(peer.got), Forwarded) =>
          InOrder(Append(link, Control("pause")), Len(peer.got), Forwarded)
    BY <1>b, <1>c, AppendControl, FrameFacts
  <2>4. UNCHANGED <<chan, peer, client>>
    BY <1>5 DEF SendPause
  <2>5. sreader' = sreader \/ (sreader' = "done" /\ sreader = "close")
    BY <1>5 DEF SendPause
  <2> QED BY <1>a, <2>1, <2>2, <2>3, <2>4, <2>5 DEF UpInv
<1>6. CASE Overflow
  BY <1>6, <1>a, <1>b DEF Overflow, TakeOut, session, channel, UpInv, Forwarded, ClientType,
     PeerType
<1>7. CASE OnClose
  BY <1>7, <1>a, <1>b DEF OnClose, TakeOut, session, channel, UpInv, Forwarded, ClientType, PeerType
<1>8. CASE Ended
  BY <1>8, <1>a, <1>b DEF Ended, session, channel, UpInv, Forwarded, ClientType, PeerType
<1>9. CASE setPeerHold
  BY <1>9, <1>a, <1>b DEF setPeerHold, WakeWriter, WakeSreader, session, channel, UpInv, Forwarded,
     ClientType, PeerType
<1>10. CASE Dequeue
  BY <1>10, <1>a, <1>b DEF Dequeue, session, channel, UpInv, Forwarded, ClientType, PeerType
<1>11. CASE AwaitChunk
  BY <1>11, <1>a, <1>b DEF AwaitChunk, session, channel, UpInv, Forwarded, ClientType, PeerType
<1>12. CASE WriteClient
  BY <1>12, <1>a, <1>b DEF WriteClient, session, channel, UpInv, Forwarded, ClientType, PeerType
<1>13. CASE WriteFails
  BY <1>13, <1>a, <1>b DEF WriteFails, TakeOut, session, channel, UpInv, Forwarded, ClientType,
     PeerType
<1>14. CASE SendResume
  <2>1. \/ link' = link
        \/ chan = "up" /\ link' = Append(link, Control("resume"))
    BY <1>14 DEF SendResume, SendControl, Writable
  <2>2. Forwarded' = Forwarded
    BY <1>14 DEF SendResume, Forwarded
  <2>3. InOrder(link, Len(peer.got), Forwarded) =>
          InOrder(Append(link, Control("resume")), Len(peer.got), Forwarded)
    BY <1>b, <1>c, AppendControl, FrameFacts
  <2>4. UNCHANGED <<chan, peer, client>>
    BY <1>14 DEF SendResume
  <2>5. sreader' = sreader \/ (sreader' = "done" /\ sreader = "close")
    BY <1>14 DEF SendResume
  <2> QED BY <1>a, <2>1, <2>2, <2>3, <2>4, <2>5 DEF UpInv
<1>15. CASE RebuildHead
  BY <1>15, <1>a, <1>b DEF RebuildHead, session, channel, UpInv, Forwarded, ClientType, PeerType
<1>16. CASE AwaitRelease
  BY <1>16, <1>a, <1>b DEF AwaitRelease, session, channel, UpInv, Forwarded, ClientType, PeerType
<1>17. CASE ReadFails
  BY <1>17, <1>a, <1>b DEF ReadFails, session, channel, UpInv, Forwarded, ClientType, PeerType
<1>18. CASE SendClose
  <2>1. \/ link' = link
        \/ chan = "up" /\ link' = Append(link, Control("close"))
    BY <1>18 DEF SendClose, SendControl, Writable
  <2>2. Forwarded' = Forwarded
    BY <1>18 DEF SendClose, Forwarded
  <2>3. InOrder(link, Len(peer.got), Forwarded) =>
          InOrder(Append(link, Control("close")), Len(peer.got), Forwarded)
    BY <1>b, <1>c, AppendControl, FrameFacts
  <2>4. UNCHANGED <<chan, peer, client>>
    BY <1>18 DEF SendClose
  <2>5. sreader' = sreader \/ (sreader' = "done" /\ sreader = "close")
    BY <1>18 DEF SendClose
  <2> QED BY <1>a, <2>1, <2>2, <2>3, <2>4, <2>5 DEF UpInv
<1>19. CASE Gate
  BY <1>19, <1>a, <1>b DEF Gate, TakeOut, session, channel, UpInv, Forwarded, ClientType, PeerType
<1>20. CASE WriteSession
  <2>1. CASE chan = "up"
    <3>1. sreader = "send" /\ link' = Append(link, Data(client.read)) /\ sreader' = "check"
      BY <1>20, <2>1 DEF WriteSession, Written
    <3>2. Forwarded + 1 = client.read /\ Forwarded' = client.read
      BY <1>20, <1>b, <3>1 DEF Forwarded, WriteSession
    <3>3. InOrder(Append(link, Data(client.read)), Len(peer.got), client.read)
      BY <1>a, <1>b, <1>c, <2>1, <3>2, AppendChunk DEF UpInv
    <3>4. UNCHANGED <<chan, peer, client>>
      BY <1>20 DEF WriteSession
    <3> QED BY <1>a, <1>b, <1>c, <2>1, <3>1, <3>2, <3>3, <3>4 DEF UpInv
  <2>2. CASE chan # "up"
    BY <1>20, <1>a, <1>b, <2>2 DEF WriteSession, Written, Writable, UpInv, Forwarded
  <2> QED BY <2>1, <2>2
<1>21. CASE DropSession
  BY <1>21, <1>a, <1>b DEF DropSession, TakeOut, session, channel, UpInv, Forwarded, ClientType,
     PeerType
<1>22. CASE WakeGate
  BY <1>22, <1>a, <1>b DEF WakeGate, session, channel, UpInv, Forwarded, ClientType, PeerType
<1>23. CASE ReaderStops
  BY <1>23, <1>a, <1>b DEF ReaderStops, session, channel, UpInv, Forwarded, ClientType, PeerType
<1>24. CASE ReadClient
  BY <1>24, <1>a, <1>b DEF ReadClient, session, channel, UpInv, Forwarded, ClientType, PeerType
<1>25. CASE HeadFails
  BY <1>25, <1>a, <1>b DEF HeadFails, TakeOut, Spend, session, channel, UpInv, Forwarded,
     ClientType, PeerType
<1>26. CASE OtherEnters
  BY <1>26, <1>a, <1>b DEF OtherEnters, Spend, session, channel, UpInv, Forwarded, ClientType,
     PeerType
<1>27. CASE OtherLeaves
  BY <1>27, <1>a, <1>b DEF OtherLeaves, Written, session, channel, UpInv, Forwarded, ClientType,
     PeerType
<1>28. CASE CloseSocket
  BY <1>28, <1>a, <1>b DEF CloseSocket, Spend, session, channel, UpInv, Forwarded, ClientType,
     PeerType
<1>29. CASE PeerSends
  BY <1>29, <1>a, <1>b DEF PeerSends, session, channel, UpInv, Forwarded, ClientType, PeerType
<1>30. CASE PeerCloses
  BY <1>30, <1>a, <1>b DEF PeerCloses, Spend, session, channel, UpInv, Forwarded, ClientType,
     PeerType
<1>31. CASE PeerHolds
  BY <1>31, <1>a, <1>b DEF PeerHolds, Spend, session, channel, UpInv, Forwarded, ClientType,
     PeerType
<1>32. CASE PeerReleases
  BY <1>32, <1>a, <1>b DEF PeerReleases, session, channel, UpInv, Forwarded, ClientType, PeerType
<1>33. CASE PeerReads
  <2>1. /\ link # <<>> /\ link' = Tail(link)
        /\ UNCHANGED <<chan, sreader, client>>
    BY <1>33 DEF PeerReads
  <2>2. chan = "up" /\ InOrder(link, Len(peer.got), Forwarded) /\ Forwarded' = Forwarded
    BY <1>a, <2>1 DEF UpInv, Forwarded
  <2>3. CASE Head(link).type = "data"
    <3>1. peer'.got = Append(peer.got, Head(link).n)
      BY <1>33, <1>b, <2>3 DEF PeerReads, PeerType
    <3>2. Head(link).n \in Nat
      BY <1>b, <2>1, FrameFacts
    <3>3. Len(peer'.got) = Len(peer.got) + 1
      BY <1>b, <3>1, <3>2
    <3>4. Len(peer.got) < Forwarded /\ InOrder(Tail(link), Len(peer.got) + 1, Forwarded)
      BY <1>b, <1>c, <2>1, <2>2, <2>3, TakeChunk
    <3> QED BY <1>a, <1>b, <1>c, <2>1, <2>2, <3>3, <3>4 DEF UpInv
  <2>4. CASE Head(link).type # "data"
    <3>1. peer'.got = peer.got
      BY <1>33, <1>b, <2>4 DEF PeerReads, PeerType
    <3>2. InOrder(Tail(link), Len(peer.got), Forwarded)
      BY <1>b, <1>c, <2>1, <2>2, <2>4, TakeControl
    <3> QED BY <1>a, <2>1, <2>2, <3>1, <3>2 DEF UpInv
  <2> QED BY <2>3, <2>4
<1>34. CASE ClientGoes
  BY <1>34, <1>a, <1>b DEF ClientGoes, Spend, session, channel, UpInv, Forwarded, ClientType,
     PeerType
<1> QED
  BY <1>0, <1>1, <1>2, <1>3, <1>4, <1>5, <1>6, <1>7, <1>8, <1>9, <1>10, <1>11,
     <1>12, <1>13, <1>14, <1>15, <1>16, <1>17, <1>18, <1>19, <1>20, <1>21, <1>22, <1>23,
     <1>24, <1>25, <1>26, <1>27, <1>28, <1>29, <1>30, <1>31, <1>32, <1>33, <1>34, Steps

\* The worker's chunks stay in order.
LEMMA DownStep == IInv /\ [Next]_vars => DownInv'
<1> SUFFICES ASSUME IInv, [Next]_vars PROVE DownInv'
  OBVIOUS
<1>a. DownInv /\ EnderInv
  BY DEF IInv
<1>b. /\ wire \in Seq(Frame) /\ queue \in Seq(Nat) /\ reader \in ReaderType
      /\ writer \in WriterType /\ client \in ClientType /\ peer \in PeerType
      /\ client.got \in Seq(Nat) /\ Len(client.got) \in Nat /\ Len(queue) \in Nat
      /\ peer.sent \in Nat /\ reader.n \in Nat /\ writer.n \in Nat
  BY Types DEF IInv, ClientType, PeerType, ReaderType, WriterType
<1>c. Taken \in Nat /\ Staged \in Nat
  BY <1>b DEF Taken, Staged
<1>0. CASE UNCHANGED vars
  BY <1>0, <1>a, <1>b DEF vars, session, channel, DownInv, Taken, Staged, ReaderType, WriterType,
     ClientType, PeerType
<1>1. CASE MarkDead
  BY <1>1, <1>a, <1>b DEF MarkDead, WakeWriter, WakeSreader, session, channel, DownInv, Taken,
     Staged, ReaderType, WriterType, ClientType, PeerType
<1>2. CASE CloseClient
  BY <1>2, <1>a, <1>b DEF CloseClient, session, channel, DownInv, Taken, Staged, ReaderType,
     WriterType, ClientType, PeerType
<1>3. CASE OnData
  <2>1. /\ reader.at = "read" /\ chan = "up" /\ wire # <<>> /\ Head(wire).type = "data"
        /\ wire' = Tail(wire)
        /\ reader' = IF reg THEN [at |-> "push", n |-> Head(wire).n] ELSE reader
        /\ UNCHANGED <<chan, reg, ender, queue, writer, client, peer>>
    BY <1>3 DEF OnData, session
  <2>2. Taken' = Taken
    BY <2>1 DEF Taken
  <2>3. CASE ~reg
    BY <1>a, <2>1, <2>2, <2>3 DEF DownInv, Staged
  <2>4. CASE reg /\ writer.at # "done"
    <3>1. InOrder(wire, Staged, peer.sent) /\ Staged = Taken + Len(queue)
      BY <1>a, <2>1, <2>4 DEF DownInv, Staged
    <3>2. /\ Head(wire).n = Staged + 1 /\ Staged < peer.sent
          /\ InOrder(Tail(wire), Staged + 1, peer.sent)
      BY <1>b, <1>c, <2>1, <3>1, TakeChunk
    <3>3. reader'.at = "push" /\ reader'.n = Staged + 1
      BY <2>1, <2>4, <3>2
    <3>4. Staged' = Staged + 1
      BY <1>b, <2>1, <2>2, <3>1, <3>3 DEF Staged
    <3> QED BY <1>a, <1>b, <1>c, <2>1, <2>2, <2>4, <3>2, <3>3, <3>4 DEF DownInv
  <2>5. CASE writer.at = "done"
    BY <1>a, <2>1, <2>5 DEF DownInv
  <2> QED BY <2>3, <2>4, <2>5
<1>4. CASE Push
  <2>1. /\ reader.at = "push"
        /\ UNCHANGED <<wire, chan, reg, ender, client, peer>>
    BY <1>4 DEF Push, channel
  <2>2. /\ writer'.at = "write" <=> writer.at = "write"
        /\ writer'.at = "done" <=> writer.at = "done"
        /\ writer'.n = writer.n
    BY <1>4, <1>b DEF Push, WakeWriter, WriterType
  <2>3. Taken' = Taken
    BY <2>1, <2>2 DEF Taken
  <2>4. Staged = Taken + Len(queue) + 1
    BY <2>1 DEF Staged
  <2>5. CASE queue' = queue /\ reader'.at # "push" /\ (~reg \/ reader'.at = "overflow")
    <3>1. Staged' = Taken + Len(queue)
      BY <2>3, <2>5 DEF Staged
    <3> QED BY <1>a, <1>b, <1>c, <2>1, <2>2, <2>3, <2>4, <2>5, <3>1 DEF DownInv
  <2>6. CASE queue' = Append(queue, reader.n) /\ reader'.at \notin {"push", "overflow"}
    <3>1. Len(queue') = Len(queue) + 1
      BY <1>b, <2>6
    <3>2. Staged' = Staged
      BY <1>b, <1>c, <2>3, <2>4, <2>6, <3>1 DEF Staged
    <3>3. writer.at # "done" => reader.n = Staged
      BY <1>a, <2>1 DEF DownInv
    <3>4. ASSUME writer.at # "done", NEW i \in 1 .. Len(queue') PROVE queue'[i] = Taken + i
      <4>1. CASE i = Len(queue) + 1
        <5>1. queue'[i] = reader.n
          BY <1>b, <2>6, <4>1
        <5> QED BY <2>4, <3>3, <3>4, <4>1, <5>1, <1>b, <1>c
      <4>2. CASE i # Len(queue) + 1
        <5>1. i \in 1 .. Len(queue)
          BY <1>b, <3>1, <4>2
        <5>2. queue'[i] = queue[i]
          BY <1>b, <2>6, <5>1
        <5> QED BY <1>a, <3>4, <5>1, <5>2 DEF DownInv
      <4> QED BY <4>1, <4>2
    <3> QED BY <1>a, <2>1, <2>2, <2>3, <2>6, <3>2, <3>4 DEF DownInv
  <2>7. dead => ~reg
    BY <1>a DEF EnderInv
  <2>8. \/ queue' = queue /\ reader'.at # "push" /\ (~reg \/ reader'.at = "overflow")
        \/ queue' = Append(queue, reader.n) /\ reader'.at \notin {"push", "overflow"}
    BY <1>4, <2>7 DEF Push, session
  <2> QED BY <2>5, <2>6, <2>8
<1>5. CASE SendPause
  BY <1>5, <1>a, <1>b DEF SendPause, SendControl, Writable, session, channel, DownInv, Taken,
     Staged, ReaderType, WriterType, ClientType, PeerType
<1>6. CASE Overflow
  BY <1>6, <1>a, <1>b DEF Overflow, TakeOut, session, channel, DownInv, Taken, Staged, ReaderType,
     WriterType, ClientType, PeerType
<1>7. CASE OnClose
  <2>1. /\ reader.at = "read" /\ chan = "up" /\ wire # <<>> /\ Head(wire).type # "data"
        /\ wire' = Tail(wire)
        /\ reader'.at # "push" /\ (reg' => reg /\ reader'.at = "read")
        /\ UNCHANGED <<chan, queue, client, peer>>
    BY <1>7 DEF OnClose, TakeOut, session, channel
  <2>2. /\ writer'.at = "write" <=> writer.at = "write"
        /\ writer'.at = "done" <=> writer.at = "done"
        /\ writer'.n = writer.n
    BY <1>7, <1>b DEF OnClose, TakeOut, session, channel, WriterType
  <2>3. Taken' = Taken /\ Staged' = Staged
    BY <2>1, <2>2 DEF Taken, Staged
  <2>4. InOrder(wire, Staged, peer.sent) => InOrder(Tail(wire), Staged, peer.sent)
    BY <1>b, <1>c, <2>1, TakeControl
  <2> QED BY <1>a, <2>1, <2>2, <2>3, <2>4 DEF DownInv
<1>8. CASE Ended
  BY <1>8, <1>a, <1>b DEF Ended, session, channel, DownInv, Taken, Staged, ReaderType, WriterType,
     ClientType, PeerType
<1>9. CASE setPeerHold
  <2>1. /\ reader.at = "read" /\ chan = "up" /\ wire # <<>> /\ Head(wire).type # "data"
        /\ wire' = Tail(wire)
        /\ reader'.at # "push" /\ (reg' => reg /\ reader'.at = "read")
        /\ UNCHANGED <<chan, queue, client, peer>>
    BY <1>9 DEF setPeerHold, WakeWriter, WakeSreader, session, channel
  <2>2. /\ writer'.at = "write" <=> writer.at = "write"
        /\ writer'.at = "done" <=> writer.at = "done"
        /\ writer'.n = writer.n
    BY <1>9, <1>b DEF setPeerHold, WakeWriter, WakeSreader, session, channel, WriterType
  <2>3. Taken' = Taken /\ Staged' = Staged
    BY <2>1, <2>2 DEF Taken, Staged
  <2>4. InOrder(wire, Staged, peer.sent) => InOrder(Tail(wire), Staged, peer.sent)
    BY <1>b, <1>c, <2>1, TakeControl
  <2> QED BY <1>a, <2>1, <2>2, <2>3, <2>4 DEF DownInv
<1>10. CASE Dequeue
  <2>1. /\ writer.at = "check" /\ queue # <<>> /\ queue' = Tail(queue)
        /\ writer'.at = "write" /\ writer'.n = Head(queue)
        /\ UNCHANGED <<wire, chan, reg, reader, client, peer>>
    BY <1>10 DEF Dequeue, channel
  <2>2. Len(queue') = Len(queue) - 1 /\ Len(queue) > 0 /\ Head(queue) = queue[1]
        /\ \A i \in 1 .. Len(queue') : i + 1 \in 1 .. Len(queue) /\ queue'[i] = queue[i + 1]
    BY <1>b, <2>1
  <2>3. Taken = Len(client.got) /\ Taken' = Len(client.got) + 1
    BY <2>1 DEF Taken
  <2>4. Staged' = Staged
    BY <1>b, <2>1, <2>2, <2>3 DEF Staged
  <2>5. \A i \in 1 .. Len(queue) : queue[i] = Taken + i
    BY <1>a, <2>1 DEF DownInv
  <2>6. Head(queue) = Len(client.got) + 1
    BY <1>b, <2>2, <2>3, <2>5
  <2>7. \A i \in 1 .. Len(queue') : queue'[i] = Taken' + i
    BY <1>b, <2>2, <2>3, <2>5
  <2> QED BY <1>a, <2>1, <2>4, <2>6, <2>7 DEF DownInv
<1>11. CASE AwaitChunk
  BY <1>11, <1>a, <1>b DEF AwaitChunk, session, channel, DownInv, Taken, Staged, ReaderType,
     WriterType, ClientType, PeerType
<1>12. CASE WriteClient
  <2>1. /\ writer.at = "write" /\ writer'.at \in {"resume", "check"}
        /\ client' = [client EXCEPT !.got = Append(client.got, writer.n)]
        /\ UNCHANGED <<wire, chan, reg, reader, queue, peer>>
    BY <1>12 DEF WriteClient, channel, session
  <2>2. client'.got = Append(client.got, writer.n)
    BY <1>b, <2>1 DEF ClientType
  <2>3. Len(client'.got) = Len(client.got) + 1
    BY <1>b, <2>2
  <2>4. Taken' = Taken
    BY <2>1, <2>3 DEF Taken
  <2>5. Staged' = Staged
    BY <2>1, <2>4 DEF Staged
  <2> QED BY <1>a, <2>1, <2>4, <2>5 DEF DownInv
<1>13. CASE WriteFails
  BY <1>13, <1>a, <1>b DEF WriteFails, TakeOut, session, channel, DownInv, Taken, Staged,
     ReaderType, WriterType, ClientType, PeerType
<1>14. CASE SendResume
  BY <1>14, <1>a, <1>b DEF SendResume, SendControl, Writable, session, channel, DownInv, Taken,
     Staged, ReaderType, WriterType, ClientType, PeerType
<1>15. CASE RebuildHead
  BY <1>15, <1>a, <1>b DEF RebuildHead, session, channel, DownInv, Taken, Staged, ReaderType,
     WriterType, ClientType, PeerType
<1>16. CASE AwaitRelease
  BY <1>16, <1>a, <1>b DEF AwaitRelease, session, channel, DownInv, Taken, Staged, ReaderType,
     WriterType, ClientType, PeerType
<1>17. CASE ReadFails
  BY <1>17, <1>a, <1>b DEF ReadFails, session, channel, DownInv, Taken, Staged, ReaderType,
     WriterType, ClientType, PeerType
<1>18. CASE SendClose
  BY <1>18, <1>a, <1>b DEF SendClose, SendControl, Writable, TakeOut, session, channel, DownInv,
     Taken, Staged, ReaderType, WriterType, ClientType, PeerType
<1>19. CASE Gate
  BY <1>19, <1>a, <1>b DEF Gate, TakeOut, session, channel, DownInv, Taken, Staged, ReaderType,
     WriterType, ClientType, PeerType
<1>20. CASE WriteSession
  BY <1>20, <1>a, <1>b DEF WriteSession, TakeOut, Written, Writable, session, channel, DownInv,
     Taken, Staged, ReaderType, WriterType, ClientType, PeerType
<1>21. CASE DropSession
  BY <1>21, <1>a, <1>b DEF DropSession, TakeOut, session, channel, DownInv, Taken, Staged,
     ReaderType, WriterType, ClientType, PeerType
<1>22. CASE WakeGate
  BY <1>22, <1>a, <1>b DEF WakeGate, session, channel, DownInv, Taken, Staged, ReaderType,
     WriterType, ClientType, PeerType
<1>23. CASE ReaderStops
  BY <1>23, <1>a, <1>b DEF ReaderStops, session, channel, DownInv, Taken, Staged, ReaderType,
     WriterType, ClientType, PeerType
<1>24. CASE ReadClient
  BY <1>24, <1>a, <1>b DEF ReadClient, session, channel, DownInv, Taken, Staged, ReaderType,
     WriterType, ClientType, PeerType
<1>25. CASE HeadFails
  BY <1>25, <1>a, <1>b DEF HeadFails, TakeOut, Spend, session, channel, DownInv, Taken, Staged,
     ReaderType, WriterType, ClientType, PeerType
<1>26. CASE OtherEnters
  BY <1>26, <1>a, <1>b DEF OtherEnters, Spend, session, channel, DownInv, Taken, Staged,
     ReaderType, WriterType, ClientType, PeerType
<1>27. CASE OtherLeaves
  BY <1>27, <1>a, <1>b DEF OtherLeaves, Written, session, channel, DownInv, Taken, Staged,
     ReaderType, WriterType, ClientType, PeerType
<1>28. CASE CloseSocket
  BY <1>28, <1>a, <1>b DEF CloseSocket, Spend, session, channel, DownInv, Taken, Staged,
     ReaderType, WriterType, ClientType, PeerType
<1>29. CASE PeerSends
  <2>1. /\ chan = "up" /\ wire' = Append(wire, Data(peer.sent + 1))
        /\ peer' = [peer EXCEPT !.sent = peer.sent + 1]
        /\ UNCHANGED <<chan, reg, queue, reader, writer, client>>
    BY <1>29 DEF PeerSends, session
  <2>2. peer'.sent = peer.sent + 1
    BY <1>b, <2>1 DEF PeerType
  <2>3. Taken' = Taken /\ Staged' = Staged
    BY <2>1 DEF Taken, Staged
  <2>4. Staged <= peer.sent /\ InOrder(wire, Staged, peer.sent) =>
          InOrder(Append(wire, Data(peer.sent + 1)), Staged, peer.sent + 1)
    BY <1>b, <1>c, AppendChunk
  <2> QED BY <1>a, <1>b, <1>c, <2>1, <2>2, <2>3, <2>4 DEF DownInv
<1>30. CASE PeerCloses
  <2>1. /\ chan = "up" /\ wire' = Append(wire, Control("close"))
        /\ UNCHANGED <<chan, reg, queue, reader, writer, client>>
    BY <1>30 DEF PeerCloses, session
  <2>2. peer'.sent = peer.sent
    BY <1>30, <1>b DEF PeerCloses, PeerType
  <2>3. Taken' = Taken /\ Staged' = Staged
    BY <2>1 DEF Taken, Staged
  <2>4. InOrder(wire, Staged, peer.sent) =>
          InOrder(Append(wire, Control("close")), Staged, peer.sent)
    BY <1>b, <1>c, AppendControl, FrameFacts
  <2> QED BY <1>a, <2>1, <2>2, <2>3, <2>4 DEF DownInv
<1>31. CASE PeerHolds
  <2>1. /\ chan = "up" /\ wire' = Append(wire, Control("pause"))
        /\ UNCHANGED <<chan, reg, queue, reader, writer, client>>
    BY <1>31 DEF PeerHolds, session
  <2>2. peer'.sent = peer.sent
    BY <1>31, <1>b DEF PeerHolds, PeerType
  <2>3. Taken' = Taken /\ Staged' = Staged
    BY <2>1 DEF Taken, Staged
  <2>4. InOrder(wire, Staged, peer.sent) =>
          InOrder(Append(wire, Control("pause")), Staged, peer.sent)
    BY <1>b, <1>c, AppendControl, FrameFacts
  <2> QED BY <1>a, <2>1, <2>2, <2>3, <2>4 DEF DownInv
<1>32. CASE PeerReleases
  <2>1. /\ chan = "up" /\ wire' = Append(wire, Control("resume"))
        /\ UNCHANGED <<chan, reg, queue, reader, writer, client>>
    BY <1>32 DEF PeerReleases, session
  <2>2. peer'.sent = peer.sent
    BY <1>32, <1>b DEF PeerReleases, PeerType
  <2>3. Taken' = Taken /\ Staged' = Staged
    BY <2>1 DEF Taken, Staged
  <2>4. InOrder(wire, Staged, peer.sent) =>
          InOrder(Append(wire, Control("resume")), Staged, peer.sent)
    BY <1>b, <1>c, AppendControl, FrameFacts
  <2> QED BY <1>a, <2>1, <2>2, <2>3, <2>4 DEF DownInv
<1>33. CASE PeerReads
  BY <1>33, <1>a, <1>b DEF PeerReads, session, channel, DownInv, Taken, Staged, ReaderType,
     WriterType, ClientType, PeerType
<1>34. CASE ClientGoes
  BY <1>34, <1>a, <1>b DEF ClientGoes, Spend, session, channel, DownInv, Taken, Staged, ReaderType,
     WriterType, ClientType, PeerType
<1> QED
  BY <1>0, <1>1, <1>2, <1>3, <1>4, <1>5, <1>6, <1>7, <1>8, <1>9, <1>10, <1>11,
     <1>12, <1>13, <1>14, <1>15, <1>16, <1>17, <1>18, <1>19, <1>20, <1>21, <1>22, <1>23,
     <1>24, <1>25, <1>26, <1>27, <1>28, <1>29, <1>30, <1>31, <1>32, <1>33, <1>34, Steps

\* The invariant holds at first.
LEMMA InitIInv == Init => IInv
<1> SUFFICES ASSUME Init PROVE IInv
  OBVIOUS
<1>1. TypeOK
  <2>1. wire \in Seq(Frame) /\ link \in Seq(Frame) /\ queue \in Seq(Nat)
    BY EmptySeq DEF Init
  <2>2. pend \in Nat /\ other \in Nat /\ budget \in Nat
    BY Limits DEF Init
  <2>3. /\ reader \in [at : ReaderPC, n : Nat]
        /\ writer \in [at : WriterPC, n : Nat, resume : BOOLEAN]
        /\ sreader \in SreaderPC
    BY DEF Init, ReaderPC, WriterPC, SreaderPC
  <2>4. /\ client \in [read : Nat, gone : BOOLEAN, closed : BOOLEAN, err : BOOLEAN, got : Seq(Nat)]
        /\ peer \in [sent : Nat, paused : BOOLEAN, holds : BOOLEAN, got : Seq(Nat)]
    BY EmptySeq DEF Init
  <2>5. /\ chan \in {"up", "closed", "dead"} /\ ender \in {"no", "removed", "dead", "done"}
        /\ {paused, peerHold, dead, wrote, reg} \subseteq BOOLEAN
    BY DEF Init
  <2> QED BY <2>1, <2>2, <2>3, <2>4, <2>5 DEF TypeOK
<1>2. PendIsExact /\ EnderInv /\ PauseIsOwed /\ AnswerInv /\ NoLostWakeup
  BY Limits DEF Init, PendIsExact, EnderInv, PauseIsOwed, AnswerInv, NoLostWakeup
<1>3. UpInv
  BY EmptyInOrder DEF Init, UpInv, Forwarded
<1>4. DownInv
  BY EmptyInOrder DEF Init, DownInv, Taken, Staged
<1> QED BY <1>1, <1>2, <1>3, <1>4 DEF IInv

\* The inductive invariant of a session.
THEOREM SpecIInv == Spec => []IInv
<1>1. IInv /\ [Next]_vars => IInv'
  BY TypeStep, PendStep, EnderStep, PauseStep, AnswerStep, WakeStep, UpStep, DownStep DEF IInv
<1> QED BY InitIInv, <1>1, PTL DEF Spec

\* The session's fields are well typed; the bytes in flight never go below
\* zero (vscSession, vscChannel).
THEOREM TypeCorrect == Spec => []TypeOK
<1>1. IInv => TypeOK
  BY DEF IInv
<1> QED BY <1>1, SpecIInv, PTL

\* A queue above the high water has asked for a pause, which it will take
\* back, and the queue stays below its cap (push, writeLoop).
THEOREM PauseOwed == Spec => []PauseIsOwed
<1>1. IInv => PauseIsOwed
  BY DEF IInv
<1> QED BY <1>1, SpecIInv, PTL

\* A client gets the backend's answer or the 502, never both (endSession).
THEOREM ErrorAlone == Spec => []ErrorStandsAlone
<1>1. IInv => ErrorStandsAlone
  BY DEF IInv, AnswerInv, ErrorStandsAlone
<1> QED BY <1>1, SpecIInv, PTL

\* No goroutine sleeps through the change it waits for, so every Broadcast
\* is where it has to be (push, setPeerHold, writeSession, endSession).
THEOREM NobodySleeps == Spec => []NoLostWakeup
<1>1. IInv => NoLostWakeup
  BY DEF IInv
<1> QED BY <1>1, SpecIInv, PTL

\* The channel's count of chunks in flight is exact, whichever way each
\* write ends (writeSession).
THEOREM FlightIsCounted == Spec => []PendIsExact
<1>1. IInv => PendIsExact
  BY DEF IInv
<1> QED BY <1>1, SpecIInv, PTL

----------------------------------------------------------------------------
(* The steps are those of ByteStream.                                      *)

Counts == <<peer.sent, client.read, client.got, peer.got>>

\* A step that moves no chunk between the ends is a stutter of ByteStream.
LEMMA StreamStutter ==
  ASSUME UNCHANGED Counts, reg' = reg
  PROVE UNCHANGED Streams!streamVars
  BY DEF Counts, Streams!streamVars

\* The end of a session is Close.
LEMMA StreamCloses ==
  ASSUME UNCHANGED Counts, reg = TRUE, reg' = FALSE
  PROVE Streams!Next
<1>1. Streams!Close
  BY DEF Counts, Streams!Close
<1> QED BY <1>1 DEF Streams!Next

\* A chunk the backend sends.
LEMMA StreamSendsDown ==
  ASSUME peer'.sent = peer.sent + 1,
         UNCHANGED <<client.read, client.got, peer.got, reg>>
  PROVE Streams!Next
<1>1. Streams!Send("down")
  BY DEF Streams!Send
<1> QED BY <1>1 DEF Streams!Next

\* A chunk the client sends.
LEMMA StreamSendsUp ==
  ASSUME client'.read = client.read + 1,
         UNCHANGED <<peer.sent, client.got, peer.got, reg>>
  PROVE Streams!Next
<1>1. Streams!Send("up")
  BY DEF Streams!Send
<1> QED BY <1>1 DEF Streams!Next

\* A chunk the client gets.
LEMMA StreamDeliversDown ==
  ASSUME client'.got = Append(client.got, Len(client.got) + 1), Len(client.got) < peer.sent,
         UNCHANGED <<peer.sent, client.read, peer.got, reg>>
  PROVE Streams!Next
<1>1. Streams!Deliver("down")
  BY DEF Streams!Deliver
<1> QED BY <1>1 DEF Streams!Next

\* A chunk the backend gets.
LEMMA StreamDeliversUp ==
  ASSUME peer'.got = Append(peer.got, Len(peer.got) + 1), Len(peer.got) < client.read,
         UNCHANGED <<peer.sent, client.read, client.got, reg>>
  PROVE Streams!Next
<1>1. Streams!Deliver("up")
  BY DEF Streams!Deliver
<1> QED BY <1>1 DEF Streams!Next

\* Every step is a step of a byte stream or none.
LEMMA StreamStep == IInv /\ [Next]_vars => [Streams!Next]_(Streams!streamVars)
<1> SUFFICES ASSUME IInv, [Next]_vars PROVE [Streams!Next]_(Streams!streamVars)
  OBVIOUS
<1>a. client \in ClientType /\ peer \in PeerType /\ reg \in BOOLEAN
  BY Types DEF IInv, TypeOK
<1>0. CASE UNCHANGED vars
  BY <1>0, StreamStutter DEF vars, session, channel, Counts
<1>1. CASE MarkDead
  <2>1. UNCHANGED Counts /\ reg' = reg
    BY <1>1, <1>a DEF MarkDead, WakeWriter, WakeSreader, session, channel, Counts, ClientType,
       PeerType
  <2> QED BY <2>1, StreamStutter
<1>2. CASE CloseClient
  <2>1. UNCHANGED Counts /\ reg' = reg
    BY <1>2, <1>a DEF CloseClient, session, channel, Counts, ClientType, PeerType
  <2> QED BY <2>1, StreamStutter
<1>3. CASE OnData
  <2>1. UNCHANGED Counts /\ reg' = reg
    BY <1>3, <1>a DEF OnData, session, channel, Counts, ClientType, PeerType
  <2> QED BY <2>1, StreamStutter
<1>4. CASE Push
  <2>1. UNCHANGED Counts /\ reg' = reg
    BY <1>4, <1>a DEF Push, WakeWriter, WakeSreader, session, channel, Counts, ClientType, PeerType
  <2> QED BY <2>1, StreamStutter
<1>5. CASE SendPause
  <2>1. UNCHANGED Counts /\ reg' = reg
    BY <1>5, <1>a DEF SendPause, SendControl, Writable, session, channel, Counts, ClientType,
       PeerType
  <2> QED BY <2>1, StreamStutter
<1>6. CASE Overflow
  <2>1. UNCHANGED Counts
    BY <1>6 DEF Overflow, TakeOut, session, channel, Counts
  <2>2. reg' = reg \/ (reg = TRUE /\ reg' = FALSE)
    BY <1>6, <1>a DEF Overflow, TakeOut, session, channel
  <2> QED BY <2>1, <2>2, StreamStutter, StreamCloses
<1>7. CASE OnClose
  <2>1. UNCHANGED Counts
    BY <1>7 DEF OnClose, TakeOut, session, channel, Counts
  <2>2. reg' = reg \/ (reg = TRUE /\ reg' = FALSE)
    BY <1>7, <1>a DEF OnClose, TakeOut, session, channel
  <2> QED BY <2>1, <2>2, StreamStutter, StreamCloses
<1>8. CASE Ended
  <2>1. UNCHANGED Counts /\ reg' = reg
    BY <1>8, <1>a DEF Ended, session, channel, Counts, ClientType, PeerType
  <2> QED BY <2>1, StreamStutter
<1>9. CASE setPeerHold
  <2>1. UNCHANGED Counts /\ reg' = reg
    BY <1>9, <1>a DEF setPeerHold, WakeWriter, WakeSreader, session, channel, Counts, ClientType,
       PeerType
  <2> QED BY <2>1, StreamStutter
<1>10. CASE Dequeue
  <2>1. UNCHANGED Counts /\ reg' = reg
    BY <1>10, <1>a DEF Dequeue, session, channel, Counts, ClientType, PeerType
  <2> QED BY <2>1, StreamStutter
<1>11. CASE AwaitChunk
  <2>1. UNCHANGED Counts /\ reg' = reg
    BY <1>11, <1>a DEF AwaitChunk, session, channel, Counts, ClientType, PeerType
  <2> QED BY <2>1, StreamStutter
<1>12. CASE WriteClient
  <2>1. /\ client' = [client EXCEPT !.got = Append(client.got, writer.n)]
        /\ writer.at = "write" /\ UNCHANGED <<peer, reg>>
    BY <1>12 DEF WriteClient
  <2>2. client'.got = Append(client.got, writer.n) /\ client'.read = client.read
    BY <1>a, <2>1 DEF ClientType
  <2>3. writer.n = Len(client.got) + 1 /\ Staged <= peer.sent
    BY <2>1 DEF IInv, DownInv
  <2>4. Len(client.got) \in Nat /\ Len(queue) \in Nat /\ peer.sent \in Nat
    BY <1>a, Types DEF IInv, ClientType, PeerType
  <2>5. Len(client.got) < peer.sent
    BY <2>1, <2>3, <2>4 DEF Staged, Taken
  <2> QED BY <2>1, <2>2, <2>3, <2>5, StreamDeliversDown
<1>13. CASE WriteFails
  <2>1. UNCHANGED Counts
    BY <1>13 DEF WriteFails, TakeOut, session, channel, Counts
  <2>2. reg' = reg \/ (reg = TRUE /\ reg' = FALSE)
    BY <1>13, <1>a DEF WriteFails, TakeOut, session, channel
  <2> QED BY <2>1, <2>2, StreamStutter, StreamCloses
<1>14. CASE SendResume
  <2>1. UNCHANGED Counts /\ reg' = reg
    BY <1>14, <1>a DEF SendResume, SendControl, Writable, session, channel, Counts, ClientType,
       PeerType
  <2> QED BY <2>1, StreamStutter
<1>15. CASE RebuildHead
  <2>1. client' = [client EXCEPT !.read = 1] /\ UNCHANGED <<peer, reg>>
    BY <1>15 DEF RebuildHead
  <2>2. client.read = 0
    BY <1>15 DEF RebuildHead, IInv, UpInv
  <2>3. client'.read = client.read + 1 /\ client'.got = client.got
    BY <1>a, <2>1, <2>2 DEF ClientType
  <2> QED BY <2>1, <2>3, StreamSendsUp
<1>16. CASE AwaitRelease
  <2>1. UNCHANGED Counts /\ reg' = reg
    BY <1>16, <1>a DEF AwaitRelease, session, channel, Counts, ClientType, PeerType
  <2> QED BY <2>1, StreamStutter
<1>17. CASE ReadFails
  <2>1. UNCHANGED Counts /\ reg' = reg
    BY <1>17, <1>a DEF ReadFails, session, channel, Counts, ClientType, PeerType
  <2> QED BY <2>1, StreamStutter
<1>18. CASE SendClose
  <2>1. UNCHANGED Counts
    BY <1>18 DEF SendClose, SendControl, Writable, TakeOut, session, channel, Counts
  <2>2. reg' = reg \/ (reg = TRUE /\ reg' = FALSE)
    BY <1>18, <1>a DEF SendClose, SendControl, Writable, TakeOut, session, channel
  <2> QED BY <2>1, <2>2, StreamStutter, StreamCloses
<1>19. CASE Gate
  <2>1. UNCHANGED Counts
    BY <1>19 DEF Gate, TakeOut, session, channel, Counts
  <2>2. reg' = reg \/ (reg = TRUE /\ reg' = FALSE)
    BY <1>19, <1>a DEF Gate, TakeOut, session, channel
  <2> QED BY <2>1, <2>2, StreamStutter, StreamCloses
<1>20. CASE WriteSession
  <2>1. UNCHANGED Counts
    BY <1>20 DEF WriteSession, TakeOut, Written, Writable, session, channel, Counts
  <2>2. reg' = reg \/ (reg = TRUE /\ reg' = FALSE)
    BY <1>20, <1>a DEF WriteSession, TakeOut, Written, Writable, session, channel
  <2> QED BY <2>1, <2>2, StreamStutter, StreamCloses
<1>21. CASE DropSession
  <2>1. UNCHANGED Counts
    BY <1>21 DEF DropSession, TakeOut, session, channel, Counts
  <2>2. reg' = reg \/ (reg = TRUE /\ reg' = FALSE)
    BY <1>21, <1>a DEF DropSession, TakeOut, session, channel
  <2> QED BY <2>1, <2>2, StreamStutter, StreamCloses
<1>22. CASE WakeGate
  <2>1. UNCHANGED Counts /\ reg' = reg
    BY <1>22, <1>a DEF WakeGate, session, channel, Counts, ClientType, PeerType
  <2> QED BY <2>1, StreamStutter
<1>23. CASE ReaderStops
  <2>1. UNCHANGED Counts /\ reg' = reg
    BY <1>23, <1>a DEF ReaderStops, session, channel, Counts, ClientType, PeerType
  <2> QED BY <2>1, StreamStutter
<1>24. CASE ReadClient
  <2>1. client' = [client EXCEPT !.read = client.read + 1] /\ UNCHANGED <<peer, reg>>
    BY <1>24 DEF ReadClient
  <2>2. client'.read = client.read + 1 /\ client'.got = client.got
    BY <1>a, <2>1 DEF ClientType
  <2> QED BY <2>1, <2>2, StreamSendsUp
<1>25. CASE HeadFails
  <2>1. UNCHANGED Counts
    BY <1>25 DEF HeadFails, TakeOut, Spend, session, channel, Counts
  <2>2. reg' = reg \/ (reg = TRUE /\ reg' = FALSE)
    BY <1>25, <1>a DEF HeadFails, TakeOut, Spend, session, channel
  <2> QED BY <2>1, <2>2, StreamStutter, StreamCloses
<1>26. CASE OtherEnters
  <2>1. UNCHANGED Counts /\ reg' = reg
    BY <1>26, <1>a DEF OtherEnters, Spend, session, channel, Counts, ClientType, PeerType
  <2> QED BY <2>1, StreamStutter
<1>27. CASE OtherLeaves
  <2>1. UNCHANGED Counts /\ reg' = reg
    BY <1>27, <1>a DEF OtherLeaves, Written, session, channel, Counts, ClientType, PeerType
  <2> QED BY <2>1, StreamStutter
<1>28. CASE CloseSocket
  <2>1. UNCHANGED Counts /\ reg' = reg
    BY <1>28, <1>a DEF CloseSocket, Spend, session, channel, Counts, ClientType, PeerType
  <2> QED BY <2>1, StreamStutter
<1>29. CASE PeerSends
  <2>1. peer' = [peer EXCEPT !.sent = peer.sent + 1] /\ UNCHANGED <<client, reg>>
    BY <1>29 DEF PeerSends
  <2>2. peer'.sent = peer.sent + 1 /\ peer'.got = peer.got
    BY <1>a, <2>1 DEF PeerType
  <2> QED BY <2>1, <2>2, StreamSendsDown
<1>30. CASE PeerCloses
  <2>1. UNCHANGED Counts /\ reg' = reg
    BY <1>30, <1>a DEF PeerCloses, Spend, session, channel, Counts, ClientType, PeerType
  <2> QED BY <2>1, StreamStutter
<1>31. CASE PeerHolds
  <2>1. UNCHANGED Counts /\ reg' = reg
    BY <1>31, <1>a DEF PeerHolds, Spend, session, channel, Counts, ClientType, PeerType
  <2> QED BY <2>1, StreamStutter
<1>32. CASE PeerReleases
  <2>1. UNCHANGED Counts /\ reg' = reg
    BY <1>32, <1>a DEF PeerReleases, session, channel, Counts, ClientType, PeerType
  <2> QED BY <2>1, StreamStutter
<1>33. CASE PeerReads
  <2>1. link # <<>> /\ UNCHANGED <<client, reg>> /\ peer'.sent = peer.sent
    BY <1>33, <1>a DEF PeerReads, PeerType
  <2>2. CASE Head(link).type = "data"
    <3>1. peer'.got = Append(peer.got, Head(link).n)
      BY <1>33, <1>a, <2>2 DEF PeerReads, PeerType
    <3>2. /\ Len(peer.got) \in Nat /\ client.read \in Nat /\ link \in Seq(Frame)
          /\ Forwarded \in Nat /\ Forwarded <= client.read
      BY <1>a, Types DEF IInv, UpInv, Forwarded, ClientType, PeerType
    <3>3. InOrder(link, Len(peer.got), Forwarded)
      BY <2>1 DEF IInv, UpInv
    <3>4. Head(link).n = Len(peer.got) + 1 /\ Len(peer.got) < Forwarded
      BY <2>1, <2>2, <3>2, <3>3, TakeChunk
    <3>5. Len(peer.got) < client.read
      BY <3>2, <3>4
    <3> QED BY <2>1, <3>1, <3>4, <3>5, StreamDeliversUp
  <2>3. CASE Head(link).type # "data"
    <3>1. peer'.got = peer.got
      BY <1>33, <1>a, <2>3 DEF PeerReads, PeerType
    <3>2. UNCHANGED Counts /\ reg' = reg
      BY <2>1, <3>1 DEF Counts
    <3> QED BY <3>2, StreamStutter
  <2> QED BY <2>2, <2>3
<1>34. CASE ClientGoes
  <2>1. UNCHANGED Counts /\ reg' = reg
    BY <1>34, <1>a DEF ClientGoes, Spend, session, channel, Counts, ClientType, PeerType
  <2> QED BY <2>1, StreamStutter
<1> QED
  BY <1>0, <1>1, <1>2, <1>3, <1>4, <1>5, <1>6, <1>7, <1>8, <1>9, <1>10, <1>11,
     <1>12, <1>13, <1>14, <1>15, <1>16, <1>17, <1>18, <1>19, <1>20, <1>21, <1>22, <1>23,
     <1>24, <1>25, <1>26, <1>27, <1>28, <1>29, <1>30, <1>31, <1>32, <1>33, <1>34, Steps

\* Whatever is lost, held back or cut off, a session's steps are those of a
\* pair of byte streams: chunks arrive in order, none twice and none left out
\* (vscrelay.go: readLoop, push, writeLoop, writeSession, endSession).
THEOREM ImplementsStreams == Spec => Streams!Init /\ [][Streams!Next]_(Streams!streamVars)
<1>1. Init => Streams!Init
  BY DEF Init, Streams!Init
<1> QED BY <1>1, SpecIInv, StreamStep, PTL DEF Spec

=============================================================================
