--------------------------- MODULE WsTunnelProofs ---------------------------
(***************************************************************************)
(* WsTunnel for any windows, any chunk size and any amount of data: a      *)
(* request is answered once, and what a destination has got are the first  *)
(* chunks of its source, all of them when the direction ended cleanly.     *)
(***************************************************************************)
EXTENDS WsTunnel, SequenceTheorems, TLAPS

AtPC == {"start", "dial", "write", "read", "hijack", "say", "drainDown", "drainUp",
         "next", "first", "second", "done"}
Answer == {"next", "status", "502", "500", "101"}
Peer == {"client", "backend"}
CopyType == [at : CopyPC, pipe : Seq(Nat), n : Nat, before : Nat, age : Nat,
             strikes : Nat, why : Reason]

\* Before and after the client was told 101.
Before == {"start", "dial", "write", "read", "hijack", "say", "next"}
Running == {"first", "second"}
After == {"drainDown", "drainUp"} \cup Running

\* A request is answered once, and no byte is forwarded unless by 101.
ToldInv ==
  /\ at \in Before => told = <<>>
  /\ at \in After => told = <<"101">>
  /\ at = "done" => Len(told) <= 1
  /\ \A d \in Dir : got[d] # <<>> \/ copy[d].at # "off" => told = <<"101">>

\* The goroutines run after both directions were drained.
PhaseInv ==
  \A d \in Dir :
    /\ copy[d].at # "off" => at \in Running \cup {"done"}
    /\ at \in Running => copy[d].at # "off"
    /\ copy[d].at \in {"off"} \cup Copying => copy[d].why = None

\* A direction whose bytes of the handshake are still to be forwarded.
ToDrain(d) == at \in Before \cup {"drainDown"} \/ (at = "drainUp" /\ d = "up")

Counts(s, n) == Len(s) = n /\ \A i \in 1 .. Len(s) : s[i] = i

\* Where the chunks of a direction are.
DataOf(d) ==
  /\ \A i \in 1 .. Len(got[d]) : got[d][i] = i
  /\ ToDrain(d) => got[d] = <<>> /\ Counts(ahead[d], read[d])
  /\ at = "drainUp" /\ d = "down" => Len(got[d]) = read[d]
  /\ copy[d].pipe = <<>> \/ (copy[d].at = "copy" /\ copy[d].pipe = <<read[d]>>)
  /\ copy[d].at \in Copying => Len(got[d]) + Len(copy[d].pipe) = read[d]
  /\ copy[d].at \in {"ending", "done"} /\ copy[d].why = None =>
       fin[d] /\ read[d] = sent[d] /\ Len(got[d]) = read[d]

DataInv == \A d \in Dir : DataOf(d)

IInv == TypeOK /\ ToldInv /\ PhaseInv /\ DataInv

----------------------------------------------------------------------------
(* Sequences of chunks.                                                    *)

\* A prefix of a sequence.
LEMMA Prefix ==
  ASSUME NEW s \in Seq(Nat), NEW k \in 0 .. Len(s)
  PROVE /\ <<>> \o SubSeq(s, 1, k) \in Seq(Nat)
        /\ Len(<<>> \o SubSeq(s, 1, k)) = k
        /\ \A i \in 1 .. k : (<<>> \o SubSeq(s, 1, k))[i] = s[i]
<1>1. SubSeq(s, 1, k) \in Seq(Nat)
  BY SubSeqProperties
<1>2. Len(SubSeq(s, 1, k)) = k /\ \A i \in 1 .. k : SubSeq(s, 1, k)[i] = s[i]
  BY SubSeqProperties
<1>3. <<>> \o SubSeq(s, 1, k) = SubSeq(s, 1, k)
  BY <1>1, ConcatEmptySeq
<1> QED BY <1>1, <1>2, <1>3

\* A sequence with one element more.
LEMMA OneMore ==
  ASSUME NEW s \in Seq(Nat), NEW x \in Nat
  PROVE /\ s \o <<x>> \in Seq(Nat)
        /\ Len(s \o <<x>>) = Len(s) + 1
        /\ \A i \in 1 .. Len(s) : (s \o <<x>>)[i] = s[i]
        /\ (s \o <<x>>)[Len(s) + 1] = x
  OBVIOUS

----------------------------------------------------------------------------
(* Types.                                                                  *)

\* TypeOK with the types of this module.
LEMMA Types ==
  TypeOK <=>
    /\ at \in AtPC
    /\ asked \in Nat
    /\ told \in Seq(Answer)
    /\ sent \in [Dir -> Nat]
    /\ read \in [Dir -> Nat]
    /\ ahead \in [Dir -> Seq(Nat)]
    /\ got \in [Dir -> Seq(Nat)]
    /\ fin \in [Dir -> BOOLEAN]
    /\ reset \in SUBSET Peer
    /\ closed \in SUBSET Peer
    /\ copy \in [Dir -> CopyType]
    /\ count \in [Dir -> Nat]
    /\ endc \in Seq(Dir)
    /\ quiet \in Nat
    /\ budget \in Nat
  BY DEF TypeOK, AtPC, Answer, Peer, CopyType

\* What a step has to show for TypeOK.
LEMMA Retype ==
  ASSUME at' \in AtPC,
         asked' \in Nat,
         told' \in Seq(Answer),
         sent' \in [Dir -> Nat],
         read' \in [Dir -> Nat],
         ahead' \in [Dir -> Seq(Nat)],
         got' \in [Dir -> Seq(Nat)],
         fin' \in [Dir -> BOOLEAN],
         reset' \in SUBSET Peer,
         closed' \in SUBSET Peer,
         copy' \in [Dir -> CopyType],
         count' \in [Dir -> Nat],
         endc' \in Seq(Dir),
         quiet' \in Nat,
         budget' \in Nat
  PROVE TypeOK'
  BY DEF TypeOK, AtPC, Answer, Peer, CopyType

\* The two directions.
LEMMA DirFacts == "up" \in Dir /\ "down" \in Dir /\ \A d \in Dir : Other(d) \in Dir
  BY DEF Dir, Other

\* Both ends of a direction are peers.
LEMMA PeerFacts == \A d \in Dir : Src(d) \in Peer /\ Dst(d) \in Peer
  BY DEF Dir, Src, Dst, Other, Peer

\* The empty pipe is a sequence of chunks.
LEMMA EmptyPipe == <<>> \in Seq(Nat)
  OBVIOUS

\* A record of CopyType stays one.
LEMMA Recopy ==
  ASSUME NEW c \in CopyType
  PROVE /\ \A pc \in CopyPC : [c EXCEPT !.at = pc] \in CopyType
        /\ \A q \in Seq(Nat) : [c EXCEPT !.pipe = q] \in CopyType
        /\ \A k \in Nat : [c EXCEPT !.n = k] \in CopyType
        /\ \A k \in Nat : [c EXCEPT !.before = k] \in CopyType
        /\ \A k \in Nat : [c EXCEPT !.age = k] \in CopyType
        /\ \A k \in Nat : [c EXCEPT !.strikes = k] \in CopyType
        /\ \A w \in Reason : [c EXCEPT !.why = w] \in CopyType
        /\ c.at \in CopyPC /\ c.pipe \in Seq(Nat) /\ c.why \in Reason
        /\ c.n \in Nat /\ c.strikes \in Nat /\ c.age \in Nat
<1> USE DEF CopyType
<1>1. \A pc \in CopyPC : [c EXCEPT !.at = pc] \in CopyType
  OBVIOUS
<1>2. \A q \in Seq(Nat) : [c EXCEPT !.pipe = q] \in CopyType
  OBVIOUS
<1>3. \A k \in Nat : [c EXCEPT !.n = k] \in CopyType
  OBVIOUS
<1>4. \A k \in Nat : [c EXCEPT !.before = k] \in CopyType
  OBVIOUS
<1>5. \A k \in Nat : [c EXCEPT !.age = k] \in CopyType
  OBVIOUS
<1>6. \A k \in Nat : [c EXCEPT !.strikes = k] \in CopyType
  OBVIOUS
<1>7. \A w \in Reason : [c EXCEPT !.why = w] \in CopyType
  OBVIOUS
<1>8. /\ c.at \in CopyPC /\ c.pipe \in Seq(Nat) /\ c.why \in Reason
      /\ c.n \in Nat /\ c.strikes \in Nat /\ c.age \in Nat
  OBVIOUS
<1> HIDE DEF CopyType
<1> QED BY <1>1, <1>2, <1>3, <1>4, <1>5, <1>6, <1>7, <1>8

\* The control points and reasons of a copy by name.
LEMMA Places ==
  /\ "round" \in CopyPC /\ "copy" \in CopyPC /\ "judge" \in CopyPC
  /\ "ending" \in CopyPC /\ "done" \in CopyPC /\ "off" \in CopyPC
  /\ None \in Reason /\ "idle" \in Reason /\ "stalled" \in Reason /\ "error" \in Reason
  BY DEF CopyPC, Copying, Reason

\* A copy that has not begun, and one that begins.
LEMMA IdleType == Idle \in CopyType /\ [Idle EXCEPT !.at = "round"] \in CopyType
<1>1. Idle \in CopyType
  BY EmptyPipe, Places DEF Idle, CopyType
<1> QED BY <1>1, Places, Recopy

\* A goroutine's fields are well typed, and only its own change.
LEMMA CopyTyped ==
  ASSUME copy \in [Dir -> CopyType], NEW d \in Dir, NEW c \in CopyType, Copy(d, c)
  PROVE /\ copy' \in [Dir -> CopyType]
        /\ copy'[d] = c /\ \A e \in Dir : e # d => copy'[e] = copy[e]
  BY DEF Copy

\* Return ends a round or the goroutine.
LEMMA Returns ==
  ASSUME copy \in [Dir -> CopyType], count \in [Dir -> Nat], NEW d \in Dir,
         NEW pc \in {"judge", "ending"}, NEW why \in Reason, Return(d, pc, why)
  PROVE /\ copy' \in [Dir -> CopyType] /\ count' \in [Dir -> Nat]
        /\ copy'[d].at = pc /\ copy'[d].why = why /\ copy'[d].pipe = <<>>
        /\ \A e \in Dir : e # d => copy'[e] = copy[e]
        /\ UNCHANGED <<at, asked, told, ahead, sent, fin, reset, closed, endc, budget,
                       read, got, quiet>>
<1> DEFINE c == [copy[d] EXCEPT !.at = pc, !.why = why, !.pipe = <<>>]
<1>1. copy[d] \in CopyType
  OBVIOUS
<1>2. c = [[[copy[d] EXCEPT !.at = pc] EXCEPT !.why = why] EXCEPT !.pipe = <<>>]
  OBVIOUS
<1>c. c \in CopyType
  <2>1. [copy[d] EXCEPT !.at = pc] \in CopyType
    BY <1>1, Recopy, Places
  <2>2. [[copy[d] EXCEPT !.at = pc] EXCEPT !.why = why] \in CopyType
    BY <2>1, Recopy
  <2> HIDE DEF c
  <2> QED BY <1>2, <2>2, EmptyPipe, Recopy
<1>3. c \in CopyType /\ c.at = pc /\ c.why = why /\ c.pipe = <<>>
  <2>1. c.at = pc /\ c.why = why
    BY <1>1 DEF CopyType
  <2>2. c.pipe = <<>>
    BY <1>1 DEF CopyType
  <2> QED BY <1>c, <2>1, <2>2
<1>4. Copy(d, c)
  BY DEF Return
<1>5. count' \in [Dir -> Nat]
  <2>1. copy[d].n \in Nat
    BY <1>1 DEF CopyType
  <2> QED BY <2>1 DEF Return
<1>6. UNCHANGED <<at, asked, told, ahead, sent, fin, reset, closed, endc, budget, read, got, quiet>>
  BY DEF Return, Outside, handshake, peers
<1> HIDE DEF c
<1> QED BY <1>3, <1>4, <1>5, <1>6, CopyTyped

\* Answers are sequences of at most one.
LEMMA Strings == <<"101">> # <<>> /\ Len(<<>>) = 0
  OBVIOUS

\* No answer is at most one.
LEMMA NoneAnswered == Len(<<>>) <= 1
  OBVIOUS

\* One answer is at most one.
LEMMA OneAnswered ==
  /\ Len(<<"101">>) <= 1 /\ Len(<<"500">>) <= 1 /\ Len(<<"next">>) <= 1
  /\ Len(<<"status">>) <= 1 /\ Len(<<"502">>) <= 1
  OBVIOUS

\* What a step of a goroutine does to it.
LEMMA Goroutine ==
  ASSUME copy \in [Dir -> CopyType], NEW d \in Dir
  PROVE /\ Round(d) => /\ copy[d].at = "round" /\ copy'[d].at = "copy"
                       /\ copy'[d].why = copy[d].why /\ copy'[d].pipe = copy[d].pipe
        /\ Read(d) => /\ copy[d].at = "copy" /\ copy'[d].at = "copy" /\ copy[d].pipe = <<>>
                      /\ copy'[d].why = copy[d].why /\ copy'[d].pipe = <<read[d] + 1>>
        /\ Write(d) => /\ copy[d].at = "copy" /\ copy'[d].at \in {"round", "copy"}
                       /\ copy[d].pipe # <<>>
                       /\ copy'[d].why = copy[d].why /\ copy'[d].pipe = <<>>
        /\ Judge(d) => /\ copy[d].at = "judge" /\ copy'[d].pipe = copy[d].pipe
                       /\ \/ copy'[d].at = "ending" /\ copy'[d].why = "idle"
                          \/ copy'[d].at = "round" /\ copy'[d].why = copy[d].why
        /\ Report(d) => /\ copy[d].at = "ending" /\ copy'[d].at = "done"
                        /\ copy'[d].why = copy[d].why /\ copy'[d].pipe = copy[d].pipe
        /\ Round(d) \/ Read(d) \/ Write(d) \/ Judge(d) \/ Report(d) =>
             \A e \in Dir : e # d => copy'[e] = copy[e]
<1> USE DEF CopyType, Copy
<1>1. Round(d) => /\ copy[d].at = "round" /\ copy'[d].at = "copy"
                  /\ copy'[d].why = copy[d].why /\ copy'[d].pipe = copy[d].pipe
  BY DEF Round
<1>2. Read(d) => /\ copy[d].at = "copy" /\ copy'[d].at = "copy" /\ copy[d].pipe = <<>>
                 /\ copy'[d].why = copy[d].why /\ copy'[d].pipe = <<read[d] + 1>>
  BY DEF Read
<1>3. Write(d) => /\ copy[d].at = "copy" /\ copy'[d].at \in {"round", "copy"}
                  /\ copy[d].pipe # <<>>
                  /\ copy'[d].why = copy[d].why /\ copy'[d].pipe = <<>>
  BY DEF Write
<1>4. Judge(d) => /\ copy[d].at = "judge" /\ copy'[d].pipe = copy[d].pipe
                  /\ \/ copy'[d].at = "ending" /\ copy'[d].why = "idle"
                     \/ copy'[d].at = "round" /\ copy'[d].why = copy[d].why
  BY DEF Judge
<1>5. Report(d) => /\ copy[d].at = "ending" /\ copy'[d].at = "done"
                   /\ copy'[d].why = copy[d].why /\ copy'[d].pipe = copy[d].pipe
  BY DEF Report
<1>6. Round(d) \/ Read(d) \/ Write(d) \/ Judge(d) \/ Report(d) =>
        \A e \in Dir : e # d => copy'[e] = copy[e]
  BY DEF Round, Read, Write, Judge, Report
<1> HIDE DEF CopyType, Copy
<1> QED BY <1>1, <1>2, <1>3, <1>4, <1>5, <1>6

\* A tick keeps the types of the clocks.
LEMMA Ticks ==
  ASSUME copy \in [Dir -> CopyType], Tick, NEW d \in Dir
  PROVE copy'[d].at = copy[d].at /\ copy'[d].pipe = copy[d].pipe /\ copy'[d].why = copy[d].why
  BY DEF Tick, CopyType

\* A direction that a step does not touch.
LEMMA DataSame ==
  ASSUME NEW e \in Dir, DataOf(e), ToDrain(e)' => ToDrain(e),
         at' = "drainUp" => at = "drainUp",
         got'[e] = got[e], read'[e] = read[e], ahead'[e] = ahead[e],
         fin'[e] = fin[e], sent'[e] = sent[e],
         copy'[e].at = copy[e].at, copy'[e].pipe = copy[e].pipe, copy'[e].why = copy[e].why
  PROVE DataOf(e)'
<1>1. \A i \in 1 .. Len(got'[e]) : got'[e][i] = i
  BY DEF DataOf
<1>2. ToDrain(e)' => got'[e] = <<>> /\ Counts(ahead'[e], read'[e])
  BY DEF DataOf
<1>3. at' = "drainUp" /\ e = "down" => Len(got'[e]) = read'[e]
  BY DEF DataOf
<1>4. copy'[e].pipe = <<>> \/ (copy'[e].at = "copy" /\ copy'[e].pipe = <<read'[e]>>)
  BY DEF DataOf
<1>5. copy'[e].at \in Copying => Len(got'[e]) + Len(copy'[e].pipe) = read'[e]
  BY DEF DataOf
<1>6. copy'[e].at \in {"ending", "done"} /\ copy'[e].why = None =>
        fin'[e] /\ read'[e] = sent'[e] /\ Len(got'[e]) = read'[e]
  BY DEF DataOf
<1> QED BY <1>1, <1>2, <1>3, <1>4, <1>5, <1>6 DEF DataOf

\* A direction of a tunnel that never starts, and of one that has started.
LEMMA DataOff ==
  ASSUME NEW e \in Dir, at' = "done", copy'[e].at = "off", copy'[e].pipe = <<>>,
         \A i \in 1 .. Len(got'[e]) : got'[e][i] = i
  PROVE DataOf(e)'
  BY DEF DataOf, ToDrain, Before, Copying

\* Where the chunks are when the copying begins.
LEMMA DataStarts ==
  ASSUME NEW e \in Dir, at' = "first", copy'[e].at = "round", copy'[e].pipe = <<>>,
         \A i \in 1 .. Len(got'[e]) : got'[e][i] = i,
         Len(got'[e]) = read'[e], read'[e] \in Nat
  PROVE DataOf(e)'
<1>1. Len(got'[e]) + Len(copy'[e].pipe) = read'[e]
  BY Strings
<1> QED BY <1>1 DEF DataOf, ToDrain, Before

----------------------------------------------------------------------------
(* Every step.                                                             *)

\* Next as one disjunction of the actions the proofs go through.
LEMMA Steps ==
  ASSUME Next
  PROVE \/ NotOurs \/ Upgrade \/ dial \/ WriteRequest \/ NoAnswer \/ Refused
        \/ Accepted \/ Hijack \/ writeUpgradeResponse \/ DrainDown \/ DrainUp \/ ServeNext
        \/ FirstEnd \/ SecondEnd \/ Tick
        \/ \E d \in Dir :
             \/ Round(d) \/ Read(d) \/ Write(d) \/ EOF(d) \/ ReadTimeout(d) \/ WriteTimeout(d)
             \/ Broken(d) \/ Judge(d) \/ Report(d) \/ Sends(d) \/ Fin(d)
        \/ \E peer \in Peer : Reset(peer)
  BY DEF Next, handleWSUpgrade, runWSTunnel, copyTunnel, Peer

\* Types.
LEMMA TypeStep == IInv /\ [Next]_vars => TypeOK'
<1> SUFFICES ASSUME IInv, [Next]_vars PROVE TypeOK'
  OBVIOUS
<1>t. TypeOK /\ PhaseInv /\ DataInv
  BY DEF IInv
<1>a. at \in AtPC
  BY <1>t, Types
<1>b. asked \in Nat
  BY <1>t, Types
<1>c. told \in Seq(Answer)
  BY <1>t, Types
<1>d. sent \in [Dir -> Nat]
  BY <1>t, Types
<1>e. read \in [Dir -> Nat]
  BY <1>t, Types
<1>f. ahead \in [Dir -> Seq(Nat)]
  BY <1>t, Types
<1>g. got \in [Dir -> Seq(Nat)]
  BY <1>t, Types
<1>h. fin \in [Dir -> BOOLEAN]
  BY <1>t, Types
<1>i. reset \in SUBSET Peer
  BY <1>t, Types
<1>j. closed \in SUBSET Peer
  BY <1>t, Types
<1>k. copy \in [Dir -> CopyType]
  BY <1>t, Types
<1>l. count \in [Dir -> Nat]
  BY <1>t, Types
<1>m. endc \in Seq(Dir)
  BY <1>t, Types
<1>n. quiet \in Nat
  BY <1>t, Types
<1>o. budget \in Nat
  BY <1>t, Types
<1>0. CASE UNCHANGED vars
  BY <1>0, <1>t DEF vars, handshake, peers, TypeOK
<1>1. CASE NotOurs
  <2>1. at' \in AtPC
    BY <1>1, <1>a DEF NotOurs, Goto, Spend, AtPC
  <2>2. budget' \in Nat
    BY <1>1, <1>o DEF NotOurs, Goto, Spend
  <2>3. UNCHANGED <<asked, told, sent, read, ahead, got, fin, reset, closed, copy, count, endc,
                    quiet>>
    BY <1>1 DEF NotOurs, Goto, Spend, Tunnel, Outside, handshake, peers
  <2> QED BY <1>b, <1>c, <1>d, <1>e, <1>f, <1>g, <1>h, <1>i, <1>j, <1>k, <1>l, <1>m, <1>n, <2>1,
           <2>2, <2>3, Retype
<1>2. CASE Upgrade
  <2>1. at' \in AtPC
    BY <1>2, <1>a DEF Upgrade, Goto, AtPC
  <2>2. UNCHANGED <<asked, told, sent, read, ahead, got, fin, reset, closed, copy, count, endc,
                    quiet, budget>>
    BY <1>2 DEF Upgrade, Goto, Tunnel, Outside, handshake, peers
  <2> QED BY <1>b, <1>c, <1>d, <1>e, <1>f, <1>g, <1>h, <1>i, <1>j, <1>k, <1>l, <1>m, <1>n, <1>o,
           <2>1, <2>2, Retype
<1>3. CASE dial
  <2>1. at' \in AtPC
    BY <1>3, <1>a DEF dial, Goto, AtPC
  <2>2. UNCHANGED <<asked, told, sent, read, ahead, got, fin, reset, closed, copy, count, endc,
                    quiet, budget>>
    BY <1>3 DEF dial, Goto, Tunnel, Outside, handshake, peers
  <2> QED BY <1>b, <1>c, <1>d, <1>e, <1>f, <1>g, <1>h, <1>i, <1>j, <1>k, <1>l, <1>m, <1>n, <1>o,
           <2>1, <2>2, Retype
<1>4. CASE WriteRequest
  <2>1. at' \in AtPC
    BY <1>4, <1>a DEF WriteRequest, Goto, Spend, AtPC
  <2>2. asked' \in Nat
    BY <1>4, <1>b DEF WriteRequest, Goto, Spend
  <2>3. closed' \in SUBSET Peer
    BY <1>4, <1>j DEF WriteRequest, Goto, Spend, Peer
  <2>4. budget' \in Nat
    BY <1>4, <1>o DEF WriteRequest, Goto, Spend
  <2>5. UNCHANGED <<told, sent, read, ahead, got, fin, reset, copy, count, endc, quiet>>
    BY <1>4 DEF WriteRequest, Goto, Spend, Tunnel, Outside, handshake, peers
  <2> QED BY <1>c, <1>d, <1>e, <1>f, <1>g, <1>h, <1>i, <1>k, <1>l, <1>m, <1>n, <2>1, <2>2, <2>3,
           <2>4, <2>5, Retype
<1>5. CASE NoAnswer
  <2>1. at' \in AtPC
    BY <1>5, <1>a DEF NoAnswer, Goto, Spend, AtPC
  <2>2. budget' \in Nat
    BY <1>5, <1>o DEF NoAnswer, Goto, Spend
  <2>3. closed' \in SUBSET Peer
    BY <1>5, <1>j DEF NoAnswer, Goto, Spend, Peer
  <2>4. UNCHANGED <<asked, told, sent, read, ahead, got, fin, reset, copy, count, endc, quiet>>
    BY <1>5 DEF NoAnswer, Goto, Spend, Tunnel, Outside, handshake, peers
  <2> QED BY <1>b, <1>c, <1>d, <1>e, <1>f, <1>g, <1>h, <1>i, <1>k, <1>l, <1>m, <1>n, <2>1, <2>2,
           <2>3, <2>4, Retype
<1>6. CASE Refused
  <2>1. at' \in AtPC
    BY <1>6, <1>a DEF Refused, Goto, Tell, AtPC
  <2>2. told' \in Seq(Answer)
    BY <1>6, <1>c DEF Refused, Goto, Tell, Answer
  <2>3. closed' \in SUBSET Peer
    BY <1>6, <1>j DEF Refused, Goto, Tell, Peer
  <2>4. UNCHANGED <<asked, sent, read, ahead, got, fin, reset, copy, count, endc, quiet, budget>>
    BY <1>6 DEF Refused, Goto, Tell, Tunnel, Outside, handshake, peers
  <2> QED BY <1>b, <1>d, <1>e, <1>f, <1>g, <1>h, <1>i, <1>k, <1>l, <1>m, <1>n, <1>o, <2>1, <2>2,
           <2>3, <2>4, Retype
<1>7. CASE Accepted
  <2>1. at' \in AtPC
    BY <1>7, <1>a DEF Accepted, Goto, ReadAhead, AtPC
  <2>2. read' \in [Dir -> Nat]
    <3>1. read' = read \/ \E m \in 0 .. sent["down"] : read' = [read EXCEPT !["down"] = m]
      BY <1>7 DEF Accepted, Goto, ReadAhead
    <3>2. sent["down"] \in Nat
      BY <1>d, DirFacts
    <3> QED BY <3>1, <3>2, <1>e
  <2>3. ahead' \in [Dir -> Seq(Nat)]
    <3>1. ahead' = ahead \/ \E m \in 0 .. sent["down"] : ahead' = [ahead EXCEPT !["down"] = [i \in 1 .. m |-> i]]
      BY <1>7 DEF Accepted, Goto, ReadAhead
    <3>2. \A m \in 0 .. sent["down"] : [i \in 1 .. m |-> i] \in Seq(Nat)
      BY <1>d, DirFacts
    <3> QED BY <3>1, <3>2, <1>f
  <2>4. UNCHANGED <<asked, told, sent, got, fin, reset, closed, copy, count, endc, quiet, budget>>
    BY <1>7 DEF Accepted, Goto, ReadAhead, Tunnel, Outside, handshake, peers
  <2> QED BY <1>b, <1>c, <1>d, <1>g, <1>h, <1>i, <1>j, <1>k, <1>l, <1>m, <1>n, <1>o, <2>1, <2>2,
           <2>3, <2>4, Retype
<1>8. CASE Hijack
  <2>1. at' \in AtPC
    BY <1>8, <1>a DEF Hijack, Goto, Tell, Spend, ReadAhead, AtPC
  <2>2. told' \in Seq(Answer)
    BY <1>8, <1>c DEF Hijack, Goto, Tell, Spend, ReadAhead, Answer
  <2>3. closed' \in SUBSET Peer
    BY <1>8, <1>j DEF Hijack, Goto, Tell, Spend, ReadAhead, Peer
  <2>4. read' \in [Dir -> Nat]
    <3>1. read' = read \/ \E m \in 0 .. sent["up"] : read' = [read EXCEPT !["up"] = m]
      BY <1>8 DEF Hijack, Goto, Tell, Spend, ReadAhead
    <3>2. sent["up"] \in Nat
      BY <1>d, DirFacts
    <3> QED BY <3>1, <3>2, <1>e
  <2>5. ahead' \in [Dir -> Seq(Nat)]
    <3>1. ahead' = ahead \/ \E m \in 0 .. sent["up"] : ahead' = [ahead EXCEPT !["up"] = [i \in 1 .. m |-> i]]
      BY <1>8 DEF Hijack, Goto, Tell, Spend, ReadAhead
    <3>2. \A m \in 0 .. sent["up"] : [i \in 1 .. m |-> i] \in Seq(Nat)
      BY <1>d, DirFacts
    <3> QED BY <3>1, <3>2, <1>f
  <2>6. budget' \in Nat
    BY <1>8, <1>o DEF Hijack, Goto, Tell, Spend, ReadAhead
  <2>7. UNCHANGED <<asked, sent, got, fin, reset, copy, count, endc, quiet>>
    BY <1>8 DEF Hijack, Goto, Tell, Spend, ReadAhead, Tunnel, Outside, handshake, peers
  <2> QED BY <1>b, <1>d, <1>g, <1>h, <1>i, <1>k, <1>l, <1>m, <1>n, <2>1, <2>2, <2>3, <2>4, <2>5,
           <2>6, <2>7, Retype
<1>9. CASE writeUpgradeResponse
  <2>1. at' \in AtPC
    BY <1>9, <1>a DEF writeUpgradeResponse, Goto, Tell, Spend, Abandon, AtPC
  <2>2. told' \in Seq(Answer)
    BY <1>9, <1>c DEF writeUpgradeResponse, Goto, Tell, Spend, Abandon, Answer
  <2>3. closed' \in SUBSET Peer
    BY <1>9, <1>j DEF writeUpgradeResponse, Goto, Tell, Spend, Abandon, Peer
  <2>4. budget' \in Nat
    BY <1>9, <1>o DEF writeUpgradeResponse, Goto, Tell, Spend, Abandon
  <2>5. UNCHANGED <<asked, sent, read, ahead, got, fin, reset, copy, count, endc, quiet>>
    BY <1>9 DEF writeUpgradeResponse, Goto, Tell, Spend, Abandon, Tunnel, Outside, handshake, peers
  <2> QED BY <1>b, <1>d, <1>e, <1>f, <1>g, <1>h, <1>i, <1>k, <1>l, <1>m, <1>n, <2>1, <2>2, <2>3,
           <2>4, <2>5, Retype
<1>10. CASE DrainDown
  <2>1. at' \in AtPC
    BY <1>10, <1>a DEF DrainDown, Goto, Spend, Abandon, drainBuffered, AtPC
  <2>2. got' \in [Dir -> Seq(Nat)]
    <3>1. \/ got' = [got EXCEPT !["down"] = got["down"] \o ahead["down"]]
          \/ \E m \in 0 .. Len(ahead["down"]) :
               got' = [got EXCEPT !["down"] = got["down"] \o SubSeq(ahead["down"], 1, m)]
      BY <1>10 DEF DrainDown, Goto, Spend, Abandon, drainBuffered
    <3>2. got["down"] \in Seq(Nat) /\ ahead["down"] \in Seq(Nat)
      BY <1>g, <1>f, DirFacts
    <3>3. \A m \in 0 .. Len(ahead["down"]) : SubSeq(ahead["down"], 1, m) \in Seq(Nat)
      BY <3>2, SubSeqProperties
    <3>4. \A s \in Seq(Nat) : got["down"] \o s \in Seq(Nat)
      BY <3>2
    <3> QED BY <3>1, <3>2, <3>3, <3>4, <1>g
  <2>3. ahead' \in [Dir -> Seq(Nat)]
    <3>1. ahead' = ahead \/ ahead' = [ahead EXCEPT !["down"] = <<>>]
      BY <1>10 DEF DrainDown, Goto, Spend, Abandon, drainBuffered
    <3>2. <<>> \in Seq(Nat)
      OBVIOUS
    <3> QED BY <3>1, <3>2, <1>f
  <2>4. closed' \in SUBSET Peer
    BY <1>10, <1>j DEF DrainDown, Goto, Spend, Abandon, drainBuffered, Peer
  <2>5. budget' \in Nat
    <3>1. budget' = budget \/ Spend
      BY <1>10 DEF DrainDown, drainBuffered
    <3> QED BY <3>1, <1>o DEF Spend
  <2>6. UNCHANGED <<asked, told, sent, read, fin, reset, copy, count, endc, quiet>>
    BY <1>10 DEF DrainDown, Goto, Spend, Abandon, drainBuffered, Tunnel, Outside, handshake, peers
  <2> QED BY <1>b, <1>c, <1>d, <1>e, <1>h, <1>i, <1>k, <1>l, <1>m, <1>n, <2>1, <2>2, <2>3, <2>4,
           <2>5, <2>6, Retype
<1>11. CASE DrainUp
  <2>1. at' \in AtPC
    BY <1>11, <1>a DEF DrainUp, Goto, Spend, Abandon, drainBuffered, AtPC
  <2>2. got' \in [Dir -> Seq(Nat)]
    <3>1. \/ got' = [got EXCEPT !["up"] = got["up"] \o ahead["up"]]
          \/ \E m \in 0 .. Len(ahead["up"]) :
               got' = [got EXCEPT !["up"] = got["up"] \o SubSeq(ahead["up"], 1, m)]
      BY <1>11 DEF DrainUp, Goto, Spend, Abandon, drainBuffered
    <3>2. got["up"] \in Seq(Nat) /\ ahead["up"] \in Seq(Nat)
      BY <1>g, <1>f, DirFacts
    <3>3. \A m \in 0 .. Len(ahead["up"]) : SubSeq(ahead["up"], 1, m) \in Seq(Nat)
      BY <3>2, SubSeqProperties
    <3>4. \A s \in Seq(Nat) : got["up"] \o s \in Seq(Nat)
      BY <3>2
    <3> QED BY <3>1, <3>2, <3>3, <3>4, <1>g
  <2>3. ahead' \in [Dir -> Seq(Nat)]
    <3>1. ahead' = ahead \/ ahead' = [ahead EXCEPT !["up"] = <<>>]
      BY <1>11 DEF DrainUp, Goto, Spend, Abandon, drainBuffered
    <3>2. <<>> \in Seq(Nat)
      OBVIOUS
    <3> QED BY <3>1, <3>2, <1>f
  <2>4. closed' \in SUBSET Peer
    BY <1>11, <1>j DEF DrainUp, Goto, Spend, Abandon, drainBuffered, Peer
  <2>5. copy' \in [Dir -> CopyType]
    <3>1. copy' = copy \/ copy' = [d \in Dir |-> [Idle EXCEPT !.at = "round"]]
      BY <1>11 DEF DrainUp
    <3> QED BY <3>1, IdleType, <1>k
  <2>6. budget' \in Nat
    <3>1. budget' = budget \/ Spend
      BY <1>11 DEF DrainUp, drainBuffered
    <3> QED BY <3>1, <1>o DEF Spend
  <2>7. UNCHANGED <<asked, told, sent, read, fin, reset, count, endc, quiet>>
    BY <1>11 DEF DrainUp, Goto, Spend, Abandon, drainBuffered, Tunnel, Outside, handshake, peers
  <2> QED BY <1>b, <1>c, <1>d, <1>e, <1>h, <1>i, <1>l, <1>m, <1>n, <2>1, <2>2, <2>3, <2>4, <2>5,
           <2>6, <2>7, Retype
<1>12. CASE ServeNext
  <2>1. at' \in AtPC
    BY <1>12, <1>a DEF ServeNext, Goto, Tell, AtPC
  <2>2. told' \in Seq(Answer)
    BY <1>12, <1>c DEF ServeNext, Goto, Tell, Answer
  <2>3. asked' \in Nat
    BY <1>12, <1>b DEF ServeNext, Goto, Tell
  <2>4. UNCHANGED <<sent, read, ahead, got, fin, reset, closed, copy, count, endc, quiet, budget>>
    BY <1>12 DEF ServeNext, Goto, Tell, Tunnel, Outside, handshake, peers
  <2> QED BY <1>d, <1>e, <1>f, <1>g, <1>h, <1>i, <1>j, <1>k, <1>l, <1>m, <1>n, <1>o, <2>1, <2>2,
           <2>3, <2>4, Retype
<1>13. ASSUME NEW d \in Dir, Round(d) PROVE TypeOK'
  <2>1. copy' \in [Dir -> CopyType]
    <3>1. copy[d] \in CopyType
      BY <1>k
    <3>2. count[Other(d)] \in Nat
      BY <1>l, DirFacts
    <3>3. [copy[d] EXCEPT !.at = "copy", !.before = count[Other(d)], !.age = 0, !.n = 0] \in CopyType
      BY <3>1, <3>2 DEF CopyType, CopyPC, Copying
    <3> QED BY <1>13, <3>3, <1>k, CopyTyped DEF Round
  <2>2. UNCHANGED <<at, asked, told, sent, read, ahead, got, fin, reset, closed, count, endc,
                    quiet, budget>>
    BY <1>13 DEF Round, Tunnel, Outside, handshake, peers
  <2> QED BY <1>a, <1>b, <1>c, <1>d, <1>e, <1>f, <1>g, <1>h, <1>i, <1>j, <1>l, <1>m, <1>n, <1>o,
           <2>1, <2>2, Retype
<1>14. ASSUME NEW d \in Dir, Read(d) PROVE TypeOK'
  <2>1. read' \in [Dir -> Nat]
    BY <1>14, <1>e DEF Read
  <2>2. copy' \in [Dir -> CopyType]
    <3>1. copy[d] \in CopyType
      BY <1>k
    <3>2. <<read[d] + 1>> \in Seq(Nat)
      BY <1>e
    <3>3. [copy[d] EXCEPT !.pipe = <<read[d] + 1>>] \in CopyType
      BY <3>1, <3>2 DEF CopyType
    <3> QED BY <1>14, <3>3, <1>k, CopyTyped DEF Read
  <2>3. UNCHANGED <<at, asked, told, sent, ahead, got, fin, reset, closed, count, endc, quiet,
                    budget>>
    BY <1>14 DEF Read, Tunnel, Outside, handshake, peers
  <2> QED BY <1>a, <1>b, <1>c, <1>d, <1>f, <1>g, <1>h, <1>i, <1>j, <1>l, <1>m, <1>n, <1>o, <2>1,
           <2>2, <2>3, Retype
<1>15. ASSUME NEW d \in Dir, Write(d) PROVE TypeOK'
  <2>1. got' \in [Dir -> Seq(Nat)]
    <3>1. got' = [got EXCEPT ![d] = got[d] \o copy[d].pipe]
      BY <1>15 DEF Write
    <3>2. got[d] \in Seq(Nat) /\ copy[d].pipe \in Seq(Nat)
      BY <1>g, <1>k DEF CopyType
    <3> QED BY <3>1, <3>2, <1>g
  <2>2. count' \in [Dir -> Nat]
    <3>1. count' = count \/ count' = [count EXCEPT ![d] = count[d] + (copy[d].n + 1)]
      BY <1>15 DEF Write
    <3>2. copy[d].n \in Nat /\ count[d] \in Nat
      BY <1>k, <1>l DEF CopyType
    <3> QED BY <3>1, <3>2, <1>l
  <2>3. copy' \in [Dir -> CopyType]
    <3>1. copy[d] \in CopyType
      BY <1>k
    <3>2. <<>> \in Seq(Nat)
      OBVIOUS
    <3>3. ASSUME NEW pc \in {"round", "copy"}, NEW k \in Nat
          PROVE [copy[d] EXCEPT !.pipe = <<>>, !.n = copy[d].n + 1, !.at = pc, !.strikes = k] \in CopyType
      <4>1. [copy[d] EXCEPT !.pipe = <<>>] \in CopyType
        BY <3>1, EmptyPipe, Recopy
      <4>n. copy[d].n + 1 \in Nat
        BY <3>1, Recopy
      <4>2. [[copy[d] EXCEPT !.pipe = <<>>] EXCEPT !.n = copy[d].n + 1] \in CopyType
        BY <4>n, <4>1, Recopy
      <4>3. [[[copy[d] EXCEPT !.pipe = <<>>] EXCEPT !.n = copy[d].n + 1] EXCEPT !.at = pc] \in CopyType
        BY <4>2, Places, Recopy
      <4> QED BY <4>3, Recopy
    <3>4. copy[d].strikes \in Nat
      BY <3>1 DEF CopyType
    <3>5. PICK pc \in {"round", "copy"}, k \in {0, copy[d].strikes} :
            Copy(d, [copy[d] EXCEPT !.pipe = <<>>, !.n = copy[d].n + 1, !.at = pc, !.strikes = k])
      BY <1>15 DEF Write
    <3> QED BY <3>3, <3>4, <3>5, <1>k, CopyTyped
  <2>4. quiet' \in Nat
    BY <1>15, <1>n DEF Write
  <2>5. UNCHANGED <<at, asked, told, sent, read, ahead, fin, reset, closed, endc, budget>>
    BY <1>15 DEF Write, Tunnel, Outside, handshake, peers
  <2> QED BY <1>a, <1>b, <1>c, <1>d, <1>e, <1>f, <1>h, <1>i, <1>j, <1>m, <1>o, <2>1, <2>2, <2>3,
           <2>4, <2>5, Retype
<1>16. ASSUME NEW d \in Dir, EOF(d) PROVE TypeOK'
  <2>1. Return(d, "ending", None)
    BY <1>16 DEF EOF
  <2>2. None \in Reason /\ "stalled" \in Reason /\ "error" \in Reason
    BY DEF Reason
  <2>3. /\ copy' \in [Dir -> CopyType] /\ count' \in [Dir -> Nat]
        /\ UNCHANGED <<at, asked, told, ahead, sent, fin, reset, closed, endc, budget, read, got,
                       quiet>>
    BY <1>k, <1>l, <2>1, <2>2, Returns
  <2> QED BY <1>t, <2>3, Types, Retype
<1>17. ASSUME NEW d \in Dir, ReadTimeout(d) PROVE TypeOK'
  <2>1. Return(d, "judge", None)
    BY <1>17 DEF ReadTimeout
  <2>2. None \in Reason /\ "stalled" \in Reason /\ "error" \in Reason
    BY DEF Reason
  <2>3. /\ copy' \in [Dir -> CopyType] /\ count' \in [Dir -> Nat]
        /\ UNCHANGED <<at, asked, told, ahead, sent, fin, reset, closed, endc, budget, read, got,
                       quiet>>
    BY <1>k, <1>l, <2>1, <2>2, Returns
  <2> QED BY <1>t, <2>3, Types, Retype
<1>18. ASSUME NEW d \in Dir, WriteTimeout(d) PROVE TypeOK'
  <2>1. Return(d, "ending", "stalled")
    BY <1>18 DEF WriteTimeout
  <2>2. None \in Reason /\ "stalled" \in Reason /\ "error" \in Reason
    BY DEF Reason
  <2>3. /\ copy' \in [Dir -> CopyType] /\ count' \in [Dir -> Nat]
        /\ UNCHANGED <<at, asked, told, ahead, sent, fin, reset, closed, endc, budget, read, got,
                       quiet>>
    BY <1>k, <1>l, <2>1, <2>2, Returns
  <2> QED BY <1>t, <2>3, Types, Retype
<1>19. ASSUME NEW d \in Dir, Broken(d) PROVE TypeOK'
  <2>1. Return(d, "ending", "error")
    BY <1>19 DEF Broken
  <2>2. None \in Reason /\ "stalled" \in Reason /\ "error" \in Reason
    BY DEF Reason
  <2>3. /\ copy' \in [Dir -> CopyType] /\ count' \in [Dir -> Nat]
        /\ UNCHANGED <<at, asked, told, ahead, sent, fin, reset, closed, endc, budget, read, got,
                       quiet>>
    BY <1>k, <1>l, <2>1, <2>2, Returns
  <2> QED BY <1>t, <2>3, Types, Retype
<1>20. ASSUME NEW d \in Dir, Judge(d) PROVE TypeOK'
  <2>1. copy' \in [Dir -> CopyType]
    <3>1. copy[d] \in CopyType
      BY <1>k
    <3>2. copy[d].strikes + 1 \in Nat
      BY <3>1 DEF CopyType
    <3>3. [copy[d] EXCEPT !.at = "ending", !.why = "idle"] \in CopyType
      BY <3>1 DEF CopyType, CopyPC, Reason
    <3>4. \A k \in Nat : [copy[d] EXCEPT !.at = "round", !.strikes = k] \in CopyType
      BY <3>1 DEF CopyType, CopyPC, Copying
    <3>5. \/ Copy(d, [copy[d] EXCEPT !.at = "ending", !.why = "idle"])
          \/ \E k \in {0, copy[d].strikes + 1} : Copy(d, [copy[d] EXCEPT !.at = "round", !.strikes = k])
      BY <1>20 DEF Judge
    <3> QED BY <3>2, <3>3, <3>4, <3>5, <1>k, CopyTyped
  <2>2. UNCHANGED <<at, asked, told, sent, read, ahead, got, fin, reset, closed, count, endc,
                    quiet, budget>>
    BY <1>20 DEF Judge, Tunnel, Outside, handshake, peers
  <2> QED BY <1>a, <1>b, <1>c, <1>d, <1>e, <1>f, <1>g, <1>h, <1>i, <1>j, <1>l, <1>m, <1>n, <1>o,
           <2>1, <2>2, Retype
<1>21. ASSUME NEW d \in Dir, Report(d) PROVE TypeOK'
  <2>1. copy' \in [Dir -> CopyType]
    <3>1. copy[d] \in CopyType
      BY <1>k
    <3>2. [copy[d] EXCEPT !.at = "done"] \in CopyType
      BY <3>1 DEF CopyType, CopyPC
    <3> QED BY <1>21, <3>2, <1>k, CopyTyped DEF Report
  <2>2. endc' \in Seq(Dir)
    BY <1>21, <1>m DEF Report
  <2>3. UNCHANGED <<at, asked, told, sent, read, ahead, got, fin, reset, closed, count, quiet,
                    budget>>
    BY <1>21 DEF Report, Tunnel, Outside, handshake, peers
  <2> QED BY <1>a, <1>b, <1>c, <1>d, <1>e, <1>f, <1>g, <1>h, <1>i, <1>j, <1>l, <1>n, <1>o, <2>1,
           <2>2, <2>3, Retype
<1>22. CASE FirstEnd
  <2>1. at' \in AtPC
    BY <1>22, <1>a DEF FirstEnd, Goto, AtPC
  <2>2. closed' \in SUBSET Peer
    BY <1>22, <1>j DEF FirstEnd, Goto, Peer
  <2>3. UNCHANGED <<asked, told, sent, read, ahead, got, fin, reset, copy, count, endc, quiet,
                    budget>>
    BY <1>22 DEF FirstEnd, Goto, Tunnel, Outside, handshake, peers
  <2> QED BY <1>b, <1>c, <1>d, <1>e, <1>f, <1>g, <1>h, <1>i, <1>k, <1>l, <1>m, <1>n, <1>o, <2>1,
           <2>2, <2>3, Retype
<1>23. CASE SecondEnd
  <2>1. at' \in AtPC
    BY <1>23, <1>a DEF SecondEnd, Goto, AtPC
  <2>2. closed' \in SUBSET Peer
    BY <1>23, <1>j DEF SecondEnd, Goto, Peer
  <2>3. UNCHANGED <<asked, told, sent, read, ahead, got, fin, reset, copy, count, endc, quiet,
                    budget>>
    BY <1>23 DEF SecondEnd, Goto, Tunnel, Outside, handshake, peers
  <2> QED BY <1>b, <1>c, <1>d, <1>e, <1>f, <1>g, <1>h, <1>i, <1>k, <1>l, <1>m, <1>n, <1>o, <2>1,
           <2>2, <2>3, Retype
<1>24. ASSUME NEW d \in Dir, Sends(d) PROVE TypeOK'
  <2>1. sent' \in [Dir -> Nat]
    BY <1>24, <1>d DEF Sends
  <2>2. UNCHANGED <<at, asked, told, read, ahead, got, fin, reset, closed, copy, count, endc,
                    quiet, budget>>
    BY <1>24 DEF Sends, Tunnel, Outside, handshake, peers
  <2> QED BY <1>a, <1>b, <1>c, <1>e, <1>f, <1>g, <1>h, <1>i, <1>j, <1>k, <1>l, <1>m, <1>n, <1>o,
           <2>1, <2>2, Retype
<1>25. ASSUME NEW d \in Dir, Fin(d) PROVE TypeOK'
  <2>1. fin' \in [Dir -> BOOLEAN]
    BY <1>25, <1>h DEF Fin
  <2>2. UNCHANGED <<at, asked, told, sent, read, ahead, got, reset, closed, copy, count, endc,
                    quiet, budget>>
    BY <1>25 DEF Fin, Tunnel, Outside, handshake, peers
  <2> QED BY <1>a, <1>b, <1>c, <1>d, <1>e, <1>f, <1>g, <1>i, <1>j, <1>k, <1>l, <1>m, <1>n, <1>o,
           <2>1, <2>2, Retype
<1>26. ASSUME NEW peer \in Peer, Reset(peer) PROVE TypeOK'
  <2>1. reset' \in SUBSET Peer
    BY <1>26, <1>i DEF Reset, Spend, Peer
  <2>2. budget' \in Nat
    BY <1>26, <1>o DEF Reset, Spend
  <2>3. UNCHANGED <<at, asked, told, sent, read, ahead, got, fin, closed, copy, count, endc, quiet>>
    BY <1>26 DEF Reset, Spend, Tunnel, Outside, handshake, peers
  <2> QED BY <1>a, <1>b, <1>c, <1>d, <1>e, <1>f, <1>g, <1>h, <1>j, <1>k, <1>l, <1>m, <1>n, <2>1,
           <2>2, <2>3, Retype
<1>27. CASE Tick
  <2>1. copy' \in [Dir -> CopyType]
    <3>1. ASSUME NEW d \in Dir
          PROVE copy[d] \in CopyType /\ [copy[d] EXCEPT !.age = copy[d].age + 1] \in CopyType
      <4>1. copy[d] \in CopyType /\ copy[d].age + 1 \in Nat
        BY <1>k, Recopy
      <4> QED BY <4>1, Recopy
    <3>2. copy' = [d \in Dir |-> IF copy[d].at = "copy" THEN [copy[d] EXCEPT !.age = copy[d].age + 1]
                                 ELSE copy[d]]
      BY <1>27 DEF Tick
    <3> QED BY <3>1, <3>2
  <2>2. quiet' \in Nat
    BY <1>27, <1>n DEF Tick
  <2>3. UNCHANGED <<at, asked, told, sent, read, ahead, got, fin, reset, closed, count, endc,
                    budget>>
    BY <1>27 DEF Tick, Tunnel, Outside, handshake, peers
  <2> QED BY <1>a, <1>b, <1>c, <1>d, <1>e, <1>f, <1>g, <1>h, <1>i, <1>j, <1>l, <1>m, <1>o, <2>1,
           <2>2, <2>3, Retype
<1> QED
  BY <1>0, <1>1, <1>2, <1>3, <1>4, <1>5, <1>6, <1>7, <1>8, <1>9, <1>10, <1>11,
     <1>12, <1>13, <1>14, <1>15, <1>16, <1>17, <1>18, <1>19, <1>20, <1>21, <1>22, <1>23,
     <1>24, <1>25, <1>26, <1>27, Steps

\* A request is answered once.
LEMMA ToldStep == IInv /\ [Next]_vars => ToldInv'
<1> SUFFICES ASSUME IInv, [Next]_vars PROVE ToldInv'
  OBVIOUS
<1>t. TypeOK /\ ToldInv /\ PhaseInv /\ DataInv
  BY DEF IInv
<1>k. copy \in [Dir -> CopyType] /\ count \in [Dir -> Nat]
  BY <1>t, Types
<1>0. CASE UNCHANGED vars
  BY <1>0, <1>t DEF vars, handshake, peers, ToldInv
<1>1. CASE NotOurs
  <2>1. at \in Before /\ told = <<>>
    BY <1>1, <1>t DEF NotOurs, Before, ToldInv
  <2>2. \A d \in Dir : got[d] = <<>> /\ copy[d].at = "off"
    BY <1>t, <2>1, Strings DEF ToldInv
  <2>3. UNCHANGED <<got, copy>>
    BY <1>1 DEF NotOurs, Tunnel
  <2>4. at' \in Before /\ told' = told
    BY <1>1 DEF NotOurs, Goto, Before
  <2> QED BY <2>1, <2>2, <2>3, <2>4, Strings DEF ToldInv, Before, After, Running
<1>2. CASE Upgrade
  <2>1. at \in Before /\ told = <<>>
    BY <1>2, <1>t DEF Upgrade, Before, ToldInv
  <2>2. \A d \in Dir : got[d] = <<>> /\ copy[d].at = "off"
    BY <1>t, <2>1, Strings DEF ToldInv
  <2>3. UNCHANGED <<got, copy>>
    BY <1>2 DEF Upgrade, Tunnel
  <2>4. at' \in Before /\ told' = told
    BY <1>2 DEF Upgrade, Goto, Before
  <2> QED BY <2>1, <2>2, <2>3, <2>4, Strings DEF ToldInv, Before, After, Running
<1>3. CASE dial
  <2>1. at \in Before /\ told = <<>>
    BY <1>3, <1>t DEF dial, Before, ToldInv
  <2>2. \A d \in Dir : got[d] = <<>> /\ copy[d].at = "off"
    BY <1>t, <2>1, Strings DEF ToldInv
  <2>3. UNCHANGED <<got, copy>>
    BY <1>3 DEF dial, Tunnel
  <2>4. at' \in Before /\ told' = told
    BY <1>3 DEF dial, Goto, Before
  <2> QED BY <2>1, <2>2, <2>3, <2>4, Strings DEF ToldInv, Before, After, Running
<1>4. CASE WriteRequest
  <2>1. at \in Before /\ told = <<>>
    BY <1>4, <1>t DEF WriteRequest, Before, ToldInv
  <2>2. \A d \in Dir : got[d] = <<>> /\ copy[d].at = "off"
    BY <1>t, <2>1, Strings DEF ToldInv
  <2>3. UNCHANGED <<got, copy>>
    BY <1>4 DEF WriteRequest, Tunnel
  <2>4. at' \in Before /\ told' = told
    BY <1>4 DEF WriteRequest, Goto, Before
  <2> QED BY <2>1, <2>2, <2>3, <2>4, Strings DEF ToldInv, Before, After, Running
<1>5. CASE NoAnswer
  <2>1. at \in Before /\ told = <<>>
    BY <1>5, <1>t DEF NoAnswer, Before, ToldInv
  <2>2. \A d \in Dir : got[d] = <<>> /\ copy[d].at = "off"
    BY <1>t, <2>1, Strings DEF ToldInv
  <2>3. UNCHANGED <<got, copy>>
    BY <1>5 DEF NoAnswer, Tunnel
  <2>4. at' \in Before /\ told' = told
    BY <1>5 DEF NoAnswer, Goto, Before
  <2> QED BY <2>1, <2>2, <2>3, <2>4, Strings DEF ToldInv, Before, After, Running
<1>6. CASE Refused
  <2>1. at \in Before /\ told = <<>>
    BY <1>6, <1>t DEF Refused, Before, ToldInv
  <2>2. \A d \in Dir : got[d] = <<>> /\ copy[d].at = "off"
    BY <1>t, <2>1, Strings DEF ToldInv
  <2>3. UNCHANGED <<got, copy>>
    BY <1>6 DEF Refused, Tunnel
  <2>4. \A who \in {"status", "502"} : Tell(who) => told' = <<who>>
    BY <2>1 DEF Tell
  <2>5. at' = "done" /\ \E who \in {"status", "502"} : told' = <<who>>
    BY <1>6, <2>4 DEF Refused, Goto
  <2>6. at' = "done" => Len(told') <= 1
    BY <2>1, <2>5, NoneAnswered, OneAnswered
  <2>7. \A d \in Dir : got'[d] = <<>> /\ copy'[d].at = "off"
    BY <2>2, <2>3
  <2> QED BY <2>1, <2>5, <2>6, <2>7 DEF ToldInv, Before, After, Running
<1>7. CASE Accepted
  <2>1. at \in Before /\ told = <<>>
    BY <1>7, <1>t DEF Accepted, Before, ToldInv
  <2>2. \A d \in Dir : got[d] = <<>> /\ copy[d].at = "off"
    BY <1>t, <2>1, Strings DEF ToldInv
  <2>3. UNCHANGED <<got, copy>>
    BY <1>7 DEF Accepted, Tunnel
  <2>4. at' \in Before /\ told' = told
    BY <1>7 DEF Accepted, Goto, Before
  <2> QED BY <2>1, <2>2, <2>3, <2>4, Strings DEF ToldInv, Before, After, Running
<1>8. CASE Hijack
  <2>1. at \in Before /\ told = <<>>
    BY <1>8, <1>t DEF Hijack, Before, ToldInv
  <2>2. \A d \in Dir : got[d] = <<>> /\ copy[d].at = "off"
    BY <1>t, <2>1, Strings DEF ToldInv
  <2>3. UNCHANGED <<got, copy>>
    BY <1>8 DEF Hijack, Tunnel
  <2>4. \A who \in {"500"} : Tell(who) => told' = <<who>>
    BY <2>1 DEF Tell
  <2>5. (at' = "say" /\ told' = told) \/ (at' = "done" /\ told' = <<"500">>)
    BY <1>8, <2>4 DEF Hijack, Goto
  <2>6. at' = "done" => Len(told') <= 1
    BY <2>1, <2>5, NoneAnswered, OneAnswered
  <2>7. \A d \in Dir : got'[d] = <<>> /\ copy'[d].at = "off"
    BY <2>2, <2>3
  <2> QED BY <2>1, <2>5, <2>6, <2>7 DEF ToldInv, Before, After, Running
<1>9. CASE writeUpgradeResponse
  <2>1. at \in Before /\ told = <<>>
    BY <1>9, <1>t DEF writeUpgradeResponse, Before, ToldInv
  <2>2. \A d \in Dir : got[d] = <<>> /\ copy[d].at = "off"
    BY <1>t, <2>1, Strings DEF ToldInv
  <2>3. UNCHANGED <<got, copy>>
    BY <1>9 DEF writeUpgradeResponse, Tunnel
  <2>4. \A who \in {"101"} : Tell(who) => told' = <<who>>
    BY <2>1 DEF Tell
  <2>5. (at' = "drainDown" /\ told' = <<"101">>) \/ (at' = "done" /\ told' = told)
    BY <1>9, <2>4 DEF writeUpgradeResponse, Goto, Abandon
  <2>6. at' = "done" => Len(told') <= 1
    BY <2>1, <2>5, NoneAnswered, OneAnswered
  <2>7. \A d \in Dir : got'[d] = <<>> /\ copy'[d].at = "off"
    BY <2>2, <2>3
  <2> QED BY <2>1, <2>5, <2>6, <2>7 DEF ToldInv, Before, After, Running
<1>10. CASE DrainDown
  <2>1. at \in After /\ told' = told /\ at' \in After \cup {"done"}
    BY <1>10 DEF DrainDown, drainBuffered, Abandon, Goto, After, Running
  <2>2. told = <<"101">>
    BY <1>t, <2>1 DEF ToldInv
  <2> QED BY <2>1, <2>2, Strings DEF ToldInv, Before, After, Running
<1>11. CASE DrainUp
  <2>1. at \in After /\ told' = told /\ at' \in After \cup {"done"}
    BY <1>11 DEF DrainUp, drainBuffered, Abandon, Goto, After, Running
  <2>2. told = <<"101">>
    BY <1>t, <2>1 DEF ToldInv
  <2> QED BY <2>1, <2>2, Strings DEF ToldInv, Before, After, Running
<1>12. CASE ServeNext
  <2>1. at \in Before /\ told = <<>>
    BY <1>12, <1>t DEF ServeNext, Before, ToldInv
  <2>2. \A d \in Dir : got[d] = <<>> /\ copy[d].at = "off"
    BY <1>t, <2>1, Strings DEF ToldInv
  <2>3. UNCHANGED <<got, copy>>
    BY <1>12 DEF ServeNext, Tunnel
  <2>4. \A who \in {"next"} : Tell(who) => told' = <<who>>
    BY <2>1 DEF Tell
  <2>5. at' = "done" /\ told' = <<"next">>
    BY <1>12, <2>4 DEF ServeNext, Goto
  <2>6. at' = "done" => Len(told') <= 1
    BY <2>1, <2>5, NoneAnswered, OneAnswered
  <2>7. \A d \in Dir : got'[d] = <<>> /\ copy'[d].at = "off"
    BY <2>2, <2>3
  <2> QED BY <2>1, <2>5, <2>6, <2>7 DEF ToldInv, Before, After, Running
<1>13. ASSUME NEW d \in Dir, Round(d) PROVE ToldInv'
  <2>1. UNCHANGED <<at, told>> /\ UNCHANGED got
    BY <1>13 DEF Round, Outside, handshake
  <2>2. \A e \in Dir : copy'[e].at # "off" => copy[e].at # "off"
    BY <1>13, <1>k, Goroutine
  <2> QED BY <1>t, <2>1, <2>2 DEF ToldInv
<1>14. ASSUME NEW d \in Dir, Read(d) PROVE ToldInv'
  <2>1. UNCHANGED <<at, told>> /\ UNCHANGED got
    BY <1>14 DEF Read, Outside, handshake
  <2>2. \A e \in Dir : copy'[e].at # "off" => copy[e].at # "off"
    BY <1>14, <1>k, Goroutine
  <2> QED BY <1>t, <2>1, <2>2 DEF ToldInv
<1>15. ASSUME NEW d \in Dir, Write(d) PROVE ToldInv'
  <2>1. UNCHANGED <<at, told>>
    BY <1>15 DEF Write, Outside, handshake
  <2>2. \A e \in Dir : copy'[e].at # "off" => copy[e].at # "off"
    BY <1>15, <1>k, Goroutine
  <2>3. copy[d].at # "off"
    BY <1>15 DEF Write
  <2>4. \A e \in Dir : e # d => got'[e] = got[e]
    BY <1>15 DEF Write
  <2> QED BY <1>t, <2>1, <2>2, <2>3, <2>4 DEF ToldInv
<1>16. ASSUME NEW d \in Dir, EOF(d) PROVE ToldInv'
  <2>1. Return(d, "ending", None)
    BY <1>16 DEF EOF
  <2>2. None \in Reason /\ "stalled" \in Reason /\ "error" \in Reason
    BY Places
  <2>3. copy[d].at = "copy"
    BY <1>16 DEF EOF
  <2>4. UNCHANGED <<at, told, got>> /\ \A e \in Dir : e # d => copy'[e] = copy[e]
    BY <1>k, <2>1, <2>2, Returns
  <2> QED BY <1>t, <2>3, <2>4 DEF ToldInv
<1>17. ASSUME NEW d \in Dir, ReadTimeout(d) PROVE ToldInv'
  <2>1. Return(d, "judge", None)
    BY <1>17 DEF ReadTimeout
  <2>2. None \in Reason /\ "stalled" \in Reason /\ "error" \in Reason
    BY Places
  <2>3. copy[d].at = "copy"
    BY <1>17 DEF ReadTimeout
  <2>4. UNCHANGED <<at, told, got>> /\ \A e \in Dir : e # d => copy'[e] = copy[e]
    BY <1>k, <2>1, <2>2, Returns
  <2> QED BY <1>t, <2>3, <2>4 DEF ToldInv
<1>18. ASSUME NEW d \in Dir, WriteTimeout(d) PROVE ToldInv'
  <2>1. Return(d, "ending", "stalled")
    BY <1>18 DEF WriteTimeout
  <2>2. None \in Reason /\ "stalled" \in Reason /\ "error" \in Reason
    BY Places
  <2>3. copy[d].at = "copy"
    BY <1>18 DEF WriteTimeout
  <2>4. UNCHANGED <<at, told, got>> /\ \A e \in Dir : e # d => copy'[e] = copy[e]
    BY <1>k, <2>1, <2>2, Returns
  <2> QED BY <1>t, <2>3, <2>4 DEF ToldInv
<1>19. ASSUME NEW d \in Dir, Broken(d) PROVE ToldInv'
  <2>1. Return(d, "ending", "error")
    BY <1>19 DEF Broken
  <2>2. None \in Reason /\ "stalled" \in Reason /\ "error" \in Reason
    BY Places
  <2>3. copy[d].at = "copy"
    BY <1>19 DEF Broken
  <2>4. UNCHANGED <<at, told, got>> /\ \A e \in Dir : e # d => copy'[e] = copy[e]
    BY <1>k, <2>1, <2>2, Returns
  <2> QED BY <1>t, <2>3, <2>4 DEF ToldInv
<1>20. ASSUME NEW d \in Dir, Judge(d) PROVE ToldInv'
  <2>1. UNCHANGED <<at, told>> /\ UNCHANGED got
    BY <1>20 DEF Judge, Outside, handshake
  <2>2. \A e \in Dir : copy'[e].at # "off" => copy[e].at # "off"
    BY <1>20, <1>k, Goroutine
  <2> QED BY <1>t, <2>1, <2>2 DEF ToldInv
<1>21. ASSUME NEW d \in Dir, Report(d) PROVE ToldInv'
  <2>1. UNCHANGED <<at, told>> /\ UNCHANGED got
    BY <1>21 DEF Report, Outside, handshake
  <2>2. \A e \in Dir : copy'[e].at # "off" => copy[e].at # "off"
    BY <1>21, <1>k, Goroutine
  <2> QED BY <1>t, <2>1, <2>2 DEF ToldInv
<1>22. CASE FirstEnd
  <2>1. at \in After /\ UNCHANGED <<told, got, copy>> /\ at' \in After \cup {"done"}
    BY <1>22 DEF FirstEnd, Goto, After, Running
  <2>2. told = <<"101">>
    BY <1>t, <2>1 DEF ToldInv
  <2> QED BY <2>1, <2>2, Strings DEF ToldInv, Before, After, Running
<1>23. CASE SecondEnd
  <2>1. at \in After /\ UNCHANGED <<told, got, copy>> /\ at' \in After \cup {"done"}
    BY <1>23 DEF SecondEnd, Goto, After, Running
  <2>2. told = <<"101">>
    BY <1>t, <2>1 DEF ToldInv
  <2> QED BY <2>1, <2>2, Strings DEF ToldInv, Before, After, Running
<1>24. ASSUME NEW d \in Dir, Sends(d) PROVE ToldInv'
  BY <1>24, <1>t DEF Sends, handshake, ToldInv
<1>25. ASSUME NEW d \in Dir, Fin(d) PROVE ToldInv'
  BY <1>25, <1>t DEF Fin, handshake, ToldInv
<1>26. ASSUME NEW peer \in Peer, Reset(peer) PROVE ToldInv'
  BY <1>26, <1>t DEF Reset, handshake, ToldInv
<1>27. CASE Tick
  <2>1. UNCHANGED <<at, told, got>>
    BY <1>27 DEF Tick, handshake
  <2> QED BY <1>27, <1>t, <1>k, <2>1, Ticks DEF ToldInv
<1> QED
  BY <1>0, <1>1, <1>2, <1>3, <1>4, <1>5, <1>6, <1>7, <1>8, <1>9, <1>10, <1>11,
     <1>12, <1>13, <1>14, <1>15, <1>16, <1>17, <1>18, <1>19, <1>20, <1>21, <1>22, <1>23,
     <1>24, <1>25, <1>26, <1>27, Steps

\* The goroutines run after both directions were drained.
LEMMA PhaseStep == IInv /\ [Next]_vars => PhaseInv'
<1> SUFFICES ASSUME IInv, [Next]_vars PROVE PhaseInv'
  OBVIOUS
<1>t. TypeOK /\ ToldInv /\ PhaseInv /\ DataInv
  BY DEF IInv
<1>k. copy \in [Dir -> CopyType] /\ count \in [Dir -> Nat]
  BY <1>t, Types
<1>0. CASE UNCHANGED vars
  BY <1>0, <1>t DEF vars, handshake, peers, PhaseInv
<1>1. CASE NotOurs
  <2>1. at \notin Running \cup {"done"} /\ at' \notin Running /\ UNCHANGED copy
    BY <1>1 DEF NotOurs, Goto, Spend, Running, Tunnel
  <2> QED BY <1>t, <2>1 DEF PhaseInv
<1>2. CASE Upgrade
  <2>1. at \notin Running \cup {"done"} /\ at' \notin Running /\ UNCHANGED copy
    BY <1>2 DEF Upgrade, Goto, Running, Tunnel
  <2> QED BY <1>t, <2>1 DEF PhaseInv
<1>3. CASE dial
  <2>1. at \notin Running \cup {"done"} /\ at' \notin Running /\ UNCHANGED copy
    BY <1>3 DEF dial, Goto, Running, Tunnel
  <2> QED BY <1>t, <2>1 DEF PhaseInv
<1>4. CASE WriteRequest
  <2>1. at \notin Running \cup {"done"} /\ at' \notin Running /\ UNCHANGED copy
    BY <1>4 DEF WriteRequest, Goto, Spend, Running, Tunnel
  <2> QED BY <1>t, <2>1 DEF PhaseInv
<1>5. CASE NoAnswer
  <2>1. at \notin Running \cup {"done"} /\ at' \notin Running /\ UNCHANGED copy
    BY <1>5 DEF NoAnswer, Goto, Spend, Running, Tunnel
  <2> QED BY <1>t, <2>1 DEF PhaseInv
<1>6. CASE Refused
  <2>1. at \notin Running \cup {"done"} /\ at' \notin Running /\ UNCHANGED copy
    BY <1>6 DEF Refused, Goto, Tell, Running, Tunnel
  <2> QED BY <1>t, <2>1 DEF PhaseInv
<1>7. CASE Accepted
  <2>1. at \notin Running \cup {"done"} /\ at' \notin Running /\ UNCHANGED copy
    BY <1>7 DEF Accepted, Goto, ReadAhead, Running, Tunnel
  <2> QED BY <1>t, <2>1 DEF PhaseInv
<1>8. CASE Hijack
  <2>1. at \notin Running \cup {"done"} /\ at' \notin Running /\ UNCHANGED copy
    BY <1>8 DEF Hijack, Goto, Tell, Spend, ReadAhead, Running, Tunnel
  <2> QED BY <1>t, <2>1 DEF PhaseInv
<1>9. CASE writeUpgradeResponse
  <2>1. at \notin Running \cup {"done"} /\ at' \notin Running /\ UNCHANGED copy
    BY <1>9 DEF writeUpgradeResponse, Goto, Tell, Spend, Abandon, Running, Tunnel
  <2> QED BY <1>t, <2>1 DEF PhaseInv
<1>10. CASE DrainDown
  <2>1. at \notin Running \cup {"done"} /\ at' \notin Running /\ UNCHANGED copy
    BY <1>10 DEF DrainDown, Goto, Spend, Abandon, drainBuffered, Running, Tunnel
  <2> QED BY <1>t, <2>1 DEF PhaseInv
<1>11. CASE DrainUp
  <2>1. at = "drainUp"
    BY <1>11 DEF DrainUp
  <2>2. CASE at' = "first"
    <3>1. copy' = [d \in Dir |-> [Idle EXCEPT !.at = "round"]]
      BY <1>11, <2>2 DEF DrainUp
    <3>2. \A d \in Dir : copy'[d].at = "round" /\ copy'[d].why = None
      BY <3>1 DEF Idle
    <3> QED BY <2>2, <3>2 DEF PhaseInv, Running
  <2>3. CASE at' # "first"
    <3>1. at' = "done" /\ copy' = copy
      BY <1>11, <2>3 DEF DrainUp, drainBuffered, Goto, Abandon
    <3> QED BY <1>t, <2>1, <3>1 DEF PhaseInv, Running
  <2> QED BY <2>2, <2>3
<1>12. CASE ServeNext
  <2>1. at \notin Running \cup {"done"} /\ at' \notin Running /\ UNCHANGED copy
    BY <1>12 DEF ServeNext, Goto, Tell, Running, Tunnel
  <2> QED BY <1>t, <2>1 DEF PhaseInv
<1>13. ASSUME NEW d \in Dir, Round(d) PROVE PhaseInv'
  <2>1. UNCHANGED at
    BY <1>13 DEF Round, Outside, handshake
  <2> QED BY <1>13, <1>t, <1>k, <2>1, Goroutine DEF PhaseInv, Copying
<1>14. ASSUME NEW d \in Dir, Read(d) PROVE PhaseInv'
  <2>1. UNCHANGED at
    BY <1>14 DEF Read, Outside, handshake
  <2> QED BY <1>14, <1>t, <1>k, <2>1, Goroutine DEF PhaseInv, Copying
<1>15. ASSUME NEW d \in Dir, Write(d) PROVE PhaseInv'
  <2>1. UNCHANGED at
    BY <1>15 DEF Write, Outside, handshake
  <2> QED BY <1>15, <1>t, <1>k, <2>1, Goroutine DEF PhaseInv, Copying
<1>16. ASSUME NEW d \in Dir, EOF(d) PROVE PhaseInv'
  <2>1. Return(d, "ending", None)
    BY <1>16 DEF EOF
  <2>2. None \in Reason /\ "stalled" \in Reason /\ "error" \in Reason
    BY Places
  <2>3. copy[d].at = "copy"
    BY <1>16 DEF EOF
  <2>4. /\ UNCHANGED at /\ copy'[d].at = "ending" /\ copy'[d].why = None
        /\ \A e \in Dir : e # d => copy'[e] = copy[e]
    BY <1>k, <2>1, <2>2, Returns
  <2> QED BY <1>t, <2>3, <2>4 DEF PhaseInv, Copying
<1>17. ASSUME NEW d \in Dir, ReadTimeout(d) PROVE PhaseInv'
  <2>1. Return(d, "judge", None)
    BY <1>17 DEF ReadTimeout
  <2>2. None \in Reason /\ "stalled" \in Reason /\ "error" \in Reason
    BY Places
  <2>3. copy[d].at = "copy"
    BY <1>17 DEF ReadTimeout
  <2>4. /\ UNCHANGED at /\ copy'[d].at = "judge" /\ copy'[d].why = None
        /\ \A e \in Dir : e # d => copy'[e] = copy[e]
    BY <1>k, <2>1, <2>2, Returns
  <2> QED BY <1>t, <2>3, <2>4 DEF PhaseInv, Copying
<1>18. ASSUME NEW d \in Dir, WriteTimeout(d) PROVE PhaseInv'
  <2>1. Return(d, "ending", "stalled")
    BY <1>18 DEF WriteTimeout
  <2>2. None \in Reason /\ "stalled" \in Reason /\ "error" \in Reason
    BY Places
  <2>3. copy[d].at = "copy"
    BY <1>18 DEF WriteTimeout
  <2>4. /\ UNCHANGED at /\ copy'[d].at = "ending" /\ copy'[d].why = "stalled"
        /\ \A e \in Dir : e # d => copy'[e] = copy[e]
    BY <1>k, <2>1, <2>2, Returns
  <2> QED BY <1>t, <2>3, <2>4 DEF PhaseInv, Copying
<1>19. ASSUME NEW d \in Dir, Broken(d) PROVE PhaseInv'
  <2>1. Return(d, "ending", "error")
    BY <1>19 DEF Broken
  <2>2. None \in Reason /\ "stalled" \in Reason /\ "error" \in Reason
    BY Places
  <2>3. copy[d].at = "copy"
    BY <1>19 DEF Broken
  <2>4. /\ UNCHANGED at /\ copy'[d].at = "ending" /\ copy'[d].why = "error"
        /\ \A e \in Dir : e # d => copy'[e] = copy[e]
    BY <1>k, <2>1, <2>2, Returns
  <2> QED BY <1>t, <2>3, <2>4 DEF PhaseInv, Copying
<1>20. ASSUME NEW d \in Dir, Judge(d) PROVE PhaseInv'
  <2>1. UNCHANGED at
    BY <1>20 DEF Judge, Outside, handshake
  <2> QED BY <1>20, <1>t, <1>k, <2>1, Goroutine DEF PhaseInv, Copying
<1>21. ASSUME NEW d \in Dir, Report(d) PROVE PhaseInv'
  <2>1. UNCHANGED at
    BY <1>21 DEF Report, Outside, handshake
  <2> QED BY <1>21, <1>t, <1>k, <2>1, Goroutine DEF PhaseInv, Copying
<1>22. CASE FirstEnd
  <2>1. at \in Running /\ at' \in {"second", "done"} /\ UNCHANGED copy
    BY <1>22 DEF FirstEnd, Goto, Running
  <2> QED BY <1>t, <2>1 DEF PhaseInv, Running
<1>23. CASE SecondEnd
  <2>1. at \in Running /\ at' \in {"second", "done"} /\ UNCHANGED copy
    BY <1>23 DEF SecondEnd, Goto, Running
  <2> QED BY <1>t, <2>1 DEF PhaseInv, Running
<1>24. ASSUME NEW d \in Dir, Sends(d) PROVE PhaseInv'
  BY <1>24, <1>t DEF Sends, handshake, PhaseInv
<1>25. ASSUME NEW d \in Dir, Fin(d) PROVE PhaseInv'
  BY <1>25, <1>t DEF Fin, handshake, PhaseInv
<1>26. ASSUME NEW peer \in Peer, Reset(peer) PROVE PhaseInv'
  BY <1>26, <1>t DEF Reset, handshake, PhaseInv
<1>27. CASE Tick
  <2>1. UNCHANGED at
    BY <1>27 DEF Tick, handshake
  <2> QED BY <1>27, <1>t, <1>k, <2>1, Ticks DEF PhaseInv
<1> QED
  BY <1>0, <1>1, <1>2, <1>3, <1>4, <1>5, <1>6, <1>7, <1>8, <1>9, <1>10, <1>11,
     <1>12, <1>13, <1>14, <1>15, <1>16, <1>17, <1>18, <1>19, <1>20, <1>21, <1>22, <1>23,
     <1>24, <1>25, <1>26, <1>27, Steps

\* The chunks stay in order.
LEMMA DataStep == IInv /\ [Next]_vars => DataInv'
<1> SUFFICES ASSUME IInv, [Next]_vars PROVE DataInv'
  OBVIOUS
<1>t. TypeOK /\ ToldInv /\ PhaseInv /\ DataInv
  BY DEF IInv
<1>k. copy \in [Dir -> CopyType] /\ count \in [Dir -> Nat]
  BY <1>t, Types
<1>r. read \in [Dir -> Nat] /\ got \in [Dir -> Seq(Nat)] /\ sent \in [Dir -> Nat]
  BY <1>t, Types
<1>a. ahead \in [Dir -> Seq(Nat)]
  BY <1>t, Types
<1>0. CASE UNCHANGED vars
  <2>1. UNCHANGED <<at, read, got, ahead, fin, sent, copy>>
    BY <1>0 DEF vars, handshake, peers
  <2> QED BY <1>t, <2>1, DataSame DEF DataInv, ToDrain
<1>1. CASE NotOurs
  <2>1. /\ UNCHANGED <<read, got, ahead, fin, sent, copy>>
        /\ at' \notin {"drainUp"} /\ at \in Before
    BY <1>1 DEF NotOurs, Goto, Spend, Tunnel, peers, Before
  <2> QED BY <1>t, <2>1, DataSame DEF DataInv, ToDrain
<1>2. CASE Upgrade
  <2>1. /\ UNCHANGED <<read, got, ahead, fin, sent, copy>>
        /\ at' \notin {"drainUp"} /\ at \in Before
    BY <1>2 DEF Upgrade, Goto, Tunnel, peers, Before
  <2> QED BY <1>t, <2>1, DataSame DEF DataInv, ToDrain
<1>3. CASE dial
  <2>1. /\ UNCHANGED <<read, got, ahead, fin, sent, copy>>
        /\ at' \notin {"drainUp"} /\ at \in Before
    BY <1>3 DEF dial, Goto, Tunnel, peers, Before
  <2> QED BY <1>t, <2>1, DataSame DEF DataInv, ToDrain
<1>4. CASE WriteRequest
  <2>1. /\ UNCHANGED <<read, got, ahead, fin, sent, copy>>
        /\ at' \notin {"drainUp"} /\ at \in Before
    BY <1>4 DEF WriteRequest, Goto, Spend, Tunnel, peers, Before
  <2> QED BY <1>t, <2>1, DataSame DEF DataInv, ToDrain
<1>5. CASE NoAnswer
  <2>1. /\ UNCHANGED <<read, got, ahead, fin, sent, copy>>
        /\ at' \notin {"drainUp"} /\ at \in Before
    BY <1>5 DEF NoAnswer, Goto, Spend, Tunnel, peers, Before
  <2> QED BY <1>t, <2>1, DataSame DEF DataInv, ToDrain
<1>6. CASE Refused
  <2>1. /\ UNCHANGED <<read, got, ahead, fin, sent, copy>>
        /\ at' \notin {"drainUp"} /\ at \in Before
    BY <1>6 DEF Refused, Goto, Tell, Tunnel, peers, Before
  <2> QED BY <1>t, <2>1, DataSame DEF DataInv, ToDrain
<1>7. CASE Accepted
  <2>1. /\ UNCHANGED <<got, fin, sent, copy>> /\ at \in Before /\ at' \notin {"drainUp",
                       "drainDown"}
    BY <1>7 DEF Accepted, Goto, ReadAhead, Tunnel, peers, Before
  <2>2. read'["up"] = read["up"] /\ ahead'["up"] = ahead["up"]
    BY <1>7, <1>r, <1>a, DirFacts DEF Accepted, ReadAhead
  <2>3. DataOf("down") /\ DataOf("up")
    BY <1>t, DirFacts DEF DataInv
  <2>4. DataOf("up")'
    BY <2>1, <2>2, <2>3, DirFacts, DataSame DEF ToDrain
  <2>6. CASE ReadAhead("down")
    <3>1. PICK m \in 0 .. sent["down"] :
            /\ read' = [read EXCEPT !["down"] = m]
            /\ ahead' = [ahead EXCEPT !["down"] = [i \in 1 .. m |-> i]]
      BY <2>6 DEF ReadAhead
    <3>2. m \in Nat
      BY <1>r, DirFacts
    <3>3. read'["down"] = m /\ ahead'["down"] = [i \in 1 .. m |-> i]
      BY <1>r, <1>a, <3>1, DirFacts
    <3>4. Counts(ahead'["down"], read'["down"])
      BY <3>2, <3>3 DEF Counts
    <3>5. got["down"] = <<>> /\ copy["down"].at = "off" /\ copy["down"].pipe = <<>>
      BY <1>t, <2>1, <2>3, DirFacts DEF DataOf, ToDrain, PhaseInv, Before, Running
    <3>6. DataOf("down")'
      BY <2>1, <3>4, <3>5 DEF DataOf, Copying
    <3> QED BY <2>4, <3>6 DEF DataInv, Dir
  <2> QED BY <1>7, <2>6 DEF Accepted
<1>8. CASE Hijack
  <2>1. /\ UNCHANGED <<got, fin, sent, copy>> /\ at \in Before /\ at' \notin {"drainUp",
                       "drainDown"}
    BY <1>8 DEF Hijack, Goto, Tell, Spend, ReadAhead, Tunnel, peers, Before
  <2>2. read'["down"] = read["down"] /\ ahead'["down"] = ahead["down"]
    BY <1>8, <1>r, <1>a, DirFacts DEF Hijack, ReadAhead
  <2>3. DataOf("up") /\ DataOf("down")
    BY <1>t, DirFacts DEF DataInv
  <2>4. DataOf("down")'
    BY <2>1, <2>2, <2>3, DirFacts, DataSame DEF ToDrain
  <2>5. CASE UNCHANGED <<read, ahead>>
    BY <2>1, <2>3, <2>4, <2>5, DirFacts, DataSame DEF ToDrain, DataInv, Dir
  <2>6. CASE ReadAhead("up")
    <3>1. PICK m \in 0 .. sent["up"] :
            /\ read' = [read EXCEPT !["up"] = m]
            /\ ahead' = [ahead EXCEPT !["up"] = [i \in 1 .. m |-> i]]
      BY <2>6 DEF ReadAhead
    <3>2. m \in Nat
      BY <1>r, DirFacts
    <3>3. read'["up"] = m /\ ahead'["up"] = [i \in 1 .. m |-> i]
      BY <1>r, <1>a, <3>1, DirFacts
    <3>4. Counts(ahead'["up"], read'["up"])
      BY <3>2, <3>3 DEF Counts
    <3>5. got["up"] = <<>> /\ copy["up"].at = "off" /\ copy["up"].pipe = <<>>
      BY <1>t, <2>1, <2>3, DirFacts DEF DataOf, ToDrain, PhaseInv, Before, Running
    <3>6. DataOf("up")'
      BY <2>1, <3>4, <3>5 DEF DataOf, Copying
    <3> QED BY <2>4, <3>6 DEF DataInv, Dir
  <2> QED BY <1>8, <2>5, <2>6 DEF Hijack
<1>9. CASE writeUpgradeResponse
  <2>1. /\ UNCHANGED <<read, got, ahead, fin, sent, copy>>
        /\ at' \notin {"drainUp"} /\ at \in Before
    BY <1>9 DEF writeUpgradeResponse, Goto, Tell, Spend, Abandon, Tunnel, peers, Before
  <2> QED BY <1>t, <2>1, DataSame DEF DataInv, ToDrain
<1>10. CASE DrainDown
  <2>1. at = "drainDown" /\ UNCHANGED <<read, fin, sent>>
    BY <1>10 DEF DrainDown, drainBuffered, peers
  <2>2. DataOf("down") /\ DataOf("up")
    BY <1>t, DirFacts DEF DataInv
  <2>3. got["down"] = <<>> /\ Counts(ahead["down"], read["down"]) /\ ahead["down"] \in Seq(Nat)
    BY <1>a, <2>1, <2>2, DirFacts DEF DataOf, ToDrain, Before
  <2>4. \A d \in Dir : copy[d].at = "off"
    BY <1>t, <2>1 DEF PhaseInv, Running
  <2>5. copy["down"].pipe = <<>> /\ copy["up"].pipe = <<>>
    BY <2>2, <2>4, DirFacts DEF DataOf
  <2>6. CASE /\ got' = [got EXCEPT !["down"] = got["down"] \o ahead["down"]]
             /\ ahead' = [ahead EXCEPT !["down"] = <<>>]
             /\ at' = "drainUp"
    <3>1. got'["down"] = ahead["down"]
      BY <1>r, <2>3, <2>6, DirFacts, ConcatEmptySeq
    <3>2. /\ Len(got'["down"]) = read'["down"]
          /\ \A i \in 1 .. Len(got'["down"]) : got'["down"][i] = i
      BY <2>1, <2>3, <3>1 DEF Counts
    <3>3. got'["up"] = got["up"] /\ ahead'["up"] = ahead["up"]
      BY <1>r, <1>a, <2>6, DirFacts
    <3>4. UNCHANGED copy
      BY <1>10 DEF DrainDown
    <3>5. DataOf("down")'
      BY <2>1, <2>4, <2>5, <2>6, <3>2, <3>4, DirFacts DEF DataOf, ToDrain, Before, Copying
    <3>6. DataOf("up")'
      BY <2>1, <2>2, <2>4, <2>5, <2>6, <3>3, <3>4, DirFacts DEF DataOf, ToDrain, Before, Copying,
         Counts
    <3> QED BY <3>5, <3>6 DEF DataInv, Dir
  <2>7. CASE /\ \E m \in 0 .. Len(ahead["down"]) :
                  got' = [got EXCEPT !["down"] = got["down"] \o SubSeq(ahead["down"], 1, m)]
             /\ at' = "done" /\ UNCHANGED ahead
    <3>1. PICK m \in 0 .. Len(ahead["down"]) :
            got' = [got EXCEPT !["down"] = got["down"] \o SubSeq(ahead["down"], 1, m)]
      BY <2>7
    <3>2. got'["down"] = <<>> \o SubSeq(ahead["down"], 1, m)
      BY <1>r, <2>3, <3>1, DirFacts
    <3>3. \A i \in 1 .. Len(got'["down"]) : got'["down"][i] = i
      BY <2>3, <3>2, Prefix DEF Counts
    <3>4. got'["up"] = got["up"] /\ UNCHANGED copy
      BY <1>10, <1>r, <2>7, <3>1, DirFacts DEF DrainDown
    <3>5. DataOf("down")'
      BY <2>4, <2>5, <2>7, <3>3, <3>4, DirFacts, DataOff
    <3>6. DataOf("up")'
      <4>1. \A i \in 1 .. Len(got'["up"]) : got'["up"][i] = i
        BY <2>2, <3>4 DEF DataOf
      <4> QED BY <2>4, <2>5, <2>7, <3>4, <4>1, DirFacts, DataOff
    <3> QED BY <3>5, <3>6 DEF DataInv, Dir
  <2> QED BY <1>10, <2>6, <2>7 DEF DrainDown, drainBuffered, Goto, Abandon
<1>11. CASE DrainUp
  <2>1. at = "drainUp" /\ UNCHANGED <<read, fin, sent>>
    BY <1>11 DEF DrainUp, drainBuffered, peers
  <2>2. DataOf("up") /\ DataOf("down")
    BY <1>t, DirFacts DEF DataInv
  <2>3. got["up"] = <<>> /\ Counts(ahead["up"], read["up"]) /\ ahead["up"] \in Seq(Nat)
    BY <1>a, <2>1, <2>2, DirFacts DEF DataOf, ToDrain, Before
  <2>4. \A d \in Dir : copy[d].at = "off"
    BY <1>t, <2>1 DEF PhaseInv, Running
  <2>5. copy["up"].pipe = <<>> /\ copy["down"].pipe = <<>>
    BY <2>2, <2>4, DirFacts DEF DataOf
  <2>6. CASE /\ got' = [got EXCEPT !["up"] = got["up"] \o ahead["up"]]
             /\ ahead' = [ahead EXCEPT !["up"] = <<>>]
             /\ at' = "first"
    <3>1. got'["up"] = ahead["up"]
      BY <1>r, <2>3, <2>6, DirFacts, ConcatEmptySeq
    <3>2. /\ Len(got'["up"]) = read'["up"]
          /\ \A i \in 1 .. Len(got'["up"]) : got'["up"][i] = i
      BY <2>1, <2>3, <3>1 DEF Counts
    <3>3. got'["down"] = got["down"] /\ ahead'["down"] = ahead["down"]
      BY <1>r, <1>a, <2>6, DirFacts
    <3>4. \A d \in Dir : copy'[d].at = "round" /\ copy'[d].pipe = <<>> /\ copy'[d].why = None
      BY <1>11, <2>6 DEF DrainUp, Idle
    <3>5. /\ Len(got'["down"]) = read'["down"]
          /\ \A i \in 1 .. Len(got'["down"]) : got'["down"][i] = i
      BY <2>1, <2>2, <3>3, DirFacts DEF DataOf
    <3>6. read'["up"] \in Nat /\ read'["down"] \in Nat
      BY <1>r, <2>1, DirFacts
    <3>7. DataOf("up")' /\ DataOf("down")'
      BY <2>6, <3>2, <3>4, <3>5, <3>6, DirFacts, DataStarts
    <3> QED BY <3>7 DEF DataInv, Dir
  <2>7. CASE /\ \E m \in 0 .. Len(ahead["up"]) :
                  got' = [got EXCEPT !["up"] = got["up"] \o SubSeq(ahead["up"], 1, m)]
             /\ at' = "done" /\ UNCHANGED ahead
    <3>1. PICK m \in 0 .. Len(ahead["up"]) :
            got' = [got EXCEPT !["up"] = got["up"] \o SubSeq(ahead["up"], 1, m)]
      BY <2>7
    <3>2. got'["up"] = <<>> \o SubSeq(ahead["up"], 1, m)
      BY <1>r, <2>3, <3>1, DirFacts
    <3>3. \A i \in 1 .. Len(got'["up"]) : got'["up"][i] = i
      BY <2>3, <3>2, Prefix DEF Counts
    <3>4. got'["down"] = got["down"] /\ UNCHANGED copy
      BY <1>11, <1>r, <2>7, <3>1, DirFacts DEF DrainUp
    <3>5. DataOf("up")'
      BY <2>4, <2>5, <2>7, <3>3, <3>4, DirFacts, DataOff
    <3>6. DataOf("down")'
      <4>1. \A i \in 1 .. Len(got'["down"]) : got'["down"][i] = i
        BY <2>2, <3>4 DEF DataOf
      <4> QED BY <2>4, <2>5, <2>7, <3>4, <4>1, DirFacts, DataOff
    <3> QED BY <3>5, <3>6 DEF DataInv, Dir
  <2> QED BY <1>11, <2>6, <2>7 DEF DrainUp, drainBuffered, Goto, Abandon
<1>12. CASE ServeNext
  <2>1. /\ UNCHANGED <<read, got, ahead, fin, sent, copy>>
        /\ at' \notin {"drainUp"} /\ at \in Before
    BY <1>12 DEF ServeNext, Goto, Tell, Tunnel, peers, Before
  <2> QED BY <1>t, <2>1, DataSame DEF DataInv, ToDrain
<1>13. ASSUME NEW d \in Dir, Round(d) PROVE DataInv'
  <2>u. /\ UNCHANGED <<at, read, got, ahead, fin, sent>>
    BY <1>13 DEF Round, Outside, handshake, peers
  <2>o. \A e \in Dir : e # d => DataOf(e)'
    BY <1>13, <1>t, <1>k, <2>u, Goroutine, DataSame DEF DataInv, ToDrain
  <2>d. DataOf(d)
    BY <1>t DEF DataInv
  <2>c. DataOf(d)'
    BY <1>13, <1>t, <1>k, <2>u, <2>d, Goroutine, Places, TunnelAssumption DEF DataOf, ToDrain,
       Counts, Copying, PhaseInv
  <2> QED BY <2>o, <2>c DEF DataInv
<1>14. ASSUME NEW d \in Dir, Read(d) PROVE DataInv'
  <2>u. /\ UNCHANGED <<at, got, ahead, fin, sent>>
        /\ \A e \in Dir : e # d => read'[e] = read[e]
    BY <1>14 DEF Read, Outside, handshake, peers
  <2>o. \A e \in Dir : e # d => DataOf(e)'
    BY <1>14, <1>t, <1>k, <2>u, Goroutine, DataSame DEF DataInv, ToDrain
  <2>d. DataOf(d)
    BY <1>t DEF DataInv
  <2>1. read'[d] = read[d] + 1 /\ copy[d].at = "copy" /\ copy[d].pipe = <<>>
    BY <1>14, <1>r DEF Read
  <2>2. copy'[d].at = "copy" /\ copy'[d].pipe = <<read'[d]>> /\ copy'[d].why = copy[d].why
    BY <1>14, <1>k, <2>1, Goroutine
  <2>3. Len(got[d]) = read[d] /\ Len(copy'[d].pipe) = 1
    BY <1>r, <2>d, <2>1, <2>2 DEF DataOf, Copying
  <2>4. ~ToDrain(d)' /\ at' # "drainUp"
    BY <1>t, <2>1, <2>u DEF PhaseInv, ToDrain, Before, Running
  <2>c. DataOf(d)'
    BY <1>r, <2>d, <2>u, <2>1, <2>2, <2>3, <2>4 DEF DataOf, Copying
  <2> QED BY <2>o, <2>c DEF DataInv
<1>15. ASSUME NEW d \in Dir, Write(d) PROVE DataInv'
  <2>u. /\ UNCHANGED <<at, read, ahead, fin, sent>>
        /\ \A e \in Dir : e # d => got'[e] = got[e]
    BY <1>15 DEF Write, Outside, handshake, peers
  <2>o. \A e \in Dir : e # d => DataOf(e)'
    BY <1>15, <1>t, <1>k, <2>u, Goroutine, DataSame DEF DataInv, ToDrain
  <2>d. DataOf(d)
    BY <1>t DEF DataInv
  <2>1. copy[d].at = "copy" /\ copy[d].pipe = <<read[d]>>
    BY <1>15, <2>d DEF Write, DataOf
  <2>2. copy'[d].at \in {"round", "copy"} /\ copy'[d].pipe = <<>> /\ copy'[d].why = copy[d].why
    BY <1>15, <1>k, Goroutine
  <2>3. got'[d] = got[d] \o <<read[d]>>
    BY <1>15, <1>r, <2>1 DEF Write
  <2>4. Len(got[d]) + 1 = read[d] /\ got[d] \in Seq(Nat) /\ read[d] \in Nat
    BY <1>r, <2>d, <2>1 DEF DataOf, Copying
  <2>5. /\ Len(got'[d]) = Len(got[d]) + 1
        /\ \A i \in 1 .. Len(got[d]) : got'[d][i] = got[d][i]
        /\ got'[d][Len(got[d]) + 1] = read[d]
    BY <2>3, <2>4, OneMore
  <2>6. \A i \in 1 .. Len(got'[d]) : got'[d][i] = i
    <3>1. \A i \in 1 .. Len(got[d]) : got[d][i] = i
      BY <2>d DEF DataOf
    <3>2. \A i \in 1 .. Len(got'[d]) : i \in 1 .. Len(got[d]) \/ i = Len(got[d]) + 1
      BY <2>4, <2>5
    <3> QED BY <2>4, <2>5, <3>1, <3>2
  <2>7. ~ToDrain(d)' /\ at' # "drainUp"
    BY <1>t, <2>1, <2>u DEF PhaseInv, ToDrain, Before, Running
  <2>c. DataOf(d)'
    BY <1>r, <2>u, <2>2, <2>4, <2>5, <2>6, <2>7 DEF DataOf, Copying
  <2> QED BY <2>o, <2>c DEF DataInv
<1>16. ASSUME NEW d \in Dir, EOF(d) PROVE DataInv'
  <2>1. Return(d, "ending", None)
    BY <1>16 DEF EOF
  <2>2. None \in Reason /\ "stalled" \in Reason /\ "error" \in Reason
    BY Places
  <2>3. copy[d].at = "copy"
    BY <1>16 DEF EOF
  <2>4. /\ UNCHANGED <<at, read, got, ahead, fin,
                       sent>> /\ copy'[d].at = "ending" /\ copy'[d].why = None
        /\ copy'[d].pipe = <<>>
        /\ \A e \in Dir : e # d => copy'[e] = copy[e]
    BY <1>k, <2>1, <2>2, Returns
  <2>o. \A e \in Dir : e # d => DataOf(e)'
    BY <1>t, <2>4, DataSame DEF DataInv, ToDrain
  <2>d. DataOf(d)
    BY <1>t DEF DataInv
  <2>5. ~ToDrain(d)' /\ at' # "drainUp"
    BY <1>t, <2>3, <2>4 DEF PhaseInv, ToDrain, Before, Running
  <2>6. fin[d] /\ read[d] = sent[d] /\ copy[d].pipe = <<>>
    BY <1>16 DEF EOF
  <2>7. Len(got[d]) = read[d]
    BY <1>r, <2>d, <2>3, <2>6 DEF DataOf, Copying
  <2>8. DataOf(d)'
    BY <1>r, <2>d, <2>4, <2>5, <2>6, <2>7 DEF DataOf, Copying
  <2> QED BY <2>o, <2>8 DEF DataInv
<1>17. ASSUME NEW d \in Dir, ReadTimeout(d) PROVE DataInv'
  <2>1. Return(d, "judge", None)
    BY <1>17 DEF ReadTimeout
  <2>2. None \in Reason /\ "stalled" \in Reason /\ "error" \in Reason
    BY Places
  <2>3. copy[d].at = "copy"
    BY <1>17 DEF ReadTimeout
  <2>4. /\ UNCHANGED <<at, read, got, ahead, fin,
                       sent>> /\ copy'[d].at = "judge" /\ copy'[d].why = None
        /\ copy'[d].pipe = <<>>
        /\ \A e \in Dir : e # d => copy'[e] = copy[e]
    BY <1>k, <2>1, <2>2, Returns
  <2>o. \A e \in Dir : e # d => DataOf(e)'
    BY <1>t, <2>4, DataSame DEF DataInv, ToDrain
  <2>d. DataOf(d)
    BY <1>t DEF DataInv
  <2>5. ~ToDrain(d)' /\ at' # "drainUp"
    BY <1>t, <2>3, <2>4 DEF PhaseInv, ToDrain, Before, Running
  <2>6. copy[d].pipe = <<>>
    BY <1>17 DEF ReadTimeout
  <2>7. Len(got[d]) = read[d] /\ copy'[d].at \notin {"ending", "done"}
    BY <1>r, <2>d, <2>3, <2>4, <2>6 DEF DataOf, Copying
  <2>8. DataOf(d)'
    BY <1>r, <2>d, <2>4, <2>5, <2>6, <2>7 DEF DataOf, Copying
  <2> QED BY <2>o, <2>8 DEF DataInv
<1>18. ASSUME NEW d \in Dir, WriteTimeout(d) PROVE DataInv'
  <2>1. Return(d, "ending", "stalled")
    BY <1>18 DEF WriteTimeout
  <2>2. None \in Reason /\ "stalled" \in Reason /\ "error" \in Reason
    BY Places
  <2>3. copy[d].at = "copy"
    BY <1>18 DEF WriteTimeout
  <2>4. /\ UNCHANGED <<at, read, got, ahead, fin,
                       sent>> /\ copy'[d].at = "ending" /\ copy'[d].why = "stalled"
        /\ copy'[d].pipe = <<>>
        /\ \A e \in Dir : e # d => copy'[e] = copy[e]
    BY <1>k, <2>1, <2>2, Returns
  <2>o. \A e \in Dir : e # d => DataOf(e)'
    BY <1>t, <2>4, DataSame DEF DataInv, ToDrain
  <2>d. DataOf(d)
    BY <1>t DEF DataInv
  <2>5. ~ToDrain(d)' /\ at' # "drainUp"
    BY <1>t, <2>3, <2>4 DEF PhaseInv, ToDrain, Before, Running
  <2>6. copy'[d].why # None
    BY <2>4, TunnelAssumption
  <2>7. copy'[d].at \notin Copying
    BY <2>4 DEF Copying
  <2>8. DataOf(d)'
    BY <1>r, <2>d, <2>4, <2>5, <2>6, <2>7 DEF DataOf, Copying
  <2> QED BY <2>o, <2>8 DEF DataInv
<1>19. ASSUME NEW d \in Dir, Broken(d) PROVE DataInv'
  <2>1. Return(d, "ending", "error")
    BY <1>19 DEF Broken
  <2>2. None \in Reason /\ "stalled" \in Reason /\ "error" \in Reason
    BY Places
  <2>3. copy[d].at = "copy"
    BY <1>19 DEF Broken
  <2>4. /\ UNCHANGED <<at, read, got, ahead, fin,
                       sent>> /\ copy'[d].at = "ending" /\ copy'[d].why = "error"
        /\ copy'[d].pipe = <<>>
        /\ \A e \in Dir : e # d => copy'[e] = copy[e]
    BY <1>k, <2>1, <2>2, Returns
  <2>o. \A e \in Dir : e # d => DataOf(e)'
    BY <1>t, <2>4, DataSame DEF DataInv, ToDrain
  <2>d. DataOf(d)
    BY <1>t DEF DataInv
  <2>5. ~ToDrain(d)' /\ at' # "drainUp"
    BY <1>t, <2>3, <2>4 DEF PhaseInv, ToDrain, Before, Running
  <2>6. copy'[d].why # None
    BY <2>4, TunnelAssumption
  <2>7. copy'[d].at \notin Copying
    BY <2>4 DEF Copying
  <2>8. DataOf(d)'
    BY <1>r, <2>d, <2>4, <2>5, <2>6, <2>7 DEF DataOf, Copying
  <2> QED BY <2>o, <2>8 DEF DataInv
<1>20. ASSUME NEW d \in Dir, Judge(d) PROVE DataInv'
  <2>u. /\ UNCHANGED <<at, read, got, ahead, fin, sent>>
    BY <1>20 DEF Judge, Outside, handshake, peers
  <2>o. \A e \in Dir : e # d => DataOf(e)'
    BY <1>20, <1>t, <1>k, <2>u, Goroutine, DataSame DEF DataInv, ToDrain
  <2>d. DataOf(d)
    BY <1>t DEF DataInv
  <2>c. DataOf(d)'
    BY <1>20, <1>t, <1>k, <2>u, <2>d, Goroutine, Places, TunnelAssumption DEF DataOf, ToDrain,
       Counts, Copying, PhaseInv
  <2> QED BY <2>o, <2>c DEF DataInv
<1>21. ASSUME NEW d \in Dir, Report(d) PROVE DataInv'
  <2>u. /\ UNCHANGED <<at, read, got, ahead, fin, sent>>
    BY <1>21 DEF Report, Outside, handshake, peers
  <2>o. \A e \in Dir : e # d => DataOf(e)'
    BY <1>21, <1>t, <1>k, <2>u, Goroutine, DataSame DEF DataInv, ToDrain
  <2>d. DataOf(d)
    BY <1>t DEF DataInv
  <2>c. DataOf(d)'
    BY <1>21, <1>t, <1>k, <2>u, <2>d, Goroutine, Places, TunnelAssumption DEF DataOf, ToDrain,
       Counts, Copying, PhaseInv
  <2> QED BY <2>o, <2>c DEF DataInv
<1>22. CASE FirstEnd
  <2>1. /\ UNCHANGED <<read, got, ahead, fin, sent, copy>>
        /\ at \in Running /\ at' \in {"second", "done"}
    BY <1>22 DEF FirstEnd, Goto, peers, Running
  <2> QED BY <1>t, <2>1, DataSame DEF DataInv, ToDrain, Before
<1>23. CASE SecondEnd
  <2>1. /\ UNCHANGED <<read, got, ahead, fin, sent, copy>>
        /\ at \in Running /\ at' \in {"second", "done"}
    BY <1>23 DEF SecondEnd, Goto, peers, Running
  <2> QED BY <1>t, <2>1, DataSame DEF DataInv, ToDrain, Before
<1>24. ASSUME NEW d \in Dir, Sends(d) PROVE DataInv'
  <2>1. UNCHANGED <<at, read, got, ahead, fin, copy>> /\ ~fin[d]
    BY <1>24 DEF Sends, handshake
  <2>2. \A e \in Dir : e # d => sent'[e] = sent[e]
    BY <1>24 DEF Sends
  <2>3. \A e \in Dir : e # d => DataOf(e)'
    BY <1>t, <2>1, <2>2, DataSame DEF DataInv, ToDrain
  <2>4. DataOf(d)'
    BY <1>t, <2>1 DEF DataInv, DataOf, ToDrain, Counts
  <2> QED BY <2>3, <2>4 DEF DataInv
<1>25. ASSUME NEW d \in Dir, Fin(d) PROVE DataInv'
  <2>1. UNCHANGED <<at, read, got, ahead, sent, copy>> /\ ~fin[d]
    BY <1>25 DEF Fin, handshake
  <2>2. \A e \in Dir : e # d => fin'[e] = fin[e]
    BY <1>25 DEF Fin
  <2>3. \A e \in Dir : e # d => DataOf(e)'
    BY <1>t, <2>1, <2>2, DataSame DEF DataInv, ToDrain
  <2>4. DataOf(d)'
    BY <1>t, <2>1 DEF DataInv, DataOf, ToDrain, Counts
  <2> QED BY <2>3, <2>4 DEF DataInv
<1>26. ASSUME NEW peer \in Peer, Reset(peer) PROVE DataInv'
  <2>1. UNCHANGED <<at, read, got, ahead, fin, sent, copy>>
    BY <1>26 DEF Reset, handshake
  <2> QED BY <1>t, <2>1, DataSame DEF DataInv, ToDrain
<1>27. CASE Tick
  <2>1. UNCHANGED <<at, read, got, ahead, fin, sent>>
    BY <1>27 DEF Tick, handshake, peers
  <2> QED BY <1>27, <1>t, <1>k, <2>1, Ticks, DataSame DEF DataInv, ToDrain
<1> QED
  BY <1>0, <1>1, <1>2, <1>3, <1>4, <1>5, <1>6, <1>7, <1>8, <1>9, <1>10, <1>11,
     <1>12, <1>13, <1>14, <1>15, <1>16, <1>17, <1>18, <1>19, <1>20, <1>21, <1>22, <1>23,
     <1>24, <1>25, <1>26, <1>27, Steps

----------------------------------------------------------------------------

\* The invariant holds when the request arrives.
LEMMA InitIInv == Init => IInv
<1> SUFFICES ASSUME Init PROVE IInv
  OBVIOUS
<1>1. TypeOK
  <2>1. copy \in [Dir -> CopyType]
    BY IdleType DEF Init
  <2>2. /\ sent \in [Dir -> Nat] /\ read \in [Dir -> Nat] /\ count \in [Dir -> Nat]
        /\ ahead \in [Dir -> Seq(Nat)] /\ got \in [Dir -> Seq(Nat)] /\ fin \in [Dir -> BOOLEAN]
    BY EmptyPipe DEF Init
  <2>3. at \in AtPC /\ asked \in Nat /\ quiet \in Nat /\ budget \in Nat
    BY TunnelAssumption DEF Init, AtPC
  <2>4. told \in Seq(Answer) /\ endc \in Seq(Dir)
    BY DEF Init
  <2>5. reset \in SUBSET Peer /\ closed \in SUBSET Peer
    BY DEF Init
  <2> QED BY <2>1, <2>2, <2>3, <2>4, <2>5, Types
<1>2. \A d \in Dir : copy[d].at = "off" /\ copy[d].pipe = <<>> /\ copy[d].why = None
  BY DEF Init, Idle
<1>3. /\ at = "start" /\ told = <<>>
      /\ \A d \in Dir : got[d] = <<>> /\ ahead[d] = <<>> /\ read[d] = 0
  BY DEF Init
<1>4. ToldInv
  BY <1>2, <1>3, Strings DEF ToldInv, After, Running
<1>5. PhaseInv
  BY <1>2, <1>3 DEF PhaseInv, Running
<1>6. DataInv
  <2>1. ASSUME NEW d \in Dir PROVE DataOf(d)
    <3>1. Counts(ahead[d], read[d]) /\ got[d] = <<>> /\ Len(got[d]) = 0
      BY <1>3, Strings DEF Counts
    <3> QED BY <1>2, <1>3, <3>1 DEF DataOf, Copying
  <2> QED BY <2>1 DEF DataInv
<1> QED BY <1>1, <1>4, <1>5, <1>6 DEF IInv

\* The inductive invariant of a tunnel.
THEOREM SpecIInv == Spec => []IInv
<1>1. IInv /\ [Next]_vars => IInv'
  BY TypeStep, ToldStep, PhaseStep, DataStep DEF IInv
<1> QED BY InitIInv, <1>1, PTL DEF Spec

\* The handshake, the copies and the sockets are well typed (wsproxy.go).
THEOREM TypeCorrect == Spec => []TypeOK
<1>1. IInv => TypeOK
  BY DEF IInv
<1> QED BY <1>1, SpecIInv, PTL

\* A client is answered once, a destination gets its source's chunks in order
\* and without a gap, and all of them when the direction ended cleanly
\* (handleWSUpgrade, drainBuffered, copyTunnel).
THEOREM Intact == Spec => []BytesIntact
<1>1. ASSUME IInv PROVE BytesIntact
  <2>1. Len(told) <= 1
    <3>1. at \in Before \cup After \cup {"done"} /\ ToldInv
      BY <1>1, Types DEF IInv, AtPC, Before, After, Running
    <3>2. told = <<>> \/ told = <<"101">> \/ Len(told) <= 1
      BY <3>1 DEF ToldInv
    <3>3. CASE told = <<>>
      BY <3>3, NoneAnswered
    <3>4. CASE told = <<"101">>
      BY <3>4, OneAnswered
    <3> QED BY <3>2, <3>3, <3>4
  <2>2. ASSUME NEW d \in Dir
        PROVE /\ got[d] # <<>> => told = <<"101">>
              /\ \A i \in 1 .. Len(got[d]) : got[d][i] = i
              /\ copy[d].at = "done" /\ copy[d].why = None => Len(got[d]) = sent[d]
    BY <1>1 DEF IInv, ToldInv, DataInv, DataOf
  <2> QED BY <2>1, <2>2 DEF BytesIntact
<1> QED BY <1>1, SpecIInv, PTL

=============================================================================
