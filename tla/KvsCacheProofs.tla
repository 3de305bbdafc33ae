--------------------------- MODULE KvsCacheProofs ---------------------------
(***************************************************************************)
(* Theorems about KvsCache for every number of requests, every set of      *)
(* rules and answers and every budget.                                     *)
(***************************************************************************)
EXTENDS KvsCache, FiniteSetTheorems, WellFoundedInduction, TLAPS

\* Next as one disjunction of the actions the proofs go through.
LEMMA Steps ==
  ASSUME Next
  PROVE \/ \E r \in Req :
             \/ Arrive(r) \/ Lookup(r) \/ Open(r) \/ Fetch(r) \/ FetchFails(r)
             \/ Rewrite(r) \/ LookForBackup(r) \/ backupOriginalOnce(r) \/ WriteBody(r)
             \/ streamToTemp(r) \/ writeCacheMeta(r) \/ WriteFails(r)
        \/ Reload \/ Crash \/ Purge
  BY DEF Next, HandleCache, handleCachedCache

----------------------------------------------------------------------------
(* Rewriting.                                                              *)

\* The recursion of sedApply: what the text is after the first n rules.
Rewriting(f, chosen, b, host) ==
  f = [n \in 0 .. Len(Order) |->
        IF n = 0 THEN b
        ELSE IF Order[n] \in chosen THEN Replace(f[n - 1], Order[n], host)
        ELSE f[n - 1]]

\* A rule without >host< in its new text replaces for every host the same.
LEMMA OnceIgnoresHost ==
  ASSUME NEW chosen, chosen \cap Each = {}, NEW b, NEW h1, NEW h2
  PROVE  sedApply(chosen, b, h1) = sedApply(chosen, b, h2)
<1>1. ASSUME NEW f PROVE Rewriting(f, chosen, b, h1) <=> Rewriting(f, chosen, b, h2)
  <2> DEFINE After(h) == [n \in 0 .. Len(Order) |->
               IF n = 0 THEN b
               ELSE IF Order[n] \in chosen THEN Replace(f[n - 1], Order[n], h)
               ELSE f[n - 1]]
  <2>1. \A c, rule : rule \in chosen => Replace(c, rule, h1) = Replace(c, rule, h2)
    <3> SUFFICES ASSUME NEW c, NEW rule, rule \in chosen
                 PROVE  Replace(c, rule, h1) = Replace(c, rule, h2)
      OBVIOUS
    <3>1. rule \notin Each
      OBVIOUS
    <3>2. \A h : (IF rule \in Each THEN h ELSE None) = None
      BY <3>1
    <3> QED BY <3>2, Zenon DEF Replace
  <2>2. After(h1) = After(h2)
    BY <2>1
  <2> QED BY <2>2 DEF Rewriting
<1>2. (CHOOSE f : Rewriting(f, chosen, b, h1)) = (CHOOSE f : Rewriting(f, chosen, b, h2))
  BY <1>1
<1> QED BY <1>2 DEF sedApply, Rewriting

\* What is stored and recorded of an answer is the same for every host.
LEMMA StoredForAllHosts ==
  ASSUME NEW chosen, NEW raw, NEW h1, NEW h2
  PROVE  /\ sedPipeline(chosen, raw, h1).store = sedPipeline(chosen, raw, h2).store
         /\ sedPipeline(chosen, raw, h1).plan = sedPipeline(chosen, raw, h2).plan
<1> DEFINE text == Decoded(raw)
           baked(h) == sedApply(chosen \ Each, text, h)
<1>1. baked(h1) = baked(h2)
  BY OnceIgnoresHost
<1> QED BY <1>1 DEF sedPipeline, Untouched, Once, PerRequest

\* The metadata a request w writes for an answer.
Recorded(w, chosen, raw, host) ==
  [by |-> w, status |-> raw.status, sed |-> sedPipeline(chosen, raw, host).plan,
   enc |-> applyEntryFraming(raw, sedPipeline(chosen, raw, host).plan)]

\* A HIT of what was stored and recorded for one host is, for another, the
\* answer of a MISS.
LEMMA HitIsMiss ==
  ASSUME NEW w, NEW chosen, NEW raw, NEW h1, NEW h2
  PROVE  HitAnswer(Recorded(w, chosen, raw, h1), sedPipeline(chosen, raw, h1).store, h2)
           = MissAnswer(chosen, raw, h2)
<1> DEFINE p == sedPipeline(chosen, raw, h2)
           m == [by |-> w, status |-> raw.status, sed |-> p.plan,
                 enc |-> applyEntryFraming(raw, p.plan)]
           text == Decoded(raw)
           baked == sedApply(chosen \ Each, text, h2)
           still == Occurs(chosen \cap Each, baked)
<1>1. Recorded(w, chosen, raw, h1) = m /\ sedPipeline(chosen, raw, h1).store = p.store
  BY StoredForAllHosts DEF Recorded
<1>2. p = Untouched(raw) \/ p = Once(baked) \/ p = PerRequest(baked, still, raw.enc # None, h2)
  BY DEF sedPipeline
<1>3. HitAnswer(m, p.store, h2) = MissAnswer(chosen, raw, h2)
  <2> HIDE DEF p, baked, still
  <2>1. MissAnswer(chosen, raw, h2) =
          [status |-> raw.status, bytes |-> p.send,
           enc |-> IF p.plan.mode = "none" THEN raw.enc ELSE IF p.gzip THEN "gzip" ELSE None]
    BY DEF MissAnswer, p
  <2>2. CASE p = Untouched(raw)
    BY <2>1, <2>2 DEF HitAnswer, Untouched, NoPlan, applyEntryFraming
  <2>3. CASE p = Once(baked)
    BY <2>1, <2>3 DEF HitAnswer, Once, NoPlan, applyEntryFraming
  <2>4. CASE p = PerRequest(baked, still, raw.enc # None, h2)
    BY <2>1, <2>4 DEF HitAnswer, PerRequest, applyEntryFraming
  <2> QED BY <1>2, <2>2, <2>3, <2>4
<1> HIDE DEF p, m
<1> QED BY <1>1, <1>3

----------------------------------------------------------------------------
(* Types.                                                                  *)

\* Induction up to n over a set of numbers: the library's theorem on finite
\* sets, for the intervals 0 .. k.
LEMMA UpTo ==
  ASSUME NEW n \in Nat, NEW S, 0 \in S, \A k \in 0 .. n : k \in S /\ k < n => k + 1 \in S
  PROVE  n \in S
<1> SUFFICES ASSUME n \notin S PROVE FALSE
  OBVIOUS
<1> DEFINE Bad == {k \in 0 .. n : k \notin S}
           Ups == {0 .. k : k \in Bad}
<1>1. IsFiniteSet(0 .. n)
  BY FS_Interval
<1>2. IsWellFoundedOn(StrictSubsetOrdering(0 .. n), SUBSET (0 .. n))
  BY <1>1, FS_StrictSubsetOrderingWellFounded, FS_FiniteSubsetsOfFinite
<1>3. Ups \subseteq SUBSET (0 .. n) /\ Ups # {}
  OBVIOUS
<1>4. PICK U \in Ups : \A V \in Ups : <<V, U>> \notin StrictSubsetOrdering(0 .. n)
  <2> HIDE DEF Ups
  <2> QED BY <1>2, <1>3, WFMin
<1>5. PICK k \in Bad : U = 0 .. k
  OBVIOUS
<1>6. k # 0 /\ k - 1 \in 0 .. n /\ k - 1 \in Bad
  <2>1. k # 0 /\ k \in 0 .. n /\ k \notin S
    OBVIOUS
  <2>2. k - 1 \in 0 .. n /\ k - 1 < n /\ (k - 1) + 1 = k
    BY <2>1
  <2>3. k - 1 \notin S
    BY <2>1, <2>2
  <2> QED BY <2>1, <2>2, <2>3
<1>7. 0 .. (k - 1) \in Ups
  BY <1>6
<1>8. 0 .. (k - 1) \subseteq 0 .. k /\ k \in 0 .. k /\ k \notin 0 .. (k - 1)
  BY <1>5
<1>9. <<0 .. (k - 1), U>> \in StrictSubsetOrdering(0 .. n)
  BY <1>3, <1>5, <1>7, <1>8 DEF StrictSubsetOrdering
<1> QED BY <1>4, <1>7, <1>9

\* Replacing makes bytes of bytes, and keeps their encodings.
LEMMA ReplaceType ==
  ASSUME NEW b \in Bytes, NEW rule \in Rule, NEW host \in Host \cup {None}
  PROVE  Replace(b, rule, host) \in Bytes
<1>1. b.text \in Text /\ Rewrites[rule].new \subseteq Rule
  BY CacheAssumption DEF Bytes
<1> DEFINE o == (b.text.olds \ ({rule} \cup Rewrites[rule].gone)) \cup Rewrites[rule].new
           h == IF rule \in Each THEN host ELSE None
           m == b.text.made \cup {<<rule, h>>}
<1>2. o \subseteq Rule /\ h \in Host \cup {None} /\ m \subseteq Rule \X (Host \cup {None})
  BY <1>1 DEF Text
<1>3. [b EXCEPT !.text.olds = o, !.text.made = m] \in Bytes
  <2> HIDE DEF o, m
  <2>1. [b.text EXCEPT !.olds = o, !.made = m] \in Text
    BY <1>1, <1>2 DEF Text
  <2> QED BY <2>1 DEF Bytes
<1> QED BY <1>3 DEF Replace

\* The recursion has a solution.
LEMMA RewritingExists ==
  ASSUME NEW chosen, NEW b \in Bytes, NEW host \in Host \cup {None}
  PROVE  \E f : Rewriting(f, chosen, b, host)
<1> DEFINE L == Len(Order)
           Step(f, n) == IF n = 0 THEN b
                         ELSE IF Order[n] \in chosen THEN Replace(f[n - 1], Order[n], host)
                         ELSE f[n - 1]
           Solved == {k \in 0 .. L : \E f \in [0 .. k -> Bytes] : \A n \in 0 .. k : f[n] = Step(f, n)}
<1>1. L \in Nat /\ \A n \in 1 .. L : Order[n] \in Rule
  BY CacheAssumption
<1>2. 0 \in Solved
  <2> DEFINE f == [n \in 0 .. 0 |-> b]
  <2>1. f \in [0 .. 0 -> Bytes] /\ \A n \in 0 .. 0 : f[n] = Step(f, n)
    OBVIOUS
  <2>2. 0 \in 0 .. L
    BY <1>1
  <2> HIDE DEF f, Step
  <2> QED BY <2>1, <2>2
<1>3. ASSUME NEW k \in 0 .. L, k \in Solved, k < L PROVE k + 1 \in Solved
  <2>1. PICK f \in [0 .. k -> Bytes] : \A n \in 0 .. k : f[n] = Step(f, n)
    BY <1>3
  <2> DEFINE last == IF Order[k + 1] \in chosen THEN Replace(f[k], Order[k + 1], host) ELSE f[k]
             g == [n \in 0 .. k + 1 |-> IF n = k + 1 THEN last ELSE f[n]]
  <2>2. last \in Bytes
    <3>1. f[k] \in Bytes /\ Order[k + 1] \in Rule
      BY <1>1, <1>3
    <3> QED BY <3>1, ReplaceType
  <2> HIDE DEF last
  <2>3. g \in [0 .. k + 1 -> Bytes]
    BY <1>1, <2>2
  <2>4. ASSUME NEW n \in 0 .. k + 1 PROVE g[n] = Step(g, n)
    <3>1. CASE n = k + 1
      <4>1. g[n] = last /\ n # 0 /\ n - 1 = k /\ g[n - 1] = f[k]
        BY <1>1, <3>1
      <4> QED BY <3>1, <4>1 DEF last
    <3>2. CASE n # k + 1
      <4>1. n \in 0 .. k /\ g[n] = f[n] /\ (n # 0 => g[n - 1] = f[n - 1])
        BY <1>1, <3>2
      <4> QED BY <2>1, <4>1
    <3> QED BY <3>1, <3>2
  <2>5. k + 1 \in 0 .. L
    BY <1>1, <1>3
  <2> HIDE DEF g, Step
  <2> QED BY <2>3, <2>4, <2>5
<1>4. L \in Solved
  <2> HIDE DEF Solved, L
  <2> QED BY <1>1, <1>2, <1>3, UpTo
<1>5. PICK f \in [0 .. L -> Bytes] : \A n \in 0 .. L : f[n] = Step(f, n)
  BY <1>4
<1>6. f = [n \in 0 .. L |-> Step(f, n)]
  BY <1>5
<1> QED BY <1>6 DEF Rewriting

\* Rewriting makes bytes of bytes.
LEMMA RewrittenType ==
  ASSUME NEW chosen, NEW b \in Bytes, NEW host \in Host \cup {None}
  PROVE  sedApply(chosen, b, host) \in Bytes
<1> DEFINE L == Len(Order)
           f == CHOOSE f : Rewriting(f, chosen, b, host)
           Typed == {k \in 0 .. L : f[k] \in Bytes}
<1>1. L \in Nat /\ \A n \in 1 .. L : Order[n] \in Rule
  BY CacheAssumption
<1>2. Rewriting(f, chosen, b, host)
  BY RewritingExists
<1>3. sedApply(chosen, b, host) = f[L]
  BY DEF sedApply, Rewriting
<1> HIDE DEF f
<1>4. 0 \in Typed
  BY <1>1, <1>2 DEF Rewriting
<1>5. ASSUME NEW k \in 0 .. L, k \in Typed, k < L PROVE k + 1 \in Typed
  <2>1. k + 1 \in 0 .. L /\ k + 1 # 0 /\ (k + 1) - 1 = k /\ Order[k + 1] \in Rule
    BY <1>1, <1>5
  <2>2. f[k + 1] = IF Order[k + 1] \in chosen THEN Replace(f[k], Order[k + 1], host) ELSE f[k]
    BY <1>2, <2>1 DEF Rewriting
  <2>3. f[k] \in Bytes
    BY <1>5
  <2> QED BY <2>1, <2>2, <2>3, ReplaceType
<1>6. L \in Typed
  <2> HIDE DEF Typed, L
  <2> QED BY <1>1, <1>4, <1>5, UpTo
<1> QED BY <1>3, <1>6

\* Encoding and decoding make bytes of bytes.
LEMMA EncodedType ==
  ASSUME NEW b \in Bytes
  PROVE  gzipEncode(b) \in Bytes /\ [b EXCEPT !.encs = <<>>] \in Bytes
<1>1. \A e \in Seq(Encoding) : [b EXCEPT !.encs = e] \in Bytes
  BY DEF Bytes
<1>2. Append(b.encs, "gzip") \in Seq(Encoding)
  BY DEF Bytes, Encoding
<1>3. << >> \in Seq(Encoding)
  OBVIOUS
<1> QED BY <1>1, <1>2, <1>3 DEF gzipEncode

\* What is stored, sent and recorded of a typed answer is typed.
LEMMA PipelineType ==
  ASSUME NEW chosen \in SUBSET Rule, NEW host \in Host \cup {None}, NEW raw \in Answers
  PROVE  /\ sedPipeline(chosen, raw, host).store \in Bytes
         /\ sedPipeline(chosen, raw, host).send \in Bytes
         /\ sedPipeline(chosen, raw, host).plan \in Plans
<1> DEFINE text == Decoded(raw)
           baked == sedApply(chosen \ Each, text, host)
           still == Occurs(chosen \cap Each, baked)
           p == sedPipeline(chosen, raw, host)
           Good(q) == q.store \in Bytes /\ q.send \in Bytes /\ q.plan \in Plans
<1>1. raw.bytes \in Bytes /\ None \notin Bytes
  BY CacheAssumption
<1>2. text \in Bytes \cup {None}
  <2>1. [raw.bytes EXCEPT !.encs = <<>>] \in Bytes
    BY <1>1, EncodedType
  <2> QED BY <1>1, <2>1 DEF Decoded
<1>3. \A b \in Bytes : gzipEncode(b) \in Bytes
  BY EncodedType
<1>4. Good(Untouched(raw))
  BY <1>1 DEF Untouched, NoPlan, Plans, Modes
<1>5. CASE text = None
  BY <1>4, <1>5 DEF sedPipeline
<1>6. CASE text # None
  <2>1. baked \in Bytes
    BY <1>2, <1>6, RewrittenType
  <2>2. still \in SUBSET Rule
    BY DEF Occurs
  <2> HIDE DEF baked, still
  <2>3. Good(Once(baked))
    BY <1>3, <2>1 DEF Once, NoPlan, Plans, Modes
  <2>4. Good(PerRequest(baked, still, raw.enc # None, host))
    <3>1. sedApply(still, baked, host) \in Bytes
      BY <2>1, RewrittenType
    <3> QED BY <1>3, <2>1, <2>2, <3>1 DEF PerRequest, Plans, Modes
  <2>5. \/ p = Untouched(raw) \/ p = Once(baked)
        \/ p = PerRequest(baked, still, raw.enc # None, host)
    BY DEF sedPipeline, baked, still
  <2> HIDE DEF p
  <2>6. Good(p)
    BY <1>4, <2>3, <2>4, <2>5
  <2> QED BY <2>6 DEF p
<1> QED BY <1>5, <1>6

\* What a MISS and a HIT answer is a response.
LEMMA AnswerType ==
  ASSUME NEW host \in Host \cup {None}
  PROVE  /\ \A chosen \in SUBSET Rule, raw \in Answers : MissAnswer(chosen, raw, host) \in Response
         /\ \A m \in Metadata, b \in Bytes : HitAnswer(m, b, host) \in Response
<1>1. ASSUME NEW chosen \in SUBSET Rule, NEW raw \in Answers
      PROVE  MissAnswer(chosen, raw, host) \in Response
  <2> DEFINE p == sedPipeline(chosen, raw, host)
  <2>1. p.send \in Bytes /\ raw.status \in Nat /\ raw.enc \in Encoding \cup {None}
    BY PipelineType, CacheAssumption
  <2>2. MissAnswer(chosen, raw, host) =
          [status |-> raw.status, bytes |-> p.send,
           enc |-> IF p.plan.mode = "none" THEN raw.enc ELSE IF p.gzip THEN "gzip" ELSE None]
    BY DEF MissAnswer
  <2> HIDE DEF p
  <2> QED BY <2>1, <2>2 DEF Response, Encoding
<1>2. ASSUME NEW m \in Metadata, NEW b \in Bytes PROVE HitAnswer(m, b, host) \in Response
  <2> DEFINE out == sedApply(m.sed.each, b, host)
  <2>1. out \in Bytes
    BY RewrittenType
  <2>2. \A c \in Bytes : gzipEncode(c) \in Bytes
    BY EncodedType
  <2>3. m.status \in Nat /\ m.enc \in Encoding \cup {None}
    BY DEF Metadata
  <2> QED BY <2>1, <2>2, <2>3 DEF HitAnswer, Response, Encoding
<1> QED BY <1>1, <1>2

----------------------------------------------------------------------------
(* The invariants.                                                         *)

\* What a request has before it writes.
AnswerInv ==
  \A r \in Req :
    /\ req[r].at \in {"read", "backup", "stash", "body", "meta"} => req[r].raw \in Answers
    /\ req[r].at \in {"new", "lookup", "open", "fetch", "read"} => req[r].used = {}

\* From here on a request changes nothing of what its entry is made of.
Settled(w) == req[w].at \in {"meta", "done", "dead"}

MetaOf(w) == Recorded(w, req[w].used, req[w].raw, req[w].host)

\* The files, and the metadata a HIT goes by, are those of requests that are
\* settled.
FilesInv ==
  /\ body # None => Settled(body.by) /\ body.bytes = Entry(body.by).store
  /\ meta # None => Settled(meta.by) /\ meta = MetaOf(meta.by)
  /\ \A r \in Req :
       /\ req[r].at = "open" => req[r].seen # None
       /\ req[r].seen # None => Settled(req[r].seen.by) /\ req[r].seen = MetaOf(req[r].seen.by)

\* A HIT is over, and repeats its writer's answer, who is settled.
HitInv ==
  \A r \in Req :
    /\ req[r].of # {} => req[r].at = "done"
    /\ \A w \in Req : req[r].of = {w} => Settled(w)

\* While nothing fails, the files appear in their order and stay.
OrderInv ==
  ~hurt =>
    /\ meta # None => body # None
    /\ body # None /\ meta = None => req[body.by].at = "meta"
    /\ \A r \in Req :
         /\ req[r].at = "meta" => body # None
         /\ req[r].at = "open" => meta # None

Met(p, q) == p # q => {p, q} \in met
Misses(q) == req[q].at \in Missing

\* Whoever is in a MISS met the others and those whose files it may replace.
MetInv ==
  ~hurt =>
    /\ \A p, q \in Req : Misses(p) /\ Misses(q) => Met(p, q)
    /\ \A q \in Req : Misses(q) =>
         /\ body # None => Met(q, body.by)
         /\ meta # None => Met(q, meta.by)
    /\ body # None /\ meta # None => Met(body.by, meta.by)
    /\ \A r \in Req : req[r].at = "open" =>
         /\ body # None => Met(body.by, req[r].seen.by)
         /\ \A q \in Req : Misses(q) => Met(q, req[r].seen.by)

IInv == TypeOK /\ AnswerInv /\ FilesInv /\ HitInv /\ HitRepeatsMiss

OverlapInv == OrderInv /\ MetInv /\ MixNeedsOverlap

PC == {"new", "lookup", "open", "done", "dead"} \cup Missing

\* req after a step that makes q of r.
Puts(r, q) == q \in Request /\ req' = [req EXCEPT ![r] = q]

\* A request r at a, with the other fields given.
Made(a, host, raw, used, seen, resp, of) ==
  [at |-> a, host |-> host, raw |-> raw, used |-> used, seen |-> seen, resp |-> resp, of |-> of]

\* A request that changes where it is.
LEMMA Moved ==
  ASSUME req \in [Req -> Request], NEW r \in Req, NEW a \in PC,
         req' = [req EXCEPT ![r].at = a]
  PROVE  Puts(r, Made(a, req[r].host, req[r].raw, req[r].used, req[r].seen, req[r].resp, req[r].of))
<1>1. req[r] \in Request
  OBVIOUS
<1>2. [req[r] EXCEPT !.at = a] =
        Made(a, req[r].host, req[r].raw, req[r].used, req[r].seen, req[r].resp, req[r].of)
  BY <1>1 DEF Made, Request
<1>3. Made(a, req[r].host, req[r].raw, req[r].used, req[r].seen, req[r].resp, req[r].of) \in Request
  BY <1>1 DEF Made, Request, PC
<1>4. req' = [req EXCEPT ![r] = [req[r] EXCEPT !.at = a]]
  OBVIOUS
<1> QED BY <1>2, <1>3, <1>4 DEF Puts

\* A request that changes where it is and its host.
LEMMA Hosted ==
  ASSUME req \in [Req -> Request], NEW r \in Req, NEW a \in PC, NEW h \in Host,
         req' = [req EXCEPT ![r].at = a, ![r].host = h]
  PROVE  Puts(r, Made(a, h, req[r].raw, req[r].used, req[r].seen, req[r].resp, req[r].of))
<1>1. req[r] \in Request
  OBVIOUS
<1>2. [req[r] EXCEPT !.at = a, !.host = h] =
        Made(a, h, req[r].raw, req[r].used, req[r].seen, req[r].resp, req[r].of)
  <2>1. [req[r] EXCEPT !.at = a] = Made(a, req[r].host, req[r].raw, req[r].used, req[r].seen, req[r].resp, req[r].of)
    BY <1>1 DEF Made, Request
  <2>2. [Made(a, req[r].host, req[r].raw, req[r].used, req[r].seen, req[r].resp, req[r].of) EXCEPT !.host = h] =
          Made(a, h, req[r].raw, req[r].used, req[r].seen, req[r].resp, req[r].of)
    BY DEF Made
  <2> QED BY <2>1, <2>2
<1>3. Made(a, h, req[r].raw, req[r].used, req[r].seen, req[r].resp, req[r].of) \in Request
  BY <1>1 DEF Made, Request, PC
<1>4. req' = [req EXCEPT ![r] = [req[r] EXCEPT !.at = a, !.host = h]]
  OBVIOUS
<1> QED BY <1>2, <1>3, <1>4 DEF Puts

\* A request that changes where it is and the metadata it goes by.
LEMMA Noted ==
  ASSUME req \in [Req -> Request], NEW r \in Req, NEW a \in PC, NEW m \in Metadata,
         req' = [req EXCEPT ![r].at = a, ![r].seen = m]
  PROVE  Puts(r, Made(a, req[r].host, req[r].raw, req[r].used, m, req[r].resp, req[r].of))
<1>1. req[r] \in Request
  OBVIOUS
<1>2. [req[r] EXCEPT !.at = a, !.seen = m] =
        Made(a, req[r].host, req[r].raw, req[r].used, m, req[r].resp, req[r].of)
  <2>1. [req[r] EXCEPT !.at = a] = Made(a, req[r].host, req[r].raw, req[r].used, req[r].seen, req[r].resp, req[r].of)
    BY <1>1 DEF Made, Request
  <2>2. [Made(a, req[r].host, req[r].raw, req[r].used, req[r].seen, req[r].resp, req[r].of) EXCEPT !.seen = m] =
          Made(a, req[r].host, req[r].raw, req[r].used, m, req[r].resp, req[r].of)
    BY DEF Made
  <2> QED BY <2>1, <2>2
<1>3. Made(a, req[r].host, req[r].raw, req[r].used, m, req[r].resp, req[r].of) \in Request
  BY <1>1 DEF Made, Request, PC
<1>4. req' = [req EXCEPT ![r] = [req[r] EXCEPT !.at = a, !.seen = m]]
  OBVIOUS
<1> QED BY <1>2, <1>3, <1>4 DEF Puts

\* A request that changes where it is and the upstream's answer.
LEMMA Fetched ==
  ASSUME req \in [Req -> Request], NEW r \in Req, NEW a \in PC, NEW w \in Response,
         req' = [req EXCEPT ![r].at = a, ![r].raw = w]
  PROVE  Puts(r, Made(a, req[r].host, w, req[r].used, req[r].seen, req[r].resp, req[r].of))
<1>1. req[r] \in Request
  OBVIOUS
<1>2. [req[r] EXCEPT !.at = a, !.raw = w] =
        Made(a, req[r].host, w, req[r].used, req[r].seen, req[r].resp, req[r].of)
  <2>1. [req[r] EXCEPT !.at = a] = Made(a, req[r].host, req[r].raw, req[r].used, req[r].seen, req[r].resp, req[r].of)
    BY <1>1 DEF Made, Request
  <2>2. [Made(a, req[r].host, req[r].raw, req[r].used, req[r].seen, req[r].resp, req[r].of) EXCEPT !.raw = w] =
          Made(a, req[r].host, w, req[r].used, req[r].seen, req[r].resp, req[r].of)
    BY DEF Made
  <2> QED BY <2>1, <2>2
<1>3. Made(a, req[r].host, w, req[r].used, req[r].seen, req[r].resp, req[r].of) \in Request
  BY <1>1 DEF Made, Request, PC
<1>4. req' = [req EXCEPT ![r] = [req[r] EXCEPT !.at = a, !.raw = w]]
  OBVIOUS
<1> QED BY <1>2, <1>3, <1>4 DEF Puts

\* A request that changes where it is and the rules it uses.
LEMMA Ruled ==
  ASSUME req \in [Req -> Request], NEW r \in Req, NEW a \in PC, NEW u \in SUBSET Rule,
         req' = [req EXCEPT ![r].at = a, ![r].used = u]
  PROVE  Puts(r, Made(a, req[r].host, req[r].raw, u, req[r].seen, req[r].resp, req[r].of))
<1>1. req[r] \in Request
  OBVIOUS
<1>2. [req[r] EXCEPT !.at = a, !.used = u] =
        Made(a, req[r].host, req[r].raw, u, req[r].seen, req[r].resp, req[r].of)
  <2>1. [req[r] EXCEPT !.at = a] = Made(a, req[r].host, req[r].raw, req[r].used, req[r].seen, req[r].resp, req[r].of)
    BY <1>1 DEF Made, Request
  <2>2. [Made(a, req[r].host, req[r].raw, req[r].used, req[r].seen, req[r].resp, req[r].of) EXCEPT !.used = u] =
          Made(a, req[r].host, req[r].raw, u, req[r].seen, req[r].resp, req[r].of)
    BY DEF Made
  <2> QED BY <2>1, <2>2
<1>3. Made(a, req[r].host, req[r].raw, u, req[r].seen, req[r].resp, req[r].of) \in Request
  BY <1>1 DEF Made, Request, PC
<1>4. req' = [req EXCEPT ![r] = [req[r] EXCEPT !.at = a, !.used = u]]
  OBVIOUS
<1> QED BY <1>2, <1>3, <1>4 DEF Puts

\* A request that changes where it is and what it answers.
LEMMA Answered ==
  ASSUME req \in [Req -> Request], NEW r \in Req, NEW a \in PC, NEW w \in Response,
         req' = [req EXCEPT ![r].at = a, ![r].resp = w]
  PROVE  Puts(r, Made(a, req[r].host, req[r].raw, req[r].used, req[r].seen, w, req[r].of))
<1>1. req[r] \in Request
  OBVIOUS
<1>2. [req[r] EXCEPT !.at = a, !.resp = w] =
        Made(a, req[r].host, req[r].raw, req[r].used, req[r].seen, w, req[r].of)
  <2>1. [req[r] EXCEPT !.at = a] = Made(a, req[r].host, req[r].raw, req[r].used, req[r].seen, req[r].resp, req[r].of)
    BY <1>1 DEF Made, Request
  <2>2. [Made(a, req[r].host, req[r].raw, req[r].used, req[r].seen, req[r].resp, req[r].of) EXCEPT !.resp = w] =
          Made(a, req[r].host, req[r].raw, req[r].used, req[r].seen, w, req[r].of)
    BY DEF Made
  <2> QED BY <2>1, <2>2
<1>3. Made(a, req[r].host, req[r].raw, req[r].used, req[r].seen, w, req[r].of) \in Request
  BY <1>1 DEF Made, Request, PC
<1>4. req' = [req EXCEPT ![r] = [req[r] EXCEPT !.at = a, !.resp = w]]
  OBVIOUS
<1> QED BY <1>2, <1>3, <1>4 DEF Puts

\* A request that changes where it is and what it answers, and of whose files.
LEMMA Hit ==
  ASSUME req \in [Req -> Request], NEW r \in Req, NEW a \in PC, NEW o \in SUBSET Req, NEW w \in Response,
         req' = [req EXCEPT ![r].at = a, ![r].of = o, ![r].resp = w]
  PROVE  Puts(r, Made(a, req[r].host, req[r].raw, req[r].used, req[r].seen, w, o))
<1>1. req[r] \in Request
  OBVIOUS
<1>2. [req[r] EXCEPT !.at = a, !.of = o, !.resp = w] =
        Made(a, req[r].host, req[r].raw, req[r].used, req[r].seen, w, o)
  <2>1. [req[r] EXCEPT !.at = a] = Made(a, req[r].host, req[r].raw, req[r].used, req[r].seen, req[r].resp, req[r].of)
    BY <1>1 DEF Made, Request
  <2>2. [Made(a, req[r].host, req[r].raw, req[r].used, req[r].seen, req[r].resp, req[r].of) EXCEPT !.of = o] =
          Made(a, req[r].host, req[r].raw, req[r].used, req[r].seen, req[r].resp, o)
    BY DEF Made
  <2>3. [Made(a, req[r].host, req[r].raw, req[r].used, req[r].seen, req[r].resp, o) EXCEPT !.resp = w] =
          Made(a, req[r].host, req[r].raw, req[r].used, req[r].seen, w, o)
    BY DEF Made
  <2> QED BY <2>1, <2>2, <2>3
<1>3. Made(a, req[r].host, req[r].raw, req[r].used, req[r].seen, w, o) \in Request
  BY <1>1 DEF Made, Request, PC
<1>4. req' = [req EXCEPT ![r] = [req[r] EXCEPT !.at = a, !.of = o, !.resp = w]]
  OBVIOUS
<1> QED BY <1>2, <1>3, <1>4 DEF Puts

\* The invariants hold before any request.
LEMMA InitIInv == Init => IInv /\ OverlapInv
<1> SUFFICES ASSUME Init PROVE IInv /\ OverlapInv
  OBVIOUS
<1> USE DEF Init, Fresh
<1>1. TypeOK
  <2>1. Fresh \in Request
    BY CacheAssumption DEF Request, Pending, Response
  <2> QED BY <2>1, CacheAssumption DEF TypeOK
<1>2. AnswerInv /\ FilesInv /\ HitInv
  BY DEF AnswerInv, FilesInv, HitInv
<1>3. HitRepeatsMiss
  <2>1. \A r, w \in Req : req[r].of # {w}
    OBVIOUS
  <2> QED BY <2>1 DEF HitRepeatsMiss
<1>4. OrderInv /\ MetInv
  BY DEF OrderInv, MetInv, Misses, Missing
<1>5. MixNeedsOverlap
  <2>1. \A r \in Req : Cardinality(req[r].of) # 2
    BY FS_EmptySet, Cardinality({}) # 2
  <2> QED BY <2>1 DEF MixNeedsOverlap
<1> QED BY <1>1, <1>2, <1>3, <1>4, <1>5 DEF IInv, OverlapInv

\* r as it is, at another control point.
Kept(r, a) ==
  Made(a, req[r].host, req[r].raw, req[r].used, req[r].seen, req[r].resp, req[r].of)

\* What a request that has an answer writes and sends is typed.
LEMMA WorkType ==
  ASSUME TypeOK, AnswerInv, NEW r \in Req, req[r].at \in {"read", "backup", "stash", "body", "meta"}
  PROVE  /\ req[r].raw \in Answers
         /\ Entry(r).store \in Bytes /\ Entry(r).plan \in Plans
         /\ MissAnswer(req[r].used, req[r].raw, req[r].host) \in Response
<1>1. req[r].used \in SUBSET Rule /\ req[r].host \in Host \cup {None} /\ req[r].raw \in Answers
  BY DEF TypeOK, Request, AnswerInv
<1> QED BY <1>1, PipelineType, AnswerType DEF Entry

\* The steps of a request that leave the files alone, and what they make of it.
LEMMA QuietSteps ==
  ASSUME TypeOK, AnswerInv, NEW r \in Req
  PROVE  LET q == req[r] IN
    /\ Arrive(r) => \E h \in Host, a \in {"done", "lookup"} :
         Puts(r, Made(a, h, q.raw, q.used, q.seen, q.resp, q.of))
    /\ Miss(r) => Puts(r, Kept(r, "fetch"))
    /\ Lookup(r) => \/ meta = None /\ Miss(r)
                    \/ /\ meta \in Metadata /\ UNCHANGED met
                       /\ Puts(r, Made("open", q.host, q.raw, q.used, meta, q.resp, q.of))
    /\ Fetch(r) => \/ \E w \in Answers : Puts(r, Made("read", q.host, w, q.used, q.seen, q.resp, q.of))
                   \/ \E w \in Response : Puts(r, Made("done", q.host, q.raw, q.used, q.seen, w, q.of))
    /\ FetchFails(r) =>
         \E w \in Response : Puts(r, Made("done", q.host, q.raw, q.used, q.seen, w, q.of))
    /\ Rewrite(r) => \E u \in SUBSET Rule, a \in {"backup", "body"} :
         Puts(r, Made(a, q.host, q.raw, u, q.seen, q.resp, q.of))
    /\ LookForBackup(r) => Puts(r, Kept(r, "stash")) \/ Puts(r, Kept(r, "body"))
    /\ backupOriginalOnce(r) => Puts(r, Kept(r, "body"))
    /\ WriteFails(r) =>
         \E w \in Response : Puts(r, Made("done", q.host, q.raw, q.used, q.seen, w, q.of))
<1> DEFINE q == req[r]
<1> USE DEF Kept, PC, Missing
<1>1. q \in Request /\ req \in [Req -> Request]
  BY DEF TypeOK
<1>2. Answers \subseteq Response
  BY CacheAssumption DEF Response
<1>3. ASSUME Arrive(r) PROVE \E h \in Host, a \in {"done", "lookup"} :
         Puts(r, Made(a, h, q.raw, q.used, q.seen, q.resp, q.of))
  <2>1. PICK h \in Host, a \in {"done", "lookup"} :
          req' = [req EXCEPT ![r].at = a, ![r].host = h]
    BY <1>3 DEF Arrive
  <2> QED BY <1>1, <2>1, Hosted
<1>4. ASSUME Miss(r) PROVE Puts(r, Kept(r, "fetch"))
  BY <1>1, <1>4, Moved DEF Miss, Goto
<1>5. ASSUME Lookup(r)
      PROVE \/ meta = None /\ Miss(r)
            \/ /\ meta \in Metadata /\ UNCHANGED met
               /\ Puts(r, Made("open", q.host, q.raw, q.used, meta, q.resp, q.of))
  <2>1. CASE meta = None
    BY <1>5, <2>1 DEF Lookup
  <2>2. CASE meta # None
    <3>1. meta \in Metadata /\ req' = [req EXCEPT ![r].at = "open", ![r].seen = meta] /\ UNCHANGED met
      BY <1>5, <2>2 DEF Lookup, TypeOK
    <3> QED BY <1>1, <3>1, Noted
  <2> QED BY <2>1, <2>2
<1>6. ASSUME Fetch(r)
      PROVE \/ \E w \in Answers : Puts(r, Made("read", q.host, w, q.used, q.seen, q.resp, q.of))
            \/ \E w \in Response : Puts(r, Made("done", q.host, q.raw, q.used, q.seen, w, q.of))
  <2>1. PICK w \in Answers : \/ req' = [req EXCEPT ![r].at = "read", ![r].raw = w]
                             \/ Answer(r, [status |-> w.status, enc |-> w.enc, bytes |-> w.bytes])
    BY <1>6 DEF Fetch
  <2>2. [status |-> w.status, enc |-> w.enc, bytes |-> w.bytes] \in Response
    BY CacheAssumption DEF Response
  <2>3. CASE req' = [req EXCEPT ![r].at = "read", ![r].raw = w]
    BY <1>1, <1>2, <2>3, Fetched
  <2>4. CASE Answer(r, [status |-> w.status, enc |-> w.enc, bytes |-> w.bytes])
    BY <1>1, <2>2, <2>4, Answered DEF Answer
  <2> QED BY <2>1, <2>3, <2>4
<1>7. ASSUME FetchFails(r)
      PROVE \E w \in Response : Puts(r, Made("done", q.host, q.raw, q.used, q.seen, w, q.of))
  <2> DEFINE w == [Pending EXCEPT !.status = IF req[r].at = "fetch" THEN 502 ELSE req[r].raw.status]
  <2>1. w \in Response
    BY <1>1, CacheAssumption DEF Response, Pending, Request
  <2>2. Answer(r, w)
    BY <1>7 DEF FetchFails
  <2> HIDE DEF w
  <2> QED BY <1>1, <2>1, <2>2, Answered DEF Answer
<1>8. ASSUME Rewrite(r)
      PROVE \E u \in SUBSET Rule, a \in {"backup", "body"} :
              Puts(r, Made(a, q.host, q.raw, u, q.seen, q.resp, q.of))
  <2>1. sedMatchingRules \in SUBSET Rule
    BY DEF sedMatchingRules, TypeOK
  <2>2. PICK a \in {"backup", "body"} : req' = [req EXCEPT ![r].at = a, ![r].used = sedMatchingRules]
    BY <1>8 DEF Rewrite
  <2> QED BY <1>1, <2>1, <2>2, Ruled
<1>9. ASSUME LookForBackup(r) PROVE Puts(r, Kept(r, "stash")) \/ Puts(r, Kept(r, "body"))
  BY <1>1, <1>9, Moved DEF LookForBackup, Goto
<1>10. ASSUME backupOriginalOnce(r) PROVE Puts(r, Kept(r, "body"))
  BY <1>1, <1>10, Moved DEF backupOriginalOnce, Goto
<1>11. ASSUME WriteFails(r)
       PROVE \E w \in Response : Puts(r, Made("done", q.host, q.raw, q.used, q.seen, w, q.of))
  <2>1. MissAnswer(req[r].used, req[r].raw, req[r].host) \in Response
    BY <1>11, WorkType DEF WriteFails
  <2> QED BY <1>1, <1>11, <2>1, Answered DEF WriteFails, SendThen
<1> QED BY <1>3, <1>4, <1>5, <1>6, <1>7, <1>8, <1>9, <1>10, <1>11

\* The steps that write a file.
LEMMA WriteSteps ==
  ASSUME TypeOK, AnswerInv, NEW r \in Req
  PROVE  LET q == req[r]
             w == MissAnswer(q.used, q.raw, q.host)
         IN
    /\ WriteBody(r) \/ streamToTemp(r) =>
         /\ Puts(r, Made("meta", q.host, q.raw, q.used, q.seen, w, q.of))
         /\ body' = [by |-> r, bytes |-> Entry(r).store] /\ body' \in Stored
         /\ UNCHANGED <<meta, bak, env, met, events>>
    /\ writeCacheMeta(r) =>
         /\ Puts(r, Kept(r, "done"))
         /\ meta' = MetaOf(r) /\ meta' \in Metadata
         /\ UNCHANGED <<body, bak, env, met, events>>
<1> DEFINE q == req[r]
           w == MissAnswer(q.used, q.raw, q.host)
<1> USE DEF Kept, PC, Missing
<1>1. q \in Request /\ req \in [Req -> Request]
  BY DEF TypeOK
<1>2. ASSUME WriteBody(r) \/ streamToTemp(r)
      PROVE /\ Puts(r, Made("meta", q.host, q.raw, q.used, q.seen, w, q.of))
            /\ body' = [by |-> r, bytes |-> Entry(r).store] /\ body' \in Stored
            /\ UNCHANGED <<meta, bak, env, met, events>>
  <2>1. w \in Response /\ Entry(r).store \in Bytes /\ req[r].at \in {"read", "body"}
    BY <1>2, WorkType DEF WriteBody, streamToTemp
  <2>2. streamToTemp(r) => Entry(r).store = req[r].raw.bytes
    BY DEF streamToTemp, AnswerInv, Entry, sedPipeline, Untouched
  <2>3. SendThen(r, "meta") /\ body' = [by |-> r, bytes |-> Entry(r).store]
        /\ UNCHANGED <<meta, bak, env, met, events>>
    BY <1>2, <2>2 DEF WriteBody, streamToTemp
  <2>4. Puts(r, Made("meta", q.host, q.raw, q.used, q.seen, w, q.of))
    BY <1>1, <2>1, <2>3, Answered DEF SendThen
  <2> QED BY <2>1, <2>3, <2>4 DEF Stored
<1>3. ASSUME writeCacheMeta(r)
      PROVE /\ Puts(r, Kept(r, "done"))
            /\ meta' = MetaOf(r) /\ meta' \in Metadata
            /\ UNCHANGED <<body, bak, env, met, events>>
  <2>1. req[r].raw \in Answers /\ Entry(r).plan \in Plans
    BY <1>3, WorkType DEF writeCacheMeta
  <2>2. meta' = MetaOf(r)
    BY <1>3 DEF writeCacheMeta, MetaOf, Recorded, Entry
  <2>3. applyEntryFraming(req[r].raw, Entry(r).plan) \in Encoding \cup {None}
    BY <2>1, CacheAssumption DEF applyEntryFraming, Plans, Modes, Encoding
  <2>4. meta' \in Metadata
    BY <1>3, <2>1, <2>3, CacheAssumption DEF writeCacheMeta, Metadata
  <2> QED BY <1>1, <1>3, <2>2, <2>4, Moved DEF writeCacheMeta, Goto
<1> QED BY <1>2, <1>3

\* A HIT, of the metadata seen and the body found.
LEMMA HitStep ==
  ASSUME TypeOK, FilesInv, NEW r \in Req, Open(r), body # None
  PROVE  LET q == req[r]
             w == HitAnswer(q.seen, body.bytes, q.host)
         IN /\ Puts(r, Made("done", q.host, q.raw, q.used, q.seen, w, {body.by, q.seen.by}))
            /\ body \in Stored /\ q.seen \in Metadata /\ UNCHANGED met
<1>1. req \in [Req -> Request] /\ body \in Stored /\ req[r] \in Request
  BY DEF TypeOK
<1>2. req[r].seen \in Metadata
  BY <1>1 DEF FilesInv, Open, Request
<1>3. HitAnswer(req[r].seen, body.bytes, req[r].host) \in Response /\ {body.by, req[r].seen.by} \in SUBSET Req
  BY <1>1, <1>2, AnswerType DEF Stored, Metadata, Request
<1>4. req' = [req EXCEPT ![r].at = "done", ![r].of = {body.by, req[r].seen.by},
                         ![r].resp = HitAnswer(req[r].seen, body.bytes, req[r].host)]
      /\ UNCHANGED met
  BY DEF Open, serveFromCache
<1>5. "done" \in PC
  BY DEF PC
<1> QED BY <1>1, <1>2, <1>3, <1>4, <1>5, Hit

\* What req is after Puts.
LEMMA AfterPuts ==
  ASSUME req \in [Req -> Request], NEW r \in Req, NEW q, Puts(r, q)
  PROVE  req' \in [Req -> Request] /\ req'[r] = q /\ \A o \in Req \ {r} : req'[o] = req[o]
  BY DEF Puts

\* The fields of what is made.
LEMMA MadeFields ==
  ASSUME NEW a, NEW host, NEW raw, NEW used, NEW seen, NEW resp, NEW of
  PROVE  LET q == Made(a, host, raw, used, seen, resp, of)
         IN /\ q.at = a /\ q.host = host /\ q.raw = raw /\ q.used = used /\ q.seen = seen
            /\ q.resp = resp /\ q.of = of
  BY DEF Made

\* A crash ends what is under way, and leaves the rest of each request.
LEMMA CrashStep ==
  ASSUME TypeOK, Crash
  PROVE  /\ req' \in [Req -> Request]
         /\ \A r \in Req :
              /\ req'[r].at = IF req[r].at \in {"new", "done"} THEN req[r].at ELSE "dead"
              /\ req'[r].host = req[r].host /\ req'[r].raw = req[r].raw
              /\ req'[r].used = req[r].used /\ req'[r].seen = req[r].seen
              /\ req'[r].resp = req[r].resp /\ req'[r].of = req[r].of
<1>1. ASSUME NEW r \in Req PROVE req[r] \in Request /\ [req[r] EXCEPT !.at = "dead"] \in Request
  BY DEF TypeOK, Request
<1>2. \A r \in Req : req'[r] = IF req[r].at \in {"new", "done"} THEN req[r]
                               ELSE [req[r] EXCEPT !.at = "dead"]
  BY DEF Crash
<1>3. req' \in [Req -> Request]
  BY <1>1 DEF Crash
<1> QED BY <1>1, <1>2, <1>3 DEF Request

\* Every step keeps the state well typed.
LEMMA TypeStep ==
  ASSUME TypeOK, AnswerInv, FilesInv, [Next]_vars
  PROVE  TypeOK'
<1> USE DEF TypeOK, files, env, events, Fault, Spend
<1>0. CASE UNCHANGED vars
  BY <1>0 DEF vars
<1>1. ASSUME NEW r \in Req, Arrive(r) PROVE TypeOK'
  BY <1>1, QuietSteps, AfterPuts DEF Arrive
<1>M. ASSUME NEW r \in Req, Miss(r) PROVE req' \in [Req -> Request] /\ met' \subseteq SUBSET Req
  <2>1. req' \in [Req -> Request]
    BY <1>M, QuietSteps, AfterPuts
  <2>2. met' \subseteq SUBSET Req
    BY <1>M DEF Miss
  <2> QED BY <2>1, <2>2
<1>2. ASSUME NEW r \in Req, Lookup(r) PROVE TypeOK'
  BY <1>2, <1>M, QuietSteps, AfterPuts DEF Lookup
<1>3. ASSUME NEW r \in Req, Open(r) PROVE TypeOK'
  <2>1. CASE body = None
    BY <1>3, <2>1, <1>M DEF Open, serveFromCache
  <2>2. CASE body # None
    <3>1. UNCHANGED met /\ \E q : Puts(r, q)
      BY <1>3, <2>2, HitStep
    <3>2. req' \in [Req -> Request]
      BY <3>1, AfterPuts
    <3> QED BY <1>3, <3>1, <3>2 DEF Open
  <2> QED BY <2>1, <2>2
<1>4. ASSUME NEW r \in Req, Fetch(r) PROVE TypeOK'
  <2>1. \E q : Puts(r, q)
    BY <1>4, QuietSteps
  <2>2. req' \in [Req -> Request]
    BY <2>1, AfterPuts
  <2> QED BY <1>4, <2>2 DEF Fetch
<1>5. ASSUME NEW r \in Req, FetchFails(r) PROVE TypeOK'
  BY <1>5, QuietSteps, AfterPuts DEF FetchFails
<1>6. ASSUME NEW r \in Req, Rewrite(r) PROVE TypeOK'
  BY <1>6, QuietSteps, AfterPuts DEF Rewrite
<1>7. ASSUME NEW r \in Req, LookForBackup(r) PROVE TypeOK'
  BY <1>7, QuietSteps, AfterPuts DEF LookForBackup
<1>8. ASSUME NEW r \in Req, backupOriginalOnce(r) PROVE TypeOK'
  <2>1. req[r].raw.bytes \in Bytes
    BY <1>8, CacheAssumption DEF AnswerInv, backupOriginalOnce
  <2>2. req' \in [Req -> Request]
    BY <1>8, QuietSteps, AfterPuts
  <2>3. bak' \in Bytes \cup {None} /\ hurt' \in BOOLEAN /\ budget' \in Nat
    <3>1. CASE bak' = req[r].raw.bytes /\ UNCHANGED events
      BY <2>1, <3>1
    <3>2. CASE UNCHANGED bak /\ Fault
      BY <3>2
    <3> QED BY <1>8, <3>1, <3>2 DEF backupOriginalOnce
  <2>4. UNCHANGED <<body, meta, rules, rec, met>>
    BY <1>8 DEF backupOriginalOnce
  <2> QED BY <2>2, <2>3, <2>4
<1>9. ASSUME NEW r \in Req, WriteBody(r) \/ streamToTemp(r) PROVE TypeOK'
  BY <1>9, WriteSteps, AfterPuts
<1>10. ASSUME NEW r \in Req, writeCacheMeta(r) PROVE TypeOK'
  BY <1>10, WriteSteps, AfterPuts
<1>11. ASSUME NEW r \in Req, WriteFails(r) PROVE TypeOK'
  BY <1>11, QuietSteps, AfterPuts DEF WriteFails
<1>12. CASE Reload
  BY <1>12 DEF Reload
<1>13. CASE Crash
  BY <1>13, CrashStep DEF Crash
<1>14. CASE Purge
  BY <1>14 DEF Purge
<1> QED
  BY <1>0, <1>1, <1>2, <1>3, <1>4, <1>5, <1>6, <1>7, <1>8, <1>9, <1>10, <1>11, <1>12,
     <1>13, <1>14, Steps

\* Every step keeps AnswerInv.
LEMMA AnswerStep ==
  ASSUME TypeOK, AnswerInv, FilesInv, [Next]_vars
  PROVE  AnswerInv'
<1> USE DEF AnswerInv
<1>P. ASSUME NEW r \in Req, NEW a, NEW host, NEW raw, NEW used, NEW seen, NEW resp, NEW of,
             Puts(r, Made(a, host, raw, used, seen, resp, of)),
             a \in {"read", "backup", "stash", "body", "meta"} => raw \in Answers,
             a \in {"new", "lookup", "open", "fetch", "read"} => used = {}
      PROVE  AnswerInv'
  <2>1. \A o \in Req \ {r} : req'[o] = req[o]
    BY <1>P, AfterPuts DEF TypeOK
  <2>2. req'[r].at = a /\ req'[r].raw = raw /\ req'[r].used = used
    BY <1>P, AfterPuts, MadeFields DEF TypeOK
  <2> QED BY <1>P, <2>1, <2>2
<1>0. CASE UNCHANGED vars
  BY <1>0 DEF vars
<1>1. ASSUME NEW r \in Req, Arrive(r) PROVE AnswerInv'
  <2>1. req[r].at = "new"
    BY <1>1 DEF Arrive
  <2> QED BY <1>1, <2>1, <1>P, QuietSteps
<1>M. ASSUME NEW r \in Req, Miss(r), req[r].at \in {"lookup", "open"} PROVE AnswerInv'
  BY <1>M, <1>P, QuietSteps DEF Kept
<1>2. ASSUME NEW r \in Req, Lookup(r) PROVE AnswerInv'
  <2>1. req[r].at = "lookup"
    BY <1>2 DEF Lookup
  <2> QED BY <1>2, <2>1, <1>M, <1>P, QuietSteps
<1>3. ASSUME NEW r \in Req, Open(r) PROVE AnswerInv'
  <2>1. CASE body = None
    BY <1>3, <2>1, <1>M DEF Open, serveFromCache
  <2>2. CASE body # None
    <3>1. PICK w, o : Puts(r, Made("done", req[r].host, req[r].raw, req[r].used, req[r].seen, w, o))
      BY <1>3, <2>2, HitStep
    <3> QED BY <3>1, <1>P
  <2> QED BY <2>1, <2>2
<1>4. ASSUME NEW r \in Req, Fetch(r) PROVE AnswerInv'
  <2>1. req[r].at = "fetch"
    BY <1>4 DEF Fetch
  <2> QED BY <1>4, <2>1, <1>P, QuietSteps
<1>5. ASSUME NEW r \in Req, FetchFails(r) \/ WriteFails(r) PROVE AnswerInv'
  BY <1>5, <1>P, QuietSteps
<1>6. ASSUME NEW r \in Req, Rewrite(r) PROVE AnswerInv'
  <2>1. req[r].at = "read"
    BY <1>6 DEF Rewrite
  <2> QED BY <1>6, <2>1, <1>P, QuietSteps
<1>7. ASSUME NEW r \in Req, LookForBackup(r) \/ backupOriginalOnce(r) PROVE AnswerInv'
  <2>1. req[r].at \in {"backup", "stash"}
    BY <1>7 DEF LookForBackup, backupOriginalOnce
  <2> QED BY <1>7, <2>1, <1>P, QuietSteps DEF Kept
<1>8. ASSUME NEW r \in Req, WriteBody(r) \/ streamToTemp(r) PROVE AnswerInv'
  <2>1. req[r].at \in {"read", "body"}
    BY <1>8 DEF WriteBody, streamToTemp
  <2> QED BY <1>8, <2>1, <1>P, WriteSteps
<1>9. ASSUME NEW r \in Req, writeCacheMeta(r) PROVE AnswerInv'
  BY <1>9, <1>P, WriteSteps DEF Kept
<1>10. CASE Reload \/ Purge
  BY <1>10 DEF Reload, Purge
<1>11. CASE Crash
  BY <1>11, CrashStep
<1> QED
  BY <1>0, <1>1, <1>2, <1>3, <1>4, <1>5, <1>6, <1>7, <1>8, <1>9, <1>10, <1>11, Steps

----------------------------------------------------------------------------
(* What a step is to the invariants.                                       *)

\* What request w stores and records stays what it is.
Same(w) ==
  req'[w].used = req[w].used /\ req'[w].raw = req[w].raw /\ req'[w].host = req[w].host

Others(r) == \A o \in Req \ {r} : req'[o] = req[o]

\* r takes no part in the step but as one who goes on, or ends.
Quiet(r) ==
  /\ req'[r].seen = req[r].seen /\ req'[r].of = req[r].of
  /\ req[r].at = "done" => req'[r] = req[r]
  /\ req'[r].at = "open" => req[r].at = "open"
  /\ Misses(r)' => Misses(r)
  /\ req'[r].at = "meta" => req[r].at = "meta"
  /\ req[r].at = "meta" /\ ~hurt' => req'[r].at = "meta"

\* Nobody reads or writes the files; what fails may take them away.
Quietly ==
  /\ \A r \in Req : Quiet(r)
  /\ body' = body \/ (body' = None /\ hurt')
  /\ meta' = meta \/ (meta' = None /\ hurt')

\* r finds the metadata.
Notes(r) ==
  /\ Others(r) /\ req[r].at = "lookup" /\ meta # None
  /\ req'[r].at = "open" /\ req'[r].seen = meta /\ req'[r].of = req[r].of
  /\ UNCHANGED <<body, meta>>

\* r finds no metadata, or no body.
GoesMissing(r) ==
  /\ Others(r) /\ req[r].at \in {"lookup", "open"}
  /\ req[r].at = "lookup" => meta = None
  /\ req[r].at = "open" => body = None
  /\ req'[r].at = "fetch" /\ req'[r].seen = req[r].seen /\ req'[r].of = req[r].of
  /\ met' = met \cup {{r, o} : o \in {p \in Req : Misses(p)}}
  /\ UNCHANGED <<body, meta>>

Hits(r) ==
  /\ Others(r) /\ req[r].at = "open" /\ body # None
  /\ req'[r].at = "done" /\ req'[r].seen = req[r].seen /\ req'[r].host = req[r].host
  /\ req'[r].of = {body.by, req[r].seen.by}
  /\ req'[r].resp = HitAnswer(req[r].seen, body.bytes, req[r].host)
  /\ UNCHANGED <<body, meta>>

Stores(r) ==
  /\ Others(r) /\ Same(r) /\ req[r].at \in {"read", "body"}
  /\ req'[r].at = "meta" /\ req'[r].seen = req[r].seen /\ req'[r].of = req[r].of
  /\ body' = [by |-> r, bytes |-> Entry(r).store] /\ body' \in Stored /\ UNCHANGED meta

Records(r) ==
  /\ Others(r) /\ Same(r) /\ req[r].at = "meta"
  /\ req'[r].at = "done" /\ req'[r].seen = req[r].seen /\ req'[r].of = req[r].of
  /\ meta' = MetaOf(r) /\ meta' \in Metadata /\ UNCHANGED body

\* What every step keeps, and the kinds of steps.
Keeps ==
  /\ hurt => hurt'
  /\ met \subseteq met'
  /\ \A w \in Req : Settled(w) => Settled(w)' /\ Same(w)

Kinds ==
  \/ Quietly
  \/ \E r \in Req : Notes(r) \/ GoesMissing(r) \/ Hits(r) \/ Stores(r) \/ Records(r)

\* A request that is not settled goes on: the settled ones stay.
LEMMA Moves ==
  ASSUME TypeOK, NEW r \in Req, NEW q, Puts(r, q), ~Settled(r) \/ (Same(r) /\ q.at = "done")
  PROVE  /\ Others(r) /\ req'[r] = q
         /\ \A w \in Req : Settled(w) => Settled(w)' /\ Same(w)
  BY AfterPuts DEF TypeOK, Others, Settled, Same

\* A quiet step of one request.
LEMMA QuietMove ==
  ASSUME TypeOK, NEW r \in Req, NEW a \in PC, NEW host, NEW raw, NEW used, NEW resp,
         Puts(r, Made(a, host, raw, used, req[r].seen, resp, req[r].of)),
         req[r].at # "done", a \notin {"open", "meta"}, a \in Missing => Misses(r),
         req[r].at = "meta" => hurt',
         UNCHANGED <<body, meta>>
  PROVE  Quietly
<1>1. Others(r)
  BY AfterPuts DEF TypeOK, Others
<1>2. req'[r].at = a /\ req'[r].seen = req[r].seen /\ req'[r].of = req[r].of
  BY AfterPuts, MadeFields DEF TypeOK
<1>3. Quiet(r)
  BY <1>2 DEF Quiet, Misses
<1>4. \A o \in Req \ {r} : Quiet(o)
  BY <1>1 DEF Others, Quiet, Misses
<1>5. \A o \in Req : Quiet(o)
  BY <1>3, <1>4
<1>6. body' = body /\ meta' = meta
  OBVIOUS
<1> QED BY <1>5, <1>6 DEF Quietly

\* Every step is of one of the kinds.
LEMMA StepKinds ==
  ASSUME TypeOK, AnswerInv, FilesInv, [Next]_vars
  PROVE  Keeps /\ Kinds
<1> USE DEF files, env, events
<1>K. ASSUME hurt' = hurt \/ hurt' = TRUE, met' = met \/ met \subseteq met',
             \A w \in Req : Settled(w) => Settled(w)' /\ Same(w)
      PROVE  Keeps
  BY <1>K DEF Keeps, TypeOK
<1>Q. ASSUME NEW r \in Req, NEW a \in PC, NEW host, NEW raw, NEW used, NEW resp,
             Puts(r, Made(a, host, raw, used, req[r].seen, resp, req[r].of)),
             ~Settled(r), a \notin {"open", "meta"}, a \in Missing => Misses(r),
             hurt' = hurt \/ hurt' = TRUE, UNCHANGED <<body, meta, met>>
      PROVE  Keeps /\ Kinds
  <2>1. req[r].at \notin {"done", "meta"}
    BY <1>Q DEF Settled
  <2>2. Quietly
    BY <1>Q, <2>1, QuietMove
  <2>3. \A w \in Req : Settled(w) => Settled(w)' /\ Same(w)
    BY <1>Q, Moves
  <2> QED BY <1>Q, <1>K, <2>2, <2>3 DEF Kinds
<1>0. CASE UNCHANGED vars
  BY <1>0, <1>K DEF vars, Settled, Same, Kinds, Quietly, Quiet, Misses
<1>1. ASSUME NEW r \in Req, Arrive(r) PROVE Keeps /\ Kinds
  <2>1. req[r].at = "new" /\ UNCHANGED <<body, meta, met, hurt>>
    BY <1>1 DEF Arrive
  <2>2. PICK h \in Host, a \in {"done", "lookup"} :
          Puts(r, Made(a, h, req[r].raw, req[r].used, req[r].seen, req[r].resp, req[r].of))
    BY <1>1, QuietSteps
  <2>3. a \in PC /\ a \notin Missing \cup {"open", "meta"} /\ ~Settled(r)
    BY <2>1 DEF PC, Missing, Settled
  <2> QED BY <1>Q, <2>1, <2>2, <2>3
<1>M. ASSUME NEW r \in Req, Miss(r), req[r].at \in {"lookup", "open"},
             req[r].at = "lookup" => meta = None, req[r].at = "open" => body = None,
             UNCHANGED <<body, meta, hurt>>
      PROVE  Keeps /\ Kinds
  <2>1. ~Settled(r) /\ Puts(r, Kept(r, "fetch"))
    BY <1>M, QuietSteps DEF Settled
  <2>2. Others(r) /\ req'[r] = Kept(r, "fetch")
        /\ \A w \in Req : Settled(w) => Settled(w)' /\ Same(w)
    BY <2>1, Moves
  <2>3. req'[r].at = "fetch" /\ req'[r].seen = req[r].seen /\ req'[r].of = req[r].of
    BY <2>2, MadeFields DEF Kept
  <2>4. met' = met \cup {{r, o} : o \in {p \in Req : Misses(p)}}
    BY <1>M DEF Miss, Misses
  <2>5. GoesMissing(r)
    BY <1>M, <2>2, <2>3, <2>4 DEF GoesMissing
  <2> QED BY <1>M, <1>K, <2>2, <2>4, <2>5 DEF Kinds
<1>2. ASSUME NEW r \in Req, Lookup(r) PROVE Keeps /\ Kinds
  <2>1. req[r].at = "lookup" /\ UNCHANGED <<body, meta, hurt>>
    BY <1>2 DEF Lookup
  <2>2. CASE meta = None /\ Miss(r)
    BY <1>M, <2>1, <2>2
  <2>3. CASE /\ meta \in Metadata /\ UNCHANGED met
             /\ Puts(r, Made("open", req[r].host, req[r].raw, req[r].used, meta, req[r].resp, req[r].of))
    <3>1. ~Settled(r)
      BY <2>1 DEF Settled
    <3>2. Others(r) /\ req'[r] = Made("open", req[r].host, req[r].raw, req[r].used, meta, req[r].resp, req[r].of)
          /\ \A w \in Req : Settled(w) => Settled(w)' /\ Same(w)
      BY <2>3, <3>1, Moves
    <3>3. Notes(r)
      BY <2>1, <2>3, <3>2, MadeFields, CacheAssumption DEF Notes
    <3> QED BY <1>K, <2>1, <2>3, <3>2, <3>3 DEF Kinds
  <2> QED BY <1>2, <2>2, <2>3, QuietSteps
<1>3. ASSUME NEW r \in Req, Open(r) PROVE Keeps /\ Kinds
  <2>1. req[r].at = "open" /\ UNCHANGED <<body, meta, hurt>>
    BY <1>3 DEF Open
  <2>2. CASE body = None
    BY <1>3, <1>M, <2>1, <2>2 DEF Open, serveFromCache
  <2>3. CASE body # None
    <3> DEFINE w == HitAnswer(req[r].seen, body.bytes, req[r].host)
               q == Made("done", req[r].host, req[r].raw, req[r].used, req[r].seen, w,
                         {body.by, req[r].seen.by})
    <3>1. Puts(r, q) /\ UNCHANGED met
      BY <1>3, <2>3, HitStep
    <3>2. ~Settled(r)
      BY <2>1 DEF Settled
    <3>3. Others(r) /\ req'[r] = q /\ \A v \in Req : Settled(v) => Settled(v)' /\ Same(v)
      BY <3>1, <3>2, Moves
    <3>4. Hits(r)
      BY <2>1, <2>3, <3>3, MadeFields DEF Hits
    <3> QED BY <1>K, <2>1, <3>1, <3>3, <3>4 DEF Kinds
  <2> QED BY <2>2, <2>3
<1>4. ASSUME NEW r \in Req, Fetch(r) PROVE Keeps /\ Kinds
  <2>1. req[r].at = "fetch" /\ UNCHANGED <<body, meta, met, hurt>>
    BY <1>4 DEF Fetch
  <2>2. ~Settled(r) /\ Misses(r) /\ {"read", "done"} \subseteq PC
    BY <2>1 DEF Settled, Misses, Missing, PC
  <2> QED BY <1>4, <1>Q, <2>1, <2>2, QuietSteps
<1>5. ASSUME NEW r \in Req, FetchFails(r) PROVE Keeps /\ Kinds
  <2>1. req[r].at \in {"fetch", "read"} /\ hurt' = TRUE /\ UNCHANGED <<body, meta, met>>
    BY <1>5 DEF FetchFails, Fault
  <2>2. ~Settled(r) /\ Misses(r) /\ "done" \in PC
    BY <2>1 DEF Settled, Misses, Missing, PC
  <2> QED BY <1>5, <1>Q, <2>1, <2>2, QuietSteps
<1>6. ASSUME NEW r \in Req, Rewrite(r) PROVE Keeps /\ Kinds
  <2>1. req[r].at = "read" /\ UNCHANGED <<body, meta, met, hurt>>
    BY <1>6 DEF Rewrite
  <2>2. ~Settled(r) /\ Misses(r) /\ {"backup", "body"} \subseteq PC
    BY <2>1 DEF Settled, Misses, Missing, PC
  <2> QED BY <1>6, <1>Q, <2>1, <2>2, QuietSteps
<1>7. ASSUME NEW r \in Req, LookForBackup(r) \/ backupOriginalOnce(r) PROVE Keeps /\ Kinds
  <2>1. /\ req[r].at \in {"backup", "stash"} /\ UNCHANGED <<body, meta, met>>
        /\ hurt' = hurt \/ hurt' = TRUE
    BY <1>7 DEF LookForBackup, backupOriginalOnce, Fault
  <2>2. ~Settled(r) /\ Misses(r) /\ {"stash", "body"} \subseteq PC
    BY <2>1 DEF Settled, Misses, Missing, PC
  <2>3. PICK a \in {"stash", "body"} :
          Puts(r, Made(a, req[r].host, req[r].raw, req[r].used, req[r].seen, req[r].resp, req[r].of))
    BY <1>7, QuietSteps DEF Kept
  <2> QED BY <1>Q, <2>1, <2>2, <2>3
<1>8. ASSUME NEW r \in Req, WriteBody(r) \/ streamToTemp(r) PROVE Keeps /\ Kinds
  <2> DEFINE w == MissAnswer(req[r].used, req[r].raw, req[r].host)
             q == Made("meta", req[r].host, req[r].raw, req[r].used, req[r].seen, w, req[r].of)
  <2>1. req[r].at \in {"read", "body"}
    BY <1>8 DEF WriteBody, streamToTemp
  <2>2. /\ Puts(r, q) /\ body' = [by |-> r, bytes |-> Entry(r).store] /\ body' \in Stored
        /\ UNCHANGED <<meta, met, hurt>>
    BY <1>8, WriteSteps
  <2>3. ~Settled(r)
    BY <2>1 DEF Settled
  <2>4. Others(r) /\ req'[r] = q /\ \A v \in Req : Settled(v) => Settled(v)' /\ Same(v)
    BY <2>2, <2>3, Moves
  <2>5. Stores(r)
    BY <2>1, <2>2, <2>4, MadeFields DEF Stores, Same
  <2> QED BY <1>K, <2>2, <2>4, <2>5 DEF Kinds
<1>9. ASSUME NEW r \in Req, writeCacheMeta(r) PROVE Keeps /\ Kinds
  <2>1. req[r].at = "meta"
    BY <1>9 DEF writeCacheMeta
  <2>2. /\ Puts(r, Kept(r, "done")) /\ meta' = MetaOf(r) /\ meta' \in Metadata
        /\ UNCHANGED <<body, met, hurt>>
    BY <1>9, WriteSteps
  <2>3. req'[r] = Kept(r, "done")
    BY <2>2, AfterPuts DEF TypeOK
  <2>4. Same(r) /\ Kept(r, "done").at = "done"
    BY <2>3, MadeFields DEF Same, Kept
  <2>5. Others(r) /\ \A v \in Req : Settled(v) => Settled(v)' /\ Same(v)
    BY <2>2, <2>4, Moves
  <2>6. Records(r)
    BY <2>1, <2>2, <2>3, <2>4, <2>5, MadeFields DEF Records, Kept
  <2> QED BY <1>K, <2>2, <2>5, <2>6 DEF Kinds
<1>10. ASSUME NEW r \in Req, WriteFails(r) PROVE Keeps /\ Kinds
  <2>1. req[r].at \in {"body", "meta"} /\ hurt' = TRUE /\ UNCHANGED <<body, meta, met>>
    BY <1>10 DEF WriteFails, Fault
  <2>2. PICK w : Puts(r, Made("done", req[r].host, req[r].raw, req[r].used, req[r].seen, w, req[r].of))
    BY <1>10, QuietSteps
  <2>3. "done" \in PC \ (Missing \cup {"open", "meta"})
    BY DEF PC, Missing
  <2>4. Quietly
    BY <2>1, <2>2, <2>3, QuietMove
  <2>5. req'[r] = Made("done", req[r].host, req[r].raw, req[r].used, req[r].seen, w, req[r].of)
    BY <2>2, AfterPuts DEF TypeOK
  <2>6. Same(r) /\ req'[r].at = "done"
    BY <2>5, MadeFields DEF Same
  <2>7. \A v \in Req : Settled(v) => Settled(v)' /\ Same(v)
    BY <2>2, <2>5, <2>6, Moves
  <2> QED BY <1>K, <2>1, <2>4, <2>7 DEF Kinds
<1>11. CASE Reload
  BY <1>11, <1>K DEF Reload, Settled, Same, Kinds, Quietly, Quiet, Misses
<1>12. CASE Crash
  <2>1. hurt' = TRUE /\ UNCHANGED <<body, meta, met>>
    BY <1>12 DEF Crash, Fault
  <2>2. \A r \in Req : req[r].at = "done" => req'[r] = req[r]
    BY <1>12 DEF Crash
  <2>3. \A r \in Req : Quiet(r)
    BY <1>12, <2>1, <2>2, CrashStep DEF Quiet, Misses, Missing
  <2>4. \A w \in Req : Settled(w) => Settled(w)' /\ Same(w)
    BY <1>12, CrashStep DEF Settled, Same
  <2> QED BY <1>K, <2>1, <2>3, <2>4 DEF Kinds, Quietly
<1>13. CASE Purge
  BY <1>13, <1>K DEF Purge, Fault, Settled, Same, Kinds, Quietly, Quiet, Misses
<1> QED
  BY <1>0, <1>1, <1>2, <1>3, <1>4, <1>5, <1>6, <1>7, <1>8, <1>9, <1>10, <1>11, <1>12,
     <1>13, Steps

\* Every step keeps FilesInv.
LEMMA FilesStep ==
  ASSUME TypeOK, FilesInv, Keeps, Kinds
  PROVE  FilesInv'
<1> DEFINE settled(w) == req'[w].at \in {"meta", "done", "dead"}
           entry(w) == sedPipeline(req'[w].used, req'[w].raw, req'[w].host)
           metadata(w) == Recorded(w, req'[w].used, req'[w].raw, req'[w].host)
<1>1. ASSUME NEW w \in Req, Settled(w)
      PROVE  settled(w) /\ entry(w) = Entry(w) /\ metadata(w) = MetaOf(w)
  BY <1>1 DEF Keeps, Settled, Same, Entry, MetaOf
<1> DEFINE Of(m) == m # None => Settled(m.by) /\ m = MetaOf(m.by)
           WholeNext(b) == b # None => settled(b.by) /\ b.bytes = entry(b.by).store
           OfNext(m) == m # None => settled(m.by) /\ m = metadata(m.by)
<1>2. WholeNext(body)
  BY <1>1 DEF TypeOK, FilesInv, Stored
<1>3. \A m \in Metadata \cup {None} : Of(m) => OfNext(m)
  BY <1>1 DEF Metadata
<1>4. OfNext(meta) /\ \A r \in Req : OfNext(req[r].seen)
  BY <1>3 DEF TypeOK, FilesInv, Request
<1>S. ASSUME WholeNext(body'), OfNext(meta'),
             \A r \in Req : OfNext(req'[r].seen) /\ (req'[r].at = "open" => req'[r].seen # None)
      PROVE  FilesInv'
  BY <1>S DEF FilesInv, Settled, Entry, MetaOf
<1>5. CASE Quietly
  <2>1. WholeNext(body') /\ OfNext(meta')
    BY <1>2, <1>4, <1>5 DEF Quietly
  <2>2. \A r \in Req : OfNext(req'[r].seen) /\ (req'[r].at = "open" => req'[r].seen # None)
    BY <1>4, <1>5 DEF Quietly, Quiet, FilesInv
  <2> HIDE DEF WholeNext, OfNext
  <2> QED BY <2>1, <2>2, <1>S
<1>6. ASSUME NEW r \in Req, Notes(r) PROVE FilesInv'
  <2>1. \A o \in Req : OfNext(req'[o].seen) /\ (req'[o].at = "open" => req'[o].seen # None)
    BY <1>4, <1>6 DEF Notes, Others, FilesInv
  <2>2. WholeNext(body') /\ OfNext(meta')
    BY <1>2, <1>4, <1>6 DEF Notes
  <2> HIDE DEF WholeNext, OfNext
  <2> QED BY <2>1, <2>2, <1>S
<1>7. ASSUME NEW r \in Req, GoesMissing(r) \/ Hits(r) PROVE FilesInv'
  <2>1. \A o \in Req : OfNext(req'[o].seen) /\ (req'[o].at = "open" => req'[o].seen # None)
    BY <1>4, <1>7 DEF GoesMissing, Hits, Others, FilesInv
  <2>2. WholeNext(body') /\ OfNext(meta')
    BY <1>2, <1>4, <1>7 DEF GoesMissing, Hits
  <2> HIDE DEF WholeNext, OfNext
  <2> QED BY <2>1, <2>2, <1>S
<1>8. ASSUME NEW r \in Req, Stores(r) PROVE FilesInv'
  <2>1. \A o \in Req : OfNext(req'[o].seen) /\ (req'[o].at = "open" => req'[o].seen # None)
    BY <1>4, <1>8 DEF Stores, Others, FilesInv
  <2>2. entry(r) = Entry(r) /\ settled(r) /\ body'.by = r /\ body'.bytes = Entry(r).store
    BY <1>8 DEF Stores, Same, Entry
  <2>3. WholeNext(body') /\ OfNext(meta')
    BY <1>4, <1>8, <2>2 DEF Stores
  <2> HIDE DEF WholeNext, OfNext
  <2> QED BY <2>1, <2>3, <1>S
<1>9. ASSUME NEW r \in Req, Records(r) PROVE FilesInv'
  <2>1. \A o \in Req : OfNext(req'[o].seen) /\ (req'[o].at = "open" => req'[o].seen # None)
    BY <1>4, <1>9 DEF Records, Others, FilesInv
  <2>2. metadata(r) = MetaOf(r) /\ settled(r) /\ meta' = MetaOf(r)
    BY <1>9 DEF Records, Same, MetaOf
  <2>3. meta'.by = r
    BY <2>2 DEF MetaOf, Recorded
  <2>4. WholeNext(body') /\ OfNext(meta')
    BY <1>2, <1>9, <2>2, <2>3 DEF Records
  <2> HIDE DEF WholeNext, OfNext
  <2> QED BY <2>1, <2>4, <1>S
<1> QED BY <1>5, <1>6, <1>7, <1>8, <1>9 DEF Kinds

\* What the writers of a HIT answer for a host.
WriterAnswers(w, r) == MissAnswer(req[w].used, req[w].raw, req[r].host)

\* A HIT on files of one writer is what this writer answers.
LEMMA HitOfOne ==
  ASSUME TypeOK, FilesInv, NEW r \in Req, Hits(r), NEW w \in Req, {body.by, req[r].seen.by} = {w}
  PROVE  Settled(w) /\ req'[r].resp = WriterAnswers(w, r)
<1>1. body.by = w /\ req[r].seen.by = w
  OBVIOUS
<1>2. body # None /\ req[r].seen # None
  BY DEF Hits, FilesInv
<1>3. Settled(w) /\ body.bytes = Entry(w).store /\ req[r].seen = MetaOf(w)
  BY <1>1, <1>2 DEF FilesInv
<1>4. HitAnswer(MetaOf(w), Entry(w).store, req[r].host) = WriterAnswers(w, r)
  BY HitIsMiss DEF MetaOf, Entry, WriterAnswers
<1> QED BY <1>3, <1>4 DEF Hits

\* Every step keeps HitInv and HitRepeatsMiss.
LEMMA HitInvStep ==
  ASSUME TypeOK, FilesInv, HitInv, HitRepeatsMiss, Keeps, Kinds
  PROVE  HitInv' /\ HitRepeatsMiss'
<1> DEFINE Good(r) ==
      /\ req'[r].of # {} => req'[r].at = "done"
      /\ \A w \in Req : req'[r].of = {w} =>
           /\ Settled(w)'
           /\ req'[r].resp = MissAnswer(req'[w].used, req'[w].raw, req'[r].host)
<1>1. ASSUME NEW r \in Req, req'[r].of = req[r].of,
             req[r].at = "done" => req'[r] = req[r]
      PROVE  Good(r)
  <2>1. ASSUME NEW w \in Req, req[r].of = {w}
        PROVE  Settled(w)' /\ req'[r].resp = MissAnswer(req'[w].used, req'[w].raw, req'[r].host)
    <3>1. req[r].of # {} /\ Settled(w) /\ req[r].resp = WriterAnswers(w, r)
      BY <2>1 DEF HitInv, HitRepeatsMiss, WriterAnswers
    <3>2. req'[r] = req[r] /\ Settled(w)' /\ Same(w)
      BY <1>1, <3>1 DEF HitInv, Keeps
    <3> QED BY <3>1, <3>2 DEF Same, WriterAnswers
  <2>2. req[r].of # {} => req'[r] = req[r] /\ req[r].at = "done"
    BY <1>1 DEF HitInv
  <2> QED BY <1>1, <2>1, <2>2
<1>2. ASSUME NEW r \in Req, Hits(r) PROVE Good(r)
  <2>1. ASSUME NEW w \in Req, req'[r].of = {w}
        PROVE  Settled(w)' /\ req'[r].resp = MissAnswer(req'[w].used, req'[w].raw, req'[r].host)
    <3>1. Settled(w) /\ req'[r].resp = WriterAnswers(w, r)
      BY <1>2, <2>1, HitOfOne DEF Hits
    <3>2. Settled(w)' /\ Same(w) /\ req'[r].host = req[r].host
      BY <1>2, <3>1 DEF Keeps, Hits
    <3> QED BY <3>1, <3>2 DEF Same, WriterAnswers
  <2> QED BY <1>2, <2>1 DEF Hits
<1>3. ASSUME NEW r \in Req PROVE Good(r)
  <2>1. CASE Quietly
    BY <1>1, <2>1 DEF Quietly, Quiet
  <2>2. ASSUME NEW a \in Req, Notes(a) \/ GoesMissing(a) \/ Hits(a) \/ Stores(a) \/ Records(a) PROVE Good(r)
    <3>1. Others(a)
      BY <2>2 DEF Notes, GoesMissing, Hits, Stores, Records
    <3>2. CASE r # a
      <4>1. req'[r] = req[r]
        BY <3>1, <3>2 DEF Others
      <4> QED BY <1>1, <4>1
    <3>3. CASE r = a /\ Hits(r)
      BY <1>2, <3>3
    <3>4. CASE r = a /\ ~Hits(r)
      <4>1. req'[r].of = req[r].of /\ req[r].at # "done"
        BY <2>2, <3>4 DEF Notes, GoesMissing, Stores, Records
      <4> HIDE DEF Good
      <4> QED BY <1>1, <4>1
    <3> QED BY <3>2, <3>3, <3>4
  <2> QED BY <2>1, <2>2 DEF Kinds
<1> QED BY <1>3 DEF HitInv, HitRepeatsMiss

----------------------------------------------------------------------------
(* Who met whom, while nothing fails.                                      *)

\* Every step keeps OrderInv.
LEMMA OrderStep ==
  ASSUME TypeOK, OrderInv, Keeps, Kinds
  PROVE  OrderInv'
<1> SUFFICES ASSUME ~hurt' PROVE
      /\ meta' # None => body' # None
      /\ body' # None /\ meta' = None => req'[body'.by].at = "meta"
      /\ \A r \in Req :
           /\ req'[r].at = "meta" => body' # None
           /\ req'[r].at = "open" => meta' # None
  BY DEF OrderInv
<1>1. /\ meta # None => body # None
      /\ body # None /\ meta = None => req[body.by].at = "meta"
      /\ \A r \in Req :
           /\ req[r].at = "meta" => body # None
           /\ req[r].at = "open" => meta # None
  BY DEF OrderInv, Keeps
<1>2. body # None => body.by \in Req
  BY DEF TypeOK, Stored
<1>3. CASE Quietly
  BY <1>1, <1>2, <1>3 DEF Quietly, Quiet
<1>4. ASSUME NEW r \in Req, Notes(r) \/ GoesMissing(r) \/ Hits(r)
      PROVE  /\ body' = body /\ meta' = meta
             /\ \A o \in Req : /\ req'[o].at = "meta" <=> req[o].at = "meta"
                               /\ req'[o].at = "open" => meta # None
  BY <1>1, <1>4 DEF Notes, GoesMissing, Hits, Others
<1>5. ASSUME NEW r \in Req, Stores(r)
      PROVE  /\ meta' = meta /\ body' # None /\ body'.by = r /\ req'[r].at = "meta"
             /\ \A o \in Req : req'[o].at = "open" => meta # None
  <2>1. body' # None
    BY <1>5, CacheAssumption DEF Stores
  <2> QED BY <1>1, <1>5, <2>1 DEF Stores, Others
<1>6. ASSUME NEW r \in Req, Records(r)
      PROVE  /\ meta' # None /\ body' = body /\ body # None
             /\ \A o \in Req : req'[o].at = "open" => meta' # None
  BY <1>1, <1>6, CacheAssumption DEF Records, Others
<1> QED BY <1>1, <1>2, <1>3, <1>4, <1>5, <1>6 DEF Kinds

\* Every step keeps MetInv.
LEMMA MetStep ==
  ASSUME TypeOK, OrderInv, MetInv, Keeps, Kinds
  PROVE  MetInv'
<1> DEFINE met1(p, q) == p # q => {p, q} \in met'
           misses1(q) == req'[q].at \in Missing
           MissesMeet == \A p, q \in Req : misses1(p) /\ misses1(q) => met1(p, q)
           WritersMeet ==
             /\ \A q \in Req : misses1(q) =>
                  /\ body' # None => met1(q, body'.by)
                  /\ meta' # None => met1(q, meta'.by)
             /\ body' # None /\ meta' # None => met1(body'.by, meta'.by)
           SeenMeet == \A r \in Req : req'[r].at = "open" =>
             /\ body' # None => met1(body'.by, req'[r].seen.by)
             /\ \A q \in Req : misses1(q) => met1(q, req'[r].seen.by)
<1> SUFFICES ASSUME ~hurt' PROVE MissesMeet /\ WritersMeet /\ SeenMeet
  BY DEF MetInv, Met, Misses
<1>1. /\ meta # None => body # None
      /\ body # None /\ meta = None => req[body.by].at = "meta"
      /\ \A r \in Req :
           /\ req[r].at = "meta" => body # None
           /\ req[r].at = "open" => meta # None
  BY DEF OrderInv, Keeps
<1>2. /\ \A p, q \in Req : Misses(p) /\ Misses(q) => Met(p, q)
      /\ \A q \in Req : Misses(q) =>
           /\ body # None => Met(q, body.by)
           /\ meta # None => Met(q, meta.by)
      /\ body # None /\ meta # None => Met(body.by, meta.by)
      /\ \A r \in Req : req[r].at = "open" =>
           /\ body # None => Met(body.by, req[r].seen.by)
           /\ \A q \in Req : Misses(q) => Met(q, req[r].seen.by)
  BY DEF MetInv, Keeps
<1>3. body # None => body.by \in Req
  BY DEF TypeOK, Stored
<1>4. \A p, q : Met(p, q) => met1(p, q) /\ met1(q, p)
  <2>1. \A p, q : {p, q} = {q, p}
    OBVIOUS
  <2> QED BY <2>1 DEF Met, Keeps
<1>5. CASE Quietly
  <2>1. \A q \in Req : misses1(q) => Misses(q)
    BY <1>5 DEF Quietly, Quiet, Misses
  <2>2. \A q \in Req : req'[q].at = "open" => req[q].at = "open" /\ req'[q].seen = req[q].seen
    BY <1>5 DEF Quietly, Quiet
  <2>3. body' = body /\ meta' = meta
    BY <1>5 DEF Quietly
  <2> HIDE DEF met1, misses1
  <2> QED BY <1>2, <1>4, <2>1, <2>2, <2>3
<1>6. ASSUME NEW a \in Req, Notes(a)
      PROVE /\ \A q \in Req : misses1(q) => Misses(q)
            /\ \A r \in Req : req'[r].at = "open" => \/ req[r].at = "open" /\ req'[r].seen = req[r].seen
                                                     \/ meta # None /\ req'[r].seen = meta
            /\ body' = body /\ meta' = meta
  <2>1. "open" \notin Missing
    BY DEF Missing
  <2> QED BY <1>6, <2>1 DEF Notes, Others, Misses
<1>7. ASSUME NEW a \in Req, Hits(a) \/ Records(a) \/ Stores(a)
      PROVE /\ \A q \in Req : misses1(q) => Misses(q)
            /\ \A r \in Req : req'[r].at = "open" => req[r].at = "open" /\ req'[r].seen = req[r].seen
  <2>1. "done" \notin Missing /\ {"meta", "read", "body"} \subseteq Missing
    BY DEF Missing
  <2> QED BY <1>7, <2>1 DEF Hits, Records, Stores, Others, Misses
<1>8. ASSUME NEW a \in Req, Hits(a)
      PROVE body' = body /\ meta' = meta
  BY <1>8 DEF Hits
<1>9. ASSUME NEW a \in Req, Stores(a)
      PROVE Misses(a) /\ body'.by = a /\ meta' = meta
  BY <1>9 DEF Stores, Misses, Missing
<1>10. ASSUME NEW a \in Req, Records(a)
       PROVE Misses(a) /\ meta'.by = a /\ body' = body
  BY <1>10 DEF Records, Misses, Missing, MetaOf, Recorded
<1>11. ASSUME NEW a \in Req, GoesMissing(a)
       PROVE /\ \A q \in Req : q # a /\ misses1(q) => Misses(q)
             /\ \A q \in Req : Misses(q) => met1(a, q) /\ met1(q, a)
             /\ \A r \in Req : req'[r].at = "open" => req[r].at = "open" /\ req'[r].seen = req[r].seen
             /\ \A r \in Req : req'[r].at = "open" => meta # None
             /\ body' = body /\ meta' = meta
             /\ meta = None
  <2>1. \A q \in Req : Misses(q) => {a, q} \in met'
    BY <1>11 DEF GoesMissing
  <2>2. \A q \in Req : {a, q} = {q, a}
    OBVIOUS
  <2>3. meta = None
    BY <1>1, <1>11 DEF GoesMissing
  <2> QED BY <1>1, <1>11, <2>1, <2>2, <2>3 DEF GoesMissing, Others, Misses
<1>12. body # None /\ meta = None => Misses(body.by)
  BY <1>1, <1>3 DEF Misses, Missing
<1>13. \A q : met1(q, q)
  OBVIOUS
<1> HIDE DEF met1, misses1
<1>14. ASSUME NEW a \in Req, Notes(a) PROVE MissesMeet /\ WritersMeet /\ SeenMeet
  BY <1>2, <1>4, <1>6, <1>14
<1>15. ASSUME NEW a \in Req, Hits(a) PROVE MissesMeet /\ WritersMeet /\ SeenMeet
  BY <1>2, <1>4, <1>7, <1>8, <1>15
<1>16. ASSUME NEW a \in Req, Stores(a) PROVE MissesMeet /\ WritersMeet /\ SeenMeet
  BY <1>2, <1>4, <1>7, <1>9, <1>16
<1>17. ASSUME NEW a \in Req, Records(a) PROVE MissesMeet /\ WritersMeet /\ SeenMeet
  BY <1>2, <1>4, <1>7, <1>10, <1>17
<1>18. ASSUME NEW a \in Req, GoesMissing(a) PROVE MissesMeet /\ WritersMeet /\ SeenMeet
  <2>1. MissesMeet
    BY <1>2, <1>4, <1>11, <1>13, <1>18
  <2>2. WritersMeet
    BY <1>2, <1>3, <1>4, <1>11, <1>12, <1>18
  <2>3. SeenMeet
    BY <1>11, <1>18
  <2> QED BY <2>1, <2>2, <2>3
<1> HIDE DEF MissesMeet, WritersMeet, SeenMeet
<1> QED BY <1>5, <1>14, <1>15, <1>16, <1>17, <1>18 DEF Kinds

\* Every step keeps MixNeedsOverlap.
LEMMA MixStep ==
  ASSUME TypeOK, MetInv, MixNeedsOverlap, Keeps, Kinds
  PROVE  MixNeedsOverlap'
<1> SUFFICES ASSUME ~hurt', NEW r \in Req, Cardinality(req'[r].of) = 2
             PROVE  req'[r].of \in met'
  BY DEF MixNeedsOverlap
<1>1. ~hurt /\ met \subseteq met'
  BY DEF Keeps
<1>2. CASE req'[r].of = req[r].of
  BY <1>1, <1>2 DEF MixNeedsOverlap
<1>3. CASE Hits(r)
  <2>1. body.by # req[r].seen.by
    <3> SUFFICES ASSUME body.by = req[r].seen.by PROVE FALSE
      OBVIOUS
    <3>1. req'[r].of = {body.by}
      BY <1>3 DEF Hits
    <3> QED BY <3>1, FS_Singleton
  <2>2. Met(body.by, req[r].seen.by)
    BY <1>1, <1>3 DEF MetInv, Hits
  <2> QED BY <1>1, <1>3, <2>1, <2>2 DEF Hits, Met
<1>4. CASE Quietly
  BY <1>2, <1>4 DEF Quietly, Quiet
<1>5. ASSUME NEW a \in Req, Notes(a) \/ GoesMissing(a) \/ Hits(a) \/ Stores(a) \/ Records(a)
      PROVE  req'[r].of = req[r].of \/ Hits(r)
  BY <1>5 DEF Notes, GoesMissing, Hits, Stores, Records, Others
<1> QED BY <1>2, <1>3, <1>4, <1>5 DEF Kinds

----------------------------------------------------------------------------
(* Theorems.                                                               *)

\* The invariants hold in every reachable state.
LEMMA SpecIInv == Spec => [](IInv /\ OverlapInv)
<1>1. Init => IInv /\ OverlapInv
  BY InitIInv
<1>2. IInv /\ OverlapInv /\ [Next]_vars => (IInv /\ OverlapInv)'
  <2> SUFFICES ASSUME IInv, OverlapInv, [Next]_vars PROVE (IInv /\ OverlapInv)'
    OBVIOUS
  <2>1. Keeps /\ Kinds
    BY StepKinds DEF IInv
  <2>2. TypeOK' /\ AnswerInv'
    BY TypeStep, AnswerStep DEF IInv
  <2>3. FilesInv' /\ HitInv' /\ HitRepeatsMiss'
    BY <2>1, FilesStep, HitInvStep DEF IInv
  <2>4. OrderInv' /\ MetInv' /\ MixNeedsOverlap'
    BY <2>1, OrderStep, MetStep, MixStep DEF IInv, OverlapInv
  <2> QED BY <2>2, <2>3, <2>4 DEF IInv, OverlapInv
<1> QED BY <1>1, <1>2, PTL DEF Spec

\* Requests, files and texts are always well typed: rewriting and encoding an
\* answer makes bytes of it that can be sent and stored.
THEOREM TypeCorrect == Spec => []TypeOK
<1>1. IInv => TypeOK
  BY DEF IInv
<1> QED BY <1>1, SpecIInv, PTL

\* A HIT on one request's entry is, byte for byte and under the same
\* Content-Encoding, what that request would have answered to this host: for
\* every number of rules, whatever they do to each other and however often they
\* were reloaded since.
THEOREM HitsRepeat == Spec => []HitRepeatsMiss
<1>1. IInv => HitRepeatsMiss
  BY DEF IInv
<1> QED BY <1>1, SpecIInv, PTL

\* While nothing fails, the two files of a HIT are of one request, or of two
\* that missed at the same time.
THEOREM MixesOverlap == Spec => []MixNeedsOverlap
<1>1. OverlapInv => MixNeedsOverlap
  BY DEF OverlapInv
<1> QED BY <1>1, SpecIInv, PTL

=============================================================================
