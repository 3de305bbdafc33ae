------------------------------ MODULE KvsCache ------------------------------
(***************************************************************************)
(* The response cache of kvs (tools/kvs/pkg/cache.go, cacherec.go and      *)
(* cachehdr.go): one entry, a body file and a metadata file beside it.     *)
(* A request that finds both is a HIT; any other fetches the upstream,     *)
(* answers from it and writes first the body, then the metadata.  Nobody   *)
(* locks the entry.  cache_sed rules rewrite bodies: once when they are    *)
(* stored, or on each answer where the new text holds the request's Host.  *)
(*                                                                         *)
(* A text is known by the version the upstream had, by the rules whose     *)
(* old text occurs in it and by the replacements made in it.  The files    *)
(* of an entry are renamed into place: a step replaces one of them.        *)
(***************************************************************************)
EXTENDS Naturals, FiniteSets, Sequences, Functions

CONSTANTS
  Req,       \* requests for the entry
  Host,      \* values of their Host header
  Order,     \* cache_sed rules by name, a sequence
  Each,      \* rules whose new text holds >host<
  Applies,   \* rules whose files and hosts match the entry
  Rewrites,  \* what a replacement makes of other rules' old texts
  Answers,   \* what the upstream may answer
  Brotli,    \* whether the brotli tool is installed
  None,
  Budget     \* bound: reloads and failures

Rule == Range(Order)
Encoding == {"gzip", "br", "other"}
Text == [ver : Nat, olds : SUBSET Rule, made : SUBSET (Rule \X (Host \cup {None}))]
Bytes == [text : Text, encs : Seq(Encoding)]
Stored == [by : Req, bytes : Bytes]
Modes == {"none", "once", "each"}
Plans == [mode : Modes, srcGzip : BOOLEAN, each : SUBSET Rule]
Metadata == [by : Req, status : Nat, enc : Encoding \cup {None}, sed : Plans]

ASSUME CacheAssumption ==
  /\ None \notin Req \cup Host \cup Encoding
  /\ None \notin Bytes \cup Stored \cup Metadata
  /\ Order \in Seq(Rule)
  /\ Each \subseteq Rule /\ Applies \subseteq Rule
  /\ Rewrites \in [Rule -> [gone : SUBSET Rule, new : SUBSET Rule]]
  /\ Answers \subseteq [status : Nat, enc : Encoding \cup {None}, bytes : Bytes]
  /\ Brotli \in BOOLEAN
  /\ Budget \in Nat

VARIABLES
  body, meta,    \* the entry's two files
  bak,           \* the original beside a rewritten body
  rules, rec,    \* installed rules: cache_sed, and whether one of cache_rec matches
  req,           \* requests
  met,           \* pairs of requests that missed at the same time
  hurt,          \* something failed
  budget

files == <<body, meta, bak>>
env == <<rules, rec>>
events == <<hurt, budget>>
vars == <<files, env, req, met, events>>

NoPlan == [mode |-> "none", srcGzip |-> FALSE, each |-> {}]
Pending == [status |-> 0, enc |-> None, bytes |-> None]
Response == [status : Nat, enc : Encoding \cup {None}, bytes : Bytes \cup {None}]

\* at: where the handler is.  raw: the upstream's answer.  used: the rules that
\* rewrote it.  seen: the metadata a HIT goes by.  resp: what was sent, and of:
\* the writers of the files a HIT was made of.
Fresh == [at |-> "new", host |-> None, raw |-> Pending, used |-> {}, seen |-> None,
          resp |-> Pending, of |-> {}]
Missing == {"fetch", "read", "backup", "stash", "body", "meta"}
Request == [at : {"new", "lookup", "open", "done", "dead"} \cup Missing, host : Host \cup {None},
            raw : Response, used : SUBSET Rule, seen : Metadata \cup {None}, resp : Response,
            of : SUBSET Req]

TypeOK ==
  /\ body \in Stored \cup {None}
  /\ meta \in Metadata \cup {None}
  /\ bak \in Bytes \cup {None}
  /\ rules \subseteq Rule /\ rec \in BOOLEAN
  /\ req \in [Req -> Request]
  /\ met \subseteq SUBSET Req
  /\ hurt \in BOOLEAN /\ budget \in Nat

Init ==
  /\ body = None /\ meta = None /\ bak = None
  /\ rules \in SUBSET Rule /\ rec = FALSE
  /\ req = [r \in Req |-> Fresh]
  /\ met = {}
  /\ hurt = FALSE /\ budget = Budget

Spend ==
  /\ budget > 0
  /\ budget' = budget - 1

Fault == Spend /\ hurt' = TRUE

----------------------------------------------------------------------------
(* Texts and their encodings.                                              *)

Plain(b) == b.encs = <<>>
gzipEncode(b) == [b EXCEPT !.encs = Append(@, "gzip")]

\* A rule's old text is replaced wherever it occurs.  Compressed bytes hold none.
Replace(b, rule, host) ==
  IF Plain(b) /\ rule \in b.text.olds
    THEN [b EXCEPT !.text.olds = (@ \ ({rule} \cup Rewrites[rule].gone)) \cup Rewrites[rule].new,
                   !.text.made = @ \cup {<<rule, IF rule \in Each THEN host ELSE None>>}]
    ELSE b

\* The chosen rules one after the other, in the order of their names.
sedApply(chosen, b, host) ==
  LET done[n \in 0 .. Len(Order)] ==
        IF n = 0 THEN b
        ELSE IF Order[n] \in chosen THEN Replace(done[n - 1], Order[n], host)
        ELSE done[n - 1]
  IN done[Len(Order)]

\* The answer decoded, or None where that is not done or fails.
Decoded(raw) ==
  CASE raw.enc = None -> raw.bytes
    [] raw.enc \in {"gzip", "br"} /\ raw.bytes.encs = <<raw.enc>> /\ (raw.enc = "br" => Brotli) ->
         [raw.bytes EXCEPT !.encs = <<>>]
    [] OTHER -> None

sedMatchingRules == rules \cap Applies

Occurs(chosen, b) == IF Plain(b) THEN chosen \cap b.text.olds ELSE {}

Untouched(raw) == [store |-> raw.bytes, send |-> raw.bytes, plan |-> NoPlan, gzip |-> FALSE]
Once(b) == [store |-> gzipEncode(b), send |-> gzipEncode(b), plan |-> [NoPlan EXCEPT !.mode = "once"],
            gzip |-> TRUE]

\* Mutant of PerRequest: the answer is stored, and its Host with it.
PerRequestSent(b, each, encoded, host) ==
  LET sent == sedApply(each, b, host)
  IN [store |-> sent, send |-> IF encoded THEN gzipEncode(sent) ELSE sent,
      plan |-> [mode |-> "each", srcGzip |-> encoded, each |-> each], gzip |-> encoded]

PerRequest(b, each, encoded, host) ==
  LET sent == sedApply(each, b, host)
  IN [store |-> b, send |-> IF encoded THEN gzipEncode(sent) ELSE sent,
      plan |-> [mode |-> "each", srcGzip |-> encoded, each |-> each], gzip |-> encoded]

\* What is stored, sent and recorded of an answer.
sedPipeline(chosen, raw, host) ==
  LET text == Decoded(raw)
      baked == sedApply(chosen \ Each, text, host)
      still == Occurs(chosen \cap Each, baked)
  IN IF chosen = {} \/ text = None THEN Untouched(raw)
     ELSE IF Occurs(chosen, text) = {} THEN Untouched(raw)
     ELSE IF still = {} THEN Once(baked)
     ELSE PerRequest(baked, still, raw.enc # None, host)

\* The Content-Encoding the metadata records.
applyEntryFraming(raw, plan) ==
  CASE plan.mode = "none" -> raw.enc
    [] plan.mode = "once" -> "gzip"
    [] plan.mode = "each" -> None

\* What a MISS answers.
MissAnswer(chosen, raw, host) ==
  LET p == sedPipeline(chosen, raw, host)
  IN [status |-> raw.status, bytes |-> p.send,
      enc |-> IF p.plan.mode = "none" THEN raw.enc ELSE IF p.gzip THEN "gzip" ELSE None]

\* What a HIT answers, from the metadata and the stored bytes alone.
HitAnswer(m, b, host) ==
  LET each == m.sed.mode = "each"
      out == IF each THEN sedApply(m.sed.each, b, host) ELSE b
      zips == each /\ m.sed.srcGzip
  IN [status |-> m.status, bytes |-> IF zips THEN gzipEncode(out) ELSE out,
      enc |-> IF zips THEN "gzip" ELSE m.enc]

----------------------------------------------------------------------------
(* A request.                                                              *)

Goto(r, at) == req' = [req EXCEPT ![r].at = at]
Answer(r, resp) == req' = [req EXCEPT ![r].at = "done", ![r].resp = resp]

\* OPTIONS under the cache path, another method, or a rule of cache_rec: the
\* entry plays no part.
Arrive(r) ==
  /\ req[r].at = "new"
  /\ \E h \in Host :
       \/ req' = [req EXCEPT ![r].at = IF rec THEN "done" ELSE "lookup", ![r].host = h]
       \/ req' = [req EXCEPT ![r].at = "done", ![r].host = h]
  /\ UNCHANGED <<files, env, met, events>>

Miss(r) ==
  /\ Goto(r, "fetch")
  /\ met' = met \cup {{r, o} : o \in {p \in Req : req[p].at \in Missing}}

\* Mutant of Lookup: a client may ask for a fresh copy.
LookupFresh(r) ==
  /\ req[r].at = "lookup"
  /\ \/ Miss(r)
     \/ /\ meta # None
        /\ req' = [req EXCEPT ![r].at = "open", ![r].seen = meta]
        /\ UNCHANGED met
  /\ UNCHANGED <<files, env, events>>

Lookup(r) ==
  /\ req[r].at = "lookup"
  /\ IF meta = None THEN Miss(r)
     ELSE /\ req' = [req EXCEPT ![r].at = "open", ![r].seen = meta]
          /\ UNCHANGED met
  /\ UNCHANGED <<files, env, events>>

\* The body is opened after the metadata was read.
serveFromCache(r) ==
  IF body # None
    THEN /\ req' = [req EXCEPT ![r].at = "done", ![r].of = {body.by, req[r].seen.by},
                    ![r].resp = HitAnswer(req[r].seen, body.bytes, req[r].host)]
         /\ UNCHANGED met
    ELSE Miss(r)

Open(r) ==
  /\ req[r].at = "open"
  /\ serveFromCache(r)
  /\ UNCHANGED <<files, env, events>>

Fetch(r) ==
  /\ req[r].at = "fetch"
  /\ \E a \in Answers :
       IF a.status \in 200 .. 299 \cup {404}
         THEN req' = [req EXCEPT ![r].at = "read", ![r].raw = a]
         ELSE Answer(r, [status |-> a.status, enc |-> a.enc, bytes |-> a.bytes])
  /\ UNCHANGED <<files, env, met, events>>

\* No answer, a body that breaks off, or a client that leaves a streamed body.
FetchFails(r) ==
  /\ req[r].at \in {"fetch", "read"}
  /\ Answer(r, [Pending EXCEPT !.status = IF req[r].at = "fetch" THEN 502 ELSE req[r].raw.status])
  /\ Fault
  /\ UNCHANGED <<files, env, met>>

\* With rules installed, matching or not.
Rewrite(r) ==
  /\ req[r].at = "read"
  /\ rules # {}
  /\ LET once == sedPipeline(sedMatchingRules, req[r].raw, req[r].host).plan.mode = "once"
     IN req' = [req EXCEPT ![r].at = IF once THEN "backup" ELSE "body",
                           ![r].used = sedMatchingRules]
  /\ UNCHANGED <<files, env, met, events>>

\* backupOriginalOnce looks, and writes.
LookForBackup(r) ==
  /\ req[r].at = "backup"
  /\ Goto(r, IF bak = None THEN "stash" ELSE "body")
  /\ UNCHANGED <<files, env, met, events>>

backupOriginalOnce(r) ==
  /\ req[r].at = "stash"
  /\ \/ bak' = req[r].raw.bytes /\ UNCHANGED events
     \/ UNCHANGED bak /\ Fault
  /\ Goto(r, "body")
  /\ UNCHANGED <<body, meta, env, met>>

Entry(r) == sedPipeline(req[r].used, req[r].raw, req[r].host)

\* The client is answered, and may be gone: nobody looks.  Then the body is
\* written.
SendThen(r, at) ==
  req' = [req EXCEPT ![r].at = at,
                     ![r].resp = MissAnswer(req[r].used, req[r].raw, req[r].host)]

WriteBody(r) ==
  /\ req[r].at = "body"
  /\ body' = [by |-> r, bytes |-> Entry(r).store]
  /\ SendThen(r, "meta")
  /\ UNCHANGED <<meta, bak, env, met, events>>

\* Without rules the body is sent and stored at once.
streamToTemp(r) ==
  /\ req[r].at = "read"
  /\ rules = {}
  /\ body' = [by |-> r, bytes |-> req[r].raw.bytes]
  /\ SendThen(r, "meta")
  /\ UNCHANGED <<meta, bak, env, met, events>>

writeCacheMeta(r) ==
  /\ req[r].at = "meta"
  /\ meta' = [by |-> r, status |-> req[r].raw.status, sed |-> Entry(r).plan,
              enc |-> applyEntryFraming(req[r].raw, Entry(r).plan)]
  /\ Goto(r, "done")
  /\ UNCHANGED <<body, bak, env, met, events>>

\* A file that cannot be written ends the storing; what was sent was sent.
WriteFails(r) ==
  /\ req[r].at \in {"body", "meta"}
  /\ SendThen(r, "done")
  /\ Fault
  /\ UNCHANGED <<files, env, met>>

----------------------------------------------------------------------------
(* The process and its surroundings.                                       *)

\* SetCacheSedEnv and SetCacheRecEnv after the configuration was loaded.
Reload ==
  /\ rules' \in SUBSET Rule
  /\ rec' \in BOOLEAN
  /\ Spend /\ UNCHANGED hurt
  /\ UNCHANGED <<files, req, met>>

\* The process dies, and another one takes the rest of the requests.
Crash ==
  /\ req' = [r \in Req |-> IF req[r].at \in {"new", "done"} THEN req[r]
                           ELSE [req[r] EXCEPT !.at = "dead"]]
  /\ Fault
  /\ UNCHANGED <<files, env, met>>

\* Somebody clears a file of the entry away.
Purge ==
  /\ \/ body' = None /\ UNCHANGED meta
     \/ meta' = None /\ UNCHANGED body
  /\ Fault
  /\ UNCHANGED <<bak, env, req, met>>

handleCachedCache(r) ==
  \/ Fetch(r) \/ FetchFails(r)
  \/ Rewrite(r) \/ LookForBackup(r) \/ backupOriginalOnce(r) \/ WriteBody(r)
  \/ streamToTemp(r)
  \/ writeCacheMeta(r) \/ WriteFails(r)

HandleCache(r) == Arrive(r) \/ Lookup(r) \/ Open(r) \/ handleCachedCache(r)

Next ==
  \/ \E r \in Req : HandleCache(r)
  \/ Reload \/ Crash \/ Purge

Spec == Init /\ [][Next]_vars

----------------------------------------------------------------------------
(* Properties.                                                             *)

\* A HIT on an entry that one request wrote answers, byte for byte and under
\* the same Content-Encoding, what that request would have answered to this
\* host: whatever the upstream's encoding was, whatever the rules do to each
\* other, and although the rules may have been reloaded since.
HitRepeatsMiss ==
  \A r, w \in Req :
    req[r].of = {w} => req[r].resp = MissAnswer(req[w].used, req[w].raw, req[r].host)

\* A HIT is made of one request's work, unless two requests missed at the same
\* time or something failed: only a MISS writes the entry, and only what is not
\* complete is a MISS.
MixNeedsOverlap ==
  \A r \in Req :
    Cardinality(req[r].of) = 2 /\ ~hurt => req[r].of \in met

\* The Content-Encoding sent is the one the bytes have.  cachehdr.go says of
\* applyEntryFraming that the headers "match what is sent"; a HIT of two
\* requests' files has the one's header and the other's bytes.
FramingIsTrue ==
  \A r \in Req :
    req[r].of # {} =>
      req[r].resp.bytes.encs = IF req[r].resp.enc = None THEN <<>> ELSE <<req[r].resp.enc>>

=============================================================================
