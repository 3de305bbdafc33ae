----------------------------- MODULE MCKvsCache -----------------------------
(* Rules and answers for TLC.                                              *)
EXTENDS KvsCache, TLC

CONSTANTS o1, e1

\* A rule applied once whose new text holds the old text of one applied to each
\* answer, and that one.
Rules == <<o1, e1>>
Meddling == (o1 :> [gone |-> {}, new |-> {e1}]) @@ (e1 :> [gone |-> {}, new |-> {}])

Said(status, enc, ver, olds) ==
  [status |-> status, enc |-> enc,
   bytes |-> [text |-> [ver |-> ver, olds |-> olds, made |-> {}],
              encs |-> IF enc = None THEN <<>> ELSE <<enc>>]]
Served == {Said(200, "gzip", 1, {o1}), Said(200, None, 2, {e1}), Said(200, "br", 1, {e1}),
           Said(404, "gzip", 2, {}), Said(500, None, 1, {})}
Same == Permutations(Req) \cup Permutations(Host)

=============================================================================
