----------------------------- MODULE ByteStream -----------------------------
(***************************************************************************)
(* What a relayed session promises to its two ends: in each direction the  *)
(* chunks arrive in the order they were sent, none twice, none left out;   *)
(* while the session is open they do arrive.  A session that ends may cut  *)
(* either direction short, and only at its end.                            *)
(***************************************************************************)
EXTENDS Naturals, Sequences

CONSTANT Dir   \* directions

VARIABLES
  sent,  \* how many chunks the sender has handed over; chunk n is the number n
  got,   \* the chunks the receiver has got
  open

streamVars == <<sent, got, open>>

Init ==
  /\ sent = [d \in Dir |-> 0]
  /\ got = [d \in Dir |-> <<>>]
  /\ open = TRUE

Send(d) ==
  /\ sent' = [sent EXCEPT ![d] = @ + 1]
  /\ UNCHANGED <<got, open>>

Deliver(d) ==
  /\ Len(got[d]) < sent[d]
  /\ got' = [got EXCEPT ![d] = Append(@, Len(@) + 1)]
  /\ UNCHANGED <<sent, open>>

DeliverOpen(d) == open /\ Deliver(d)

Close ==
  /\ open
  /\ open' = FALSE
  /\ UNCHANGED <<sent, got>>

Next == Close \/ \E d \in Dir : Send(d) \/ Deliver(d)

Spec == Init /\ [][Next]_streamVars /\ \A d \in Dir : WF_streamVars(DeliverOpen(d))

=============================================================================
