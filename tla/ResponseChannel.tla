-------------------------- MODULE ResponseChannel --------------------------
(***************************************************************************)
(* What reader.go promises its host: the responses of the server, whole,   *)
(* one per call and in the order they were sent.  A response that was cut  *)
(* off is never handed over.                                               *)
(***************************************************************************)
EXTENDS Naturals, Sequences

CONSTANT Responses

VARIABLES
  sent,       \* the responses the server has sent in full
  delivered   \* the responses returned to the host

vars == <<sent, delivered>>

Init == sent = <<>> /\ delivered = <<>>

Send == \E r \in Responses : sent' = Append(sent, r) /\ UNCHANGED delivered

Deliver ==
  /\ Len(delivered) < Len(sent)
  /\ delivered' = Append(delivered, sent[Len(delivered) + 1])
  /\ UNCHANGED sent

Next == Send \/ Deliver

Spec == Init /\ [][Next]_vars
FairSpec == Spec /\ WF_vars(Deliver)
=============================================================================
