--------------------------- MODULE MessageChannel ---------------------------
(***************************************************************************)
(* What framing promises to the handlers behind it: the messages that the  *)
(* peer has sent, whole, each once and in the order of sending.            *)
(***************************************************************************)
EXTENDS Naturals, Sequences

CONSTANT Messages

VARIABLES sent, received

vars == <<sent, received>>

Init ==
    /\ sent = <<>>
    /\ received = <<>>

Send == \E m \in Messages : sent' = Append(sent, m) /\ UNCHANGED received

Receive ==
    /\ Len(received) < Len(sent)
    /\ received' = Append(received, sent[Len(received) + 1])
    /\ UNCHANGED sent

Next == Send \/ Receive

Safety == Init /\ [][Next]_vars

\* What has been sent is received in the end.
Spec == Safety /\ WF_vars(Receive)

=============================================================================
