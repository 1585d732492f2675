----------------------------- MODULE FramedLink -----------------------------
(***************************************************************************)
(* What a dialog promises of the messages that come from the remote peer:  *)
(* the processor gets them one by one, whole and in the order they were    *)
(* sent, whatever the bytes they travel in and the pieces those come in.   *)
(***************************************************************************)
EXTENDS Naturals, Sequences

CONSTANT Payloads   \* the messages, as sequences of bytes

VARIABLES
    sent,       \* the messages the remote sent
    got         \* those relayed to the processor

Init == sent = <<>> /\ got = <<>>

Send == \E m \in Payloads : sent' = Append(sent, m) /\ UNCHANGED got

Deliver ==
    /\ Len(got) < Len(sent)
    /\ got' = Append(got, sent[Len(got) + 1])
    /\ UNCHANGED sent

Next == Send \/ Deliver
Spec == Init /\ [][Next]_<<sent, got>>
=============================================================================
