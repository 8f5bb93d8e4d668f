----------------------------- MODULE ByteStream -----------------------------
(***************************************************************************)
(* What one direction of a tunnelled connection promises, whatever carries *)
(* it: what arrives is what was sent, in order, nothing twice and nothing  *)
(* left out, until the stream ends.                                        *)
(***************************************************************************)
EXTENDS Naturals, Sequences

VARIABLES
    sent,          \* what the sender has written
    arrived        \* what has come out at the other end

streamVars == <<sent, arrived>>

StreamInit == sent = <<>> /\ arrived = <<>>

Rest == SubSeq(sent, Len(arrived) + 1, Len(sent))

Send == /\ sent' # sent /\ Len(sent') >= Len(sent) /\ SubSeq(sent', 1, Len(sent)) = sent
        /\ UNCHANGED arrived

Arrive == /\ \E n \in 1..Len(Rest) : arrived' = arrived \o SubSeq(Rest, 1, n)
          /\ UNCHANGED sent

\* A stream whose receiving end only ever extends, in the order of the sender.
StreamSpec == StreamInit /\ [][Send \/ Arrive]_streamVars

=============================================================================
