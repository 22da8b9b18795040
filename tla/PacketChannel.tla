--------------------------- MODULE PacketChannel ---------------------------
(***************************************************************************)
(* What a receive path promises: the packets of the peer, each whole and   *)
(* unchanged, are processed in the order in which they were sent, and all  *)
(* of them are.                                                            *)
(***************************************************************************)
EXTENDS Naturals, Sequences

VARIABLES
  sent,       \* the packets sent, in order
  processed   \* the packets processed, in order

vars == <<sent, processed>>

Init == sent = << >> /\ processed = << >>

\* One more packet, whatever it is; those sent before stay.
Send ==
  /\ Len(sent') = Len(sent) + 1
  /\ sent = SubSeq(sent', 1, Len(sent))
  /\ UNCHANGED processed

Process ==
  /\ Len(processed) < Len(sent)
  /\ processed' = Append(processed, sent[Len(processed) + 1])
  /\ UNCHANGED sent

Next == Send \/ Process

Spec == Init /\ [][Next]_vars

FairSpec == Spec /\ WF_vars(Process)
=============================================================================
