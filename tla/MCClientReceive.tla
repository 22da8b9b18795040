-------------------------- MODULE MCClientReceive --------------------------
(***************************************************************************)
(* ClientReceive for three kinds of PAG:                                   *)
(*                                                                         *)
(*   "cut"    TCP may cut its commands anywhere, some are too long for     *)
(*            GetNextPacket, and it may go away                            *)
(*   "wrong"  some of its commands have lengths that GetPacketSize         *)
(*            dislikes without a flush, below MinPacket and above          *)
(*            MaxPacket; no more than m_Mem holds, since nothing takes     *)
(*            them away                                                    *)
(*   "whole"  every command arrives whole and has an accepted length       *)
(***************************************************************************)
EXTENDS ClientReceive

VARIABLE kind

mcVars == <<vars, kind>>

Whole == INSTANCE ClientReceive WITH
           Sizes <- {4, 5}, WholePackets <- TRUE, MayVanish <- FALSE, MaxPackets <- 5

Wrong == INSTANCE ClientReceive WITH Sizes <- {3, 5, 7}, MaxPackets <- 2

MCInit == Init /\ kind \in {"cut", "wrong", "whole"}

MCNext ==
  /\ \/ kind = "cut" /\ Next
     \/ kind = "wrong" /\ Wrong!Next
     \/ kind = "whole" /\ Whole!Next
  /\ UNCHANGED kind

\* The handlers do the same whatever is sent, up to where TCP cuts it.
MCOnReceive ==
  /\ IF kind = "whole" THEN Whole!OnReceive ELSE OnReceive
  /\ UNCHANGED kind

MCFairSpec ==
  /\ MCInit /\ [][MCNext]_mcVars
  /\ WF_mcVars(MCOnReceive)
  /\ WF_mcVars(ProcessReceivedMessage /\ UNCHANGED kind)

\* Commands that arrive whole are processed as PacketChannel promises: all of
\* them, once and in order.  Nothing is asked of the channel of the others, as a
\* header that is cut may cost a command (PartialPacketsKept).
WholeChannel == INSTANCE PacketChannel WITH
  sent <- IF kind = "whole" THEN [p \in DOMAIN stream |-> PacketBytes(stream[p])] ELSE << >>,
  processed <- IF kind = "whole" THEN processed ELSE << >>

WholeImplements == WholeChannel!FairSpec
=============================================================================
