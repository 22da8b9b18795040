-------------------------- MODULE MCServerReceive --------------------------
(***************************************************************************)
(* ServerReceive for instruments of two kinds: a well-behaved one, which   *)
(* the constants describe, and a faulty one, which leaves SYNC out, sends  *)
(* packets that are too long and may vanish.                               *)
(***************************************************************************)
EXTENDS ServerReceive

VARIABLE faulty

mcVars == <<vars, faulty>>

Faulty == INSTANCE ServerReceive WITH
            Sizes <- {4, 6, 8}, SyncKinds <- BOOLEAN, MayVanish <- TRUE, MaxPackets <- 4

MCInit == Init /\ faulty \in BOOLEAN

MCNext ==
  \/ ~faulty /\ Next /\ UNCHANGED faulty
  \/ faulty /\ Faulty!Next /\ UNCHANGED faulty

\* OnReceive is called as long as the socket has bytes, and runs to its end; the
\* list thread's message pump runs.  Nothing is asked of the instrument.
MCFairSpec ==
  /\ MCInit /\ [][MCNext]_mcVars
  /\ WF_mcVars(OnReceive /\ UNCHANGED faulty)
  /\ WF_mcVars(ProcessRcvList /\ UNCHANGED faulty)

\* ServerReceive's ImplementsChannel, for the well-behaved instrument: nothing
\* is asked of the channel of a faulty one.
WellBehavedChannel == INSTANCE PacketChannel WITH
  sent <- IF faulty THEN << >> ELSE [p \in DOMAIN stream |-> PacketBytes(stream[p])],
  processed <- IF faulty THEN << >> ELSE processed

WellBehavedImplements == WellBehavedChannel!FairSpec
=============================================================================
