------------------------------ MODULE SeqCount ------------------------------
(***************************************************************************)
(* How lost packets are counted.  Every packet has a 16 bit number, which  *)
(* its sender takes before it tries to send, so that a packet given up     *)
(* leaves a gap.  A receiver is                                            *)
(*                                                                         *)
(*  - a CServerSocket (OnReceive), which adds the width of a gap to        *)
(*    uLostReceivedPackets of its entry, and of which every connection may *)
(*    have a new one; or                                                   *)
(*  - client 0 of a PAP (CCCM::OnReceive), which counts that there was     *)
(*    one, in a BYTE, and goes on doing so when it has connected again.    *)
(*                                                                         *)
(* Both begin with 0 as the last number, and so expect 1; senders begin    *)
(* with 0.  What really happened is in the variables after "Truth".        *)
(***************************************************************************)
EXTENDS Integers

CONSTANTS
  Words,  \* 2^16, the numbers of a WORD
  UInt,  \* 2^32, those of a UINT
  Byte,  \* 2^8, those of a BYTE
  Gap    \* bound: packets given up in a row

VARIABLES
  receiver,              \* "server" or "client"
  wMsgSeqCount,          \* the number of the next packet
  wLastSeqCnt,           \* the last one received
  uLostReceivedPackets,
  gbAdcMsgIdErrorCntPAP,
  \* Truth:
  missing,  \* packets given up since the last one received
  fresh,    \* nothing has been received by this receiver
  lost,     \* how many were missing before the ones received, in all
  again,    \* what receivers made anew count besides
  due,      \* packets that came after a loss, or have number 0
  crossed,  \* a gap went over the end of a WORD
  hidden    \* one cannot be seen, or the sender has started anew

vars == <<receiver, wMsgSeqCount, wLastSeqCnt, uLostReceivedPackets, gbAdcMsgIdErrorCntPAP,
          missing, fresh, lost, again, due, crossed, hidden>>

Parameters ==
  /\ {Words, UInt, Byte, Gap} \subseteq Nat \ {0}
  /\ Words > 1 /\ UInt % Words = 0

Init ==
  /\ receiver \in {"server", "client"}
  /\ wMsgSeqCount = 0 /\ wLastSeqCnt = 0
  /\ uLostReceivedPackets = 0 /\ gbAdcMsgIdErrorCntPAP = 0
  /\ missing = 0 /\ fresh = TRUE
  /\ lost = 0 /\ again = 0 /\ due = 0
  /\ crossed = FALSE /\ hidden = FALSE

\* The packet after the last one that was received.
FirstMissing == (wMsgSeqCount - missing) % Words

\* All attempts to send a packet fail.
GiveUp ==
  /\ missing < Gap
  /\ wMsgSeqCount' = (wMsgSeqCount + 1) % Words
  /\ missing' = missing + 1
  /\ UNCHANGED <<receiver, wLastSeqCnt, uLostReceivedPackets, gbAdcMsgIdErrorCntPAP, fresh, lost,
                 again, due, crossed, hidden>>

\* Variant: without the cast 0 is not what follows 65535.
WidthUncast == wMsgSeqCount - (wLastSeqCnt + 1)

\* Of the gap, as the server sees it: an int, negative if the numbers wrapped in it.
Width == wMsgSeqCount - ((wLastSeqCnt + 1) % Words)

\* The client compares ints.
Unexpected == wMsgSeqCount # wLastSeqCnt + 1

OnReceive ==
  /\ IF receiver = "server"
     THEN /\ uLostReceivedPackets' = (uLostReceivedPackets + Width) % UInt
          /\ UNCHANGED gbAdcMsgIdErrorCntPAP
     ELSE /\ gbAdcMsgIdErrorCntPAP' = (gbAdcMsgIdErrorCntPAP + IF Unexpected THEN 1 ELSE 0) % Byte
          /\ UNCHANGED uLostReceivedPackets
  /\ wLastSeqCnt' = wMsgSeqCount
  /\ wMsgSeqCount' = (wMsgSeqCount + 1) % Words
  /\ missing' = 0 /\ fresh' = FALSE
  /\ lost' = (lost + missing) % UInt
  /\ due' = (due + IF missing > 0 \/ FirstMissing = 0 THEN 1 ELSE 0) % Byte
  /\ crossed' = (crossed \/ FirstMissing + missing >= Words)
  /\ hidden' = (hidden \/ (missing > 0 /\ missing % Words = 0) \/ (fresh /\ wMsgSeqCount = 1))
  /\ again' = IF fresh THEN (again + FirstMissing - 1) % UInt ELSE again
  /\ UNCHANGED receiver

\* The PAP or the board connects again: a new CServerSocket, for the same entry.
NewSocket ==
  /\ receiver = "server" /\ ~fresh
  /\ wLastSeqCnt' = 0 /\ fresh' = TRUE
  /\ UNCHANGED <<receiver, wMsgSeqCount, uLostReceivedPackets, gbAdcMsgIdErrorCntPAP, missing,
                 lost, again, due, crossed, hidden>>

\* The sender's program starts anew; a server then gets a new connection.
Restart ==
  /\ wMsgSeqCount' = 0 /\ missing' = 0 /\ hidden' = TRUE
  /\ IF receiver = "server"
     THEN /\ wLastSeqCnt' = 0 /\ fresh' = TRUE
     ELSE UNCHANGED <<wLastSeqCnt, fresh>>
  /\ UNCHANGED <<receiver, uLostReceivedPackets, gbAdcMsgIdErrorCntPAP, lost, again, due, crossed>>

Next == GiveUp \/ OnReceive \/ NewSocket \/ Restart

Spec == Init /\ [][Next]_vars

-----------------------------------------------------------------------------
TypeOK ==
  /\ receiver \in {"server", "client"}
  /\ {wMsgSeqCount, wLastSeqCnt} \subseteq 0 .. Words - 1
  /\ {uLostReceivedPackets, lost, again} \subseteq 0 .. UInt - 1
  /\ {gbAdcMsgIdErrorCntPAP, due} \subseteq 0 .. Byte - 1
  /\ missing \in 0 .. Gap
  /\ {fresh, crossed, hidden} \subseteq BOOLEAN

\* ServerConnectionManagement.h:169, "count the jumps in message sequence count".
\* Up to multiples of 65536 the server's count is what was lost, plus, for every
\* CServerSocket, all that was received before it, less one; it is that exactly
\* as long as no gap goes over the end of a WORD.
ServerCounts ==
  receiver = "server" =>
    /\ (uLostReceivedPackets - lost - again) % Words = 0
    /\ ~crossed => uLostReceivedPackets = (lost + again) % UInt

\* ClientConnectionManagement.cpp:629.  The client counts a gap once, however wide it is,
\* and one more false loss for each packet 0, if no gap is of a multiple of 65536
\* packets.
ClientCounts ==
  receiver = "client" /\ ~hidden => gbAdcMsgIdErrorCntPAP = due

\* Both counts are what is said above, over any number of wraps of the numbers and of
\* the counts, of losses and of reconnections.
CountsLosses == ServerCounts /\ ClientCounts
=============================================================================
