----------------------------- MODULE CommandIds ------------------------------
(***************************************************************************)
(* The commands as Cmds.h numbers them, in three ranges, and what the PAP  *)
(* accepts and can send on.  A command is a record with the fields id      *)
(* (wMsgID), board (bBoardNumber) and size (wByteCount).                   *)
(***************************************************************************)
EXTENDS Integers

\* Cmds.h, PA2Struct.h.
LastSmall == 39
FirstLarge == 512
LastLarge == 10
FirstPulser == 768
LastPulser == 9
SetWallNx == 28
NcNx == 513
LargeSent == {NcNx, 516, 517}  \* NC_NX_CMD_ID, TCG_GAIN_CMD_ID, SEQ_TCG_GAIN_CMD_ID
SmallSize == 32
LargestSize == 1056

-----------------------------------------------------------------------------
\* CCCM_PAG::ProcessReceivedMessage.

\* The connection a command is for.
ConnOf(k) == <<IF k.id >= FirstPulser THEN 1 ELSE 0, k.board>>

\* An id in one of the three ranges that the range checks accept.
Valid(k) ==
  \/ k.id <= LastSmall
  \/ k.id \in FirstLarge .. FirstLarge + LastLarge
  \/ k.id \in FirstPulser .. FirstPulser + LastPulser - 1

\* The commands that go to a board: not those the PAP keeps to itself.
Forwarded(k) == Valid(k) /\ k.id \notin {NcNx, SetWallNx}

\* CServerSocketOwnerThread::TransmitPackets.

\* Variant: no large command is known.
SendableSmall(k) == k.size <= SmallSize

Sendable(k) ==
  k.size <= LargestSize /\ (k.id \in LargeSent \/ k.size <= SmallSize)
=============================================================================
