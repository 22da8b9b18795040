------------------------------ MODULE CmdFifo ------------------------------
(***************************************************************************)
(* CCmdFifo, the byte buffer in which OnReceive reassembles packets from a *)
(* TCP stream.  It is linear: bytes are received at m_In, packets leave at *)
(* m_Out, and the unread bytes are moved to the front when an index comes  *)
(* near the end of m_Mem.                                                  *)
(*                                                                         *)
(* Each method is an operator from the buffer before the call to the       *)
(* buffer after it.  A buffer is used by one thread at a time, so m_pCS is *)
(* not part of the model.  A byte of m_Mem is represented by its position  *)
(* in the stream of the connection (1 for the first byte), 0 for memory    *)
(* never written; a stream is the sequence of the packets sent, a packet   *)
(* the record of the bytes before it, its length and whether its header    *)
(* holds SYNC.  Payload never looks like SYNC.                             *)
(***************************************************************************)
EXTENDS Integers, Sequences

CONSTANTS
  MemSize,      \* CMD_FIFO_MEM_SIZE
  ShiftMargin,  \* Shift moves the bytes when m_Out > MemSize - ShiftMargin
  InMargin,     \* GetInLoc moves them when m_In >= MemSize - InMargin
  Chunk,        \* the most one Receive asks for
  HdrSize,      \* sizeof(GenericPacketHeader)
  SyncOff,      \* offset of the last byte of uSync in the header
  MinPacket,    \* a byte count below this is a wrong packet size
  MaxPacket,    \* and so is one above this
  MaxNext,      \* sizeof(IDATA_PAP), the most GetNextPacket accepts
  MaxCount      \* a byte count above this is a loss of sync

ASSUME FifoAssumption ==
  /\ MemSize \in Nat /\ ShiftMargin \in Nat /\ InMargin \in Nat /\ Chunk \in Nat
  /\ HdrSize \in Nat /\ SyncOff \in Nat /\ MinPacket \in Nat
  /\ MaxPacket \in Nat /\ MaxNext \in Nat /\ MaxCount \in Nat
  /\ 0 < Chunk /\ Chunk <= InMargin /\ InMargin <= ShiftMargin
  /\ MaxPacket + InMargin <= MemSize /\ ShiftMargin <= MemSize
  /\ 0 < SyncOff /\ SyncOff < HdrSize /\ HdrSize <= MinPacket
  /\ MinPacket <= MaxNext /\ MaxNext <= MaxPacket /\ MaxPacket <= MaxCount

Addresses == 0 .. MemSize - 1

Fifo == [mem : [Addresses -> Nat], in : Nat, out : Nat, size : Nat]

Packets == [at : Nat, len : Nat, sync : BOOLEAN]

\* How many bytes a stream amounts to, and the bytes of one of its packets.
Total(s) == IF s = << >> THEN 0 ELSE s[Len(s)].at + s[Len(s)].len

PacketBytes(p) == [j \in 1 .. p.len |-> p.at + j]

\* CCmdFifo's constructor.  m_Mem is not cleared: no byte of it is of the
\* stream.
NewFifo == [mem |-> [a \in Addresses |-> 0], in |-> 0, out |-> 0, size |-> 0]

Flushed(f) == [f EXCEPT !.in = 0, !.out = 0, !.size = 0]

\* The unread bytes moved to the front of m_Mem.
Moved(f) ==
  [mem  |-> [a \in Addresses |-> IF a < f.size THEN f.mem[f.out + a] ELSE f.mem[a]],
   in   |-> f.size,
   out  |-> 0,
   size |-> f.size]

\* Variant: the indices are reset and the bytes are not moved.
ShiftNoCopy(f) ==
  IF f.size = 0 \/ f.out > MemSize - ShiftMargin THEN [f EXCEPT !.in = f.size, !.out = 0]
  ELSE f

Shift(f) ==
  IF f.size = 0 THEN [f EXCEPT !.in = 0, !.out = 0]
  ELSE IF f.out > MemSize - ShiftMargin THEN Moved(f)
  ELSE f

\* Variant: the bytes stay where they are.
GetInLocNoMove(f) == f

\* Variant: the bytes move but m_Out is not reset.
GetInLocKeepsOut(f) ==
  IF f.in < MemSize - InMargin THEN f ELSE [Moved(f) EXCEPT !.out = f.out]

GetInLoc(f) ==
  IF f.in < MemSize - InMargin THEN f
  ELSE IF f.out < f.in THEN Moved(f)
  ELSE Flushed(f)

\* Receive stores bytes first .. first + n - 1 of the stream at m_In and
\* AddBytesToFifo accounts for them.
AddBytes(f, first, n) ==
  [mem  |-> [a \in Addresses |->
               IF a \in f.in .. f.in + n - 1 THEN first + (a - f.in) ELSE f.mem[a]],
   in   |-> f.in + n,
   out  |-> f.out,
   size |-> f.size + n]

\* The header at m_Out holds SYNC.
HasSync(f, stream) ==
  \E p \in DOMAIN stream :
    stream[p].sync /\ f.mem[f.out + SyncOff] = stream[p].at + SyncOff + 1

\* What wByteCount at m_Out may read as: the length of the packet whose first
\* byte is there, and anything when that byte is of no header.
ByteCounts(f, stream) ==
  LET first == {p \in DOMAIN stream : f.mem[f.out] = stream[p].at + 1}
  IN  IF first = {} THEN 0 .. MaxCount + 1 ELSE {stream[p].len : p \in first}

\* Variant: SYNC is not looked at.
LosesSyncByCount(f, stream, n) == n > MaxCount

\* The two ways in which GetPacketSize refuses a header with byte count n.
LosesSync(f, stream, n) == ~HasSync(f, stream) \/ n > MaxCount
WrongSize(n) == n < MinPacket \/ n > MaxPacket

\* GetNextPacket, when it accepts the packet of n bytes at m_Out.
NextPacket(f, n) ==
  [mem |-> f.mem, in |-> f.in, out |-> f.out + n, size |-> f.size - n]

\* The n bytes at m_Out, as OnReceive copies them to a buffer of their own.
BytesAtOut(f, n) == [j \in 1 .. n |-> f.mem[f.out + j - 1]]
=============================================================================
