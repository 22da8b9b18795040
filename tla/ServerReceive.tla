--------------------------- MODULE ServerReceive ---------------------------
(***************************************************************************)
(* The receive path of a server connection: CServerSocket::OnReceive, on   *)
(* the thread that owns the socket, reassembles packets in its CCmdFifo    *)
(* and queues them on pRcvPktList; CServerRcvListThread::ProcessRcvList    *)
(* takes them off when a WM_USER_SERVERSOCKET_PKT_RECEIVED message makes   *)
(* it run.                                                                 *)
(*                                                                         *)
(* The instrument appends packets to its TCP stream.  TCP neither loses    *)
(* nor reorders bytes but cuts the stream anywhere: one Receive takes any  *)
(* number of the bytes sent, up to Chunk.                                  *)
(***************************************************************************)
EXTENDS CmdFifo

CONSTANTS
  Sizes,       \* the packet lengths an instrument sends
  SyncKinds,   \* {TRUE}, or BOOLEAN when a packet may lack SYNC
  MayVanish,   \* whether the instrument may go away
  MaxPackets   \* bound: packets sent in one run

ASSUME InstrumentAssumption ==
  /\ Sizes \subseteq Nat \ {0} /\ SyncKinds \subseteq BOOLEAN
  /\ MayVanish \in BOOLEAN /\ MaxPackets \in Nat

VARIABLES
  stream,     \* the packets the instrument has sent
  sending,    \* FALSE once the instrument has gone away
  received,   \* how many bytes of the stream Receive has taken
  open,       \* FALSE once GetPacketSize has closed the socket
  fifo,       \* m_pFifo
  pc,         \* where OnReceive is: "idle" between two calls
  queued,     \* this OnReceive has queued a packet: nWholePacketQty > 0
  rcvList,    \* pRcvPktList: the bytes of each packet queued
  msgs,       \* posted messages the list thread has not taken
  listPc,     \* where the list thread is
  processed   \* the packets the list thread has processed, in order

instrument == <<stream, sending>>
socket == <<received, open, fifo, pc, queued>>
listThread == <<listPc, processed>>
vars == <<instrument, socket, rcvList, msgs, listThread>>

Init ==
  /\ stream = << >> /\ sending = TRUE
  /\ received = 0 /\ open = TRUE /\ fifo = NewFifo
  /\ pc = "idle" /\ queued = FALSE
  /\ rcvList = << >> /\ msgs = 0
  /\ listPc = "wait" /\ processed = << >>

-----------------------------------------------------------------------------
\* The instrument.

Send ==
  /\ sending /\ Len(stream) < MaxPackets
  /\ \E len \in Sizes, sync \in SyncKinds :
       stream' = Append(stream, [at |-> Total(stream), len |-> len, sync |-> sync])
  /\ UNCHANGED <<sending, socket, rcvList, msgs, listThread>>

\* Power or cable: the bytes under way are lost.
Vanish ==
  /\ MayVanish /\ sending
  /\ sending' = FALSE
  /\ UNCHANGED <<stream, socket, rcvList, msgs, listThread>>

-----------------------------------------------------------------------------
\* CServerSocket::OnReceive.

Receive ==
  /\ pc = "idle" /\ open /\ sending
  /\ \E n \in 1 .. Chunk :
       /\ received + n <= Total(stream)
       /\ fifo' = AddBytes(GetInLoc(Shift(fifo)), received + 1, n)
       /\ received' = received + n
  /\ pc' = "loop" /\ queued' = FALSE
  /\ UNCHANGED <<instrument, open, rcvList, msgs, listThread>>

\* Too few bytes for a header: leave the loop, to the post at the bottom.
ShortHeader ==
  /\ pc = "loop" /\ fifo.size < HdrSize
  /\ pc' = "post"
  /\ UNCHANGED <<instrument, received, open, fifo, queued, rcvList, msgs, listThread>>

\* Variant: GetPacketSize looks at a header that may not be there yet.
LostSyncUnguarded ==
  /\ pc = "loop"
  /\ \E n \in ByteCounts(fifo, stream) : LosesSync(fifo, stream, n)
  /\ fifo' = Flushed(fifo)
  /\ open' = FALSE
  /\ pc' = "idle"
  /\ UNCHANGED <<instrument, received, queued, rcvList, msgs, listThread>>

\* Lost in the data: GetPacketSize flushes the FIFO and closes the socket.
LostSync ==
  /\ pc = "loop" /\ fifo.size >= HdrSize
  /\ \E n \in ByteCounts(fifo, stream) : LosesSync(fifo, stream, n)
  /\ fifo' = Flushed(fifo)
  /\ open' = FALSE
  /\ pc' = "idle"
  /\ UNCHANGED <<instrument, received, queued, rcvList, msgs, listThread>>

\* The early return: GetPacketSize dislikes the byte count, or the packet is
\* not complete.
WaitForMore ==
  /\ pc = "loop" /\ fifo.size >= HdrSize
  /\ \E n \in ByteCounts(fifo, stream) :
       /\ ~LosesSync(fifo, stream, n)
       /\ WrongSize(n) \/ fifo.size < n
  /\ pc' = "idle"
  /\ UNCHANGED <<instrument, received, open, fifo, queued, rcvList, msgs, listThread>>

\* GetNextPacket refuses a packet longer than IDATA_PAP: the FIFO is flushed.
TooLong ==
  /\ pc = "loop" /\ fifo.size >= HdrSize
  /\ \E n \in ByteCounts(fifo, stream) :
       ~LosesSync(fifo, stream, n) /\ ~WrongSize(n) /\ n <= fifo.size /\ n > MaxNext
  /\ fifo' = Flushed(fifo)
  /\ pc' = "idle"
  /\ UNCHANGED <<instrument, received, open, queued, rcvList, msgs, listThread>>

\* Variant: the test for a whole packet is off by one.
ExtractEarly ==
  /\ pc = "loop" /\ fifo.size >= HdrSize
  /\ \E n \in ByteCounts(fifo, stream) :
       /\ ~LosesSync(fifo, stream, n) /\ ~WrongSize(n)
       /\ n <= fifo.size + 1 /\ n <= MaxNext
       /\ rcvList' = Append(rcvList, BytesAtOut(fifo, n))
       /\ fifo' = NextPacket(fifo, n)
  /\ queued' = TRUE
  /\ UNCHANGED <<instrument, received, open, pc, msgs, listThread>>

\* A whole packet: copied to a buffer of its own and queued under the lock.
Extract ==
  /\ pc = "loop" /\ fifo.size >= HdrSize
  /\ \E n \in ByteCounts(fifo, stream) :
       /\ ~LosesSync(fifo, stream, n) /\ ~WrongSize(n)
       /\ n <= fifo.size /\ n <= MaxNext
       /\ rcvList' = Append(rcvList, BytesAtOut(fifo, n))
       /\ fifo' = NextPacket(fifo, n)
  /\ queued' = TRUE
  /\ UNCHANGED <<instrument, received, open, pc, msgs, listThread>>

\* Variant: the message is never posted.
PostNothing ==
  /\ pc = "post"
  /\ pc' = "idle"
  /\ UNCHANGED <<instrument, received, open, fifo, queued, rcvList, msgs, listThread>>

Post ==
  /\ pc = "post"
  /\ msgs' = IF queued THEN msgs + 1 ELSE msgs
  /\ pc' = "idle"
  /\ UNCHANGED <<instrument, received, open, fifo, queued, rcvList, listThread>>

-----------------------------------------------------------------------------
\* CServerRcvListThread::ProcessRcvList.

TakeMessage ==
  /\ listPc = "wait" /\ msgs > 0
  /\ msgs' = msgs - 1
  /\ listPc' = "drain"
  /\ UNCHANGED <<instrument, socket, rcvList, processed>>

\* GetCount and RemoveHead, under the lock; the packet is processed after it.
TakePacket ==
  /\ listPc = "drain" /\ rcvList # << >>
  /\ rcvList' = Tail(rcvList)
  /\ processed' = Append(processed, Head(rcvList))
  /\ UNCHANGED <<instrument, socket, msgs, listPc>>

Drained ==
  /\ listPc = "drain" /\ rcvList = << >>
  /\ listPc' = "wait"
  /\ UNCHANGED <<instrument, socket, rcvList, msgs, processed>>

OnReceive == Receive \/ ShortHeader \/ LostSync \/ WaitForMore \/ TooLong \/ Extract \/ Post

ProcessRcvList == TakeMessage \/ TakePacket \/ Drained

Next == Send \/ Vanish \/ OnReceive \/ ProcessRcvList

Spec == Init /\ [][Next]_vars

-----------------------------------------------------------------------------
\* Every packet that left the FIFO, in order.
Extracted == processed \o rcvList

\* An instrument whose packets all have SYNC and a length that both
\* GetPacketSize and GetNextPacket accept.
WellBehaved == SyncKinds = {TRUE} /\ Sizes \subseteq MinPacket .. MaxNext

TypeOK ==
  /\ stream \in Seq(Packets) /\ Len(stream) <= MaxPackets
  /\ sending \in BOOLEAN /\ open \in BOOLEAN /\ queued \in BOOLEAN
  /\ received \in 0 .. Total(stream)
  /\ fifo \in Fifo
  /\ pc \in {"idle", "loop", "post"} /\ listPc \in {"wait", "drain"}
  /\ msgs \in Nat
  /\ rcvList \in Seq(Seq(Nat)) /\ processed \in Seq(Seq(Nat))

\* The unread bytes lie between the two indices, inside m_Mem, so Receive,
\* which is handed up to Chunk bytes at m_In, never stores past the end of it
\* (CCmdFifo.cpp:82-145 against ServerSocket.cpp:1247-1263).
InBounds == fifo.in = fifo.out + fifo.size /\ fifo.in <= MemSize

\* Wherever TCP cuts the stream and whenever the bytes are moved to the front,
\* the FIFO holds the bytes received last, in order: what OnReceive finds at
\* m_Out is where the packet before it ended.
HoldsLatestBytes ==
  \A j \in 1 .. fifo.size : fifo.mem[fifo.out + j - 1] = received - fifo.size + j

\* A well-behaved instrument never has its socket closed for lost sync.
StaysInSync == open

\* Whatever the instrument sends, what reaches the list is whole packets with
\* their SYNC, each at most once and in the order sent: a lost sync costs
\* packets, it never makes one up from pieces of two.
OnlyWholePackets ==
  \A i \in DOMAIN Extracted :
    /\ \E p \in DOMAIN stream : stream[p].sync /\ Extracted[i] = PacketBytes(stream[p])
    /\ i > 1 => Extracted[i - 1][1] < Extracted[i][1]

\* The receive path of a well-behaved instrument is a packet channel.
Channel == INSTANCE PacketChannel WITH
  sent <- [p \in DOMAIN stream |-> PacketBytes(stream[p])],
  processed <- processed

ImplementsChannel == Channel!FairSpec
=============================================================================
