--------------------------- MODULE ClientReceive ---------------------------
(***************************************************************************)
(* The receive path of the PAP as a client of the PAG, for commands:       *)
(* CClientConnectionManagement::OnReceive reassembles packets in the       *)
(* socket's CCmdFifo and queues them on pRcvPktPacketList, which           *)
(* CCCM_PAG::ProcessReceivedMessage empties on the command thread.         *)
(*                                                                         *)
(* It differs from the server's OnReceive in three ways: GetPacketSize is  *)
(* also called once before the loop, whatever the FIFO holds; lost sync    *)
(* does not close the socket; and a packet that is not complete leaves the *)
(* loop instead of the handler.                                            *)
(***************************************************************************)
EXTENDS CmdFifo

CONSTANTS
  Sizes,        \* the command lengths the PAG sends
  WholePackets, \* TRUE: TCP hands over whole packets only
  MayVanish,    \* whether the PAG may go away
  MaxPackets    \* bound: packets sent in one run

ASSUME PagAssumption ==
  /\ Sizes \subseteq Nat \ {0} /\ WholePackets \in BOOLEAN
  /\ MayVanish \in BOOLEAN /\ MaxPackets \in Nat

VARIABLES
  stream,     \* the packets the PAG has sent
  sending,    \* FALSE once the PAG has gone away
  received,   \* how many bytes of the stream Receive has taken
  fifo,       \* pSocket->m_pFifo
  pc,         \* where OnReceive is: "idle" between two calls
  queued,     \* this OnReceive has queued a packet: nWholePacketQty > 0
  rcvList,    \* pRcvPktPacketList
  msgs,       \* posted messages the command thread has not taken
  cmdPc,      \* where the command thread is
  processed   \* the commands it has processed, in order

pag == <<stream, sending>>
socket == <<received, fifo, pc, queued>>
cmdThread == <<cmdPc, processed>>
vars == <<pag, socket, rcvList, msgs, cmdThread>>

Init ==
  /\ stream = << >> /\ sending = TRUE
  /\ received = 0 /\ fifo = NewFifo
  /\ pc = "idle" /\ queued = FALSE
  /\ rcvList = << >> /\ msgs = 0
  /\ cmdPc = "wait" /\ processed = << >>

-----------------------------------------------------------------------------
\* The PAG.

Send ==
  /\ sending /\ Len(stream) < MaxPackets
  /\ \E len \in Sizes :
       stream' = Append(stream, [at |-> Total(stream), len |-> len, sync |-> TRUE])
  /\ UNCHANGED <<sending, socket, rcvList, msgs, cmdThread>>

Vanish ==
  /\ MayVanish /\ sending
  /\ sending' = FALSE
  /\ UNCHANGED <<stream, socket, rcvList, msgs, cmdThread>>

-----------------------------------------------------------------------------
\* CClientConnectionManagement::OnReceive.

\* A Receive may end after byte b of the stream.
CutsAt(b) ==
  /\ b <= Total(stream)
  /\ WholePackets => \E p \in DOMAIN stream : b = stream[p].at + stream[p].len

Receive ==
  /\ pc = "idle" /\ sending
  /\ \E n \in 1 .. Chunk :
       /\ CutsAt(received + n)
       /\ fifo' = AddBytes(GetInLoc(Shift(fifo)), received + 1, n)
       /\ received' = received + n
  /\ pc' = "peek" /\ queued' = FALSE
  /\ UNCHANGED <<pag, rcvList, msgs, cmdThread>>

\* GetPacketSize before the loop.  Less than a header may be there: then it
\* reads what is left in m_Mem from before, or memory never written, in which
\* SYNC is found or not.
PeekFlushes ==
  /\ pc = "peek"
  /\ \E n \in ByteCounts(fifo, stream) : LosesSync(fifo, stream, n)
  /\ fifo' = Flushed(fifo)
  /\ pc' = "loop"
  /\ UNCHANGED <<pag, received, queued, rcvList, msgs, cmdThread>>

PeekKeeps ==
  /\ pc = "peek"
  /\ \/ \E n \in ByteCounts(fifo, stream) : ~LosesSync(fifo, stream, n)
     \/ fifo.mem[fifo.out + SyncOff] = 0
  /\ pc' = "loop"
  /\ UNCHANGED <<pag, received, fifo, queued, rcvList, msgs, cmdThread>>

\* Variant: the packets queued so far are not announced.
BreakToIdle ==
  /\ pc = "loop"
  /\ \/ fifo.size < HdrSize
     \/ /\ fifo.size >= HdrSize
        /\ \E n \in ByteCounts(fifo, stream) :
             ~LosesSync(fifo, stream, n) /\ (WrongSize(n) \/ fifo.size < n)
  /\ pc' = "idle"
  /\ UNCHANGED <<pag, received, fifo, queued, rcvList, msgs, cmdThread>>

\* No whole header, a size GetPacketSize dislikes or no whole packet: out of
\* the loop, to the post at the bottom.
Break ==
  /\ pc = "loop"
  /\ \/ fifo.size < HdrSize
     \/ /\ fifo.size >= HdrSize
        /\ \E n \in ByteCounts(fifo, stream) :
             ~LosesSync(fifo, stream, n) /\ (WrongSize(n) \/ fifo.size < n)
  /\ pc' = "post"
  /\ UNCHANGED <<pag, received, fifo, queued, rcvList, msgs, cmdThread>>

\* Lost in the data: GetPacketSize flushes the FIFO and returns 0.
LostSync ==
  /\ pc = "loop" /\ fifo.size >= HdrSize
  /\ \E n \in ByteCounts(fifo, stream) : LosesSync(fifo, stream, n)
  /\ fifo' = Flushed(fifo)
  /\ pc' = "post"
  /\ UNCHANGED <<pag, received, queued, rcvList, msgs, cmdThread>>

\* A whole packet at m_Out that GetPacketSize accepts and GetNextPacket does not.
Refuses ==
  /\ fifo.size >= HdrSize
  /\ \E n \in ByteCounts(fifo, stream) :
       ~LosesSync(fifo, stream, n) /\ ~WrongSize(n) /\ n <= fifo.size /\ n > MaxNext

\* GetNextPacket flushes and OnReceive returns without the post, also when it
\* has queued packets before.
TooLong ==
  /\ pc = "loop" /\ Refuses
  /\ fifo' = Flushed(fifo)
  /\ pc' = "idle"
  /\ UNCHANGED <<pag, received, queued, rcvList, msgs, cmdThread>>

\* Variant: one packet is taken for each call of OnReceive.
ExtractOne ==
  /\ pc = "loop" /\ fifo.size >= HdrSize
  /\ \E n \in ByteCounts(fifo, stream) :
       /\ ~LosesSync(fifo, stream, n) /\ ~WrongSize(n)
       /\ n <= fifo.size /\ n <= MaxNext
       /\ rcvList' = Append(rcvList, BytesAtOut(fifo, n))
       /\ fifo' = NextPacket(fifo, n)
  /\ queued' = TRUE /\ pc' = "post"
  /\ UNCHANGED <<pag, received, msgs, cmdThread>>

Extract ==
  /\ pc = "loop" /\ fifo.size >= HdrSize
  /\ \E n \in ByteCounts(fifo, stream) :
       /\ ~LosesSync(fifo, stream, n) /\ ~WrongSize(n)
       /\ n <= fifo.size /\ n <= MaxNext
       /\ rcvList' = Append(rcvList, BytesAtOut(fifo, n))
       /\ fifo' = NextPacket(fifo, n)
  /\ queued' = TRUE
  /\ UNCHANGED <<pag, received, pc, msgs, cmdThread>>

\* Variant: the command thread is not told.
PostNothing ==
  /\ pc = "post"
  /\ pc' = "idle"
  /\ UNCHANGED <<pag, received, fifo, queued, rcvList, msgs, cmdThread>>

Post ==
  /\ pc = "post"
  /\ msgs' = IF queued THEN msgs + 1 ELSE msgs
  /\ pc' = "idle"
  /\ UNCHANGED <<pag, received, fifo, queued, rcvList, cmdThread>>

-----------------------------------------------------------------------------
\* CCmdProcessThread and CCCM_PAG::ProcessReceivedMessage.

TakeMessage ==
  /\ cmdPc = "wait" /\ msgs > 0
  /\ msgs' = msgs - 1
  /\ cmdPc' = "drain"
  /\ UNCHANGED <<pag, socket, rcvList, processed>>

TakePacket ==
  /\ cmdPc = "drain" /\ rcvList # << >>
  /\ rcvList' = Tail(rcvList)
  /\ processed' = Append(processed, Head(rcvList))
  /\ UNCHANGED <<pag, socket, msgs, cmdPc>>

Drained ==
  /\ cmdPc = "drain" /\ rcvList = << >>
  /\ cmdPc' = "wait"
  /\ UNCHANGED <<pag, socket, rcvList, msgs, processed>>

OnReceive ==
  \/ Receive \/ PeekFlushes \/ PeekKeeps
  \/ Break \/ LostSync \/ TooLong \/ Extract \/ Post

ProcessReceivedMessage == TakeMessage \/ TakePacket \/ Drained

Next == Send \/ Vanish \/ OnReceive \/ ProcessReceivedMessage

Spec == Init /\ [][Next]_vars

\* As for the server: the handler is called as long as there are bytes, and the
\* command thread pumps its messages.
FairSpec == Spec /\ WF_vars(OnReceive) /\ WF_vars(ProcessReceivedMessage)

-----------------------------------------------------------------------------
\* Every packet that left the FIFO, in order.
Extracted == processed \o rcvList

TypeOK ==
  /\ stream \in Seq(Packets)
  /\ sending \in BOOLEAN /\ queued \in BOOLEAN
  /\ received \in 0 .. Total(stream)
  /\ fifo \in Fifo /\ fifo.in = fifo.out + fifo.size /\ fifo.in <= MemSize
  /\ pc \in {"idle", "peek", "loop", "post"} /\ cmdPc \in {"wait", "drain"}
  /\ msgs \in Nat
  /\ rcvList \in Seq(Seq(Nat)) /\ processed \in Seq(Seq(Nat))

\* Wherever the stream is cut, and whatever a lost sync throws away, what
\* reaches the command thread is whole commands, each at most once and in the
\* order in which the PAG sent them.
OnlyWholePackets ==
  \A i \in DOMAIN Extracted :
    /\ \E p \in DOMAIN stream : Extracted[i] = PacketBytes(stream[p])
    /\ i > 1 => Extracted[i - 1][1] < Extracted[i][1]

\* The invariant of the client's receive path.
Inv == TypeOK /\ OnlyWholePackets

\* A command whose length GetPacketSize dislikes without a flush has come to
\* m_Out: nothing takes it away, and every byte received since its first one is
\* in the FIFO behind it.
Blocked ==
  /\ fifo.size >= HdrSize
  /\ \E p \in DOMAIN stream :
       /\ WrongSize(stream[p].len) /\ stream[p].len <= MaxCount
       /\ fifo.mem[fifo.out] = stream[p].at + 1
       /\ received - fifo.size = stream[p].at

\* Between two calls less than a packet waits in the FIFO, unless such a command
\* blocks it: nothing else does.  A header cut in two, a loss of sync and a
\* command too long for GetNextPacket are over when the next call begins.
NeverStuck == pc = "idle" => fifo.size < MaxPacket \/ Blocked

\* When OnReceive has queued a command it comes to its post, unless a command
\* that GetNextPacket refuses ends the call before; and with the post all that
\* has been queued so far, by this call and by calls that ended without a post,
\* comes to be processed.  Both hold also when the PAG goes away in the middle
\* of the next command.
QueuedIsProcessed ==
  /\ (pc = "loop" /\ queued) ~> ((pc = "post" /\ queued) \/ (pc = "loop" /\ Refuses))
  /\ \A k \in 1 .. MaxPackets :
       (pc = "post" /\ queued /\ Len(Extracted) >= k) ~> Len(processed) >= k

\* ClientConnectionManagement.cpp:586, "PAP assumes we will get partial packets
\* and have to extract whole packets": no byte received is thrown away.
PartialPacketsKept ==
  received - fifo.size =
    IF Extracted = << >> THEN 0
    ELSE stream[Len(Extracted)].at + stream[Len(Extracted)].len
=============================================================================
