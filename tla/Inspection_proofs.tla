------------------------- MODULE Inspection_proofs -------------------------
(***************************************************************************)
(* Proofs about the inspection data on their way through the PAP.          *)
(*                                                                         *)
(*  - The receive path of a server connection, for every size of the       *)
(*    buffer and of the packets, every number of packets and every cut of  *)
(*    the stream by TCP.  Of any instrument, only whole packets go to the  *)
(*    list, in order; of a well-behaved one, all of them, so that the path *)
(*    implements PacketChannel.                                            *)
(*  - The wall filter and the flaw filter, which the readings in these     *)
(*    packets go through, for FIFOs of any depth.                          *)
(***************************************************************************)
EXTENDS ServerReceive, CmdFifo_proofs, MCParts, FiniteSetTheorems, FunctionTheorems,
        NaturalsInduction, WellFoundedInduction

USE FifoAssumption

\* The instrument sends no length that GetPacketSize calls a wrong size: such
\* a packet is neither taken nor flushed, so it would stay at m_Out and the
\* bytes behind it would fill m_Mem.  A length above MaxCount loses the sync.
NoWrongSize == \A len \in Sizes : WrongSize(len) => len > MaxCount

-----------------------------------------------------------------------------
(* Any instrument.                                                         *)

Types ==
  /\ Len(stream) <= MaxPackets
  /\ sending \in BOOLEAN /\ open \in BOOLEAN /\ queued \in BOOLEAN
  /\ pc \in {"idle", "loop", "post"} /\ listPc \in {"wait", "drain"}
  /\ msgs \in Nat
  /\ rcvList \in Seq(Seq(Nat)) /\ processed \in Seq(Seq(Nat))

\* The inductive invariant.  Between two calls of OnReceive less than a packet
\* waits, which is what leaves room for the next Receive.
PathInv ==
  /\ Types
  /\ Path(stream, Sizes, SyncKinds, received, fifo, Extracted)
  /\ pc \in {"idle", "post"} => fifo.size < MaxPacket

LEMMA SizesPositive == 0 \notin Sizes
BY InstrumentAssumption

LEMMA InitPathInv == Init => PathInv
<1> SUFFICES ASSUME Init PROVE PathInv
  OBVIOUS
<1>1. Extracted = << >>
  <2>1. << >> \o << >> = << >>
    OBVIOUS
  <2> QED
    BY <2>1 DEF Init, Extracted
<1>2. Types
  <2>1. Len(stream) <= MaxPackets
    BY InstrumentAssumption DEF Init
  <2>2. rcvList \in Seq(Seq(Nat)) /\ processed \in Seq(Seq(Nat)) /\ msgs \in Nat
    BY DEF Init
  <2>3. sending \in BOOLEAN /\ open \in BOOLEAN /\ queued \in BOOLEAN
    BY DEF Init
  <2>4. pc \in {"idle", "loop", "post"} /\ listPc \in {"wait", "drain"}
    BY DEF Init
  <2> QED
    BY <2>1, <2>2, <2>3, <2>4 DEF Types
<1>3. Path(stream, Sizes, SyncKinds, received, fifo, Extracted)
  BY <1>1, PathStarts DEF Init
<1>4. fifo.size < MaxPacket
  BY NewFifoHolds DEF Init
<1> QED
  BY <1>2, <1>3, <1>4 DEF PathInv

LEMMA SendPathInv ==
  ASSUME PathInv, Send
  PROVE  PathInv' /\ OneMore(stream, stream')
<1>1. PICK len \in Sizes, sync \in SyncKinds :
        stream' = Append(stream, [at |-> Total(stream), len |-> len, sync |-> sync])
  BY DEF Send
<1> DEFINE new == [at |-> Total(stream), len |-> len, sync |-> sync]
<1>2. stream \in Seq(Packets) /\ Total(stream) \in Nat /\ Len(stream) \in Nat
  BY PathFacts DEF PathInv
<1>3. len \in Nat /\ sync \in BOOLEAN
  BY InstrumentAssumption
<1>4. new \in Packets /\ new.at = Total(stream) /\ new.len \in Sizes /\ new.sync \in SyncKinds
  BY <1>2, <1>3 DEF Packets
<1>5. stream' = Append(stream, new)
  BY <1>1
<1> HIDE DEF new
<1>6. Path(stream, Sizes, SyncKinds, received, fifo, Extracted)
  BY DEF PathInv
<1>7. Path(stream', Sizes, SyncKinds, received, fifo, Extracted)
  BY <1>4, <1>5, <1>6, PathSends
<1>8. OneMore(stream, stream')
  <2>1. StreamOf(stream, Sizes, SyncKinds)
    BY <1>6 DEF Path
  <2> QED
    BY <1>4, <1>5, <2>1, StreamGrows
<1>9. UNCHANGED <<sending, received, open, fifo, pc, queued, rcvList, msgs, listPc, processed>>
  BY DEF Send, socket, listThread
<1>10. Len(stream') <= MaxPackets
  BY <1>2, <1>8, InstrumentAssumption DEF Send, OneMore
<1>11. Types'
  BY <1>9, <1>10 DEF PathInv, Types
<1>12. Path(stream, Sizes, SyncKinds, received, fifo, Extracted)'
  BY <1>7, <1>9 DEF Extracted
<1> QED
  BY <1>8, <1>9, <1>11, <1>12 DEF PathInv

LEMMA ReceivePathInv ==
  ASSUME PathInv, Receive
  PROVE  PathInv' /\ received' - fifo'.size = received - fifo.size
<1>1. PICK n \in 1 .. Chunk :
        /\ received + n <= Total(stream)
        /\ fifo' = AddBytes(GetInLoc(Shift(fifo)), received + 1, n)
        /\ received' = received + n
  BY DEF Receive
<1>2. Path(stream, Sizes, SyncKinds, received, fifo, Extracted) /\ fifo.size < MaxPacket
  BY DEF PathInv, Receive
<1>3. Path(stream, Sizes, SyncKinds, received', fifo', Extracted) /\ fifo'.size = fifo.size + n
  <2>1. received' <= Total(stream)
    BY <1>1
  <2> QED
    BY <1>1, <1>2, <2>1, PathReceives
<1>4. /\ UNCHANGED <<stream, sending, open, rcvList, msgs, listPc, processed>>
      /\ pc' = "loop" /\ queued' = FALSE
  BY DEF Receive, instrument, listThread
<1>5. Types'
  BY <1>4 DEF PathInv, Types
<1>6. Path(stream, Sizes, SyncKinds, received, fifo, Extracted)'
  BY <1>3, <1>4 DEF Extracted
<1>7. received' - fifo'.size = received - fifo.size
  <2>1. received \in Nat /\ fifo.size \in Nat /\ n \in Nat
    BY <1>2, PathFacts
  <2> QED
    BY <1>1, <1>3, <2>1
<1> QED
  BY <1>4, <1>5, <1>6, <1>7 DEF PathInv

\* A lost sync and a packet too long for GetNextPacket cost what is buffered.
LEMMA FlushPathInv ==
  ASSUME PathInv, LostSync \/ TooLong
  PROVE  PathInv'
<1>1. /\ fifo' = Flushed(fifo) /\ pc' = "idle" /\ open' \in {open, FALSE}
      /\ UNCHANGED <<stream, sending, received, queued, rcvList, msgs, listPc, processed>>
  BY DEF LostSync, TooLong, instrument, listThread
<1>2. Path(stream, Sizes, SyncKinds, received, fifo', Extracted) /\ fifo'.size = 0
  BY <1>1, PathFlushes DEF PathInv
<1>3. Path(stream, Sizes, SyncKinds, received, fifo, Extracted)'
  BY <1>1, <1>2 DEF Extracted
<1>4. open' \in BOOLEAN
  BY <1>1 DEF PathInv, Types
<1>5. Types'
  BY <1>1, <1>4 DEF PathInv, Types
<1> QED
  BY <1>2, <1>3, <1>5 DEF PathInv

LEMMA ExtractPathInv ==
  ASSUME PathInv, Extract
  PROVE  /\ PathInv'
         /\ \E n \in ByteCounts(fifo, stream) :
              /\ n <= fifo.size
              /\ fifo'.size = fifo.size - n
              /\ Extracted' = Append(Extracted, BytesAtOut(fifo, n))
<1>1. PICK n \in ByteCounts(fifo, stream) :
        /\ ~LosesSync(fifo, stream, n)
        /\ n <= fifo.size
        /\ rcvList' = Append(rcvList, BytesAtOut(fifo, n))
        /\ fifo' = NextPacket(fifo, n)
  BY DEF Extract
<1> DEFINE b == BytesAtOut(fifo, n)
           y == Append(Extracted, b)
<1>2. fifo.size >= HdrSize /\ Path(stream, Sizes, SyncKinds, received, fifo, Extracted)
  BY DEF PathInv, Extract
<1>3. Path(stream, Sizes, SyncKinds, received, fifo', y) /\ fifo'.size = fifo.size - n
      /\ b \in Seq(Nat)
  <2>1. Path(stream, Sizes, SyncKinds, received, fifo', y)
    BY <1>1, <1>2, SizesPositive, PathExtracts
  <2>2. fifo'.size = fifo.size - n
    BY <1>1 DEF NextPacket
  <2>3. b \in Seq(Nat)
    BY <1>1, <1>2, SizesPositive, PathExtracts
  <2> QED
    BY <2>1, <2>2, <2>3
<1>4. rcvList \in Seq(Seq(Nat)) /\ processed \in Seq(Seq(Nat))
  BY DEF PathInv, Types
<1>5. /\ UNCHANGED <<stream, sending, received, open, pc, msgs, listPc, processed>>
      /\ queued' = TRUE /\ pc = "loop"
  BY DEF Extract, instrument, listThread
<1> HIDE DEF b
<1>6. rcvList' \in Seq(Seq(Nat)) /\ processed \o Append(rcvList, b) = Append(processed \o rcvList, b)
  BY <1>1, <1>3, <1>4, QueuePut DEF b
<1>7. Extracted' = y
  BY <1>1, <1>5, <1>6 DEF Extracted, b
<1>8. Types'
  BY <1>5, <1>6 DEF PathInv, Types
<1>9. Path(stream, Sizes, SyncKinds, received, fifo, Extracted)'
  BY <1>3, <1>5, <1>7
<1> QED
  BY <1>1, <1>3, <1>5, <1>7, <1>8, <1>9 DEF PathInv, b

\* The list thread takes the packet that comes after the last it took.
LEMMA TakePathInv ==
  ASSUME PathInv, TakePacket
  PROVE  /\ PathInv' /\ Extracted' = Extracted
         /\ Len(processed) + 1 \in 1 .. Len(Extracted)
         /\ Head(rcvList) = Extracted[Len(processed) + 1]
<1>1. /\ rcvList # << >> /\ rcvList' = Tail(rcvList)
      /\ processed' = Append(processed, Head(rcvList))
      /\ UNCHANGED <<stream, sending, received, open, fifo, pc, queued, msgs, listPc>>
  BY DEF TakePacket, instrument, socket
<1>2. rcvList \in Seq(Seq(Nat)) /\ processed \in Seq(Seq(Nat))
  BY DEF PathInv, Types
<1>3. /\ processed' \in Seq(Seq(Nat)) /\ rcvList' \in Seq(Seq(Nat))
      /\ Extracted' = Extracted
      /\ Len(processed) + 1 \in 1 .. Len(Extracted)
      /\ Extracted[Len(processed) + 1] = Head(rcvList)
  <2>1. processed' \in Seq(Seq(Nat)) /\ rcvList' \in Seq(Seq(Nat))
    BY <1>1, <1>2, QueueTake
  <2>2. Extracted' = Extracted
    BY SMTT(20), <1>1, <1>2, QueueTake DEF Extracted
  <2>3. /\ Len(processed) + 1 \in 1 .. Len(Extracted)
        /\ Extracted[Len(processed) + 1] = Head(rcvList)
    BY <1>1, <1>2, QueueTake DEF Extracted
  <2> QED
    BY <2>1, <2>2, <2>3
<1>4. Types'
  BY <1>1, <1>3 DEF PathInv, Types
<1>5. Path(stream, Sizes, SyncKinds, received, fifo, Extracted)'
  BY <1>1, <1>3 DEF PathInv
<1> QED
  BY <1>1, <1>3, <1>4, <1>5 DEF PathInv

\* The steps that leave the stream, the buffer and the lists alone.  OnReceive
\* waits for more only when the packet is not complete.
LEMMA OtherStepsPathInv ==
  ASSUME NoWrongSize, PathInv,
         Vanish \/ ShortHeader \/ WaitForMore \/ Post \/ TakeMessage \/ Drained \/ UNCHANGED vars
  PROVE  PathInv' /\ UNCHANGED <<stream, received, open, fifo, rcvList, processed>>
<1>1. UNCHANGED <<stream, received, open, fifo, rcvList, processed>>
  BY DEF Vanish, ShortHeader, WaitForMore, Post, TakeMessage, Drained, vars,
         instrument, socket, listThread
<1>2. /\ pc' \in {"idle", "loop", "post"} /\ listPc' \in {"wait", "drain"} /\ msgs' \in Nat
      /\ sending' \in BOOLEAN /\ queued' \in BOOLEAN
  <2>1. /\ pc \in {"idle", "loop", "post"} /\ listPc \in {"wait", "drain"} /\ msgs \in Nat
        /\ sending \in BOOLEAN /\ queued \in BOOLEAN
    BY DEF PathInv, Types
  <2>2. CASE Vanish
    BY <2>1, <2>2 DEF Vanish, socket, listThread
  <2>3. CASE ShortHeader \/ WaitForMore \/ UNCHANGED vars
    BY <2>1, <2>3 DEF ShortHeader, WaitForMore, vars, instrument, socket, listThread
  <2>4. CASE Post
    BY <2>1, <2>4 DEF Post, instrument, listThread
  <2>5. CASE TakeMessage \/ Drained
    BY <2>1, <2>5 DEF TakeMessage, Drained, instrument, socket
  <2> QED
    BY <2>2, <2>3, <2>4, <2>5
<1>3. Types'
  BY <1>1, <1>2 DEF PathInv, Types
<1>4. Path(stream, Sizes, SyncKinds, received, fifo, Extracted) /\ fifo.size \in Nat
  BY PathFacts DEF PathInv
<1>5. Path(stream, Sizes, SyncKinds, received, fifo, Extracted)'
  BY <1>1, <1>4 DEF Extracted
<1>6. pc' \in {"idle", "post"} => fifo'.size < MaxPacket
  <2>1. CASE Vanish \/ TakeMessage \/ Drained \/ UNCHANGED vars
    BY <1>1, <2>1 DEF PathInv, Vanish, TakeMessage, Drained, vars, socket
  <2>2. CASE ShortHeader
    BY <1>1, <1>4, <2>2 DEF ShortHeader
  <2>3. CASE WaitForMore
    <3>1. fifo.size >= HdrSize
      BY <2>3 DEF WaitForMore
    <3>2. PICK n \in ByteCounts(fifo, stream) :
            ~LosesSync(fifo, stream, n) /\ (WrongSize(n) \/ fifo.size < n)
      BY <2>3 DEF WaitForMore
    <3>3. PICK p \in 1 .. Len(stream) : stream[p].len = n
      BY <1>4, <3>1, <3>2, SizesPositive, PathFindsPacket
    <3>4. n \in Sizes
      BY <1>4, <3>3 DEF Path, StreamOf
    <3>5. ~WrongSize(n)
      BY <3>2, <3>4 DEF NoWrongSize, LosesSync
    <3>6. n \in Nat
      BY <3>4, InstrumentAssumption
    <3> QED
      BY <1>1, <1>4, <3>2, <3>5, <3>6 DEF WrongSize
  <2>4. CASE Post
    BY <1>1, <2>4 DEF PathInv, Post
  <2> QED
    BY <2>1, <2>2, <2>3, <2>4
<1> QED
  BY <1>1, <1>3, <1>5, <1>6 DEF PathInv

LEMMA StepPathInv ==
  ASSUME NoWrongSize, PathInv, [Next]_vars
  PROVE  PathInv'
BY SendPathInv, ReceivePathInv, FlushPathInv, ExtractPathInv, TakePathInv, OtherStepsPathInv
   DEF Next, OnReceive, ProcessRcvList

\* The buffer, the stream and what has left the buffer, in every state.
THEOREM PathInvariant ==
  ASSUME NoWrongSize
  PROVE  Spec => []PathInv
BY InitPathInv, StepPathInv, PTL DEF Spec

\* The types of the variables.
THEOREM ReceiveTypeOK ==
  ASSUME NoWrongSize
  PROVE  Spec => []TypeOK
<1>1. PathInv => TypeOK
  BY DEF PathInv, Types, TypeOK, Path, StreamOf, Holds
<1> QED
  BY <1>1, PathInvariant, PTL

\* Receive never stores past the end of m_Mem, wherever the stream is cut,
\* however long the connection lasts and whatever it loses, provided that a
\* Receive asks for no more than InMargin bytes and that m_Mem has room for a
\* packet beside it.
THEOREM ReceiveInBounds ==
  ASSUME NoWrongSize
  PROVE  Spec => []InBounds
<1>1. PathInv => InBounds
  BY DEF PathInv, Path, InBounds, Holds
<1> QED
  BY <1>1, PathInvariant, PTL

\* The FIFO always holds the bytes received last, in order.
THEOREM ReceiveHoldsLatestBytes ==
  ASSUME NoWrongSize
  PROVE  Spec => []HoldsLatestBytes
<1>1. PathInv => HoldsLatestBytes
  BY DEF PathInv, Path, HoldsLatestBytes, Holds
<1> QED
  BY <1>1, PathInvariant, PTL

\* Whatever an instrument leaves out or sends too much of, OnReceive queues
\* whole packets of it, with their SYNC, each at most once and in order: a
\* flush never makes it take pieces of two packets for one.
THEOREM ReceiveOnlyWholePackets ==
  ASSUME NoWrongSize
  PROVE  Spec => []OnlyWholePackets
<1>1. PathInv => OnlyWholePackets
  <2> SUFFICES ASSUME PathInv, NEW n \in DOMAIN Extracted
               PROVE  /\ \E p \in DOMAIN stream :
                           stream[p].sync /\ Extracted[n] = PacketBytes(stream[p])
                      /\ n > 1 => Extracted[n - 1][1] < Extracted[n][1]
    BY DEF OnlyWholePackets
  <2>1. WholePacketsOf(Extracted, stream, received - fifo.size)
    BY DEF PathInv, Path
  <2>2. n \in 1 .. Len(Extracted) /\ DOMAIN stream = 1 .. Len(stream)
    BY PathFacts DEF PathInv
  <2> QED
    BY <2>1, <2>2 DEF WholePacketsOf
<1> QED
  BY <1>1, PathInvariant, PTL

-----------------------------------------------------------------------------
(* A well-behaved instrument.                                              *)

IInv ==
  /\ PathInv
  /\ open = TRUE
  /\ Lossless(stream, received, fifo, Extracted)

LEMMA WellBehavedSizes == WellBehaved => NoWrongSize
BY InstrumentAssumption DEF WellBehaved, NoWrongSize, WrongSize

LEMMA InitIInv == Init => IInv
<1> SUFFICES ASSUME Init PROVE IInv
  OBVIOUS
<1>1. Extracted = << >>
  <2>1. << >> \o << >> = << >>
    OBVIOUS
  <2> QED
    BY <2>1 DEF Init, Extracted
<1>2. Lossless(stream, received, fifo, Extracted)
  BY <1>1, NewFifoHolds DEF Init, Lossless, End
<1> QED
  BY <1>2, InitPathInv DEF IInv, Init

\* The verdict on the header: no byte count makes GetPacketSize refuse it or
\* GetNextPacket flush.
LEMMA HeaderAccepted ==
  ASSUME WellBehaved, IInv, fifo.size >= HdrSize, NEW n \in ByteCounts(fifo, stream)
  PROVE  ~LosesSync(fifo, stream, n) /\ ~WrongSize(n) /\ n \in Nat /\ n <= MaxNext
<1> DEFINE p == Len(Extracted) + 1
<1>1. Path(stream, Sizes, SyncKinds, received, fifo, Extracted)
      /\ Lossless(stream, received, fifo, Extracted)
  BY DEF IInv, PathInv
<1>2. /\ p \in 1 .. Len(stream)
      /\ ByteCounts(fifo, stream) = {stream[p].len}
      /\ stream[p].sync => HasSync(fifo, stream)
  BY <1>1, SizesPositive, LosslessHeader
<1> HIDE DEF p
<1>3. stream[p].len \in Sizes /\ stream[p].sync \in SyncKinds
  BY <1>1, <1>2 DEF Path, StreamOf
<1>4. HasSync(fifo, stream)
  BY <1>2, <1>3 DEF WellBehaved
<1>5. n \in MinPacket .. MaxNext
  BY <1>2, <1>3 DEF WellBehaved
<1>6. n \in Nat /\ MinPacket <= n /\ n <= MaxNext
  BY <1>5
<1> QED
  BY <1>4, <1>6 DEF LosesSync, WrongSize

LEMMA StepIInv ==
  ASSUME WellBehaved, IInv, [Next]_vars
  PROVE  IInv'
<1>1. PathInv /\ PathInv' /\ open = TRUE /\ Lossless(stream, received, fifo, Extracted)
  BY StepPathInv, WellBehavedSizes DEF IInv
<1>2. Path(stream, Sizes, SyncKinds, received, fifo, Extracted)
  BY <1>1 DEF PathInv
<1>3. CASE Send
  <2>1. OneMore(stream, stream')
    BY <1>1, <1>3, SendPathInv
  <2>2. UNCHANGED <<received, open, fifo, Extracted>>
    BY <1>3 DEF Send, socket, listThread, Extracted
  <2>3. Len(stream) \in Nat /\ Len(Extracted) \in Nat
    BY <1>2, PathFacts
  <2>4. Lossless(stream', received, fifo, Extracted)
    BY <1>1, <2>1, <2>3, LosslessSends
  <2> QED
    BY <1>1, <2>2, <2>4 DEF IInv
<1>4. CASE Receive
  <2>1. received' - fifo'.size = received - fifo.size
    BY <1>1, <1>4, ReceivePathInv
  <2>2. UNCHANGED <<stream, open, Extracted>>
    BY <1>4 DEF Receive, instrument, listThread, Extracted
  <2> QED
    BY <1>1, <2>1, <2>2 DEF IInv, Lossless
<1>5. CASE Extract
  <2>1. PICK n \in ByteCounts(fifo, stream) :
          /\ n <= fifo.size
          /\ fifo'.size = fifo.size - n
          /\ Extracted' = Append(Extracted, BytesAtOut(fifo, n))
    BY <1>1, <1>5, ExtractPathInv
  <2>2. fifo.size >= HdrSize /\ UNCHANGED <<stream, received, open>>
    BY <1>5 DEF Extract, instrument
  <2>3. Lossless(stream, received, fifo', Extracted')
    BY <1>1, <1>2, <2>1, <2>2, SizesPositive, LosslessExtracts
  <2> QED
    BY <1>1, <2>2, <2>3 DEF IInv
<1>6. CASE TakePacket
  <2>1. Extracted' = Extracted /\ UNCHANGED <<stream, received, open, fifo>>
    BY <1>1, <1>6, TakePathInv DEF TakePacket, instrument, socket
  <2> QED
    BY <1>1, <2>1 DEF IInv
<1>7. CASE LostSync \/ TooLong
  <2>1. fifo.size >= HdrSize
    BY <1>7 DEF LostSync, TooLong
  <2>2. PICK n \in ByteCounts(fifo, stream) :
          LosesSync(fifo, stream, n) \/ n > MaxNext
    BY <1>7 DEF LostSync, TooLong
  <2>3. n \in Nat
    BY <1>2, <2>1, HeaderAccepted
  <2> QED
    BY <2>1, <2>2, <2>3, HeaderAccepted
<1>8. CASE Vanish \/ ShortHeader \/ WaitForMore \/ Post \/ TakeMessage \/ Drained \/ UNCHANGED vars
  <2>1. UNCHANGED <<stream, received, open, fifo, Extracted>>
    BY <1>1, <1>8, OtherStepsPathInv, WellBehavedSizes DEF Extracted
  <2> QED
    BY <1>1, <2>1 DEF IInv
<1> QED
  BY <1>3, <1>4, <1>5, <1>6, <1>7, <1>8 DEF Next, OnReceive, ProcessRcvList

\* The buffer and the lists of a well-behaved instrument, in every state.
THEOREM ReceiveInvariant ==
  ASSUME WellBehaved
  PROVE  Spec => []IInv
BY InitIInv, StepIInv, PTL DEF Spec

\* No cut of the stream makes OnReceive lose sync and close the socket of a
\* well-behaved instrument.
THEOREM ReceiveStaysInSync ==
  ASSUME WellBehaved
  PROVE  Spec => []StaysInSync
<1>1. IInv => StaysInSync
  BY DEF IInv, StaysInSync
<1> QED
  BY <1>1, ReceiveInvariant, PTL

\* The receive path implements the packet channel: what the list thread
\* processes is the packets of the instrument, whole, in order, none missing
\* and none twice (that each is processed in the end is checked by TLC).
THEOREM ReceiveImplementsChannel ==
  ASSUME WellBehaved
  PROVE  Spec => Channel!Spec
<1>1. Init => Channel!Init
  BY DEF Init, Channel!Init
<1>2. ASSUME IInv, [Next]_vars PROVE [Channel!Next]_(Channel!vars)
  <2>1. /\ PathInv /\ stream \in Seq(Packets) /\ processed \in Seq(Seq(Nat))
        /\ Len(processed) \in Nat
    BY <1>2, PathFacts DEF IInv, PathInv, Types
  <2>2. Len(BytesOf(stream)) = Len(stream)
        /\ \A p \in 1 .. Len(stream) : BytesOf(stream)[p] = PacketBytes(stream[p])
    BY <2>1, BytesOfStream
  <2>3. CASE Send
    <3>1. OneMore(stream, stream') /\ PathInv' /\ processed' = processed
      BY <2>1, <2>3, SendPathInv DEF Send, listThread
    <3>2. stream' \in Seq(Packets)
      BY <3>1 DEF PathInv, Path, StreamOf
    <3>3. Len(BytesOf(stream')) = Len(BytesOf(stream)) + 1
          /\ BytesOf(stream) = SubSeq(BytesOf(stream'), 1, Len(BytesOf(stream)))
      BY <2>1, <3>1, <3>2, BytesOfMore
    <3> QED
      BY <3>1, <3>3 DEF Channel!Next, Channel!Send, BytesOf
  <2>4. CASE TakePacket
    <3> DEFINE k == Len(processed) + 1
    <3>1. k \in 1 .. Len(Extracted) /\ Head(rcvList) = Extracted[k]
      BY <2>1, <2>4, TakePathInv
    <3>2. Len(Extracted) <= Len(stream) /\ Extracted[k] = PacketBytes(stream[k])
      BY <1>2, <3>1 DEF IInv, Lossless
    <3>3. k \in 1 .. Len(stream) /\ Len(processed) < Len(stream)
      <4>1. Len(stream) \in Nat /\ Len(Extracted) \in Nat
        BY <2>1, PathFacts DEF PathInv
      <4> QED
        BY <2>1, <3>1, <3>2, <4>1
    <3>4. BytesOf(stream)[k] = Head(rcvList)
      BY <2>2, <3>1, <3>2, <3>3
    <3>5. stream' = stream /\ processed' = Append(processed, Head(rcvList))
      BY <2>4 DEF TakePacket, instrument
    <3> QED
      BY <2>2, <3>3, <3>4, <3>5 DEF Channel!Next, Channel!Process, BytesOf
  <2>5. CASE Vanish \/ OnReceive \/ TakeMessage \/ Drained \/ UNCHANGED vars
    <3>1. UNCHANGED <<stream, processed>>
      BY <2>5 DEF Vanish, OnReceive, Receive, ShortHeader, LostSync, WaitForMore, TooLong,
                  Extract, Post, TakeMessage, Drained, vars, instrument, socket, listThread
    <3> QED
      BY <3>1 DEF Channel!vars
  <2> QED
    BY <1>2, <2>3, <2>4, <2>5 DEF Next, ProcessRcvList
<1> QED
  BY <1>1, <1>2, ReceiveInvariant, PTL DEF Spec, Channel!Spec

HIDE FifoAssumption

-----------------------------------------------------------------------------
(* Numbers, totals, and cells written in turn.                             *)

\* Some numbers have a smallest.
LEMMA Smallest ==
  ASSUME NEW S \in SUBSET Nat, S # {}
  PROVE  \E x \in S : \A y \in S : x <= y
<1>1. PICK x \in S : \A y \in S : ~(<<y, x>> \in OpToRel(<, Nat))
  BY NatLessThanWellFounded, WFMin
<1>2. ASSUME NEW y \in S PROVE x <= y
  <2>1. x \in Nat /\ y \in Nat /\ ~(y < x)
    BY <1>1 DEF OpToRel
  <2> QED
    BY <2>1
<1> QED
  BY <1>2

\* What holds of 0 and of every number after one it holds of.
LEMMA Upwards ==
  ASSUME NEW n \in Nat, NEW S, 0 \in S, \A k \in 1 .. n : k - 1 \in S => k \in S
  PROVE  \A k \in 0 .. n : k \in S
<1> SUFFICES ASSUME {k \in 0 .. n : k \notin S} # {} PROVE FALSE
  OBVIOUS
<1>1. PICK B : B = {k \in 0 .. n : k \notin S}
  OBVIOUS
<1>2. B \in SUBSET Nat /\ B # {}
  BY <1>1
<1>3. PICK x \in B : \A y \in B : x <= y
  BY <1>2, Smallest
<1>4. x \in 1 .. n /\ x \notin S
  BY <1>1, <1>3
<1>5. x - 1 \in 0 .. n /\ ~(x <= x - 1)
  BY <1>4
<1>6. x - 1 \in S
  BY <1>1, <1>3, <1>5
<1> QED
  BY <1>4, <1>6

\* A total is the last of the sums of ever more.
Sums(f, n, t) ==
  /\ t \in [0 .. n -> Int] /\ t[0] = 0
  /\ \A k \in 1 .. n : t[k] = t[k - 1] + f[k]

LEMMA SumsExist ==
  ASSUME NEW n \in Nat, NEW f \in [1 .. n -> Int]
  PROVE  \E t : Sums(f, n, t)
<1> DEFINE S == {d \in 0 .. n : \E t : Sums(f, d, t)}
<1>1. 0 \in S
  <2>1. [k \in 0 .. 0 |-> 0] \in [0 .. 0 -> Int]
    OBVIOUS
  <2>2. Sums(f, 0, [k \in 0 .. 0 |-> 0])
    BY <2>1 DEF Sums
  <2> QED
    BY <2>2
<1>2. ASSUME NEW d \in 1 .. n, d - 1 \in S PROVE d \in S
  <2>1. PICK t : Sums(f, d - 1, t)
    BY <1>2
  <2>2. PICK u : u = [k \in 0 .. d |-> IF k = d THEN t[d - 1] + f[d] ELSE t[k]]
    OBVIOUS
  <2>3. /\ t \in [0 .. d - 1 -> Int] /\ t[0] = 0
        /\ \A k \in 1 .. d - 1 : t[k] = t[k - 1] + f[k]
    BY <2>1 DEF Sums
  <2>4. u \in [0 .. d -> Int]
    <3>1. t[d - 1] \in Int /\ f[d] \in Int
      BY <2>3
    <3>2. ASSUME NEW k \in 0 .. d PROVE (IF k = d THEN t[d - 1] + f[d] ELSE t[k]) \in Int
      BY <2>3, <3>1
    <3> QED
      BY <2>2, <3>2
  <2>5. u[0] = 0
    BY <2>2, <2>3
  <2>6. ASSUME NEW k \in 1 .. d PROVE u[k] = u[k - 1] + f[k]
    <3>1. k - 1 \in 0 .. d /\ k - 1 # d /\ k \in 0 .. d
      OBVIOUS
    <3>2. u[k - 1] = t[k - 1]
      BY <2>2, <3>1
    <3>3. CASE k = d
      BY <2>2, <3>1, <3>2, <3>3
    <3>4. CASE k # d
      BY <2>2, <2>3, <3>1, <3>2, <3>4
    <3> QED
      BY <3>3, <3>4
  <2>7. Sums(f, d, u)
    BY <2>4, <2>5, <2>6 DEF Sums
  <2> QED
    BY <2>7
<1>3. n \in 0 .. n
  OBVIOUS
<1>4. n \in S
  <2> HIDE DEF S
  <2> QED
    BY <1>1, <1>2, <1>3, Upwards
<1> QED
  BY <1>4

LEMMA TotalIs ==
  ASSUME NEW n \in Nat, NEW f \in [1 .. n -> Int]
  PROVE  \E t : Sums(f, n, t) /\ Wall!Total(f, n) = t[n]
<1> DEFINE G(t) == [k \in 0 .. n |-> IF k = 0 THEN 0 ELSE t[k - 1] + f[k]]
<1>1. PICK s : Sums(f, n, s)
  BY SumsExist
<1>2. s = G(s)
  BY <1>1 DEF Sums
<1>3. PICK t : t = (CHOOSE u : u = G(u))
  OBVIOUS
<1>4. t = G(t)
  BY <1>2, <1>3
<1>5. Wall!Total(f, n) = t[n]
  BY <1>3 DEF Wall!Total
<1>6. Sums(f, n, t)
  <2>1. /\ t[0] = 0
        /\ \A k \in 1 .. n : t[k] = t[k - 1] + f[k]
    BY <1>4
  <2> DEFINE S == {k \in 0 .. n : t[k] \in Int}
  <2>2. 0 \in S
    BY <2>1
  <2>3. ASSUME NEW k \in 1 .. n, k - 1 \in S PROVE k \in S
    BY <2>1, <2>3
  <2>4. \A k \in 0 .. n : k \in S
    <3> HIDE DEF S
    <3> QED
      BY <2>2, <2>3, Upwards
  <2>5. t \in [0 .. n -> Int]
    BY <1>4, <2>4
  <2> QED
    BY <2>1, <2>5 DEF Sums
<1> QED
  BY <1>5, <1>6

\* Totals of numbers up to a bound are bounded.
LEMMA TotalBound ==
  ASSUME NEW n \in Nat, NEW b \in Nat, NEW f \in [1 .. n -> 0 .. b]
  PROVE  Wall!Total(f, n) \in 0 .. n * b
<1>1. f \in [1 .. n -> Int]
  OBVIOUS
<1>2. PICK t : Sums(f, n, t) /\ Wall!Total(f, n) = t[n]
  BY <1>1, TotalIs
<1> DEFINE S == {k \in 0 .. n : t[k] \in 0 .. k * b}
<1>3. 0 \in S
  BY <1>2 DEF Sums
<1>4. ASSUME NEW k \in 1 .. n, k - 1 \in S PROVE k \in S
  <2>1. t[k - 1] \in 0 .. (k - 1) * b /\ f[k] \in 0 .. b /\ t[k] = t[k - 1] + f[k]
    BY <1>2, <1>4 DEF Sums
  <2>2. (k - 1) * b + b = k * b /\ (k - 1) * b \in Int /\ k * b \in Int
    OBVIOUS
  <2> QED
    BY <2>1, <2>2
<1>5. n \in S
  <2>1. n \in 0 .. n
    OBVIOUS
  <2> HIDE DEF S
  <2> QED
    BY <1>3, <1>4, <2>1, Upwards
<1> QED
  BY <1>2, <1>5

\* A total changes by the difference.
LEMMA TotalChanges ==
  ASSUME NEW n \in Nat, NEW f \in [1 .. n -> Int], NEW c \in 1 .. n, NEW x \in Int,
         NEW g, g = [f EXCEPT ![c] = x]
  PROVE  Wall!Total(f, n) \in Int /\ Wall!Total(g, n) = Wall!Total(f, n) + x - f[c]
<1>1. g \in [1 .. n -> Int]
  OBVIOUS
<1>2. PICK t : Sums(f, n, t) /\ Wall!Total(f, n) = t[n]
  BY TotalIs
<1>3. PICK u : Sums(g, n, u) /\ Wall!Total(g, n) = u[n]
  BY <1>1, TotalIs
<1>4. PICK d \in Int : d = x - f[c]
  OBVIOUS
<1> DEFINE S == {k \in 0 .. n : u[k] = IF k >= c THEN t[k] + d ELSE t[k]}
<1>5. 0 \in S
  BY <1>2, <1>3 DEF Sums
<1>6. ASSUME NEW k \in 1 .. n, k - 1 \in S PROVE k \in S
  <2>1. /\ u[k - 1] = IF k - 1 >= c THEN t[k - 1] + d ELSE t[k - 1]
        /\ u[k] = u[k - 1] + g[k] /\ t[k] = t[k - 1] + f[k] /\ t[k - 1] \in Int /\ f[k] \in Int
    BY <1>2, <1>3, <1>6 DEF Sums
  <2>2. CASE k = c
    <3>1. g[k] = x /\ ~(k - 1 >= c) /\ k >= c
      BY <2>2
    <3> QED
      BY <1>4, <2>1, <2>2, <3>1
  <2>3. CASE k # c
    <3>1. g[k] = f[k] /\ (k - 1 >= c <=> k >= c)
      BY <2>3
    <3> QED
      BY <2>1, <3>1
  <2> QED
    BY <2>2, <2>3
<1>7. n \in S
  <2>1. n \in 0 .. n
    OBVIOUS
  <2> HIDE DEF S
  <2> QED
    BY <1>5, <1>6, <2>1, Upwards
<1>8. t[n] \in Int /\ u[n] = t[n] + d
  BY <1>2, <1>7 DEF Sums
<1>9. t[n] + d = t[n] + x - f[c]
  BY <1>4, <1>8
<1> QED
  BY <1>2, <1>3, <1>8, <1>9

\* One more comes first, and the last may go.
LEMMA TotalShifts ==
  ASSUME NEW n \in Nat, NEW f \in [1 .. n -> Int], NEW m \in Nat, m >= 1, m = n \/ m = n + 1,
         NEW g \in [1 .. m -> Int], \A k \in 2 .. m : g[k] = f[k - 1]
  PROVE  /\ Wall!Total(f, n) \in Int
         /\ Wall!Total(g, m) = IF m = n THEN Wall!Total(f, n) + g[1] - f[n]
                               ELSE Wall!Total(f, n) + g[1]
<1>1. PICK t : Sums(f, n, t) /\ Wall!Total(f, n) = t[n]
  BY TotalIs
<1>2. PICK u : Sums(g, m, u) /\ Wall!Total(g, m) = u[m]
  BY TotalIs
<1>3. PICK x \in Int : x = g[1]
  OBVIOUS
<1> DEFINE S == {k \in 0 .. m - 1 : u[k + 1] = t[k] + x}
<1>4. 0 \in S
  <2>1. u[1] = u[0] + g[1] /\ u[0] = 0 /\ t[0] = 0
    BY <1>1, <1>2 DEF Sums
  <2> QED
    BY <1>3, <2>1
<1>5. ASSUME NEW k \in 1 .. m - 1, k - 1 \in S PROVE k \in S
  <2>1. k + 1 \in 2 .. m /\ k + 1 \in 1 .. m /\ k \in 1 .. n /\ (k + 1) - 1 = k
    OBVIOUS
  <2>2. u[(k - 1) + 1] = t[k - 1] + x /\ (k - 1) + 1 = k
    BY <1>5
  <2>3. u[k + 1] = u[k] + g[k + 1] /\ t[k] = t[k - 1] + f[k] /\ g[k + 1] = f[k]
    BY <1>1, <1>2, <2>1 DEF Sums
  <2>4. t[k - 1] \in Int /\ f[k] \in Int
    BY <1>1, <2>1 DEF Sums
  <2> QED
    BY <2>2, <2>3, <2>4
<1>6. m - 1 \in S
  <2>1. m - 1 \in 0 .. m - 1 /\ m - 1 \in Nat
    OBVIOUS
  <2> HIDE DEF S
  <2> QED
    BY <1>4, <1>5, <2>1, Upwards
<1>7. u[m] = t[m - 1] + x /\ t[n] \in Int
  <2>1. (m - 1) + 1 = m
    OBVIOUS
  <2> QED
    BY <1>1, <1>6, <2>1 DEF Sums
<1>8. CASE m = n
  <2>1. t[n] = t[n - 1] + f[n] /\ t[n - 1] \in Int /\ f[n] \in Int
    BY <1>1, <1>8 DEF Sums
  <2>2. u[m] = t[n] + x - f[n]
    BY <1>7, <1>8, <2>1
  <2> QED
    BY <1>1, <1>2, <1>3, <1>7, <1>8, <2>2
<1>9. CASE m # n
  <2>1. m - 1 = n
    BY <1>9
  <2> QED
    BY <1>1, <1>2, <1>3, <1>7, <1>9, <2>1
<1> QED
  BY <1>8, <1>9

\* The cell after c, of m cells in turn, and how many readings ago c was written when
\* the next to be written is r.
After(c, m) == IF c + 1 >= m THEN 0 ELSE c + 1
Age(r, m, c) == IF c < r THEN r - 1 - c ELSE (r - 1 - c) + m

\* The cells hold the last m readings.
HoldsLast(cells, r, m, readings) ==
  \A c \in 0 .. m - 1 :
    cells[c] = IF Age(r, m, c) < Len(readings) THEN readings[Len(readings) - Age(r, m, c)]
               ELSE 0

\* The readings after one more, the last "most" of them.
Heard(readings, x, most) ==
  IF Len(readings) < most THEN Append(readings, x) ELSE Append(Tail(readings), x)

Later(readings, x, most, more) ==
  /\ more # << >> /\ Len(more) \in 1 .. most
  /\ Len(more) = IF Len(readings) < most THEN Len(readings) + 1 ELSE most
  /\ more[Len(more)] = x
  /\ \A a \in Nat : a < most - 1 =>
       /\ a + 1 < Len(more) <=> a < Len(readings)
       /\ a < Len(readings) => more[Len(more) - (a + 1)] = readings[Len(readings) - a]

LEMMA HeardIs ==
  ASSUME NEW S, NEW readings \in Seq(S), NEW x \in S, NEW most \in Nat, most >= 1,
         Len(readings) <= most
  PROVE  /\ Heard(readings, x, most) \in Seq(S)
         /\ Later(readings, x, most, Heard(readings, x, most))
<1>0. PICK more : more = Heard(readings, x, most)
  OBVIOUS
<1>1. CASE Len(readings) < most
  <2>1. more = Append(readings, x)
    BY <1>0, <1>1 DEF Heard
  <2> QED
    BY <1>0, <1>1, <2>1 DEF Later
<1>2. CASE ~(Len(readings) < most)
  <2>1. more = Append(Tail(readings), x)
    BY <1>0, <1>2 DEF Heard
  <2>2. Len(readings) = most
    BY <1>2
  <2>3. readings # << >>
    BY <2>2
  <2>4. PICK rest : rest = Tail(readings)
    OBVIOUS
  <2>5. /\ rest \in Seq(S) /\ Len(rest) = most - 1
        /\ \A k \in 1 .. most - 1 : rest[k] = readings[k + 1]
    BY <2>2, <2>3, <2>4
  <2>6. /\ more \in Seq(S) /\ Len(more) = most /\ more[most] = x
        /\ \A k \in 1 .. most - 1 : more[k] = rest[k]
    BY <2>1, <2>4, <2>5
  <2>7. ASSUME NEW a \in Nat, a < most - 1
        PROVE  a + 1 < most /\ more[most - (a + 1)] = readings[most - a]
    <3>1. most - (a + 1) \in 1 .. most - 1 /\ (most - (a + 1)) + 1 = most - a
      BY <2>7
    <3>2. more[most - (a + 1)] = readings[(most - (a + 1)) + 1]
      BY <2>5, <2>6, <3>1
    <3> QED
      BY <2>7, <3>1, <3>2
  <2> QED
    BY <1>0, <1>2, <2>2, <2>6, <2>7 DEF Later
<1> QED
  BY <1>1, <1>2

\* What is stored makes every other reading one older.
LEMMA OneOlder ==
  ASSUME NEW m \in Nat, NEW r \in 0 .. m - 1, NEW c \in 0 .. m - 1
  PROVE  /\ After(r, m) \in 0 .. m - 1 /\ Age(r, m, c) \in 0 .. m - 1
         /\ Age(r, m, r) = m - 1 /\ Age(After(r, m), m, r) = 0
         /\ c # r => /\ Age(After(r, m), m, c) = Age(r, m, c) + 1
                     /\ Age(r, m, c) < m - 1
<1>1. r \in Nat /\ r < m /\ c \in Nat /\ c < m
  OBVIOUS
<1>2. Age(r, m, r) = m - 1 /\ Age(r, m, c) \in 0 .. m - 1
  BY <1>1 DEF Age
<1>3. CASE r + 1 >= m
  BY <1>1, <1>2, <1>3 DEF Age, After
<1>4. CASE ~(r + 1 >= m)
  <2>1. After(r, m) = r + 1
    BY <1>4 DEF After
  <2>2. CASE c < r
    BY <1>1, <1>2, <1>4, <2>1, <2>2 DEF Age
  <2>3. CASE ~(c < r)
    BY <1>1, <1>2, <1>4, <2>1, <2>3 DEF Age
  <2> QED
    BY <2>2, <2>3
<1> QED
  BY <1>3, <1>4

LEMMA HoldsOn ==
  ASSUME NEW d \in Nat, NEW V, NEW cells \in [0 .. d - 1 -> V], NEW m \in 1 .. d,
         NEW r \in 0 .. m - 1, NEW S, NEW readings \in Seq(S), NEW x \in S,
         HoldsLast(cells, r, m, readings), NEW most \in Nat, m <= most, Len(readings) <= most
  PROVE  HoldsLast([cells EXCEPT ![r] = x], After(r, m), m, Heard(readings, x, most))
<1>1. PICK next, more, n : /\ next = [cells EXCEPT ![r] = x]
                           /\ more = Heard(readings, x, most) /\ n = Len(more)
  OBVIOUS
<1>2. m \in Nat /\ most \in Nat /\ most >= 1 /\ r \in 0 .. d - 1
  OBVIOUS
<1>3. /\ n \in 1 .. most /\ more[n] = x
      /\ \A a \in Nat : a < most - 1 =>
           /\ a + 1 < n <=> a < Len(readings)
           /\ a < Len(readings) => more[n - (a + 1)] = readings[Len(readings) - a]
  <2>1. Later(readings, x, most, more)
    BY <1>1, <1>2, HeardIs
  <2> QED
    BY <1>1, <2>1 DEF Later
<1>4. ASSUME NEW c \in 0 .. m - 1
      PROVE  next[c] = IF Age(After(r, m), m, c) < n THEN more[n - Age(After(r, m), m, c)] ELSE 0
  <2>1. c \in 0 .. d - 1
    OBVIOUS
  <2>2. CASE c = r
    <3>1. Age(After(r, m), m, c) = 0
      BY <1>2, <2>2, OneOlder
    <3>2. next[c] = x
      BY <1>1, <1>2, <2>2
    <3>3. 0 < n /\ n - 0 = n
      BY <1>3
    <3> QED
      BY <1>3, <3>1, <3>2, <3>3
  <2>3. CASE c # r
    <3>1. PICK a, b : a = Age(r, m, c) /\ b = Age(After(r, m), m, c)
      OBVIOUS
    <3>2. a \in 0 .. m - 1 /\ b = a + 1 /\ a < m - 1
      BY <1>2, <2>3, <3>1, OneOlder
    <3>3. a \in Nat /\ a < most - 1
      BY <1>2, <3>2
    <3>4. next[c] = cells[c]
      BY <1>1, <2>1, <2>3
    <3>5. cells[c] = IF a < Len(readings) THEN readings[Len(readings) - a] ELSE 0
      BY <3>1 DEF HoldsLast
    <3>6. /\ a + 1 < n <=> a < Len(readings)
          /\ a < Len(readings) => more[n - (a + 1)] = readings[Len(readings) - a]
      BY <1>3, <3>3
    <3>7. next[c] = IF a + 1 < n THEN more[n - (a + 1)] ELSE 0
      BY <3>4, <3>5, <3>6
    <3> QED
      BY <3>1, <3>2, <3>7
  <2> QED
    BY <2>2, <2>3
<1>5. HoldsLast(next, After(r, m), m, more)
  BY <1>1, <1>4 DEF HoldsLast
<1> QED
  BY <1>1, <1>5

LEMMA OldestIs ==
  ASSUME NEW m \in Nat, NEW r \in 0 .. m - 1, NEW cells, NEW readings,
         HoldsLast(cells, r, m, readings)
  PROVE  cells[r] = IF m - 1 < Len(readings) THEN readings[Len(readings) - (m - 1)] ELSE 0
<1>1. Age(r, m, r) = m - 1
  BY OneOlder
<1> QED
  BY <1>1 DEF HoldsLast

\* The largest and the smallest of some numbers.
LEMMA Extremes ==
  ASSUME NEW b \in Nat, NEW S, S \subseteq 0 .. b, S # {}
  PROVE  /\ \E x \in S : \A y \in S : x >= y
         /\ \E x \in S : \A y \in S : x <= y
<1>1. \E x \in S : \A y \in S : x <= y
  <2>1. S \in SUBSET Nat
    OBVIOUS
  <2> QED
    BY <2>1, Smallest
<1> DEFINE T == {b - x : x \in S}
<1>2. T \in SUBSET Nat /\ T # {}
  <2>1. ASSUME NEW x \in S PROVE b - x \in Nat
    BY <2>1
  <2> QED
    BY <2>1
<1>3. PICK t \in T : \A y \in T : t <= y
  <2> HIDE DEF T
  <2> QED
    BY <1>2, Smallest
<1>4. PICK m \in S : t = b - m
  OBVIOUS
<1>5. ASSUME NEW x \in S PROVE m >= x
  <2>1. b - x \in T /\ x \in Int /\ m \in Int
    OBVIOUS
  <2>2. t <= b - x
    BY <1>3, <2>1
  <2> QED
    BY <1>4, <2>1, <2>2
<1> QED
  BY <1>1, <1>5

-----------------------------------------------------------------------------
(* The wall filter, for FIFOs, readings, parameters and intervals of any   *)
(* size.                                                                   *)

LEMMA WordsAre ==
  /\ WallDepth \in Nat /\ MaxNx \in 1 .. WallDepth /\ WordMax \in Nat
  /\ WallAscans \in Nat /\ WallAscans >= 1 /\ \A w \in Readings : w \in 0 .. WordMax
  /\ \A p \in WallParams : /\ p.nx \in 0 .. WordMax /\ p.max \in 0 .. WordMax
                           /\ p.min \in 0 .. WordMax /\ p.drop \in 0 .. WordMax
BY PartsAssumption DEF Wall!Parameters

LEMMA UintIs ==
  ASSUME NEW n \in Int
  PROVE  /\ Wall!Uint(n) \in Nat /\ Wall!Uint(Wall!Uint(n)) = Wall!Uint(n)
         /\ n \in 0 .. WordMax * WordMax => Wall!Uint(n) = n
<1>1. PICK b \in Nat : b = (WordMax + 1) * (WordMax + 1) /\ b > WordMax * WordMax
  <2>1. WordMax \in Nat
    BY WordsAre
  <2>2. PICK q \in Nat : q = WordMax * WordMax
    BY <2>1
  <2>3. (WordMax + 1) * (WordMax + 1) = WordMax * WordMax + WordMax + WordMax + 1
    BY <2>1
  <2> QED
    BY <2>1, <2>2, <2>3
<1>2. PICK q \in Nat : q = WordMax * WordMax
  BY WordsAre
<1>3. b > q
  BY <1>1, <1>2
<1>4. n % b \in 0 .. b - 1 /\ (n % b) % b = n % b /\ (n \in 0 .. q => n % b = n)
  BY <1>3
<1>5. \A k \in Int : Wall!Uint(k) = k % b
  BY <1>1 DEF Wall!Uint
<1>6. n % b \in Int /\ n % b \in Nat
  BY <1>4
<1> QED
  BY <1>2, <1>4, <1>5, <1>6

\* The sum of the last m readings, and that of all cells.
Window(readings, m) ==
  LET n == IF Len(readings) < m THEN Len(readings) ELSE m
  IN  Wall!Total([k \in 1 .. n |-> readings[Len(readings) - k + 1]], n)

CellsTotal(cells) == Wall!Total([c \in 1 .. WallDepth |-> cells[c - 1]], WallDepth)

LEMMA WindowBound ==
  ASSUME NEW readings \in Seq(0 .. WordMax), NEW m \in 0 .. WordMax
  PROVE  Window(readings, m) \in 0 .. WordMax * WordMax
<1>1. WordMax \in Nat
  BY WordsAre
<1>2. PICK n \in 0 .. m : n = (IF Len(readings) < m THEN Len(readings) ELSE m) /\ n <= Len(readings)
  OBVIOUS
<1>3. PICK f : f = [k \in 1 .. n |-> readings[Len(readings) - k + 1]]
  OBVIOUS
<1>4. f \in [1 .. n -> 0 .. WordMax]
  <2>1. ASSUME NEW k \in 1 .. n PROVE readings[Len(readings) - k + 1] \in 0 .. WordMax
    <3>1. Len(readings) - k + 1 \in 1 .. Len(readings)
      BY <1>2
    <3>2. \A j \in 1 .. Len(readings) : readings[j] \in 0 .. WordMax
      BY ElementOfSeq
    <3> QED
      BY <3>1, <3>2
  <2> QED
    BY <1>3, <2>1
<1>5. Wall!Total(f, n) \in 0 .. n * WordMax
  <2>1. n \in Nat
    OBVIOUS
  <2> QED
    BY <1>1, <1>4, <2>1, TotalBound
<1>6. n * WordMax <= WordMax * WordMax /\ n * WordMax \in Int /\ WordMax * WordMax \in Int
  <2>1. PICK k \in Nat : WordMax = n + k
    <3>1. WordMax - n \in Nat /\ WordMax = n + (WordMax - n)
      BY <1>1
    <3> QED
      BY <3>1
  <2>2. PICK a, b \in Nat : a = n * WordMax /\ b = k * WordMax
    BY <1>1
  <2>3. WordMax * WordMax = n * WordMax + k * WordMax
    BY <1>1, <2>1
  <2> QED
    BY <2>2, <2>3
<1>7. Window(readings, m) = Wall!Total(f, n)
  BY <1>2, <1>3 DEF Window
<1> QED
  BY <1>5, <1>6, <1>7

LEMMA WindowMoves ==
  ASSUME NEW readings \in Seq(0 .. WordMax), NEW x \in 0 .. WordMax, NEW most \in Nat,
         Len(readings) <= most, NEW m \in 1 .. most
  PROVE  /\ Window(readings, m) \in Int
         /\ Window(Heard(readings, x, most), m)
              = Window(readings, m) + x
                  - (IF m - 1 < Len(readings) THEN readings[Len(readings) - (m - 1)] ELSE 0)
<1>1. PICK more : more = Heard(readings, x, most)
  OBVIOUS
<1>2. more \in Seq(0 .. WordMax) /\ Later(readings, x, most, more)
  <2>1. most >= 1
    OBVIOUS
  <2> QED
    BY <1>1, <2>1, HeardIs
<1>3. PICK a, b \in Nat : a = Len(readings) /\ b = Len(more)
  BY <1>2
<1>4. b = (IF a < most THEN a + 1 ELSE most) /\ a <= most /\ more[b] = x /\ m \in Nat
  BY <1>2, <1>3 DEF Later
<1>5. PICK n \in Nat : n = IF a < m THEN a ELSE m
  BY <1>4
<1>6. PICK q \in Nat : q = IF b < m THEN b ELSE m
  BY <1>4
<1>7. /\ n <= a /\ q <= b /\ q >= 1 /\ (a < m => q = n + 1) /\ (~(a < m) => q = n /\ n = m)
  BY <1>4, <1>5, <1>6
<1>8. PICK f : f = [k \in 1 .. n |-> readings[a - k + 1]]
  OBVIOUS
<1>9. PICK g : g = [k \in 1 .. q |-> more[b - k + 1]]
  OBVIOUS
<1>10. f \in [1 .. n -> Int]
  <2>1. ASSUME NEW k \in 1 .. n PROVE readings[a - k + 1] \in Int
    <3>1. a - k + 1 \in 1 .. Len(readings)
      BY <1>3, <1>7
    <3>2. \A j \in 1 .. Len(readings) : readings[j] \in 0 .. WordMax
      BY ElementOfSeq
    <3>3. readings[a - k + 1] \in 0 .. WordMax
      BY <3>1, <3>2
    <3> QED
      BY <3>3
  <2> QED
    BY <1>8, <2>1
<1>11. g \in [1 .. q -> Int]
  <2>1. ASSUME NEW k \in 1 .. q PROVE more[b - k + 1] \in Int
    <3>1. b - k + 1 \in 1 .. Len(more)
      BY <1>3, <1>7
    <3>2. \A j \in 1 .. Len(more) : more[j] \in 0 .. WordMax
      BY <1>2, ElementOfSeq
    <3>3. more[b - k + 1] \in 0 .. WordMax
      BY <3>1, <3>2
    <3> QED
      BY <3>3
  <2> QED
    BY <1>9, <2>1
<1>12. g[1] = x
  <2>1. b - 1 + 1 = b /\ 1 \in 1 .. q
    BY <1>7
  <2> QED
    BY <1>4, <1>9, <2>1
<1>13. ASSUME NEW k \in 2 .. q PROVE g[k] = f[k - 1]
  <2>1. PICK y \in Nat : y = k - 2
    OBVIOUS
  <2>2. y < most - 1 /\ y + 1 < b
    BY <1>4, <1>6, <1>7, <2>1
  <2>3. y < a /\ more[b - (y + 1)] = readings[a - y]
    BY <1>2, <1>3, <2>2 DEF Later
  <2>4. b - k + 1 = b - (y + 1) /\ a - (k - 1) + 1 = a - y /\ k \in 1 .. q /\ k - 1 \in 1 .. n
    BY <1>7, <2>1
  <2>5. g[k] = more[b - k + 1]
    BY <1>9, <2>4
  <2>6. f[k - 1] = readings[a - (k - 1) + 1]
    BY <1>8, <2>4
  <2> QED
    BY <2>3, <2>4, <2>5, <2>6
<1>14. /\ Wall!Total(f, n) \in Int
       /\ Wall!Total(g, q) = IF q = n THEN Wall!Total(f, n) + g[1] - f[n]
                             ELSE Wall!Total(f, n) + g[1]
  <2>1. q = n \/ q = n + 1
    BY <1>7
  <2> QED
    BY <1>7, <1>10, <1>11, <1>13, <2>1, TotalShifts
<1>15. Window(readings, m) = Wall!Total(f, n) /\ Window(more, m) = Wall!Total(g, q)
  BY <1>3, <1>5, <1>6, <1>8, <1>9 DEF Window
<1>16. PICK w \in Int : w = Wall!Total(f, n)
  BY <1>14
<1>17. CASE a < m
  <2>1. q # n /\ ~(m - 1 < a)
    BY <1>3, <1>4, <1>7, <1>17
  <2>2. Wall!Total(g, q) = w + x /\ w + x = w + x - 0
    BY <1>12, <1>14, <1>16, <2>1
  <2> QED
    BY <1>1, <1>3, <1>15, <1>16, <2>1, <2>2
<1>18. CASE ~(a < m)
  <2>1. q = n /\ n = m /\ m - 1 < a /\ a - n + 1 = a - (m - 1) /\ n \in 1 .. n
    BY <1>3, <1>4, <1>7, <1>18
  <2>2. f[n] = readings[a - (m - 1)]
    BY <1>8, <2>1
  <2>3. Wall!Total(g, q) = w + x - f[n]
    BY <1>12, <1>14, <1>16, <2>1
  <2> QED
    BY <1>1, <1>3, <1>15, <1>16, <2>1, <2>2, <2>3
<1> QED
  BY <1>17, <1>18

LEMMA CellsChange ==
  ASSUME NEW cells \in [0 .. WallDepth - 1 -> Int], NEW r \in 0 .. WallDepth - 1, NEW x \in Int
  PROVE  /\ CellsTotal(cells) \in Int
         /\ CellsTotal([cells EXCEPT ![r] = x]) = CellsTotal(cells) + x - cells[r]
<1>1. WallDepth \in Nat
  BY WordsAre
<1>2. PICK f : f = [c \in 1 .. WallDepth |-> cells[c - 1]]
  OBVIOUS
<1>3. f \in [1 .. WallDepth -> Int] /\ r + 1 \in 1 .. WallDepth /\ f[r + 1] = cells[r]
  BY <1>1, <1>2
<1>4. PICK g : g = [f EXCEPT ![r + 1] = x]
  OBVIOUS
<1>5. g = [c \in 1 .. WallDepth |-> [cells EXCEPT ![r] = x][c - 1]]
  <2>1. PICK h : h = [cells EXCEPT ![r] = x]
    OBVIOUS
  <2>2. ASSUME NEW c \in 1 .. WallDepth PROVE g[c] = h[c - 1]
    <3>1. c - 1 \in 0 .. WallDepth - 1 /\ (c = r + 1 <=> c - 1 = r)
      BY <1>1
    <3>2. CASE c = r + 1
      BY <1>3, <1>4, <2>1, <3>1, <3>2
    <3>3. CASE c # r + 1
      BY <1>2, <1>3, <1>4, <2>1, <3>1, <3>3
    <3> QED
      BY <3>2, <3>3
  <2>3. g = [c \in 1 .. WallDepth |-> g[c]]
    BY <1>3, <1>4
  <2> QED
    BY <2>1, <2>2, <2>3
<1>6. /\ Wall!Total(f, WallDepth) \in Int
      /\ Wall!Total(g, WallDepth) = Wall!Total(f, WallDepth) + x - f[r + 1]
  BY <1>1, <1>3, <1>4, TotalChanges
<1> QED
  BY <1>2, <1>3, <1>5, <1>6 DEF CellsTotal

LEMMA CellsClear == CellsTotal([c \in 0 .. WallDepth - 1 |-> 0]) = 0
<1>1. WallDepth \in Nat /\ 0 \in Nat
  BY WordsAre
<1>2. PICK f : f = [c \in 1 .. WallDepth |-> [d \in 0 .. WallDepth - 1 |-> 0][c - 1]]
  OBVIOUS
<1>3. f \in [1 .. WallDepth -> 0 .. 0]
  BY <1>1, <1>2
<1>4. Wall!Total(f, WallDepth) \in 0 .. WallDepth * 0
  BY <1>1, <1>3, TotalBound
<1>5. WallDepth * 0 = 0
  BY <1>1
<1>6. Wall!Total(f, WallDepth) = 0
  BY <1>4, <1>5
<1> QED
  BY <1>2, <1>6 DEF CellsTotal

NxFifos == [cell : [0 .. WallDepth - 1 -> 0 .. WordMax], inPt : 0 .. MaxNx - 1, nx : 0 .. MaxNx,
            sum : Nat, good : 0 .. WallAscans, max : 0 .. WordMax, min : 0 .. WordMax,
            drop : 0 .. WordMax]

\* The FIFO, and no more good readings in an interval than readings; none while the
\* parameters are replaced.
FifoTypes ==
  /\ NxFifo \in NxFifos /\ NxFifo.nx <= WordMax /\ NxFifo.sum = Wall!Uint(NxFifo.sum)
  /\ m_bInputCnt \in 0 .. WallAscans - 1
  /\ NxFifo.good <= IF at = "idle" THEN m_bInputCnt ELSE m_bInputCnt + 1
  /\ init # Wall!None => NxFifo.nx = 0 /\ NxFifo.good = 0

CallTypes ==
  /\ m_wTOFMaxSum \in 0 .. WordMax /\ m_wTOFMinSum \in 0 .. WordMax
  /\ m_wBadInARow \in 0 .. WordMax
  /\ at \in {"idle", "index", "store", "sum", "peak", "count"}
  /\ wWall \in Readings \cup {0} /\ wOldWall \in 0 .. WordMax /\ i \in 0 .. MaxNx - 1
  /\ init \in WallParams \cup {Wall!None}
  /\ lastGood \in Seq(0 .. WordMax) /\ Len(lastGood) <= MaxNx

WallTypes == FifoTypes /\ CallTypes

LEMMA HeldWordIs ==
  ASSUME NEW n \in Int
  PROVE  /\ Wall!Word(n) \in 0 .. WordMax
         /\ n \in 0 .. WordMax => Wall!Word(n) = n
BY WordsAre DEF Wall!Word

LEMMA NewChannel ==
  ASSUME NEW p \in WallParams, NEW f, f = Wall!WithParams(Wall!Cleared, p)
  PROVE  /\ f \in NxFifos /\ f.nx <= WordMax /\ f.sum = 0 /\ f.sum = Wall!Uint(f.sum)
         /\ f.inPt = 0 /\ f.good = 0 /\ f.cell = [c \in 0 .. WallDepth - 1 |-> 0]
<1>1. PICK n \in 0 .. MaxNx : n = (IF p.nx > MaxNx THEN MaxNx ELSE p.nx) /\ n <= WordMax
  BY WordsAre
<1>2. PICK cells \in [0 .. WallDepth - 1 -> 0 .. WordMax] : cells = [c \in 0 .. WallDepth - 1 |-> 0]
  <2>1. 0 \in 0 .. WordMax
    BY WordsAre
  <2> QED
    BY <2>1
<1>3. f = [cell |-> cells, inPt |-> 0, nx |-> n, sum |-> 0, good |-> 0, max |-> p.max,
           min |-> p.min, drop |-> p.drop]
  BY <1>1, <1>2 DEF Wall!WithParams, Wall!Cleared
<1>4. 0 \in 0 .. MaxNx - 1 /\ 0 \in Nat /\ 0 \in 0 .. WallAscans
  BY WordsAre
<1>5. f \in NxFifos
  BY <1>1, <1>2, <1>3, <1>4, WordsAre DEF NxFifos
<1>6. Wall!Uint(0) = 0
  <2>1. 0 \in 0 .. WordMax * WordMax
    <3>1. WordMax \in Nat
      BY WordsAre
    <3>2. WordMax * WordMax \in Nat
      BY <3>1
    <3> QED
      BY <3>2
  <2> QED
    BY <2>1, UintIs
<1> QED
  BY <1>1, <1>2, <1>3, <1>5, <1>6

LEMMA WallStartsTyped == Wall!Init => WallTypes
<1> SUFFICES ASSUME Wall!Init PROVE WallTypes
  OBVIOUS
<1>1. PICK p \in WallParams : NxFifo = Wall!WithParams(Wall!Cleared, p)
  BY DEF Wall!Init
<1>2. /\ NxFifo \in NxFifos /\ NxFifo.nx <= WordMax /\ NxFifo.sum = Wall!Uint(NxFifo.sum)
      /\ NxFifo.good = 0
  BY <1>1, NewChannel
<1>3. FifoTypes
  <2>1. 0 \in 0 .. WallAscans - 1 /\ 0 <= 0
    BY WordsAre
  <2> QED
    BY <1>2, <2>1 DEF Wall!Init, FifoTypes
<1>4. CallTypes
  <2>1. << >> \in Seq(0 .. WordMax) /\ Len(<< >>) = 0
    OBVIOUS
  <2>2. 0 \in 0 .. WordMax /\ WordMax \in 0 .. WordMax /\ 0 \in 0 .. MaxNx - 1 /\ 0 <= MaxNx
    BY WordsAre
  <2> QED
    BY <2>1, <2>2 DEF Wall!Init, CallTypes
<1> QED
  BY <1>3, <1>4 DEF WallTypes

\* A FIFO with one field changed.
LEMMA FifoIs ==
  ASSUME NEW f \in NxFifos
  PROVE  /\ f.cell \in [0 .. WallDepth - 1 -> 0 .. WordMax] /\ f.inPt \in 0 .. MaxNx - 1
         /\ f.nx \in 0 .. MaxNx /\ f.sum \in Nat /\ f.good \in 0 .. WallAscans
         /\ f.max \in 0 .. WordMax /\ f.min \in 0 .. WordMax /\ f.drop \in 0 .. WordMax
         /\ \A x : LET g == [f EXCEPT !.good = x] IN
              /\ g.good = x /\ g.cell = f.cell /\ g.inPt = f.inPt /\ g.nx = f.nx /\ g.sum = f.sum
              /\ x \in 0 .. WallAscans => g \in NxFifos
         /\ \A x : LET g == [f EXCEPT !.inPt = x] IN
              /\ g.inPt = x /\ g.cell = f.cell /\ g.good = f.good /\ g.nx = f.nx /\ g.sum = f.sum
              /\ x \in 0 .. MaxNx - 1 => g \in NxFifos
         /\ \A x : LET g == [f EXCEPT !.sum = x] IN
              /\ g.sum = x /\ g.cell = f.cell /\ g.good = f.good /\ g.nx = f.nx /\ g.inPt = f.inPt
              /\ x \in Nat => g \in NxFifos
         /\ \A c, x : LET g == [f EXCEPT !.cell[c] = x] IN
              /\ g.cell = [f.cell EXCEPT ![c] = x]
              /\ g.sum = f.sum /\ g.good = f.good /\ g.nx = f.nx /\ g.inPt = f.inPt
              /\ x \in 0 .. WordMax => g \in NxFifos
<1>1. /\ f.cell \in [0 .. WallDepth - 1 -> 0 .. WordMax] /\ f.inPt \in 0 .. MaxNx - 1
      /\ f.nx \in 0 .. MaxNx /\ f.sum \in Nat /\ f.good \in 0 .. WallAscans
      /\ f.max \in 0 .. WordMax /\ f.min \in 0 .. WordMax /\ f.drop \in 0 .. WordMax
  BY DEF NxFifos
<1>2. f = [cell |-> f.cell, inPt |-> f.inPt, nx |-> f.nx, sum |-> f.sum, good |-> f.good,
           max |-> f.max, min |-> f.min, drop |-> f.drop]
  BY DEF NxFifos
<1>3. ASSUME NEW x, NEW g, g = [f EXCEPT !.good = x]
      PROVE  /\ g.good = x /\ g.cell = f.cell /\ g.inPt = f.inPt /\ g.nx = f.nx /\ g.sum = f.sum
             /\ x \in 0 .. WallAscans => g \in NxFifos
  <2>1. g = [cell |-> f.cell, inPt |-> f.inPt, nx |-> f.nx, sum |-> f.sum, good |-> x,
             max |-> f.max, min |-> f.min, drop |-> f.drop]
    BY <1>3 DEF NxFifos
  <2> QED
    BY <1>1, <2>1 DEF NxFifos
<1>4. ASSUME NEW x, NEW g, g = [f EXCEPT !.inPt = x]
      PROVE  /\ g.inPt = x /\ g.cell = f.cell /\ g.good = f.good /\ g.nx = f.nx /\ g.sum = f.sum
             /\ x \in 0 .. MaxNx - 1 => g \in NxFifos
  <2>1. g = [cell |-> f.cell, inPt |-> x, nx |-> f.nx, sum |-> f.sum, good |-> f.good,
             max |-> f.max, min |-> f.min, drop |-> f.drop]
    BY <1>4 DEF NxFifos
  <2> QED
    BY <1>1, <2>1 DEF NxFifos
<1>5. ASSUME NEW x, NEW g, g = [f EXCEPT !.sum = x]
      PROVE  /\ g.sum = x /\ g.cell = f.cell /\ g.good = f.good /\ g.nx = f.nx /\ g.inPt = f.inPt
             /\ x \in Nat => g \in NxFifos
  <2>1. g = [cell |-> f.cell, inPt |-> f.inPt, nx |-> f.nx, sum |-> x, good |-> f.good,
             max |-> f.max, min |-> f.min, drop |-> f.drop]
    BY <1>5 DEF NxFifos
  <2> QED
    BY <1>1, <2>1 DEF NxFifos
<1>6. ASSUME NEW c, NEW x, NEW g, g = [f EXCEPT !.cell[c] = x]
      PROVE  /\ g.cell = [f.cell EXCEPT ![c] = x]
             /\ g.sum = f.sum /\ g.good = f.good /\ g.nx = f.nx /\ g.inPt = f.inPt
             /\ x \in 0 .. WordMax => g \in NxFifos
  <2>1. PICK cells : cells = [f.cell EXCEPT ![c] = x]
    OBVIOUS
  <2>2. g = [cell |-> cells, inPt |-> f.inPt, nx |-> f.nx, sum |-> f.sum, good |-> f.good,
             max |-> f.max, min |-> f.min, drop |-> f.drop]
    BY <1>6, <2>1 DEF NxFifos
  <2>3. x \in 0 .. WordMax => cells \in [0 .. WallDepth - 1 -> 0 .. WordMax]
    BY <1>1, <2>1
  <2> QED
    BY <1>1, <2>1, <2>2, <2>3 DEF NxFifos
<1> QED
  BY <1>1, <1>3, <1>4, <1>5, <1>6

LEMMA ReadingsTyped ==
  ASSUME WallTypes, Wall!NotAWall \/ Wall!BadReading \/ Wall!GoodReading
  PROVE  WallTypes'
<1>1. /\ NxFifo \in NxFifos /\ NxFifo.nx <= WordMax /\ NxFifo.sum = Wall!Uint(NxFifo.sum)
      /\ m_bInputCnt \in 0 .. WallAscans - 1 /\ at = "idle" /\ NxFifo.good <= m_bInputCnt
      /\ NxFifo.good \in 0 .. WallAscans
  BY FifoIs DEF WallTypes, FifoTypes, Wall!NotAWall, Wall!BadReading, Wall!GoodReading,
     Wall!StartReading
<1>2. PICK n, b : n = NxFifo.good /\ b = m_bInputCnt
  OBVIOUS
<1>3. n \in Nat /\ b \in Nat /\ n <= b /\ b + 1 <= WallAscans /\ n <= b + 1
      /\ n + 1 <= b + 1 /\ n + 1 \in 0 .. WallAscans
  BY <1>1, <1>2, WordsAre
<1>4. CASE Wall!NotAWall \/ Wall!BadReading
  <2>1. /\ UNCHANGED <<NxFifo, m_bInputCnt, m_wTOFMaxSum, m_wTOFMinSum, wWall, i, wOldWall, init,
                       lastGood>>
        /\ at' = "count"
    BY <1>4 DEF Wall!NotAWall, Wall!BadReading, Wall!peaks, Wall!call, Wall!bad
  <2>2. FifoTypes'
    BY <1>1, <1>2, <1>3, <2>1 DEF WallTypes, FifoTypes
  <2>3. m_wBadInARow' \in 0 .. WordMax
    <3>1. m_wBadInARow + 1 \in Int
      BY WordsAre DEF WallTypes, CallTypes
    <3> QED
      BY <1>4, <3>1, HeldWordIs DEF WallTypes, CallTypes, Wall!NotAWall, Wall!BadReading, Wall!bad
  <2>4. CallTypes'
    BY <2>1, <2>3 DEF WallTypes, CallTypes
  <2> QED
    BY <2>2, <2>4 DEF WallTypes
<1>5. CASE Wall!GoodReading
  <2>1. /\ NxFifo' = [NxFifo EXCEPT !.good = n + 1] /\ m_wBadInARow' = 0 /\ at' = "index"
        /\ UNCHANGED <<m_bInputCnt, m_wTOFMaxSum, m_wTOFMinSum, i, wOldWall, init, lastGood>>
        /\ wWall' \in Readings /\ NxFifo.nx # 0
    BY <1>2, <1>5 DEF Wall!GoodReading, Wall!peaks
  <2>2. PICK g : g = NxFifo'
    OBVIOUS
  <2>3. /\ g.good = n + 1 /\ g.nx = NxFifo.nx /\ g.sum = NxFifo.sum /\ g \in NxFifos
    BY <1>1, <1>3, <2>1, <2>2, FifoIs
  <2>4. init' = Wall!None
    BY <2>1 DEF WallTypes, FifoTypes
  <2>5. FifoTypes'
    BY <1>1, <1>2, <1>3, <2>1, <2>2, <2>3, <2>4 DEF FifoTypes
  <2>6. 0 \in 0 .. WordMax
    BY WordsAre
  <2>7. CallTypes'
    BY <2>1, <2>6 DEF WallTypes, CallTypes
  <2> QED
    BY <2>5, <2>7 DEF WallTypes
<1> QED
  BY <1>4, <1>5

LEMMA CellTyped ==
  ASSUME WallTypes, Wall!TakeIndex \/ Wall!Store
  PROVE  WallTypes'
<1>1. /\ NxFifo \in NxFifos /\ NxFifo.nx <= WordMax /\ NxFifo.sum = Wall!Uint(NxFifo.sum)
      /\ m_bInputCnt \in 0 .. WallAscans - 1 /\ NxFifo.good <= m_bInputCnt + 1
      /\ init # Wall!None => NxFifo.nx = 0 /\ NxFifo.good = 0
  BY DEF WallTypes, FifoTypes, Wall!TakeIndex, Wall!Store
<1>2. PICK f, g : f = NxFifo /\ g = NxFifo'
  OBVIOUS
<1>3. CASE Wall!TakeIndex
  <2>1. PICK r, n \in Nat : r = f.inPt /\ n = f.nx /\ r < MaxNx /\ n <= MaxNx
    <3>1. f.inPt \in 0 .. MaxNx - 1 /\ f.nx \in 0 .. MaxNx
      BY <1>1, <1>2, FifoIs
    <3> QED
      BY <3>1, WordsAre
  <2>2. PICK q : q = IF r + 1 >= n THEN 0 ELSE r + 1
    OBVIOUS
  <2>3. q \in 0 .. MaxNx - 1
    BY <2>1, <2>2, WordsAre
  <2>4. g = [f EXCEPT !.inPt = q] /\ i' = IF r >= n THEN 0 ELSE r
    BY <1>2, <1>3, <2>1, <2>2 DEF Wall!TakeIndex
  <2>5. i' \in 0 .. MaxNx - 1
    BY <2>1, <2>4, WordsAre
  <2>6. /\ at' = "store"
        /\ UNCHANGED <<m_bInputCnt, m_wTOFMaxSum, m_wTOFMinSum, m_wBadInARow, wWall, wOldWall, init,
                       lastGood>>
    BY <1>3 DEF Wall!TakeIndex, Wall!peaks, Wall!bad, Wall!history
  <2>7. g \in NxFifos /\ g.nx = f.nx /\ g.sum = f.sum /\ g.good = f.good
    BY <1>1, <1>2, <2>3, <2>4, FifoIs
  <2>8. FifoTypes'
    BY <1>1, <1>2, <2>6, <2>7 DEF FifoTypes
  <2>9. CallTypes'
    BY <2>5, <2>6 DEF WallTypes, CallTypes
  <2> QED
    BY <2>8, <2>9 DEF WallTypes
<1>4. CASE Wall!Store
  <2>1. /\ g = [f EXCEPT !.cell[i] = wWall] /\ at' = "sum" /\ wOldWall' = f.cell[i]
        /\ lastGood' = Heard(lastGood, wWall, MaxNx)
        /\ UNCHANGED <<m_bInputCnt, m_wTOFMaxSum, m_wTOFMinSum, m_wBadInARow, wWall, i, init>>
    BY <1>2, <1>4 DEF Wall!Store, Wall!peaks, Wall!bad, Heard
  <2>2. wWall \in 0 .. WordMax
    BY WordsAre DEF WallTypes, CallTypes
  <2>3. g \in NxFifos /\ g.nx = f.nx /\ g.sum = f.sum /\ g.good = f.good
    BY <1>1, <1>2, <2>1, <2>2, FifoIs
  <2>4. FifoTypes'
    BY <1>1, <1>2, <2>1, <2>3 DEF FifoTypes
  <2>5. wOldWall' \in 0 .. WordMax
    <3>1. f.cell \in [0 .. WallDepth - 1 -> 0 .. WordMax]
      BY <1>1, <1>2, FifoIs
    <3>2. i \in 0 .. WallDepth - 1
      BY WordsAre DEF WallTypes, CallTypes
    <3> QED
      BY <2>1, <3>1, <3>2
  <2>6. lastGood' \in Seq(0 .. WordMax) /\ Len(lastGood') <= MaxNx
    <3>1. lastGood \in Seq(0 .. WordMax) /\ Len(lastGood) <= MaxNx /\ MaxNx \in Nat /\ MaxNx >= 1
      BY WordsAre DEF WallTypes, CallTypes
    <3>2. /\ lastGood' \in Seq(0 .. WordMax)
          /\ Later(lastGood, wWall, MaxNx, lastGood')
      BY <2>1, <2>2, <3>1, HeardIs
    <3> QED
      BY <3>1, <3>2 DEF Later
  <2>7. CallTypes'
    BY <2>1, <2>5, <2>6 DEF WallTypes, CallTypes
  <2> QED
    BY <2>4, <2>7 DEF WallTypes
<1> QED
  BY <1>3, <1>4

LEMMA SumTyped ==
  ASSUME WallTypes, Wall!AddToSum \/ Wall!HoldPeaks
  PROVE  WallTypes'
<1>1. /\ NxFifo \in NxFifos /\ NxFifo.nx <= WordMax /\ NxFifo.sum = Wall!Uint(NxFifo.sum)
      /\ m_bInputCnt \in 0 .. WallAscans - 1 /\ NxFifo.good <= m_bInputCnt + 1
      /\ init # Wall!None => NxFifo.nx = 0 /\ NxFifo.good = 0
  BY DEF WallTypes, FifoTypes, Wall!AddToSum, Wall!HoldPeaks
<1>2. PICK f, g : f = NxFifo /\ g = NxFifo'
  OBVIOUS
<1>3. CASE Wall!AddToSum
  <2>1. PICK n : n = f.sum + wWall - wOldWall
    OBVIOUS
  <2>2. f.sum \in Int /\ wWall \in Int /\ wOldWall \in Int
    BY <1>1, <1>2, FifoIs, WordsAre DEF WallTypes, CallTypes
  <2>3. n \in Int
    BY <2>1, <2>2
  <2>4. PICK s \in Nat : s = Wall!Uint(n) /\ Wall!Uint(s) = s
    BY <2>3, UintIs
  <2>5. /\ g = [f EXCEPT !.sum = s] /\ at' = "peak"
        /\ UNCHANGED <<m_bInputCnt, m_wTOFMaxSum, m_wTOFMinSum, m_wBadInARow, wWall, i, wOldWall,
                       init, lastGood>>
    BY <1>2, <1>3, <2>1, <2>4 DEF Wall!AddToSum, Wall!peaks, Wall!bad, Wall!call, Wall!history
  <2>6. g \in NxFifos /\ g.nx = f.nx /\ g.sum = s /\ g.good = f.good
    BY <1>1, <1>2, <2>5, FifoIs
  <2>7. FifoTypes'
    BY <1>1, <1>2, <2>4, <2>5, <2>6 DEF FifoTypes
  <2>8. CallTypes'
    BY <2>5 DEF WallTypes, CallTypes
  <2> QED
    BY <2>7, <2>8 DEF WallTypes
<1>4. CASE Wall!HoldPeaks
  <2>1. /\ at' = "count"
        /\ UNCHANGED <<NxFifo, m_bInputCnt, m_wBadInARow, wWall, i, wOldWall, init, lastGood>>
    BY <1>4 DEF Wall!HoldPeaks, Wall!bad, Wall!call
  <2>2. PICK w \in 0 .. WordMax : w = Wall!Word(NxFifo.sum)
    <3>1. NxFifo.sum \in Int
      BY <1>1, FifoIs
    <3> QED
      BY <3>1, HeldWordIs
  <2>3. m_wTOFMaxSum' \in {m_wTOFMaxSum, w} /\ m_wTOFMinSum' \in {m_wTOFMinSum, w}
    BY <1>4, <2>2 DEF Wall!HoldPeaks
  <2>4. FifoTypes'
    BY <1>1, <2>1 DEF FifoTypes
  <2>5. CallTypes'
    BY <2>1, <2>3 DEF WallTypes, CallTypes
  <2> QED
    BY <2>4, <2>5 DEF WallTypes
<1> QED
  BY <1>3, <1>4

LEMMA CountTyped ==
  ASSUME WallTypes, Wall!Count \/ Wall!Report
  PROVE  WallTypes'
<1>1. /\ NxFifo \in NxFifos /\ NxFifo.nx <= WordMax /\ NxFifo.sum = Wall!Uint(NxFifo.sum)
      /\ m_bInputCnt \in 0 .. WallAscans - 1 /\ NxFifo.good <= m_bInputCnt + 1
      /\ init # Wall!None => NxFifo.nx = 0 /\ NxFifo.good = 0
  BY DEF WallTypes, FifoTypes, Wall!Count, Wall!Report
<1>2. 0 \in 0 .. WallAscans - 1 /\ 0 <= 0 /\ 0 \in 0 .. WordMax /\ WordMax \in 0 .. WordMax
      /\ 0 \in 0 .. WallAscans
  BY WordsAre
<1>3. CASE Wall!Count
  <2>1. /\ at' = "idle" /\ m_bInputCnt' = m_bInputCnt + 1 /\ m_bInputCnt + 1 < WallAscans
        /\ UNCHANGED <<NxFifo, m_wTOFMaxSum, m_wTOFMinSum, m_wBadInARow, wWall, i, wOldWall, init,
                       lastGood>>
    BY <1>3 DEF Wall!Count, Wall!peaks, Wall!bad, Wall!call, Wall!history
  <2>2. m_bInputCnt + 1 \in 0 .. WallAscans - 1
    BY <1>1, <2>1, WordsAre
  <2>3. FifoTypes'
    BY <1>1, <2>1, <2>2 DEF FifoTypes
  <2>4. CallTypes'
    BY <2>1 DEF WallTypes, CallTypes
  <2> QED
    BY <2>3, <2>4 DEF WallTypes
<1>4. CASE Wall!Report
  <2>1. PICK f, g : f = NxFifo /\ g = NxFifo'
    OBVIOUS
  <2>2. /\ at' = "idle" /\ m_bInputCnt' = 0 /\ g = [f EXCEPT !.good = 0]
        /\ m_wTOFMaxSum' = 0 /\ m_wTOFMinSum' = WordMax
        /\ UNCHANGED <<m_wBadInARow, wWall, i, wOldWall, init, lastGood>>
    BY <1>4, <2>1 DEF Wall!Report, Wall!call
  <2>3. g \in NxFifos /\ g.nx = f.nx /\ g.sum = f.sum /\ g.good = 0
    BY <1>1, <1>2, <2>1, <2>2, FifoIs
  <2>4. FifoTypes'
    BY <1>1, <1>2, <2>1, <2>2, <2>3 DEF FifoTypes
  <2>5. CallTypes'
    BY <1>2, <2>2 DEF WallTypes, CallTypes
  <2> QED
    BY <2>4, <2>5 DEF WallTypes
<1> QED
  BY <1>3, <1>4

LEMMA ParamsTyped ==
  ASSUME WallTypes, Wall!InitClear \/ Wall!InitStore
  PROVE  WallTypes'
<1>1. /\ m_bInputCnt \in 0 .. WallAscans - 1
      /\ init # Wall!None => NxFifo.nx = 0 /\ NxFifo.good = 0
      /\ NxFifo \in NxFifos /\ NxFifo.sum = Wall!Uint(NxFifo.sum)
  BY DEF WallTypes, FifoTypes
<1>2. 0 \in 0 .. WallAscans - 1 /\ 0 <= 0 /\ 0 <= 0 + 1 /\ 0 \in 0 .. WordMax
      /\ WordMax \in 0 .. WordMax /\ 0 <= WordMax /\ 0 <= m_bInputCnt /\ 0 <= m_bInputCnt + 1
  BY <1>1, WordsAre
<1>3. CASE Wall!InitClear
  <2>1. PICK g : g = NxFifo' /\ g = Wall!Cleared
    BY <1>3 DEF Wall!InitClear
  <2>2. PICK p \in WallParams : p = init'
    BY <1>3 DEF Wall!InitClear
  <2>3. /\ g \in NxFifos /\ g.nx = 0 /\ g.good = 0 /\ g.sum = 0
    <3>1. [c \in 0 .. WallDepth - 1 |-> 0] \in [0 .. WallDepth - 1 -> 0 .. WordMax]
      BY <1>2
    <3>2. 0 \in 0 .. MaxNx - 1 /\ 0 \in 0 .. MaxNx /\ 0 \in Nat /\ 0 \in 0 .. WallAscans
      BY WordsAre
    <3> QED
      BY <1>2, <2>1, <3>1, <3>2 DEF Wall!Cleared, NxFifos
  <2>4. Wall!Uint(0) = 0
    BY <2>2, NewChannel
  <2>5. UNCHANGED <<m_wTOFMaxSum, m_wTOFMinSum, m_bInputCnt, m_wBadInARow, at, wWall, i, wOldWall,
                    lastGood>>
    BY <1>3 DEF Wall!InitClear, Wall!peaks, Wall!bad, Wall!call
  <2>6. FifoTypes'
    BY <1>1, <1>2, <2>1, <2>3, <2>4, <2>5 DEF FifoTypes
  <2>7. CallTypes'
    BY <2>2, <2>5 DEF WallTypes, CallTypes
  <2> QED
    BY <2>6, <2>7 DEF WallTypes
<1>4. CASE Wall!InitStore
  <2>1. PICK p \in WallParams : p = init
    BY <1>4 DEF Wall!InitStore, WallTypes, CallTypes
  <2>2. PICK f, g : f = NxFifo /\ g = NxFifo'
    OBVIOUS
  <2>3. PICK n \in 0 .. MaxNx : n = (IF p.nx > MaxNx THEN MaxNx ELSE p.nx) /\ n <= WordMax
    BY WordsAre
  <2>4. g = [cell |-> f.cell, inPt |-> f.inPt, nx |-> n, sum |-> f.sum, good |-> f.good,
             max |-> p.max, min |-> p.min, drop |-> p.drop]
    BY <1>1, <1>4, <2>1, <2>2, <2>3 DEF Wall!InitStore, Wall!WithParams, NxFifos
  <2>5. g \in NxFifos
    BY <1>1, <2>2, <2>4, WordsAre DEF NxFifos
  <2>6. f.good = 0
    BY <1>1, <1>4, <2>2 DEF Wall!InitStore
  <2>7. /\ m_wTOFMaxSum' = 0 /\ m_wTOFMinSum' = WordMax /\ m_bInputCnt' = 0 /\ m_wBadInARow' = 0
        /\ init' = Wall!None /\ lastGood' = << >> /\ UNCHANGED <<at, wWall, i, wOldWall>>
    BY <1>4 DEF Wall!InitStore, Wall!call
  <2>8. FifoTypes'
    BY <1>1, <1>2, <2>2, <2>3, <2>4, <2>5, <2>6, <2>7 DEF FifoTypes
  <2>9. << >> \in Seq(0 .. WordMax) /\ Len(<< >>) = 0 /\ 0 <= MaxNx
    BY WordsAre
  <2>10. CallTypes'
    BY <1>2, <2>7, <2>9 DEF WallTypes, CallTypes
  <2> QED
    BY <2>8, <2>10 DEF WallTypes
<1> QED
  BY <1>3, <1>4

\* Undisturbed, the cells hold the last Nx readings, those before the next to be written;
\* the sum is theirs and that of all cells, but for the difference not yet added.
WallSettled(f, p, k, w, old, good) ==
  LET r == IF p = "store" THEN k ELSE f.inPt
      s == IF p = "sum" THEN f.sum + w - old ELSE f.sum
  IN  /\ p \in {"index", "store", "sum", "peak"} => f.nx > 0
      /\ f.nx > 0 => r < f.nx
      /\ p = "store" => f.inPt = After(k, f.nx)
      /\ HoldsLast(f.cell, r, f.nx, good)
      /\ s = CellsTotal(f.cell) /\ s = Window(good, f.nx)

SettledInv ==
  undisturbed =>
    IF init = Wall!None THEN WallSettled(NxFifo, at, i, wWall, wOldWall, lastGood)
    ELSE at = "idle" /\ NxFifo = Wall!Cleared

LEMMA SettledStart ==
  ASSUME NEW p \in WallParams, NEW f, f = Wall!WithParams(Wall!Cleared, p), NEW k, NEW w, NEW old
  PROVE  WallSettled(f, "idle", k, w, old, << >>)
<1>1. /\ f \in NxFifos /\ f.sum = 0 /\ f.inPt = 0 /\ f.cell = [c \in 0 .. WallDepth - 1 |-> 0]
  BY NewChannel
<1>2. PICK n \in Nat : n = f.nx /\ n <= MaxNx /\ n <= WallDepth
  <2>1. f.nx \in 0 .. MaxNx
    BY <1>1, FifoIs
  <2> QED
    BY <2>1, WordsAre
<1>3. HoldsLast(f.cell, 0, n, << >>)
  <2>1. ASSUME NEW c \in 0 .. n - 1 PROVE f.cell[c] = 0 /\ ~(Age(0, n, c) < 0)
    <3>1. c \in 0 .. WallDepth - 1 /\ ~(c < 0) /\ (0 - 1 - c) + n \in Nat
      BY <1>2, WordsAre
    <3> QED
      BY <1>1, <3>1 DEF Age
  <2> QED
    BY <2>1 DEF HoldsLast
<1>4. CellsTotal(f.cell) = 0
  BY <1>1, CellsClear
<1>5. Window(<< >>, n) = 0
  <2>1. Len(<< >>) = 0 /\ (IF 0 < n THEN 0 ELSE n) = 0
    BY <1>2
  <2>2. PICK g : g = [k_1 \in 1 .. 0 |-> << >>[Len(<< >>) - k_1 + 1]]
    OBVIOUS
  <2>3. Window(<< >>, n) = Wall!Total(g, 0)
    BY <2>1, <2>2 DEF Window
  <2>4. g \in [1 .. 0 -> 0 .. 0] /\ 0 \in Nat
    BY <2>2
  <2>5. Wall!Total(g, 0) \in 0 .. 0 * 0
    BY <2>4, TotalBound
  <2>6. 0 * 0 = 0
    OBVIOUS
  <2> QED
    BY <2>3, <2>5, <2>6
<1> QED
  BY <1>1, <1>2, <1>3, <1>4, <1>5 DEF WallSettled

LEMMA WallStartsSettled == Wall!Init => SettledInv
<1> SUFFICES ASSUME Wall!Init PROVE SettledInv
  OBVIOUS
<1>1. PICK p \in WallParams : NxFifo = Wall!WithParams(Wall!Cleared, p)
  BY DEF Wall!Init
<1>2. WallSettled(NxFifo, "idle", i, wWall, wOldWall, << >>)
  BY <1>1, SettledStart
<1> QED
  BY <1>2 DEF Wall!Init, SettledInv

\* A step of a call, or its end, undisturbed.
LEMMA ReadingsSettled ==
  ASSUME WallTypes, SettledInv, Wall!NotAWall \/ Wall!BadReading \/ Wall!GoodReading
  PROVE  SettledInv'
<1> SUFFICES ASSUME undisturbed' PROVE SettledInv'
  BY DEF SettledInv
<1>1. /\ undisturbed /\ init = Wall!None /\ init' = init /\ at = "idle"
      /\ UNCHANGED <<lastGood, i, wOldWall>>
  BY DEF Wall!NotAWall, Wall!BadReading, Wall!GoodReading, Wall!StartReading, Wall!call
<1>2. PICK f, g : f = NxFifo /\ g = NxFifo'
  OBVIOUS
<1>3. WallSettled(f, "idle", i, wWall, wOldWall, lastGood) /\ f \in NxFifos
  BY <1>1, <1>2 DEF SettledInv, WallTypes, FifoTypes
<1>4. CASE Wall!NotAWall \/ Wall!BadReading
  <2>1. g = f /\ at' = "count" /\ wWall' = wWall
    BY <1>2, <1>4 DEF Wall!NotAWall, Wall!BadReading, Wall!call
  <2>2. WallSettled(f, "count", i, wWall, wOldWall, lastGood)
    BY <1>3 DEF WallSettled
  <2> QED
    BY <1>1, <1>2, <2>1, <2>2 DEF SettledInv
<1>5. CASE Wall!GoodReading
  <2>1. g = [f EXCEPT !.good = f.good + 1] /\ at' = "index" /\ f.nx # 0
    BY <1>2, <1>5 DEF Wall!GoodReading
  <2>2. /\ g.cell = f.cell /\ g.inPt = f.inPt /\ g.nx = f.nx /\ g.sum = f.sum
    BY <1>3, <2>1, FifoIs
  <2>3. f.nx > 0
    <3>1. f.nx \in 0 .. MaxNx
      BY <1>3, FifoIs
    <3> QED
      BY <2>1, <3>1, WordsAre
  <2>4. WallSettled(g, "index", i, wWall', wOldWall, lastGood)
    BY <1>3, <2>2, <2>3 DEF WallSettled
  <2> QED
    BY <1>1, <1>2, <2>1, <2>4 DEF SettledInv
<1> QED
  BY <1>4, <1>5

LEMMA IndexSettled ==
  ASSUME WallTypes, SettledInv, Wall!TakeIndex
  PROVE  SettledInv'
<1> SUFFICES ASSUME undisturbed' PROVE SettledInv'
  BY DEF SettledInv
<1>1. /\ undisturbed /\ init = Wall!None /\ init' = init /\ at = "index" /\ at' = "store"
      /\ UNCHANGED <<lastGood, wWall, wOldWall>>
  BY DEF Wall!TakeIndex, Wall!history, SettledInv
<1>2. PICK f, g : f = NxFifo /\ g = NxFifo'
  OBVIOUS
<1>3. WallSettled(f, "index", i, wWall, wOldWall, lastGood) /\ f \in NxFifos
  BY <1>1, <1>2 DEF SettledInv, WallTypes, FifoTypes
<1>4. PICK r, n \in Nat : r = f.inPt /\ n = f.nx
  <2>1. f.inPt \in 0 .. MaxNx - 1 /\ f.nx \in 0 .. MaxNx
    BY <1>3, FifoIs
  <2> QED
    BY <2>1, WordsAre
<1>5. n > 0 /\ r < n
  BY <1>3, <1>4 DEF WallSettled
<1>6. PICK q : q = After(r, n)
  OBVIOUS
<1>7. g = [f EXCEPT !.inPt = q] /\ i' = r
  BY <1>2, <1>4, <1>5, <1>6 DEF Wall!TakeIndex, After
<1>8. g.inPt = q /\ g.cell = f.cell /\ g.nx = n /\ g.sum = f.sum
  BY <1>3, <1>4, <1>7, FifoIs
<1>9. WallSettled(g, "store", r, wWall, wOldWall, lastGood)
  BY <1>3, <1>4, <1>5, <1>6, <1>8 DEF WallSettled
<1> QED
  BY <1>1, <1>2, <1>7, <1>9 DEF SettledInv

LEMMA StoreSettled ==
  ASSUME WallTypes, SettledInv, Wall!Store
  PROVE  SettledInv'
<1> SUFFICES ASSUME undisturbed' PROVE SettledInv'
  BY DEF SettledInv
<1>1. /\ undisturbed /\ init = Wall!None /\ init' = init /\ at = "store" /\ at' = "sum"
      /\ UNCHANGED <<wWall, i>>
  BY DEF Wall!Store, SettledInv
<1>2. PICK f, g : f = NxFifo /\ g = NxFifo'
  OBVIOUS
<1>3. WallSettled(f, "store", i, wWall, wOldWall, lastGood) /\ f \in NxFifos
  BY <1>1, <1>2 DEF SettledInv, WallTypes, FifoTypes
<1>4. PICK n \in 1 .. MaxNx : n = f.nx
  <2>1. f.nx \in 0 .. MaxNx /\ f.nx > 0
    BY <1>3, FifoIs DEF WallSettled
  <2> QED
    BY <2>1, WordsAre
<1>5. i \in 0 .. n - 1 /\ f.inPt = After(i, n)
  <2>1. i \in Nat
    BY WordsAre DEF WallTypes, CallTypes
  <2>2. f.nx > 0 /\ i < f.nx /\ f.inPt = After(i, n)
    BY <1>3, <1>4 DEF WallSettled
  <2> QED
    BY <1>4, <2>1, <2>2, WordsAre
<1>6. /\ HoldsLast(f.cell, i, n, lastGood)
      /\ f.sum = CellsTotal(f.cell) /\ f.sum = Window(lastGood, n)
  BY <1>3, <1>4 DEF WallSettled
<1>7. PICK more, old : more = Heard(lastGood, wWall, MaxNx) /\ old = f.cell[i]
  OBVIOUS
<1>8. g = [f EXCEPT !.cell[i] = wWall] /\ lastGood' = more /\ wOldWall' = old
  BY <1>2, <1>7 DEF Wall!Store, Heard
<1>9. /\ g.cell = [f.cell EXCEPT ![i] = wWall] /\ g.sum = f.sum /\ g.nx = n
      /\ g.inPt = After(i, n) /\ f.cell \in [0 .. WallDepth - 1 -> 0 .. WordMax] /\ f.sum \in Nat
  BY <1>3, <1>4, <1>5, <1>8, FifoIs
<1>10. /\ wWall \in 0 .. WordMax /\ lastGood \in Seq(0 .. WordMax) /\ Len(lastGood) <= MaxNx
       /\ MaxNx \in Nat /\ MaxNx <= WallDepth /\ WallDepth \in Nat
       /\ n \in 1 .. WallDepth /\ n <= MaxNx /\ i \in 0 .. WallDepth - 1
  BY <1>4, <1>5, WordsAre DEF WallTypes, CallTypes
<1>11. /\ HoldsLast(g.cell, After(i, n), n, more)
       /\ old = IF n - 1 < Len(lastGood) THEN lastGood[Len(lastGood) - (n - 1)] ELSE 0
  <2>1. HoldsLast([f.cell EXCEPT ![i] = wWall], After(i, n), n, Heard(lastGood, wWall, MaxNx))
    BY <1>5, <1>6, <1>9, <1>10, HoldsOn
  <2>2. f.cell[i] = IF n - 1 < Len(lastGood) THEN lastGood[Len(lastGood) - (n - 1)] ELSE 0
    <3>1. n \in Nat
      BY <1>4
    <3> QED
      BY <1>5, <1>6, <3>1, OldestIs
  <2>3. more = Heard(lastGood, wWall, MaxNx) /\ g.cell = [f.cell EXCEPT ![i] = wWall]
    BY <1>7, <1>9
  <2>4. HoldsLast(g.cell, After(i, n), n, more)
    BY <2>1, <2>3
  <2>5. old = IF n - 1 < Len(lastGood) THEN lastGood[Len(lastGood) - (n - 1)] ELSE 0
    BY <1>7, <2>2
  <2> QED
    BY <2>4, <2>5
<1>12. Window(more, n) = Window(lastGood, n) + wWall - old
  BY <1>4, <1>7, <1>10, <1>11, WindowMoves
<1>13. CellsTotal(g.cell) = CellsTotal(f.cell) + wWall - old
  <2>1. f.cell \in [0 .. WallDepth - 1 -> Int] /\ wWall \in Int /\ WallDepth \in Nat
        /\ i \in 0 .. WallDepth - 1
    BY <1>9, <1>10
  <2>2. CellsTotal([f.cell EXCEPT ![i] = wWall]) = CellsTotal(f.cell) + wWall - f.cell[i]
    BY <2>1, CellsChange
  <2>3. old = f.cell[i] /\ g.cell = [f.cell EXCEPT ![i] = wWall]
    BY <1>7, <1>9
  <2> QED
    BY <2>2, <2>3
<1>14. g.nx > 0 /\ After(i, n) < n
  <2>1. n \in Nat /\ n > 0
    BY <1>4
  <2>2. After(i, n) \in 0 .. n - 1
    BY <1>5, <2>1, OneOlder
  <2> QED
    BY <1>9, <2>1, <2>2
<1>15. WallSettled(g, "sum", i, wWall, old, more)
  BY <1>6, <1>9, <1>11, <1>12, <1>13, <1>14 DEF WallSettled
<1> QED
  BY <1>1, <1>2, <1>8, <1>15 DEF SettledInv

LEMMA SumSettled ==
  ASSUME WallTypes, SettledInv, Wall!AddToSum
  PROVE  SettledInv'
<1> SUFFICES ASSUME undisturbed' PROVE SettledInv'
  BY DEF SettledInv
<1>1. /\ undisturbed /\ init = Wall!None /\ init' = init /\ at = "sum" /\ at' = "peak"
      /\ UNCHANGED <<lastGood, wWall, i, wOldWall>>
  BY DEF Wall!AddToSum, Wall!call, Wall!history, SettledInv
<1>2. PICK f, g : f = NxFifo /\ g = NxFifo'
  OBVIOUS
<1>3. WallSettled(f, "sum", i, wWall, wOldWall, lastGood) /\ f \in NxFifos
  BY <1>1, <1>2 DEF SettledInv, WallTypes, FifoTypes
<1>4. PICK s : s = f.sum + wWall - wOldWall
  OBVIOUS
<1>5. s = Window(lastGood, f.nx) /\ s = CellsTotal(f.cell) /\ f.nx > 0
  BY <1>3, <1>4 DEF WallSettled
<1>6. s \in 0 .. WordMax * WordMax
  <2>1. f.nx \in 0 .. MaxNx /\ f.nx <= WordMax
    BY <1>2, <1>3, FifoIs DEF WallTypes, FifoTypes
  <2>2. f.nx \in 0 .. WordMax
    BY <2>1, WordsAre
  <2>3. lastGood \in Seq(0 .. WordMax)
    BY DEF WallTypes, CallTypes
  <2> QED
    BY <1>5, <2>2, <2>3, WindowBound
<1>7. Wall!Uint(s) = s
  <2>1. s \in Int
    BY <1>6
  <2> QED
    BY <1>6, <2>1, UintIs
<1>8. g = [f EXCEPT !.sum = s]
  BY <1>2, <1>4, <1>7 DEF Wall!AddToSum
<1>9. g.sum = s /\ g.cell = f.cell /\ g.nx = f.nx /\ g.inPt = f.inPt
  BY <1>3, <1>8, FifoIs
<1>10. WallSettled(g, "peak", i, wWall, wOldWall, lastGood)
  BY <1>3, <1>5, <1>9 DEF WallSettled
<1> QED
  BY <1>1, <1>2, <1>10 DEF SettledInv

LEMMA EndSettled ==
  ASSUME WallTypes, SettledInv, Wall!HoldPeaks \/ Wall!Count \/ Wall!Report
  PROVE  SettledInv'
<1> SUFFICES ASSUME undisturbed' PROVE SettledInv'
  BY DEF SettledInv
<1>1. /\ undisturbed /\ init = Wall!None /\ init' = init /\ at \in {"peak", "count"}
      /\ at' \in {"count", "idle"} /\ UNCHANGED <<lastGood, wWall, i, wOldWall>>
  BY DEF Wall!HoldPeaks, Wall!Count, Wall!Report, Wall!call, Wall!history, SettledInv
<1>2. PICK f, g : f = NxFifo /\ g = NxFifo'
  OBVIOUS
<1>3. WallSettled(f, at, i, wWall, wOldWall, lastGood) /\ f \in NxFifos
  BY <1>1, <1>2 DEF SettledInv, WallTypes, FifoTypes
<1>4. g.cell = f.cell /\ g.inPt = f.inPt /\ g.nx = f.nx /\ g.sum = f.sum
  <2>1. g = f \/ g = [f EXCEPT !.good = 0]
    BY <1>2 DEF Wall!HoldPeaks, Wall!Count, Wall!Report
  <2>2. CASE g = f
    BY <2>2
  <2>3. CASE g = [f EXCEPT !.good = 0]
    BY <1>3, <2>3, FifoIs
  <2> QED
    BY <2>1, <2>2, <2>3
<1>5. WallSettled(g, at', i, wWall, wOldWall, lastGood)
  BY <1>1, <1>3, <1>4 DEF WallSettled
<1> QED
  BY <1>1, <1>2, <1>5 DEF SettledInv

LEMMA ParamsSettled ==
  ASSUME WallTypes, SettledInv, Wall!InitClear \/ Wall!InitStore
  PROVE  SettledInv'
<1> SUFFICES ASSUME undisturbed' PROVE SettledInv'
  BY DEF SettledInv
<1>1. CASE Wall!InitClear
  <2>1. at = "idle" /\ at' = at /\ NxFifo' = Wall!Cleared /\ init' \in WallParams
    BY <1>1 DEF Wall!InitClear
  <2>2. init' # Wall!None
    BY <2>1, WordsAre DEF Wall!None
  <2> QED
    BY <2>1, <2>2 DEF SettledInv
<1>2. CASE Wall!InitStore
  <2>1. undisturbed /\ init # Wall!None /\ init' = Wall!None /\ at' = at /\ lastGood' = << >>
        /\ NxFifo' = Wall!WithParams(NxFifo, init)
    BY <1>2 DEF Wall!InitStore
  <2>2. PICK p \in WallParams : p = init
    BY <2>1 DEF WallTypes, CallTypes
  <2>3. at = "idle" /\ NxFifo = Wall!Cleared
    BY <2>1 DEF SettledInv
  <2>4. WallSettled(NxFifo', "idle", i', wWall', wOldWall', << >>)
    BY <2>1, <2>2, <2>3, SettledStart
  <2> QED
    BY <2>1, <2>3, <2>4 DEF SettledInv
<1> QED
  BY <1>1, <1>2

\* What is held for an interval is its largest sum, and the smallest of those over Nx of
\* its readings, if the sums fit in a WORD.
Greatest(S) == IF S = {} THEN 0 ELSE Wall!Max(S)
Least(S) == IF S = {} THEN WordMax ELSE Wall!Min(S)
Held(most, least, s) ==
  s.all \subseteq 0 .. WordMax => most = Greatest(s.all) /\ least = Least(s.whole)

PeakInv ==
  undisturbed /\ init = Wall!None =>
    /\ Held(m_wTOFMaxSum, m_wTOFMinSum, sums) /\ sums.whole \subseteq sums.all
    /\ lastSums # Wall!None => Held(reported.max, reported.min, lastSums)

LEMMA GreatestIs ==
  ASSUME NEW S, S \subseteq 0 .. WordMax, NEW x \in 0 .. WordMax,
         \A y \in S : y <= x, x \in S \/ (S = {} /\ x = 0)
  PROVE  Greatest(S) = x
<1>1. CASE S = {}
  BY <1>1 DEF Greatest
<1>2. CASE S # {}
  <2>1. x \in S /\ \A y \in S : x >= y
    BY <1>2
  <2>2. PICK m : m = Wall!Max(S)
    OBVIOUS
  <2>3. m \in S /\ \A y \in S : m >= y
    BY <2>1, <2>2 DEF Wall!Max
  <2>4. m >= x /\ x >= m /\ m \in Int /\ x \in Int
    BY <2>1, <2>3
  <2>5. m = x
    BY <2>4
  <2> QED
    BY <1>2, <2>2, <2>5 DEF Greatest
<1> QED
  BY <1>1, <1>2

LEMMA LeastIs ==
  ASSUME NEW S, S \subseteq 0 .. WordMax, NEW x \in 0 .. WordMax,
         \A y \in S : x <= y, x \in S \/ (S = {} /\ x = WordMax)
  PROVE  Least(S) = x
<1>1. CASE S = {}
  BY <1>1 DEF Least
<1>2. CASE S # {}
  <2>1. x \in S /\ \A y \in S : x =< y
    BY <1>2
  <2>2. PICK m : m = Wall!Min(S)
    OBVIOUS
  <2>3. m \in S /\ \A y \in S : m =< y
    BY <2>1, <2>2 DEF Wall!Min
  <2>4. m >= x /\ x >= m /\ m \in Int /\ x \in Int
    BY <2>1, <2>3
  <2>5. m = x
    BY <2>4
  <2> QED
    BY <1>2, <2>2, <2>5 DEF Least
<1> QED
  BY <1>1, <1>2

LEMMA ExtremesAre ==
  ASSUME NEW S, S \subseteq 0 .. WordMax
  PROVE  /\ Greatest(S) \in 0 .. WordMax /\ \A y \in S : y <= Greatest(S)
         /\ Greatest(S) \in S \/ (S = {} /\ Greatest(S) = 0)
         /\ Least(S) \in 0 .. WordMax /\ \A y \in S : Least(S) <= y
         /\ Least(S) \in S \/ (S = {} /\ Least(S) = WordMax)
<1>1. WordMax \in Nat
  BY WordsAre
<1>2. CASE S = {}
  BY <1>1, <1>2 DEF Greatest, Least
<1>3. CASE S # {}
  <2>1. /\ \E x \in S : \A y \in S : x >= y
        /\ \E x \in S : \A y \in S : x =< y
    BY <1>1, <1>3, Extremes
  <2>2. PICK a, b : a = Wall!Max(S) /\ b = Wall!Min(S)
    OBVIOUS
  <2>3. a \in S /\ \A y \in S : a >= y
    BY <2>1, <2>2 DEF Wall!Max
  <2>4. b \in S /\ \A y \in S : b <= y
    BY <2>1, <2>2 DEF Wall!Min
  <2>5. Greatest(S) = a /\ Least(S) = b
    BY <1>3, <2>2 DEF Greatest, Least
  <2>6. a \in 0 .. WordMax /\ b \in 0 .. WordMax
    BY <2>3, <2>4
  <2>7. \A y \in S : y <= a
    BY <2>3, <2>6
  <2> QED
    BY <2>3, <2>4, <2>5, <2>6, <2>7
<1> QED
  BY <1>2, <1>3

LEMMA OneMoreWord ==
  ASSUME NEW S, S \subseteq 0 .. WordMax, NEW x \in 0 .. WordMax
  PROVE  /\ Greatest(S \cup {x}) = IF Greatest(S) < x THEN x ELSE Greatest(S)
         /\ Least(S \cup {x}) = IF Least(S) > x THEN x ELSE Least(S)
<1>1. PICK a, b : a = Greatest(S) /\ b = Least(S)
  OBVIOUS
<1>2. /\ a \in 0 .. WordMax /\ \A y \in S : y <= a
      /\ a \in S \/ (S = {} /\ a = 0)
      /\ b \in 0 .. WordMax /\ \A y \in S : b <= y
      /\ b \in S \/ (S = {} /\ b = WordMax)
  BY <1>1, ExtremesAre
<1>3. PICK T : T = S \cup {x}
  OBVIOUS
<1>4. T \subseteq 0 .. WordMax /\ x \in T /\ T # {}
  BY <1>3
<1>5. PICK c \in 0 .. WordMax : c = IF a < x THEN x ELSE a
  BY <1>2
<1>6. \A y \in T : y <= c
  BY <1>2, <1>3, <1>5
<1>7. c \in T
  BY <1>2, <1>3, <1>5
<1>8. Greatest(T) = c
  BY <1>4, <1>6, <1>7, GreatestIs
<1>9. PICK d \in 0 .. WordMax : d = IF b > x THEN x ELSE b
  BY <1>2
<1>10. \A y \in T : d <= y
  BY <1>2, <1>3, <1>9
<1>11. d \in T
  BY <1>2, <1>3, <1>9
<1>12. Least(T) = d
  BY <1>4, <1>10, <1>11, LeastIs
<1> QED
  BY <1>1, <1>3, <1>5, <1>8, <1>9, <1>12

LEMMA NothingHeld == Held(0, WordMax, Wall!NoSums) /\ Wall!NoSums.whole \subseteq Wall!NoSums.all
BY DEF Held, Greatest, Least, Wall!NoSums

LEMMA WallStartsHeld == Wall!Init => PeakInv
BY NothingHeld DEF Wall!Init, PeakInv

LEMMA HoldKeeps ==
  ASSUME WallTypes, PeakInv, Wall!HoldPeaks
  PROVE  PeakInv'
<1> SUFFICES ASSUME undisturbed', init' = Wall!None PROVE PeakInv'
  BY DEF PeakInv
<1>1. /\ undisturbed /\ init = Wall!None
      /\ UNCHANGED <<reported, lastSums>>
  BY DEF Wall!HoldPeaks
<1>2. PICK s \in Nat : s = NxFifo.sum
  BY FifoIs DEF WallTypes, FifoTypes
<1>3. PICK b \in BOOLEAN : b <=> NxFifo.good >= NxFifo.nx
  OBVIOUS
<1>4. PICK x, y : x = m_wTOFMaxSum /\ y = m_wTOFMinSum
  OBVIOUS
<1>5. x \in 0 .. WordMax /\ y \in 0 .. WordMax
  BY <1>4 DEF WallTypes, CallTypes
<1>6. /\ m_wTOFMaxSum' = IF x < s THEN Wall!Word(s) ELSE x
      /\ m_wTOFMinSum' = IF y > s /\ b THEN Wall!Word(s) ELSE y
      /\ sums'.all = sums.all \cup {s}
      /\ sums'.whole = sums.whole \cup (IF b THEN {s} ELSE {})
  BY <1>2, <1>3, <1>4 DEF Wall!HoldPeaks
<1>7. Held(x, y, sums) /\ sums.whole \subseteq sums.all
  BY <1>1, <1>4 DEF PeakInv
<1>8. ASSUME sums'.all \subseteq 0 .. WordMax
      PROVE  m_wTOFMaxSum' = Greatest(sums'.all) /\ m_wTOFMinSum' = Least(sums'.whole)
  <2>1. s \in 0 .. WordMax /\ sums.all \subseteq 0 .. WordMax /\ sums.whole \subseteq 0 .. WordMax
    BY <1>6, <1>7, <1>8
  <2>2. Wall!Word(s) = s
    BY <2>1, HeldWordIs
  <2>3. x = Greatest(sums.all) /\ y = Least(sums.whole)
    BY <1>7, <2>1 DEF Held
  <2>4. m_wTOFMaxSum' = Greatest(sums'.all)
    BY <1>6, <2>1, <2>2, <2>3, OneMoreWord
  <2>5. CASE b
    <3>1. Least(sums.whole \cup {s}) = IF y > s THEN s ELSE y
      BY <2>1, <2>3, OneMoreWord
    <3>2. sums'.whole = sums.whole \cup {s}
      BY <1>6, <2>5
    <3>3. m_wTOFMinSum' = IF y > s THEN s ELSE y
      BY <1>6, <2>2, <2>5
    <3> QED
      BY <2>4, <3>1, <3>2, <3>3
  <2>6. CASE ~b
    <3>1. sums'.whole = sums.whole /\ m_wTOFMinSum' = y
      BY <1>6, <2>6
    <3> QED
      BY <2>3, <2>4, <3>1
  <2> QED
    BY <2>5, <2>6
<1>9. sums'.whole \subseteq sums'.all
  BY <1>6, <1>7
<1>10. lastSums # Wall!None => Held(reported.max, reported.min, lastSums)
  BY <1>1 DEF PeakInv
<1> QED
  BY <1>1, <1>8, <1>9, <1>10 DEF PeakInv, Held

LEMMA ReportKeeps ==
  ASSUME PeakInv, Wall!Report
  PROVE  PeakInv'
<1> SUFFICES ASSUME undisturbed', init' = Wall!None PROVE PeakInv'
  BY DEF PeakInv
<1>1. /\ undisturbed /\ init = Wall!None
      /\ m_wTOFMaxSum' = 0 /\ m_wTOFMinSum' = WordMax
      /\ sums' = Wall!NoSums /\ lastSums' = sums
      /\ reported'.max = m_wTOFMaxSum /\ reported'.min = m_wTOFMinSum
  BY DEF Wall!Report
<1>2. Held(reported'.max, reported'.min, lastSums')
  BY <1>1 DEF PeakInv
<1> QED
  BY <1>1, <1>2, NothingHeld DEF PeakInv

LEMMA OthersKeepPeaks ==
  ASSUME PeakInv,
         \/ Wall!NotAWall \/ Wall!BadReading \/ Wall!GoodReading \/ Wall!TakeIndex \/ Wall!Store
         \/ Wall!AddToSum \/ Wall!Count
  PROVE  PeakInv'
<1>1. UNCHANGED <<m_wTOFMaxSum, m_wTOFMinSum, reported, sums, lastSums, init>>
  BY DEF Wall!NotAWall, Wall!BadReading, Wall!GoodReading, Wall!TakeIndex, Wall!Store,
     Wall!AddToSum, Wall!Count, Wall!peaks, Wall!history
<1>2. undisturbed' => undisturbed
  BY DEF Wall!NotAWall, Wall!BadReading, Wall!GoodReading, Wall!TakeIndex, Wall!Store,
     Wall!AddToSum, Wall!Count, Wall!history, Wall!StartReading
<1> QED
  BY <1>1, <1>2 DEF PeakInv

LEMMA ParamsKeepPeaks ==
  ASSUME PeakInv, Wall!InitClear \/ Wall!InitStore
  PROVE  PeakInv'
<1>1. CASE Wall!InitClear
  <2>1. init' \in WallParams
    BY <1>1 DEF Wall!InitClear
  <2>2. init' # Wall!None
    BY <2>1, WordsAre DEF Wall!None
  <2> QED
    BY <2>2 DEF PeakInv
<1>2. CASE Wall!InitStore
  BY <1>2, NothingHeld DEF Wall!InitStore, PeakInv
<1> QED
  BY <1>1, <1>2

WallInv == WallTypes /\ SettledInv /\ PeakInv

LEMMA WallKept ==
  ASSUME WallInv, [Wall!Next]_(Wall!vars)
  PROVE  WallInv'
<1>1. CASE Wall!NotAWall \/ Wall!BadReading \/ Wall!GoodReading
  BY <1>1, ReadingsTyped, ReadingsSettled, OthersKeepPeaks DEF WallInv
<1>2. CASE Wall!TakeIndex
  BY <1>2, CellTyped, IndexSettled, OthersKeepPeaks DEF WallInv
<1>3. CASE Wall!Store
  BY <1>3, CellTyped, StoreSettled, OthersKeepPeaks DEF WallInv
<1>4. CASE Wall!AddToSum
  BY <1>4, SumTyped, SumSettled, OthersKeepPeaks DEF WallInv
<1>5. CASE Wall!HoldPeaks
  BY <1>5, SumTyped, EndSettled, HoldKeeps DEF WallInv
<1>6. CASE Wall!Count
  BY <1>6, CountTyped, EndSettled, OthersKeepPeaks DEF WallInv
<1>7. CASE Wall!Report
  BY <1>7, CountTyped, EndSettled, ReportKeeps DEF WallInv
<1>8. CASE Wall!InitClear \/ Wall!InitStore
  BY <1>8, ParamsTyped, ParamsSettled, ParamsKeepPeaks DEF WallInv
<1>9. CASE UNCHANGED Wall!vars
  <2>1. UNCHANGED <<NxFifo, m_bInputCnt, at, init, m_wTOFMaxSum, m_wTOFMinSum, m_wBadInARow, wWall,
                    wOldWall, i, lastGood, undisturbed, sums, lastSums, reported>>
    BY <1>9 DEF Wall!vars, Wall!peaks, Wall!call, Wall!bad, Wall!history
  <2>2. WallTypes'
    BY <2>1 DEF WallInv, WallTypes, FifoTypes, CallTypes
  <2>3. SettledInv' /\ PeakInv'
    BY <2>1 DEF WallInv, SettledInv, PeakInv
  <2> QED
    BY <2>2, <2>3 DEF WallInv
<1> QED
  BY <1>1, <1>2, <1>3, <1>4, <1>5, <1>6, <1>7, <1>8, <1>9
     DEF Wall!Next, Wall!InputWFifo, Wall!AscanInputDone, Wall!WFifoInit

LEMMA WallMeans == WallInv => Wall!TypeOK /\ Wall!SumIsRight /\ Wall!ReportsPeaks
<1> SUFFICES ASSUME WallInv PROVE Wall!TypeOK /\ Wall!SumIsRight /\ Wall!ReportsPeaks
  OBVIOUS
<1>1. Wall!TypeOK
  <2>1. /\ NxFifo.cell \in [0 .. WallDepth - 1 -> 0 .. WordMax] /\ NxFifo.inPt \in 0 .. MaxNx - 1
        /\ NxFifo.nx \in 0 .. MaxNx /\ NxFifo.good \in 0 .. WallAscans
    BY FifoIs DEF WallInv, WallTypes, FifoTypes
  <2> QED
    BY <2>1 DEF WallInv, WallTypes, FifoTypes, CallTypes, Wall!TypeOK
<1>2. Wall!Idle /\ undisturbed =>
        /\ NxFifo.sum = CellsTotal(NxFifo.cell)
        /\ NxFifo.sum = Window(lastGood, NxFifo.nx)
  BY DEF WallInv, SettledInv, WallSettled, Wall!Idle
<1>3. Wall!SumIsRight
  BY <1>2 DEF Wall!SumIsRight, Wall!SumOfCells, Wall!SumOfLastNx, CellsTotal, Window
<1>4. Wall!ReportsPeaks
  <2> SUFFICES ASSUME init = Wall!None, undisturbed, lastSums # Wall!None,
                      lastSums.all \subseteq 0 .. WordMax
               PROVE  /\ reported.max = Greatest(lastSums.all)
                      /\ reported.min = Least(lastSums.whole)
    BY DEF Wall!ReportsPeaks, Greatest, Least
  <2> QED
    BY DEF WallInv, PeakInv, Held
<1> QED
  BY <1>1, <1>3, <1>4

\* For FIFOs, readings, parameters and intervals of any size: the sum the wall filter keeps
\* by differences is that of the last Nx good readings, and what it reports of an interval
\* are the extremes of its sums (CvChannel::InputWFifo, AscanInputDone and WFifoInit).
THEOREM WallStaysRight == Wall!Spec => [](Wall!TypeOK /\ Wall!SumIsRight /\ Wall!ReportsPeaks)
<1>1. Wall!Init => WallInv
  BY WallStartsTyped, WallStartsSettled, WallStartsHeld DEF WallInv
<1>2. WallInv /\ [Wall!Next]_(Wall!vars) => WallInv'
  BY WallKept
<1> QED
  BY <1>1, <1>2, WallMeans, PTL DEF Wall!Spec

\* The run that exercises the parts, one at a time, does with the wall filter what
\* WallFilter does.
LEMMA PartsWall == MCSpec => Wall!Spec
<1>1. MCInit => Wall!Init
  BY DEF MCInit
<1>2. ASSUME [MCNext]_<<part, data, others>> PROVE [Wall!Next]_(Wall!vars)
  <2>1. UNCHANGED data => UNCHANGED wall
    BY DEF data
  <2>2. Filtering => Wall!Next \/ UNCHANGED wall
    BY DEF Filtering
  <2>3. Assembling => UNCHANGED wall
    BY DEF Assembling
  <2>4. MCNext => Filtering \/ Assembling \/ UNCHANGED data
    BY DEF MCNext
  <2>5. UNCHANGED wall => UNCHANGED Wall!vars
    BY DEF wall, Wall!vars, Wall!peaks, Wall!call, Wall!bad, Wall!history
  <2> QED
    BY <1>2, <2>1, <2>2, <2>3, <2>4, <2>5
<1> QED
  BY <1>1, <1>2, PTL DEF MCSpec, Wall!Spec

\* The same of the run.
THEOREM PartsWallIsRight == MCSpec => []WallIsRight
<1>1. Wall!SumIsRight /\ Wall!ReportsPeaks => WallIsRight
  BY DEF WallIsRight
<1> QED
  BY <1>1, PartsWall, WallStaysRight, PTL

-----------------------------------------------------------------------------
(* The flaw filter, for a FIFO of any depth, and any amplitudes and         *)
(* parameters.                                                             *)

NcFifos == [cell : [0 .. FlawDepth - 1 -> 0 .. 255], inPt : 0 .. FlawDepth - 1, nc : 0 .. FlawDepth,
          thold : 2 .. 255, mod : 0 .. FlawDepth, max : 0 .. 255, final : 0 .. 255]

FlawTypes ==
  /\ NcFifo \in NcFifos /\ NcFifo.nc <= NcFifo.mod
  /\ NcFifo.mod > 0 => NcFifo.inPt < NcFifo.mod
  /\ NcFifo.cell \in [0 .. FlawDepth - 1 -> Amps \cup {0}]
  /\ last \in Seq(Amps) /\ Len(last) <= FlawDepth /\ called \in BOOLEAN

FlawInv ==
  FlawTypes /\ HoldsLast(NcFifo.cell, NcFifo.inPt, NcFifo.mod, last) /\ Nc!FlawsAreRight


LEMMA AmpsAre ==
  /\ FlawDepth \in Nat /\ FlawDepth >= 1 /\ \A a \in Amps : a \in 0 .. 255
  /\ \A p \in FlawParams \cup {FlawDefault} :
       p.nc \in 0 .. 255 /\ p.thld \in 0 .. 255 /\ p.mod \in 0 .. 255
BY PartsAssumption DEF Nc!Parameters

LEMMA Largest ==
  ASSUME NEW S, S \subseteq 0 .. 255, S # {}
  PROVE  /\ Nc!Max(S) \in S
         /\ \A x \in S : Nc!Max(S) >= x
<1>1. 255 \in Nat
  OBVIOUS
<1>2. \E x \in S : \A y \in S : x >= y
  BY <1>1, Extremes
<1> QED
  BY <1>2 DEF Nc!Max

\* What FifoInit makes of any parameters.
LEMMA Corrected ==
  ASSUME NEW p \in FlawParams \cup {FlawDefault}, NEW f, f = Nc!WithParams(Nc!Cleared, p)
  PROVE  /\ f \in NcFifos /\ f.nc <= f.mod /\ (f.mod > 0 => f.inPt < f.mod)
         /\ f.cell = [c \in 0 .. FlawDepth - 1 |-> 0] /\ f.final = 0
<1> USE AmpsAre
<1>1. p.nc \in 0 .. 255 /\ p.thld \in 0 .. 255 /\ p.mod \in 0 .. 255
  OBVIOUS
<1>2. PICK m \in 0 .. 255 : m = IF p.mod < p.nc THEN p.nc ELSE p.mod
  BY <1>1
<1>3. /\ Nc!AtMostDepth(p.nc) \in 0 .. FlawDepth /\ Nc!AtMostDepth(m) \in 0 .. FlawDepth
      /\ Nc!AtMostDepth(p.nc) <= Nc!AtMostDepth(m)
  BY <1>1, <1>2 DEF Nc!AtMostDepth
<1>4. PICK t \in 2 .. 255 : t = IF p.thld < 3 THEN 2 ELSE p.thld
  BY <1>1
<1>5. f = [cell |-> [c \in 0 .. FlawDepth - 1 |-> 0], inPt |-> 0,
           nc |-> Nc!AtMostDepth(p.nc), thold |-> t, mod |-> Nc!AtMostDepth(m),
           max |-> 0, final |-> 0]
  BY <1>2, <1>4 DEF Nc!WithParams, Nc!Cleared
<1> QED
  BY <1>3, <1>5 DEF NcFifos

LEMMA NewFlawFifo ==
  ASSUME NEW p \in FlawParams \cup {FlawDefault}, NEW f, f = Nc!WithParams(Nc!Cleared, p)
  PROVE  /\ f \in NcFifos /\ f.nc <= f.mod /\ (f.mod > 0 => f.inPt < f.mod)
         /\ f.cell \in [0 .. FlawDepth - 1 -> Amps \cup {0}]
         /\ HoldsLast(f.cell, f.inPt, f.mod, << >>)
         /\ ~(f.final >= f.thold)
         /\ << >> \in Seq(Amps) /\ Len(<< >>) <= FlawDepth
<1>1. /\ f \in NcFifos /\ f.nc <= f.mod /\ (f.mod > 0 => f.inPt < f.mod)
      /\ f.cell = [c \in 0 .. FlawDepth - 1 |-> 0] /\ f.final = 0
  BY Corrected
<1>2. f.cell \in [0 .. FlawDepth - 1 -> Amps \cup {0}]
  BY <1>1
<1>3. HoldsLast(f.cell, f.inPt, f.mod, << >>)
  <2>1. ASSUME NEW c \in 0 .. f.mod - 1
        PROVE  f.cell[c] = 0 /\ ~(Age(f.inPt, f.mod, c) < 0)
    BY <1>1, <2>1, AmpsAre DEF Age, NcFifos
  <2> QED
    BY <2>1 DEF HoldsLast
<1>4. ~(f.final >= f.thold)
  <2>1. PICK x, y : x = f.thold /\ y = f.final
    OBVIOUS
  <2>2. x \in 2 .. 255 /\ y = 0
    BY <1>1, <2>1 DEF NcFifos
  <2>3. ~(y >= x)
    BY <2>2
  <2> QED
    BY <2>1, <2>3
<1>5. << >> \in Seq(Amps) /\ Len(<< >>) = 0
  OBVIOUS
<1>6. Len(<< >>) <= FlawDepth
  BY <1>5, AmpsAre
<1> QED
  BY <1>1, <1>2, <1>3, <1>4, <1>5, <1>6

LEMMA FlawStarts == Nc!Init => FlawInv
<1> SUFFICES ASSUME Nc!Init PROVE FlawInv
  OBVIOUS
<1>1. PICK p \in FlawParams \cup {FlawDefault} : NcFifo = Nc!WithParams(Nc!Cleared, p)
  BY DEF Nc!Init
<1>2. last = << >> /\ called = FALSE /\ called \in BOOLEAN
  BY DEF Nc!Init
<1> QED
  BY <1>1, <1>2, NewFlawFifo
     DEF FlawInv, FlawTypes, Nc!FlawsAreRight, Nc!CallsFlaws, Nc!PeakIsOfFlaw

LEMMA InitKeeps ==
  ASSUME Nc!FifoInit
  PROVE  FlawInv'
<1>1. PICK p \in FlawParams \cup {FlawDefault} : NcFifo' = Nc!WithParams(Nc!Cleared, p)
  BY DEF Nc!FifoInit
<1>2. last' = << >> /\ called' = FALSE /\ called' \in BOOLEAN
  BY DEF Nc!FifoInit
<1> QED
  BY <1>1, <1>2, NewFlawFifo
     DEF FlawInv, FlawTypes, Nc!FlawsAreRight, Nc!CallsFlaws, Nc!PeakIsOfFlaw

\* The peak for the cells in use.
Used(f) == {c \in 0 .. FlawDepth - 1 : c < f.mod}
Hits(f) == {c \in Used(f) : f.cell[c] >= f.thold}
Top(f) == Nc!Max({0} \cup {f.cell[c] : c \in Used(f)})

\* NcFilter counts as we do.
LEMMA SameCount ==
  ASSUME NEW S
  PROVE  Nc!Cardinality(S) = Cardinality(S)
BY DEF Nc!Cardinality, Cardinality

LEMMA JudgedIs ==
  ASSUME NEW f
  PROVE  Nc!Judged(f) = IF Cardinality(Hits(f)) >= f.nc THEN Top(f)
                     ELSE IF Top(f) >= f.thold \/ f.thold - Top(f) < 3 THEN (f.thold * 4) \div 5
                     ELSE Top(f)
BY SameCount DEF Nc!Judged, Used, Hits, Top

LEMMA TopIs ==
  ASSUME NEW f \in NcFifos
  PROVE  /\ Top(f) \in 0 .. 255
         /\ Top(f) = 0 \/ \E c \in Used(f) : Top(f) = f.cell[c]
         /\ \A c \in Used(f) : f.cell[c] <= Top(f)
<1>1. PICK S : S = {0} \cup {f.cell[c] : c \in Used(f)}
  OBVIOUS
<1>2. S \subseteq 0 .. 255 /\ S # {}
  <2>1. f.cell \in [0 .. FlawDepth - 1 -> 0 .. 255] /\ Used(f) \subseteq 0 .. FlawDepth - 1
    BY DEF Used, NcFifos
  <2>2. ASSUME NEW c \in Used(f) PROVE f.cell[c] \in 0 .. 255
    BY <2>1
  <2> QED
    BY <1>1, <2>2
<1>3. Nc!Max(S) \in S /\ \A x \in S : Nc!Max(S) >= x
  BY <1>2, Largest
<1> QED
  BY <1>1, <1>2, <1>3 DEF Top

\* A peak reaches the threshold when Nc cells do, and is then the largest of them.
LEMMA Judgement ==
  ASSUME NEW f \in NcFifos, f.nc > 0
  PROVE  /\ Nc!Judged(f) \in 0 .. 255
         /\ Nc!Judged(f) >= f.thold <=> Cardinality(Hits(f)) >= f.nc
         /\ Cardinality(Hits(f)) >= f.nc => \E c \in Hits(f) : f.cell[c] = Nc!Judged(f)
<1>1. /\ f.thold \in 2 .. 255 /\ f.nc \in Nat /\ f.cell \in [0 .. FlawDepth - 1 -> 0 .. 255]
  BY DEF NcFifos
<1>2. PICK t \in 0 .. 255 : t = Top(f)
  BY TopIs
<1>3. IsFiniteSet(Hits(f)) /\ Cardinality(Hits(f)) \in Nat
  <2>1. IsFiniteSet(0 .. FlawDepth - 1)
    BY AmpsAre, FS_Interval
  <2>2. Hits(f) \subseteq 0 .. FlawDepth - 1
    BY DEF Hits, Used
  <2> QED
    BY <2>1, <2>2, FS_Subset, FS_CardinalityType
<1>4. CASE Cardinality(Hits(f)) >= f.nc
  <2>1. Hits(f) # {}
    BY <1>1, <1>3, <1>4, FS_EmptySet
  <2>2. PICK c \in Used(f) : f.cell[c] >= f.thold
    BY <2>1 DEF Hits
  <2>3. t >= f.thold
    <3>1. c \in 0 .. FlawDepth - 1
      BY DEF Used
    <3>2. f.cell[c] <= t /\ f.cell[c] \in 0 .. 255
      BY <1>1, <1>2, <3>1, TopIs
    <3>3. PICK x, y : x = f.cell[c] /\ y = f.thold
      OBVIOUS
    <3>4. x \in 0 .. 255 /\ y \in 2 .. 255 /\ x >= y /\ x <= t
      BY <1>1, <2>2, <3>2, <3>3
    <3>5. t >= y
      BY <3>4
    <3> QED
      BY <3>3, <3>5
  <2>4. PICK d \in Used(f) : t = f.cell[d]
    <3>2. PICK y : y = f.thold
      OBVIOUS
    <3>3. y \in 2 .. 255 /\ t >= y
      BY <1>1, <2>3, <3>2
    <3>1. t # 0
      BY <3>3
    <3> QED
      BY <1>2, <3>1, TopIs
  <2>5. d \in Hits(f)
    BY <2>3, <2>4 DEF Hits
  <2>6. Nc!Judged(f) = t
    BY <1>2, <1>4, JudgedIs
  <2> QED
    BY <1>4, <2>3, <2>4, <2>5, <2>6
<1>5. CASE ~(Cardinality(Hits(f)) >= f.nc)
  <2>1. Nc!Judged(f) = IF t >= f.thold \/ f.thold - t < 3 THEN (f.thold * 4) \div 5 ELSE t
    BY <1>2, <1>5, JudgedIs
  <2>2. PICK h \in 2 .. 255 : h = f.thold
    BY <1>1
  <2>3. PICK q \in Int : q = (h * 4) \div 5
    OBVIOUS
  <2>4. q \in 0 .. 255 /\ q < h
    BY <2>3
  <2>5. PICK j \in 0 .. 255 : j = Nc!Judged(f) /\ j < h
    BY <1>2, <2>1, <2>2, <2>3, <2>4
  <2>6. ~(j >= h)
    BY <2>5
  <2> QED
    BY <1>5, <2>2, <2>5, <2>6
<1> QED
  BY <1>4, <1>5

\* As many of the last bMod readings reach the threshold as cells do.
Flaws(f, readings) ==
  {k \in DOMAIN readings : k > Len(readings) - f.mod /\ readings[k] >= f.thold}

LEMMA HitsAreFlaws ==
  ASSUME NEW f \in NcFifos, f.mod > 0, f.inPt < f.mod,
         NEW readings \in Seq(Amps), HoldsLast(f.cell, f.inPt, f.mod, readings)
  PROVE  /\ Cardinality(Hits(f)) = Cardinality(Flaws(f, readings))
         /\ \A c \in Hits(f) : \E k \in Flaws(f, readings) : readings[k] = f.cell[c]
<1> USE AmpsAre
<1>1. /\ f.mod \in 1 .. FlawDepth /\ f.inPt \in 0 .. f.mod - 1 /\ f.thold \in 2 .. 255
      /\ Used(f) = 0 .. f.mod - 1
  BY DEF NcFifos, Used
<1>2. PICK n \in Nat : n = Len(readings)
  OBVIOUS
<1>3. DOMAIN readings = 1 .. n /\ \A k \in 1 .. n : readings[k] \in 0 .. 255
  BY <1>2
<1>0. f.cell \in [0 .. FlawDepth - 1 -> 0 .. 255]
  BY DEF NcFifos
<1>4. PICK m, r \in Nat : m = f.mod /\ r = f.inPt
  BY <1>1
<1>5. ASSUME NEW c \in 0 .. m - 1
      PROVE  /\ Age(f.inPt, f.mod, c) = (IF c < r THEN r - 1 - c ELSE (r - 1 - c) + m)
             /\ Age(f.inPt, f.mod, c) \in 0 .. m - 1
  <2>1. r \in 0 .. m - 1 /\ Age(f.inPt, f.mod, c) = Age(r, m, c)
    BY <1>1, <1>4
  <2>2. Age(r, m, c) \in 0 .. m - 1
    BY <2>1, OneOlder
  <2>3. Age(r, m, c) = IF c < r THEN r - 1 - c ELSE (r - 1 - c) + m
    BY DEF Age
  <2> QED
    BY <2>1, <2>2, <2>3
<1>6. PICK g : g = [c \in Hits(f) |-> n - Age(f.inPt, f.mod, c)]
  OBVIOUS
<1>7. ASSUME NEW c \in Hits(f)
      PROVE  c \in 0 .. m - 1 /\ g[c] = n - Age(f.inPt, f.mod, c) /\ g[c] \in Flaws(f, readings)
             /\ readings[g[c]] = f.cell[c]
  <2>1. c \in 0 .. m - 1 /\ f.cell[c] >= f.thold
    BY <1>1, <1>4 DEF Hits
  <2>2. f.cell[c] = IF Age(f.inPt, f.mod, c) < n THEN readings[n - Age(f.inPt, f.mod, c)] ELSE 0
    BY <1>2, <1>4, <2>1 DEF HoldsLast
  <2>3. Age(f.inPt, f.mod, c) < n /\ f.cell[c] = readings[n - Age(f.inPt, f.mod, c)]
    <3>1. f.cell[c] # 0
      <4>1. PICK y : y = f.thold
        OBVIOUS
      <4>2. y \in 2 .. 255 /\ f.cell[c] >= y
        BY <1>1, <2>1, <4>1
      <4> QED
        BY <4>2
    <3> QED
      BY <2>2, <3>1
  <2>4. n - Age(f.inPt, f.mod, c) \in 1 .. n /\ n - Age(f.inPt, f.mod, c) > n - m
    BY <1>5, <2>1, <2>3
  <2> QED
    BY <1>2, <1>3, <1>4, <1>6, <2>1, <2>3, <2>4 DEF Flaws
<1>8. g \in Bijection(Hits(f), Flaws(f, readings))
  <2>1. g \in [Hits(f) -> Flaws(f, readings)]
    BY <1>6, <1>7
  <2>2. ASSUME NEW c \in Hits(f), NEW d \in Hits(f), g[c] = g[d] PROVE c = d
    <3>1. /\ c \in 0 .. m - 1 /\ d \in 0 .. m - 1
          /\ n - Age(f.inPt, f.mod, c) = n - Age(f.inPt, f.mod, d)
      BY <1>7, <2>2
    <3>2. PICK a, b \in Int : a = Age(f.inPt, f.mod, c) /\ b = Age(f.inPt, f.mod, d)
      BY <1>5, <3>1
    <3>3. a = b
      BY <3>1, <3>2
    <3>4. r \in 0 .. m - 1
      BY <1>1, <1>4
    <3>5. /\ c < r => a = r - 1 - c
          /\ ~(c < r) => a = (r - 1 - c) + m
      BY <1>5, <3>1, <3>2
    <3>6. /\ d < r => b = r - 1 - d
          /\ ~(d < r) => b = (r - 1 - d) + m
      BY <1>5, <3>1, <3>2
    <3> QED
      <4>0. /\ c \in Nat /\ d \in Nat /\ r \in Nat /\ m \in Nat
            /\ c < m /\ d < m
        BY <3>1, <3>4
      <4>1. CASE c < r
        BY <3>3, <3>5, <3>6, <4>0, <4>1
      <4>2. CASE ~(c < r)
        BY <3>3, <3>5, <3>6, <4>0, <4>2
      <4> QED
        BY <4>1, <4>2
  <2>3. ASSUME NEW k \in Flaws(f, readings) PROVE \E c \in Hits(f) : g[c] = k
    <3>1. k \in 1 .. n /\ k > n - m /\ readings[k] >= f.thold
      BY <1>2, <1>3, <1>4 DEF Flaws
    <3>7. PICK a \in Int : a = n - k
      BY <3>1
    <3>8. a \in 0 .. m - 1 /\ r \in 0 .. m - 1
      BY <1>1, <1>4, <3>1, <3>7
    <3>2. PICK c \in 0 .. m - 1 : c = IF a < r THEN r - 1 - a ELSE (r - 1 - a) + m
      <4>1. CASE a < r
        <5>1. r - 1 - a \in 0 .. m - 1
          BY <3>8, <4>1
        <5> QED
          BY <4>1, <5>1
      <4>2. CASE ~(a < r)
        <5>1. (r - 1 - a) + m \in 0 .. m - 1
          BY <3>8, <4>2
        <5> QED
          BY <4>2, <5>1
      <4> QED
        BY <4>1, <4>2
    <3>3. Age(f.inPt, f.mod, c) = n - k
      <4>1. Age(f.inPt, f.mod, c) = IF c < r THEN r - 1 - c ELSE (r - 1 - c) + m
        BY <1>5
      <4>2. (IF c < r THEN r - 1 - c ELSE (r - 1 - c) + m) = a
        BY <3>2, <3>8
      <4> QED
        BY <3>7, <4>1, <4>2
    <3>4. f.cell[c] = readings[k]
      <4>1. f.cell[c] = IF Age(f.inPt, f.mod, c) < n THEN readings[n - Age(f.inPt, f.mod, c)] ELSE 0
        BY <1>2, <1>4, <3>2 DEF HoldsLast
      <4>2. n - k < n /\ n - (n - k) = k
        BY <3>1
      <4> QED
        BY <3>3, <4>1, <4>2
    <3>5. c \in Hits(f)
      BY <1>1, <1>4, <3>1, <3>2, <3>4 DEF Hits
    <3>6. g[c] = k
      BY <1>6, <3>1, <3>3, <3>5
    <3> QED
      BY <3>5, <3>6
  <2> QED
    BY <2>1, <2>2, <2>3, Fun_IsBij
<1>9. IsFiniteSet(Hits(f))
  <2>1. IsFiniteSet(0 .. FlawDepth - 1)
    BY FS_Interval
  <2>2. Hits(f) \subseteq 0 .. FlawDepth - 1
    BY DEF Hits, Used
  <2> QED
    BY <2>1, <2>2, FS_Subset
<1>10. ExistsBijection(Hits(f), Flaws(f, readings))
  BY <1>8 DEF ExistsBijection
<1>11. Cardinality(Hits(f)) = Cardinality(Flaws(f, readings))
  BY <1>9, <1>10, FS_Bijection
<1> QED
  BY <1>7, <1>11

LEMMA StoredIs ==
  ASSUME NEW f \in NcFifos, f.mod > 0, f.inPt < f.mod, NEW amp \in Amps,
         NEW g, g = Nc!Stored(f, amp)
  PROVE  /\ g \in NcFifos /\ g.inPt < g.mod
         /\ g.nc = f.nc /\ g.thold = f.thold /\ g.mod = f.mod /\ g.final = f.final
         /\ g.cell = [f.cell EXCEPT ![f.inPt] = amp]
         /\ g.inPt = After(f.inPt, f.mod)
<1>1. PICK m, r : m = f.mod /\ r = f.inPt
  OBVIOUS
<1>2. m \in 1 .. FlawDepth /\ r \in 0 .. m - 1 /\ amp \in 0 .. 255
  BY <1>1, AmpsAre DEF NcFifos
<1>3. PICK q \in 0 .. m - 1 : q = IF r + 1 >= m THEN 0 ELSE r + 1
  BY <1>2
<1>4. PICK cells : cells = [f.cell EXCEPT ![r] = amp]
  OBVIOUS
<1>5. cells \in [0 .. FlawDepth - 1 -> 0 .. 255]
  BY <1>2, <1>4 DEF NcFifos
<1>6. g = [f EXCEPT !.cell = cells, !.inPt = q]
  BY <1>1, <1>3, <1>4 DEF Nc!Stored, NcFifos
<1>7. g \in NcFifos
  <2>1. g = [cell |-> cells, inPt |-> q, nc |-> f.nc, thold |-> f.thold, mod |-> f.mod,
             max |-> f.max, final |-> f.final]
    BY <1>6 DEF NcFifos
  <2>2. q \in 0 .. FlawDepth - 1
    BY <1>2, <1>3, AmpsAre
  <2>3. /\ f.nc \in 0 .. FlawDepth /\ f.thold \in 2 .. 255 /\ f.mod \in 0 .. FlawDepth
        /\ f.max \in 0 .. 255 /\ f.final \in 0 .. 255
    BY DEF NcFifos
  <2> QED
    BY <1>5, <2>1, <2>2, <2>3 DEF NcFifos
<1>8. /\ g.nc = f.nc /\ g.thold = f.thold /\ g.mod = f.mod /\ g.final = f.final
      /\ g.cell = cells /\ g.inPt = q
  BY <1>6 DEF NcFifos
<1> QED
  BY <1>1, <1>2, <1>3, <1>4, <1>7, <1>8 DEF After

LEMMA HearingHolds ==
  ASSUME NEW f \in NcFifos, f.mod > 0, f.inPt < f.mod, NEW amp \in Amps,
         NEW g, g = Nc!Stored(f, amp),
         NEW readings \in Seq(Amps), Len(readings) <= FlawDepth,
         HoldsLast(f.cell, f.inPt, f.mod, readings)
  PROVE  HoldsLast(g.cell, g.inPt, g.mod, Heard(readings, amp, FlawDepth))
<1>1. PICK m, r : m = f.mod /\ r = f.inPt
  OBVIOUS
<1>2. m \in 1 .. FlawDepth /\ m <= FlawDepth /\ r \in 0 .. m - 1 /\ FlawDepth \in Nat
  BY <1>1, AmpsAre DEF NcFifos
<1>3. /\ g.mod = m /\ g.cell = [f.cell EXCEPT ![r] = amp] /\ g.inPt = After(r, m)
  BY <1>1, StoredIs
<1>4. f.cell \in [0 .. FlawDepth - 1 -> 0 .. 255]
  BY DEF NcFifos
<1>5. HoldsLast([f.cell EXCEPT ![r] = amp], After(r, m), m, Heard(readings, amp, FlawDepth))
  BY <1>1, <1>2, <1>4, HoldsOn
<1> QED
  BY <1>3, <1>5

LEMMA HeldIs ==
  ASSUME NEW g \in NcFifos, g.nc > 0, NEW h, h = Nc!PeakHeld(g)
  PROVE  /\ h \in NcFifos /\ h.max = Nc!Judged(g)
         /\ h.nc = g.nc /\ h.thold = g.thold /\ h.mod = g.mod /\ h.cell = g.cell /\ h.inPt = g.inPt
         /\ h.final >= h.thold <=> g.final >= g.thold \/ Nc!Judged(g) >= g.thold
<1>1. PICK j \in 0 .. 255 : j = Nc!Judged(g)
  BY Judgement
<1>2. PICK x, t : x = g.final /\ t = g.thold
  OBVIOUS
<1>3. x \in 0 .. 255 /\ t \in 2 .. 255
  BY <1>2 DEF NcFifos
<1>4. PICK y \in 0 .. 255 : y = IF x < j THEN j ELSE x
  BY <1>1, <1>3
<1>5. h = [g EXCEPT !.max = j, !.final = y]
  BY <1>1, <1>2, <1>4 DEF Nc!PeakHeld, NcFifos
<1>6. h \in NcFifos
  <2>1. h = [cell |-> g.cell, inPt |-> g.inPt, nc |-> g.nc, thold |-> g.thold, mod |-> g.mod,
             max |-> j, final |-> y]
    BY <1>5 DEF NcFifos
  <2>2. /\ g.nc \in 0 .. FlawDepth /\ g.thold \in 2 .. 255 /\ g.mod \in 0 .. FlawDepth
        /\ g.cell \in [0 .. FlawDepth - 1 -> 0 .. 255] /\ g.inPt \in 0 .. FlawDepth - 1
    BY DEF NcFifos
  <2> QED
    BY <1>1, <1>4, <2>1, <2>2 DEF NcFifos
<1>7. /\ h.max = j /\ h.final = y /\ h.nc = g.nc /\ h.thold = g.thold /\ h.mod = g.mod
      /\ h.cell = g.cell /\ h.inPt = g.inPt
  BY <1>5 DEF NcFifos
<1>8. y >= t <=> x >= t \/ j >= t
  BY <1>3, <1>4
<1> QED
  BY <1>1, <1>2, <1>6, <1>7, <1>8

LEMMA HearsRight ==
  ASSUME FlawInv, Nc!InputFifo
  PROVE  FlawInv'
<1>1. /\ NcFifo \in NcFifos /\ NcFifo.nc > 0 /\ NcFifo.mod > 0 /\ NcFifo.inPt < NcFifo.mod
      /\ last \in Seq(Amps) /\ Len(last) <= FlawDepth
      /\ HoldsLast(NcFifo.cell, NcFifo.inPt, NcFifo.mod, last)
      /\ NcFifo.cell \in [0 .. FlawDepth - 1 -> Amps \cup {0}] /\ called \in BOOLEAN
  <2>1. PICK x, y : x = NcFifo.nc /\ y = NcFifo.mod
    OBVIOUS
  <2>2. x \in Nat /\ y \in Nat /\ x <= y /\ x # 0
    BY <2>1, AmpsAre DEF FlawInv, FlawTypes, NcFifos, Nc!InputFifo
  <2>3. x > 0 /\ y > 0
    BY <2>2
  <2> QED
    BY <2>1, <2>3 DEF FlawInv, FlawTypes
<1>2. PICK amp \in Amps : /\ NcFifo' = Nc!PeakHeld(Nc!Stored(NcFifo, amp))
                          /\ last' = Heard(last, amp, FlawDepth)
  BY DEF Nc!InputFifo, Heard
<1>3. PICK f, g, h, more : /\ f = NcFifo /\ g = Nc!Stored(f, amp) /\ h = Nc!PeakHeld(g)
                           /\ more = Heard(last, amp, FlawDepth)
  OBVIOUS
<1>4. /\ g \in NcFifos /\ g.inPt < g.mod
      /\ g.nc = f.nc /\ g.thold = f.thold /\ g.mod = f.mod /\ g.final = f.final
      /\ g.cell = [f.cell EXCEPT ![f.inPt] = amp]
  BY <1>1, <1>3, StoredIs
<1>5. g.nc > 0 /\ g.mod > 0
  BY <1>1, <1>3, <1>4
<1>6. /\ h \in NcFifos /\ h.max = Nc!Judged(g)
      /\ h.nc = g.nc /\ h.thold = g.thold /\ h.mod = g.mod /\ h.cell = g.cell /\ h.inPt = g.inPt
      /\ h.final >= h.thold <=> g.final >= g.thold \/ Nc!Judged(g) >= g.thold
  BY <1>3, <1>4, <1>5, HeldIs
<1>7. NcFifo' = h /\ last' = more
  BY <1>2, <1>3
<1>8. more \in Seq(Amps) /\ Len(more) <= FlawDepth /\ more # << >>
  <2>1. FlawDepth \in Nat /\ FlawDepth >= 1
    BY AmpsAre
  <2>2. more \in Seq(Amps) /\ Later(last, amp, FlawDepth, more)
    BY <1>1, <1>3, <2>1, HeardIs
  <2> QED
    BY <2>1, <2>2 DEF Later
<1>9. HoldsLast(g.cell, g.inPt, g.mod, more)
  BY <1>1, <1>3, HearingHolds
<1>10. HoldsLast(h.cell, h.inPt, h.mod, more)
  BY <1>6, <1>9
<1>11. FlawTypes'
  <2>1. g.cell \in [0 .. FlawDepth - 1 -> Amps \cup {0}]
    BY <1>1, <1>3, <1>4
  <2>2. h.nc <= h.mod
    BY <1>3, <1>4, <1>6 DEF FlawInv, FlawTypes
  <2>3. h.inPt < h.mod
    BY <1>4, <1>6
  <2>4. called' \in BOOLEAN
    BY <1>1 DEF Nc!InputFifo, Nc!Qualified
  <2> QED
    BY <1>6, <1>7, <1>8, <2>1, <2>2, <2>3, <2>4 DEF FlawTypes, NcFifos
<1>12. /\ Nc!Judged(g) >= g.thold <=> Cardinality(Flaws(g, more)) >= g.nc
       /\ Cardinality(Flaws(g, more)) >= g.nc =>
            \E k \in Flaws(g, more) : more[k] = Nc!Judged(g)
  <2>1. /\ Cardinality(Hits(g)) = Cardinality(Flaws(g, more))
        /\ \A c \in Hits(g) : \E k \in Flaws(g, more) : more[k] = g.cell[c]
    BY <1>4, <1>5, <1>8, <1>9, HitsAreFlaws
  <2> QED
    BY <1>4, <1>5, <2>1, Judgement
<1>13. Nc!CallsFlaws'
  <2>1. Flaws(g, more) = {k \in DOMAIN more : /\ k > Len(more) - h.mod
                                              /\ more[k] >= h.thold}
    BY <1>6 DEF Flaws
  <2>2. Nc!Qualified(last)' <=> Cardinality(Flaws(g, more)) >= g.nc
    BY <1>6, <1>7, <2>1, SameCount DEF Nc!Qualified
  <2>3. /\ h.max >= h.thold <=> Nc!Qualified(last)'
        /\ Nc!Qualified(last)' => \E k \in DOMAIN more : k > Len(more) - h.mod /\ more[k] = h.max
    BY <1>6, <1>12, <2>1, <2>2
  <2> QED
    BY <1>7, <2>3 DEF Nc!CallsFlaws
<1>14. Nc!PeakIsOfFlaw'
  <2>1. Flaws(g, more) = {k \in DOMAIN more : /\ k > Len(more) - NcFifo.mod
                                              /\ more[k] >= NcFifo.thold}
    BY <1>3, <1>4 DEF Flaws
  <2>2. called' <=> called \/ Cardinality(Flaws(g, more)) >= g.nc
    BY <1>3, <1>4, <1>7, <2>1, SameCount DEF Nc!InputFifo, Nc!Qualified
  <2>3. g.final >= g.thold <=> called
    BY <1>3, <1>4 DEF FlawInv, Nc!FlawsAreRight, Nc!PeakIsOfFlaw
  <2> QED
    BY <1>6, <1>7, <1>12, <2>2, <2>3 DEF Nc!PeakIsOfFlaw
<1> QED
  BY <1>7, <1>10, <1>11, <1>13, <1>14 DEF FlawInv, Nc!FlawsAreRight

LEMMA ResetKeepsFlaws ==
  ASSUME FlawInv, Nc!ResetGatesAndWalls
  PROVE  FlawInv'
<1>1. PICK f, h : f = NcFifo /\ h = NcFifo'
  OBVIOUS
<1>2. f \in NcFifos /\ h = [f EXCEPT !.final = 0] /\ last' = last /\ called' = FALSE
  BY <1>1 DEF FlawInv, FlawTypes, Nc!ResetGatesAndWalls
<1>3. /\ h \in NcFifos /\ h.final = 0
      /\ h.max = f.max /\ h.nc = f.nc /\ h.thold = f.thold /\ h.mod = f.mod /\ h.cell = f.cell
      /\ h.inPt = f.inPt
  <2>1. h = [cell |-> f.cell, inPt |-> f.inPt, nc |-> f.nc, thold |-> f.thold, mod |-> f.mod,
             max |-> f.max, final |-> 0]
    BY <1>2 DEF NcFifos
  <2>2. /\ f.nc \in 0 .. FlawDepth /\ f.thold \in 2 .. 255 /\ f.mod \in 0 .. FlawDepth
        /\ f.cell \in [0 .. FlawDepth - 1 -> 0 .. 255] /\ f.inPt \in 0 .. FlawDepth - 1
        /\ f.max \in 0 .. 255
    BY <1>2 DEF NcFifos
  <2>3. h \in NcFifos
    BY <2>1, <2>2 DEF NcFifos
  <2> QED
    BY <2>1, <2>3
<1>4. FlawTypes'
  BY <1>1, <1>2, <1>3 DEF FlawInv, FlawTypes
<1>5. HoldsLast(NcFifo'.cell, NcFifo'.inPt, NcFifo'.mod, last')
  BY <1>1, <1>2, <1>3 DEF FlawInv
<1>6. Nc!CallsFlaws'
  BY <1>1, <1>2, <1>3 DEF FlawInv, Nc!FlawsAreRight, Nc!CallsFlaws, Nc!Qualified
<1>7. Nc!PeakIsOfFlaw'
  <2>1. PICK t : t = h.thold
    OBVIOUS
  <2>2. t \in 2 .. 255
    BY <1>3, <2>1 DEF NcFifos
  <2>3. ~(0 >= t)
    BY <2>2
  <2> QED
    BY <1>1, <1>2, <1>3, <2>1, <2>3 DEF Nc!PeakIsOfFlaw
<1> QED
  BY <1>4, <1>5, <1>6, <1>7 DEF FlawInv, Nc!FlawsAreRight

LEMMA FlawSteps ==
  ASSUME FlawInv, [Nc!Next]_(Nc!vars)
  PROVE  FlawInv'
<1>1. CASE Nc!InputFifo
  BY <1>1, HearsRight
<1>2. CASE Nc!ResetGatesAndWalls
  BY <1>2, ResetKeepsFlaws
<1>3. CASE Nc!FifoInit
  BY <1>3, InitKeeps
<1>4. CASE UNCHANGED Nc!vars
  BY <1>4 DEF Nc!vars, FlawInv, FlawTypes, Nc!FlawsAreRight, Nc!CallsFlaws, Nc!PeakIsOfFlaw,
              Nc!Qualified
<1> QED
  BY <1>1, <1>2, <1>3, <1>4 DEF Nc!Next

LEMMA FlawsMean == FlawInv => Nc!TypeOK /\ Nc!FlawsAreRight
<1> SUFFICES ASSUME FlawInv PROVE Nc!TypeOK
  BY DEF FlawInv
<1>1. /\ NcFifo.inPt \in 0 .. FlawDepth - 1 /\ NcFifo.mod \in 0 .. FlawDepth
      /\ NcFifo.max \in 0 .. 255 /\ NcFifo.final \in 0 .. 255
  BY DEF FlawInv, FlawTypes, NcFifos
<1> QED
  BY <1>1 DEF FlawInv, FlawTypes, Nc!TypeOK

\* For a FIFO of any depth, amplitudes and parameters: a flaw is called by the reading after
\* which Nc of the last bMod reach the threshold and by no other, and the peak of an interval
\* tells whether one was (CvChannel::InputFifo, FifoInit and ResetGatesAndWalls).
THEOREM FlawsStayRight == Nc!Spec => [](Nc!TypeOK /\ Nc!FlawsAreRight)
<1>1. FlawInv /\ [Nc!Next]_(Nc!vars) => FlawInv'
  BY FlawSteps
<1> QED
  BY <1>1, FlawStarts, FlawsMean, PTL DEF Nc!Spec

LEMMA PartsFlaws == MCSpec => Nc!Spec
<1>1. MCInit => Nc!Init
  BY DEF MCInit
<1>2. ASSUME [MCNext]_<<part, data, others>> PROVE [Nc!Next]_(Nc!vars)
  <2>1. UNCHANGED data => UNCHANGED flaw
    BY DEF data
  <2>2. Filtering => Nc!Next \/ UNCHANGED flaw
    BY DEF Filtering
  <2>3. Assembling => UNCHANGED flaw
    BY DEF Assembling
  <2>4. MCNext => Filtering \/ Assembling \/ UNCHANGED data
    BY DEF MCNext
  <2>5. UNCHANGED flaw => UNCHANGED Nc!vars
    BY DEF flaw, Nc!vars
  <2> QED
    BY <1>2, <2>1, <2>2, <2>3, <2>4, <2>5
<1> QED
  BY <1>1, <1>2, PTL DEF MCSpec, Nc!Spec

\* The same of the run.
THEOREM PartsFlawsAreRight == MCSpec => []FlawsAreRight
<1>1. Nc!FlawsAreRight => FlawsAreRight
  BY DEF FlawsAreRight
<1> QED
  BY <1>1, PartsFlaws, FlawsStayRight, PTL

=============================================================================
