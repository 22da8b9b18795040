----------------------------- MODULE Pag_proofs -----------------------------
(***************************************************************************)
(* Proofs about the PAP as a client of the PAG, and about the PAG.         *)
(*                                                                         *)
(*  - The receive path of the PAP, for every size of the buffer and of the *)
(*    commands, every number of them and every cut of the stream by TCP.   *)
(*    Although the peek before the loop may flush the buffer in the middle *)
(*    of a command, only whole commands reach the command thread, in       *)
(*    order, and the buffer never fills up; commands that arrive whole all *)
(*    do, so that the path implements PacketChannel.                       *)
(*  - The record of all-wall data, for any number of PAPs; the number by   *)
(*    which the PAG knows a PAP; the commands of the PAG's dialog; and the *)
(*    configuration file.                                                  *)
(***************************************************************************)
EXTENDS ClientReceive, CmdFifo_proofs, MCParts, FiniteSetTheorems, FunctionTheorems,
        NaturalsInduction, WellFoundedInduction

USE FifoAssumption

\* The PAG sends no length that GetPacketSize calls a wrong size: such a
\* command is neither taken nor flushed, so it would stay at m_Out and the
\* bytes behind it would fill m_Mem.  A length above MaxCount loses the sync.
NoWrongSize == \A len \in Sizes : WrongSize(len) => len > MaxCount

-----------------------------------------------------------------------------
(* Any cut of the stream.                                                  *)

Types ==
  /\ sending \in BOOLEAN /\ queued \in BOOLEAN
  /\ pc \in {"idle", "peek", "loop", "post"} /\ cmdPc \in {"wait", "drain"}
  /\ msgs \in Nat
  /\ rcvList \in Seq(Seq(Nat)) /\ processed \in Seq(Seq(Nat))

\* The inductive invariant.  Less than a packet waits when the loop is left,
\* which is what leaves room for the next Receive.
PathInv ==
  /\ Types
  /\ Path(stream, Sizes, {TRUE}, received, fifo, Extracted)
  /\ pc \in {"idle", "post"} => fifo.size < MaxPacket

LEMMA SizesPositive == 0 \notin Sizes
BY PagAssumption

LEMMA InitPathInv == Init => PathInv
<1> SUFFICES ASSUME Init PROVE PathInv
  OBVIOUS
<1>1. Extracted = << >>
  <2>1. << >> \o << >> = << >>
    OBVIOUS
  <2> QED
    BY <2>1 DEF Init, Extracted
<1>2. Types
  <2>1. rcvList \in Seq(Seq(Nat)) /\ processed \in Seq(Seq(Nat)) /\ msgs \in Nat
    BY DEF Init
  <2>2. sending \in BOOLEAN /\ queued \in BOOLEAN
    BY DEF Init
  <2>3. pc \in {"idle", "peek", "loop", "post"} /\ cmdPc \in {"wait", "drain"}
    BY DEF Init
  <2> QED
    BY <2>1, <2>2, <2>3 DEF Types
<1>3. Path(stream, Sizes, {TRUE}, received, fifo, Extracted)
  BY <1>1, PathStarts DEF Init
<1>4. fifo.size < MaxPacket
  BY NewFifoHolds DEF Init
<1> QED
  BY <1>2, <1>3, <1>4 DEF PathInv

LEMMA SendPathInv ==
  ASSUME PathInv, Send
  PROVE  PathInv' /\ OneMore(stream, stream')
<1>1. PICK len \in Sizes :
        stream' = Append(stream, [at |-> Total(stream), len |-> len, sync |-> TRUE])
  BY DEF Send
<1> DEFINE new == [at |-> Total(stream), len |-> len, sync |-> TRUE]
<1>2. stream \in Seq(Packets) /\ Total(stream) \in Nat
  BY PathFacts DEF PathInv
<1>3. len \in Nat
  BY PagAssumption
<1>4. new \in Packets /\ new.at = Total(stream) /\ new.len \in Sizes /\ new.sync \in {TRUE}
  BY <1>2, <1>3 DEF Packets
<1>5. stream' = Append(stream, new)
  BY <1>1
<1> HIDE DEF new
<1>6. Path(stream, Sizes, {TRUE}, received, fifo, Extracted)
  BY DEF PathInv
<1>7. Path(stream', Sizes, {TRUE}, received, fifo, Extracted)
  BY <1>4, <1>5, <1>6, PathSends
<1>8. OneMore(stream, stream')
  <2>1. StreamOf(stream, Sizes, {TRUE})
    BY <1>6 DEF Path
  <2> QED
    BY <1>4, <1>5, <2>1, StreamGrows
<1>9. UNCHANGED <<sending, received, fifo, pc, queued, rcvList, msgs, cmdPc, processed>>
  BY DEF Send, socket, cmdThread
<1>10. Types'
  BY <1>9 DEF PathInv, Types
<1>11. Path(stream, Sizes, {TRUE}, received, fifo, Extracted)'
  BY <1>7, <1>9 DEF Extracted
<1> QED
  BY <1>8, <1>9, <1>10, <1>11 DEF PathInv

LEMMA ReceivePathInv ==
  ASSUME PathInv, Receive
  PROVE  PathInv' /\ received' - fifo'.size = received - fifo.size
<1>1. PICK n \in 1 .. Chunk :
        /\ received + n <= Total(stream)
        /\ fifo' = AddBytes(GetInLoc(Shift(fifo)), received + 1, n)
        /\ received' = received + n
  BY DEF Receive, CutsAt
<1>2. Path(stream, Sizes, {TRUE}, received, fifo, Extracted) /\ fifo.size < MaxPacket
  BY DEF PathInv, Receive
<1>3. Path(stream, Sizes, {TRUE}, received', fifo', Extracted) /\ fifo'.size = fifo.size + n
  <2>1. received' <= Total(stream)
    BY <1>1
  <2> QED
    BY <1>1, <1>2, <2>1, PathReceives
<1>4. /\ UNCHANGED <<stream, sending, rcvList, msgs, cmdPc, processed>>
      /\ pc' = "peek" /\ queued' = FALSE
  BY DEF Receive, pag, cmdThread
<1>5. Types'
  BY <1>4 DEF PathInv, Types
<1>6. Path(stream, Sizes, {TRUE}, received, fifo, Extracted)'
  BY <1>3, <1>4 DEF Extracted
<1>7. received' - fifo'.size = received - fifo.size
  <2>1. received \in Nat /\ fifo.size \in Nat /\ n \in Nat
    BY <1>2, PathFacts
  <2> QED
    BY <1>1, <1>3, <2>1
<1> QED
  BY <1>4, <1>5, <1>6, <1>7 DEF PathInv

\* Lost sync, in the peek or in the loop, and a command too long for
\* GetNextPacket cost what is buffered.
LEMMA FlushPathInv ==
  ASSUME PathInv, PeekFlushes \/ LostSync \/ TooLong
  PROVE  PathInv'
<1>1. /\ fifo' = Flushed(fifo) /\ pc' \in {"loop", "post", "idle"}
      /\ UNCHANGED <<stream, sending, received, queued, rcvList, msgs, cmdPc, processed>>
  BY DEF PeekFlushes, LostSync, TooLong, pag, cmdThread
<1>2. Path(stream, Sizes, {TRUE}, received, fifo', Extracted) /\ fifo'.size = 0
  BY <1>1, PathFlushes DEF PathInv
<1>3. Path(stream, Sizes, {TRUE}, received, fifo, Extracted)'
  BY <1>1, <1>2 DEF Extracted
<1>4. Types'
  BY <1>1 DEF PathInv, Types
<1> QED
  BY <1>2, <1>3, <1>4 DEF PathInv

LEMMA ExtractPathInv ==
  ASSUME PathInv, Extract
  PROVE  /\ PathInv'
         /\ \E n \in ByteCounts(fifo, stream) :
              /\ n <= fifo.size
              /\ fifo'.size = fifo.size - n
              /\ Extracted' = Append(Extracted, BytesAtOut(fifo, n))
<1>1. PICK n \in ByteCounts(fifo, stream) :
        /\ ~LosesSync(fifo, stream, n)
        /\ n <= fifo.size
        /\ rcvList' = Append(rcvList, BytesAtOut(fifo, n))
        /\ fifo' = NextPacket(fifo, n)
  BY DEF Extract
<1> DEFINE b == BytesAtOut(fifo, n)
           y == Append(Extracted, b)
<1>2. fifo.size >= HdrSize /\ Path(stream, Sizes, {TRUE}, received, fifo, Extracted)
  BY DEF PathInv, Extract
<1>3. Path(stream, Sizes, {TRUE}, received, fifo', y) /\ fifo'.size = fifo.size - n
      /\ b \in Seq(Nat)
  <2>1. Path(stream, Sizes, {TRUE}, received, fifo', y)
    BY <1>1, <1>2, SizesPositive, PathExtracts
  <2>2. fifo'.size = fifo.size - n
    BY <1>1 DEF NextPacket
  <2>3. b \in Seq(Nat)
    BY <1>1, <1>2, SizesPositive, PathExtracts
  <2> QED
    BY <2>1, <2>2, <2>3
<1>4. rcvList \in Seq(Seq(Nat)) /\ processed \in Seq(Seq(Nat))
  BY DEF PathInv, Types
<1>5. /\ UNCHANGED <<stream, sending, received, pc, msgs, cmdPc, processed>>
      /\ queued' = TRUE /\ pc = "loop"
  BY DEF Extract, pag, cmdThread
<1> HIDE DEF b
<1>6. rcvList' \in Seq(Seq(Nat)) /\ processed \o Append(rcvList, b) = Append(processed \o rcvList, b)
  BY <1>1, <1>3, <1>4, QueuePut DEF b
<1>7. Extracted' = y
  BY <1>1, <1>5, <1>6 DEF Extracted, b
<1>8. Types'
  BY <1>5, <1>6 DEF PathInv, Types
<1>9. Path(stream, Sizes, {TRUE}, received, fifo, Extracted)'
  BY <1>3, <1>5, <1>7
<1> QED
  BY <1>1, <1>3, <1>5, <1>7, <1>8, <1>9 DEF PathInv, b

\* The command thread takes the command that comes after the last it took.
LEMMA TakePathInv ==
  ASSUME PathInv, TakePacket
  PROVE  /\ PathInv' /\ Extracted' = Extracted
         /\ Len(processed) + 1 \in 1 .. Len(Extracted)
         /\ Head(rcvList) = Extracted[Len(processed) + 1]
<1>1. /\ rcvList # << >> /\ rcvList' = Tail(rcvList)
      /\ processed' = Append(processed, Head(rcvList))
      /\ UNCHANGED <<stream, sending, received, fifo, pc, queued, msgs, cmdPc>>
  BY DEF TakePacket, pag, socket
<1>2. rcvList \in Seq(Seq(Nat)) /\ processed \in Seq(Seq(Nat))
  BY DEF PathInv, Types
<1>3. /\ processed' \in Seq(Seq(Nat)) /\ rcvList' \in Seq(Seq(Nat))
      /\ Extracted' = Extracted
      /\ Len(processed) + 1 \in 1 .. Len(Extracted)
      /\ Extracted[Len(processed) + 1] = Head(rcvList)
  <2>1. processed' \in Seq(Seq(Nat)) /\ rcvList' \in Seq(Seq(Nat))
    BY <1>1, <1>2, QueueTake
  <2>2. Extracted' = Extracted
    BY SMTT(20), <1>1, <1>2, QueueTake DEF Extracted
  <2>3. /\ Len(processed) + 1 \in 1 .. Len(Extracted)
        /\ Extracted[Len(processed) + 1] = Head(rcvList)
    BY <1>1, <1>2, QueueTake DEF Extracted
  <2> QED
    BY <2>1, <2>2, <2>3
<1>4. Types'
  BY <1>1, <1>3 DEF PathInv, Types
<1>5. Path(stream, Sizes, {TRUE}, received, fifo, Extracted)'
  BY <1>1, <1>3 DEF PathInv
<1> QED
  BY <1>1, <1>3, <1>4, <1>5 DEF PathInv

\* The steps that leave the stream, the buffer and the lists alone.  The loop
\* is left only when the next command is not complete.
LEMMA OtherStepsPathInv ==
  ASSUME NoWrongSize, PathInv,
         Vanish \/ PeekKeeps \/ Break \/ Post \/ TakeMessage \/ Drained \/ UNCHANGED vars
  PROVE  PathInv' /\ UNCHANGED <<stream, received, fifo, rcvList, processed>>
<1>1. UNCHANGED <<stream, received, fifo, rcvList, processed>>
  BY DEF Vanish, PeekKeeps, Break, Post, TakeMessage, Drained, vars, pag, socket, cmdThread
<1>2. /\ pc' \in {"idle", "peek", "loop", "post"} /\ cmdPc' \in {"wait", "drain"} /\ msgs' \in Nat
      /\ sending' \in BOOLEAN /\ queued' \in BOOLEAN
  <2>1. /\ pc \in {"idle", "peek", "loop", "post"} /\ cmdPc \in {"wait", "drain"} /\ msgs \in Nat
        /\ sending \in BOOLEAN /\ queued \in BOOLEAN
    BY DEF PathInv, Types
  <2>2. CASE Vanish
    BY <2>1, <2>2 DEF Vanish, socket, cmdThread
  <2>3. CASE PeekKeeps \/ Break \/ UNCHANGED vars
    BY <2>1, <2>3 DEF PeekKeeps, Break, vars, pag, socket, cmdThread
  <2>4. CASE Post
    BY <2>1, <2>4 DEF Post, pag, cmdThread
  <2>5. CASE TakeMessage \/ Drained
    BY <2>1, <2>5 DEF TakeMessage, Drained, pag, socket
  <2> QED
    BY <2>2, <2>3, <2>4, <2>5
<1>3. Types'
  BY <1>1, <1>2 DEF PathInv, Types
<1>4. Path(stream, Sizes, {TRUE}, received, fifo, Extracted) /\ fifo.size \in Nat
  BY PathFacts DEF PathInv
<1>5. Path(stream, Sizes, {TRUE}, received, fifo, Extracted)'
  BY <1>1, <1>4 DEF Extracted
<1>6. pc' \in {"idle", "post"} => fifo'.size < MaxPacket
  <2>1. CASE Vanish \/ TakeMessage \/ Drained \/ UNCHANGED vars
    BY <1>1, <2>1 DEF PathInv, Vanish, TakeMessage, Drained, vars, socket
  <2>2. CASE PeekKeeps
    BY <2>2 DEF PeekKeeps
  <2>3. CASE Break
    <3>1. CASE fifo.size < HdrSize
      BY <1>1, <1>4, <3>1
    <3>2. CASE fifo.size >= HdrSize /\ \E n \in ByteCounts(fifo, stream) :
                 ~LosesSync(fifo, stream, n) /\ (WrongSize(n) \/ fifo.size < n)
      <4>1. PICK n \in ByteCounts(fifo, stream) :
              ~LosesSync(fifo, stream, n) /\ (WrongSize(n) \/ fifo.size < n)
        BY <3>2
      <4>2. PICK p \in 1 .. Len(stream) : stream[p].len = n
        BY <1>4, <3>2, <4>1, SizesPositive, PathFindsPacket
      <4>3. n \in Sizes
        BY <1>4, <4>2 DEF Path, StreamOf
      <4>4. ~WrongSize(n)
        BY <4>1, <4>3 DEF NoWrongSize, LosesSync
      <4>5. n \in Nat
        BY <4>3, PagAssumption
      <4> QED
        BY <1>1, <1>4, <4>1, <4>4, <4>5 DEF WrongSize
    <3> QED
      BY <2>3, <3>1, <3>2 DEF Break
  <2>4. CASE Post
    BY <1>1, <2>4 DEF PathInv, Post
  <2> QED
    BY <2>1, <2>2, <2>3, <2>4
<1> QED
  BY <1>1, <1>3, <1>5, <1>6 DEF PathInv

LEMMA StepPathInv ==
  ASSUME NoWrongSize, PathInv, [Next]_vars
  PROVE  PathInv'
BY SendPathInv, ReceivePathInv, FlushPathInv, ExtractPathInv, TakePathInv, OtherStepsPathInv
   DEF Next, OnReceive, ProcessReceivedMessage

\* The buffer, the stream and what has left the buffer, in every state.
THEOREM PathInvariant ==
  ASSUME NoWrongSize
  PROVE  Spec => []PathInv
BY InitPathInv, StepPathInv, PTL DEF Spec

\* Wherever the stream is cut, and whatever the peek or a lost sync throws
\* away, Receive never stores past the end of m_Mem, and what reaches the
\* command thread is whole commands, each at most once and in order.
THEOREM CommandsArriveWhole ==
  ASSUME NoWrongSize
  PROVE  Spec => []Inv
<1>1. PathInv => TypeOK
  BY DEF PathInv, Types, TypeOK, Path, StreamOf, Holds
<1>2. PathInv => OnlyWholePackets
  <2> SUFFICES ASSUME PathInv, NEW n \in DOMAIN Extracted
               PROVE  /\ \E p \in DOMAIN stream : Extracted[n] = PacketBytes(stream[p])
                      /\ n > 1 => Extracted[n - 1][1] < Extracted[n][1]
    BY DEF OnlyWholePackets
  <2>1. WholePacketsOf(Extracted, stream, received - fifo.size)
    BY DEF PathInv, Path
  <2>2. n \in 1 .. Len(Extracted) /\ DOMAIN stream = 1 .. Len(stream)
    BY PathFacts DEF PathInv
  <2> QED
    BY <2>1, <2>2 DEF WholePacketsOf
<1>3. PathInv => Inv
  BY <1>1, <1>2 DEF Inv
<1> QED
  BY <1>3, PathInvariant, PTL

\* Of a PAG without such lengths no command ever blocks the buffer, so that
\* between two calls less than a packet waits: the client recovers from a loss
\* of sync and from a cut header although it does not close its socket.
THEOREM ClientNeverStuck ==
  ASSUME NoWrongSize
  PROVE  Spec => [](NeverStuck /\ ~Blocked)
<1>1. PathInv => NeverStuck
  BY DEF PathInv, NeverStuck
<1>2. PathInv => ~Blocked
  <2> SUFFICES ASSUME PathInv, Blocked
               PROVE  FALSE
    OBVIOUS
  <2>1. PICK p \in DOMAIN stream : WrongSize(stream[p].len) /\ stream[p].len <= MaxCount
    BY DEF Blocked
  <2>2. stream[p].len \in Sizes
    <3>1. p \in 1 .. Len(stream)
      BY <2>1, PathFacts DEF PathInv
    <3> QED
      BY <3>1 DEF PathInv, Path, StreamOf
  <2>3. stream[p].len \in Nat
    BY <2>2, PagAssumption
  <2> QED
    BY <2>1, <2>2, <2>3, FifoAssumption DEF NoWrongSize
<1> QED
  BY <1>1, <1>2, PathInvariant, PTL

-----------------------------------------------------------------------------
(* Commands that arrive whole.                                             *)

\* Each Receive ends with a command, and both GetPacketSize and GetNextPacket
\* accept their lengths.
ArriveWhole == WholePackets /\ Sizes \subseteq MinPacket .. MaxNext

Channel == INSTANCE PacketChannel WITH sent <- BytesOf(stream)

\* The peek finds a whole header, so nothing is ever flushed.
IInv ==
  /\ PathInv
  /\ Lossless(stream, received, fifo, Extracted)
  /\ pc = "peek" => fifo.size >= HdrSize

LEMMA ArriveWholeSizes == ArriveWhole => NoWrongSize
BY PagAssumption DEF ArriveWhole, NoWrongSize, WrongSize

LEMMA InitIInv == Init => IInv
<1> SUFFICES ASSUME Init PROVE IInv
  OBVIOUS
<1>1. Extracted = << >>
  <2>1. << >> \o << >> = << >>
    OBVIOUS
  <2> QED
    BY <2>1 DEF Init, Extracted
<1>2. Lossless(stream, received, fifo, Extracted)
  BY <1>1, NewFifoHolds DEF Init, Lossless, End
<1>3. pc # "peek"
  BY DEF Init
<1> QED
  BY <1>2, <1>3, InitPathInv DEF IInv

\* A header is read as that of the next command, and accepted.
LEMMA HeaderAccepted ==
  ASSUME ArriveWhole, IInv, fifo.size >= HdrSize, NEW n \in ByteCounts(fifo, stream)
  PROVE  ~LosesSync(fifo, stream, n) /\ n \in Nat /\ n <= MaxNext
<1> DEFINE p == Len(Extracted) + 1
<1>1. Path(stream, Sizes, {TRUE}, received, fifo, Extracted)
      /\ Lossless(stream, received, fifo, Extracted)
  BY DEF IInv, PathInv
<1>2. /\ p \in 1 .. Len(stream)
      /\ ByteCounts(fifo, stream) = {stream[p].len}
      /\ stream[p].sync => HasSync(fifo, stream)
  BY <1>1, SizesPositive, LosslessHeader
<1> HIDE DEF p
<1>3. stream[p].len \in Sizes /\ stream[p].sync \in {TRUE}
  BY <1>1, <1>2 DEF Path, StreamOf
<1>4. HasSync(fifo, stream)
  BY <1>2, <1>3
<1>5. n \in MinPacket .. MaxNext
  BY <1>2, <1>3 DEF ArriveWhole
<1>6. n \in Nat /\ n <= MaxNext
  BY <1>5
<1> QED
  BY <1>4, <1>6 DEF LosesSync

\* A Receive that ends with a command has brought at least a header.
LEMMA HeaderArrives ==
  ASSUME ArriveWhole, IInv, Receive
  PROVE  fifo'.size >= HdrSize
<1> DEFINE k == Len(Extracted)
<1>1. PICK n \in 1 .. Chunk : CutsAt(received + n) /\ received' = received + n
  BY DEF Receive
<1>2. PICK p \in DOMAIN stream : received' = stream[p].at + stream[p].len
  BY <1>1 DEF CutsAt, ArriveWhole
<1>3. /\ received - fifo.size = End(stream, k) /\ k <= Len(stream)
      /\ PathInv /\ Path(stream, Sizes, {TRUE}, received, fifo, Extracted)
  BY DEF IInv, PathInv, Lossless
<1>4. /\ stream \in Seq(Packets) /\ Len(stream) \in Nat /\ received \in Nat /\ fifo.size \in Nat
      /\ fifo.size <= received /\ k \in Nat
  BY <1>3, PathFacts
<1>5. received' - fifo'.size = received - fifo.size /\ PathInv'
  BY <1>3, ReceivePathInv
<1>6. fifo'.size \in Nat /\ received' \in Nat
  <2>1. Path(stream', Sizes, {TRUE}, received', fifo', Extracted')
    BY <1>5 DEF PathInv
  <2> QED
    BY <2>1, PathFacts
<1>7. p \in 1 .. Len(stream) /\ stream[p] \in Packets
  BY <1>2, <1>4
<1>8. stream[p].at \in Nat /\ stream[p].len \in Nat
  BY <1>7 DEF Packets
<1>9. stream[p].len >= HdrSize
  <2>1. stream[p].len \in MinPacket .. MaxNext
    BY <1>3, <1>7 DEF Path, StreamOf, ArriveWhole
  <2> QED
    BY <1>8, <2>1
<1>10. received' > End(stream, k)
  BY <1>1, <1>3, <1>4
\* What is left at most ends where the command begins that has just arrived.
<1>11. End(stream, k) <= stream[p].at
  <2>1. CASE k = 0
    BY <1>8, <2>1 DEF End
  <2>2. CASE k # 0 /\ k < p
    <3>1. stream[k].at + stream[k].len <= stream[p].at
      BY <1>3, <1>4, <1>7, <2>2 DEF Path, StreamOf
    <3> QED
      BY <2>2, <3>1 DEF End
  <2>3. ~(k # 0 /\ p <= k)
    <3> SUFFICES ASSUME k # 0, p <= k PROVE FALSE
      OBVIOUS
    <3>1. k \in 1 .. Len(stream) /\ stream[k] \in Packets /\ End(stream, k) = stream[k].at + stream[k].len
      BY <1>3, <1>4 DEF End
    <3>2. stream[k].at \in Nat /\ stream[k].len \in Nat
      BY <3>1 DEF Packets
    <3>3. CASE p = k
      BY <1>2, <1>8, <1>10, <3>1, <3>3
    <3>4. CASE p < k
      <4>1. stream[p].at + stream[p].len <= stream[k].at
        BY <1>3, <1>7, <3>1, <3>4 DEF Path, StreamOf
      <4> QED
        BY <1>2, <1>8, <1>10, <3>1, <3>2, <4>1
    <3> QED
      BY <1>4, <1>7, <3>3, <3>4
  <2> QED
    BY <1>4, <1>7, <2>1, <2>2, <2>3
<1>12. fifo'.size = received' - End(stream, k) /\ End(stream, k) \in Int
  BY <1>3, <1>4, <1>5, <1>6
<1>13. fifo'.size >= stream[p].len
  BY <1>2, <1>6, <1>8, <1>11, <1>12
<1> QED
  BY <1>6, <1>8, <1>9, <1>13

LEMMA StepIInv ==
  ASSUME ArriveWhole, IInv, [Next]_vars
  PROVE  IInv'
<1>1. PathInv /\ PathInv' /\ Lossless(stream, received, fifo, Extracted)
      /\ (pc = "peek" => fifo.size >= HdrSize)
  BY StepPathInv, ArriveWholeSizes DEF IInv
<1>2. Path(stream, Sizes, {TRUE}, received, fifo, Extracted)
  BY <1>1 DEF PathInv
<1>3. CASE Send
  <2>1. OneMore(stream, stream')
    BY <1>1, <1>3, SendPathInv
  <2>2. UNCHANGED <<received, fifo, pc, Extracted>>
    BY <1>3 DEF Send, socket, cmdThread, Extracted
  <2>3. Len(stream) \in Nat /\ Len(Extracted) \in Nat
    BY <1>2, PathFacts
  <2>4. Lossless(stream', received, fifo, Extracted)
    BY <1>1, <2>1, <2>3, LosslessSends
  <2> QED
    BY <1>1, <2>2, <2>4 DEF IInv
<1>4. CASE Receive
  <2>1. received' - fifo'.size = received - fifo.size
    BY <1>1, <1>4, ReceivePathInv
  <2>2. UNCHANGED <<stream, Extracted>>
    BY <1>4 DEF Receive, pag, cmdThread, Extracted
  <2>3. fifo'.size >= HdrSize
    BY <1>1, <1>4, HeaderArrives
  <2> QED
    BY <1>1, <2>1, <2>2, <2>3 DEF IInv, Lossless
<1>5. CASE Extract
  <2>1. PICK n \in ByteCounts(fifo, stream) :
          /\ n <= fifo.size
          /\ fifo'.size = fifo.size - n
          /\ Extracted' = Append(Extracted, BytesAtOut(fifo, n))
    BY <1>1, <1>5, ExtractPathInv
  <2>2. fifo.size >= HdrSize /\ pc' # "peek" /\ UNCHANGED <<stream, received>>
    BY <1>5 DEF Extract, pag
  <2>3. Lossless(stream, received, fifo', Extracted')
    BY <1>1, <1>2, <2>1, <2>2, SizesPositive, LosslessExtracts
  <2> QED
    BY <1>1, <2>2, <2>3 DEF IInv
<1>6. CASE TakePacket
  <2>1. Extracted' = Extracted /\ UNCHANGED <<stream, received, fifo, pc>>
    BY <1>1, <1>6, TakePathInv DEF TakePacket, pag, socket
  <2> QED
    BY <1>1, <2>1 DEF IInv
<1>7. CASE PeekFlushes \/ LostSync \/ TooLong
  <2>1. fifo.size >= HdrSize
    BY <1>1, <1>7 DEF PeekFlushes, LostSync, TooLong, Refuses
  <2>2. PICK n \in ByteCounts(fifo, stream) :
          LosesSync(fifo, stream, n) \/ n > MaxNext
    BY <1>7 DEF PeekFlushes, LostSync, TooLong, Refuses
  <2>3. n \in Nat
    BY <2>1, <2>2, HeaderAccepted
  <2> QED
    BY <2>1, <2>2, <2>3, HeaderAccepted
<1>8. CASE Vanish \/ PeekKeeps \/ Break \/ Post \/ TakeMessage \/ Drained \/ UNCHANGED vars
  <2>1. UNCHANGED <<stream, received, fifo, Extracted>>
    BY <1>1, <1>8, OtherStepsPathInv, ArriveWholeSizes DEF Extracted
  <2>2. pc' = "peek" => pc = "peek"
    BY <1>8 DEF Vanish, PeekKeeps, Break, Post, TakeMessage, Drained, vars, socket
  <2> QED
    BY <1>1, <2>1, <2>2 DEF IInv
<1> QED
  BY <1>3, <1>4, <1>5, <1>6, <1>7, <1>8 DEF Next, OnReceive, ProcessReceivedMessage

\* Commands that arrive whole are neither lost nor doubled, in every state.
THEOREM WholeInvariant ==
  ASSUME ArriveWhole
  PROVE  Spec => []IInv
BY InitIInv, StepIInv, PTL DEF Spec

\* Commands that arrive whole reach the command thread as PacketChannel
\* promises: unchanged, in order, none missing and none twice (that each is
\* processed in the end is checked by TLC).
THEOREM ClientImplementsChannel ==
  ASSUME ArriveWhole
  PROVE  Spec => Channel!Spec
<1>1. Init => Channel!Init
  BY DEF Init, Channel!Init, BytesOf
<1>2. ASSUME IInv, [Next]_vars PROVE [Channel!Next]_(Channel!vars)
  <2>1. /\ PathInv /\ stream \in Seq(Packets) /\ processed \in Seq(Seq(Nat))
        /\ Len(processed) \in Nat
    BY <1>2, PathFacts DEF IInv, PathInv, Types
  <2>2. Len(BytesOf(stream)) = Len(stream)
        /\ \A p \in 1 .. Len(stream) : BytesOf(stream)[p] = PacketBytes(stream[p])
    BY <2>1, BytesOfStream
  <2>3. CASE Send
    <3>1. OneMore(stream, stream') /\ PathInv' /\ processed' = processed
      BY <2>1, <2>3, SendPathInv DEF Send, cmdThread
    <3>2. stream' \in Seq(Packets)
      BY <3>1 DEF PathInv, Path, StreamOf
    <3>3. Len(BytesOf(stream')) = Len(BytesOf(stream)) + 1
          /\ BytesOf(stream) = SubSeq(BytesOf(stream'), 1, Len(BytesOf(stream)))
      BY <2>1, <3>1, <3>2, BytesOfMore
    <3> QED
      BY <3>1, <3>3 DEF Channel!Next, Channel!Send
  <2>4. CASE TakePacket
    <3> DEFINE k == Len(processed) + 1
    <3>1. k \in 1 .. Len(Extracted) /\ Head(rcvList) = Extracted[k]
      BY <2>1, <2>4, TakePathInv
    <3>2. Len(Extracted) <= Len(stream) /\ Extracted[k] = PacketBytes(stream[k])
      BY <1>2, <3>1 DEF IInv, Lossless
    <3>3. k \in 1 .. Len(stream) /\ Len(processed) < Len(stream)
      <4>1. Len(stream) \in Nat /\ Len(Extracted) \in Nat
        BY <2>1, PathFacts DEF PathInv
      <4> QED
        BY <2>1, <3>1, <3>2, <4>1
    <3>4. BytesOf(stream)[k] = Head(rcvList)
      BY <2>2, <3>1, <3>2, <3>3
    <3>5. stream' = stream /\ processed' = Append(processed, Head(rcvList))
      BY <2>4 DEF TakePacket, pag
    <3>6. BytesOf(stream)' = BytesOf(stream)
      BY <3>5 DEF BytesOf
    <3> QED
      BY <2>2, <3>3, <3>4, <3>5, <3>6 DEF Channel!Next, Channel!Process
  <2>5. CASE Vanish \/ OnReceive \/ TakeMessage \/ Drained \/ UNCHANGED vars
    <3>1. UNCHANGED <<stream, processed>>
      BY <2>5 DEF Vanish, OnReceive, Receive, PeekFlushes, PeekKeeps, Break, LostSync, TooLong,
                  Extract, Post, TakeMessage, Drained, vars, pag, socket, cmdThread
    <3> QED
      BY <3>1 DEF Channel!vars, BytesOf
  <2> QED
    BY <1>2, <2>3, <2>4, <2>5 DEF Next, ProcessReceivedMessage
<1> QED
  BY <1>1, <1>2, WholeInvariant, PTL DEF Spec, Channel!Spec

HIDE FifoAssumption

-----------------------------------------------------------------------------
(* The record of all-wall data, for any PAPs, packets and presses.         *)

\* How far the GUI thread is tells whether there is a dialog and a file.
ScreenInv ==
  /\ fileOpen => screen = "shown"
  /\ pressing # "idle" => screen = "shown"
  /\ screen = "shown" /\ pressing = "idle" => (fileOpen <=> m_nRecordState > 0)
  /\ pressing = "opened" => fileOpen /\ m_nRecordState = 0 /\ early = 0
  /\ pressing = "saving" => fileOpen /\ m_nRecordState > 0
  /\ pressing = "closed" => ~fileOpen /\ m_nRecordState > 0

\* What a thread that nothing has overtaken relies upon.
NotOvertaken ==
  /\ \A p \in Paps \ overtaken :
       /\ thread[p] # "idle" => screen = "shown" /\ pressing = "idle"
       /\ thread[p] = "writes" => fileOpen
  /\ \A p \in Paps : /\ thrown = p => p \in overtaken
                     /\ thread[p] # "idle" => arrived[p] > 0

\* The last packet a thread has done with.
Done(pk, th, p) == pk[p] - IF th[p] = "idle" THEN 0 ELSE 1

\* While there is a record, all packets since the first one of a PAP are in it.
Complete ==
  fileOpen /\ m_nRecordState > 0 =>
    \A j \in DOMAIN record :
      j > early => /\ record[j][2] <= Done(arrived, thread, record[j][1])
                   /\ \A n \in record[j][2] .. Done(arrived, thread, record[j][1]) :
                        \E a \in j .. Len(record) : record[a] = <<record[j][1], n>>

\* A new file gets at most one packet of a PAP before there is a record.
NobodyWrites == pressing = "opened" => \A j \in DOMAIN record : thread[record[j][1]] # "writes"

Gapless ==
  \A j, k \in DOMAIN record :
    j < k /\ record[j][1] = record[k][1] =>
      k > early /\ pressing # "opened" /\ (j > early => Record!NoGap(j, k))

PacketInv == Complete /\ NobodyWrites /\ Gapless

EndInv ==
  /\ \A a \in DOMAIN record : record[a] = Record!End => ~fileOpen /\ a = Len(record)
  /\ pressing \in {"saving", "closed"} /\ empty =>
       \A a \in DOMAIN record : record[a] # Record!End => record[a][1] \in overtaken
  /\ pressing = "closed" /\ ~empty => \A a \in DOMAIN record : record[a] # Record!End

RecordInv == Record!TypeOK /\ ScreenInv /\ NotOvertaken /\ PacketInv /\ EndInv

Entries == (Paps \X (1 .. PacketsEach)) \cup {Record!End}

LEMMA RecordNames ==
  /\ PacketsEach \in Nat /\ MaxPresses \in Nat
  /\ \A p \in Paps : p # "no" /\ p # "End"
BY PartsAssumption DEF Record!Parameters

LEMMA RecordTypes == Record!TypeOK => /\ record \in Seq(Entries) /\ Len(record) \in Nat
                                      /\ DOMAIN record = 1 .. Len(record)
                                      /\ \A j \in DOMAIN record : record[j] \in Entries
BY DEF Record!TypeOK, Entries

\* Every packet is of a PAP, and none is like "End".
LEMMA EntryIs ==
  ASSUME NEW e \in Entries, e # Record!End
  PROVE  /\ e[1] \in Paps /\ e[2] \in 1 .. PacketsEach /\ e = <<e[1], e[2]>>
BY DEF Entries

LEMMA EndIs == Record!End[1] = "End" /\ \A p \in Paps, n \in Int : <<p, n>> # Record!End
<1>1. ASSUME NEW p \in Paps, NEW n \in Int, <<p, n>> = Record!End PROVE FALSE
  <2>1. <<p, n>>[1] = p /\ Record!End[1] = "End"
    BY DEF Record!End
  <2> QED
    BY <1>1, <2>1, RecordNames
<1> QED
  BY <1>1 DEF Record!End

LEMMA GapKept ==
  ASSUME NEW j \in Nat, NEW k \in Nat, j < k, \A a \in j .. k : record'[a] = record[a]
  PROVE  Record!NoGap(j, k) => Record!NoGap(j, k)'
BY DEF Record!NoGap

LEMMA PacketsKept ==
  PacketInv /\ UNCHANGED <<fileOpen, m_nRecordState, record, pressing, early, arrived, thread>>
    => PacketInv'
<1> SUFFICES ASSUME PacketInv,
                    UNCHANGED <<fileOpen, m_nRecordState, record, pressing, early, arrived, thread>>
             PROVE  PacketInv'
  OBVIOUS
<1>1. Complete'
  BY DEF PacketInv, Complete, Done
<1>2. NobodyWrites'
  BY DEF PacketInv, NobodyWrites
<1>3. Gapless'
  <2>1. \A j, k : Record!NoGap(j, k)' <=> Record!NoGap(j, k)
    BY DEF Record!NoGap
  <2> QED
    BY <2>1 DEF PacketInv, Gapless
<1> QED
  BY <1>1, <1>2, <1>3 DEF PacketInv

LEMMA RecordStarts == Record!Init => RecordInv
<1> SUFFICES ASSUME Record!Init PROVE RecordInv
  OBVIOUS
<1> USE RecordNames
<1>1. record = << >> /\ Len(record) = 0 /\ DOMAIN record = {}
  BY DEF Record!Init
<1>2. Record!TypeOK
  <2>1. record \in Seq((Paps \X (1 .. PacketsEach)) \cup {Record!End})
    BY <1>1
  <2>2. arrived \in [Paps -> 0 .. PacketsEach] /\ thread \in [Paps -> {"idle", "copied", "writes"}]
    BY DEF Record!Init
  <2>3. {fileOpen, empty} \subseteq BOOLEAN
    BY DEF Record!Init
  <2> QED
    BY <1>1, <2>1, <2>2, <2>3 DEF Record!Init, Record!TypeOK
<1>3. ScreenInv
  BY DEF Record!Init, ScreenInv
<1>4. NotOvertaken
  BY DEF Record!Init, NotOvertaken
<1>5. PacketInv /\ EndInv
  BY <1>1 DEF Record!Init, PacketInv, Complete, NobodyWrites, Gapless, EndInv
<1> QED
  BY <1>2, <1>3, <1>4, <1>5 DEF RecordInv

\* What the GUI thread does without touching a record that is kept.
LEMMA GuiKeepsRecord ==
  ASSUME RecordInv, UNCHANGED <<record, Record!threads, thrown>>,
         overtaken' = overtaken \cup Record!Busy,
         screen' \in {"none", "made", "shown"}, m_nRecordState' \in {0, 1}, fileOpen' \in BOOLEAN,
         pressing' \in {"idle", "opened", "saving", "closed"}, empty' \in BOOLEAN,
         presses' \in 0 .. MaxPresses, early' \in 0 .. Len(record),
         ScreenInv', EndInv',
         fileOpen' /\ m_nRecordState' > 0 => \/ fileOpen /\ m_nRecordState > 0 /\ early' = early
                                         \/ early' = Len(record),
         pressing' = "opened" => pressing = "opened",
         early' = early \/ (early' = Len(record) /\ pressing = "opened")
  PROVE  RecordInv'
<1> USE RecordNames
<1>1. /\ Record!TypeOK /\ ScreenInv /\ NotOvertaken /\ PacketInv
      /\ arrived' = arrived /\ thread' = thread
  BY DEF RecordInv, Record!threads
<1>2. Record!Busy \subseteq Paps
  BY DEF Record!Busy
<1>3. Record!TypeOK'
  BY <1>1, <1>2 DEF Record!TypeOK
<1>4. NotOvertaken'
  <2>1. \A p \in Paps \ overtaken' : p \notin overtaken /\ thread[p] = "idle"
    BY DEF Record!Busy
  <2> QED
    BY <1>1, <2>1 DEF NotOvertaken
<1>5. \A j, k \in DOMAIN record : Record!NoGap(j, k)' <=> Record!NoGap(j, k)
  BY DEF Record!NoGap
<1>6. \A p : Done(arrived', thread', p) = Done(arrived, thread, p)
  BY <1>1 DEF Done
<1>7. early \in Nat /\ Len(record) \in Nat /\ DOMAIN record = 1 .. Len(record)
  BY <1>1, RecordTypes DEF Record!TypeOK
<1>8. PacketInv'
  <2>1. ASSUME fileOpen', m_nRecordState' > 0, NEW j \in DOMAIN record', j > early'
        PROVE  /\ record'[j][2] <= Done(arrived', thread', record'[j][1])
               /\ \A n \in record'[j][2] .. Done(arrived', thread', record'[j][1]) :
                    \E a \in j .. Len(record') : record'[a] = <<record'[j][1], n>>
    <3>1. fileOpen /\ m_nRecordState > 0 /\ j > early
      BY <1>7, <2>1
    <3> QED
      BY <1>1, <1>6, <2>1, <3>1 DEF PacketInv, Complete, NobodyWrites, Gapless
  <2>2. ASSUME pressing' = "opened", NEW j \in DOMAIN record'
        PROVE  thread'[record'[j][1]] # "writes"
    BY <1>1, <2>2 DEF PacketInv, Complete, NobodyWrites, Gapless
  <2>3. ASSUME NEW j \in DOMAIN record', NEW k \in DOMAIN record', j < k,
               record'[j][1] = record'[k][1]
        PROVE  k > early' /\ pressing' # "opened" /\ (j > early' => Record!NoGap(j, k)')
    <3>1. k > early /\ pressing # "opened" /\ (j > early => Record!NoGap(j, k))
      BY <1>1, <2>3 DEF PacketInv, Complete, NobodyWrites, Gapless
    <3>2. early' = early
      BY <3>1
    <3> QED
      BY <1>5, <2>3, <3>1, <3>2
  <2> QED
    BY <2>1, <2>2, <2>3 DEF PacketInv, Complete, NobodyWrites, Gapless
<1> QED
  BY <1>3, <1>4, <1>8 DEF RecordInv

LEMMA DialogKeeps ==
  RecordInv /\ (Record!OnConfigureNcNx \/ Record!OnInitDialog \/ Record!OnClose) => RecordInv'
<1> SUFFICES ASSUME RecordInv, Record!OnConfigureNcNx \/ Record!OnInitDialog \/ Record!OnClose
             PROVE  RecordInv'
  OBVIOUS
<1> USE RecordNames
<1>1. Record!TypeOK /\ ScreenInv /\ EndInv
  BY DEF RecordInv
<1>2. /\ UNCHANGED <<record, pressing, empty, early, Record!threads, thrown>>
      /\ overtaken' = overtaken \cup Record!Busy
      /\ presses' \in 0 .. MaxPresses
      /\ \/ /\ screen = "none" /\ screen' = "made" /\ m_nRecordState' \in {0, 1}
            /\ fileOpen' = fileOpen /\ pressing = "idle"
         \/ /\ screen = "made" /\ screen' = "shown" /\ m_nRecordState' = 0 /\ fileOpen' = fileOpen
         \/ /\ screen = "shown" /\ screen' = "none" /\ fileOpen' = FALSE
            /\ m_nRecordState' = m_nRecordState /\ pressing = "idle"
  BY <1>1 DEF Record!OnConfigureNcNx, Record!OnInitDialog, Record!OnClose, Record!Press,
                 Record!Gui, Record!TypeOK
<1>3. ScreenInv'
  BY <1>1, <1>2 DEF ScreenInv, Record!TypeOK
<1>4. EndInv'
  BY <1>1, <1>2 DEF EndInv
<1>5. fileOpen' => fileOpen /\ screen = "shown"
  BY <1>1, <1>2 DEF ScreenInv
<1>6. /\ screen' \in {"none", "made", "shown"} /\ m_nRecordState' \in {0, 1} /\ fileOpen' \in BOOLEAN
      /\ pressing' \in {"idle", "opened", "saving", "closed"} /\ empty' \in BOOLEAN
      /\ early' \in 0 .. Len(record)
  BY <1>1, <1>2 DEF Record!TypeOK
<1>7. ~(fileOpen' /\ m_nRecordState' > 0)
  BY <1>1, <1>2, <1>5
<1> QED
  BY <1>2, <1>3, <1>4, <1>6, <1>7, GuiKeepsRecord

LEMMA ButtonKeeps ==
  RecordInv /\ (Record!StartRecord \/ Record!TestLength \/ Record!ForgetRecord) => RecordInv'
<1> SUFFICES ASSUME RecordInv, Record!StartRecord \/ Record!TestLength \/ Record!ForgetRecord
             PROVE  RecordInv'
  OBVIOUS
<1> USE RecordNames
<1>1. Record!TypeOK /\ ScreenInv /\ EndInv
  BY DEF RecordInv
<1>2. /\ UNCHANGED <<screen, fileOpen, record, Record!threads, thrown>>
      /\ overtaken' = overtaken \cup Record!Busy
      /\ presses' \in 0 .. MaxPresses
      /\ \/ /\ pressing = "opened" /\ m_nRecordState' = 1 /\ pressing' = "idle"
            /\ early' = Len(record)
            /\ empty' = empty
         \/ /\ pressing = "idle" /\ screen = "shown" /\ m_nRecordState > 0
            /\ empty' = (record = << >>)
            /\ pressing' = "saving" /\ UNCHANGED <<m_nRecordState, early>>
         \/ /\ pressing = "closed" /\ m_nRecordState' = 0 /\ pressing' = "idle"
            /\ UNCHANGED <<empty, early>>
  BY <1>1 DEF Record!StartRecord, Record!TestLength, Record!ForgetRecord, Record!Press,
                 Record!Gui, Record!TypeOK
<1>3. Len(record) \in Nat /\ DOMAIN record = 1 .. Len(record)
  BY <1>1, RecordTypes
<1>4. ScreenInv'
  BY <1>1, <1>2 DEF ScreenInv, Record!TypeOK
<1>5. EndInv'
  <2>1. record = << >> => DOMAIN record = {}
    OBVIOUS
  <2>2. CASE pressing' = "saving"
    BY <1>1, <1>2, <2>1, <2>2 DEF EndInv
  <2>3. CASE pressing' = "idle"
    BY <1>1, <1>2, <2>3 DEF EndInv
  <2> QED
    BY <1>2, <2>2, <2>3
<1>6. /\ screen' \in {"none", "made", "shown"} /\ m_nRecordState' \in {0, 1} /\ fileOpen' \in BOOLEAN
      /\ pressing' \in {"idle", "opened", "saving", "closed"} /\ empty' \in BOOLEAN
      /\ early' \in 0 .. Len(record)
  <2>1. screen' \in {"none", "made", "shown"} /\ m_nRecordState' \in {0, 1} /\ fileOpen' \in BOOLEAN
    BY <1>1, <1>2 DEF Record!TypeOK
  <2>2. pressing' \in {"idle", "opened", "saving", "closed"} /\ early' \in 0 .. Len(record)
    BY <1>1, <1>2, <1>3 DEF Record!TypeOK
  <2>3. empty' \in BOOLEAN
    BY <1>1, <1>2 DEF Record!TypeOK
  <2> QED
    BY <2>1, <2>2, <2>3
<1>7. fileOpen' /\ m_nRecordState' > 0 => \/ fileOpen /\ m_nRecordState > 0 /\ early' = early
                                      \/ early' = Len(record)
  BY <1>1, <1>2
<1>8. /\ pressing' = "opened" => pressing = "opened"
      /\ early' = early \/ (early' = Len(record) /\ pressing = "opened")
  BY <1>2
<1> QED
  BY <1>2, <1>4, <1>5, <1>6, <1>7, <1>8, GuiKeepsRecord

\* A new file has nothing in it.
LEMMA OpenKeeps == RecordInv /\ Record!OpenRecord => RecordInv'
<1> SUFFICES ASSUME RecordInv, Record!OpenRecord PROVE RecordInv'
  OBVIOUS
<1> USE RecordNames
<1>1. Record!TypeOK /\ ScreenInv /\ NotOvertaken
  BY DEF RecordInv
<1>2. /\ pressing = "idle" /\ screen = "shown" /\ m_nRecordState = 0
      /\ fileOpen' = TRUE /\ record' = << >> /\ pressing' = "opened" /\ early' = 0
      /\ UNCHANGED <<screen, m_nRecordState, empty, arrived, thread, thrown>>
      /\ overtaken' = overtaken \cup Record!Busy
      /\ presses' \in 0 .. MaxPresses
  BY <1>1 DEF Record!OpenRecord, Record!Press, Record!Gui, Record!TypeOK, Record!threads
<1>3. Len(record') = 0 /\ DOMAIN record' = {} /\ record' \in Seq(Entries)
  BY <1>2
<1>4. Record!TypeOK'
  <2>1. Record!Busy \subseteq Paps
    BY DEF Record!Busy
  <2> QED
    BY <1>1, <1>2, <1>3, <2>1 DEF Record!TypeOK, Entries
<1>5. ScreenInv'
  BY <1>1, <1>2 DEF ScreenInv
<1>6. NotOvertaken'
  <2>1. \A p \in Paps \ overtaken' : p \notin overtaken /\ thread[p] = "idle"
    BY <1>2 DEF Record!Busy
  <2> QED
    BY <1>1, <1>2, <2>1 DEF NotOvertaken
<1>7. PacketInv' /\ EndInv'
  BY <1>2, <1>3 DEF PacketInv, Complete, NobodyWrites, Gapless, EndInv
<1> QED
  BY <1>4, <1>5, <1>6, <1>7 DEF RecordInv

\* After "End" nothing is written.
LEMMA CloseKeeps == RecordInv /\ Record!CloseRecord => RecordInv'
<1> SUFFICES ASSUME RecordInv, Record!CloseRecord PROVE RecordInv'
  OBVIOUS
<1> USE RecordNames
<1>1. Record!TypeOK /\ ScreenInv /\ NotOvertaken /\ PacketInv /\ EndInv
  BY DEF RecordInv
<1>2. /\ pressing = "saving" /\ fileOpen' = FALSE /\ pressing' = "closed"
      /\ record' = IF empty THEN Append(record, Record!End) ELSE record
      /\ UNCHANGED <<screen, m_nRecordState, empty, early, presses, arrived, thread, thrown>>
      /\ overtaken' = overtaken \cup Record!Busy
  BY DEF Record!CloseRecord, Record!Gui, Record!threads
<1>3. /\ record \in Seq(Entries) /\ Len(record) \in Nat /\ DOMAIN record = 1 .. Len(record)
      /\ \A j \in DOMAIN record : record[j] \in Entries
  BY <1>1, RecordTypes
<1>4. /\ record' \in Seq(Entries) /\ DOMAIN record' = 1 .. Len(record')
      /\ Len(record') = IF empty THEN Len(record) + 1 ELSE Len(record)
      /\ \A j \in DOMAIN record : j \in DOMAIN record' /\ record'[j] = record[j]
      /\ empty => record'[Len(record) + 1] = Record!End
  <2>1. Record!End \in Entries
    BY DEF Entries
  <2>2. CASE empty
    BY <1>2, <1>3, <2>1, <2>2
  <2>3. CASE ~empty
    BY <1>2, <1>3, <2>3
  <2> QED
    BY <2>2, <2>3
<1>5. \A j \in DOMAIN record : record[j] # Record!End
  BY <1>1, <1>2 DEF EndInv, ScreenInv
<1>6. \A j \in DOMAIN record : record[j][1] \in Paps /\ record[j][1] # "End"
  BY <1>3, <1>5, EntryIs
<1>7. Record!TypeOK'
  <2>1. Record!Busy \subseteq Paps
    BY DEF Record!Busy
  <2>2. record' \in Seq((Paps \X (1 .. PacketsEach)) \cup {Record!End})
    BY <1>4 DEF Entries
  <2>3. early' \in 0 .. Len(record')
    BY <1>1, <1>2, <1>3, <1>4 DEF Record!TypeOK
  <2>4. {fileOpen', empty'} \subseteq BOOLEAN
    BY <1>1, <1>2 DEF Record!TypeOK
  <2> QED
    BY <1>1, <1>2, <2>1, <2>2, <2>3, <2>4 DEF Record!TypeOK
<1>8. ScreenInv'
  BY <1>1, <1>2 DEF ScreenInv
<1>9. NotOvertaken'
  <2>1. \A p \in Paps \ overtaken' : p \notin overtaken /\ thread[p] = "idle"
    BY <1>2 DEF Record!Busy
  <2> QED
    BY <1>1, <1>2, <2>1 DEF NotOvertaken
<1>10. PacketInv'
  <2>1. ASSUME NEW j \in DOMAIN record', NEW k \in DOMAIN record', j < k,
               record'[j][1] = record'[k][1]
        PROVE  k > early' /\ pressing' # "opened" /\ (j > early' => Record!NoGap(j, k)')
    <3>1. j \in DOMAIN record
      BY <1>3, <1>4, <2>1
    <3>2. record'[k] # Record!End
      BY <1>4, <1>6, <2>1, <3>1, EndIs
    <3>3. k \in DOMAIN record
      BY <1>3, <1>4, <2>1, <3>2
    <3>4. k > early /\ (j > early => Record!NoGap(j, k))
      BY <1>1, <1>4, <2>1, <3>1, <3>3 DEF PacketInv, Complete, NobodyWrites, Gapless
    <3>5. Record!NoGap(j, k) => Record!NoGap(j, k)'
      <4>1. \A a \in j .. k : a \in DOMAIN record /\ record'[a] = record[a]
        BY <1>3, <1>4, <3>1, <3>3
      <4> QED
        BY <1>3, <2>1, <3>1, <3>3, <4>1, GapKept
    <3> QED
      BY <1>2, <3>4, <3>5
  <2> QED
    BY <1>2, <2>1 DEF PacketInv, Complete, NobodyWrites, Gapless
<1>11. EndInv'
  <2>1. \A j \in DOMAIN record' : record'[j] = Record!End => j = Len(record') /\ empty
    BY <1>3, <1>4, <1>5
  <2>2. ASSUME empty, NEW j \in DOMAIN record', record'[j] # Record!End
        PROVE  record'[j][1] \in overtaken'
    <3>1. j \in DOMAIN record /\ record'[j] = record[j]
      BY <1>3, <1>4, <2>2
    <3> QED
      BY <1>1, <1>2, <2>2, <3>1 DEF EndInv
  <2> QED
    BY <1>2, <2>1, <2>2 DEF EndInv
<1> QED
  BY <1>7, <1>8, <1>9, <1>10, <1>11 DEF RecordInv

\* What a thread does without writing: the packets it has done with stay the same while there
\* is a record.
LEMMA ThreadKeepsRecord ==
  ASSUME RecordInv, NEW p \in Paps, UNCHANGED <<Record!screen, thrown>>,
         arrived' \in [Paps -> 0 .. PacketsEach],
         thread' \in [Paps -> {"idle", "copied", "writes"}],
         overtaken' \subseteq Paps, pressing # "idle" => overtaken \subseteq overtaken',
         \A q \in Paps : q # p => arrived'[q] = arrived[q] /\ thread'[q] = thread[q],
         fileOpen /\ m_nRecordState > 0 => Done(arrived', thread', p) = Done(arrived, thread, p),
         thread'[p] = "writes" => thread[p] = "writes" \/ pressing # "opened",
         NotOvertaken'
  PROVE  RecordInv'
<1> USE RecordNames
<1>1. /\ Record!TypeOK /\ ScreenInv /\ PacketInv /\ EndInv
      /\ UNCHANGED <<screen, m_nRecordState, fileOpen, record, pressing, empty, early, presses, thrown>>
  BY DEF RecordInv, Record!screen
<1>2. Record!TypeOK'
  BY <1>1 DEF Record!TypeOK
<1>3. ScreenInv'
  BY <1>1 DEF ScreenInv
<1>4. EndInv'
  BY <1>1 DEF EndInv
<1>5. \A j, k \in DOMAIN record : Record!NoGap(j, k)' <=> Record!NoGap(j, k)
  BY <1>1 DEF Record!NoGap
<1>6. ASSUME fileOpen, NEW j \in DOMAIN record PROVE record[j][1] \in Paps
  <2>1. record[j] # Record!End /\ record[j] \in Entries
    BY <1>1, <1>6, RecordTypes DEF EndInv
  <2> QED
    BY <2>1, EntryIs
<1>7. ASSUME fileOpen, m_nRecordState > 0, NEW q \in Paps
      PROVE  Done(arrived', thread', q) = Done(arrived, thread, q)
  <2>1. CASE q = p
    BY <1>7, <2>1
  <2>2. CASE q # p
    BY <2>2 DEF Done
  <2> QED
    BY <2>1, <2>2
<1>8. PacketInv'
  <2>1. ASSUME fileOpen', m_nRecordState' > 0, NEW j \in DOMAIN record', j > early'
        PROVE  /\ record'[j][2] <= Done(arrived', thread', record'[j][1])
               /\ \A n \in record'[j][2] .. Done(arrived', thread', record'[j][1]) :
                    \E a \in j .. Len(record') : record'[a] = <<record'[j][1], n>>
    <3>1. Done(arrived', thread', record[j][1]) = Done(arrived, thread, record[j][1])
      BY <1>1, <1>6, <1>7, <2>1
    <3>3. /\ record[j][2] <= Done(arrived, thread, record[j][1])
          /\ \A n \in record[j][2] .. Done(arrived, thread, record[j][1]) :
               \E a \in j .. Len(record) : record[a] = <<record[j][1], n>>
      BY <1>1, <2>1 DEF PacketInv, Complete, NobodyWrites, Gapless
    <3> QED
      BY <1>1, <3>1, <3>3
  <2>2. ASSUME pressing' = "opened", NEW j \in DOMAIN record'
        PROVE  thread'[record'[j][1]] # "writes"
    <3>1. thread[record[j][1]] # "writes" /\ fileOpen
      BY <1>1, <2>2 DEF PacketInv, Complete, NobodyWrites, Gapless, ScreenInv
    <3>2. record[j][1] \in Paps
      BY <1>1, <1>6, <2>2, <3>1
    <3> QED
      BY <1>1, <2>2, <3>1, <3>2
  <2>3. ASSUME NEW j \in DOMAIN record', NEW k \in DOMAIN record', j < k,
               record'[j][1] = record'[k][1]
        PROVE  k > early' /\ pressing' # "opened" /\ (j > early' => Record!NoGap(j, k)')
    BY <1>1, <1>5, <2>3 DEF PacketInv, Complete, NobodyWrites, Gapless
  <2> QED
    BY <2>1, <2>2, <2>3 DEF PacketInv, Complete, NobodyWrites, Gapless
<1> QED
  BY <1>2, <1>3, <1>4, <1>8 DEF RecordInv

\* A packet comes.  While there is a dialog the thread has not done with it.
LEMMA CopyKeeps ==
  ASSUME NEW p \in Paps
  PROVE  RecordInv /\ thrown = "no" /\ Record!CopyAllWall(p) => RecordInv'
<1> SUFFICES ASSUME RecordInv, thrown = "no", Record!CopyAllWall(p) PROVE RecordInv'
  OBVIOUS
<1> USE RecordNames
<1>1. Record!TypeOK /\ ScreenInv /\ NotOvertaken
  BY DEF RecordInv
<1>2. /\ thread[p] = "idle" /\ arrived[p] < PacketsEach
      /\ arrived' = [arrived EXCEPT ![p] = @ + 1]
      /\ thread' = [thread EXCEPT ![p] = IF screen = "none" THEN "idle" ELSE "copied"]
      /\ overtaken' = IF Record!Settled THEN overtaken \ {p} ELSE overtaken \cup {p}
      /\ UNCHANGED <<Record!screen, thrown>>
  BY DEF Record!CopyAllWall, Record!Go
<1>3. /\ UNCHANGED <<screen, pressing, fileOpen>>
  BY <1>2 DEF Record!screen
<1>4. /\ arrived \in [Paps -> 0 .. PacketsEach] /\ thread \in [Paps -> {"idle", "copied", "writes"}]
      /\ overtaken \subseteq Paps /\ screen \in {"none", "made", "shown"}
  BY <1>1 DEF Record!TypeOK
<1>5. /\ arrived' \in [Paps -> 0 .. PacketsEach]
      /\ thread' \in [Paps -> {"idle", "copied", "writes"}]
      /\ \A q \in Paps : q # p => arrived'[q] = arrived[q] /\ thread'[q] = thread[q]
      /\ arrived'[p] = arrived[p] + 1 /\ arrived[p] \in Nat
      /\ thread'[p] = IF screen = "none" THEN "idle" ELSE "copied"
  BY <1>2, <1>4
<1>6. overtaken' \subseteq Paps /\ (pressing # "idle" => overtaken \subseteq overtaken')
  BY <1>2, <1>4 DEF Record!Settled
<1>7. fileOpen => Done(arrived', thread', p) = Done(arrived, thread, p)
  <2>1. fileOpen => screen = "shown"
    BY <1>1 DEF ScreenInv
  <2> QED
    BY <1>2, <1>5, <2>1 DEF Done
<1>8. NotOvertaken'
  <2>1. ASSUME NEW q \in Paps, q \notin overtaken'
        PROVE  /\ thread'[q] # "idle" => screen = "shown" /\ pressing = "idle"
               /\ thread'[q] = "writes" => fileOpen
    <3>1. CASE q = p
      BY <1>2, <1>4, <1>5, <2>1, <3>1 DEF Record!Settled
    <3>2. CASE q # p
      BY <1>1, <1>2, <1>5, <2>1, <3>2 DEF NotOvertaken
    <3> QED
      BY <3>1, <3>2
  <2>2. ASSUME NEW q \in Paps
        PROVE  thrown' # q /\ (thread'[q] # "idle" => arrived'[q] > 0)
    BY <1>1, <1>2, <1>5 DEF NotOvertaken
  <2> QED
    BY <1>3, <2>1, <2>2 DEF NotOvertaken
<1>9. thread'[p] # "writes"
  BY <1>5
<1> QED
  BY <1>2, <1>5, <1>6, <1>7, <1>8, <1>9, ThreadKeepsRecord

\* A thread that nothing has overtaken finds what it tests and uses.
LEMMA CrashKeeps ==
  ASSUME NEW p \in Paps, thread[p] # "idle",
         screen = "none" \/ (thread[p] = "writes" /\ ~fileOpen)
  PROVE  RecordInv /\ Record!Crash(p) => RecordInv'
<1> SUFFICES ASSUME RecordInv, Record!Crash(p) PROVE RecordInv'
  OBVIOUS
<1>1. /\ Record!TypeOK /\ NotOvertaken
      /\ UNCHANGED <<Record!screen, Record!threads, overtaken>> /\ thrown' = p
  BY DEF RecordInv, Record!Crash
<1>2. p \in overtaken
  BY <1>1 DEF NotOvertaken
<1>3. NotOvertaken'
  BY <1>1, <1>2 DEF NotOvertaken, Record!screen, Record!threads
<1>4. Record!TypeOK'
  BY <1>1 DEF Record!TypeOK, Record!screen, Record!threads
<1>5. UNCHANGED <<screen, m_nRecordState, fileOpen, record, pressing, empty, early, arrived, thread>>
  BY <1>1 DEF Record!screen, Record!threads
<1>6. ScreenInv' /\ EndInv'
  BY <1>1, <1>5 DEF RecordInv, ScreenInv, EndInv
<1>7. PacketInv'
  BY <1>5, PacketsKept DEF RecordInv
<1> QED
  BY <1>3, <1>4, <1>6, <1>7 DEF RecordInv

LEMMA TestKeeps ==
  ASSUME NEW p \in Paps
  PROVE  RecordInv /\ thrown = "no" /\ Record!TestRecordState(p) => RecordInv'
<1> SUFFICES ASSUME RecordInv, thrown = "no", Record!TestRecordState(p) PROVE RecordInv'
  OBVIOUS
<1> USE RecordNames
<1>1. CASE screen = "none" /\ Record!Crash(p)
  BY <1>1, CrashKeeps DEF Record!TestRecordState
<1>2. CASE ~(screen = "none" /\ Record!Crash(p))
  <2>1. Record!TypeOK /\ ScreenInv /\ NotOvertaken
    BY DEF RecordInv
  <2>2. /\ thread[p] = "copied" /\ UNCHANGED <<Record!screen, arrived, overtaken, thrown>>
        /\ thread' = [thread EXCEPT ![p] = IF m_nRecordState > 0 THEN "writes" ELSE "idle"]
    BY <1>2 DEF Record!TestRecordState, Record!Go
  <2>3. UNCHANGED <<screen, pressing, fileOpen>>
    BY <2>2 DEF Record!screen
  <2>4. /\ arrived' \in [Paps -> 0 .. PacketsEach] /\ overtaken' \subseteq Paps
        /\ thread' \in [Paps -> {"idle", "copied", "writes"}]
        /\ \A q \in Paps : q # p => arrived'[q] = arrived[q] /\ thread'[q] = thread[q]
        /\ thread'[p] = IF m_nRecordState > 0 THEN "writes" ELSE "idle"
    BY <2>1, <2>2 DEF Record!TypeOK
  <2>5. m_nRecordState > 0 => pressing # "opened"
    BY <2>1 DEF ScreenInv
  <2>6. m_nRecordState > 0 => Done(arrived', thread', p) = Done(arrived, thread, p)
    BY <2>2, <2>4 DEF Done
  <2>7. NotOvertaken'
    <3>1. ASSUME NEW q \in Paps, q \notin overtaken'
          PROVE  /\ thread'[q] # "idle" => screen = "shown" /\ pressing = "idle"
                 /\ thread'[q] = "writes" => fileOpen
      <4>1. CASE q = p
        BY <2>1, <2>2, <2>4, <3>1, <4>1 DEF NotOvertaken, ScreenInv
      <4>2. CASE q # p
        BY <2>1, <2>2, <2>4, <3>1, <4>2 DEF NotOvertaken
      <4> QED
        BY <4>1, <4>2
    <3>2. ASSUME NEW q \in Paps
          PROVE  thrown' # q /\ (thread'[q] # "idle" => arrived'[q] > 0)
      BY <2>1, <2>2, <2>4 DEF NotOvertaken
    <3> QED
      BY <2>3, <3>1, <3>2 DEF NotOvertaken
  <2>8. overtaken' = overtaken
    BY <2>2
  <2>9. UNCHANGED <<Record!screen, thrown>>
    BY <2>2
  <2> QED
    BY <2>4, <2>5, <2>6, <2>7, <2>8, <2>9, ThreadKeepsRecord
<1> QED
  BY <1>1, <1>2

\* A packet is written: it is the one after the last one in the file.
LEMMA WriteKeeps ==
  ASSUME NEW p \in Paps
  PROVE  RecordInv /\ thrown = "no" /\ Record!WriteAllWall(p) => RecordInv'
<1> SUFFICES ASSUME RecordInv, thrown = "no", Record!WriteAllWall(p) PROVE RecordInv'
  OBVIOUS
<1> USE RecordNames
<1>1. CASE (screen = "none" \/ ~fileOpen) /\ Record!Crash(p)
  BY <1>1, CrashKeeps DEF Record!WriteAllWall
<1>2. CASE ~((screen = "none" \/ ~fileOpen) /\ Record!Crash(p))
  <2>1. Record!TypeOK /\ ScreenInv /\ NotOvertaken /\ PacketInv /\ EndInv
    BY DEF RecordInv
  <2>2. /\ thread[p] = "writes" /\ fileOpen
        /\ record' = Append(record, <<p, arrived[p]>>)
        /\ thread' = [thread EXCEPT ![p] = "idle"]
        /\ UNCHANGED <<screen, m_nRecordState, fileOpen, pressing, empty, early, presses, arrived,
                       overtaken, thrown>>
    BY <1>2 DEF Record!WriteAllWall, Record!Go
  <2>3. /\ record \in Seq(Entries) /\ Len(record) \in Nat /\ DOMAIN record = 1 .. Len(record)
        /\ early \in 0 .. Len(record)
    BY <2>1, RecordTypes DEF Record!TypeOK
  <2>4. arrived[p] \in 1 .. PacketsEach /\ <<p, arrived[p]>> \in Entries
    <3>1. arrived[p] \in 0 .. PacketsEach /\ arrived[p] > 0
      BY <2>1, <2>2 DEF Record!TypeOK, NotOvertaken
    <3> QED
      BY <3>1 DEF Entries
  <2>5. /\ record' \in Seq(Entries) /\ Len(record') = Len(record) + 1
        /\ DOMAIN record' = 1 .. Len(record) + 1
        /\ \A j \in DOMAIN record : j \in DOMAIN record' /\ record'[j] = record[j]
        /\ record'[Len(record) + 1] = <<p, arrived[p]>>
    BY <2>2, <2>3, <2>4
  <2>6. ASSUME NEW j \in DOMAIN record
        PROVE  record[j] # Record!End /\ record[j][1] \in Paps /\ record[j][2] \in 1 .. PacketsEach
    <3>1. record[j] \in Entries /\ record[j] # Record!End
      BY <2>1, <2>2, RecordTypes DEF EndInv
    <3> QED
      BY <3>1, EntryIs
  <2>7. /\ thread' \in [Paps -> {"idle", "copied", "writes"}] /\ thread'[p] = "idle"
        /\ \A q \in Paps : q # p => thread'[q] = thread[q]
    BY <2>1, <2>2 DEF Record!TypeOK
  <2>8. Record!TypeOK'
    BY <2>1, <2>2, <2>3, <2>5, <2>7 DEF Record!TypeOK, Entries
  <2>9. ScreenInv'
    BY <2>1, <2>2 DEF ScreenInv
  <2>10. NotOvertaken'
    BY <2>1, <2>2, <2>7 DEF NotOvertaken
  <2>11. pressing \notin {"opened", "closed"} \/ pressing = "opened"
    BY <2>1, <2>2 DEF ScreenInv
  <2>12. pressing # "opened" => m_nRecordState > 0
    BY <2>1, <2>2 DEF ScreenInv, Record!TypeOK
  <2>13. ASSUME NEW q \in Paps
         PROVE  /\ Done(arrived, thread, q) \in Int
                /\ Done(arrived', thread', q)
                     = IF q = p THEN Done(arrived, thread, q) + 1 ELSE Done(arrived, thread, q)
    <3>1. arrived[q] \in Nat
      BY <2>1 DEF Record!TypeOK
    <3>2. CASE q = p
      BY <2>2, <2>7, <3>1, <3>2 DEF Done
    <3>3. CASE q # p
      BY <2>2, <2>7, <3>1, <3>3 DEF Done
    <3> QED
      BY <3>2, <3>3
  <2>14. Done(arrived, thread, p) = arrived[p] - 1 /\ Done(arrived', thread', p) = arrived[p]
    BY <2>2, <2>4, <2>13 DEF Done
  \* What is before the new packet is complete up to it.
  <2>15. ASSUME pressing # "opened", NEW j \in DOMAIN record, j > early
         PROVE  /\ record[j][2] <= Done(arrived', thread', record[j][1])
                /\ \A n \in record[j][2] .. Done(arrived', thread', record[j][1]) :
                     \E a \in j .. Len(record) + 1 : record'[a] = <<record[j][1], n>>
    <3>1. PICK q \in Paps : q = record[j][1]
      BY <2>6
    <3>2. /\ record[j][2] <= Done(arrived, thread, q)
          /\ \A n \in record[j][2] .. Done(arrived, thread, q) :
               \E a \in j .. Len(record) : record[a] = <<q, n>>
      BY <2>1, <2>2, <2>12, <2>15, <3>1 DEF PacketInv, Complete, NobodyWrites, Gapless
    <3>3. record[j][2] \in Int /\ Done(arrived, thread, q) \in Int
      BY <2>6, <2>13
    <3>4. record[j][2] <= Done(arrived', thread', q)
      BY <2>13, <3>2, <3>3
    <3>5. ASSUME NEW n \in record[j][2] .. Done(arrived', thread', q)
          PROVE  \E a \in j .. Len(record) + 1 : record'[a] = <<q, n>>
      <4>1. CASE n \in record[j][2] .. Done(arrived, thread, q)
        <5>1. PICK a \in j .. Len(record) : record[a] = <<q, n>>
          BY <3>2, <4>1
        <5>2. a \in DOMAIN record /\ a \in j .. Len(record) + 1
          BY <2>3
        <5> QED
          BY <2>5, <5>1, <5>2
      <4>2. CASE n \notin record[j][2] .. Done(arrived, thread, q)
        <5>1. q = p /\ n = Done(arrived', thread', p)
          BY <2>13, <3>3, <4>2
        <5>2. Len(record) + 1 \in j .. Len(record) + 1
          BY <2>3
        <5> QED
          BY <2>5, <2>14, <5>1, <5>2
      <4> QED
        BY <4>1, <4>2
    <3> QED
      BY <3>1, <3>4, <3>5
  <2>16. PacketInv'
    <3>1. ASSUME fileOpen', m_nRecordState' > 0, NEW j \in DOMAIN record', j > early'
          PROVE  /\ record'[j][2] <= Done(arrived', thread', record'[j][1])
                 /\ \A n \in record'[j][2] .. Done(arrived', thread', record'[j][1]) :
                      \E a \in j .. Len(record') : record'[a] = <<record'[j][1], n>>
      <4>1. CASE j \in DOMAIN record
        <5>1. pressing # "opened" /\ j > early /\ record'[j] = record[j]
          BY <2>1, <2>2, <2>5, <3>1, <4>1 DEF ScreenInv
        <5>2. /\ record[j][2] <= Done(arrived', thread', record[j][1])
              /\ \A n \in record[j][2] .. Done(arrived', thread', record[j][1]) :
                   \E a \in j .. Len(record) + 1 : record'[a] = <<record[j][1], n>>
          BY <2>15, <4>1, <5>1
        <5> QED
          BY <2>5, <5>1, <5>2
      <4>2. CASE j \notin DOMAIN record
        <5>1. j = Len(record) + 1 /\ record'[j] = <<p, arrived[p]>>
          BY <2>3, <2>5, <3>1, <4>2
        <5>2. record'[j][1] = p /\ Done(arrived', thread', record'[j][1]) = arrived[p]
          BY <2>14, <5>1
        <5>3. ASSUME NEW n \in arrived[p] .. arrived[p] PROVE n = arrived[p]
          BY <2>4
        <5>4. j \in j .. Len(record')
          BY <2>3, <2>5, <5>1
        <5> QED
          BY <2>4, <5>1, <5>2, <5>3, <5>4
      <4> QED
        BY <4>1, <4>2
    <3>2. ASSUME pressing' = "opened", NEW j \in DOMAIN record'
          PROVE  thread'[record'[j][1]] # "writes"
      <4>1. CASE j \in DOMAIN record
        <5>1. record'[j] = record[j] /\ record[j][1] \in Paps /\ thread[record[j][1]] # "writes"
          BY <2>1, <2>2, <2>5, <2>6, <3>2, <4>1 DEF PacketInv, Complete, NobodyWrites, Gapless
        <5> QED
          BY <2>7, <5>1
      <4>2. CASE j \notin DOMAIN record
        <5>1. record'[j][1] = p
          BY <2>3, <2>5, <3>2, <4>2
        <5> QED
          BY <2>7, <5>1
      <4> QED
        BY <4>1, <4>2
    <3>3. ASSUME NEW j \in DOMAIN record', NEW k \in DOMAIN record', j < k,
                 record'[j][1] = record'[k][1]
          PROVE  k > early' /\ pressing' # "opened" /\ (j > early' => Record!NoGap(j, k)')
      <4>1. j \in DOMAIN record /\ record'[j] = record[j] /\ j \in Nat
        BY <2>3, <2>5, <3>3
      <4>2. CASE k \in DOMAIN record
        <5>1. k > early /\ pressing # "opened" /\ (j > early => Record!NoGap(j, k))
          BY <2>1, <2>5, <3>3, <4>1, <4>2 DEF PacketInv, Complete, NobodyWrites, Gapless
        <5>2. \A a \in j .. k : a \in DOMAIN record /\ record'[a] = record[a]
          BY <2>3, <2>5, <4>1, <4>2
        <5>3. Record!NoGap(j, k) => Record!NoGap(j, k)'
          BY <2>3, <3>3, <4>1, <4>2, <5>2, GapKept
        <5> QED
          BY <2>2, <5>1, <5>3
      <4>3. CASE k \notin DOMAIN record
        <5>1. k = Len(record) + 1 /\ record'[k] = <<p, arrived[p]>> /\ record[j][1] = p
          BY <2>3, <2>5, <3>3, <4>1, <4>3
        <5>2. pressing # "opened" /\ k > early
          BY <2>1, <2>2, <2>3, <4>1, <5>1 DEF PacketInv, Complete, NobodyWrites, Gapless
        <5>3. ASSUME j > early PROVE Record!NoGap(j, k)'
          <6>1. /\ record[j][2] <= Done(arrived, thread, p)
                /\ \A n \in record[j][2] .. arrived[p] :
                     \E a \in j .. k : record'[a] = <<p, n>>
            <7>1. record[j][2] <= Done(arrived, thread, p)
              BY <2>1, <2>2, <2>12, <4>1, <5>1, <5>2, <5>3 DEF PacketInv, Complete
            <7>2. Done(arrived', thread', record[j][1]) = arrived[p]
              BY <2>14, <5>1
            <7> QED
              BY <2>15, <4>1, <5>1, <5>2, <5>3, <7>1, <7>2
          <6>2. record'[j][2] < record'[k][2]
            BY <2>4, <2>6, <2>14, <4>1, <5>1, <6>1
          <6>3. record'[j][1] = p /\ record'[j][2] = record[j][2] /\ record'[k][2] = arrived[p]
            BY <4>1, <5>1
          <6> QED
            BY <6>1, <6>2, <6>3 DEF Record!NoGap
        <5> QED
          BY <2>2, <5>2, <5>3
      <4> QED
        BY <4>2, <4>3
    <3> QED
      BY <3>1, <3>2, <3>3 DEF PacketInv, Complete, NobodyWrites, Gapless
  <2>17. EndInv'
    <3>1. ASSUME NEW a \in DOMAIN record' PROVE record'[a] # Record!End
      <4>1. CASE a \in DOMAIN record
        BY <2>5, <2>6, <4>1
      <4>2. CASE a \notin DOMAIN record
        BY <2>3, <2>4, <2>5, <3>1, <4>2, EndIs
      <4> QED
        BY <4>1, <4>2
    <3>2. ASSUME pressing' \in {"saving", "closed"}, empty', NEW a \in DOMAIN record'
          PROVE  record'[a][1] \in overtaken'
      <4>1. CASE a \in DOMAIN record
        BY <2>1, <2>2, <2>5, <2>6, <3>2, <4>1 DEF EndInv
      <4>2. CASE a \notin DOMAIN record
        <5>1. record'[a][1] = p
          BY <2>3, <2>5, <3>2, <4>2
        <5> QED
          BY <2>1, <2>2, <3>2, <5>1 DEF NotOvertaken
      <4> QED
        BY <4>1, <4>2
    <3> QED
      BY <3>1, <3>2 DEF EndInv
  <2> QED
    BY <2>8, <2>9, <2>10, <2>16, <2>17 DEF RecordInv
<1> QED
  BY <1>1, <1>2

LEMMA StepRecord == RecordInv /\ [Record!Next]_(Record!recording) => RecordInv'
<1> SUFFICES ASSUME RecordInv, [Record!Next]_(Record!recording) PROVE RecordInv'
  OBVIOUS
<1>1. CASE UNCHANGED Record!recording
  <2>1. UNCHANGED <<screen, m_nRecordState, fileOpen, record, pressing, empty, arrived, thread,
                    overtaken, early, presses, thrown>>
    BY <1>1 DEF Record!recording, Record!screen, Record!threads
  <2>2. Record!TypeOK' /\ ScreenInv' /\ NotOvertaken' /\ EndInv'
    BY <2>1 DEF RecordInv, Record!TypeOK, ScreenInv, NotOvertaken, EndInv
  <2>3. PacketInv'
    BY <2>1, PacketsKept DEF RecordInv
  <2> QED
    BY <2>2, <2>3 DEF RecordInv
<1>2. CASE Record!Next
  <2>1. Record!ProcessPAP_Data => RecordInv'
    BY <1>2, CopyKeeps, TestKeeps, WriteKeeps DEF Record!Next, Record!ProcessPAP_Data
  <2> QED
    BY <1>2, <2>1, DialogKeeps, ButtonKeeps, OpenKeeps, CloseKeeps DEF Record!Next
<1> QED
  BY <1>1, <1>2

LEMMA RecordMeans == RecordInv => Record!RecordIsWhole
<1> SUFFICES ASSUME RecordInv PROVE Record!RecordIsWhole
  OBVIOUS
<1>1. /\ NotOvertaken /\ PacketInv /\ EndInv
      /\ record \in Seq(Entries) /\ Len(record) \in Nat /\ DOMAIN record = 1 .. Len(record)
  BY RecordTypes DEF RecordInv
<1>3. \A a \in DOMAIN record : record[a] = Record!End => ~fileOpen /\ a = Len(record)
  BY <1>1 DEF EndInv
<1>4. pressing = "closed" /\ (\E a \in DOMAIN record : record[a] = Record!End) =>
        \A a \in DOMAIN record : record[a] # Record!End => record[a][1] \in overtaken
  BY <1>1 DEF EndInv
<1>5. \A p \in Paps : thrown = p => p \in overtaken
  BY <1>1 DEF NotOvertaken
<1>6. \A j, k \in DOMAIN record :
        j < k /\ record[j][1] = record[k][1] => k > early /\ (j > early => Record!NoGap(j, k))
  BY <1>1 DEF PacketInv, Complete, NobodyWrites, Gapless
<1> QED
  BY <1>3, <1>4, <1>5, <1>6 DEF Record!RecordIsWhole

\* For any PAPs, packets and presses: a record has the packets of each PAP without a gap, and
\* "End" only if it has none, but for what a press overtakes (OnBnClickedBnRecord and
\* ProcessPAP_Data).
THEOREM RecordStaysWhole == Record!Spec => []Record!RecordIsWhole
BY RecordStarts, StepRecord, RecordMeans, PTL DEF Record!Spec

\* The run that exercises the parts, one at a time, does with the record what Recording does.
LEMMA PartsRecord == MCSpec => Record!Spec
<1>1. MCInit => Record!Init
  BY DEF MCInit
<1>2. ASSUME [MCNext]_<<part, data, others>> PROVE [Record!Next]_(Record!recording)
  <2>1. UNCHANGED others => UNCHANGED threads
    BY DEF others
  <2>2. UNCHANGED <<part, data, others>> => UNCHANGED others
    OBVIOUS
  <2>3. UNCHANGED threads => UNCHANGED recording
    BY DEF threads
  <2>4. Acting => Record!Next \/ UNCHANGED recording
    BY DEF Acting
  <2>5. MCNext => Acting \/ UNCHANGED others \/ UNCHANGED threads
    BY DEF MCNext
  <2>6. UNCHANGED recording => UNCHANGED Record!recording
    BY DEF recording, Record!recording, Record!screen, Record!threads
  <2> QED
    BY <1>2, <2>1, <2>2, <2>3, <2>4, <2>5, <2>6
<1> QED
  BY <1>1, <1>2, PTL DEF MCSpec, Record!Spec

\* The same of the run.
THEOREM PartsRecordIsWhole == MCSpec => []RecordIsWhole
<1>1. Record!RecordIsWhole => RecordIsWhole
  BY DEF RecordIsWhole
<1> QED
  BY <1>1, PartsRecord, RecordStaysWhole, PTL

-----------------------------------------------------------------------------
(* The number of a PAP, for any drives and numbers.                         *)

\* Some numbers have a smallest.
LEMMA Smallest ==
  ASSUME NEW S \in SUBSET Nat, S # {}
  PROVE  \E x \in S : \A y \in S : x <= y
<1>1. PICK x \in S : \A y \in S : ~(<<y, x>> \in OpToRel(<, Nat))
  BY NatLessThanWellFounded, WFMin
<1>2. ASSUME NEW y \in S PROVE x <= y
  <2>1. x \in Nat /\ y \in Nat /\ ~(y < x)
    BY <1>1 DEF OpToRel
  <2> QED
    BY <2>1
<1> QED
  BY <1>2

\* The files are in the drives that are searched.
NumberInv == roots \subseteq Number!Places

LEMMA DrivesAre ==
  /\ Drives \in Seq(STRING) /\ Len(Drives) \in Nat /\ DOMAIN Drives = 1 .. Len(Drives)
  /\ \A m \in DOMAIN Drives : Drives[m] = "C" => m = Len(Drives)
  /\ \E m \in DOMAIN Drives : Drives[m] = "C"
  /\ HighestNumber \in Nat /\ Tried \in 1 .. HighestNumber - 1
BY PartsAssumption DEF Number!Parameters

LEMMA Lowest ==
  ASSUME NEW S \in SUBSET Nat, S # {}
  PROVE  /\ Number!Min(S) \in S
         /\ \A y \in S : Number!Min(S) <= y
BY Smallest DEF Number!Min

\* A file is a drive that is searched and a number.
LEMMA FileIs ==
  ASSUME NumberInv, NEW f \in roots
  PROVE  /\ f = <<f[1], f[2]>> /\ f[2] \in 1 .. HighestNumber
         /\ \E m \in DOMAIN Drives : Drives[m] = f[1]
BY DEF NumberInv, Number!Places, Number!Numbers

LEMMA NumberStarts == Number!Init => NumberInv
BY DEF Number!Init, NumberInv

LEMMA NumberSteps == NumberInv /\ [Number!Next]_(Number!vars) => NumberInv'
<1> SUFFICES ASSUME NumberInv, [Number!Next]_(Number!vars) PROVE NumberInv'
  OBVIOUS
<1>1. ASSUME Number!Insert PROVE NumberInv'
  <2>1. PICK f \in Number!Places \ roots : roots' = roots \cup {f}
    BY <1>1 DEF Number!Insert
  <2> QED
    BY <2>1 DEF NumberInv, Number!Places, Number!Numbers
<1>2. ASSUME Number!Remove PROVE NumberInv'
  <2>1. PICK f \in roots : roots' = roots \ {f}
    BY <1>2 DEF Number!Remove
  <2> QED
    BY <2>1 DEF NumberInv, Number!Places, Number!Numbers
<1>3. ASSUME roots' = roots PROVE NumberInv'
  BY <1>3 DEF NumberInv, Number!Places, Number!Numbers
<1> QED
  BY <1>1, <1>2, <1>3
     DEF Number!Next, Number!vars, Number!Install, Number!Stop, Number!ReadPAPnumber

\* The only stick is in a drive with a number that is tried, and it comes before C.
LEMMA StickIsTried ==
  ASSUME NumberInv, NEW d, NEW n, Number!Sticks = {<<d, n>>}
  PROVE  /\ <<d, n>> \in roots /\ d # "C" /\ n \in 1 .. Tried
         /\ \E m \in Number!With : Drives[m] = d /\ m # Len(Drives)
<1>1. /\ <<d, n>> \in roots /\ d # "C" /\ n <= Tried
  BY DEF Number!Sticks
<1>2. PICK f : f = <<d, n>>
  OBVIOUS
<1>3. f \in roots /\ f[1] = d /\ f[2] = n
  BY <1>1, <1>2
<1>4. n \in 1 .. HighestNumber /\ \E m \in DOMAIN Drives : Drives[m] = d
  BY <1>3, FileIs
<1>5. n \in 1 .. Tried
  BY <1>1, <1>4, DrivesAre
<1>6. PICK m \in DOMAIN Drives : Drives[m] = d
  BY <1>4
<1>7. m \in Number!With
  BY <1>1, <1>5, <1>6 DEF Number!With, Number!In
<1>8. PICK c \in DOMAIN Drives : Drives[c] = "C"
  BY DrivesAre
<1>9. c = Len(Drives) /\ m # c
  BY <1>1, <1>6, <1>8, DrivesAre
<1> QED
  BY <1>1, <1>5, <1>6, <1>7, <1>9

\* A number from a drive is that of the first drive with one that is tried.
LEMMA DriveWins ==
  ASSUME NumberInv, Number!FromDrive
  PROVE  Number!StickWins
<1>1. PICK k : k = Number!Min(Number!With)
  OBVIOUS
<1>2. k \in Number!With /\ \A m \in Number!With : k <= m
  <2>1. Number!With # {}
    BY DEF Number!FromDrive
  <2>2. \A m \in Number!With : m \in DOMAIN Drives
    BY DEF Number!With
  <2>3. Number!With \in SUBSET Nat
    BY <2>2, DrivesAre
  <2> QED
    BY <1>1, <2>1, <2>3, Lowest
<1>3. PICK n : n = Number!Min(Number!In(Drives[k], 1 .. Tried))
  OBVIOUS
<1>4. n \in 1 .. Tried /\ <<Drives[k], n>> \in roots
  <2>1. Number!In(Drives[k], 1 .. Tried) # {}
    BY <1>2 DEF Number!With
  <2>2. Number!In(Drives[k], 1 .. Tried) \in SUBSET Nat
    BY DrivesAre DEF Number!In
  <2>3. n \in Number!In(Drives[k], 1 .. Tried)
    BY <1>3, <2>1, <2>2, Lowest
  <2> QED
    BY <2>3 DEF Number!In
<1>5. /\ gbAssignedPAPNumber' = n
      /\ myID' = IF Drives[k] = "C" THEN myID ELSE Number!DeleteOldPapNumbers(n)
  BY <1>1, <1>3 DEF Number!FromDrive
<1>6. k \in 1 .. Len(Drives)
  BY <1>2, DrivesAre DEF Number!With
<1>7. ASSUME NEW d, NEW m, Number!Sticks = {<<d, m>>}
      PROVE  gbAssignedPAPNumber' = m /\ myID' \subseteq {m}
  <2>1. PICK j \in Number!With : Drives[j] = d /\ j # Len(Drives) /\ d # "C"
    BY <1>7, StickIsTried
  <2>2. j \in 1 .. Len(Drives) /\ k <= j
    BY <1>2, <2>1, DrivesAre DEF Number!With
  <2>3. PICK l \in Nat : l = Len(Drives)
    BY DrivesAre
  <2>4. k # l
    BY <1>6, <2>1, <2>2, <2>3
  <2>5. Drives[k] # "C"
    BY <1>6, <2>4, <2>3, DrivesAre
  <2>6. PICK f : f = <<Drives[k], n>>
    OBVIOUS
  <2>7. f \in roots /\ f[1] # "C" /\ f[2] <= Tried
    BY <1>4, <2>5, <2>6, DrivesAre
  <2>8. f \in Number!Sticks
    BY <2>7 DEF Number!Sticks
  <2>9. n = m
    BY <1>7, <2>6, <2>8
  <2> QED
    BY <1>5, <2>5, <2>9 DEF Number!DeleteOldPapNumbers
<1>8. \E f \in roots : f[2] = gbAssignedPAPNumber'
  BY <1>4, <1>5
<1> QED
  BY <1>7, <1>8 DEF Number!StickWins

\* Without a drive that has a number there is no stick.
LEMMA NoDriveWins ==
  ASSUME NumberInv, Number!GetPAPFromCDrive
  PROVE  Number!StickWins
<1>1. Number!With = {}
  BY DEF Number!GetPAPFromCDrive
<1>2. ASSUME NEW d, NEW m, Number!Sticks = {<<d, m>>} PROVE FALSE
  BY <1>1, <1>2, StickIsTried
<1>3. ASSUME gbAssignedPAPNumber' # HighestNumber
      PROVE  \E f \in roots : f[2] = gbAssignedPAPNumber'
  <2>1. PICK n : n = Number!Min(Number!Stored)
    OBVIOUS
  <2>2. Number!Stored # {} /\ gbAssignedPAPNumber' = n
    BY <1>3, <2>1 DEF Number!GetPAPFromCDrive
  <2>3. Number!Stored \in SUBSET Nat
    BY DEF Number!Stored, Number!In, Number!Numbers
  <2>4. n \in Number!Stored
    BY <2>1, <2>2, <2>3, Lowest
  <2> QED
    BY <2>2, <2>4 DEF Number!Stored, Number!In
<1> QED
  BY <1>2, <1>3 DEF Number!StickWins

LEMMA NumberWins == NumberInv /\ Number!Next => Number!StickWins
<1> SUFFICES ASSUME NumberInv, Number!Next, gbAssignedPAPNumber = 0, gbAssignedPAPNumber' # 0
             PROVE  Number!StickWins
  BY DEF Number!StickWins, Number!None
<1>1. Number!ReadPAPnumber
  BY DEF Number!Next, Number!Insert, Number!Remove, Number!Install, Number!Stop, Number!None
<1> QED
  BY <1>1, DriveWins, NoDriveWins DEF Number!ReadPAPnumber

\* For any drives of which C is the last, and any numbers and files: a PAP that starts with one
\* memory stick has the number of the stick and leaves no file of another one in MyID, and no PAP
\* starts under a number below the highest that is on no drive (ReadPAPnumber,
\* DeleteOldPapNumbers and GetPAPFromCDrive).
THEOREM StickPrevails == Number!Spec => [][Number!StickWins]_(Number!vars)
<1>1. NumberInv /\ [Number!Next]_(Number!vars) => [Number!StickWins]_(Number!vars)
  BY NumberWins
<1> QED
  BY <1>1, NumberStarts, NumberSteps, PTL DEF Number!Spec

LEMMA PartsNumber == MCSpec => Number!Spec
<1>1. MCInit => Number!Init
  BY DEF MCInit
<1>2. ASSUME [MCNext]_<<part, data, others>> PROVE [Number!Next]_(Number!vars)
  <2>1. UNCHANGED <<memories>> => UNCHANGED numbers
    BY DEF memories
  <2>2. UNCHANGED others => UNCHANGED memories
    BY DEF others
  <2>3. Keeping => Number!Next \/ UNCHANGED numbers
    BY DEF Keeping
  <2>4. MCNext => Keeping \/ UNCHANGED memories
    BY <2>2 DEF MCNext
  <2>5. UNCHANGED numbers => UNCHANGED Number!vars
    BY DEF numbers, Number!vars
  <2> QED
    BY <1>2, <2>1, <2>2, <2>3, <2>4, <2>5
<1> QED
  BY <1>1, <1>2, PTL DEF MCSpec, Number!Spec

\* The same of the run.
THEOREM PartsStickWins == MCSpec => StickWins
<1>1. [Number!StickWins]_(Number!vars) => [part = "number" => Number!StickWins]_numbers
  BY DEF numbers, Number!vars
<1> QED
  BY <1>1, PartsNumber, StickPrevails, PTL DEF StickWins

-----------------------------------------------------------------------------
(* The commands of the dialog of the PAG, for any PAPs, boards and texts.   *)

\* A command for the PAP and board of the dialog, with an id of one of the three ranges.
Made == [id : Int, pap : Int, board : Int, seq : Int, ch : Int, gate : Int, value : Int, size : Int]
Addressed ==
  {k \in Made :
    /\ k.pap = kept["pap"] /\ k.board = kept["board"]
    /\ \/ k.id \in (1 .. 39) \cup (768 .. 777) /\ k.size = 32
       \/ k.id \in {516, 517} /\ k.size \in 0 .. 1056}

\* What an edit box shows is what commands are made from, unless something else was done
\* since the last click on its arrows.
FieldsInv ==
  /\ \A f \in Dialog!Fields : position[f] \in 0 .. Arrows[f] /\ kept[f] \in 0 .. Arrows[f]
  /\ position \in [Dialog!Fields -> Nat] /\ kept \in [Dialog!Fields -> Nat]
  /\ text \in [Dialog!Fields -> Nat] /\ clicked \in [Dialog!Fields -> Nat]
  /\ unsure \subseteq Dialog!Fields /\ changes \in 0 .. MaxChanges
  /\ kind \in {"small", "large", "pulser"} /\ m_nReadBackWhat \in 1 .. 3
  /\ kept["pap"] = clicked["pap"] /\ kept["board"] = clicked["board"]
  /\ \A f \in Dialog!Fields \ unsure : kept[f] = text[f]

\* What a choice has put on the list.
ChoiceInv ==
  /\ chosen = {} => onList = << >>
  /\ \A n \in DOMAIN onList : onList[n].id \in 1 .. 777
  /\ deleted = FALSE
  /\ Dialog!OffersArrive /\ Dialog!ShownIsSent

DialogInv == FieldsInv /\ ChoiceInv

LEMMA DialogIs ==
  /\ Arrows \in [Dialog!Fields -> Nat] /\ TypedTexts \in [Dialog!Fields -> SUBSET Nat]
  /\ Blasts \in [{"pulser", "adc", "large", "last"} -> Nat] /\ MaxChanges \in Nat
  /\ Arrows["seq"] <= 31
BY PartsAssumption DEF Dialog!Parameters

LEMMA FieldsAre == Dialog!Fields = {"pap", "board", "seq", "ch", "gate", "param"}
BY DEF Dialog!Fields

LEMMA IdsAre ==
  /\ Dialog!LastSmall = 39 /\ Dialog!FirstLarge = 512 /\ Dialog!LastLarge = 10
  /\ Dialog!FirstPulser = 768 /\ Dialog!LastPulser = 9 /\ Dialog!SetWallNx = 28
  /\ Dialog!NcNx = 513 /\ Dialog!LargeSent = {513, 516, 517}
  /\ Dialog!SmallSize = 32 /\ Dialog!LargestSize = 1056
  /\ Dialog!TcgGain = 516 /\ Dialog!SeqTcgGain = 517
BY DEF Dialog!LastSmall, Dialog!FirstLarge, Dialog!LastLarge, Dialog!FirstPulser,
       Dialog!LastPulser, Dialog!SetWallNx, Dialog!NcNx, Dialog!LargeSent, Dialog!SmallSize,
       Dialog!LargestSize, Dialog!TcgGain, Dialog!SeqTcgGain

\* The numbers the dialog makes commands from.
LEMMA KeptIs ==
  ASSUME FieldsInv
  PROVE  /\ \A f \in {"pap", "board", "seq", "ch", "gate", "param"} : kept[f] \in Nat
         /\ kept["seq"] \in 0 .. 31
<1>1. kept \in [Dialog!Fields -> Nat] /\ kept["seq"] \in 0 .. Arrows["seq"]
  BY FieldsAre DEF FieldsInv
<1>2. Arrows["seq"] \in Nat /\ Arrows["seq"] <= 31
  BY DialogIs, FieldsAre
<1> QED
  BY <1>1, <1>2, FieldsAre

-----------------------------------------------------------------------------
\* Edit boxes, arrows and buttons.

LEMMA DialogStarts == Dialog!Init => DialogInv
<1> SUFFICES ASSUME Dialog!Init PROVE DialogInv
  OBVIOUS
<1>1. PICK zero : zero = [f \in Dialog!Fields |-> 0]
  OBVIOUS
<1>2. /\ text = zero /\ position = zero /\ kept = zero /\ clicked = zero /\ unsure = {}
      /\ kind = "small" /\ m_nReadBackWhat = 1 /\ changes = 0
      /\ chosen = {} /\ onList = << >> /\ deleted = FALSE
  BY <1>1 DEF Dialog!Init, Dialog!Zero, Dialog!NoChoice
<1>3. /\ \A f \in Dialog!Fields : zero[f] = 0 /\ Arrows[f] \in Nat
      /\ zero \in [Dialog!Fields -> Nat] /\ "pap" \in Dialog!Fields /\ "board" \in Dialog!Fields
  BY <1>1, DialogIs, FieldsAre
<1>4. FieldsInv
  BY <1>2, <1>3, DialogIs DEF FieldsInv
<1>5. ChoiceInv
  BY <1>2 DEF ChoiceInv, Dialog!OffersArrive, Dialog!ShownIsSent
<1> QED
  BY <1>4, <1>5 DEF DialogInv

\* Nothing is chosen by it.
LEMMA NothingChosen ==
  ASSUME DialogInv, chosen' = Dialog!NoChoice, onList' = << >>, UNCHANGED deleted
  PROVE  ChoiceInv'
<1>1. deleted' = FALSE /\ chosen' = {} /\ DOMAIN onList' = {}
  BY DEF DialogInv, ChoiceInv, Dialog!NoChoice
<1>2. Dialog!OffersArrive' /\ Dialog!ShownIsSent'
  BY <1>1 DEF Dialog!OffersArrive, Dialog!ShownIsSent
<1> QED
  BY <1>1, <1>2 DEF ChoiceInv

LEMMA ClickKeeps ==
  ASSUME DialogInv, NEW f \in Dialog!Fields, Dialog!OnDeltapos(f)
  PROVE  DialogInv'
<1>1. PICK delta, v :
        /\ delta \in {-1, 1} /\ v = Dialog!GetSpinValue(f, delta)
        /\ kept' = [kept EXCEPT ![f] = v] /\ text' = [text EXCEPT ![f] = v]
        /\ position' = [position EXCEPT ![f] = v] /\ clicked' = [clicked EXCEPT ![f] = v]
  BY DEF Dialog!OnDeltapos
<1>2. /\ unsure' = unsure \ {f} /\ changes < MaxChanges /\ changes' = changes + 1
      /\ chosen' = Dialog!NoChoice /\ onList' = << >>
      /\ UNCHANGED <<kind, m_nReadBackWhat, deleted>>
  BY DEF Dialog!OnDeltapos, Dialog!Change
<1>3. FieldsInv
  BY DEF DialogInv
<1>4. v \in 0 .. Arrows[f] /\ v \in Nat
  <2>1. /\ text[f] \in Nat /\ position[f] \in Nat /\ Arrows[f] \in Nat
    BY <1>3, DialogIs DEF FieldsInv
  <2>2. Dialog!Taken(f) \in Nat
    BY <2>1 DEF Dialog!Taken
  <2>3. PICK w \in Int : w = Dialog!Taken(f) + delta
    BY <1>1, <2>2
  <2>4. v = IF w < 0 THEN 0 ELSE IF w > Arrows[f] THEN Arrows[f] ELSE w
    BY <1>1, <2>3 DEF Dialog!GetSpinValue
  <2> QED
    BY <2>1, <2>4
<1>5. changes' \in 0 .. MaxChanges
  BY <1>2, <1>3, DialogIs DEF FieldsInv
<1>6. /\ \A g \in Dialog!Fields : position'[g] \in 0 .. Arrows[g] /\ kept'[g] \in 0 .. Arrows[g]
      /\ position' \in [Dialog!Fields -> Nat] /\ kept' \in [Dialog!Fields -> Nat]
      /\ text' \in [Dialog!Fields -> Nat] /\ clicked' \in [Dialog!Fields -> Nat]
  BY <1>1, <1>3, <1>4 DEF FieldsInv
<1>7. kept'["pap"] = clicked'["pap"] /\ kept'["board"] = clicked'["board"]
  BY <1>1, <1>3, FieldsAre DEF FieldsInv
<1>8. \A g \in Dialog!Fields \ unsure' : kept'[g] = text'[g]
  BY <1>1, <1>2, <1>3 DEF FieldsInv
<1>9. FieldsInv'
  BY <1>2, <1>3, <1>5, <1>6, <1>7, <1>8 DEF FieldsInv
<1> QED
  BY <1>2, <1>9, NothingChosen DEF DialogInv

LEMMA TypeKeeps ==
  ASSUME DialogInv, NEW f \in Dialog!Fields, Dialog!OnEnChange(f)
  PROVE  DialogInv'
<1>1. PICK v \in TypedTexts[f] \ {text[f]} :
        /\ text' = [text EXCEPT ![f] = v]
        /\ unsure' = IF Dialog!Handled(f) /\ Dialog!InRange(f, v) THEN unsure \ {f}
                     ELSE unsure \cup {f}
        /\ IF Dialog!Handled(f)
           THEN LET p == IF Dialog!InRange(f, v) THEN v ELSE position[f] IN
                  position' = [position EXCEPT ![f] = p] /\ kept' = [kept EXCEPT ![f] = p]
           ELSE UNCHANGED <<position, kept>>
  BY DEF Dialog!OnEnChange
<1>2. /\ UNCHANGED clicked /\ changes < MaxChanges /\ changes' = changes + 1
      /\ chosen' = Dialog!NoChoice /\ onList' = << >>
      /\ UNCHANGED <<kind, m_nReadBackWhat, deleted>>
  BY DEF Dialog!OnEnChange, Dialog!Change
<1>3. FieldsInv
  BY DEF DialogInv
<1>4. v \in Nat /\ Arrows[f] \in Nat
  BY DialogIs
<1>5. changes' \in 0 .. MaxChanges
  BY <1>2, <1>3, DialogIs DEF FieldsInv
<1>6. text' \in [Dialog!Fields -> Nat] /\ unsure' \subseteq Dialog!Fields
  BY <1>1, <1>3, <1>4 DEF FieldsInv
<1>7. ASSUME Dialog!Handled(f), NEW p, p = IF Dialog!InRange(f, v) THEN v ELSE position[f]
      PROVE  FieldsInv'
  <2>1. position' = [position EXCEPT ![f] = p] /\ kept' = [kept EXCEPT ![f] = p]
    BY <1>1, <1>7
  <2>2. p \in 0 .. Arrows[f] /\ p \in Nat
    BY <1>3, <1>4, <1>7 DEF FieldsInv, Dialog!InRange
  <2>3. /\ \A g \in Dialog!Fields : position'[g] \in 0 .. Arrows[g] /\ kept'[g] \in 0 .. Arrows[g]
        /\ position' \in [Dialog!Fields -> Nat] /\ kept' \in [Dialog!Fields -> Nat]
    BY <1>3, <2>1, <2>2 DEF FieldsInv
  <2>4. kept'["pap"] = clicked'["pap"] /\ kept'["board"] = clicked'["board"]
    BY <1>2, <1>3, <1>7, <2>1, FieldsAre DEF FieldsInv, Dialog!Handled
  <2>5. \A g \in Dialog!Fields \ unsure' : kept'[g] = text'[g]
    BY <1>1, <1>3, <1>7, <2>1 DEF FieldsInv
  <2> QED
    BY <1>2, <1>3, <1>5, <1>6, <2>3, <2>4, <2>5 DEF FieldsInv
<1>8. ASSUME ~Dialog!Handled(f) PROVE FieldsInv'
  <2>1. UNCHANGED <<position, kept>> /\ unsure' = unsure \cup {f}
    BY <1>1, <1>8
  <2>2. \A g \in Dialog!Fields \ unsure' : kept'[g] = text'[g]
    BY <1>1, <1>3, <2>1 DEF FieldsInv
  <2> QED
    BY <1>2, <1>3, <1>5, <1>6, <2>1, <2>2 DEF FieldsInv
<1>9. FieldsInv'
  BY <1>7, <1>8
<1> QED
  BY <1>2, <1>9, NothingChosen DEF DialogInv

LEMMA ButtonsKeep ==
  ASSUME DialogInv, Dialog!PopulateCmdComboBox \/ Dialog!OnCbnSelchangeCbRdwhat
  PROVE  DialogInv'
<1>1. /\ kind' \in {"small", "large", "pulser"} /\ m_nReadBackWhat' \in 1 .. 3
      /\ UNCHANGED Dialog!fields
  BY DEF Dialog!PopulateCmdComboBox, Dialog!OnCbnSelchangeCbRdwhat, Dialog!Entries, DialogInv,
         FieldsInv
<1>2. chosen' = Dialog!NoChoice /\ onList' = << >> /\ UNCHANGED deleted
  BY DEF Dialog!PopulateCmdComboBox, Dialog!OnCbnSelchangeCbRdwhat
<1>3. FieldsInv'
  BY <1>1 DEF DialogInv, FieldsInv, Dialog!fields
<1> QED
  BY <1>2, <1>3, NothingChosen DEF DialogInv

-----------------------------------------------------------------------------
\* What SendMsg does with a command.

\* A copy is the command but for its size and, of SEQ_TCG_GAIN_CMD_ID, the value.
LEMMA CopyIs ==
  ASSUME NEW k \in Made
  PROVE  LET c == Dialog!Copied(k) IN
           /\ c.id = k.id /\ c.pap = k.pap /\ c.board = k.board
           /\ c.seq = k.seq /\ c.ch = k.ch /\ c.gate = k.gate
           /\ c.value = IF k.id = 517 THEN 0 ELSE k.value
           /\ c.size = IF k.id >= 512 /\ k.size > Dialog!Limit(k) THEN Dialog!Limit(k) ELSE k.size
BY IdsAre DEF Dialog!Copied, Made

LEMMA AddressedAre ==
  ASSUME NEW k \in Addressed
  PROVE  /\ k \in Made /\ k.id \in Int /\ k.size \in Int
         /\ \/ k.id \in (1 .. 39) \cup (768 .. 777) /\ k.size = 32
            \/ k.id \in {516, 517} /\ k.size \in 0 .. 1056
BY DEF Addressed, Made

\* Every command of the dialog passes SendMsg.
LEMMA AddressedPass ==
  ASSUME NEW k \in Addressed
  PROVE  Dialog!SendMsg(k) /\ ~Dialog!Deletes(k)
BY AddressedAre, IdsAre DEF Dialog!SendMsg, Dialog!Known, Dialog!Deletes, Dialog!LargeId

\* And all but the reset of the pulser arrive.
LEMMA AddressedArrive ==
  ASSUME NEW k \in Addressed, NEW c, c = Dialog!Copied(k)
  PROVE  /\ k.id # 777 => Dialog!Arrives(c)
         /\ k.id = 777 => ~Dialog!Arrives(c)
         /\ c.id \in 1 .. 777
<1>1. k \in Made /\ (\/ k.id \in (1 .. 39) \cup (768 .. 777) /\ k.size = 32
                     \/ k.id \in {516, 517} /\ k.size \in 0 .. 1056)
  BY AddressedAre
<1>2. k.id \in Int /\ k.size \in Int
  BY AddressedAre
<1>3. Dialog!Limit(k) = IF k.id \in 512 .. 767 THEN 1056 ELSE 32
  BY IdsAre DEF Dialog!Limit, Dialog!LargeId
<1>4. c.id = k.id /\ c.size = k.size
  BY <1>1, <1>2, <1>3, CopyIs
<1>5. Dialog!Arrives(c) <=> k.id # 777
  BY <1>1, <1>2, <1>4, IdsAre DEF Dialog!Arrives, Dialog!Forwarded, Dialog!Valid, Dialog!Sendable
<1> QED
  BY <1>1, <1>2, <1>4, <1>5

LEMMA SilentAre ==
  ASSUME NEW k, NEW e
  PROVE  <<k, e>> \in Dialog!Silent <=> \/ k = "small" /\ e \in {0, 13} \cup 14 .. 26 \cup {31, 32}
                                        \/ k = "pulser" /\ e = 9
BY IdsAre DEF Dialog!Silent

\* What is chosen puts all of its commands on the list.
LEMMA AllSent ==
  ASSUME DialogInv, NEW e, NEW commands \in Seq(Addressed), Dialog!Sends(e, commands)
  PROVE  /\ ~deleted' /\ chosen' = {<<kind, e>>} /\ UNCHANGED <<kind, m_nReadBackWhat>>
         /\ DOMAIN onList' = DOMAIN commands
         /\ \A n \in DOMAIN onList' : onList'[n] = Dialog!Copied(commands[n])
<1>1. \A n \in DOMAIN commands : commands[n] \in Addressed
  BY ElementOfSeq
<1>2. \A n \in DOMAIN commands : Dialog!SendMsg(commands[n]) /\ ~Dialog!Deletes(commands[n])
  BY <1>1, AddressedPass
<1>3. deleted = FALSE
  BY DEF DialogInv, ChoiceInv
<1>4. /\ chosen' = {<<kind, e>>} /\ UNCHANGED <<kind, m_nReadBackWhat>>
      /\ onList' = [n \in {m \in DOMAIN commands : Dialog!SendMsg(commands[m])} |->
                      Dialog!Copied(commands[n])]
      /\ deleted' = (deleted \/ \E n \in DOMAIN commands : Dialog!Deletes(commands[n]))
  BY DEF Dialog!Sends
<1>5. deleted' = FALSE
  BY <1>2, <1>3, <1>4
<1>6. {m \in DOMAIN commands : Dialog!SendMsg(commands[m])} = DOMAIN commands
  BY <1>2
<1> QED
  BY <1>4, <1>5, <1>6

LEMMA NoneDeleted ==
  ASSUME DialogInv, NEW e, NEW commands \in Seq(Addressed), Dialog!Sends(e, commands)
  PROVE  deleted' = FALSE
<1>1. \A n \in DOMAIN commands : ~Dialog!Deletes(commands[n])
  BY ElementOfSeq, AddressedPass
<1>2. deleted = FALSE
  BY DEF DialogInv, ChoiceInv
<1> QED
  BY <1>1, <1>2 DEF Dialog!Sends

\* A choice of a single command.
LEMMA OneSent ==
  ASSUME DialogInv, NEW e, NEW k \in Addressed, Dialog!Sends(e, <<k>>),
         <<kind, e>> \in Dialog!Silent <=> k.id = 777, <<kind, e>> # <<"small", 12>>,
         UNCHANGED <<text, clicked>>,
         \A f \in Dialog!Carried(Dialog!Copied(k)) \ unsure' :
           Dialog!Value(Dialog!Copied(k), f) = text[f]
  PROVE  ChoiceInv'
<1>1. PICK commands : commands = <<k>>
  OBVIOUS
<1>2. commands \in Seq(Addressed) /\ DOMAIN commands = {1} /\ commands[1] = k
  BY <1>1
<1>3. /\ ~deleted' /\ chosen' = {<<kind, e>>}
      /\ DOMAIN onList' = {1} /\ onList'[1] = Dialog!Copied(k)
  BY <1>1, <1>2, AllSent
<1>4. PICK c : c = Dialog!Copied(k)
  OBVIOUS
<1>5. /\ Dialog!Arrives(c) <=> k.id # 777
      /\ c.id \in 1 .. 777
  BY <1>4, AddressedArrive
<1>6. c.pap = clicked["pap"] /\ c.board = clicked["board"]
  <2>1. k \in Made /\ k.pap = kept["pap"] /\ k.board = kept["board"]
    BY DEF Addressed
  <2>2. c.pap = k.pap /\ c.board = k.board
    BY <1>4, <2>1, CopyIs
  <2> QED
    BY <2>1, <2>2 DEF DialogInv, FieldsInv
<1>7. Dialog!OffersArrive'
  BY <1>3, <1>4, <1>5 DEF Dialog!OffersArrive, Dialog!Arrives
<1>8. Dialog!ShownIsSent'
  BY <1>3, <1>4, <1>6 DEF Dialog!ShownIsSent
<1>9. chosen' # {} /\ \A n \in DOMAIN onList' : onList'[n].id \in 1 .. 777
  BY <1>3, <1>4, <1>5
<1>10. deleted' = FALSE
  <2>1. \A n \in DOMAIN commands : ~Dialog!Deletes(commands[n])
    BY <1>2, AddressedPass
  <2>2. deleted = FALSE
    BY DEF DialogInv, ChoiceInv
  <2> QED
    BY <1>1, <2>1, <2>2 DEF Dialog!Sends
<1> QED
  BY <1>7, <1>8, <1>9, <1>10 DEF ChoiceInv

\* A blast.
LEMMA ManySent ==
  ASSUME DialogInv, NEW e \in Dialog!BlastEntries, NEW commands \in Seq(Addressed),
         Dialog!Sends(e, commands), kind = "small", commands # << >>,
         UNCHANGED <<text, clicked>>,
         \A n \in DOMAIN commands : commands[n].id # 777,
         e = 12 => Len(commands) = 1 + 4 * Blasts.pulser + Blasts.adc + Blasts.large + Blasts.last
  PROVE  ChoiceInv'
<1>1. /\ ~deleted' /\ chosen' = {<<kind, e>>}
      /\ DOMAIN onList' = DOMAIN commands
      /\ \A n \in DOMAIN onList' : onList'[n] = Dialog!Copied(commands[n])
  BY AllSent
<1>2. ASSUME NEW n \in DOMAIN onList'
      PROVE  /\ Dialog!Arrives(onList'[n]) /\ onList'[n].id \in 1 .. 777
             /\ onList'[n].pap = clicked["pap"] /\ onList'[n].board = clicked["board"]
  <2>1. PICK k : k = commands[n]
    OBVIOUS
  <2>2. k \in Addressed /\ k.id # 777 /\ onList'[n] = Dialog!Copied(k)
    BY <1>1, <1>2, <2>1, ElementOfSeq
  <2>3. k \in Made /\ k.pap = kept["pap"] /\ k.board = kept["board"]
    BY <2>2 DEF Addressed
  <2>4. PICK c : c = Dialog!Copied(k)
    OBVIOUS
  <2>5. c.pap = k.pap /\ c.board = k.board
    BY <2>3, <2>4, CopyIs
  <2>6. kept["pap"] = clicked["pap"] /\ kept["board"] = clicked["board"]
    BY DEF DialogInv, FieldsInv
  <2>7. Dialog!Arrives(c) /\ c.id \in 1 .. 777
    <3>1. k \in Addressed /\ k.id # 777
      BY <2>2
    <3>2. Dialog!Arrives(c)
      BY ONLY <2>4, <3>1, AddressedArrive
    <3>3. c.id \in 1 .. 777
      BY ONLY <2>4, <3>1, AddressedArrive
    <3> QED
      BY <3>2, <3>3
  <2>8. onList'[n] = c
    BY <2>2, <2>4
  <2> QED
    BY <2>3, <2>5, <2>6, <2>7, <2>8
<1>3. <<kind, e>> \notin Dialog!Silent
  <2>1. e \in {12, 33, 34, 35}
    BY DEF Dialog!BlastEntries
  <2>2. e \notin {0, 13} \cup 14 .. 26 \cup {31, 32}
    BY <2>1
  <2> QED
    BY <2>2, SilentAre
<1>4. DOMAIN commands = 1 .. Len(commands) /\ DOMAIN commands # {}
  BY EmptySeq
<1>5. Dialog!OffersArrive'
  <2>1. onList' # << >>
    BY <1>1, <1>4
  <2>2. <<kind, e>> = <<"small", 12>> =>
          DOMAIN onList' = 1 .. 1 + 4 * Blasts.pulser + Blasts.adc + Blasts.large + Blasts.last
    BY <1>1, <1>4
  <2> QED
    BY <1>1, <1>2, <1>3, <2>1, <2>2 DEF Dialog!OffersArrive, Dialog!Arrives
<1>6. <<kind, e>> \in {<<"small", x>> : x \in Dialog!BlastEntries}
  OBVIOUS
<1>7. Dialog!ShownIsSent'
  BY <1>1, <1>2, <1>6 DEF Dialog!ShownIsSent
<1>8. chosen' # {} /\ \A n \in DOMAIN onList' : onList'[n].id \in 1 .. 777
  BY <1>1, <1>2
<1>9. deleted' = FALSE
  BY NoneDeleted
<1> QED
  BY <1>5, <1>7, <1>8, <1>9 DEF ChoiceInv

\* A choice of which nothing is sent.
LEMMA NoneSent ==
  ASSUME DialogInv, NEW e, NEW commands, Dialog!Sends(e, commands), <<kind, e>> \in Dialog!Silent,
         \A n \in DOMAIN commands : ~Dialog!SendMsg(commands[n]) /\ ~Dialog!Deletes(commands[n])
  PROVE  ChoiceInv'
<1>1. DOMAIN onList' = {} /\ chosen' = {<<kind, e>>}
  BY DEF Dialog!Sends
<1>2. deleted' = FALSE
  <2>1. deleted = FALSE
    BY DEF DialogInv, ChoiceInv
  <2> QED
    BY <2>1 DEF Dialog!Sends
<1>3. <<kind, e>> # <<"small", 12>>
  BY SilentAre
<1>4. Dialog!OffersArrive'
  BY <1>1, <1>2, <1>3 DEF Dialog!OffersArrive, Dialog!Silent
<1>5. Dialog!ShownIsSent'
  BY <1>1 DEF Dialog!ShownIsSent
<1> QED
  BY <1>1, <1>2, <1>4, <1>5 DEF ChoiceInv

-----------------------------------------------------------------------------
\* The commands of the entries.

\* A command with the fields n is made of.
IsFor(k, n, seq, ch, gate, value) ==
  /\ k \in Made /\ k.id = n /\ k.pap = kept["pap"] /\ k.board = kept["board"]
  /\ k.seq = seq /\ k.ch = ch /\ k.gate = gate /\ k.value = value

LEMMA PlainIs ==
  ASSUME FieldsInv, NEW n \in Int, NEW value \in Int
  PROVE  IsFor(Dialog!Plain(n, value), n, 0, 0, 0, value) /\ Dialog!Plain(n, value).size = 32
BY KeptIs, IdsAre DEF IsFor, Dialog!Plain, Made

LEMMA ForIs ==
  ASSUME FieldsInv, NEW n, NEW seq, NEW ch, NEW gate, NEW value,
         {n, seq, ch, gate, value} \subseteq Int
  PROVE  /\ IsFor(Dialog!For(n, seq, ch, gate, value), n, seq, ch, gate, value)
         /\ Dialog!For(n, seq, ch, gate, value).size = 32
<1>1. PICK p : p = Dialog!Plain(n, value)
  OBVIOUS
<1>2. IsFor(p, n, 0, 0, 0, value) /\ p.size = 32
  BY <1>1, PlainIs
<1> QED
  BY <1>1, <1>2 DEF Dialog!For, IsFor, Made

LEMMA LargeIs ==
  ASSUME FieldsInv, NEW n, NEW seq, NEW value, NEW size, {n, seq, value, size} \subseteq Int
  PROVE  /\ IsFor(Dialog!Large(n, seq, value, size), n, seq, 0, 0, value)
         /\ Dialog!Large(n, seq, value, size).size = size
<1>1. PICK p : p = Dialog!Plain(n, value)
  OBVIOUS
<1>2. IsFor(p, n, 0, 0, 0, value)
  BY <1>1, PlainIs
<1> QED
  BY <1>1, <1>2 DEF Dialog!Large, IsFor, Made

\* What a command carries is what is shown, if it has been made from it.
LEMMA CarriesShown ==
  ASSUME DialogInv, NEW k \in Addressed, UNCHANGED <<text, unsure>>,
         k.id \in (1 .. 11) \cup {30} \/ k.id >= 512 => k.seq = kept["seq"],
         k.id \in 1 .. 11 \/ k.id >= 768 => k.ch = kept["ch"] /\ k.gate = kept["gate"],
         k.id \in (2 .. 8) \cup {10, 11, 27, 29, 36, 516} \/ k.id >= 768 =>
           k.value = kept["param"]
  PROVE  \A f \in Dialog!Carried(Dialog!Copied(k)) \ unsure' :
           Dialog!Value(Dialog!Copied(k), f) = text[f]
<1>1. PICK c : c = Dialog!Copied(k)
  OBVIOUS
<1>2. k \in Made /\ k.id \in Int /\ k.pap = kept["pap"] /\ k.board = kept["board"]
  BY DEF Addressed, Made
<1>3. /\ c.id = k.id /\ c.pap = k.pap /\ c.board = k.board
      /\ c.seq = k.seq /\ c.ch = k.ch /\ c.gate = k.gate
      /\ k.id # 517 => c.value = k.value
  BY <1>1, <1>2, CopyIs
<1>4. ASSUME NEW f \in Dialog!Carried(c), f \notin unsure PROVE Dialog!Value(c, f) = text[f]
  <2>1. f \in Dialog!Fields => kept[f] = text[f]
    BY <1>4 DEF DialogInv, FieldsInv
  <2>2. \/ f = "pap" \/ f = "board"
        \/ f = "seq" /\ (c.id \in (1 .. 11) \cup {30} \/ c.id >= 512)
        \/ (f = "ch" \/ f = "gate") /\ (c.id \in 1 .. 11 \/ c.id >= 768)
        \/ f = "param" /\ (c.id \in (2 .. 8) \cup {10, 11, 27, 29, 36, 516} \/ c.id >= 768)
    BY <1>4, IdsAre DEF Dialog!Carried
  <2>3. f \in Dialog!Fields
    BY <2>2, FieldsAre
  <2>4. Dialog!Value(c, f) = kept[f]
    BY <1>2, <1>3, <2>2 DEF Dialog!Value
  <2> QED
    BY <2>1, <2>3, <2>4
<1> QED
  BY <1>1, <1>4

\* Thus a choice of a single command that is made from the fields keeps the invariant.
LEMMA SingleKeeps ==
  ASSUME DialogInv, NEW e, NEW k, Dialog!Sends(e, <<k>>), UNCHANGED Dialog!fields,
         NEW n, NEW seq, NEW ch, NEW gate, NEW value, IsFor(k, n, seq, ch, gate, value),
         \/ n \in (1 .. 39) \cup (768 .. 777) /\ k.size = 32
         \/ n \in {516, 517} /\ k.size \in 0 .. 1056,
         <<kind, e>> \in Dialog!Silent <=> n = 777, <<kind, e>> # <<"small", 12>>,
         n \in (1 .. 11) \cup {30} \/ n >= 512 => seq = kept["seq"],
         n \in 1 .. 11 \/ n >= 768 => ch = kept["ch"] /\ gate = kept["gate"],
         n \in (2 .. 8) \cup {10, 11, 27, 29, 36, 516} \/ n >= 768 => value = kept["param"]
  PROVE  DialogInv'
<1>1. /\ k \in Made /\ k.id = n /\ k.pap = kept["pap"] /\ k.board = kept["board"]
      /\ k.seq = seq /\ k.ch = ch /\ k.gate = gate /\ k.value = value
  BY DEF IsFor
<1>2. k \in Addressed
  BY <1>1 DEF Addressed
<1>3. UNCHANGED <<text, clicked, unsure>>
  BY DEF Dialog!fields
<1>4. \A f \in Dialog!Carried(Dialog!Copied(k)) \ unsure' :
        Dialog!Value(Dialog!Copied(k), f) = text[f]
  BY <1>1, <1>2, <1>3, CarriesShown
<1>5. ChoiceInv'
  BY <1>1, <1>2, <1>3, <1>4, OneSent
<1>6. FieldsInv'
  BY DEF DialogInv, FieldsInv, Dialog!fields, Dialog!Sends
<1> QED
  BY <1>5, <1>6 DEF DialogInv

LEMMA LargeKeeps ==
  ASSUME DialogInv, Dialog!ChooseLarge
  PROVE  DialogInv'
<1>1. PICK x \in 0 .. 1 : Dialog!Sends(x, <<Dialog!LargeCmd(x)>>)
  BY DEF Dialog!ChooseLarge, Dialog!Entries
<1>2. kind = "large" /\ UNCHANGED Dialog!fields
  BY DEF Dialog!ChooseLarge
<1>3. FieldsInv
  BY DEF DialogInv
<1>4. PICK s \in 0 .. 31, v \in Nat : s = kept["seq"] /\ v = kept["param"]
  BY <1>3, KeptIs
<1>5. PICK n, k : n \in {516, 517} /\ n = 516 + x /\ k = Dialog!Large(n, s, v, 1056)
  OBVIOUS
<1>6. k = Dialog!LargeCmd(x)
  <2>1. kept["seq"] % 32 = s
    BY <1>4
  <2> QED
    BY <1>4, <1>5, <2>1, IdsAre DEF Dialog!LargeCmd, Dialog!Seq5
<1>7. IsFor(k, n, s, 0, 0, v) /\ k.size = 1056
  BY <1>3, <1>5, LargeIs
<1>8. <<kind, x>> \notin Dialog!Silent /\ <<kind, x>> # <<"small", 12>>
  BY <1>2, SilentAre
<1>9. Dialog!Sends(x, <<k>>)
  BY <1>1, <1>6
<1> QED
  BY <1>2, <1>4, <1>5, <1>7, <1>8, <1>9, SingleKeeps

LEMMA PulserKeeps ==
  ASSUME DialogInv, Dialog!ChoosePulser
  PROVE  DialogInv'
<1>1. PICK x \in 0 .. 9 : Dialog!Sends(x, <<Dialog!PulserCmd(x)>>)
  BY IdsAre DEF Dialog!ChoosePulser, Dialog!Entries
<1>2. kind = "pulser" /\ UNCHANGED Dialog!fields
  BY DEF Dialog!ChoosePulser
<1>3. FieldsInv
  BY DEF DialogInv
<1>4. PICK s \in 0 .. 31, c \in Nat, g \in Nat, v \in Nat :
        s = kept["seq"] /\ c = kept["ch"] /\ g = kept["gate"] /\ v = kept["param"]
  BY <1>3, KeptIs
<1>5. PICK n, k : n \in 768 .. 777 /\ n = 768 + x /\ k = Dialog!For(n, s, c, g, v)
  OBVIOUS
<1>6. k = Dialog!PulserCmd(x)
  <2>1. kept["seq"] % 32 = s
    BY <1>4
  <2> QED
    BY <1>4, <1>5, <2>1, IdsAre DEF Dialog!PulserCmd, Dialog!Seq5
<1>7. IsFor(k, n, s, c, g, v) /\ k.size = 32
  BY <1>3, <1>5, ForIs
<1>8. (<<kind, x>> \in Dialog!Silent <=> n = 777) /\ <<kind, x>> # <<"small", 12>>
  BY <1>2, <1>5, SilentAre
<1>9. Dialog!Sends(x, <<k>>)
  BY <1>1, <1>6
<1> QED
  BY <1>2, <1>4, <1>5, <1>7, <1>8, <1>9, SingleKeeps

\* The entries of which a single small command is made.
LEMMA OneSmallKeeps ==
  ASSUME DialogInv, kind = "small", UNCHANGED Dialog!fields,
         \/ Dialog!ChooseFakeData \/ Dialog!ChooseGate \/ Dialog!ChooseTcg \/ Dialog!ChooseValue
         \/ Dialog!ChooseNx \/ Dialog!ChooseReadBack
  PROVE  DialogInv'
<1>1. FieldsInv
  BY DEF DialogInv
<1>2. PICK s \in 0 .. 31, c \in Nat, g \in Nat, v \in Nat, what \in 1 .. 3 :
        /\ s = kept["seq"] /\ c = kept["ch"] /\ g = kept["gate"] /\ v = kept["param"]
        /\ what = m_nReadBackWhat
  BY <1>1, KeptIs DEF FieldsInv
<1>3. \A e : /\ e \in (1 .. 11) \cup (27 .. 30) \cup {36} => <<kind, e>> \notin Dialog!Silent
             /\ e # 12 => <<kind, e>> # <<"small", 12>>
  BY SilentAre
<1>4. CASE Dialog!ChooseFakeData
  <2>1. PICK w, k : /\ w \in Nat /\ w = IF v > 32 THEN 32 ELSE v
                   /\ k = Dialog!For(1, s, c, g, w)
    OBVIOUS
  <2>2. Dialog!Sends(1, <<k>>)
    <3>1. kept["seq"] % 32 = s
      BY <1>2
    <3> QED
      BY <1>2, <1>4, <2>1, <3>1 DEF Dialog!ChooseFakeData, Dialog!FakeData, Dialog!Seq5
  <2>3. IsFor(k, 1, s, c, g, w) /\ k.size = 32
    BY <1>1, <2>1, ForIs
  <2>4. <<kind, 1>> \notin Dialog!Silent /\ <<kind, 1>> # <<"small", 12>>
    BY <1>3
  <2> QED
    BY <1>2, <2>2, <2>3, <2>4, SingleKeeps
<1>5. CASE Dialog!ChooseGate \/ Dialog!ChooseTcg
  <2>1. PICK n, k :
          /\ n \in (2 .. 8) \cup {10, 11}
          /\ k = Dialog!For(n, s, c, g, v) /\ Dialog!Sends(n, <<k>>)
    BY <1>2, <1>5 DEF Dialog!ChooseGate, Dialog!ChooseTcg, Dialog!TcgCmd, Dialog!GateCmd
  <2>2. IsFor(k, n, s, c, g, v) /\ k.size = 32
    BY <1>1, <2>1, ForIs
  <2>3. <<kind, n>> \notin Dialog!Silent /\ <<kind, n>> # <<"small", 12>>
    BY <1>3, <2>1
  <2> QED
    BY <1>2, <2>1, <2>2, <2>3, SingleKeeps
<1>6. CASE Dialog!ChooseValue
  <2>1. PICK n, k :
          n \in {27, 29, 36} /\ k = Dialog!Plain(n, v) /\ Dialog!Sends(n, <<k>>)
    BY <1>2, <1>6
    DEF Dialog!ChooseValue, Dialog!GenericSmall, Dialog!DebugPrint, Dialog!X_LocScale
  <2>2. IsFor(k, n, 0, 0, 0, v) /\ k.size = 32
    BY <1>1, <2>1, PlainIs
  <2>3. <<kind, n>> \notin Dialog!Silent /\ <<kind, n>> # <<"small", 12>>
    BY <1>3, <2>1
  <2> QED
    BY <1>2, <2>1, <2>2, <2>3, SingleKeeps
<1>7. CASE Dialog!ChooseNx
  <2>1. PICK nx, k :
          nx \in Int /\ k = Dialog!Plain(28, nx) /\ Dialog!Sends(28, <<k>>)
    <3>1. PICK m \in Int : m = v % 4
      OBVIOUS
    <3>2. PICK nx \in Int : nx = IF m = 0 THEN 1 ELSE m
      BY <3>1
    <3> QED
      BY <1>2, <1>7, <3>1, <3>2, IdsAre
      DEF Dialog!ChooseNx, Dialog!NxTestCases, Dialog!MakeWallNxCmd
  <2>2. IsFor(k, 28, 0, 0, 0, nx) /\ k.size = 32
    BY <1>1, <2>1, PlainIs
  <2>3. <<kind, 28>> \notin Dialog!Silent /\ <<kind, 28>> # <<"small", 12>>
    BY <1>3, <2>1
  <2> QED
    BY <1>2, <2>1, <2>2, <2>3, SingleKeeps
<1>8. CASE Dialog!ChooseReadBack
  <2>1. PICK k : k = Dialog!For(30, s, 0, 0, what) /\ Dialog!Sends(30, <<k>>)
    BY <1>2, <1>8 DEF Dialog!ChooseReadBack, Dialog!ReadBackCmd
  <2>2. IsFor(k, 30, s, 0, 0, what) /\ k.size = 32
    BY <1>1, <2>1, ForIs
  <2>3. <<kind, 30>> \notin Dialog!Silent /\ <<kind, 30>> # <<"small", 12>>
    BY <1>3, <2>1
  <2> QED
    BY <1>2, <2>1, <2>2, <2>3, SingleKeeps
<1> QED
  BY <1>4, <1>5, <1>6, <1>7, <1>8

\* The entries of which nothing is sent.
LEMMA NothingKeeps ==
  ASSUME DialogInv, kind = "small", UNCHANGED Dialog!fields,
         Dialog!ChooseProcNull \/ Dialog!ChooseNothing
  PROVE  DialogInv'
<1>1. PICK e, commands :
        /\ Dialog!Sends(e, commands) /\ e \in {0, 13} \cup 14 .. 26 \cup {31, 32}
        /\ \A n \in DOMAIN commands : commands[n] = Dialog!ProcNull
  BY DEF Dialog!ChooseProcNull, Dialog!ChooseNothing, Dialog!Entries
<1>2. Dialog!ProcNull.id = 0
  BY DEF Dialog!ProcNull, Dialog!Plain
<1>3. ~Dialog!SendMsg(Dialog!ProcNull) /\ ~Dialog!Deletes(Dialog!ProcNull)
  BY <1>2, IdsAre DEF Dialog!SendMsg, Dialog!Deletes, Dialog!LargeId
<1>4. \A n \in DOMAIN commands : ~Dialog!SendMsg(commands[n]) /\ ~Dialog!Deletes(commands[n])
  BY <1>1, <1>3
<1>5. <<kind, e>> \in Dialog!Silent
  BY <1>1, SilentAre
<1>6. ChoiceInv'
  BY <1>1, <1>4, <1>5, NoneSent
<1>7. FieldsInv'
  BY <1>1 DEF DialogInv, FieldsInv, Dialog!fields, Dialog!Sends
<1> QED
  BY <1>6, <1>7 DEF DialogInv

\* The trigger also changes the parameter that is kept.
LEMMA TriggerKeeps ==
  ASSUME DialogInv, Dialog!ChooseTrigger
  PROVE  DialogInv'
<1>1. PICK bit \in 0 .. 1 : bit = kept["param"] % 2 /\ bit <= kept["param"]
  BY KeptIs DEF DialogInv
<1>2. PICK s, c, g, k :
        /\ {s, c, g} \subseteq Nat /\ s = kept["seq"] /\ c = kept["ch"] /\ g = kept["gate"]
        /\ k = Dialog!For(9, s, c, g, bit)
  BY KeptIs DEF DialogInv
<1>3. /\ kind = "small" /\ Dialog!Sends(9, <<k>>)
      /\ kept' = [kept EXCEPT !["param"] = bit]
      /\ unsure' = IF kept["param"] > 1 THEN unsure \cup {"param"} ELSE unsure
      /\ UNCHANGED <<text, position, changes, clicked>>
  BY <1>1, <1>2 DEF Dialog!ChooseTrigger, Dialog!GateCmd
<1>4. FieldsInv
  BY DEF DialogInv
<1>5. FieldsInv'
  <2>1. /\ bit \in Nat /\ bit \in 0 .. Arrows["param"] /\ kept["param"] \in Nat
        /\ kept["param"] \in 0 .. Arrows["param"] /\ "param" \in Dialog!Fields
    BY <1>1, <1>4, DialogIs, FieldsAre DEF FieldsInv
  <2>2. /\ kept' \in [Dialog!Fields -> Nat]
        /\ \A f \in Dialog!Fields : kept'[f] \in 0 .. Arrows[f]
    BY <1>3, <1>4, <2>1 DEF FieldsInv
  <2>3. kept'["pap"] = clicked'["pap"] /\ kept'["board"] = clicked'["board"]
    BY <1>3, <1>4, FieldsAre DEF FieldsInv
  <2>4. kept["param"] \in {0, 1} => bit = kept["param"]
    BY <1>1, <2>1
  <2>5. \A f \in Dialog!Fields \ unsure' : kept'[f] = text'[f]
    <3>1. ASSUME NEW f \in Dialog!Fields, f \notin unsure' PROVE kept'[f] = text'[f]
      <4>1. f \notin unsure /\ kept[f] = text[f]
        BY <1>3, <1>4, <3>1 DEF FieldsInv
      <4>2. f = "param" => kept["param"] \in {0, 1}
        BY <1>3, <2>1, <3>1
      <4> QED
        BY <1>3, <1>4, <2>4, <4>1, <4>2 DEF FieldsInv
    <3> QED
      BY <3>1
  <2>6. unsure' \subseteq Dialog!Fields
    BY <1>3, <1>4, <2>1 DEF FieldsInv
  <2>7. UNCHANGED <<kind, m_nReadBackWhat>>
    BY <1>3 DEF Dialog!Sends
  <2> QED
    BY <1>3, <1>4, <2>2, <2>3, <2>5, <2>6, <2>7 DEF FieldsInv
<1>6. k \in Addressed /\ k.id = 9
      /\ k.seq = kept["seq"] /\ k.ch = kept["ch"] /\ k.gate = kept["gate"]
  <2>1. IsFor(k, 9, s, c, g, bit) /\ k.size = 32
    BY <1>2, <1>4, ForIs
  <2> QED
    BY <1>2, <2>1 DEF IsFor, Addressed
<1>7. PICK copy : copy = Dialog!Copied(k)
  OBVIOUS
<1>8. \A f \in Dialog!Carried(copy) \ unsure' : Dialog!Value(copy, f) = text[f]
  <2>1. /\ copy.id = 9 /\ copy.pap = kept["pap"] /\ copy.board = kept["board"]
        /\ copy.seq = kept["seq"] /\ copy.ch = kept["ch"] /\ copy.gate = kept["gate"]
    BY <1>6, <1>7, CopyIs DEF Addressed
  <2>2. Dialog!Carried(copy) = {"pap", "board", "seq", "ch", "gate"}
    BY <2>1, IdsAre DEF Dialog!Carried
  <2>3. \A f \in Dialog!Fields \ unsure' : kept[f] = text[f]
    BY <1>3, <1>4 DEF FieldsInv
  <2> QED
    BY <2>1, <2>2, <2>3, FieldsAre DEF Dialog!Value
<1>9. <<kind, 9>> \notin Dialog!Silent /\ <<kind, 9>> # <<"small", 12>>
  BY <1>3, SilentAre
<1>10. ChoiceInv'
  BY <1>3, <1>6, <1>7, <1>8, <1>9, OneSent
<1> QED
  BY <1>5, <1>10 DEF DialogInv

-----------------------------------------------------------------------------
\* The blasts.

\* A command that arrives.
Arriving == {k \in Addressed : k.id # 777}

LEMMA SmallArrives ==
  ASSUME FieldsInv, NEW n, NEW seq, NEW ch, NEW gate, NEW value,
         {n, seq, ch, gate, value} \subseteq Int, n \in (1 .. 39) \cup (768 .. 776)
  PROVE  Dialog!For(n, seq, ch, gate, value) \in Arriving
<1>1. PICK k : k = Dialog!For(n, seq, ch, gate, value)
  OBVIOUS
<1>2. IsFor(k, n, seq, ch, gate, value) /\ k.size = 32
  BY <1>1, ForIs
<1> QED
  BY <1>1, <1>2 DEF IsFor, Arriving, Addressed

LEMMA LargeArrives ==
  ASSUME FieldsInv, NEW n, NEW seq, NEW value, NEW size, {n, seq, value, size} \subseteq Int,
         n \in {516, 517}, size \in 0 .. 1056
  PROVE  Dialog!Large(n, seq, value, size) \in Arriving
<1>1. PICK k : k = Dialog!Large(n, seq, value, size)
  OBVIOUS
<1>2. IsFor(k, n, seq, 0, 0, value) /\ k.size = size
  BY <1>1, LargeIs
<1> QED
  BY <1>1, <1>2 DEF IsFor, Arriving, Addressed

LEMMA LoopIs ==
  ASSUME NEW n \in Nat, NEW S, NEW turns, turns \in [1 .. n -> S]
  PROVE  turns \in Seq(S) /\ Len(turns) = n
OBVIOUS

LEMMA BlastKeeps ==
  ASSUME DialogInv, kind = "small", UNCHANGED Dialog!fields,
         NEW e \in {12, 33, 34, 35}, NEW commands \in Seq(Arriving), Dialog!Sends(e, commands),
         commands # << >>,
         e = 12 => Len(commands) = 1 + 4 * Blasts.pulser + Blasts.adc + Blasts.large + Blasts.last
  PROVE  DialogInv'
<1>1. commands \in Seq(Addressed)
  BY SeqMonotonic DEF Arriving
<1>2. \A n \in DOMAIN commands : commands[n].id # 777
  BY ElementOfSeq DEF Arriving
<1>3. e \in Dialog!BlastEntries /\ UNCHANGED <<text, clicked>>
  BY DEF Dialog!BlastEntries, Dialog!fields
<1>4. ChoiceInv'
  BY <1>1, <1>2, <1>3, ManySent
<1>5. FieldsInv'
  BY DEF DialogInv, FieldsInv, Dialog!fields, Dialog!Sends
<1> QED
  BY <1>4, <1>5 DEF DialogInv

LEMMA GateBlastArrives ==
  ASSUME FieldsInv
  PROVE  Dialog!GateBlast \in Seq(Arriving) /\ Len(Dialog!GateBlast) = 224
<1>1. PICK is \in Int : is = IF kept["seq"] % 4 = 3 THEN 2 ELSE kept["seq"] % 4
  <2>1. PICK s \in Nat : s = kept["seq"]
    BY KeptIs
  <2>2. s % 4 \in Int
    BY <2>1
  <2> QED
    BY <2>1, <2>2
<1>2. PICK blast :
        blast = [n \in 1 .. 224 |->
                   Dialog!For(2 + ((n - 1) \div 32), is, ((n - 1) \div 4) % 8, (n - 1) % 4,
                              1 + ((n - 1) % 32))]
  OBVIOUS
<1>3. blast = Dialog!GateBlast
  BY <1>1, <1>2 DEF Dialog!GateBlast
<1>4. ASSUME NEW n \in 1 .. 224 PROVE blast[n] \in Arriving
  <2>1. PICK m \in 2 .. 8, ch \in Int, gate \in Int, value \in Int :
          /\ m = 2 + ((n - 1) \div 32) /\ ch = ((n - 1) \div 4) % 8
          /\ gate = (n - 1) % 4 /\ value = 1 + ((n - 1) % 32)
    OBVIOUS
  <2>2. blast[n] = Dialog!For(m, is, ch, gate, value)
    BY <1>2, <2>1
  <2> QED
    BY <2>2, SmallArrives
<1>5. blast \in [1 .. 224 -> Arriving]
  BY <1>2, <1>4
<1> QED
  BY <1>3, <1>5, LoopIs

LEMMA TcgBlastsArrive ==
  ASSUME FieldsInv
  PROVE  /\ Dialog!Cmd204hBlast \in Seq(Arriving) /\ Len(Dialog!Cmd204hBlast) = 24
         /\ Dialog!Cmd205hBlast \in Seq(Arriving) /\ Len(Dialog!Cmd205hBlast) = 3
<1>1. PICK gains : gains = [n \in 1 .. 24 |-> Dialog!Large(516, (n - 1) \div 8, 0, 288)]
  OBVIOUS
<1>2. gains = Dialog!Cmd204hBlast
  BY <1>1, IdsAre DEF Dialog!Cmd204hBlast
<1>3. ASSUME NEW n \in 1 .. 24 PROVE gains[n] \in Arriving
  <2>1. PICK seq \in Int : seq = (n - 1) \div 8
    OBVIOUS
  <2>2. gains[n] = Dialog!Large(516, seq, 0, 288)
    BY <1>1, <2>1
  <2> QED
    BY <2>2, LargeArrives
<1>4. gains \in [1 .. 24 -> Arriving]
  BY <1>1, <1>3
<1>5. PICK seqs : seqs = [n \in 1 .. 3 |-> Dialog!Large(517, n - 1, 0, 288)]
  OBVIOUS
<1>6. seqs = Dialog!Cmd205hBlast
  BY <1>5, IdsAre DEF Dialog!Cmd205hBlast
<1>7. ASSUME NEW n \in 1 .. 3 PROVE seqs[n] \in Arriving
  <2>1. PICK seq \in Int : seq = n - 1
    OBVIOUS
  <2>2. seqs[n] = Dialog!Large(517, seq, 0, 288)
    BY <1>5, <2>1
  <2> QED
    BY <2>2, LargeArrives
<1>8. seqs \in [1 .. 3 -> Arriving]
  BY <1>5, <1>7
<1> QED
  BY <1>2, <1>4, <1>6, <1>8, LoopIs

\* The three parts of Blast.
LEMMA PulserBlastArrives ==
  ASSUME FieldsInv
  PROVE  /\ Dialog!PulserBlast \in Seq(Arriving)
         /\ Len(Dialog!PulserBlast) = 1 + 4 * Blasts.pulser
<1>1. PICK turns \in Nat : turns = 4 * Blasts.pulser
  BY DialogIs
<1>2. PICK shapes : shapes = [n \in 1 .. turns |-> Dialog!For(771, (n - 1) % 10, 13, 14, 255)]
  OBVIOUS
<1>3. ASSUME NEW n \in 1 .. turns PROVE shapes[n] \in Arriving
  <2>1. PICK seq \in Int : seq = (n - 1) % 10
    OBVIOUS
  <2>2. shapes[n] = Dialog!For(771, seq, 13, 14, 255)
    BY <1>2, <2>1
  <2> QED
    BY <2>2, SmallArrives
<1>4. shapes \in Seq(Arriving) /\ Len(shapes) = turns
  <2>1. shapes \in [1 .. turns -> Arriving]
    BY <1>2, <1>3
  <2> QED
    BY <2>1, LoopIs
<1>5. PICK k : k = Dialog!DebugPrint(776, 6)
  OBVIOUS
<1>6. k \in Arriving
  <2>1. IsFor(k, 776, 0, 0, 0, 6) /\ k.size = 32
    BY <1>5, PlainIs DEF Dialog!DebugPrint
  <2> QED
    BY <2>1 DEF IsFor, Arriving, Addressed
<1>7. Dialog!PulserBlast = <<k>> \o shapes
  BY <1>1, <1>2, <1>5, IdsAre DEF Dialog!PulserBlast
<1>8. <<k>> \in Seq(Arriving) /\ Len(<<k>>) = 1
  BY <1>6
<1>9. /\ <<k>> \o shapes \in Seq(Arriving)
      /\ Len(<<k>> \o shapes) = 1 + Len(shapes)
  BY <1>4, <1>8, ConcatProperties
<1> QED
  BY <1>1, <1>4, <1>7, <1>9

LEMMA AdcBlastArrives ==
  ASSUME FieldsInv, NEW rand \in [{n \in 1 .. Blasts.adc : n % 10 = 1} -> 0 .. 1]
  PROVE  Dialog!AdcBlast(rand) \in Seq(Arriving) /\ Len(Dialog!AdcBlast(rand)) = Blasts.adc
<1>1. PICK turns \in Nat : turns = Blasts.adc
  BY DialogIs
<1>2. PICK blast :
        blast = [n \in 1 .. turns |->
                   IF (n - 1) % 10 = 0 THEN Dialog!Large(516 + rand[n], 6, n - 1, 1056)
                   ELSE Dialog!For(2 + ((n - 1) % 6), (n - 1) % 3, (n - 1) % 8, (n - 1) % 4, n - 1)]
  OBVIOUS
<1>3. blast = Dialog!AdcBlast(rand)
  BY <1>1, <1>2, IdsAre DEF Dialog!AdcBlast
<1>4. ASSUME NEW n \in 1 .. turns PROVE blast[n] \in Arriving
  <2>1. CASE (n - 1) % 10 = 0
    <3>1. n % 10 = 1
      BY <2>1
    <3>2. rand[n] \in 0 .. 1
      BY <1>1, <3>1
    <3>3. PICK m \in {516, 517}, value \in Int : m = 516 + rand[n] /\ value = n - 1
      BY <3>2
    <3>4. blast[n] = Dialog!Large(m, 6, value, 1056)
      BY <1>2, <2>1, <3>3
    <3> QED
      BY <3>4, LargeArrives
  <2>2. CASE (n - 1) % 10 # 0
    <3>1. PICK m \in 2 .. 8, seq \in Int, ch \in Int, gate \in Int, value \in Int :
            /\ m = 2 + ((n - 1) % 6) /\ seq = (n - 1) % 3 /\ ch = (n - 1) % 8
            /\ gate = (n - 1) % 4 /\ value = n - 1
      OBVIOUS
    <3>2. blast[n] = Dialog!For(m, seq, ch, gate, value)
      BY <1>2, <2>2, <3>1
    <3> QED
      BY <3>2, SmallArrives
  <2> QED
    BY <2>1, <2>2
<1>5. blast \in [1 .. turns -> Arriving]
  BY <1>2, <1>4
<1> QED
  BY <1>1, <1>3, <1>5, LoopIs

LEMMA LargeBlastArrives ==
  ASSUME FieldsInv, NEW rand \in [1 .. Blasts.large -> 0 .. 1]
  PROVE  /\ Dialog!LargeBlast(rand) \in Seq(Arriving)
         /\ Len(Dialog!LargeBlast(rand)) = Blasts.large + Blasts.last
<1>1. PICK turns \in Nat, rest \in Nat : turns = Blasts.large /\ rest = Blasts.last
  BY DialogIs
<1>2. PICK first : first = [n \in 1 .. turns |-> Dialog!Large(516 + rand[n], 6, n - 1, 1056)]
  OBVIOUS
<1>3. ASSUME NEW n \in 1 .. turns PROVE first[n] \in Arriving
  <2>1. PICK m \in {516, 517}, value \in Int : m = 516 + rand[n] /\ value = n - 1
    <3>1. rand[n] \in 0 .. 1
      BY <1>1
    <3> QED
      BY <3>1
  <2>2. first[n] = Dialog!Large(m, 6, value, 1056)
    BY <1>2, <2>1
  <2> QED
    BY <2>2, LargeArrives
<1>4. first \in Seq(Arriving) /\ Len(first) = turns
  <2>1. first \in [1 .. turns -> Arriving]
    BY <1>2, <1>3
  <2> QED
    BY <2>1, LoopIs
<1>5. PICK second : second = [n \in 1 .. rest |-> Dialog!Large(516, 6, n - 1, 1056)]
  OBVIOUS
<1>6. ASSUME NEW n \in 1 .. rest PROVE second[n] \in Arriving
  <2>1. PICK value \in Int : value = n - 1
    OBVIOUS
  <2>2. second[n] = Dialog!Large(516, 6, value, 1056)
    BY <1>5, <2>1
  <2> QED
    BY <2>2, LargeArrives
<1>7. second \in Seq(Arriving) /\ Len(second) = rest
  <2>1. second \in [1 .. rest -> Arriving]
    BY <1>5, <1>6
  <2> QED
    BY <2>1, LoopIs
<1>8. Dialog!LargeBlast(rand) = first \o second
  BY <1>1, <1>2, <1>5, IdsAre DEF Dialog!LargeBlast
<1>9. first \o second \in Seq(Arriving) /\ Len(first \o second) = turns + rest
  BY <1>4, <1>7, ConcatProperties
<1> QED
  BY <1>1, <1>8, <1>9

LEMMA BlastsKeep ==
  ASSUME DialogInv, kind = "small", UNCHANGED Dialog!fields,
         Dialog!Blast \/ Dialog!ChooseGateBlast \/ Dialog!Choose204 \/ Dialog!Choose205
  PROVE  DialogInv'
<1>1. FieldsInv
  BY DEF DialogInv
<1>2. CASE Dialog!Blast
  <2>1. PICK a \in [{n \in 1 .. Blasts.adc : n % 10 = 1} -> 0 .. 1],
             l \in [1 .. Blasts.large -> 0 .. 1] :
          Dialog!Sends(12, Dialog!PulserBlast \o Dialog!AdcBlast(a) \o Dialog!LargeBlast(l))
    BY <1>2 DEF Dialog!Blast
  <2>2. PICK p, s, b, both, commands :
          /\ p = Dialog!PulserBlast /\ s = Dialog!AdcBlast(a) /\ b = Dialog!LargeBlast(l)
          /\ both = p \o s /\ commands = both \o b
    OBVIOUS
  <2>3. PICK x \in Nat, y \in Nat, z \in Nat, rest \in Nat :
          x = Blasts.pulser /\ y = Blasts.adc /\ z = Blasts.large /\ rest = Blasts.last
    BY DialogIs
  <2>4. /\ p \in Seq(Arriving) /\ Len(p) = 1 + 4 * x
        /\ s \in Seq(Arriving) /\ Len(s) = y
        /\ b \in Seq(Arriving) /\ Len(b) = z + rest
    BY <1>1, <2>2, <2>3, PulserBlastArrives, AdcBlastArrives, LargeBlastArrives
  <2>5. both \in Seq(Arriving) /\ Len(both) = 1 + 4 * x + y
    BY <2>2, <2>4, ConcatProperties
  <2>6. commands \in Seq(Arriving) /\ Len(commands) = 1 + 4 * x + y + z + rest
    <3>1. commands \in Seq(Arriving) /\ Len(commands) = Len(both) + Len(b)
      BY <2>2, <2>4, <2>5, ConcatProperties
    <3> QED
      BY <2>4, <2>5, <3>1
  <2>7. commands # << >>
    BY <2>6, EmptySeq
  <2>8. Dialog!Sends(12, commands)
    BY <2>1, <2>2
  <2> QED
    BY <2>3, <2>6, <2>7, <2>8, BlastKeeps
<1>3. CASE Dialog!ChooseGateBlast
  <2>1. PICK commands : commands = Dialog!GateBlast
    OBVIOUS
  <2>2. commands \in Seq(Arriving) /\ Len(commands) = 224 /\ Dialog!Sends(33, commands)
    BY <1>1, <1>3, <2>1, GateBlastArrives DEF Dialog!ChooseGateBlast
  <2>3. commands # << >>
    BY <2>2
  <2> QED
    BY <2>2, <2>3, BlastKeeps
<1>4. CASE Dialog!Choose204
  <2>1. PICK commands : commands = Dialog!Cmd204hBlast
    OBVIOUS
  <2>2. commands \in Seq(Arriving) /\ Len(commands) = 24 /\ Dialog!Sends(34, commands)
    BY <1>1, <1>4, <2>1, TcgBlastsArrive DEF Dialog!Choose204
  <2>3. commands # << >>
    BY <2>2
  <2> QED
    BY <2>2, <2>3, BlastKeeps
<1>5. CASE Dialog!Choose205
  <2>1. PICK commands : commands = Dialog!Cmd205hBlast
    OBVIOUS
  <2>2. commands \in Seq(Arriving) /\ Len(commands) = 3 /\ Dialog!Sends(35, commands)
    BY <1>1, <1>5, <2>1, TcgBlastsArrive DEF Dialog!Choose205
  <2>3. commands # << >>
    BY <2>2
  <2> QED
    BY <2>2, <2>3, BlastKeeps
<1> QED
  BY <1>2, <1>3, <1>4, <1>5

-----------------------------------------------------------------------------
\* The invariant.

LEMMA DialogSteps == DialogInv /\ [Dialog!Next]_(Dialog!vars) => DialogInv'
<1> SUFFICES ASSUME DialogInv, [Dialog!Next]_(Dialog!vars) PROVE DialogInv'
  OBVIOUS
<1>1. ASSUME NEW f \in Dialog!Fields, Dialog!OnDeltapos(f) \/ Dialog!OnEnChange(f)
      PROVE  DialogInv'
  BY <1>1, ClickKeeps, TypeKeeps
<1>2. CASE Dialog!PopulateCmdComboBox \/ Dialog!OnCbnSelchangeCbRdwhat
  BY <1>2, ButtonsKeep
<1>3. CASE Dialog!ChooseSmall
  <2>1. kind = "small" /\ UNCHANGED Dialog!fields
    BY <1>3 DEF Dialog!ChooseSmall
  <2> QED
    BY <1>3, <2>1, OneSmallKeeps, NothingKeeps, BlastsKeep DEF Dialog!ChooseSmall
<1>4. CASE Dialog!ChooseTrigger
  BY <1>4, TriggerKeeps
<1>5. CASE Dialog!ChooseLarge
  BY <1>5, LargeKeeps
<1>6. CASE Dialog!ChoosePulser
  BY <1>6, PulserKeeps
<1>7. CASE UNCHANGED Dialog!vars
  <2>1. UNCHANGED <<text, position, kept, changes, clicked, unsure, kind, m_nReadBackWhat,
                    chosen, onList, deleted>>
    BY <1>7 DEF Dialog!vars, Dialog!fields
  <2>2. FieldsInv'
    BY <2>1 DEF DialogInv, FieldsInv
  <2>3. ChoiceInv'
    BY <2>1 DEF DialogInv, ChoiceInv, Dialog!OffersArrive, Dialog!ShownIsSent
  <2> QED
    BY <2>2, <2>3 DEF DialogInv
<1> QED
  BY <1>1, <1>2, <1>3, <1>4, <1>5, <1>6, <1>7 DEF Dialog!Next

LEMMA DialogMeans ==
  DialogInv => Dialog!TypeOK /\ Dialog!OffersArrive /\ Dialog!ShownIsSent
<1> SUFFICES ASSUME DialogInv PROVE Dialog!TypeOK /\ Dialog!OffersArrive /\ Dialog!ShownIsSent
  OBVIOUS
<1>1. FieldsInv /\ ChoiceInv
  BY DEF DialogInv
<1>2. kind \in DOMAIN Dialog!Entries
  BY <1>1 DEF FieldsInv, Dialog!Entries
<1>3. deleted \in BOOLEAN
  BY <1>1 DEF ChoiceInv
<1>4. /\ chosen = Dialog!NoChoice => onList = << >>
      /\ \A n \in DOMAIN onList : onList[n].id \in 1 .. Dialog!FirstPulser + Dialog!LastPulser
  BY <1>1, IdsAre DEF ChoiceInv, Dialog!NoChoice
<1>5. Dialog!TypeOK
  BY <1>1, <1>2, <1>3, <1>4 DEF FieldsInv, Dialog!TypeOK
<1> QED
  BY <1>1, <1>5 DEF ChoiceInv

\* Whatever is clicked, typed and chosen in the dialog of the PAG, every command that is
\* made from a choice passes SendMsg, the router of the PAP and the sender of the board,
\* no buffer of the dialog is deleted, and the commands go to the PAP and board of the
\* last clicks and carry what is shown.
THEOREM DialogTellsTrue ==
  Dialog!Spec => [](Dialog!TypeOK /\ Dialog!OffersArrive /\ Dialog!ShownIsSent)
<1>1. Dialog!Spec => []DialogInv
  BY DialogStarts, DialogSteps, PTL DEF Dialog!Spec
<1> QED
  BY <1>1, DialogMeans, PTL

LEMMA PartsDialog == MCSpec => Dialog!Spec
<1>1. MCInit => Dialog!Init
  BY DEF MCInit
<1>2. ASSUME [MCNext]_<<part, data, others>> PROVE [Dialog!Next]_(Dialog!vars)
  <2>1. UNCHANGED <<memories>> => UNCHANGED dialog
    BY DEF memories
  <2>2. UNCHANGED others => UNCHANGED memories
    BY DEF others
  <2>3. Keeping => Dialog!Next \/ UNCHANGED dialog
    BY DEF Keeping
  <2>4. MCNext => Keeping \/ UNCHANGED memories
    BY <2>2 DEF MCNext
  <2>5. UNCHANGED dialog => UNCHANGED Dialog!vars
    BY DEF dialog, Dialog!vars, Dialog!fields
  <2> QED
    BY <1>2, <2>1, <2>2, <2>3, <2>4, <2>5
<1> QED
  BY <1>1, <1>2, PTL DEF MCSpec, Dialog!Spec

\* Whatever is chosen in the dialog of the PAG, but for the silent entries, gets through PAG
\* and PAP to a board (OnCbnSelchangeCbCmds, SendMsg), in the run.
THEOREM PartsOffersArrive == MCSpec => []OffersArrive
BY PartsDialog, DialogTellsTrue, PTL DEF OffersArrive

\* A command goes where the arrows of PAP and board point and carries what is shown, in the run.
THEOREM PartsShownIsSent == MCSpec => []ShownIsSent
BY PartsDialog, DialogTellsTrue, PTL DEF ShownIsSent

-----------------------------------------------------------------------------
(* The configuration, for any number of servers, changes by hand and kills.     *)

IniKeys == Ini!Tracked \cup {Ini!Description(n) : n \in Ini!Servers} \cup {Ini!Position}

IniSections == {Ini!Clients, Ini!Dialogs, Ini!Server}

Header(s) == <<s, Ini!NoKey>>

\* The number of servers is one that people have written, or was torn off.
TextsOf(k) == IF k = Ini!Maximum THEN Values \cup {Ini!Empty} ELSE Ini!Texts

Heads == {Ini!SectionLine(s) : s \in IniSections}
KeyLines == UNION {{Ini!KeyLine(k, v) : v \in TextsOf(k)} : k \in IniKeys}
TextLines == {Ini!TextLine(f) : f \in {"#", "", "["}}
IniLines == Heads \cup KeyLines \cup TextLines

EntryOf(l) == IF l.equals THEN Ini!Entry(l.key) ELSE Header(l.section)

\* A name is in a file once, and a key is in its section.
Sorted(lines) ==
  /\ lines \in Seq(IniLines)
  /\ \A n, j \in DOMAIN lines :
       /\ {lines[n], lines[j]} \cap TextLines = {}
       /\ EntryOf(lines[n]) = EntryOf(lines[j])
       => n = j
  /\ \A n \in DOMAIN lines :
       lines[n] \in KeyLines =>
         \E j \in 1 .. n - 1 : /\ lines[j] = Ini!SectionLine(Ini!SectionOf(lines[n].key))
                               /\ \A x \in j + 1 .. n - 1 : lines[x] \notin Heads

LEMMA IniIs ==
  /\ MaxServers \in Nat /\ MaxServers > 0 /\ MaxServers \in Values
  /\ Values \subseteq Nat /\ \A v \in Values : 0 < v /\ v < 10 /\ v <= MaxServers
  /\ MaxEdits \in Nat /\ MaxCrashes \in Nat
BY PartsAssumption DEF Ini!Parameters, Ini!Own

\* Keys differ from the name of a section, and from each other.
LEMMA KeysAre ==
  ASSUME NEW k \in IniKeys
  PROVE  /\ k # Ini!NoKey /\ Ini!SectionOf(k) \in IniSections
         /\ Ini!Entry(k)[1] = Ini!SectionOf(k) /\ Ini!Entry(k)[2] = k
<1>1. PICK s \in {"! MaxServers", "# MaxClientsPerServer", ";00", "client", "port", "description",
                  "NC_NX_PA2"}, n \in Nat : k = <<s, n>>
  <2>1. CASE \E n \in Ini!Servers : k = Ini!Port(n)
    BY <2>1, IniIs DEF Ini!Port, Ini!Servers
  <2>2. CASE \E n \in Ini!Servers : k = Ini!Description(n)
    BY <2>2, IniIs DEF Ini!Description, Ini!Servers
  <2>3. CASE k \in {Ini!Maximum, Ini!MaxClients, Ini!Comment, Ini!Client, Ini!Position}
    BY <2>3 DEF Ini!Maximum, Ini!MaxClients, Ini!Comment, Ini!Client, Ini!Position
  <2> QED
    BY <2>1, <2>2, <2>3 DEF IniKeys, Ini!Tracked
<1>2. k # Ini!NoKey
  BY <1>1 DEF Ini!NoKey
<1>3. Ini!SectionOf(k) \in IniSections
  BY DEF Ini!SectionOf, IniSections
<1> QED
  BY <1>2, <1>3 DEF Ini!Entry

LEMMA KindsAre ==
  /\ \A l \in Heads : l.first = "[" /\ l.closed /\ ~l.equals
  /\ \A l \in KeyLines : ~l.closed /\ l.equals
  /\ \A l \in TextLines : ~l.closed /\ ~l.equals
<1>1. ASSUME NEW l \in Heads PROVE l.first = "[" /\ l.closed /\ ~l.equals
  <2>1. PICK s \in IniSections : l = Ini!SectionLine(s)
    BY DEF Heads
  <2> QED
    BY <2>1 DEF Ini!SectionLine
<1>2. ASSUME NEW l \in KeyLines PROVE ~l.closed /\ l.equals
  <2>1. PICK k \in IniKeys : \E v \in TextsOf(k) : l = Ini!KeyLine(k, v)
    BY DEF KeyLines
  <2>2. PICK v \in TextsOf(k) : l = Ini!KeyLine(k, v)
    BY <2>1
  <2> QED
    BY <2>2 DEF Ini!KeyLine
<1>3. ASSUME NEW l \in TextLines PROVE ~l.closed /\ ~l.equals
  <2>1. PICK f \in {"#", "", "["} : l = Ini!TextLine(f)
    BY DEF TextLines
  <2> QED
    BY <2>1 DEF Ini!TextLine
<1> QED
  BY <1>1, <1>2, <1>3

LEMMA HeadIs ==
  ASSUME NEW s \in IniSections
  PROVE  LET l == Ini!SectionLine(s) IN
         /\ Ini!Type(l) = "SECTION" /\ ~l.equals /\ l.section = s /\ l.key = Ini!NoKey
         /\ l.value = Ini!Empty
         /\ l \in Heads /\ l \notin KeyLines /\ l \notin TextLines
<1>1. PICK l : l = Ini!SectionLine(s)
  OBVIOUS
<1>2. l \in Heads
  BY <1>1 DEF Heads
<1>3. l.section = s /\ l.key = Ini!NoKey /\ l.value = Ini!Empty
  BY <1>1 DEF Ini!SectionLine
<1>4. Ini!Type(l) = "SECTION"
  BY <1>2, KindsAre DEF Ini!Type
<1> QED
  BY <1>1, <1>2, <1>3, <1>4, KindsAre

LEMMA KeyLineIs ==
  ASSUME NEW k \in IniKeys, NEW v \in TextsOf(k)
  PROVE  LET l == Ini!KeyLine(k, v) IN
         /\ Ini!Type(l) = "KEY" /\ l.equals /\ l.key = k /\ l.value = v
         /\ l \in KeyLines /\ l \notin Heads /\ l \notin TextLines
<1>1. PICK l : l = Ini!KeyLine(k, v)
  OBVIOUS
<1>2. l \in KeyLines
  BY <1>1 DEF KeyLines
<1>3. l.key = k /\ l.value = v
  BY <1>1 DEF Ini!KeyLine
<1>4. Ini!Type(l) = "KEY"
  BY <1>2, KindsAre DEF Ini!Type
<1> QED
  BY <1>1, <1>2, <1>3, <1>4, KindsAre

LEMMA TextLineIs ==
  ASSUME NEW f \in {"#", "", "["}
  PROVE  LET l == Ini!TextLine(f) IN
         /\ Ini!Type(l) \notin {"SECTION", "KEY"} /\ ~l.equals /\ l.key = Ini!NoKey
         /\ l \in TextLines /\ l \notin Heads /\ l \notin KeyLines
<1>1. PICK l : l = Ini!TextLine(f)
  OBVIOUS
<1>2. l \in TextLines
  BY <1>1 DEF TextLines
<1>3. l.key = Ini!NoKey
  BY <1>1 DEF Ini!TextLine
<1>4. Ini!Type(l) \notin {"SECTION", "KEY"}
  BY <1>2, KindsAre DEF Ini!Type
<1> QED
  BY <1>1, <1>2, <1>3, <1>4, KindsAre

\* What a line is.
LEMMA LinesAre ==
  ASSUME NEW l \in IniLines
  PROVE  /\ l \in Heads <=> Ini!Type(l) = "SECTION"
         /\ l \in KeyLines <=> Ini!Type(l) = "KEY"
         /\ l \in KeyLines <=> l.equals
         /\ l \in TextLines <=> l \notin Heads \cup KeyLines
         /\ l \in Heads => /\ l.section \in IniSections /\ l = Ini!SectionLine(l.section)
                           /\ l.key = Ini!NoKey /\ l.value = Ini!Empty
                           /\ EntryOf(l) = Header(l.section)
         /\ l \in KeyLines => /\ l.key \in IniKeys /\ l.value \in TextsOf(l.key)
                              /\ l = Ini!KeyLine(l.key, l.value) /\ EntryOf(l) = Ini!Entry(l.key)
         /\ l \in TextLines => l.key = Ini!NoKey
         /\ l \in Heads => l \notin KeyLines
<1>1. CASE l \in Heads
  <2>1. PICK s \in IniSections : l = Ini!SectionLine(s)
    BY <1>1 DEF Heads
  <2> QED
    BY <2>1, HeadIs DEF EntryOf
<1>2. CASE l \in KeyLines
  <2>1. PICK k \in IniKeys : \E v \in TextsOf(k) : l = Ini!KeyLine(k, v)
    BY <1>2 DEF KeyLines
  <2>2. PICK v \in TextsOf(k) : l = Ini!KeyLine(k, v)
    BY <2>1
  <2> QED
    BY <2>2, KeyLineIs DEF EntryOf
<1>3. CASE l \in TextLines
  <2>1. PICK f \in {"#", "", "["} : l = Ini!TextLine(f)
    BY <1>3 DEF TextLines
  <2> QED
    BY <2>1, TextLineIs
<1> QED
  BY <1>1, <1>2, <1>3 DEF IniLines

\* The name of a section is not that of a key.
LEMMA EntriesDiffer ==
  /\ \A s \in IniSections, k \in IniKeys : Header(s) # Ini!Entry(k)
  /\ \A s, u \in IniSections : Header(s) = Header(u) => s = u
  /\ \A k, x \in IniKeys : Ini!Entry(k) = Ini!Entry(x) => k = x
BY KeysAre DEF Header, Ini!Entry

\* The largest element, where there is one.
LEMMA LargestIs ==
  ASSUME NEW S \in SUBSET Int, NEW x \in S, \A y \in S : y <= x
  PROVE  Ini!Max(S) = x
<1>1. \A z \in S : (\A y \in S : z >= y) <=> z = x
  OBVIOUS
<1>2. (CHOOSE z \in S : \A y \in S : z >= y) = (CHOOSE z \in S : z = x)
  BY <1>1
<1> QED
  BY <1>2 DEF Ini!Max

\* The lines that are taken in.
Told(lines) == {n \in DOMAIN lines : lines[n] \notin TextLines}

IniEntries == {Header(s) : s \in IniSections} \cup {Ini!Entry(k) : k \in IniKeys}

\* What is in the memory.
Loaded(m) ==
  /\ m = [e \in DOMAIN m |-> m[e]] /\ DOMAIN m \subseteq IniEntries
  /\ \A s \in IniSections : Header(s) \in DOMAIN m => m[Header(s)] = Ini!Empty
  /\ \A k \in IniKeys : Ini!Entry(k) \in DOMAIN m =>
       m[Ini!Entry(k)] \in TextsOf(k) /\ Header(Ini!SectionOf(k)) \in DOMAIN m

LEMMA NamesAre ==
  ASSUME NEW lines, Sorted(lines)
  PROVE  /\ Ini!Taken(lines) = Told(lines)
         /\ \A n \in Told(lines) : Ini!Names(lines, n) = EntryOf(lines[n])
<1>1. lines \in Seq(IniLines)
  BY DEF Sorted
<1>2. \A n \in DOMAIN lines : n \in Nat /\ n > 0 /\ \A j \in 1 .. n : j \in DOMAIN lines
  BY <1>1
<1>3. \A n \in DOMAIN lines : lines[n] \in IniLines
  BY <1>1
<1>4. ASSUME NEW n \in DOMAIN lines, lines[n] \in Heads
      PROVE  n \in Ini!Headers(lines, n) /\ Ini!Names(lines, n) = EntryOf(lines[n])
  <2>1. PICK S : S = Ini!Headers(lines, n)
    OBVIOUS
  <2>2. n \in S /\ S \in SUBSET Int /\ \A y \in S : y <= n
    BY <1>2, <1>3, <1>4, <2>1, LinesAre DEF Ini!Headers
  <2>3. Ini!Max(S) = n
    BY <2>2, LargestIs
  <2> QED
    BY <1>3, <1>4, <2>1, <2>2, <2>3, LinesAre DEF Ini!Names, Header
<1>5. ASSUME NEW n \in DOMAIN lines, lines[n] \in KeyLines
      PROVE  Ini!Headers(lines, n) # {} /\ Ini!Names(lines, n) = EntryOf(lines[n])
  <2>1. PICK j \in 1 .. n - 1 : /\ lines[j] = Ini!SectionLine(Ini!SectionOf(lines[n].key))
                               /\ \A x \in j + 1 .. n - 1 : lines[x] \notin Heads
    BY <1>5 DEF Sorted
  <2>2. j \in DOMAIN lines /\ j \in Nat /\ j < n
    BY <1>2, <2>1
  <2>3. lines[n].key \in IniKeys /\ EntryOf(lines[n]) = Ini!Entry(lines[n].key) /\ lines[n] \notin Heads
    BY <1>3, <1>5, LinesAre
  <2>4. lines[j] \in Heads /\ lines[j].section = Ini!SectionOf(lines[n].key)
    BY <2>1, <2>3, KeysAre, HeadIs
  <2>5. PICK S : S = Ini!Headers(lines, n)
    OBVIOUS
  <2>6. j \in S /\ S \in SUBSET Int
    BY <1>2, <1>3, <2>2, <2>4, <2>5, LinesAre DEF Ini!Headers
  <2>7. ASSUME NEW y \in S PROVE y <= j
    <3>1. y \in 1 .. n /\ lines[y] \in Heads
      BY <1>2, <1>3, <2>5, LinesAre DEF Ini!Headers
    <3> QED
      BY <1>2, <2>1, <2>2, <2>3, <3>1
  <2>8. Ini!Max(S) = j
    BY <2>6, <2>7, LargestIs
  <2> QED
    BY <2>3, <2>4, <2>5, <2>6, <2>8 DEF Ini!Names, Ini!Entry
<1>6. ASSUME NEW n \in DOMAIN lines PROVE n \in Ini!Taken(lines) <=> n \in Told(lines)
  <2>1. CASE lines[n] \in TextLines
    BY <1>3, <2>1, LinesAre DEF Ini!Taken, Told
  <2>2. CASE lines[n] \in Heads
    BY <1>3, <1>4, <2>2, LinesAre DEF Ini!Taken, Told
  <2>3. CASE lines[n] \in KeyLines
    BY <1>3, <1>5, <2>3, LinesAre DEF Ini!Taken, Told
  <2> QED
    BY <1>3, <2>1, <2>2, <2>3 DEF IniLines
<1>7. Ini!Taken(lines) \subseteq DOMAIN lines /\ Told(lines) \subseteq DOMAIN lines
  BY DEF Ini!Taken, Told
<1>8. \A n \in Told(lines) : lines[n] \in Heads \cup KeyLines
  BY <1>3 DEF Told, IniLines
<1> QED
  BY <1>4, <1>5, <1>6, <1>7, <1>8

\* A sorted file is read line by line.
LEMMA LoadIs ==
  ASSUME NEW lines, Sorted(lines)
  PROVE  /\ Ini!Load(lines) = [e \in DOMAIN Ini!Load(lines) |-> Ini!Load(lines)[e]]
         /\ DOMAIN Ini!Load(lines) = {EntryOf(lines[n]) : n \in Told(lines)}
         /\ \A n \in Told(lines) : Ini!Load(lines)[EntryOf(lines[n])] = lines[n].value
<1>1. DOMAIN Ini!Load(lines) = {EntryOf(lines[n]) : n \in Told(lines)}
  BY NamesAre DEF Ini!Load
<1>2. ASSUME NEW n \in Told(lines) PROVE Ini!Load(lines)[EntryOf(lines[n])] = lines[n].value
  <2>1. PICK S : S = {x \in Ini!Taken(lines) : Ini!Names(lines, x) = EntryOf(lines[n])}
    OBVIOUS
  <2>2. \A x \in Told(lines) : EntryOf(lines[x]) = EntryOf(lines[n]) => x = n
    BY DEF Sorted, Told
  <2>3. S = {n}
    BY <2>1, <2>2, NamesAre
  <2>4. n \in Int
    BY DEF Told, Sorted
  <2>5. Ini!Max(S) = n
    BY <2>3, <2>4, LargestIs
  <2>6. EntryOf(lines[n]) \in {Ini!Names(lines, x) : x \in Ini!Taken(lines)}
    BY NamesAre
  <2> QED
    BY <2>1, <2>5, <2>6 DEF Ini!Load
<1> QED
  BY <1>1, <1>2 DEF Ini!Load

LEMMA LoadIsLoaded ==
  ASSUME NEW lines, Sorted(lines)
  PROVE  Loaded(Ini!Load(lines))
<1>1. PICK m : m = Ini!Load(lines)
  OBVIOUS
<1>2. /\ m = [e \in DOMAIN m |-> m[e]] /\ DOMAIN m = {EntryOf(lines[n]) : n \in Told(lines)}
      /\ \A n \in Told(lines) : m[EntryOf(lines[n])] = lines[n].value
  BY <1>1, LoadIs
<1>3. \A n \in Told(lines) : lines[n] \in IniLines /\ lines[n] \in Heads \cup KeyLines
  BY DEF Sorted, Told, IniLines
<1>4. DOMAIN m \subseteq IniEntries
  BY <1>2, <1>3, LinesAre DEF IniEntries
<1>5. ASSUME NEW s \in IniSections, Header(s) \in DOMAIN m PROVE m[Header(s)] = Ini!Empty
  <2>1. PICK n \in Told(lines) : EntryOf(lines[n]) = Header(s)
    BY <1>2, <1>5
  <2>2. lines[n] \in Heads
    BY <1>3, <2>1, LinesAre, EntriesDiffer
  <2> QED
    BY <1>2, <1>3, <2>1, <2>2, LinesAre
<1>6. ASSUME NEW k \in IniKeys, Ini!Entry(k) \in DOMAIN m
      PROVE  m[Ini!Entry(k)] \in TextsOf(k) /\ Header(Ini!SectionOf(k)) \in DOMAIN m
  <2>1. PICK n \in Told(lines) : EntryOf(lines[n]) = Ini!Entry(k)
    BY <1>2, <1>6
  <2>2. lines[n] \in KeyLines /\ lines[n].key = k
    BY <1>3, <2>1, LinesAre, EntriesDiffer
  <2>3. m[Ini!Entry(k)] \in TextsOf(k)
    BY <1>2, <1>3, <2>1, <2>2, LinesAre
  <2>4. PICK j \in 1 .. n - 1 : lines[j] = Ini!SectionLine(Ini!SectionOf(k))
    BY <2>2 DEF Sorted, Told
  <2>5. j \in DOMAIN lines
    BY <2>4 DEF Told, Sorted
  <2>6. lines[j] \in Heads /\ lines[j] \notin TextLines /\ lines[j].section = Ini!SectionOf(k)
    BY <2>4, KeysAre, HeadIs
  <2>7. j \in Told(lines) /\ EntryOf(lines[j]) = Header(Ini!SectionOf(k))
    BY <1>3, <2>5, <2>6, LinesAre DEF Told
  <2> QED
    BY <1>2, <2>3, <2>7
<1> QED
  BY <1>1, <1>2, <1>4, <1>5, <1>6 DEF Loaded

\* Keys are where the file says.
LEMMA LoadHas ==
  ASSUME NEW lines, Sorted(lines), NEW k \in IniKeys
  PROVE  /\ Ini!Entry(k) \in DOMAIN Ini!Load(lines) <=>
              \E n \in DOMAIN lines : lines[n] \in KeyLines /\ lines[n].key = k
         /\ \A n \in DOMAIN lines :
              lines[n] \in KeyLines /\ lines[n].key = k =>
                Ini!Load(lines)[Ini!Entry(k)] = lines[n].value
<1>1. \A n \in DOMAIN lines : lines[n] \in IniLines
  BY DEF Sorted
<1>2. ASSUME NEW n \in DOMAIN lines, lines[n] \in KeyLines, lines[n].key = k
      PROVE  n \in Told(lines) /\ EntryOf(lines[n]) = Ini!Entry(k)
  BY <1>1, <1>2, LinesAre DEF Told
<1>3. ASSUME NEW n \in Told(lines), EntryOf(lines[n]) = Ini!Entry(k)
      PROVE  lines[n] \in KeyLines /\ lines[n].key = k
  BY <1>1, <1>3, LinesAre, EntriesDiffer DEF Told
<1>4. \A n \in Told(lines) : n \in DOMAIN lines
  BY DEF Told
<1>5. PICK m : m = Ini!Load(lines)
  OBVIOUS
<1>6. /\ DOMAIN m = {EntryOf(lines[n]) : n \in Told(lines)}
      /\ \A n \in Told(lines) : m[EntryOf(lines[n])] = lines[n].value
  BY <1>5, LoadIs
<1>7. ASSUME Ini!Entry(k) \in DOMAIN m
      PROVE  \E n \in DOMAIN lines : lines[n] \in KeyLines /\ lines[n].key = k
  <2>1. PICK n \in Told(lines) : EntryOf(lines[n]) = Ini!Entry(k)
    BY <1>6, <1>7
  <2> QED
    BY <1>3, <1>4, <2>1
<1>8. ASSUME NEW n \in DOMAIN lines, lines[n] \in KeyLines, lines[n].key = k
      PROVE  Ini!Entry(k) \in DOMAIN m /\ m[Ini!Entry(k)] = lines[n].value
  BY <1>2, <1>6, <1>8
<1> QED
  BY <1>5, <1>7, <1>8

\* Lines taken from a sorted file, in its order, are sorted if each key is taken with its
\* section; there may be texts between them.
LEMMA SortedCopy ==
  ASSUME NEW from, Sorted(from), NEW lines \in Seq(IniLines), NEW origin,
         \A n \in Told(lines) :
           origin[n] \in Told(from) /\ EntryOf(lines[n]) = EntryOf(from[origin[n]]),
         \A n, j \in Told(lines) : n < j => origin[n] < origin[j],
         \A n \in Told(lines), y \in Told(from) :
           /\ lines[n] \in KeyLines /\ y < origin[n]
           /\ from[y] = Ini!SectionLine(Ini!SectionOf(lines[n].key))
           => \E j \in Told(lines) : origin[j] = y /\ lines[j] = from[y]
  PROVE  Sorted(lines)
<1>1. /\ \A n \in DOMAIN lines : lines[n] \in IniLines
      /\ \A n \in DOMAIN from : from[n] \in IniLines
      /\ \A n \in DOMAIN lines : n \in Nat /\ n > 0 /\ \A j \in 1 .. n : j \in DOMAIN lines
      /\ \A n \in DOMAIN from : n \in Nat /\ n > 0 /\ \A j \in 1 .. n : j \in DOMAIN from
  BY DEF Sorted
<1>2. ASSUME NEW n \in Told(lines)
      PROVE  /\ n \in Nat /\ origin[n] \in Nat /\ n \in DOMAIN lines /\ origin[n] \in DOMAIN from
             /\ lines[n] \in KeyLines <=> from[origin[n]] \in KeyLines
             /\ lines[n] \in Heads <=> from[origin[n]] \in Heads
             /\ lines[n] \in KeyLines => lines[n].key = from[origin[n]].key
  <2>1. /\ n \in DOMAIN lines /\ origin[n] \in DOMAIN from
        /\ lines[n] \in IniLines /\ lines[n] \notin TextLines
        /\ from[origin[n]] \in IniLines /\ from[origin[n]] \notin TextLines
    BY <1>1 DEF Told
  <2>2. EntryOf(lines[n]) = EntryOf(from[origin[n]])
    OBVIOUS
  <2> QED
    BY <1>1, <2>1, <2>2, LinesAre, EntriesDiffer
<1>3. ASSUME NEW n \in DOMAIN lines, NEW j \in DOMAIN lines,
             {lines[n], lines[j]} \cap TextLines = {}, EntryOf(lines[n]) = EntryOf(lines[j])
      PROVE  n = j
  <2>1. n \in Told(lines) /\ j \in Told(lines)
    BY <1>3 DEF Told
  <2>2. origin[n] = origin[j]
    BY <1>3, <2>1 DEF Sorted, Told
  <2> QED
    BY <1>2, <2>1, <2>2
<1>4. ASSUME NEW n \in DOMAIN lines, lines[n] \in KeyLines
      PROVE  \E j \in 1 .. n - 1 : /\ lines[j] = Ini!SectionLine(Ini!SectionOf(lines[n].key))
                                   /\ \A x \in j + 1 .. n - 1 : lines[x] \notin Heads
  <2>1. n \in Told(lines)
    BY <1>1, <1>4, LinesAre DEF Told
  <2>2. from[origin[n]] \in KeyLines /\ from[origin[n]].key = lines[n].key
    BY <1>2, <1>4, <2>1
  <2>3. PICK y \in 1 .. origin[n] - 1 :
               /\ from[y] = Ini!SectionLine(Ini!SectionOf(lines[n].key))
               /\ \A x \in y + 1 .. origin[n] - 1 : from[x] \notin Heads
    BY <1>2, <2>1, <2>2 DEF Sorted
  <2>4. y \in Told(from) /\ y < origin[n] /\ y \in Nat
    <3>1. y \in DOMAIN from
      BY <1>1, <1>2, <2>1, <2>3
    <3>2. lines[n].key \in IniKeys
      BY <1>1, <1>4, LinesAre
    <3> QED
      BY <1>2, <2>1, <2>3, <3>1, <3>2, KeysAre, HeadIs DEF Told
  <2>5. PICK j \in Told(lines) : origin[j] = y /\ lines[j] = from[y]
    BY <1>4, <2>1, <2>3, <2>4
  <2>6. j < n
    BY <1>2, <2>1, <2>4, <2>5
  <2>7. ASSUME NEW x \in j + 1 .. n - 1 PROVE lines[x] \notin Heads
    <3>1. x \in DOMAIN lines /\ x \in Nat /\ j < x /\ x < n
      BY <1>1, <1>2, <2>5
    <3>2. SUFFICES ASSUME lines[x] \in Heads PROVE FALSE
      OBVIOUS
    <3>3. x \in Told(lines)
      BY <1>1, <3>1, <3>2, LinesAre DEF Told
    <3>4. y < origin[x] /\ origin[x] < origin[n] /\ origin[x] \in Nat /\ origin[n] \in Nat
      BY <1>2, <2>1, <2>5, <3>1, <3>3
    <3>5. from[origin[x]] \in Heads
      BY <1>2, <3>2, <3>3
    <3> QED
      BY <2>3, <2>4, <3>4, <3>5
  <2> QED
    BY <1>2, <2>3, <2>5, <2>6, <2>7
<1> QED
  BY <1>3, <1>4 DEF Sorted

-----------------------------------------------------------------------------
LEMMA LayoutIs ==
  /\ DOMAIN Ini!Layout = 1 .. 2 * MaxServers + 8
  /\ Ini!Layout[1] = Header(Ini!Clients) /\ Ini!Layout[2] = Ini!Entry(Ini!Client)
  /\ Ini!Layout[3] = Header(Ini!Dialogs) /\ Ini!Layout[4] = Ini!Entry(Ini!Position)
  /\ Ini!Layout[5] = Header(Ini!Server) /\ Ini!Layout[6] = Ini!Entry(Ini!Maximum)
  /\ Ini!Layout[7] = Ini!Entry(Ini!MaxClients)
  /\ \A n \in 0 .. MaxServers - 1 : /\ Ini!Layout[8 + 2 * n] = Ini!Entry(Ini!Description(n))
                                    /\ Ini!Layout[9 + 2 * n] = Ini!Entry(Ini!Port(n))
  /\ Ini!Layout[2 * MaxServers + 8] = Ini!Entry(Ini!Comment)
<1>1. PICK M \in Nat : M = MaxServers /\ M > 0
  BY IniIs
<1>2. /\ Ini!SectionOf(Ini!Client) = Ini!Clients /\ Ini!SectionOf(Ini!Position) = Ini!Dialogs
      /\ Ini!SectionOf(Ini!Maximum) = Ini!Server /\ Ini!SectionOf(Ini!MaxClients) = Ini!Server
      /\ Ini!SectionOf(Ini!Comment) = Ini!Server
      /\ \A n : Ini!SectionOf(Ini!Port(n)) = Ini!Server /\ Ini!SectionOf(Ini!Description(n)) = Ini!Server
  BY DEF Ini!SectionOf, Ini!Client, Ini!Position, Ini!Maximum, Ini!MaxClients, Ini!Comment, Ini!Port,
         Ini!Description
<1>3. ASSUME NEW n \in 0 .. M - 1
      PROVE  /\ Ini!Layout[8 + 2 * n] = Ini!Entry(Ini!Description(n))
             /\ Ini!Layout[9 + 2 * n] = Ini!Entry(Ini!Port(n))
  <2>1. PICK p \in 8 .. 2 * M + 7 : p = 8 + 2 * n
    OBVIOUS
  <2>2. PICK q \in 8 .. 2 * M + 7 : q = 9 + 2 * n
    OBVIOUS
  <2>3. p % 2 = 0 /\ p \div 2 - 4 = n /\ q % 2 = 1 /\ q \div 2 - 4 = n
    BY <2>1, <2>2
  <2>4. /\ p \in 1 .. 2 * M + 8 /\ ~(p <= 7) /\ p # 2 * M + 8
        /\ q \in 1 .. 2 * M + 8 /\ ~(q <= 7) /\ q # 2 * M + 8
    OBVIOUS
  <2>5. Ini!Layout[p] = <<Ini!Server, Ini!Description(n)>> /\ Ini!Layout[q] = <<Ini!Server, Ini!Port(n)>>
    BY <1>1, <2>3, <2>4 DEF Ini!Layout
  <2> QED
    BY <1>2, <2>1, <2>2, <2>5 DEF Ini!Entry
<1>4. Ini!Layout[2 * M + 8] = Ini!Entry(Ini!Comment)
  BY <1>1, <1>2 DEF Ini!Layout, Ini!Entry
<1>5. PICK fixed : fixed = <<<<Ini!Clients, Ini!NoKey>>, <<Ini!Clients, Ini!Client>>,
                            <<Ini!Dialogs, Ini!NoKey>>, <<Ini!Dialogs, Ini!Position>>,
                            <<Ini!Server, Ini!NoKey>>, <<Ini!Server, Ini!Maximum>>,
                            <<Ini!Server, Ini!MaxClients>>>>
  OBVIOUS
<1>6. ASSUME NEW p \in 1 .. 7 PROVE Ini!Layout[p] = fixed[p]
  <2>1. p \in 1 .. 2 * MaxServers + 8 /\ p <= 7
    BY <1>1
  <2> QED
    BY <1>5, <2>1 DEF Ini!Layout
<1>7. /\ fixed[1] = Header(Ini!Clients) /\ fixed[2] = Ini!Entry(Ini!Client)
      /\ fixed[3] = Header(Ini!Dialogs) /\ fixed[4] = Ini!Entry(Ini!Position)
      /\ fixed[5] = Header(Ini!Server) /\ fixed[6] = Ini!Entry(Ini!Maximum)
      /\ fixed[7] = Ini!Entry(Ini!MaxClients)
  BY <1>2, <1>5 DEF Ini!Entry, Header
<1>8. DOMAIN Ini!Layout = 1 .. 2 * MaxServers + 8
  BY DEF Ini!Layout
<1> QED
  BY <1>1, <1>3, <1>4, <1>6, <1>7, <1>8

\* Its places.
LEMMA PlacesAre ==
  /\ \A p \in DOMAIN Ini!Layout : p \in Nat /\ p > 0
  /\ \A p \in DOMAIN Ini!Layout : Ini!Layout[p] \in IniEntries
  /\ \A e \in IniEntries : \E p \in DOMAIN Ini!Layout : Ini!Layout[p] = e
  /\ \A p, q \in DOMAIN Ini!Layout : Ini!Layout[p] = Ini!Layout[q] => p = q
  /\ \A p \in DOMAIN Ini!Layout, k \in IniKeys :
       Ini!Layout[p] = Ini!Entry(k) =>
         \E q \in 1 .. p - 1 : /\ Ini!Layout[q] = Header(Ini!SectionOf(k))
                               /\ \A x \in q + 1 .. p - 1, s \in IniSections : Ini!Layout[x] # Header(s)
<1>1. PICK M \in Nat : M = MaxServers /\ M > 0
  BY IniIs
<1>2. PICK g : g = Ini!Layout
  OBVIOUS
<1>3. DOMAIN g = 1 .. 2 * M + 8
  BY <1>1, <1>2, LayoutIs
<1>4. /\ g[1] = Header(Ini!Clients) /\ g[2] = Ini!Entry(Ini!Client)
      /\ g[3] = Header(Ini!Dialogs) /\ g[4] = Ini!Entry(Ini!Position)
      /\ g[5] = Header(Ini!Server) /\ g[6] = Ini!Entry(Ini!Maximum)
      /\ g[7] = Ini!Entry(Ini!MaxClients) /\ g[2 * M + 8] = Ini!Entry(Ini!Comment)
  BY <1>1, <1>2, LayoutIs
<1>6. /\ {Ini!Client, Ini!Position, Ini!Maximum, Ini!MaxClients, Ini!Comment} \subseteq IniKeys
      /\ \A n \in 0 .. M - 1 : Ini!Port(n) \in IniKeys /\ Ini!Description(n) \in IniKeys
  BY <1>1 DEF IniKeys, Ini!Tracked, Ini!Servers
<1>7. \A n \in 0 .. M - 1 : /\ g[8 + 2 * n] = Ini!Entry(Ini!Description(n))
                           /\ g[9 + 2 * n] = Ini!Entry(Ini!Port(n))
  BY <1>1, <1>2, LayoutIs
<1>8. ASSUME NEW p \in 1 .. 2 * M + 8
      PROVE  \/ p \in 1 .. 7 \/ p = 2 * M + 8
             \/ \E n \in 0 .. M - 1 : p = 8 + 2 * n \/ p = 9 + 2 * n
  <2>1. CASE p > 7 /\ p < 2 * M + 8
    <3>1. PICK n \in Int : n = (p - 8) \div 2
      OBVIOUS
    <3>2. n \in 0 .. M - 1 /\ (p = 8 + 2 * n \/ p = 9 + 2 * n)
      BY <2>1, <3>1
    <3> QED
      BY <3>2
  <2> QED
    BY <2>1
<1>9. \A p \in 1 .. 2 * M + 8 : g[p] \in IniEntries
  <2>1. ASSUME NEW p \in 1 .. 2 * M + 8 PROVE g[p] \in IniEntries
    <3>1. CASE p \in 1 .. 7
      BY <1>4, <1>6, <3>1 DEF IniEntries, IniSections
    <3>2. CASE p \notin 1 .. 7
      BY <1>4, <1>6, <1>7, <1>8, <3>2 DEF IniEntries
    <3> QED
      BY <3>1, <3>2
  <2> QED
    BY <2>1
<1>10. \A e \in IniEntries : \E p \in 1 .. 2 * M + 8 : g[p] = e
  <2>1. ASSUME NEW s \in IniSections PROVE \E p \in 1 .. 2 * M + 8 : g[p] = Header(s)
    BY <1>4 DEF IniSections
  <2>2. ASSUME NEW k \in IniKeys PROVE \E p \in 1 .. 2 * M + 8 : g[p] = Ini!Entry(k)
    <3>1. CASE k \in {Ini!Client, Ini!Position, Ini!Maximum, Ini!MaxClients, Ini!Comment}
      <4>1. 2 * M + 8 \in 1 .. 2 * M + 8
        OBVIOUS
      <4> QED
        BY <1>4, <3>1, <4>1
    <3>2. ASSUME NEW n \in 0 .. M - 1, k \in {Ini!Port(n), Ini!Description(n)}
          PROVE  \E p \in 1 .. 2 * M + 8 : g[p] = Ini!Entry(k)
      <4>1. 8 + 2 * n \in 1 .. 2 * M + 8 /\ 9 + 2 * n \in 1 .. 2 * M + 8
        OBVIOUS
      <4> QED
        BY <1>7, <3>2, <4>1
    <3> QED
      BY <1>1, <3>1, <3>2 DEF IniKeys, Ini!Tracked, Ini!Servers
  <2> QED
    BY <2>1, <2>2 DEF IniEntries
<1> DEFINE Place(e) ==
             IF e[2][1] = "description" THEN 8 + 2 * e[2][2]
             ELSE IF e[2][1] = "port" THEN 9 + 2 * e[2][2]
             ELSE IF e = Header(Ini!Clients) THEN 1
             ELSE IF e = Ini!Entry(Ini!Client) THEN 2
             ELSE IF e = Header(Ini!Dialogs) THEN 3
             ELSE IF e = Ini!Entry(Ini!Position) THEN 4
             ELSE IF e = Header(Ini!Server) THEN 5
             ELSE IF e = Ini!Entry(Ini!Maximum) THEN 6
             ELSE IF e = Ini!Entry(Ini!MaxClients) THEN 7 ELSE 2 * M + 8
<1>11. \A p \in 1 .. 2 * M + 8 : Place(g[p]) = p
  <2>1. /\ Place(Header(Ini!Clients)) = 1 /\ Place(Header(Ini!Dialogs)) = 3 /\ Place(Header(Ini!Server)) = 5
    BY DEF Header, Ini!Clients, Ini!Dialogs, Ini!Server, Ini!NoKey, Ini!Entry, Ini!Client, Ini!Position
  <2>2. /\ Place(Ini!Entry(Ini!Client)) = 2 /\ Place(Ini!Entry(Ini!Position)) = 4
        /\ Place(Ini!Entry(Ini!Maximum)) = 6 /\ Place(Ini!Entry(Ini!MaxClients)) = 7
        /\ Place(Ini!Entry(Ini!Comment)) = 2 * M + 8
    BY DEF Header, Ini!NoKey, Ini!Entry, Ini!Client, Ini!Position, Ini!Maximum, Ini!MaxClients, Ini!Comment
  <2>3. ASSUME NEW n \in 0 .. M - 1
        PROVE  Place(Ini!Entry(Ini!Description(n))) = 8 + 2 * n /\ Place(Ini!Entry(Ini!Port(n))) = 9 + 2 * n
    BY DEF Ini!Entry, Ini!Description, Ini!Port
  <2> HIDE DEF Place
  <2>4. ASSUME NEW p \in 1 .. 2 * M + 8 PROVE Place(g[p]) = p
    <3>1. CASE p \in 1 .. 7
      <4>1. p \in {1, 2, 3, 4, 5, 6, 7}
        BY <3>1
      <4> QED
        BY <1>4, <2>1, <2>2, <4>1
    <3>2. CASE p \notin 1 .. 7
      BY <1>4, <1>7, <1>8, <2>2, <2>3, <3>2
    <3> QED
      BY <3>1, <3>2
  <2> QED
    BY <2>4
<1>12. \A s \in IniSections : Place(Header(s)) \in {1, 3, 5}
  BY DEF IniSections, Header, Ini!Clients, Ini!Dialogs, Ini!Server, Ini!NoKey, Ini!Entry, Ini!Client, Ini!Position
<1> HIDE DEF Place
<1>13. ASSUME NEW p \in 1 .. 2 * M + 8, NEW k \in IniKeys, g[p] = Ini!Entry(k)
       PROVE  \E q \in 1 .. p - 1 : /\ g[q] = Header(Ini!SectionOf(k))
                                     /\ \A x \in q + 1 .. p - 1, s \in IniSections : g[x] # Header(s)
  <2>1. ASSUME NEW x \in 1 .. p - 1, NEW s \in IniSections, g[x] = Header(s) PROVE x \in {1, 3, 5}
    <3>1. x \in 1 .. 2 * M + 8
      BY <1>1
    <3> QED
      BY <1>11, <1>12, <2>1, <3>1
  <2>2. CASE k = Ini!Client
    <3>1. p = 2
      BY <1>4, <1>11, <1>13, <2>2
    <3> QED
      BY <1>4, <2>2, <3>1 DEF Ini!SectionOf
  <2>3. CASE k = Ini!Position
    <3>1. p = 4
      BY <1>4, <1>11, <1>13, <2>3
    <3>2. Ini!SectionOf(k) = Ini!Dialogs
      BY <2>3 DEF Ini!SectionOf, Ini!Position, Ini!Client
    <3> QED
      BY <1>4, <3>1, <3>2
  <2>4. CASE k \notin {Ini!Client, Ini!Position}
    <3>1. Ini!SectionOf(k) = Ini!Server
      BY <2>4 DEF Ini!SectionOf
    <3>2. p \notin {1, 3, 5}
      BY <1>4, <1>13, EntriesDiffer DEF IniSections
    <3>3. p \notin {2, 4}
      BY <1>4, <1>6, <1>13, <2>4, EntriesDiffer
    <3>4. p > 5
      BY <3>2, <3>3
    <3>5. \A x \in 5 + 1 .. p - 1, s \in IniSections : g[x] # Header(s)
      BY <2>1, <3>4
    <3> QED
      BY <1>4, <3>1, <3>4, <3>5
  <2> QED
    BY <2>2, <2>3, <2>4
<1>14. \A p, q \in 1 .. 2 * M + 8 : g[p] = g[q] => p = q
  BY <1>11
<1> QED
  BY <1>2, <1>3, <1>9, <1>10, <1>13, <1>14

-----------------------------------------------------------------------------
LEMMA SizeIs == \A S : Ini!Cardinality(S) = Cardinality(S)
BY DEF Ini!Cardinality, Cardinality

\* The n-th of a finite set of numbers: each is one, they are all different, and in order.
LEMMA NthIs ==
  ASSUME NEW S \in SUBSET Nat, IsFiniteSet(S)
  PROVE  /\ Cardinality(S) \in Nat
         /\ \A n \in 1 .. Cardinality(S) : Ini!Nth(S, n) \in S
         /\ \A n, j \in 1 .. Cardinality(S) : n < j => Ini!Nth(S, n) < Ini!Nth(S, j)
         /\ \A p \in S : \E n \in 1 .. Cardinality(S) : Ini!Nth(S, n) = p
<1> DEFINE Below(p) == {q \in S : q < p}
           rank == [p \in S |-> Cardinality(Below(p)) + 1]
<1>1. PICK c : c = Cardinality(S)
  OBVIOUS
<1>2. c \in Nat
  BY <1>1, FS_CardinalityType
<1>3. \A p \in S : IsFiniteSet(Below(p)) /\ Cardinality(Below(p)) \in Nat
  BY FS_Subset, FS_CardinalityType
<1>4. \A p \in S : Cardinality(Below(p)) < c
  <2>1. ASSUME NEW p \in S PROVE Cardinality(Below(p)) < c
    <3>1. Below(p) \in SUBSET S /\ Below(p) # S
      OBVIOUS
    <3>2. Cardinality(Below(p)) <= c /\ Cardinality(Below(p)) # c
      BY <1>1, <3>1, FS_Subset
    <3> QED
      BY <1>2, <1>3, <3>2
  <2> QED
    BY <2>1
<1>5. \A p, q \in S : p < q => rank[p] < rank[q]
  <2>1. ASSUME NEW p \in S, NEW q \in S, p < q PROVE Cardinality(Below(p)) < Cardinality(Below(q))
    <3>3. \A x \in S : x \in Nat
      OBVIOUS
    <3>4. \A x \in S : x < p => x < q
      BY <2>1, <3>3
    <3>1. /\ \A x \in Below(p) : x \in Below(q)
          /\ p \in Below(q) /\ p \notin Below(p)
      BY <2>1, <3>3, <3>4
    <3>2. Cardinality(Below(p)) <= Cardinality(Below(q)) /\ Cardinality(Below(p)) # Cardinality(Below(q))
      <4>1. PICK T : T = Below(q)
        OBVIOUS
      <4>2. PICK U : U = Below(p)
        OBVIOUS
      <4>3. IsFiniteSet(T) /\ U \in SUBSET T /\ U # T
        BY <1>3, <3>1, <4>1, <4>2
      <4>4. Cardinality(U) <= Cardinality(T) /\ Cardinality(U) # Cardinality(T)
        BY <4>3, FS_Subset
      <4> QED
        BY <4>1, <4>2, <4>4
    <3> QED
      BY <1>3, <3>2
  <2> QED
    BY <1>3, <2>1
<1>6. rank \in [S -> 1 .. c]
  BY <1>2, <1>3, <1>4
<1>7. \A p, q \in S : rank[p] = rank[q] => p = q
  <2>1. ASSUME NEW p \in S, NEW q \in S, rank[p] = rank[q] PROVE p = q
    <3>1. p \in Nat /\ q \in Nat /\ rank[p] \in Nat /\ rank[q] \in Nat
      BY <1>6
    <3>2. ~(rank[p] < rank[q]) /\ ~(rank[q] < rank[p])
      BY <2>1, <3>1
    <3> QED
      BY <1>5, <3>1, <3>2
  <2> QED
    BY <2>1
<1>8. rank \in Surjection(S, 1 .. c)
  <2>1. rank \in Injection(S, 1 .. c)
    BY <1>6, <1>7 DEF Injection, IsInjective
  <2>2. IsFiniteSet(1 .. c) /\ Cardinality(1 .. c) = c
    BY <1>2, FS_Interval
  <2> HIDE DEF rank
  <2> QED
    BY <1>1, <2>1, <2>2, FS_Injection
<1>9. \A n \in 1 .. c : \E p \in S : rank[p] = n
  BY <1>8 DEF Surjection
<1>10. \A p \in S : Ini!Nth(S, rank[p]) = p
  <2>1. ASSUME NEW p \in S PROVE Ini!Nth(S, rank[p]) = p
    <3>1. \A q \in S : Cardinality(Below(q)) = rank[p] - 1 <=> q = p
      BY <1>3, <1>7
    <3>2. (CHOOSE q \in S : Cardinality(Below(q)) = rank[p] - 1) = (CHOOSE q \in S : q = p)
      BY <3>1
    <3>3. (CHOOSE q \in S : q = p) = p
      OBVIOUS
    <3>4. Ini!Nth(S, rank[p]) = (CHOOSE q \in S : Cardinality(Below(q)) = rank[p] - 1)
      BY SizeIs DEF Ini!Nth
    <3> QED
      BY <3>2, <3>3, <3>4
  <2> QED
    BY <2>1
<1>11. PICK r : r = rank
  OBVIOUS
<1>12. /\ \A p \in S : r[p] \in 1 .. c /\ Ini!Nth(S, r[p]) = p
       /\ \A n \in 1 .. c : \E p \in S : r[p] = n
       /\ \A p, q \in S : p < q => r[p] < r[q]
  BY <1>5, <1>6, <1>9, <1>10, <1>11
<1> HIDE DEF rank
<1>13. ASSUME NEW n \in 1 .. c, NEW j \in 1 .. c, n < j PROVE Ini!Nth(S, n) < Ini!Nth(S, j)
  <2>1. PICK p \in S : r[p] = n
    BY <1>12
  <2>2. PICK q \in S : r[q] = j
    BY <1>12
  <2>3. p \in Nat /\ q \in Nat /\ ~(q < p) /\ p # q
    BY <1>12, <1>13, <2>1, <2>2
  <2> QED
    BY <1>12, <2>1, <2>2, <2>3
<1> QED
  BY <1>1, <1>2, <1>12, <1>13

\* The line of a name.
LEMMA LineIs ==
  ASSUME NEW e \in IniEntries, NEW v,
         \A s \in IniSections : e = Header(s) => v = Ini!Empty,
         \A k \in IniKeys : e = Ini!Entry(k) => v \in TextsOf(k)
  PROVE  /\ Ini!Line(e, v) \in IniLines /\ Ini!Line(e, v) \notin TextLines
         /\ EntryOf(Ini!Line(e, v)) = e /\ Ini!Line(e, v).value = v
         /\ \A s \in IniSections : e = Header(s) => Ini!Line(e, v) = Ini!SectionLine(s)
<1>1. ASSUME NEW s \in IniSections, e = Header(s)
      PROVE  Ini!Line(e, v) = Ini!SectionLine(s) /\ v = Ini!Empty
  BY <1>1 DEF Ini!Line, Header
<1>2. ASSUME NEW k \in IniKeys, e = Ini!Entry(k)
      PROVE  Ini!Line(e, v) = Ini!KeyLine(k, v) /\ v \in TextsOf(k)
  BY <1>2, KeysAre DEF Ini!Line
<1>3. CASE \E s \in IniSections : e = Header(s)
  <2>1. PICK s \in IniSections : e = Header(s)
    BY <1>3
  <2>2. PICK l : l = Ini!SectionLine(s)
    OBVIOUS
  <2>3. Ini!Line(e, v) = l /\ v = Ini!Empty
    BY <1>1, <2>1, <2>2
  <2>4. l.section = s /\ l.value = Ini!Empty /\ l \in Heads /\ l \notin TextLines
    BY <2>2, HeadIs
  <2>5. l \in IniLines
    BY <2>4 DEF IniLines
  <2>6. EntryOf(l) = e
    BY <2>1, <2>4, <2>5, LinesAre
  <2> QED
    BY <1>1, <2>3, <2>4, <2>5, <2>6
<1>4. CASE \E k \in IniKeys : e = Ini!Entry(k)
  <2>1. PICK k \in IniKeys : e = Ini!Entry(k)
    BY <1>4
  <2>2. PICK l : l = Ini!KeyLine(k, v)
    OBVIOUS
  <2>3. Ini!Line(e, v) = l /\ v \in TextsOf(k)
    BY <1>2, <2>1, <2>2
  <2>4. l.key = k /\ l.value = v /\ l \in KeyLines /\ l \notin TextLines
    BY <2>2, <2>3, KeyLineIs
  <2>5. l \in IniLines
    BY <2>4 DEF IniLines
  <2>6. EntryOf(l) = e
    BY <2>1, <2>4, <2>5, LinesAre
  <2> QED
    BY <2>1, <2>3, <2>4, <2>5, <2>6, EntriesDiffer
<1> QED
  BY <1>3, <1>4 DEF IniEntries

\* A file with all names, and no values.
Full == [p \in DOMAIN Ini!Layout |-> Ini!Line(Ini!Layout[p], Ini!Empty)]

LEMMA FullIs ==
  /\ Sorted(Full) /\ Told(Full) = DOMAIN Ini!Layout /\ DOMAIN Full = DOMAIN Ini!Layout
  /\ \A p \in DOMAIN Ini!Layout : EntryOf(Full[p]) = Ini!Layout[p]
<1>1. PICK g : g = Ini!Layout
  OBVIOUS
<1>2. PICK f : f = Full
  OBVIOUS
<1>3. DOMAIN f = DOMAIN g /\ \A p \in DOMAIN g : f[p] = Ini!Line(g[p], Ini!Empty)
  BY <1>1, <1>2 DEF Full
<1>4. \A p \in DOMAIN g : g[p] \in IniEntries /\ p \in Nat /\ p > 0
  BY <1>1, PlacesAre
<1>5. \A k \in IniKeys : Ini!Empty \in TextsOf(k)
  BY DEF TextsOf, Ini!Texts
<1>6. ASSUME NEW p \in DOMAIN g
      PROVE  /\ f[p] \in IniLines /\ f[p] \notin TextLines /\ EntryOf(f[p]) = g[p]
             /\ \A s \in IniSections : g[p] = Header(s) => f[p] = Ini!SectionLine(s)
  BY <1>3, <1>4, <1>5, LineIs
<1>7. f \in Seq(IniLines)
  <2>1. PICK M \in Nat : M = 2 * MaxServers + 8
    BY IniIs
  <2>2. DOMAIN f = 1 .. M
    BY <1>1, <1>3, <2>1, LayoutIs
  <2>3. f = [p \in DOMAIN f |-> f[p]]
    BY <1>2 DEF Full
  <2> QED
    BY <1>3, <1>6, <2>1, <2>2, <2>3
<1>8. ASSUME NEW n \in DOMAIN f, NEW j \in DOMAIN f, EntryOf(f[n]) = EntryOf(f[j]) PROVE n = j
  <2>1. g[n] = g[j]
    BY <1>3, <1>6, <1>8
  <2> QED
    BY <1>1, <1>3, <2>1, PlacesAre
<1>9. ASSUME NEW n \in DOMAIN f, f[n] \in KeyLines
      PROVE  \E j \in 1 .. n - 1 : /\ f[j] = Ini!SectionLine(Ini!SectionOf(f[n].key))
                                   /\ \A x \in j + 1 .. n - 1 : f[x] \notin Heads
  <2>1. PICK k \in IniKeys : k = f[n].key /\ g[n] = Ini!Entry(k)
    BY <1>3, <1>6, <1>9, LinesAre
  <2>2. PICK q \in 1 .. n - 1 : /\ g[q] = Header(Ini!SectionOf(k))
                               /\ \A x \in q + 1 .. n - 1, s \in IniSections : g[x] # Header(s)
    BY <1>1, <1>3, <2>1, PlacesAre
  <2>3. PICK M \in Nat : DOMAIN g = 1 .. M
    BY <1>1, IniIs, LayoutIs
  <2>4. n \in Nat /\ q \in DOMAIN g /\ \A x \in q + 1 .. n - 1 : x \in DOMAIN g
    BY <1>3, <2>3
  <2>5. f[q] = Ini!SectionLine(Ini!SectionOf(k))
    BY <1>6, <2>2, <2>4, KeysAre
  <2>6. \A x \in DOMAIN g : f[x] \in Heads => \E s \in IniSections : g[x] = Header(s)
    BY <1>6, LinesAre
  <2> QED
    BY <2>1, <2>2, <2>4, <2>5, <2>6
<1>10. Told(f) = DOMAIN g
  BY <1>3, <1>6 DEF Told
<1>11. Sorted(f)
  BY <1>7, <1>8, <1>9 DEF Sorted
<1> QED
  BY <1>1, <1>2, <1>3, <1>6, <1>10, <1>11

\* What is saved is sorted, and is what is read again.
LEMMA SaveIs ==
  ASSUME NEW m, Loaded(m)
  PROVE  /\ Sorted(Ini!Save(m)) /\ Told(Ini!Save(m)) = DOMAIN Ini!Save(m)
         /\ Ini!Load(Ini!Save(m)) = m
<1>1. PICK g : g = Ini!Layout
  OBVIOUS
<1>2. PICK P : P = Ini!Present(m)
  OBVIOUS
<1>3. P \in SUBSET Nat /\ \A p \in P : p \in DOMAIN g /\ g[p] \in DOMAIN m /\ g[p] \in IniEntries
  BY <1>1, <1>2, PlacesAre DEF Ini!Present
<1>4. IsFiniteSet(P)
  <2>1. PICK M \in Nat : DOMAIN g = 1 .. M
    BY <1>1, IniIs, LayoutIs
  <2>2. IsFiniteSet(1 .. M) /\ P \in SUBSET (1 .. M)
    BY <1>3, <2>1, FS_Interval
  <2> QED
    BY <2>2, FS_Subset
<1>5. PICK c : c = Cardinality(P)
  OBVIOUS
<1>6. PICK origin : origin = [n \in 1 .. c |-> Ini!Nth(P, n)]
  OBVIOUS
<1>7. /\ c \in Nat /\ \A n \in 1 .. c : origin[n] \in P
      /\ \A n, j \in 1 .. c : n < j => origin[n] < origin[j]
      /\ \A p \in P : \E n \in 1 .. c : origin[n] = p
  BY <1>3, <1>4, <1>5, <1>6, NthIs
<1>8. PICK lines : lines = Ini!Save(m)
  OBVIOUS
<1>9. lines = [n \in 1 .. c |-> Ini!Line(g[origin[n]], m[g[origin[n]]])]
  BY <1>1, <1>2, <1>5, <1>6, <1>8, SizeIs DEF Ini!Save
<1>10. ASSUME NEW n \in 1 .. c
       PROVE  /\ lines[n] \in IniLines /\ lines[n] \notin TextLines
              /\ EntryOf(lines[n]) = g[origin[n]] /\ lines[n].value = m[g[origin[n]]]
              /\ \A s \in IniSections : g[origin[n]] = Header(s) => lines[n] = Ini!SectionLine(s)
  <2>1. g[origin[n]] \in DOMAIN m /\ g[origin[n]] \in IniEntries
    BY <1>3, <1>7
  <2>2. lines[n] = Ini!Line(g[origin[n]], m[g[origin[n]]])
    BY <1>9
  <2>3. /\ \A s \in IniSections : g[origin[n]] = Header(s) => m[g[origin[n]]] = Ini!Empty
        /\ \A k \in IniKeys : g[origin[n]] = Ini!Entry(k) => m[g[origin[n]]] \in TextsOf(k)
    BY <2>1 DEF Loaded
  <2> QED
    BY <2>1, <2>2, <2>3, LineIs
<1>11. lines \in Seq(IniLines) /\ DOMAIN lines = 1 .. c
  BY <1>7, <1>9, <1>10
<1>12. Told(lines) = 1 .. c
  BY <1>10, <1>11 DEF Told
<1>13. Sorted(lines)
  <2>1. PICK from : from = Full
    OBVIOUS
  <2>2. /\ Sorted(from) /\ Told(from) = DOMAIN g /\ DOMAIN from = DOMAIN g
        /\ \A p \in DOMAIN g : EntryOf(from[p]) = g[p]
    BY <1>1, <2>1, FullIs
  <2>3. \A n \in Told(lines) : origin[n] \in Told(from) /\ EntryOf(lines[n]) = EntryOf(from[origin[n]])
    BY <1>3, <1>7, <1>10, <1>12, <2>2
  <2>4. \A n, j \in Told(lines) : n < j => origin[n] < origin[j]
    BY <1>7, <1>12
  <2>5. ASSUME NEW n \in Told(lines), NEW y \in Told(from), lines[n] \in KeyLines, y < origin[n],
               from[y] = Ini!SectionLine(Ini!SectionOf(lines[n].key))
        PROVE  \E j \in Told(lines) : origin[j] = y /\ lines[j] = from[y]
    <3>1. PICK k \in IniKeys : k = lines[n].key /\ g[origin[n]] = Ini!Entry(k)
      BY <1>10, <1>12, <2>5, LinesAre
    <3>2. PICK s \in IniSections : s = Ini!SectionOf(k) /\ from[y] = Ini!SectionLine(s)
      BY <2>5, <3>1, KeysAre
    <3>3. from[y] \in Heads /\ from[y].section = s /\ from[y] \in IniLines
      BY <3>2, HeadIs DEF IniLines
    <3>4. g[y] = Header(s)
      BY <2>2, <3>3, LinesAre
    <3>5. Header(s) \in DOMAIN m
      BY <1>3, <1>7, <1>12, <3>1, <3>2 DEF Loaded
    <3>6. y \in P
      BY <1>1, <1>2, <2>2, <3>4, <3>5 DEF Ini!Present
    <3>7. PICK j \in 1 .. c : origin[j] = y
      BY <1>7, <3>6
    <3> QED
      BY <1>10, <1>12, <3>2, <3>4, <3>7
  <2>6. \A n \in Told(lines), y \in Told(from) :
          /\ lines[n] \in KeyLines /\ y < origin[n]
          /\ from[y] = Ini!SectionLine(Ini!SectionOf(lines[n].key))
          => \E j \in Told(lines) : origin[j] = y /\ lines[j] = from[y]
    BY <2>5
  <2>7. lines \in Seq(IniLines) /\ Sorted(from)
    BY <1>11, <2>2
  <2> QED
    BY <2>3, <2>4, <2>6, <2>7, SortedCopy
<1>14. Ini!Load(lines) = m
  <2>1. PICK read : read = Ini!Load(lines)
    OBVIOUS
  <2>2. /\ read = [e \in DOMAIN read |-> read[e]] /\ DOMAIN read = {EntryOf(lines[n]) : n \in 1 .. c}
        /\ \A n \in 1 .. c : read[EntryOf(lines[n])] = lines[n].value
    BY <1>12, <1>13, <2>1, LoadIs
  <2>3. ASSUME NEW e \in DOMAIN m PROVE \E n \in 1 .. c : e = g[origin[n]]
    <3>1. e \in IniEntries
      BY DEF Loaded
    <3>2. PICK p \in DOMAIN g : g[p] = e
      BY <1>1, <3>1, PlacesAre
    <3>3. p \in P
      BY <1>1, <1>2, <3>2 DEF Ini!Present
    <3> QED
      BY <1>7, <3>2, <3>3
  <2>4. DOMAIN read = {g[origin[n]] : n \in 1 .. c}
    BY <1>10, <2>2
  <2>5. DOMAIN read = DOMAIN m
    <3>1. \A n \in 1 .. c : g[origin[n]] \in DOMAIN m
      BY <1>3, <1>7
    <3>2. \A e \in DOMAIN m : e \in DOMAIN read
      BY <2>3, <2>4
    <3>3. \A e \in DOMAIN read : e \in DOMAIN m
      BY <2>4, <3>1
    <3> QED
      BY <3>2, <3>3
  <2>6. \A e \in DOMAIN m : read[e] = m[e]
    BY <1>10, <2>2, <2>3
  <2>7. m = [e \in DOMAIN m |-> m[e]]
    BY DEF Loaded
  <2>8. [e \in DOMAIN read |-> read[e]] = [e \in DOMAIN m |-> m[e]]
    BY <2>5, <2>6
  <2> QED
    BY <2>1, <2>2, <2>7, <2>8
<1> QED
  BY <1>8, <1>11, <1>12, <1>13, <1>14

-----------------------------------------------------------------------------
\* What is used where people have set w.
Used(w, k) == IF w[k] = Ini!Empty THEN Ini!Default(k) ELSE w[k]

\* Memory, and a file, in which only the keys in d are not as people have set them.
KeptIn(m, w, d) ==
  \A k \in Ini!Tracked \ d :
    /\ Ini!Entry(k) \in DOMAIN m => m[Ini!Entry(k)] = Used(w, k)
    /\ w[k] # Ini!Empty => Ini!Entry(k) \in DOMAIN m

KeptOn(lines, w, d) ==
  \A k \in Ini!Tracked \ d :
    /\ \A n \in DOMAIN lines : lines[n].key = k => lines[n].value = Used(w, k)
    /\ w[k] # Ini!Empty => \E n \in DOMAIN lines : lines[n].key = k

LEMMA TrackedAre ==
  /\ Ini!Tracked \subseteq IniKeys /\ Ini!Position \notin Ini!Tracked
  /\ \A n : Ini!Description(n) \notin Ini!Tracked
  /\ \A k \in Ini!Tracked : Ini!SectionOf(k) \in {Ini!Clients, Ini!Server}
  /\ {Ini!Maximum, Ini!MaxClients, Ini!Client} \subseteq Ini!Tracked
<1>1. Ini!Tracked \subseteq IniKeys
  BY DEF IniKeys
<1>2. Ini!Position \notin Ini!Tracked
  BY DEF Ini!Tracked, Ini!Position, Ini!Maximum, Ini!MaxClients, Ini!Comment, Ini!Client, Ini!Port
<1>3. \A n : Ini!Description(n) \notin Ini!Tracked
  BY DEF Ini!Tracked, Ini!Description, Ini!Maximum, Ini!MaxClients, Ini!Comment, Ini!Client, Ini!Port
<1>4. \A k \in Ini!Tracked : Ini!SectionOf(k) \in {Ini!Clients, Ini!Server}
  BY <1>2 DEF Ini!SectionOf
<1> QED
  BY <1>1, <1>2, <1>3, <1>4 DEF Ini!Tracked

LEMMA TextsAre ==
  ASSUME NEW k \in IniKeys
  PROVE  /\ TextsOf(k) \subseteq Ini!Texts /\ Ini!Empty \in TextsOf(k) /\ Values \subseteq TextsOf(k)
         /\ Ini!Default(k) \in TextsOf(k) /\ Ini!Default(k) # Ini!Empty
         /\ k # Ini!Maximum => Ini!Own \in TextsOf(k) /\ Ini!Part \in TextsOf(k)
         /\ Ini!Default(Ini!Maximum) = MaxServers
BY IniIs DEF TextsOf, Ini!Texts, Ini!Default, Ini!Own, Ini!Empty

LEMMA KeptBoth ==
  ASSUME NEW lines, Sorted(lines), NEW w, NEW d
  PROVE  KeptIn(Ini!Load(lines), w, d) <=> KeptOn(lines, w, d)
<1>1. PICK m : m = Ini!Load(lines)
  OBVIOUS
<1>2. \A n \in DOMAIN lines : lines[n] \in IniLines
  BY DEF Sorted
<1>3. \A n \in DOMAIN lines : lines[n].key \in IniKeys => lines[n] \in KeyLines
  <2>1. ASSUME NEW n \in DOMAIN lines, lines[n].key \in IniKeys PROVE lines[n] \in KeyLines
    BY <1>2, <2>1, LinesAre, KeysAre
  <2> QED
    BY <2>1
<1>4. ASSUME NEW k \in Ini!Tracked
      PROVE  /\ Ini!Entry(k) \in DOMAIN m <=> \E n \in DOMAIN lines : lines[n].key = k
             /\ \A n \in DOMAIN lines : lines[n].key = k => m[Ini!Entry(k)] = lines[n].value
  BY <1>1, <1>3, LoadHas, TrackedAre
<1>5. ASSUME KeptIn(m, w, d) PROVE KeptOn(lines, w, d)
  BY <1>4, <1>5 DEF KeptIn, KeptOn
<1>6. ASSUME KeptOn(lines, w, d) PROVE KeptIn(m, w, d)
  BY <1>4, <1>6 DEF KeptIn, KeptOn
<1> QED
  BY <1>1, <1>5, <1>6

\* Writing keys changes them, and adds their sections.
LEMMA WrittenIs ==
  ASSUME NEW m, Loaded(m), NEW v, DOMAIN v \subseteq IniKeys, \A k \in DOMAIN v : v[k] \in TextsOf(k)
  PROVE  /\ Loaded(Ini!Written(m, v))
         /\ \A k \in IniKeys :
              /\ Ini!Entry(k) \in DOMAIN Ini!Written(m, v) <=> Ini!Entry(k) \in DOMAIN m \/ k \in DOMAIN v
              /\ k \in DOMAIN v => Ini!Written(m, v)[Ini!Entry(k)] = v[k]
              /\ Ini!Entry(k) \in DOMAIN m /\ k \notin DOMAIN v =>
                   Ini!Written(m, v)[Ini!Entry(k)] = m[Ini!Entry(k)]
<1>1. PICK x : x = Ini!Written(m, v)
  OBVIOUS
<1>2. PICK S : S = DOMAIN m \cup {Ini!Entry(k) : k \in DOMAIN v} \cup {Header(Ini!SectionOf(k)) : k \in DOMAIN v}
  OBVIOUS
<1>3. x = [e \in S |-> IF e[2] \in DOMAIN v /\ e = Ini!Entry(e[2]) THEN v[e[2]]
                       ELSE IF e \in DOMAIN m THEN m[e] ELSE Ini!Empty]
  BY <1>1, <1>2 DEF Ini!Written, Header
<1>4. DOMAIN x = S /\ x = [e \in DOMAIN x |-> x[e]]
  BY <1>3
<1>5. S \subseteq IniEntries
  BY <1>2, KeysAre DEF Loaded, IniEntries
<1>6. ASSUME NEW s \in IniSections, Header(s) \in S PROVE x[Header(s)] = Ini!Empty
  <2>1. Header(s)[2] = Ini!NoKey
    BY DEF Header
  <2>2. Ini!NoKey \notin DOMAIN v
    BY KeysAre
  <2>3. x[Header(s)] = IF Header(s) \in DOMAIN m THEN m[Header(s)] ELSE Ini!Empty
    BY <1>3, <1>6, <2>1, <2>2
  <2> QED
    BY <2>3 DEF Loaded
<1>7. ASSUME NEW k \in IniKeys
      PROVE  /\ Ini!Entry(k) \in S <=> Ini!Entry(k) \in DOMAIN m \/ k \in DOMAIN v
             /\ k \in DOMAIN v => x[Ini!Entry(k)] = v[k]
             /\ Ini!Entry(k) \in DOMAIN m /\ k \notin DOMAIN v => x[Ini!Entry(k)] = m[Ini!Entry(k)]
  <2>1. Ini!Entry(k)[2] = k
    BY KeysAre
  <2>2. \A y \in DOMAIN v : Ini!Entry(k) # Header(Ini!SectionOf(y))
    BY KeysAre, EntriesDiffer
  <2>3. \A y \in DOMAIN v : Ini!Entry(k) = Ini!Entry(y) => k = y
    BY EntriesDiffer
  <2>4. Ini!Entry(k) \in S <=> Ini!Entry(k) \in DOMAIN m \/ k \in DOMAIN v
    BY <1>2, <2>2, <2>3
  <2>5. ASSUME k \in DOMAIN v PROVE x[Ini!Entry(k)] = v[k]
    BY <1>3, <2>1, <2>4, <2>5
  <2>6. ASSUME Ini!Entry(k) \in DOMAIN m, k \notin DOMAIN v PROVE x[Ini!Entry(k)] = m[Ini!Entry(k)]
    BY <1>3, <2>1, <2>4, <2>6
  <2> QED
    BY <2>4, <2>5, <2>6
<1>8. ASSUME NEW k \in IniKeys, Ini!Entry(k) \in S
      PROVE  x[Ini!Entry(k)] \in TextsOf(k) /\ Header(Ini!SectionOf(k)) \in S
  <2>1. CASE k \in DOMAIN v
    BY <1>2, <1>7, <2>1
  <2>2. CASE k \notin DOMAIN v
    BY <1>2, <1>7, <1>8, <2>2 DEF Loaded
  <2> QED
    BY <2>1, <2>2
<1>9. Loaded(x)
  BY <1>4, <1>5, <1>6, <1>8 DEF Loaded
<1> QED
  BY <1>1, <1>4, <1>7, <1>9

-----------------------------------------------------------------------------
\* What is read of a key.
LEMMA GetIs ==
  ASSUME NEW m, Loaded(m), NEW k \in IniKeys
  PROVE  LET g == Ini!GetProfileString(m, k, Ini!Default(k)) IN
         /\ g \in TextsOf(k) /\ g # Ini!Empty
         /\ \A w, d : KeptIn(m, w, d) /\ k \in Ini!Tracked \ d => g = Used(w, k)
<1>1. PICK g : g = Ini!GetProfileString(m, k, Ini!Default(k))
  OBVIOUS
<1>2. g = IF Ini!Entry(k) \in DOMAIN m /\ m[Ini!Entry(k)] # Ini!Empty THEN m[Ini!Entry(k)] ELSE Ini!Default(k)
  BY <1>1 DEF Ini!GetProfileString
<1>3. g \in TextsOf(k) /\ g # Ini!Empty
  BY <1>2, TextsAre DEF Loaded
<1>4. ASSUME NEW w, NEW d, KeptIn(m, w, d), k \in Ini!Tracked \ d PROVE g = Used(w, k)
  <2>1. /\ Ini!Entry(k) \in DOMAIN m => m[Ini!Entry(k)] = Used(w, k)
        /\ w[k] # Ini!Empty => Ini!Entry(k) \in DOMAIN m
    BY <1>4 DEF KeptIn
  <2>2. Used(w, k) # Ini!Empty
    BY TextsAre DEF Used
  <2>3. CASE Ini!Entry(k) \in DOMAIN m
    BY <1>2, <2>1, <2>2, <2>3
  <2>4. CASE Ini!Entry(k) \notin DOMAIN m
    BY <1>2, <2>1, <2>4 DEF Used
  <2> QED
    BY <2>3, <2>4
<1> QED
  BY <1>1, <1>3, <1>4

\* The start reads what is there and writes it back.
LEMMA StartedIs ==
  ASSUME NEW m, Loaded(m), NEW w, NEW d, KeptIn(m, w, d), NEW g,
         g = Ini!Get(m, DOMAIN Ini!GetServerConnectionManagementInfo(m) \cup {Ini!Client})
  PROVE  /\ Loaded(Ini!Started(m)) /\ KeptIn(Ini!Started(m), w, d)
         /\ DOMAIN g \subseteq Ini!Tracked
         /\ \A k \in Ini!Tracked \ d : k \in DOMAIN g => g[k] = Used(w, k)
<1>1. PICK N : N = Ini!Number(m)
  OBVIOUS
<1>2. N \in Nat /\ N <= MaxServers
  <2>1. N \in TextsOf(Ini!Maximum) /\ N # Ini!Empty
    BY <1>1, GetIs, TrackedAre DEF Ini!Number
  <2> QED
    BY <2>1, IniIs DEF TextsOf
<1>3. PICK K : K = {Ini!Maximum, Ini!MaxClients} \cup {Ini!Port(n) : n \in 0 .. N - 1}
  OBVIOUS
<1>4. K \subseteq Ini!Tracked /\ K \subseteq IniKeys /\ Ini!Maximum \in K
  <2>1. 0 .. N - 1 \subseteq Ini!Servers
    BY <1>2, IniIs DEF Ini!Servers
  <2> QED
    BY <1>3, <2>1, TrackedAre DEF Ini!Tracked
<1>5. PICK read : read = Ini!GetServerConnectionManagementInfo(m)
  OBVIOUS
<1>6. read = [k \in K |-> Ini!GetProfileString(m, k, Ini!Default(k))]
  BY <1>1, <1>3, <1>5 DEF Ini!GetServerConnectionManagementInfo, Ini!Get
<1>7. DOMAIN read = K
  BY <1>6
<1>8. \A k \in K : /\ read[k] \in TextsOf(k)
                   /\ k \in Ini!Tracked \ d => read[k] = Used(w, k)
  BY <1>4, <1>6, GetIs
<1>9. g = [k \in K \cup {Ini!Client} |-> Ini!GetProfileString(m, k, Ini!Default(k))]
  BY <1>5, <1>7 DEF Ini!Get
<1>10. DOMAIN g \subseteq Ini!Tracked /\ \A k \in Ini!Tracked \ d : k \in DOMAIN g => g[k] = Used(w, k)
  BY <1>4, <1>9, GetIs, TrackedAre
<1>11. PICK M \in Nat : M = read[Ini!Maximum] /\ M <= MaxServers
  BY <1>1, <1>2, <1>4, <1>6 DEF Ini!Number
<1>12. PICK ds : ds = {Ini!Description(n) : n \in (0 .. M - 1) \cap {0, 1}}
  OBVIOUS
<1>13. ds \subseteq IniKeys /\ \A k \in ds : k \notin Ini!Tracked /\ k # Ini!Maximum
  <2>1. (0 .. M - 1) \cap {0, 1} \subseteq Ini!Servers
    BY <1>11, IniIs DEF Ini!Servers
  <2> QED
    BY <1>12, <2>1, TrackedAre DEF IniKeys
<1>14. PICK v : v = [k \in K \cup ds |-> IF k \in K THEN read[k] ELSE Ini!Own]
  OBVIOUS
<1>15. Ini!Started(m) = Ini!Written(m, v)
  BY <1>5, <1>7, <1>11, <1>12, <1>14 DEF Ini!Started, Ini!SaveServerConnectionManagementInfo
<1>16. DOMAIN v \subseteq IniKeys /\ \A k \in DOMAIN v : v[k] \in TextsOf(k)
  BY <1>4, <1>8, <1>13, <1>14, TextsAre
<1>17. \A k \in Ini!Tracked \ d : k \in DOMAIN v => v[k] = Used(w, k)
  BY <1>8, <1>13, <1>14
<1>18. KeptIn(Ini!Written(m, v), w, d)
  BY <1>16, <1>17, WrittenIs, TrackedAre DEF KeptIn
<1> QED
  BY <1>10, <1>15, <1>16, <1>18, WrittenIs

LEMMA PositionKeeps ==
  ASSUME NEW m, Loaded(m), NEW w, NEW d, KeptIn(m, w, d)
  PROVE  /\ Loaded(Ini!SaveWindowLastPosition(m)) /\ KeptIn(Ini!SaveWindowLastPosition(m), w, d)
<1>1. PICK v : v = [k \in {Ini!Position} |-> Ini!Own]
  OBVIOUS
<1>2. Ini!Position \in IniKeys /\ Ini!Position # Ini!Maximum
  BY TrackedAre DEF IniKeys
<1>3. DOMAIN v \subseteq IniKeys /\ \A k \in DOMAIN v : v[k] \in TextsOf(k)
  BY <1>1, <1>2, TextsAre
<1>4. \A k \in Ini!Tracked : k \notin DOMAIN v
  BY <1>1, TrackedAre
<1>5. KeptIn(Ini!Written(m, v), w, d)
  BY <1>3, <1>4, WrittenIs, TrackedAre DEF KeptIn
<1> QED
  BY <1>1, <1>3, <1>5, WrittenIs DEF Ini!SaveWindowLastPosition

\* What is left of a line that was being written.
LEMMA TornIs ==
  ASSUME NEW l \in IniLines, l \notin TextLines, NEW x \in Ini!Torn(l)
  PROVE  x \in IniLines /\ (x \notin TextLines => x \notin Heads /\ EntryOf(x) = EntryOf(l))
         /\ (x.key = Ini!NoKey \/ x.key = l.key)
<1>1. l.first \in {"[", "#", ""}
  <2>1. CASE l \in Heads
    BY <2>1, KindsAre
  <2>2. CASE l \in KeyLines
    <3>1. PICK k \in IniKeys : \E v \in TextsOf(k) : l = Ini!KeyLine(k, v)
      BY <2>2 DEF KeyLines
    <3>2. PICK v \in TextsOf(k) : l = Ini!KeyLine(k, v)
      BY <3>1
    <3>3. l.first = IF k = Ini!MaxClients THEN "#" ELSE ""
      BY <3>2 DEF Ini!KeyLine
    <3> QED
      BY <3>3
  <2> QED
    BY <2>1, <2>2 DEF IniLines
<1>2. CASE x = Ini!TextLine(l.first)
  BY <1>1, <1>2, TextLineIs DEF IniLines
<1>3. CASE x # Ini!TextLine(l.first)
  <2>1. l.equals /\ l \in KeyLines
    BY <1>3, LinesAre DEF Ini!Torn
  <2>2. l.key \in IniKeys /\ EntryOf(l) = Ini!Entry(l.key)
    BY <2>1, LinesAre
  <2>3. PICK v \in TextsOf(l.key) : x = Ini!KeyLine(l.key, v)
    <3>1. PICK v \in {Ini!Empty} \cup (IF l.key \in {Ini!Maximum, Ini!MaxClients} THEN {} ELSE {Ini!Part}) :
            x = Ini!KeyLine(l.key, v)
      BY <1>3 DEF Ini!Torn
    <3>2. v \in TextsOf(l.key)
      BY <2>2, <3>1, TextsAre
    <3> QED
      BY <3>1, <3>2
  <2>4. x \in KeyLines /\ x \notin Heads /\ x.key = l.key
    BY <2>2, <2>3, KeyLineIs
  <2>5. x \in IniLines
    BY <2>4 DEF IniLines
  <2> QED
    BY <2>2, <2>4, <2>5, LinesAre
<1> QED
  BY <1>2, <1>3

\* A file cut short, with or without a piece of the next line.
LEMMA CutIs ==
  ASSUME NEW lines, Sorted(lines), Told(lines) = DOMAIN lines, NEW n \in DOMAIN lines, NEW f,
         \/ f = SubSeq(lines, 1, n - 1)
         \/ \E l \in Ini!Torn(lines[n]) : f = Append(SubSeq(lines, 1, n - 1), l),
         NEW w, NEW d, KeptOn(lines, w, d)
  PROVE  /\ Sorted(f)
         /\ KeptOn(f, w, d \cup {lines[x].key : x \in n .. Len(lines)})
<1>1. PICK N \in Nat : N = Len(lines) /\ DOMAIN lines = 1 .. N
  BY DEF Sorted
<1>2. \A x \in 1 .. N : lines[x] \in IniLines /\ lines[x] \notin TextLines
  BY <1>1 DEF Sorted, Told
<1>3. n \in 1 .. N
  BY <1>1
<1>4. PICK s : s = SubSeq(lines, 1, n - 1)
  OBVIOUS
<1>5. s \in Seq(IniLines) /\ Len(s) = n - 1 /\ \A x \in 1 .. n - 1 : s[x] = lines[x]
  <2>1. lines \in Seq(IniLines) /\ 1 \in 1 .. N + 1 /\ n - 1 \in 0 .. N
    BY <1>3 DEF Sorted
  <2>2. s = [x \in 1 .. n - 1 |-> lines[x]]
    BY <1>4, <1>3, <2>1
  <2> QED
    BY <1>2, <1>3, <2>2
<1>6. /\ f \in Seq(IniLines) /\ \A x \in 1 .. n - 1 : x \in DOMAIN f /\ f[x] = lines[x]
      /\ \A x \in DOMAIN f : x \in 1 .. n /\ (x # n => x \in 1 .. n - 1)
      /\ n \in DOMAIN f => /\ f[n] \notin TextLines => f[n] \notin Heads /\ EntryOf(f[n]) = EntryOf(lines[n])
                           /\ f[n].key = Ini!NoKey \/ f[n].key = lines[n].key
  <2>1. CASE f = s
    BY <1>3, <1>5, <2>1
  <2>2. CASE f # s
    <3>1. PICK l \in Ini!Torn(lines[n]) : f = Append(s, l)
      BY <1>4, <2>2
    <3>2. /\ l \in IniLines /\ (l \notin TextLines => l \notin Heads /\ EntryOf(l) = EntryOf(lines[n]))
          /\ l.key = Ini!NoKey \/ l.key = lines[n].key
      BY <1>2, <1>3, TornIs
    <3>3. f \in Seq(IniLines) /\ Len(f) = n /\ f[n] = l /\ \A x \in 1 .. n - 1 : f[x] = s[x]
      BY <1>3, <1>5, <3>1, <3>2
    <3>4. DOMAIN f = 1 .. n
      BY <1>3, <3>3
    <3> QED
      BY <1>3, <1>5, <3>2, <3>3, <3>4
  <2> QED
    BY <2>1, <2>2
<1>7. Sorted(f)
  <2>1. PICK origin : origin = [x \in 1 .. N |-> x]
    OBVIOUS
  <2>2. \A x \in Told(f) : x \in 1 .. N /\ x \in Nat /\ origin[x] = x /\ x <= n
    <3>1. \A x \in Told(f) : x \in 1 .. n
      BY <1>6 DEF Told
    <3>2. \A x \in 1 .. n : x \in 1 .. N /\ x \in Nat /\ x <= n
      BY <1>3
    <3>3. \A x \in 1 .. N : origin[x] = x
      BY <2>1
    <3> QED
      BY <3>1, <3>2, <3>3
  <2>3. \A x \in Told(f) : origin[x] \in Told(lines) /\ EntryOf(f[x]) = EntryOf(lines[origin[x]])
    BY <1>1, <1>6, <2>2 DEF Told
  <2>4. \A x, j \in Told(f) : x < j => origin[x] < origin[j]
    BY <2>2
  <2>5. \A x \in Told(f), y \in Told(lines) :
          /\ f[x] \in KeyLines /\ y < origin[x]
          /\ lines[y] = Ini!SectionLine(Ini!SectionOf(f[x].key))
          => \E j \in Told(f) : origin[j] = y /\ f[j] = lines[y]
    <3>1. ASSUME NEW x \in Told(f), NEW y \in Told(lines), y < origin[x]
          PROVE  y \in Told(f) /\ origin[y] = y /\ f[y] = lines[y]
      <4>1. y \in 1 .. N /\ y < x /\ x <= n /\ lines[y] \notin TextLines
        BY <1>1, <2>2, <3>1 DEF Told
      <4>2. y \in 1 .. n - 1
        BY <1>3, <2>2, <4>1
      <4> QED
        BY <1>6, <2>2, <4>1, <4>2 DEF Told
    <3> QED
      BY <3>1
  <2>6. f \in Seq(IniLines) /\ Sorted(lines)
    BY <1>6
  <2> QED
    BY <2>3, <2>4, <2>5, <2>6, SortedCopy
<1>8. ASSUME NEW k \in Ini!Tracked \ (d \cup {lines[x].key : x \in n .. Len(lines)})
      PROVE  /\ \A x \in DOMAIN f : f[x].key = k => f[x].value = Used(w, k)
             /\ w[k] # Ini!Empty => \E x \in DOMAIN f : f[x].key = k
  <2>1. k \in Ini!Tracked \ d /\ k # Ini!NoKey /\ \A x \in n .. N : lines[x].key # k
    BY <1>1, KeysAre, TrackedAre
  <2>2. /\ \A x \in 1 .. N : lines[x].key = k => lines[x].value = Used(w, k)
        /\ w[k] # Ini!Empty => \E x \in 1 .. N : lines[x].key = k
    BY <1>1, <2>1 DEF KeptOn
  <2>3. n \in n .. N
    BY <1>3
  <2>4. \A x \in DOMAIN f : f[x].key = k => x \in 1 .. n - 1
    BY <1>6, <2>1, <2>3
  <2>5. \A x \in 1 .. n - 1 : x \in 1 .. N
    BY <1>3
  <2>6. \A x \in 1 .. N : x \in n .. N \/ x \in 1 .. n - 1
    BY <1>3
  <2> QED
    BY <1>6, <2>1, <2>2, <2>4, <2>5, <2>6
<1>9. KeptOn(f, w, d \cup {lines[x].key : x \in n .. Len(lines)})
  BY <1>8 DEF KeptOn
<1> QED
  BY <1>7, <1>9

-----------------------------------------------------------------------------
\* A line in which another value is written.
LEMMA ChangeKeeps ==
  ASSUME NEW lines, Sorted(lines), NEW n \in DOMAIN lines, lines[n].equals,
         lines[n].key \in Ini!Tracked, NEW v \in Values,
         NEW w, w \in [Ini!Tracked -> Values \cup {Ini!Empty}], NEW d, KeptOn(lines, w, d),
         NEW f, DOMAIN f = DOMAIN lines, f = [x \in DOMAIN f |-> f[x]],
         f[n] = Ini!KeyLine(lines[n].key, v), \A x \in DOMAIN lines : x # n => f[x] = lines[x]
  PROVE  /\ Sorted(f)
         /\ KeptOn(f, [w EXCEPT ![lines[n].key] = v], d \ {lines[n].key})
<1>1. PICK N \in Nat : N = Len(lines) /\ DOMAIN lines = 1 .. N
  BY DEF Sorted
<1>2. \A x \in 1 .. N : lines[x] \in IniLines
  BY <1>1 DEF Sorted
<1>3. PICK k \in IniKeys : k = lines[n].key /\ lines[n] \in KeyLines /\ k \in Ini!Tracked
  BY <1>1, <1>2, LinesAre, TrackedAre
<1>4. v \in TextsOf(k) /\ v # Ini!Empty
  BY TextsAre, IniIs DEF Ini!Empty
<1>5. PICK l : l = Ini!KeyLine(k, v)
  OBVIOUS
<1>8. l \in KeyLines /\ l \notin TextLines /\ l.key = k /\ l.value = v /\ l \notin Heads
  BY <1>4, <1>5, KeyLineIs
<1>9. l \in IniLines /\ EntryOf(l) = EntryOf(lines[n])
  <2>1. l \in IniLines
    BY <1>8 DEF IniLines
  <2> QED
    BY <1>1, <1>2, <1>3, <1>8, <2>1, LinesAre
<1>10. /\ f \in Seq(IniLines) /\ DOMAIN f = 1 .. N /\ f[n] = l
       /\ \A x \in 1 .. N : f[x] \in IniLines /\ (x # n => f[x] = lines[x])
  <2>1. f[n] = l /\ \A x \in 1 .. N : f[x] \in IniLines /\ (x # n => f[x] = lines[x])
    BY <1>1, <1>2, <1>3, <1>5, <1>9
  <2> QED
    BY <1>1, <2>1
<1>11. Sorted(f)
  <2>1. PICK origin : origin = [x \in 1 .. N |-> x]
    OBVIOUS
  <2>2. lines[n] \notin TextLines /\ lines[n] \notin Heads
    BY <1>1, <1>2, <1>3, LinesAre
  <2>3. \A x \in Told(f) : x \in 1 .. N /\ x \in Nat /\ origin[x] = x
    BY <1>10, <2>1 DEF Told
  <2>4. \A x \in Told(f) : origin[x] \in Told(lines) /\ EntryOf(f[x]) = EntryOf(lines[origin[x]])
    BY <1>1, <1>9, <1>10, <2>2, <2>3 DEF Told
  <2>5. \A x, j \in Told(f) : x < j => origin[x] < origin[j]
    BY <2>3
  <2>6. \A x \in Told(f), y \in Told(lines) :
          /\ f[x] \in KeyLines /\ y < origin[x]
          /\ lines[y] = Ini!SectionLine(Ini!SectionOf(f[x].key))
          => \E j \in Told(f) : origin[j] = y /\ f[j] = lines[y]
    <3>1. ASSUME NEW x \in Told(f), NEW y \in Told(lines), f[x] \in KeyLines,
                 lines[y] = Ini!SectionLine(Ini!SectionOf(f[x].key))
          PROVE  y \in Told(f) /\ origin[y] = y /\ f[y] = lines[y]
      <4>4. f[x] \in IniLines
        BY <1>10, <2>3, <3>1
      <4>1. f[x].key \in IniKeys
        BY <3>1, <4>4, LinesAre
      <4>2. lines[y] \in Heads
        BY <3>1, <4>1, KeysAre, HeadIs
      <4>3. y \in 1 .. N /\ y # n
        BY <1>1, <2>2, <4>2 DEF Told
      <4> QED
        BY <1>10, <2>1, <3>1, <4>3 DEF Told
    <3> QED
      BY <3>1
  <2>7. f \in Seq(IniLines) /\ Sorted(lines)
    BY <1>10
  <2> QED
    BY ONLY <2>4, <2>5, <2>6, <2>7, SortedCopy
<1>12. PICK x : x = [w EXCEPT ![k] = v]
  OBVIOUS
<1>13. x[k] = v /\ \A y \in Ini!Tracked : y # k => x[y] = w[y]
  BY <1>3, <1>12
<1>14. KeptOn(f, x, d \ {k})
  <2>1. ASSUME NEW y \in Ini!Tracked \ (d \ {k})
        PROVE  /\ \A j \in DOMAIN f : f[j].key = y => f[j].value = Used(x, y)
               /\ x[y] # Ini!Empty => \E j \in DOMAIN f : f[j].key = y
    <3>1. CASE y = k
      <4>1. Used(x, y) = v
        BY <1>4, <1>13, <3>1 DEF Used
      <4>2. ASSUME NEW j \in DOMAIN f, f[j].key = y PROVE f[j].value = v
        <5>1. j = n
          <6>1. f[j] \in IniLines /\ j \in 1 .. N /\ n \in 1 .. N
            BY <1>1, <1>10
          <6>5. f[j].key = k /\ k # Ini!NoKey
            BY <3>1, <4>2, KeysAre
          <6>2. f[j] \in KeyLines
            BY <6>1, <6>5, LinesAre
          <6>3. EntryOf(f[j]) = EntryOf(f[n])
            BY <1>8, <1>9, <1>10, <3>1, <4>2, <6>1, <6>2, LinesAre
          <6>4. f[j] \notin TextLines /\ f[n] \notin TextLines
            BY <1>8, <1>10, <6>1, <6>2, LinesAre
          <6> QED
            BY <1>10, <1>11, <6>1, <6>3, <6>4 DEF Sorted
        <5> QED
          BY <1>8, <1>10, <5>1
      <4> QED
        BY <1>1, <1>8, <1>10, <3>1, <4>1, <4>2
    <3>2. CASE y # k
      <4>1. y \in Ini!Tracked \ d /\ x[y] = w[y] /\ Used(x, y) = Used(w, y)
        BY <1>13, <2>1, <3>2 DEF Used
      <4>2. /\ \A j \in 1 .. N : lines[j].key = y => lines[j].value = Used(w, y)
            /\ w[y] # Ini!Empty => \E j \in 1 .. N : lines[j].key = y
        BY <1>1, <4>1 DEF KeptOn
      <4> QED
        BY <1>1, <1>3, <1>8, <1>10, <3>2, <4>1, <4>2
    <3> QED
      BY <3>1, <3>2
  <2> QED
    BY <2>1 DEF KeptOn
<1> QED
  BY <1>3, <1>11, <1>12, <1>14

\* A line that is removed.
LEMMA RemovalKeeps ==
  ASSUME NEW lines, Sorted(lines), NEW n \in DOMAIN lines, lines[n].equals,
         lines[n].key \in Ini!Tracked,
         NEW w, w \in [Ini!Tracked -> Values \cup {Ini!Empty}], NEW d, KeptOn(lines, w, d),
         NEW N \in Nat, N = Len(lines), NEW f,
         f = [x \in 1 .. N - 1 |-> lines[IF x < n THEN x ELSE x + 1]]
  PROVE  /\ Sorted(f)
         /\ KeptOn(f, [w EXCEPT ![lines[n].key] = Ini!Empty], d \ {lines[n].key})
<1>1. DOMAIN lines = 1 .. N
  BY DEF Sorted
<1>2. \A x \in 1 .. N : lines[x] \in IniLines
  BY <1>1 DEF Sorted
<1>3. PICK k \in IniKeys : k = lines[n].key /\ lines[n] \in KeyLines /\ k \in Ini!Tracked
  BY <1>1, <1>2, LinesAre, TrackedAre
<1>4. lines[n] \notin TextLines /\ lines[n] \notin Heads
  BY <1>1, <1>2, <1>3, LinesAre
<1>5. n \in 1 .. N
  BY <1>1
<1>14. PICK origin : origin = [x \in 1 .. N - 1 |-> IF x < n THEN x ELSE x + 1]
  OBVIOUS
<1>15. f \in Seq(IniLines) /\ DOMAIN f = 1 .. N - 1
  <2>1. \A x \in 1 .. N - 1 : lines[IF x < n THEN x ELSE x + 1] \in IniLines
    BY <1>2, <1>5
  <2>2. N - 1 \in Nat
    BY <1>5
  <2> QED
    BY <2>1, <2>2
<1>6. /\ \A x \in 1 .. N - 1 : /\ x \in Nat /\ origin[x] \in 1 .. N /\ origin[x] \in Nat /\ origin[x] # n
                               /\ f[x] = lines[origin[x]]
      /\ \A x, j \in 1 .. N - 1 : x < j => origin[x] < origin[j]
  BY <1>5, <1>14
<1>7. ASSUME NEW y \in 1 .. N, y # n PROVE \E x \in 1 .. N - 1 : origin[x] = y
  <2>1. CASE y < n
    <3>1. y \in 1 .. N - 1
      BY <1>5, <2>1
    <3> QED
      BY <1>14, <2>1, <3>1
  <2>2. CASE ~(y < n)
    <3>1. y - 1 \in 1 .. N - 1 /\ ~(y - 1 < n) /\ (y - 1) + 1 = y
      BY <1>5, <1>7, <2>2
    <3> QED
      BY <1>14, <3>1
  <2> QED
    BY <2>1, <2>2
<1>8. Sorted(f)
  <2>1. \A x \in Told(f) : x \in 1 .. N - 1 /\ f[x] \notin TextLines
    BY <1>15 DEF Told
  <2>2. \A x \in Told(f) : origin[x] \in Told(lines) /\ EntryOf(f[x]) = EntryOf(lines[origin[x]])
    BY <1>1, <1>6, <2>1 DEF Told
  <2>3. \A x, j \in Told(f) : x < j => origin[x] < origin[j]
    BY <1>6, <2>1
  <2>4. \A x \in Told(f), y \in Told(lines) :
          /\ f[x] \in KeyLines /\ y < origin[x]
          /\ lines[y] = Ini!SectionLine(Ini!SectionOf(f[x].key))
          => \E j \in Told(f) : origin[j] = y /\ f[j] = lines[y]
    <3>1. ASSUME NEW x \in Told(f), NEW y \in Told(lines), f[x] \in KeyLines,
                 lines[y] = Ini!SectionLine(Ini!SectionOf(f[x].key))
          PROVE  \E j \in Told(f) : origin[j] = y /\ f[j] = lines[y]
      <4>1. f[x] \in IniLines
        BY <1>2, <1>6, <2>1
      <4>2. f[x].key \in IniKeys
        BY <3>1, <4>1, LinesAre
      <4>3. lines[y] \in Heads
        BY <3>1, <4>2, KeysAre, HeadIs
      <4>4. y \in 1 .. N /\ y # n /\ lines[y] \notin TextLines
        BY <1>1, <1>4, <4>3 DEF Told
      <4>5. PICK j \in 1 .. N - 1 : origin[j] = y
        BY <1>7, <4>4
      <4>6. j \in Told(f) /\ f[j] = lines[y]
        BY <1>6, <1>15, <4>4, <4>5 DEF Told
      <4> QED
        BY <4>5, <4>6
    <3> QED
      BY ONLY <3>1
  <2>5. f \in Seq(IniLines) /\ Sorted(lines)
    BY <1>15
  <2> QED
    BY ONLY <2>2, <2>3, <2>4, <2>5, SortedCopy
<1>9. PICK u : u = [w EXCEPT ![k] = Ini!Empty]
  OBVIOUS
<1>10. u[k] = Ini!Empty /\ \A y \in Ini!Tracked : y # k => u[y] = w[y]
  BY <1>3, <1>9
<1>11. \A y \in 1 .. N : lines[y].key = k => y = n
  <2>1. ASSUME NEW y \in 1 .. N, lines[y].key = k PROVE y = n
    <3>1. lines[y] \in IniLines /\ k # Ini!NoKey
      BY <1>2, KeysAre
    <3>2. lines[y] \in KeyLines
      BY <2>1, <3>1, LinesAre
    <3>3. EntryOf(lines[y]) = EntryOf(lines[n]) /\ lines[y] \notin TextLines
      BY <1>2, <1>3, <1>5, <2>1, <3>1, <3>2, LinesAre
    <3>4. {lines[y], lines[n]} \cap TextLines = {} /\ y \in DOMAIN lines
      BY <1>1, <1>4, <3>3
    <3> QED
      BY <3>3, <3>4 DEF Sorted
  <2> QED
    BY <2>1
<1>12. ASSUME NEW y \in Ini!Tracked \ (d \ {k})
       PROVE  /\ \A j \in DOMAIN f : f[j].key = y => f[j].value = Used(u, y)
              /\ u[y] # Ini!Empty => \E j \in DOMAIN f : f[j].key = y
  <2>1. CASE y = k
    BY <1>6, <1>10, <1>11, <1>15, <2>1
  <2>2. CASE y # k
    <3>1. y \in Ini!Tracked \ d /\ u[y] = w[y] /\ Used(u, y) = Used(w, y)
      BY <1>10, <1>12, <2>2 DEF Used
    <3>2. /\ \A j \in 1 .. N : lines[j].key = y => lines[j].value = Used(w, y)
          /\ w[y] # Ini!Empty => \E j \in 1 .. N : lines[j].key = y
      BY <1>1, <3>1 DEF KeptOn
    <3>3. \A j \in DOMAIN f : f[j].key = y => f[j].value = Used(u, y)
      BY <1>6, <1>15, <3>1, <3>2
    <3>4. ASSUME u[y] # Ini!Empty PROVE \E j \in DOMAIN f : f[j].key = y
      <4>1. PICK j \in 1 .. N : lines[j].key = y
        BY <3>1, <3>2, <3>4
      <4>2. j # n
        BY <1>3, <2>2, <4>1
      <4>3. PICK x \in 1 .. N - 1 : origin[x] = j
        BY <1>7, <4>2
      <4>4. f[x] = lines[j]
        BY <1>6, <4>3
      <4> QED
        BY <1>15, <4>1, <4>4
    <3> QED
      BY <3>3, <3>4
  <2> QED
    BY <2>1, <2>2
<1>13. KeptOn(f, u, d \ {k})
  BY <1>12 DEF KeptOn
<1> QED
  BY <1>3, <1>8, <1>9, <1>13

\* A line that is no key, and no section, written between others.
LEMMA InsertionKeeps ==
  ASSUME NEW lines, Sorted(lines), NEW t \in TextLines, NEW w, NEW d, KeptOn(lines, w, d),
         NEW N \in Nat, N = Len(lines), NEW n \in 1 .. N + 1, NEW f, f \in Seq(IniLines),
         DOMAIN f = 1 .. N + 1, f[n] = t,
         \A x \in 1 .. N : f[IF x < n THEN x ELSE x + 1] = lines[x]
  PROVE  Sorted(f) /\ KeptOn(f, w, d)
<1>1. DOMAIN lines = 1 .. N
  BY DEF Sorted
<1>2. \A x \in 1 .. N : lines[x] \in IniLines
  BY <1>1 DEF Sorted
<1>3. PICK origin : origin = [x \in 1 .. N + 1 |-> IF x < n THEN x ELSE x - 1]
  OBVIOUS
<1>4. ASSUME NEW x \in 1 .. N + 1, x # n
      PROVE  x \in Nat /\ origin[x] \in 1 .. N /\ f[x] = lines[origin[x]]
  <2>1. CASE x < n
    <3>1. origin[x] = x /\ x \in 1 .. N
      BY <1>3, <2>1
    <3> QED
      BY <2>1, <3>1
  <2>2. CASE ~(x < n)
    <3>1. origin[x] = x - 1 /\ x - 1 \in 1 .. N /\ ~(x - 1 < n) /\ (x - 1) + 1 = x
      BY <1>3, <1>4, <2>2
    <3>2. f[IF x - 1 < n THEN x - 1 ELSE (x - 1) + 1] = lines[x - 1]
      BY <3>1
    <3> QED
      BY <3>1, <3>2
  <2> QED
    BY <2>1, <2>2
<1>5. \A x, j \in 1 .. N + 1 : x # n /\ j # n /\ x < j => origin[x] < origin[j]
  BY <1>3
<1>6. ASSUME NEW y \in 1 .. N PROVE \E x \in 1 .. N + 1 : x # n /\ origin[x] = y /\ f[x] = lines[y]
  <2>1. CASE y < n
    <3>1. y \in 1 .. N + 1 /\ y # n /\ origin[y] = y
      BY <1>3, <2>1
    <3> QED
      BY <1>4, <3>1
  <2>2. CASE ~(y < n)
    <3>1. y + 1 \in 1 .. N + 1 /\ y + 1 # n /\ origin[y + 1] = y
      BY <1>3, <2>2
    <3> QED
      BY <1>4, <3>1
  <2> QED
    BY <2>1, <2>2
<1>7. t.key = Ini!NoKey
  <2>1. t \in IniLines
    BY DEF IniLines
  <2> QED
    BY <2>1, LinesAre
<1>8. Sorted(f)
  <2>1. \A x \in Told(f) : x \in 1 .. N + 1 /\ x # n /\ f[x] \notin TextLines
    BY DEF Told
  <2>2. \A x \in Told(f) : origin[x] \in Told(lines) /\ EntryOf(f[x]) = EntryOf(lines[origin[x]])
    BY <1>1, <1>4, <2>1 DEF Told
  <2>3. \A x, j \in Told(f) : x < j => origin[x] < origin[j]
    BY <1>5, <2>1
  <2>4. \A x \in Told(f), y \in Told(lines) :
          /\ f[x] \in KeyLines /\ y < origin[x]
          /\ lines[y] = Ini!SectionLine(Ini!SectionOf(f[x].key))
          => \E j \in Told(f) : origin[j] = y /\ f[j] = lines[y]
    <3>1. ASSUME NEW y \in Told(lines)
          PROVE  \E j \in Told(f) : origin[j] = y /\ f[j] = lines[y]
      <4>1. y \in 1 .. N /\ lines[y] \notin TextLines
        BY <1>1 DEF Told
      <4>2. PICK j \in 1 .. N + 1 : origin[j] = y /\ f[j] = lines[y]
        BY <1>6, <4>1
      <4>3. j \in Told(f)
        BY <4>1, <4>2 DEF Told
      <4> QED
        BY <4>2, <4>3
    <3> QED
      BY <3>1
  <2>5. f \in Seq(IniLines) /\ Sorted(lines)
    OBVIOUS
  <2> QED
    BY ONLY <2>2, <2>3, <2>4, <2>5, SortedCopy
<1>9. ASSUME NEW k \in Ini!Tracked \ d
      PROVE  /\ \A x \in DOMAIN f : f[x].key = k => f[x].value = Used(w, k)
             /\ w[k] # Ini!Empty => \E x \in DOMAIN f : f[x].key = k
  <2>1. k # Ini!NoKey
    BY KeysAre, TrackedAre
  <2>2. /\ \A j \in 1 .. N : lines[j].key = k => lines[j].value = Used(w, k)
        /\ w[k] # Ini!Empty => \E j \in 1 .. N : lines[j].key = k
    BY <1>1, <1>9 DEF KeptOn
  <2>3. \A x \in DOMAIN f : f[x].key = k => f[x].value = Used(w, k)
    BY <1>4, <1>7, <2>1, <2>2
  <2>4. ASSUME w[k] # Ini!Empty PROVE \E x \in DOMAIN f : f[x].key = k
    <3>1. PICK j \in 1 .. N : lines[j].key = k
      BY <2>2, <2>4
    <3>2. PICK x \in 1 .. N + 1 : f[x] = lines[j]
      BY <1>6
    <3> QED
      BY <3>1, <3>2
  <2> QED
    BY <2>3, <2>4
<1> QED
  BY <1>8, <1>9 DEF KeptOn

-----------------------------------------------------------------------------
IniTypes ==
  /\ running \in BOOLEAN /\ clean \in BOOLEAN
  /\ edits \in 0 .. MaxEdits /\ crashes \in 0 .. MaxCrashes
  /\ DOMAIN settings \subseteq Ini!Tracked
  /\ wanted \in [Ini!Tracked -> Values \cup {Ini!Empty}]
  /\ damaged \subseteq IniKeys \cup {Ini!NoKey}

\* The inductive invariant: the file is sorted whatever happens to it, and it, as well as the
\* memory of a program that runs, has what people have set.
IniInv ==
  /\ IniTypes
  /\ Sorted(file) /\ Loaded(m_sections)
  /\ KeptOn(file, wanted, damaged)
  /\ running => /\ KeptIn(m_sections, wanted, damaged)
                /\ \A k \in Ini!Tracked \ damaged :
                     k \in DOMAIN settings => settings[k] = Used(wanted, k)
  /\ clean => Ini!Load(file) = m_sections

LEMMA IniStarts == Ini!Init => IniInv
<1> SUFFICES ASSUME Ini!Init PROVE IniInv
  OBVIOUS
<1>1. PICK D : D = {Header(Ini!Clients), Header(Ini!Server)} \cup {Ini!Entry(k) : k \in Ini!Tracked}
  OBVIOUS
<1>2. PICK m : m = [e \in D |-> IF e[2] = Ini!NoKey THEN Ini!Empty ELSE MaxServers]
  OBVIOUS
<1>3. Ini!Shipped = Ini!Save(m)
  BY <1>1, <1>2 DEF Ini!Shipped, Header
<1>4. \A k \in Ini!Tracked : m[Ini!Entry(k)] = MaxServers /\ Ini!Entry(k) \in DOMAIN m
  BY <1>1, <1>2, KeysAre, TrackedAre
<1>5. Loaded(m)
  <2>1. m = [e \in DOMAIN m |-> m[e]] /\ DOMAIN m = D
    BY <1>2
  <2>2. D \subseteq IniEntries
    BY <1>1, TrackedAre DEF IniEntries, IniSections
  <2>3. \A s \in IniSections : Header(s) \in D => m[Header(s)] = Ini!Empty
    BY <1>2 DEF Header
  <2>4. ASSUME NEW k \in IniKeys, Ini!Entry(k) \in D
        PROVE  m[Ini!Entry(k)] \in TextsOf(k) /\ Header(Ini!SectionOf(k)) \in D
    <3>1. k \in Ini!Tracked
      <4>1. Ini!Entry(k) # Header(Ini!Clients) /\ Ini!Entry(k) # Header(Ini!Server)
        BY EntriesDiffer DEF IniSections
      <4>2. PICK x \in Ini!Tracked : Ini!Entry(k) = Ini!Entry(x)
        BY <1>1, <2>4, <4>1
      <4> QED
        BY <4>2, EntriesDiffer, TrackedAre
    <3>2. Ini!SectionOf(k) \in {Ini!Clients, Ini!Server}
      BY <3>1, TrackedAre
    <3>3. Header(Ini!SectionOf(k)) \in D
      BY <1>1, <3>2
    <3> QED
      BY <1>4, <3>1, <3>3, TextsAre, IniIs
  <2> QED
    BY <2>1, <2>2, <2>3, <2>4 DEF Loaded
<1>6. IniTypes /\ ~running /\ ~clean /\ wanted = [k \in Ini!Tracked |-> IF file = <<>> THEN Ini!Empty ELSE MaxServers]
  <2>1. DOMAIN settings = {}
    BY DEF Ini!Init, Ini!Nothing
  <2>2. edits \in 0 .. MaxEdits /\ crashes \in 0 .. MaxCrashes
    BY IniIs DEF Ini!Init
  <2> QED
    BY <2>1, <2>2, IniIs DEF Ini!Init, IniTypes
<1>7. Loaded(m_sections)
  <2>1. m_sections = [e \in {} |-> Ini!Empty]
    BY DEF Ini!Init, Ini!Nothing
  <2>2. m_sections = [e \in DOMAIN m_sections |-> m_sections[e]] /\ DOMAIN m_sections = {}
    BY <2>1
  <2> QED
    BY <2>2 DEF Loaded
<1>8. CASE file = <<>>
  <2>1. Sorted(file)
    BY <1>8 DEF Sorted
  <2>2. KeptOn(file, wanted, damaged)
    BY <1>6, <1>8 DEF KeptOn
  <2> QED
    BY <1>6, <1>7, <2>1, <2>2 DEF IniInv
<1>9. CASE file = Ini!Save(m) /\ file # <<>>
  <2>1. Sorted(file) /\ Ini!Load(file) = m
    BY <1>5, <1>9, SaveIs
  <2>2. \A k \in Ini!Tracked : wanted[k] = MaxServers /\ Used(wanted, k) = MaxServers
    BY <1>6, <1>9, IniIs DEF Used, Ini!Empty
  <2>3. KeptIn(Ini!Load(file), wanted, damaged)
    BY <1>4, <2>1, <2>2 DEF KeptIn
  <2>4. KeptOn(file, wanted, damaged)
    BY <2>1, <2>3, KeptBoth
  <2> QED
    BY <1>6, <1>7, <2>1, <2>4 DEF IniInv
<1> QED
  BY <1>3, <1>8, <1>9 DEF Ini!Init

\* Changes by hand.
LEMMA EditStays == IniInv /\ Ini!Edit => IniInv'
<1> SUFFICES ASSUME IniInv, Ini!Edit PROVE IniInv'
  OBVIOUS
<1>1. PICK lines : lines = file
  OBVIOUS
<1>2. PICK f : f = file'
  OBVIOUS
<1>3. PICK w : w = wanted
  OBVIOUS
<1>4. PICK d : d = damaged
  OBVIOUS
<1>5. /\ Sorted(lines) /\ w \in [Ini!Tracked -> Values \cup {Ini!Empty}] /\ KeptOn(lines, w, d)
      /\ d \subseteq IniKeys \cup {Ini!NoKey}
  BY <1>1, <1>3, <1>4 DEF IniInv, IniTypes
<1>6. PICK N \in Nat : N = Len(lines) /\ DOMAIN lines = 1 .. N
  BY <1>5 DEF Sorted
<1>7. lines \in Seq(IniLines) /\ \A x \in 1 .. N : lines[x] \in IniLines
  BY <1>5, <1>6 DEF Sorted
<1>8. /\ Sorted(f) /\ KeptOn(f, wanted', damaged')
      /\ wanted' \in [Ini!Tracked -> Values \cup {Ini!Empty}]
      /\ damaged' \subseteq IniKeys \cup {Ini!NoKey}
  <2>1. CASE \E n \in DOMAIN file, v \in Values :
               /\ file[n].equals /\ file[n].key \in Ini!Tracked
               /\ file' = [file EXCEPT ![n] = Ini!KeyLine(@.key, v)]
               /\ wanted' = [wanted EXCEPT ![file[n].key] = v]
               /\ damaged' = damaged \ {file[n].key}
    <3>1. PICK n \in DOMAIN lines, v \in Values :
               /\ lines[n].equals /\ lines[n].key \in Ini!Tracked
               /\ f = [lines EXCEPT ![n] = Ini!KeyLine(lines[n].key, v)]
               /\ wanted' = [w EXCEPT ![lines[n].key] = v]
               /\ damaged' = d \ {lines[n].key}
      BY <1>1, <1>2, <1>3, <1>4, <2>1
    <3>2. PICK l : l = Ini!KeyLine(lines[n].key, v)
      OBVIOUS
    <3>3. /\ DOMAIN f = DOMAIN lines /\ f = [x \in DOMAIN f |-> f[x]] /\ f[n] = l
          /\ \A x \in DOMAIN lines : x # n => f[x] = lines[x]
      BY <1>7, <3>1, <3>2
    <3>4. PICK k : k = lines[n].key
      OBVIOUS
    <3>5. PICK u : u = [w EXCEPT ![k] = v]
      OBVIOUS
    <3>6. Sorted(f) /\ KeptOn(f, u, d \ {k})
      <4>1. /\ lines[n].equals /\ lines[n].key \in Ini!Tracked /\ f[n] = Ini!KeyLine(lines[n].key, v)
        BY <3>1, <3>2, <3>3
      <4> QED
        BY ONLY <1>5, <3>3, <3>4, <3>5, <4>1, ChangeKeeps, n \in DOMAIN lines, v \in Values
    <3>7. u \in [Ini!Tracked -> Values \cup {Ini!Empty}]
      BY <1>5, <3>1, <3>5
    <3> QED
      BY <1>5, <3>1, <3>4, <3>5, <3>6, <3>7
  <2>2. CASE \E n \in DOMAIN file :
               /\ file[n].equals /\ file[n].key \in Ini!Tracked
               /\ file' = [x \in 1 .. Len(file) - 1 |-> file[IF x < n THEN x ELSE x + 1]]
               /\ wanted' = [wanted EXCEPT ![file[n].key] = Ini!Empty]
               /\ damaged' = damaged \ {file[n].key}
    <3>1. PICK n \in 1 .. N :
               /\ lines[n].equals /\ lines[n].key \in Ini!Tracked
               /\ f = [x \in 1 .. N - 1 |-> lines[IF x < n THEN x ELSE x + 1]]
               /\ wanted' = [w EXCEPT ![lines[n].key] = Ini!Empty]
               /\ damaged' = d \ {lines[n].key}
      BY <1>1, <1>2, <1>3, <1>4, <1>6, <2>2
    <3>10. PICK k : k = lines[n].key
      OBVIOUS
    <3>11. PICK u : u = [w EXCEPT ![k] = Ini!Empty]
      OBVIOUS
    <3>13. Sorted(f) /\ KeptOn(f, u, d \ {k})
      <4>1. n \in DOMAIN lines /\ lines[n].equals /\ lines[n].key \in Ini!Tracked /\ N = Len(lines)
        BY ONLY <1>6, <3>1, n \in 1 .. N
      <4>2. f = [x \in 1 .. N - 1 |-> lines[IF x < n THEN x ELSE x + 1]]
        BY ONLY <3>1
      <4>3. /\ Sorted(f)
            /\ KeptOn(f, [w EXCEPT ![lines[n].key] = Ini!Empty], d \ {lines[n].key})
        BY ONLY <1>5, <4>1, <4>2, N \in Nat, RemovalKeeps
      <4> QED
        BY ONLY <3>10, <3>11, <4>3
    <3>14. u \in [Ini!Tracked -> Values \cup {Ini!Empty}]
      BY <1>5, <3>11
    <3>15. wanted' = u /\ damaged' = d \ {k}
      BY <3>1, <3>10, <3>11
    <3> QED
      BY <1>5, <3>13, <3>14, <3>15
  <2>3. CASE \E n \in 1 .. Len(file) + 1, g \in {"#", ""} :
               /\ file' = [x \in 1 .. Len(file) + 1 |->
                            IF x = n THEN Ini!TextLine(g) ELSE file[IF x < n THEN x ELSE x - 1]]
               /\ UNCHANGED <<wanted, damaged>>
    <3>1. PICK n \in 1 .. Len(file) + 1 : \E g \in {"#", ""} :
               /\ file' = [x \in 1 .. Len(file) + 1 |->
                            IF x = n THEN Ini!TextLine(g) ELSE file[IF x < n THEN x ELSE x - 1]]
               /\ UNCHANGED <<wanted, damaged>>
      BY <2>3, Zenon
    <3>2. PICK t \in TextLines :
               /\ file' = [x \in 1 .. Len(file) + 1 |-> IF x = n THEN t ELSE file[IF x < n THEN x ELSE x - 1]]
               /\ UNCHANGED <<wanted, damaged>>
      BY <3>1, Zenon DEF TextLines
    <3>3. wanted' = w /\ damaged' = d
      BY ONLY <1>3, <1>4, <3>2
    <3>4. n \in 1 .. N + 1
      BY ONLY <1>1, <1>6, n \in 1 .. Len(file) + 1
    <3>5. f = [x \in 1 .. N + 1 |-> IF x = n THEN t ELSE lines[IF x < n THEN x ELSE x - 1]]
      BY ONLY <1>1, <1>2, <1>6, <3>2
    <3>6. t \in TextLines /\ t \in IniLines
      BY ONLY t \in TextLines DEF IniLines
    <3>7. /\ DOMAIN f = 1 .. N + 1 /\ f[n] = t
          /\ \A x \in 1 .. N : f[IF x < n THEN x ELSE x + 1] = lines[x]
      BY ONLY <3>4, <3>5, N \in Nat
    <3>8. f \in Seq(IniLines)
      <4>1. \A x \in 1 .. N + 1 : x # n => lines[IF x < n THEN x ELSE x - 1] \in IniLines
        BY ONLY <1>7, <3>4, N \in Nat
      <4>2. N + 1 \in Nat
        BY ONLY N \in Nat
      <4> QED
        BY ONLY <3>5, <3>6, <4>1, <4>2
    <3>11. Sorted(f) /\ KeptOn(f, w, d)
      BY ONLY <1>5, <1>6, <3>6, <3>7, <3>8, <3>4, N \in Nat, InsertionKeeps
    <3> QED
      BY <1>5, <3>3, <3>11
  <2> QED
    BY <2>1, <2>2, <2>3 DEF Ini!Edit
<1>9. UNCHANGED <<m_sections, running, settings, crashes>> /\ ~running /\ clean' = FALSE
  BY DEF Ini!Edit
<1>10. edits' \in 0 .. MaxEdits
  <2>1. edits < MaxEdits /\ edits' = edits + 1
    BY DEF Ini!Edit
  <2>2. edits \in 0 .. MaxEdits
    BY DEF IniInv, IniTypes
  <2> QED
    BY ONLY <2>1, <2>2, IniIs
<1>11. IniTypes'
  BY <1>8, <1>9, <1>10 DEF IniInv, IniTypes
<1> QED
  BY <1>2, <1>8, <1>9, <1>11 DEF IniInv

\* The other steps.
LEMMA StartStays == IniInv /\ Ini!Start => IniInv'
<1> SUFFICES ASSUME IniInv, Ini!Start PROVE IniInv'
  OBVIOUS
<1>1. PICK m : m = Ini!Load(file)
  OBVIOUS
<1>2. PICK w : w = wanted
  OBVIOUS
<1>3. PICK d : d = damaged
  OBVIOUS
<1>4. PICK g : g = Ini!Get(m, DOMAIN Ini!GetServerConnectionManagementInfo(m) \cup {Ini!Client})
  OBVIOUS
<1>5. Loaded(m) /\ KeptIn(m, w, d)
  BY <1>1, <1>2, <1>3, LoadIsLoaded, KeptBoth DEF IniInv
<1>6. /\ m_sections' = Ini!Started(m) /\ settings' = g
      /\ running' = TRUE /\ clean' = FALSE /\ UNCHANGED <<file, edits, crashes, wanted, damaged>>
  BY <1>1, <1>4 DEF Ini!Start
<1>7. /\ Loaded(Ini!Started(m)) /\ KeptIn(Ini!Started(m), w, d)
      /\ DOMAIN g \subseteq Ini!Tracked
      /\ \A k \in Ini!Tracked \ d : k \in DOMAIN g => g[k] = Used(w, k)
  BY <1>4, <1>5, StartedIs
<1>8. IniTypes'
  BY <1>6, <1>7 DEF IniInv, IniTypes
<1>9. Loaded(m_sections') /\ KeptIn(m_sections', wanted', damaged')
  BY <1>2, <1>3, <1>6, <1>7
<1>10. \A k \in Ini!Tracked \ damaged' : k \in DOMAIN settings' => settings'[k] = Used(wanted', k)
  BY <1>2, <1>3, <1>6, <1>7
<1>11. Sorted(file') /\ KeptOn(file', wanted', damaged')
  BY <1>6 DEF IniInv
<1> QED
  BY <1>6, <1>8, <1>9, <1>10, <1>11 DEF IniInv

\* What the program writes when it is not killed.
LEMMA SaveStays ==
  ASSUME IniInv, running, NEW m, Loaded(m), KeptIn(m, wanted, damaged), Ini!SaveIniFile(m),
         running' \in BOOLEAN
  PROVE  IniInv'
<1>1. /\ m_sections' = m /\ file' = Ini!Save(m) /\ clean' = TRUE
      /\ UNCHANGED <<settings, edits, crashes, wanted, damaged>>
  BY DEF Ini!SaveIniFile
<1>2. Sorted(file') /\ Ini!Load(file') = m
  BY <1>1, SaveIs
<1>3. KeptOn(file', wanted', damaged')
  BY <1>1, <1>2, KeptBoth
<1>4. IniTypes'
  BY <1>1 DEF IniInv, IniTypes
<1>5. Loaded(m_sections') /\ KeptIn(m_sections', wanted', damaged') /\ Ini!Load(file') = m_sections'
  BY <1>1, <1>2
<1>6. \A k \in Ini!Tracked \ damaged' : k \in DOMAIN settings' => settings'[k] = Used(wanted', k)
  BY <1>1 DEF IniInv
<1> QED
  BY <1>2, <1>3, <1>4, <1>5, <1>6 DEF IniInv

LEMMA PositionStays == IniInv /\ Ini!Save_Pos => IniInv'
<1> SUFFICES ASSUME IniInv, Ini!Save_Pos PROVE IniInv'
  OBVIOUS
<1>1. PICK m : m = Ini!SaveWindowLastPosition(m_sections)
  OBVIOUS
<1>2. running /\ running' = running /\ Ini!SaveIniFile(m)
  BY <1>1 DEF Ini!Save_Pos
<1>3. Loaded(m) /\ KeptIn(m, wanted, damaged)
  BY <1>1, <1>2, PositionKeeps DEF IniInv
<1>4. running' \in BOOLEAN
  BY <1>2 DEF IniInv, IniTypes
<1> QED
  BY <1>2, <1>3, <1>4, SaveStays

LEMMA ExitStays == IniInv /\ Ini!Exit => IniInv'
<1> SUFFICES ASSUME IniInv, Ini!Exit PROVE IniInv'
  OBVIOUS
<1>1. running /\ running' = FALSE /\ Ini!SaveIniFile(m_sections)
  BY DEF Ini!Exit
<1>2. Loaded(m_sections) /\ KeptIn(m_sections, wanted, damaged)
  BY <1>1 DEF IniInv
<1> QED
  BY <1>1, <1>2, SaveStays

\* A program that is killed.
LEMMA CrashStays == IniInv /\ Ini!Crash => IniInv'
<1> SUFFICES ASSUME IniInv, Ini!Crash PROVE IniInv'
  OBVIOUS
<1>1. PICK m \in {m_sections, Ini!SaveWindowLastPosition(m_sections)} : Ini!CutShort(m) /\ m_sections' = m
  BY DEF Ini!Crash
<1>2. /\ running /\ crashes < MaxCrashes /\ crashes' = crashes + 1
      /\ running' = FALSE /\ clean' = FALSE /\ UNCHANGED <<settings, edits, wanted>>
  BY DEF Ini!Crash
<1>3. Loaded(m) /\ KeptIn(m, wanted, damaged)
  BY <1>1, <1>2, PositionKeeps DEF IniInv
<1>4. PICK lines : lines = Ini!Save(m)
  OBVIOUS
<1>5. Sorted(lines) /\ Told(lines) = DOMAIN lines /\ Ini!Load(lines) = m
  BY <1>3, <1>4, SaveIs
<1>6. PICK w : w = wanted
  OBVIOUS
<1>7. PICK d : d = damaged
  OBVIOUS
<1>8. PICK f : f = file'
  OBVIOUS
<1>9. KeptOn(lines, w, d)
  BY <1>3, <1>5, <1>6, <1>7, KeptBoth
<1>10. PICK n \in DOMAIN lines :
         /\ \/ f = SubSeq(lines, 1, n - 1)
            \/ \E l \in Ini!Torn(lines[n]) : f = Append(SubSeq(lines, 1, n - 1), l)
         /\ damaged' = d \cup {lines[x].key : x \in n .. Len(lines)}
  <2>1. \E n \in DOMAIN Ini!Save(m) :
          /\ \/ file' = SubSeq(Ini!Save(m), 1, n - 1)
             \/ \E l \in Ini!Torn(Ini!Save(m)[n]) : file' = Append(SubSeq(Ini!Save(m), 1, n - 1), l)
          /\ damaged' = damaged \cup {Ini!Save(m)[x].key : x \in n .. Len(Ini!Save(m))}
    BY <1>1, Zenon DEF Ini!CutShort
  <2> QED
    BY ONLY <1>4, <1>7, <1>8, <2>1
<1>11. PICK cut : cut = {lines[x].key : x \in n .. Len(lines)}
  OBVIOUS
<1>12. Sorted(f) /\ KeptOn(f, w, d \cup cut)
  BY ONLY <1>5, <1>9, <1>10, <1>11, n \in DOMAIN lines, CutIs
<1>13. cut \subseteq IniKeys \cup {Ini!NoKey}
  <2>1. \A x \in n .. Len(lines) : x \in DOMAIN lines
    BY <1>5 DEF Sorted
  <2>2. \A x \in DOMAIN lines : lines[x] \in IniLines
    BY <1>5 DEF Sorted
  <2>3. \A x \in DOMAIN lines : lines[x].key \in IniKeys \cup {Ini!NoKey}
    BY <2>2, LinesAre DEF IniLines
  <2> QED
    BY <1>11, <2>1, <2>3
<1>14. damaged' = d \cup cut
  BY <1>10, <1>11
<1>15. crashes' \in 0 .. MaxCrashes
  BY <1>2, IniIs DEF IniInv, IniTypes
<1>16. IniTypes'
  BY <1>2, <1>7, <1>13, <1>14, <1>15 DEF IniInv, IniTypes
<1>17. Sorted(file') /\ KeptOn(file', wanted', damaged')
  BY <1>2, <1>6, <1>8, <1>12, <1>14
<1> QED
  BY <1>1, <1>2, <1>3, <1>16, <1>17 DEF IniInv

LEMMA KillStays == IniInv /\ Ini!Kill => IniInv'
BY DEF IniInv, IniTypes, Ini!Kill

\* The configuration is kept.
LEMMA IniStays == IniInv /\ [Ini!Next]_Ini!vars => IniInv'
<1>1. ASSUME IniInv, UNCHANGED Ini!vars PROVE IniInv'
  BY <1>1 DEF Ini!vars, IniInv, IniTypes
<1> QED
  BY <1>1, EditStays, StartStays, PositionStays, ExitStays, CrashStays, KillStays DEF Ini!Next

LEMMA IniKept == IniInv => Ini!TypeOK /\ Ini!ConfigurationKept
<1> SUFFICES ASSUME IniInv PROVE Ini!TypeOK /\ Ini!ConfigurationKept
  OBVIOUS
<1>1. Ini!SettingsKept
  <2>1. ASSUME running, NEW k \in Ini!Tracked \ damaged
        PROVE  /\ k \in DOMAIN settings => settings[k] = IF wanted[k] = Ini!Empty THEN Ini!Default(k) ELSE wanted[k]
               /\ wanted[k] # Ini!Empty =>
                    Ini!Entry(k) \in DOMAIN m_sections /\ m_sections[Ini!Entry(k)] = wanted[k]
    BY <2>1 DEF IniInv, KeptIn, Used
  <2> QED
    BY <2>1 DEF Ini!SettingsKept
<1>2. Ini!FileHoldsMemory
  BY DEF IniInv, Ini!FileHoldsMemory
<1>3. PICK g : g = Ini!Layout
  OBVIOUS
<1>4. PICK m : m = m_sections
  OBVIOUS
<1>5. Loaded(m)
  BY <1>4 DEF IniInv
<1>6. \A e \in IniEntries : \E p \in DOMAIN g : g[p] = e
  BY <1>3, PlacesAre
<1>7. DOMAIN m \subseteq {g[p] : p \in DOMAIN g}
  BY <1>5, <1>6 DEF Loaded
<1>8. ASSUME NEW e \in DOMAIN m
      PROVE  /\ <<e[1], Ini!NoKey>> \in DOMAIN m /\ m[e] \in Ini!Texts
             /\ e[2] = Ini!NoKey => m[e] = Ini!Empty
  <2>1. CASE \E s \in IniSections : e = Header(s)
    <3>1. PICK s \in IniSections : e = Header(s)
      BY <2>1
    <3>2. <<e[1], Ini!NoKey>> = e
      BY <3>1 DEF Header
    <3> QED
      BY <1>5, <3>1, <3>2 DEF Loaded, Ini!Texts
  <2>2. CASE \E k \in IniKeys : e = Ini!Entry(k)
    <3>1. PICK k \in IniKeys : e = Ini!Entry(k)
      BY <2>2
    <3>2. e[1] = Ini!SectionOf(k) /\ e[2] = k /\ k # Ini!NoKey
      BY <3>1, KeysAre
    <3>3. m[e] \in TextsOf(k) /\ Header(Ini!SectionOf(k)) \in DOMAIN m
      BY <1>5, <3>1 DEF Loaded
    <3> QED
      BY <3>2, <3>3, TextsAre DEF Header
  <2> QED
    BY <1>5, <2>1, <2>2 DEF Loaded, IniEntries
<1>9. damaged \subseteq {g[p][2] : p \in DOMAIN g}
  <2>1. \A k \in IniKeys : \E p \in DOMAIN g : g[p][2] = k
    <3>1. ASSUME NEW k \in IniKeys PROVE \E p \in DOMAIN g : g[p][2] = k
      <4>1. PICK p \in DOMAIN g : g[p] = Ini!Entry(k)
        BY <1>6 DEF IniEntries
      <4> QED
        BY <4>1, KeysAre
    <3> QED
      BY <3>1
  <2>2. \E p \in DOMAIN g : g[p][2] = Ini!NoKey
    <3>1. PICK p \in DOMAIN g : g[p] = Header(Ini!Server)
      BY <1>6 DEF IniEntries, IniSections
    <3> QED
      BY <3>1 DEF Header
  <2> QED
    BY <2>1, <2>2 DEF IniInv, IniTypes
<1>10. Ini!TypeOK
  BY <1>3, <1>4, <1>7, <1>8, <1>9 DEF IniInv, IniTypes, Ini!TypeOK
<1> QED
  BY <1>1, <1>2, <1>10 DEF Ini!ConfigurationKept

\* For the configuration of the source: a file written to the end is read as what was
\* written, and what people have set is used, until they change it, after any number of
\* starts, saves, ends and changes by hand; only what a killed program had yet to write is lost.
THEOREM ConfigurationStays == Ini!Spec => [](Ini!TypeOK /\ Ini!ConfigurationKept)
<1>1. Ini!Spec => []IniInv
  BY IniStarts, IniStays, PTL DEF Ini!Spec
<1> QED
  BY <1>1, IniKept, PTL

LEMMA PartsIni == MCSpec => Ini!Spec
<1>1. MCInit => Ini!Init
  BY DEF MCInit
<1>2. ASSUME [MCNext]_<<part, data, others>> PROVE [Ini!Next]_(Ini!vars)
  <2>1. UNCHANGED <<memories>> => UNCHANGED configuration
    BY DEF memories
  <2>2. UNCHANGED others => UNCHANGED memories
    BY DEF others
  <2>3. Keeping => Ini!Next \/ UNCHANGED configuration
    BY DEF Keeping
  <2>4. MCNext => Keeping \/ UNCHANGED memories
    BY <2>2 DEF MCNext
  <2>5. UNCHANGED configuration => UNCHANGED Ini!vars
    BY DEF configuration, Ini!vars
  <2> QED
    BY <1>2, <2>1, <2>2, <2>3, <2>4, <2>5
<1> QED
  BY <1>1, <1>2, PTL DEF MCSpec, Ini!Spec

\* The same as the run of the parts checks it.
THEOREM PartsConfigurationKept == MCSpec => []ConfigurationKept
<1>1. Ini!TypeOK /\ Ini!ConfigurationKept => ConfigurationKept
  BY DEF ConfigurationKept
<1> QED
  BY <1>1, PartsIni, ConfigurationStays, PTL

=============================================================================
