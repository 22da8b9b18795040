---------------------------- MODULE Parts_proofs ----------------------------
(***************************************************************************)
(* Proofs about the smaller parts: the small command ring of               *)
(* TestThread.cpp, for every number of slots; the assembly of the packets  *)
(* for the PAG, for any number of sequences, channels and readings and     *)
(* whatever happens to the board, the packets and the channels, or for a   *)
(* board that nothing happens to; how the two servers of the PAP are       *)
(* started and stopped; the counts of lost packets, for any widths; and    *)
(* how a connection to the PAG is taken down.                              *)
(***************************************************************************)
EXTENDS MCParts, ClientShutdown, FiniteSetTheorems, FunctionTheorems, SequenceTheorems,
        NaturalsInduction, WellFoundedInduction, TLAPS

-----------------------------------------------------------------------------
(* The ring.                                                               *)

\* The indices stay in the ring and the count in its range: the inductive
\* invariant, with the account of the commands that makes wLost bounded.
RingIInv == RingTypeOK /\ Accounted

LEMMA WrapInRange ==
  ASSUME NEW s \in Slots
  PROVE  (s + 1) % Modulo \in Slots
BY ModuloAssumption DEF Slots

LEMMA RingStarts == InitRing => RingIInv
BY ModuloAssumption, MaxPutsAssumption DEF InitRing, RingIInv, RingTypeOK, Accounted, Slots

LEMMA InputKeepsRing == RingIInv /\ Input => RingIInv'
<1> SUFFICES ASSUME RingIInv, Input PROVE RingIInv'
  OBVIOUS
<1> USE ModuloAssumption, MaxPutsAssumption
<1>1. Accounted' /\ wLost' \in Nat /\ bCnt' \in 0 .. Modulo
  <2>1. got \in Seq(0 .. MaxPuts) /\ got' = got /\ Len(got) \in Nat
    BY DEF RingIInv, RingTypeOK, Input
  <2>2. puts \in Nat /\ puts' = puts + 1 /\ wLost \in Nat /\ bCnt \in 0 .. Modulo
    BY DEF RingIInv, RingTypeOK, Input
  <2>3. puts = Len(got) + bCnt + wLost
    BY DEF RingIInv, Accounted
  <2>4. CASE InputWithRoom
    BY <2>1, <2>2, <2>3, <2>4 DEF Accounted, InputWithRoom
  <2>5. CASE InputOverflow
    BY <2>1, <2>2, <2>3, <2>5 DEF Accounted, InputOverflow
  <2> QED
    BY <2>4, <2>5 DEF Input
<1>2. bIn' \in Slots /\ bOut' \in Slots
  BY WrapInRange DEF RingIInv, RingTypeOK, Input, InputWithRoom, InputOverflow
<1>3. puts' \in 0 .. MaxPuts /\ buf' \in [Slots -> 0 .. MaxPuts] /\ got' = got
  BY DEF RingIInv, RingTypeOK, Input
<1>4. wLost' \in 0 .. MaxPuts
  BY SMTT(20), <1>1, <1>3 DEF RingIInv, RingTypeOK, Accounted
<1> QED
  BY <1>1, <1>2, <1>3, <1>4 DEF RingIInv, RingTypeOK

LEMMA OutputKeepsRing == RingIInv /\ Output => RingIInv'
<1> SUFFICES ASSUME RingIInv, Output PROVE RingIInv'
  OBVIOUS
<1> USE ModuloAssumption, MaxPutsAssumption
<1>1. bOut' \in Slots
  BY WrapInRange DEF RingIInv, RingTypeOK, Output
<1>2. buf[bOut] \in 0 .. MaxPuts
  BY DEF RingIInv, RingTypeOK
<1>3. got' \in Seq(0 .. MaxPuts) /\ Len(got') = Len(got) + 1
  BY <1>2 DEF RingIInv, RingTypeOK, Output
<1> QED
  BY <1>1, <1>3 DEF RingIInv, RingTypeOK, Accounted, Output

LEMMA StepRing == RingIInv /\ [RingNext]_ring => RingIInv'
<1>1. RingIInv /\ UNCHANGED ring => RingIInv'
  BY DEF RingIInv, RingTypeOK, Accounted, ring
<1> QED
  BY <1>1, InputKeepsRing, OutputKeepsRing DEF RingNext

\* Whatever the number of slots, the indices never leave the ring and every
\* command put is handed out, waits or is counted in wLost.
THEOREM RingAccounted == RingSpec => [](RingTypeOK /\ Accounted)
BY RingStarts, StepRing, PTL DEF RingSpec, RingIInv
-----------------------------------------------------------------------------
(* The order of the commands.                                              *)

\* The slot that is x slots after slot 0, and how far an index with a count goes.
Twice == 0 .. 2 * Modulo - 1
Slot(x) == x % Modulo

LEMMA Wrapped ==
  ASSUME NEW x \in Twice
  PROVE  Slot(x) = IF x < Modulo THEN x ELSE x - Modulo
BY ModuloAssumption DEF Slot, Twice

\* Before the first overflow: what was handed out is 1, 2, ..., what waits goes on from
\* there slot by slot, and the next command goes behind it.
RingQueue ==
  /\ \A k \in 1 .. Len(got) : got[k] = k
  /\ \A k \in 1 .. bCnt : buf[Slot(bOut + k - 1)] = Len(got) + k
  /\ bIn = Slot(bOut + bCnt)

QueueIInv == RingTypeOK /\ Accounted /\ (wLost = 0 => RingQueue)

LEMMA InitQueue == InitRing => RingQueue
BY ModuloAssumption DEF InitRing, RingQueue, Slot

\* With room in the ring no waiting command is in the slot that is filled.
LEMMA InputQueue ==
  ASSUME RingTypeOK, Accounted, RingQueue, Input, InputWithRoom, wLost = 0
  PROVE  RingQueue'
<1> USE ModuloAssumption
<1>1. /\ bIn \in Nat /\ bIn < Modulo /\ bOut \in Nat /\ bOut < Modulo
      /\ bCnt \in Nat /\ bCnt < Modulo /\ Modulo \in Nat
  BY DEF RingTypeOK, Slots, InputWithRoom
<1>2. /\ got' = got /\ Len(got) \in Nat /\ bOut' = bOut /\ bCnt' = bCnt + 1
      /\ bIn' = Slot(bIn + 1)
      /\ buf \in [Slots -> 0 .. MaxPuts] /\ buf' = [buf EXCEPT ![bIn] = puts + 1]
  BY DEF RingTypeOK, Input, InputWithRoom, Slot
<1>3. puts = Len(got) + bCnt
  BY <1>1, <1>2 DEF Accounted
<1>4. bIn = Slot(bOut + bCnt)
  BY DEF RingQueue
<1>5. bOut + bCnt \in Twice
  BY <1>1 DEF Twice
<1>6. bIn = IF bOut + bCnt < Modulo THEN bOut + bCnt ELSE bOut + bCnt - Modulo
  BY <1>1, <1>4, <1>5, Wrapped
<1>7. bIn' = Slot(bOut' + bCnt')
  <2>1. bIn + 1 \in Twice /\ bOut + (bCnt + 1) \in Twice
    BY <1>1 DEF Twice
  <2>2. Slot(bIn + 1) = IF bIn + 1 < Modulo THEN bIn + 1 ELSE bIn + 1 - Modulo
    BY <1>1, <2>1, Wrapped
  <2>3. Slot(bOut + (bCnt + 1)) =
          IF bOut + (bCnt + 1) < Modulo THEN bOut + (bCnt + 1) ELSE bOut + (bCnt + 1) - Modulo
    BY <1>1, <2>1, Wrapped
  <2> QED
    BY <1>1, <1>2, <1>6, <2>2, <2>3
<1>8. ASSUME NEW k \in 1 .. bCnt'
      PROVE  buf'[Slot(bOut' + k - 1)] = Len(got') + k
  <2>1. k \in Nat /\ 1 <= k /\ k <= bCnt + 1
    BY <1>1, <1>2
  <2> DEFINE s == Slot(bOut + k - 1)
  <2>2. bOut + k - 1 \in Twice
    BY <1>1, <2>1 DEF Twice
  <2>3. s = IF bOut + k - 1 < Modulo THEN bOut + k - 1 ELSE bOut + k - 1 - Modulo
    BY <1>1, <2>1, <2>2, Wrapped
  <2>4. s \in Slots
    BY <1>1, <2>1, <2>3 DEF Slots
  <2> HIDE DEF s
  <2>5. CASE k = bCnt + 1
    <3>1. s = bIn
      BY <1>1, <1>6, <2>3, <2>5
    <3>2. buf'[s] = puts + 1
      BY <1>2, <2>4, <3>1
    <3> QED
      BY <1>1, <1>2, <1>3, <2>5, <3>2 DEF s
  <2>6. CASE k <= bCnt
    <3>1. s # bIn
      BY <1>1, <1>6, <2>1, <2>3, <2>6
    <3>2. buf'[s] = buf[s]
      BY <1>2, <2>4, <3>1
    <3>3. k \in 1 .. bCnt
      BY <1>1, <2>1, <2>6
    <3>4. \A j \in 1 .. bCnt : buf[Slot(bOut + j - 1)] = Len(got) + j
      BY <1>1 DEF RingQueue
    <3>5. buf[s] = Len(got) + k
      BY <3>3, <3>4 DEF s
    <3> QED
      BY <1>2, <3>2, <3>5 DEF s
  <2> QED
    BY <1>1, <2>1, <2>5, <2>6
<1> QED
  BY <1>2, <1>7, <1>8 DEF RingQueue

\* The command handed out is the first that waits.
LEMMA OutputQueue ==
  ASSUME RingTypeOK, RingQueue, Output
  PROVE  RingQueue'
<1> USE ModuloAssumption
<1>1. /\ bIn \in Nat /\ bIn < Modulo /\ bOut \in Nat /\ bOut < Modulo
      /\ bCnt \in Nat /\ 0 < bCnt /\ bCnt <= Modulo /\ Modulo \in Nat
  BY DEF RingTypeOK, Slots, Output
<1>2. /\ bOut' = Slot(bOut + 1) /\ bCnt' = bCnt - 1 /\ buf' = buf /\ bIn' = bIn
      /\ got' = Append(got, buf[bOut]) /\ got \in Seq(0 .. MaxPuts)
  BY DEF RingTypeOK, Output, Slot
<1>3. bOut' = IF bOut + 1 < Modulo THEN bOut + 1 ELSE 0
  <2>1. bOut + 1 \in Twice
    BY <1>1 DEF Twice
  <2> QED
    BY <1>1, <1>2, <2>1, Wrapped
<1>4. Len(got) \in Nat /\ Len(got') = Len(got) + 1
      /\ \A k \in 1 .. Len(got) + 1 : got'[k] = IF k <= Len(got) THEN got[k] ELSE buf[bOut]
  BY <1>2
<1>5. ASSUME NEW k \in Nat, bOut' + k \in Twice,
                            bOut + (k + 1) \in Twice
      PROVE  Slot(bOut' + k) = Slot(bOut + (k + 1))
  <2>1. Slot(bOut' + k) = IF bOut' + k < Modulo THEN bOut' + k ELSE bOut' + k - Modulo
    BY <1>1, <1>3, <1>5, Wrapped
  <2>2. Slot(bOut + (k + 1)) =
          IF bOut + (k + 1) < Modulo THEN bOut + (k + 1) ELSE bOut + (k + 1) - Modulo
    BY <1>1, <1>3, <1>5, Wrapped
  <2>3. bOut' + k < 2 * Modulo /\ bOut + (k + 1) < 2 * Modulo
    BY <1>1, <1>5 DEF Twice
  <2> QED
    BY <1>1, <1>3, <2>1, <2>2, <2>3
<1>6. buf[bOut] = Len(got) + 1
  <2>1. 1 \in 1 .. bCnt /\ bOut + 1 - 1 = bOut /\ bOut \in Twice
    BY <1>1 DEF Twice
  <2>2. Slot(bOut) = bOut
    BY <1>1, <2>1, Wrapped
  <2>3. buf[Slot(bOut + 1 - 1)] = Len(got) + 1
    BY <2>1 DEF RingQueue
  <2> QED
    BY <2>1, <2>2, <2>3
<1>7. \A k \in 1 .. Len(got') : got'[k] = k
  BY <1>4, <1>6 DEF RingQueue
<1>8. bIn' = Slot(bOut' + bCnt')
  <2>1. bCnt' \in Nat /\ bOut' + bCnt' \in Twice
        /\ bOut + (bCnt' + 1) \in Twice
    BY <1>1, <1>2, <1>3 DEF Twice
  <2>2. Slot(bOut' + bCnt') = Slot(bOut + (bCnt' + 1))
    BY <1>5, <2>1
  <2>3. bCnt' + 1 = bCnt
    BY <1>1, <1>2
  <2> QED
    BY <1>2, <2>2, <2>3 DEF RingQueue
<1>9. ASSUME NEW k \in 1 .. bCnt'
      PROVE  buf'[Slot(bOut' + k - 1)] = Len(got') + k
  <2>1. k \in Nat /\ 1 <= k /\ k + 1 <= bCnt /\ k + 1 \in 1 .. bCnt /\ k - 1 \in Nat
    BY <1>1, <1>2
  <2>2. bOut' + (k - 1) \in Twice
        /\ bOut + ((k - 1) + 1) \in Twice
    BY <1>1, <1>3, <2>1 DEF Twice
  <2>3. Slot(bOut' + (k - 1)) = Slot(bOut + ((k - 1) + 1))
    BY <1>5, <2>1, <2>2
  <2>4. bOut' \in Int
    BY <1>1, <1>3
  <2>5. bOut' + (k - 1) = bOut' + k - 1 /\ bOut + ((k - 1) + 1) = bOut + (k + 1) - 1
    BY <1>1, <2>1, <2>4
  <2>6. buf[Slot(bOut + (k + 1) - 1)] = Len(got) + (k + 1)
    BY <2>1 DEF RingQueue
  <2>7. Len(got) + (k + 1) = Len(got') + k
    BY <1>4, <2>1
  <2> QED
    BY <1>2, <2>3, <2>5, <2>6, <2>7
<1> QED
  BY <1>7, <1>8, <1>9 DEF RingQueue

LEMMA StepQueue == QueueIInv /\ [RingNext]_ring => QueueIInv'
<1> SUFFICES ASSUME QueueIInv, [RingNext]_ring PROVE QueueIInv'
  OBVIOUS
<1>1. RingTypeOK' /\ Accounted'
  BY StepRing DEF QueueIInv, RingIInv
<1>2. ASSUME wLost' = 0 PROVE RingQueue'
  <2>1. wLost \in Nat
    BY DEF QueueIInv, RingTypeOK
  <2>2. CASE Input
    <3>1. ~InputOverflow
      BY <1>2, <2>1 DEF InputOverflow
    <3>2. InputWithRoom
      BY <2>2, <3>1 DEF Input
    <3>3. wLost = 0
      BY <1>2, <3>2 DEF InputWithRoom
    <3> QED
      BY <2>2, <3>2, <3>3, InputQueue DEF QueueIInv
  <2>3. CASE Output
    BY <1>2, <2>3, OutputQueue DEF QueueIInv, Output
  <2>4. CASE UNCHANGED ring
    BY <1>2, <2>4 DEF QueueIInv, RingQueue, ring
  <2> QED
    BY <2>2, <2>3, <2>4 DEF RingNext
<1> QED
  BY <1>1, <1>2 DEF QueueIInv

\* Until the first overflow no command is lost, repeated or overtaken, for every number
\* of slots and however often the indices wrap.
THEOREM RingIsQueue == RingSpec => []QueueUntilOverflow
<1>1. InitRing => QueueIInv
  BY RingStarts, InitQueue DEF RingIInv, QueueIInv
<1>2. QueueIInv => QueueUntilOverflow
  <2> SUFFICES ASSUME QueueIInv, wLost = 0
               PROVE  History = [k \in 1 .. puts |-> k]
    BY DEF QueueUntilOverflow
  <2> USE ModuloAssumption
  <2>1. /\ got \in Seq(0 .. MaxPuts) /\ Len(got) \in Nat /\ bCnt \in Nat
        /\ bOut \in Nat /\ bOut < Modulo /\ bCnt <= Modulo
        /\ buf \in [Slots -> 0 .. MaxPuts] /\ puts = Len(got) + bCnt /\ RingQueue
    BY DEF QueueIInv, RingTypeOK, Accounted, Slots
  <2>2. ASSUME NEW k \in 1 .. bCnt PROVE buf[Slot(bOut + k - 1)] \in 0 .. MaxPuts
    <3>1. bOut + k - 1 \in Twice
      BY <2>1 DEF Twice
    <3>2. Slot(bOut + k - 1) \in Slots
      BY <2>1, <3>1, Wrapped DEF Slots
    <3> QED
      BY <2>1, <3>2
  <2>3. Waiting \in Seq(0 .. MaxPuts) /\ Len(Waiting) = bCnt
        /\ \A k \in 1 .. bCnt : Waiting[k] = Len(got) + k
    <3>1. Waiting \in [1 .. bCnt -> 0 .. MaxPuts]
      BY <2>2 DEF Waiting, Slot
    <3>2. Waiting \in Seq(0 .. MaxPuts)
      BY <2>1, <3>1, SeqDef
    <3>3. Len(Waiting) = bCnt
      BY <2>1, <3>1, <3>2, LenProperties
    <3>4. ASSUME NEW k \in 1 .. bCnt PROVE Waiting[k] = buf[Slot(bOut + k - 1)]
      BY DEF Waiting, Slot
    <3> QED
      BY <2>1, <3>2, <3>3, <3>4 DEF RingQueue
  <2> DEFINE all == [k \in 1 .. puts |-> k]
  <2>4. /\ History \in Seq(Nat) /\ Len(History) = puts
        /\ \A k \in 1 .. puts : History[k] = IF k <= Len(got) THEN got[k] ELSE Waiting[k - Len(got)]
    <3>1. got \in Seq(Nat) /\ Waiting \in Seq(Nat)
      BY <2>1, <2>3, SeqMonotonic, MaxPutsAssumption
    <3> QED
      BY <2>1, <2>3, <3>1, ConcatProperties DEF History
  <2>5. ASSUME NEW k \in 1 .. puts
        PROVE  History[k] = k
    <3>1. CASE k <= Len(got)
      BY <2>1, <2>4, <3>1 DEF RingQueue
    <3>2. CASE k > Len(got)
      <4>1. k - Len(got) \in 1 .. bCnt /\ Len(got) + (k - Len(got)) = k
        BY <2>1, <3>2
      <4> QED
        BY <2>1, <2>3, <2>4, <3>2, <4>1
    <3> QED
      BY <2>1, <3>1, <3>2
  <2>6. all \in Seq(Nat) /\ Len(all) = puts /\ \A k \in 1 .. puts : all[k] = k
    <3>1. all \in [1 .. puts -> Nat] /\ puts \in Nat
      BY <2>1
    <3> QED
      BY <3>1, SeqDef
  <2> HIDE DEF all
  <2>7. History = all
    BY <2>1, <2>4, <2>5, <2>6, SeqEqual
  <2> QED
    BY <2>7 DEF all
<1> QED
  BY <1>1, <1>2, StepQueue, PTL DEF RingSpec

-----------------------------------------------------------------------------
(* The assembly.                                                           *)

\* What a full packet is never changes under a partial one: it belongs to
\* gnSeqModulo, and a packet with another modulo deletes the partial packet.
IInv ==
  /\ "modulo" \in DOMAIN board /\ board.modulo \in Modulos
  /\ packet # None => packet.modulo \in Modulos
  /\ gnSeqModulo \in Modulos \cup {0}
  /\ reading > 0 => gnSeqModulo \in Modulos
  /\ reading \in Nat /\ m_nStoredChannelCount \in Nat
  /\ m_nFullPacketChnls = gnSeqModulo * Chnls
  /\ DOMAIN slots # {} => m_nStoredChannelCount < m_nFullPacketChnls

LEMMA ModulosPositive == \A m \in Modulos : m \in Nat /\ m >= 1
  BY IdataAssumption

LEMMA FullPositive == \A m \in Modulos : m * Chnls \in Nat /\ m * Chnls >= 1
<1> SUFFICES ASSUME NEW m \in Modulos PROVE m * Chnls \in Nat /\ m * Chnls >= 1
  OBVIOUS
<1>1. m \in Nat /\ m >= 1
  BY ModulosPositive
<1>2. Chnls \in Nat /\ Chnls >= 1
  BY IdataAssumption
<1> QED BY <1>1, <1>2

LEMMA EmptyDomain == DOMAIN Empty = {}
  BY DEF Empty

LEMMA InitIInv == InitIdata => IInv
<1> SUFFICES ASSUME InitIdata PROVE IInv
  OBVIOUS
<1>1. "modulo" \in DOMAIN board /\ board.modulo \in Modulos
  BY DEF InitIdata
<1>2. packet = None /\ reading = 0 /\ gnSeqModulo = 0 /\ m_nFullPacketChnls = 0
      /\ m_nStoredChannelCount = 0 /\ DOMAIN slots = {}
  BY EmptyDomain DEF InitIdata
<1>3. m_nFullPacketChnls = gnSeqModulo * Chnls
  BY <1>2, IdataAssumption
<1> QED BY <1>1, <1>2, <1>3 DEF IInv

\* The last reading of an interval: the count grows by one, and a packet that
\* it does not make full stays short of full.
LEMMA LastReadingIInv == IInv /\ LastReading => IInv'
<1> SUFFICES ASSUME IInv, LastReading PROVE IInv'
  OBVIOUS
<1> DEFINE new == AddToIdataPacket(<<m_Seq, m_Ch>>)
<1>1. /\ m_nStoredChannelCount' = new.count
      /\ new.count # m_nFullPacketChnls \/ slots' = Empty
      /\ reading' = reading + 1 /\ reading \in 1 .. SeqPerPacket * Chnls
      /\ UNCHANGED <<board, packet, gnSeqModulo, m_nFullPacketChnls>>
  BY DEF LastReading, InLoop, outsideIdata, modulo
<1>2. new.count = IF DOMAIN slots = {} THEN 1 ELSE m_nStoredChannelCount + 1
  BY DEF AddToIdataPacket
<1>3. reading > 0 /\ gnSeqModulo \in Modulos
  BY <1>1 DEF IInv
<1>4. m_nFullPacketChnls \in Nat /\ m_nFullPacketChnls >= 1
  BY <1>3, FullPositive DEF IInv
<1>5. new.count \in Nat /\ new.count <= m_nFullPacketChnls
  <2>1. CASE DOMAIN slots = {}
    BY <2>1, <1>2, <1>4
  <2>2. CASE DOMAIN slots # {}
    <3>1. m_nStoredChannelCount \in Nat /\ m_nStoredChannelCount < m_nFullPacketChnls
      BY <2>2 DEF IInv
    <3> QED BY <3>1, <2>2, <1>2, <1>4
  <2> QED BY <2>1, <2>2
<1>6. DOMAIN slots' # {} => m_nStoredChannelCount' < m_nFullPacketChnls'
  <2> HIDE DEF new
  <2> SUFFICES ASSUME DOMAIN slots' # {} PROVE m_nStoredChannelCount' < m_nFullPacketChnls'
    OBVIOUS
  <2>1. new.count # m_nFullPacketChnls
    BY <1>1, EmptyDomain
  <2> QED BY <2>1, <1>1, <1>4, <1>5
<1>7. reading' \in Nat /\ m_nStoredChannelCount' \in Nat
  <2> HIDE DEF new
  <2> QED BY <1>1, <1>5 DEF IInv
<1> HIDE DEF new
<1> QED BY <1>1, <1>3, <1>6, <1>7 DEF IInv

LEMMA StartPacketIInv == IInv /\ StartPacket => IInv'
<1> SUFFICES ASSUME IInv, StartPacket PROVE IInv'
  OBVIOUS
<1>1. /\ packet # None
      /\ slots' = IF Glitched \/ NewModulo THEN Empty ELSE slots
      /\ gnSeqModulo' = packet.modulo /\ m_nFullPacketChnls' = packet.modulo * Chnls
      /\ reading' = 1
      /\ UNCHANGED <<board, packet, m_nStoredChannelCount>>
  BY DEF StartPacket, outsideIdata
<1>2. packet.modulo \in Modulos
  BY <1>1 DEF IInv
<1>3. DOMAIN slots' # {} => m_nStoredChannelCount' < m_nFullPacketChnls'
  <2> SUFFICES ASSUME DOMAIN slots' # {} PROVE m_nStoredChannelCount' < m_nFullPacketChnls'
    OBVIOUS
  <2>1. ~NewModulo /\ slots' = slots
    BY <1>1, EmptyDomain
  <2>2. m_nFullPacketChnls' = m_nFullPacketChnls
    BY <1>1, <2>1 DEF IInv, NewModulo
  <2> QED BY <1>1, <2>1, <2>2 DEF IInv
<1> QED BY <1>1, <1>2, <1>3 DEF IInv

\* The board and the command thread change nothing a full packet depends on.
LEMMA OutsideIInv ==
  IInv /\ (Arrive \/ Lose \/ Glitch \/ SetModulo \/ WFifoInit) => IInv'
<1> SUFFICES ASSUME IInv, Arrive \/ Lose \/ Glitch \/ SetModulo \/ WFifoInit PROVE IInv'
  OBVIOUS
<1>1. CASE Arrive
  <2>1. /\ packet' = board /\ reading' = 0 /\ board' = [board EXCEPT !.start = NextStart]
        /\ UNCHANGED <<gnSeqModulo, m_nFullPacketChnls, slots, m_nStoredChannelCount>>
    BY <1>1 DEF Arrive, modulo, assembly
  <2>2. "modulo" \in DOMAIN board' /\ board'.modulo = board.modulo
    BY <2>1 DEF IInv
  <2> QED BY <2>1, <2>2 DEF IInv
<1>2. CASE Lose \/ Glitch \/ SetModulo \/ WFifoInit
  <2>1. UNCHANGED <<packet, reading, gnSeqModulo, m_nFullPacketChnls, slots, m_nStoredChannelCount>>
    BY <1>2 DEF Lose, Glitch, SetModulo, WFifoInit, place, modulo, assembly
  <2>2. "modulo" \in DOMAIN board' /\ board'.modulo \in Modulos
    <3>1. CASE Lose
      BY <3>1 DEF Lose, IInv
    <3>2. CASE Glitch
      BY <3>2 DEF Glitch, IInv
    <3>3. CASE SetModulo
      BY <3>3 DEF SetModulo, IInv
    <3>4. CASE WFifoInit
      BY <3>4 DEF WFifoInit, IInv
    <3> QED BY <1>2, <3>1, <3>2, <3>3, <3>4
  <2> QED BY <2>1, <2>2 DEF IInv
<1> QED BY <1>1, <1>2

LEMMA RestIInv == IInv /\ (Reading \/ EndPacket \/ UNCHANGED idata) => IInv'
<1> SUFFICES ASSUME IInv, Reading \/ EndPacket \/ UNCHANGED idata PROVE IInv'
  OBVIOUS
<1>1. CASE Reading
  <2>1. /\ slots' = Older(slots) /\ reading' = reading + 1
        /\ reading \in 1 .. SeqPerPacket * Chnls
        /\ UNCHANGED <<board, packet, gnSeqModulo, m_nFullPacketChnls, m_nStoredChannelCount>>
    BY <1>1 DEF Reading, InLoop, outsideIdata, modulo
  <2>2. DOMAIN slots' = DOMAIN slots
    BY <2>1 DEF Older
  <2> QED BY <2>1, <2>2 DEF IInv
<1>2. CASE EndPacket
  BY <1>2 DEF EndPacket, IInv, outsideIdata, modulo, assembly
<1>3. CASE UNCHANGED idata
  BY <1>3 DEF idata, IInv, outsideIdata, place, modulo, assembly
<1> QED BY <1>1, <1>2, <1>3

\* No step takes the count past a full packet.
THEOREM AssemblyInvariant == SpecIdata => []IInv
<1>1. IInv /\ [NextIdata]_idata => IInv'
  BY LastReadingIInv, StartPacketIInv, OutsideIInv, RestIInv DEF NextIdata, ProcessInstrumentData
<1> QED BY <1>1, InitIInv, PTL DEF SpecIdata

\* NeverOverfull for every value of the constants: the equality that sends a
\* packet is never stepped over.
THEOREM PacketNeverOverfull == SpecIdata => []NeverOverfull
<1>1. IInv => NeverOverfull
  BY DEF IInv, NeverOverfull
<1> QED BY <1>1, AssemblyInvariant, PTL

-----------------------------------------------------------------------------
(* The assembly without faults: the rounds of the machine.                 *)

\* Division with remainder, for a divisor n.
LEMMA Divides ==
  ASSUME NEW n \in Nat, n > 0, NEW a \in Int
  PROVE  /\ a % n \in 0 .. n - 1
         /\ \E q \in Int : a = n * q + (a % n)
<1>1. a % n \in 0 .. n - 1
  OBVIOUS
<1>2. a \div n \in Int /\ a = n * (a \div n) + (a % n)
  OBVIOUS
<1> QED
  BY <1>1, <1>2

LEMMA Remainder ==
  ASSUME NEW n \in Nat, n > 0, NEW a \in Int, NEW q \in Int, NEW r \in 0 .. n - 1, a = n * q + r
  PROVE  a % n = r
<1>1. PICK p \in Int : a = n * p + (a % n)
  BY Divides
<1>2. a % n \in 0 .. n - 1
  BY Divides
<1>3. n * (p - q) = r - (a % n)
  BY <1>1
<1>4. PICK d \in Int : d = p - q
  OBVIOUS
<1>5. n * d < n /\ n * d > -n
  BY <1>2, <1>3, <1>4
<1>6. ~(d >= 1)
  <2>1. d >= 1 => n * d >= n
    OBVIOUS
  <2> QED
    BY <1>5, <2>1
<1>7. ~(d <= -1)
  <2>1. d <= -1 => n * d <= -n
    OBVIOUS
  <2> QED
    BY <1>5, <2>1
<1>8. d = 0
  BY <1>6, <1>7
<1> QED
  BY <1>1, <1>2, <1>4, <1>8

\* Numbers that differ by a multiple of n have the same remainder, and the other way.
LEMMA SameRemainder ==
  ASSUME NEW n \in Nat, n > 0, NEW a \in Int, NEW b \in Int, NEW q \in Int, a - b = n * q
  PROVE  a % n = b % n
<1>1. PICK p \in Int : b = n * p + (b % n)
  BY Divides
<1>2. a = n * (p + q) + (b % n)
  BY <1>1
<1>3. b % n \in 0 .. n - 1 /\ p + q \in Int
  BY Divides
<1> QED
  BY <1>2, <1>3, Remainder

\* How many main bangs after one of sequence s, the first one the board fired, one of
\* sequence q comes.
Bang(m, s, q) == IF q >= s THEN q - s ELSE (q - s) + m

\* The channel the next reading belongs to, wherever the thread is.
InPacket == packet # None /\ reading > 0
NowSeq == IF InPacket THEN m_Seq ELSE IF packet # None THEN packet.start ELSE board.start
NowCh == IF InPacket THEN m_Ch ELSE 0

\* c comes before the channel of sequence q and number h in a round.
Earlier(m, s, c, q, h) ==
  \/ Bang(m, s, c[1]) < Bang(m, s, q)
  \/ c[1] = q /\ c[2] < h

\* Board, packet and thread agree on it.
Undisturbed(m) ==
  /\ board \in [start : 0 .. m - 1, modulo : {m}, glitch : {0}]
  /\ m_bNiosGlitchCnt = 0 /\ gnSeqModulo \in {0, m}
  /\ DOMAIN slots # {} => gnSeqModulo = m
  /\ reading \in Nat
  /\ packet # None => /\ packet \in [start : 0 .. m - 1, modulo : {m}, glitch : {0}]
                      /\ board.start = (packet.start + SeqPerPacket) % m
  /\ InPacket => /\ gnSeqModulo = m /\ m_nFullPacketChnls = m * Chnls
                 /\ m_Seq \in 0 .. m - 1 /\ m_Ch \in 0 .. Chnls - 1
                 /\ \E b \in 0 .. SeqPerPacket :
                      /\ reading = (b * Chnls) + m_Ch + 1
                      /\ m_Seq = (packet.start + b) % m
                      /\ b = SeqPerPacket => m_Ch = 0

\* In the k-th round of an interval the channels before it have had k + 1 readings, the others
\* k; in the last round the ones before it have filled their slots, and no others.
InRound(m, s, k, q, h) ==
  /\ \A c \in Channels(m) :
       inputCnt[c] = IF ~Earlier(m, s, c, q, h) THEN k ELSE IF k + 1 = Ascans THEN 0 ELSE k + 1
  /\ DOMAIN slots = {c \in Channels(m) : k + 1 = Ascans /\ Earlier(m, s, c, q, h)}
  /\ \A c \in DOMAIN slots : slots[c] = Bang(m, s, q) - Bang(m, s, c[1])
  /\ DOMAIN slots # {} => m_nStoredChannelCount = (Bang(m, s, q) * Chnls) + h

\* What was sent is whole, and no older than a round.
SentWhole(m) ==
  DOMAIN sent # {} => DOMAIN sent = Channels(m) /\ \A c \in DOMAIN sent : sent[c] \in 0 .. m - 1

SteadyInv ==
  /\ inputCnt \in [Channels(MaxSeq) -> 0 .. Ascans - 1]
  /\ \E m \in Modulos : \E s \in 0 .. m - 1, k \in 0 .. Ascans - 1 :
       Undisturbed(m) /\ SentWhole(m) /\ InRound(m, s, k, NowSeq, NowCh)

LEMMA SizesAre ==
  /\ MaxSeq \in Nat /\ Chnls \in Nat /\ Chnls >= 1 /\ Ascans \in Nat /\ Ascans >= 1
  /\ SeqPerPacket \in Nat /\ SeqPerPacket >= 1
  /\ \A m \in Modulos : m \in 1 .. MaxSeq
BY IdataAssumption

LEMMA ChannelIs ==
  ASSUME NEW m \in Nat, NEW c \in Channels(m)
  PROVE  c[1] \in 0 .. m - 1 /\ c[2] \in 0 .. Chnls - 1 /\ c = <<c[1], c[2]>>
BY DEF Channels

\* The main bangs of a round have different numbers below m.
LEMMA Bangs ==
  ASSUME NEW m \in Nat, NEW s \in 0 .. m - 1
  PROVE  /\ \A q \in 0 .. m - 1 : Bang(m, s, q) \in 0 .. m - 1
         /\ \A p, q \in 0 .. m - 1 : Bang(m, s, p) = Bang(m, s, q) => p = q
         /\ Bang(m, s, s) = 0
BY DEF Bang

LEMMA NextBang ==
  ASSUME NEW m \in Nat, NEW s \in 0 .. m - 1, NEW q \in 0 .. m - 1
  PROVE  /\ (q + 1) % m \in 0 .. m - 1
         /\ Bang(m, s, (q + 1) % m) = IF Bang(m, s, q) = m - 1 THEN 0 ELSE Bang(m, s, q) + 1
<1>1. (q + 1) % m = IF q + 1 = m THEN 0 ELSE q + 1
  <2>1. CASE q + 1 = m
    <3>1. q + 1 = (m * 1) + 0 /\ 0 \in 0 .. m - 1
      BY <2>1
    <3> QED
      BY <2>1, <3>1, Remainder
  <2>2. CASE q + 1 # m
    <3>1. q + 1 = (m * 0) + (q + 1) /\ q + 1 \in 0 .. m - 1 /\ m > 0
      BY <2>2
    <3> QED
      BY <2>2, <3>1, Remainder
  <2> QED
    BY <2>1, <2>2
<1> QED
  BY <1>1 DEF Bang

\* The channel after the one of sequence q and number h: a round is over with the last number
\* of its last main bang.
Follows(m, q, h, q2, h2) ==
  /\ h2 = IF h + 1 >= Chnls THEN 0 ELSE h + 1
  /\ q2 = IF h + 1 >= Chnls THEN (q + 1) % m ELSE q
LastOne(m, s, q, h) == h + 1 >= Chnls /\ Bang(m, s, q) = m - 1

LEMMA Advance ==
  ASSUME NEW m \in Nat, NEW s \in 0 .. m - 1, NEW q \in 0 .. m - 1, NEW h \in 0 .. Chnls - 1,
         NEW q2, NEW h2, Follows(m, q, h, q2, h2)
  PROVE  /\ q2 \in 0 .. m - 1 /\ h2 \in 0 .. Chnls - 1
         /\ Bang(m, s, q2) = IF h + 1 < Chnls THEN Bang(m, s, q)
                             ELSE IF Bang(m, s, q) = m - 1 THEN 0 ELSE Bang(m, s, q) + 1
         /\ ~Earlier(m, s, <<q, h>>, q, h)
         /\ LastOne(m, s, q, h) =>
              \A c \in Channels(m) :
                ~Earlier(m, s, c, q2, h2) /\ (Earlier(m, s, c, q, h) \/ c = <<q, h>>)
         /\ ~LastOne(m, s, q, h) =>
              \A c \in Channels(m) :
                Earlier(m, s, c, q2, h2) <=> Earlier(m, s, c, q, h) \/ c = <<q, h>>
<1> USE SizesAre
<1>1. q2 \in 0 .. m - 1 /\ h2 \in 0 .. Chnls - 1
  BY NextBang DEF Follows
<1>2. Bang(m, s, q2) = IF h + 1 < Chnls THEN Bang(m, s, q)
                       ELSE IF Bang(m, s, q) = m - 1 THEN 0 ELSE Bang(m, s, q) + 1
  BY NextBang DEF Follows
<1>3. /\ Bang(m, s, q) \in 0 .. m - 1
      /\ \A p \in 0 .. m - 1 : Bang(m, s, p) \in 0 .. m - 1
                               /\ (Bang(m, s, p) = Bang(m, s, q) <=> p = q)
                               /\ (Bang(m, s, p) = Bang(m, s, q2) <=> p = q2)
  <2>1. /\ \A p \in 0 .. m - 1 : Bang(m, s, p) \in 0 .. m - 1
        /\ \A p, r \in 0 .. m - 1 : Bang(m, s, p) = Bang(m, s, r) => p = r
    BY Bangs
  <2> QED
    BY <1>1, <2>1
<1>4. ~Earlier(m, s, <<q, h>>, q, h)
  BY <1>3 DEF Earlier
<1>5. ASSUME NEW c \in Channels(m), LastOne(m, s, q, h)
      PROVE  ~Earlier(m, s, c, q2, h2) /\ (Earlier(m, s, c, q, h) \/ c = <<q, h>>)
  <2>1. c[1] \in 0 .. m - 1 /\ c[2] \in 0 .. Chnls - 1 /\ c = <<c[1], c[2]>>
    BY ChannelIs
  <2>2. Bang(m, s, q2) = 0 /\ h2 = 0 /\ h = Chnls - 1 /\ Bang(m, s, q) = m - 1
    BY <1>2, <1>5 DEF LastOne, Follows
  <2>3. Bang(m, s, c[1]) \in 0 .. m - 1 /\ (Bang(m, s, c[1]) = Bang(m, s, q) <=> c[1] = q)
    BY <1>3, <2>1
  <2> QED
    BY <2>1, <2>2, <2>3 DEF Earlier
<1>6. ASSUME NEW c \in Channels(m), ~LastOne(m, s, q, h)
      PROVE  Earlier(m, s, c, q2, h2) <=> Earlier(m, s, c, q, h) \/ c = <<q, h>>
  <2>1. c[1] \in 0 .. m - 1 /\ c[2] \in 0 .. Chnls - 1 /\ c = <<c[1], c[2]>>
    BY ChannelIs
  <2>2. /\ Bang(m, s, c[1]) \in 0 .. m - 1
        /\ Bang(m, s, c[1]) = Bang(m, s, q) <=> c[1] = q
        /\ Bang(m, s, c[1]) = Bang(m, s, q2) <=> c[1] = q2
    BY <1>3, <2>1
  <2>3. CASE h + 1 < Chnls
    <3>1. h2 = h + 1 /\ q2 = q
      BY <2>3 DEF Follows
    <3>2. c = <<q, h>> <=> c[1] = q /\ c[2] = h
      BY <2>1
    <3> QED
      BY <2>1, <2>2, <3>1, <3>2 DEF Earlier
  <2>4. CASE ~(h + 1 < Chnls)
    <3>1. h2 = 0 /\ h = Chnls - 1 /\ Bang(m, s, q2) = Bang(m, s, q) + 1
      BY <1>2, <1>6, <2>4 DEF Follows, LastOne
    <3>2. c = <<q, h>> <=> c[1] = q /\ c[2] = h
      BY <2>1
    <3> QED
      BY <1>3, <2>1, <2>2, <3>1, <3>2 DEF Earlier
  <2> QED
    BY <2>3, <2>4
<1> QED
  BY <1>1, <1>2, <1>4, <1>5, <1>6

\* The number of channels before it grows with them and reaches that of all with the last one.
LEMMA CountAdvances ==
  ASSUME NEW m \in Nat, NEW s \in 0 .. m - 1, NEW q \in 0 .. m - 1, NEW h \in 0 .. Chnls - 1,
         NEW q2, NEW h2, Follows(m, q, h, q2, h2)
  PROVE  /\ (Bang(m, s, q) * Chnls) + h + 1 = m * Chnls <=> LastOne(m, s, q, h)
         /\ ~LastOne(m, s, q, h) =>
              (Bang(m, s, q2) * Chnls) + h2 = (Bang(m, s, q) * Chnls) + h + 1
<1> USE SizesAre
<1>1. PICK b \in 0 .. m - 1 : b = Bang(m, s, q)
  BY Bangs
<1>2. Bang(m, s, q2) = IF h + 1 < Chnls THEN b ELSE IF b = m - 1 THEN 0 ELSE b + 1
  BY <1>1, NextBang DEF Follows
<1>3. (b * Chnls) + h + 1 = m * Chnls <=> h + 1 >= Chnls /\ b = m - 1
  <2>1. PICK r \in Nat : r = m - 1 - b
    OBVIOUS
  <2>2. PICK x, y, z \in Int : x = b * Chnls /\ y = m * Chnls /\ z = r * Chnls
    OBVIOUS
  <2>3. y = x + z + Chnls
    <3>1. m = b + r + 1
      BY <2>1
    <3>2. (b + r + 1) * Chnls = (b * Chnls) + (r * Chnls) + Chnls
      OBVIOUS
    <3> QED
      BY <2>2, <3>1, <3>2
  <2>4. z >= 0 /\ (r = 0 => z = 0) /\ (r # 0 => z >= 1)
    BY <2>1, <2>2
  <2>5. x + h + 1 = y <=> h + 1 >= Chnls /\ r = 0
    BY <2>2, <2>3, <2>4
  <2> QED
    BY <2>1, <2>2, <2>5
<1>4. ASSUME ~(h + 1 >= Chnls /\ b = m - 1)
      PROVE  (Bang(m, s, q2) * Chnls) + h2 = (b * Chnls) + h + 1
  <2>1. CASE h + 1 < Chnls
    BY <1>2, <2>1 DEF Follows
  <2>2. CASE ~(h + 1 < Chnls)
    <3>1. Bang(m, s, q2) = b + 1 /\ h2 = 0 /\ h + 1 = Chnls
      BY <1>2, <1>4, <2>2 DEF Follows
    <3>2. (b + 1) * Chnls = (b * Chnls) + Chnls
      OBVIOUS
    <3> QED
      BY <3>1, <3>2
  <2> QED
    BY <2>1, <2>2
<1> QED
  BY <1>1, <1>3, <1>4 DEF LastOne

LEMMA RemainderAnd ==
  ASSUME NEW m \in Nat, m > 0, NEW a \in Int
  PROVE  ((a % m) + 1) % m = (a + 1) % m
<1>1. PICK q \in Int : a = (m * q) + (a % m)
  BY Divides
<1>2. a % m \in Int
  BY Divides
<1>3. PICK r \in Int : r = a % m
  BY <1>2
<1>4. (a + 1) - (r + 1) = m * q
  BY <1>1, <1>3
<1>5. (a + 1) % m = (r + 1) % m
  <2>1. a + 1 \in Int /\ r + 1 \in Int
    OBVIOUS
  <2> QED
    BY <1>4, <2>1, SameRemainder
<1> QED
  BY <1>3, <1>5

LEMMA SteadyIs ==
  ASSUME NEW m \in Modulos, NEW s \in 0 .. m - 1, NEW k \in 0 .. Ascans - 1,
         inputCnt \in [Channels(MaxSeq) -> 0 .. Ascans - 1],
         Undisturbed(m), SentWhole(m), InRound(m, s, k, NowSeq, NowCh)
  PROVE  SteadyInv
BY DEF SteadyInv

\* At first no channel has had a reading.
LEMMA SteadyStarts == InitIdata => SteadyInv
<1> SUFFICES ASSUME InitIdata PROVE SteadyInv
  OBVIOUS
<1> USE SizesAre
<1>1. PICK m \in Modulos, s \in 0 .. MaxSeq - 1 :
        s < m /\ board = [start |-> s, modulo |-> m, glitch |-> 0]
  BY DEF InitIdata
<1>2. m \in Nat /\ s \in 0 .. m - 1
  BY <1>1
<1>3. DOMAIN Empty = {}
  BY DEF Empty
<1>4. inputCnt \in [Channels(MaxSeq) -> 0 .. Ascans - 1]
  BY DEF InitIdata
<1>5. packet = None /\ ~InPacket /\ NowSeq = s /\ NowCh = 0
  BY <1>1 DEF InitIdata, InPacket, NowSeq, NowCh
<1>6. Undisturbed(m) /\ SentWhole(m)
  BY <1>1, <1>2, <1>3, <1>5 DEF InitIdata, Undisturbed, SentWhole
<1>7. \A c \in Channels(m) : c \in Channels(MaxSeq) /\ ~Earlier(m, s, c, s, 0)
  <2> SUFFICES ASSUME NEW c \in Channels(m) PROVE c \in Channels(MaxSeq) /\ ~Earlier(m, s, c, s, 0)
    OBVIOUS
  <2>1. c[1] \in 0 .. m - 1 /\ c[2] \in 0 .. Chnls - 1 /\ c = <<c[1], c[2]>>
    BY <1>2, ChannelIs
  <2>2. c \in Channels(MaxSeq)
    BY <1>2, <2>1 DEF Channels
  <2>3. Bang(m, s, c[1]) \in 0 .. m - 1 /\ Bang(m, s, s) = 0
    BY <1>2, <2>1, Bangs
  <2> QED
    BY <2>1, <2>2, <2>3 DEF Earlier
<1>8. InRound(m, s, 0, NowSeq, NowCh)
  <2>1. \A c \in Channels(m) : inputCnt[c] = 0
    BY <1>7 DEF InitIdata
  <2>2. DOMAIN slots = {}
    BY <1>3 DEF InitIdata
  <2> QED
    BY <1>5, <1>7, <2>1, <2>2 DEF InRound
<1>9. 0 \in 0 .. Ascans - 1
  OBVIOUS
<1> QED
  BY <1>2, <1>4, <1>6, <1>8, <1>9, SteadyIs

\* The board and the thread agree after the next reading.
LEMMA PlaceMoves ==
  ASSUME NEW m \in Modulos, Undisturbed(m), InLoop, IncStartCh, reading' = reading + 1,
         UNCHANGED <<board, packet, gnSeqModulo, m_nFullPacketChnls, m_bNiosGlitchCnt>>
  PROVE  /\ InPacket /\ InPacket' /\ m_Seq \in 0 .. m - 1 /\ m_Ch \in 0 .. Chnls - 1
         /\ NowSeq = m_Seq /\ NowCh = m_Ch /\ NowSeq' = m_Seq' /\ NowCh' = m_Ch'
         /\ gnSeqModulo = m /\ m_nFullPacketChnls = m * Chnls
         /\ Follows(m, m_Seq, m_Ch, m_Seq', m_Ch')
         /\ Undisturbed(m)'
<1> USE SizesAre
<1>1. packet # None /\ reading \in Nat /\ reading >= 1 /\ reading <= SeqPerPacket * Chnls
  BY DEF InLoop, Undisturbed
<1>2. InPacket /\ InPacket'
  BY <1>1 DEF InPacket
<1>3. /\ gnSeqModulo = m /\ m_nFullPacketChnls = m * Chnls
      /\ m_Seq \in 0 .. m - 1 /\ m_Ch \in 0 .. Chnls - 1
  BY <1>2 DEF Undisturbed
<1>4. PICK b \in 0 .. SeqPerPacket :
        reading = (b * Chnls) + m_Ch + 1 /\ m_Seq = (packet.start + b) % m
  BY <1>2 DEF Undisturbed
<1>5. NowSeq = m_Seq /\ NowCh = m_Ch /\ NowSeq' = m_Seq' /\ NowCh' = m_Ch'
  BY <1>2 DEF NowSeq, NowCh
<1>6. Follows(m, m_Seq, m_Ch, m_Seq', m_Ch')
  BY <1>3 DEF Follows, IncStartCh, MainBangOver
<1>7. m_Seq' \in 0 .. m - 1 /\ m_Ch' \in 0 .. Chnls - 1
  BY <1>3, <1>6, NextBang DEF Follows
<1>8. b < SeqPerPacket
  BY <1>1, <1>3, <1>4
<1>9. packet.start \in 0 .. m - 1
  BY <1>1 DEF Undisturbed
<1>10. \E d \in 0 .. SeqPerPacket :
         /\ reading' = (d * Chnls) + m_Ch' + 1
         /\ m_Seq' = (packet'.start + d) % m
         /\ d = SeqPerPacket => m_Ch' = 0
  <2>1. CASE m_Ch + 1 >= Chnls
    <3>1. m_Ch' = 0 /\ m_Seq' = (m_Seq + 1) % m /\ m_Ch + 1 = Chnls
      BY <1>3, <1>6, <2>1 DEF Follows
    <3>2. (b + 1) * Chnls = (b * Chnls) + Chnls
      OBVIOUS
    <3>3. (packet.start + b) + 1 = packet.start + (b + 1) /\ packet.start + b \in Int
      BY <1>9
    <3>4. m_Seq' = (packet.start + (b + 1)) % m
      <4>1. PICK a \in Int : a = packet.start + b
        BY <3>3
      <4>2. ((a % m) + 1) % m = (a + 1) % m
        <5>1. m \in Nat /\ m > 0
          OBVIOUS
        <5> QED
          BY <5>1, RemainderAnd
      <4> QED
        BY <1>4, <3>1, <3>3, <4>1, <4>2
    <3>5. reading' = ((b + 1) * Chnls) + m_Ch' + 1
      BY <1>3, <1>4, <3>1, <3>2
    <3> QED
      BY <1>8, <3>1, <3>4, <3>5
  <2>2. CASE ~(m_Ch + 1 >= Chnls)
    <3>1. m_Ch' = m_Ch + 1 /\ m_Seq' = m_Seq
      BY <1>6, <2>2 DEF Follows
    <3> QED
      BY <1>3, <1>4, <1>8, <3>1
  <2> QED
    BY <2>1, <2>2
<1>11. /\ board' \in [start : 0 .. m - 1, modulo : {m}, glitch : {0}]
       /\ m_bNiosGlitchCnt' = 0 /\ reading' \in Nat
       /\ packet' \in [start : 0 .. m - 1, modulo : {m}, glitch : {0}]
       /\ board'.start = (packet'.start + SeqPerPacket) % m
  BY <1>1 DEF Undisturbed
<1>12. Undisturbed(m)'
  BY <1>2, <1>3, <1>7, <1>10, <1>11 DEF Undisturbed
<1> QED
  BY <1>2, <1>3, <1>5, <1>6, <1>12

\* A reading inside the interval: the channel has had one more.
LEMMA ReadingSteady == SteadyInv /\ Reading => SteadyInv'
<1> SUFFICES ASSUME SteadyInv, Reading PROVE SteadyInv'
  OBVIOUS
<1> USE SizesAre
<1>1. PICK m \in Modulos : \E s \in 0 .. m - 1, k \in 0 .. Ascans - 1 :
        Undisturbed(m) /\ SentWhole(m) /\ InRound(m, s, k, NowSeq, NowCh)
  BY DEF SteadyInv
<1>2. PICK s \in 0 .. m - 1, k \in 0 .. Ascans - 1 :
        Undisturbed(m) /\ SentWhole(m) /\ InRound(m, s, k, NowSeq, NowCh)
  BY <1>1
<1>3. /\ InLoop /\ inputCnt[<<m_Seq, m_Ch>>] + 1 < Ascans
      /\ inputCnt' = [inputCnt EXCEPT ![<<m_Seq, m_Ch>>] = @ + 1]
      /\ slots' = Older(slots) /\ reading' = reading + 1 /\ IncStartCh
      /\ UNCHANGED <<board, packet, gnSeqModulo, m_nFullPacketChnls, m_bNiosGlitchCnt,
                     m_nStoredChannelCount, sent>>
  BY DEF Reading, outsideIdata, modulo
<1>4. /\ m_Seq \in 0 .. m - 1 /\ m_Ch \in 0 .. Chnls - 1 /\ NowSeq = m_Seq /\ NowCh = m_Ch
      /\ NowSeq' = m_Seq' /\ NowCh' = m_Ch' /\ Follows(m, m_Seq, m_Ch, m_Seq', m_Ch')
      /\ Undisturbed(m)'
  BY <1>2, <1>3, PlaceMoves
<1> DEFINE now == <<m_Seq, m_Ch>>
<1>5. /\ ~Earlier(m, s, now, m_Seq, m_Ch)
      /\ LastOne(m, s, m_Seq, m_Ch) =>
           \A c \in Channels(m) :
             ~Earlier(m, s, c, m_Seq', m_Ch') /\ (Earlier(m, s, c, m_Seq, m_Ch) \/ c = now)
      /\ ~LastOne(m, s, m_Seq, m_Ch) =>
           \A c \in Channels(m) :
             Earlier(m, s, c, m_Seq', m_Ch') <=> Earlier(m, s, c, m_Seq, m_Ch) \/ c = now
  <2>1. m \in Nat
    OBVIOUS
  <2> QED
    BY ZenonT(30), <1>4, <2>1, Advance
<1>6. now \in Channels(m) /\ Channels(m) \subseteq Channels(MaxSeq)
  BY <1>4 DEF Channels
<1>7. inputCnt \in [Channels(MaxSeq) -> 0 .. Ascans - 1]
  BY DEF SteadyInv
<1>8. inputCnt[now] = k /\ k + 1 < Ascans
  BY <1>2, <1>3, <1>4, <1>5, <1>6 DEF InRound
<1>9. /\ \A c \in Channels(m) : inputCnt[c] = IF Earlier(m, s, c, m_Seq, m_Ch) THEN k + 1 ELSE k
      /\ DOMAIN slots = {}
  BY <1>2, <1>4, <1>8 DEF InRound
<1>10. /\ inputCnt' \in [Channels(MaxSeq) -> 0 .. Ascans - 1]
       /\ \A c \in Channels(m) : inputCnt'[c] = IF c = now THEN k + 1 ELSE inputCnt[c]
  <2> HIDE DEF now
  <2>1. inputCnt' = [inputCnt EXCEPT ![now] = k + 1] /\ k + 1 \in 0 .. Ascans - 1
    BY <1>3, <1>8 DEF now
  <2> QED
    BY <1>6, <1>7, <2>1
<1> HIDE DEF now
<1>11. \A c \in Channels(m) :
         inputCnt'[c] = IF Earlier(m, s, c, m_Seq, m_Ch) \/ c = now THEN k + 1 ELSE k
  BY <1>9, <1>10
<1>12. DOMAIN slots' = {}
  BY <1>3, <1>9 DEF Older
<1>13. SentWhole(m)'
  BY <1>2, <1>3 DEF SentWhole
<1>14. CASE LastOne(m, s, m_Seq, m_Ch)
  <2>1. \A c \in Channels(m) : inputCnt'[c] = k + 1 /\ ~Earlier(m, s, c, m_Seq', m_Ch')
    BY <1>5, <1>11, <1>14
  <2>2. {c \in Channels(m) : (k + 1) + 1 = Ascans /\ Earlier(m, s, c, m_Seq', m_Ch')} = {}
    BY <2>1
  <2>3. InRound(m, s, k + 1, NowSeq, NowCh)'
    BY <1>4, <1>12, <2>1, <2>2 DEF InRound
  <2>4. k + 1 \in 0 .. Ascans - 1
    BY <1>8
  <2> QED
    BY <1>4, <1>10, <1>13, <2>3, <2>4 DEF SteadyInv
<1>15. CASE ~LastOne(m, s, m_Seq, m_Ch)
  <2>1. \A c \in Channels(m) :
          inputCnt'[c] = IF Earlier(m, s, c, m_Seq', m_Ch') THEN k + 1 ELSE k
    BY <1>5, <1>11, <1>15
  <2>2. {c \in Channels(m) : k + 1 = Ascans /\ Earlier(m, s, c, m_Seq', m_Ch')} = {}
    BY <1>8
  <2>3. InRound(m, s, k, NowSeq, NowCh)'
    BY <1>4, <1>8, <1>12, <2>1, <2>2 DEF InRound
  <2> QED
    BY <1>4, <1>10, <1>13, <2>3 DEF SteadyInv
<1> QED
  BY <1>14, <1>15

\* The last one: the channel fills its slot, and the last channel of the round completes the
\* packet.
LEMMA LastReadingSteady == SteadyInv /\ LastReading => SteadyInv'
<1> SUFFICES ASSUME SteadyInv, LastReading PROVE SteadyInv'
  OBVIOUS
<1> USE SizesAre
<1>1. PICK m \in Modulos : \E s \in 0 .. m - 1, k \in 0 .. Ascans - 1 :
        Undisturbed(m) /\ SentWhole(m) /\ InRound(m, s, k, NowSeq, NowCh)
  BY DEF SteadyInv
<1>2. PICK s \in 0 .. m - 1, k \in 0 .. Ascans - 1 :
        Undisturbed(m) /\ SentWhole(m) /\ InRound(m, s, k, NowSeq, NowCh)
  BY <1>1
<1> DEFINE now == <<m_Seq, m_Ch>>
           new == AddToIdataPacket(now)
           full == new.count = m_nFullPacketChnls
<1>3. /\ InLoop /\ inputCnt[now] + 1 >= Ascans
      /\ inputCnt' = [inputCnt EXCEPT ![now] = 0]
      /\ m_nStoredChannelCount' = new.count
      /\ slots' = IF full THEN Empty ELSE Older(new.slots)
      /\ sent' = IF full THEN new.slots ELSE sent
      /\ reading' = reading + 1 /\ IncStartCh
      /\ UNCHANGED <<board, packet, gnSeqModulo, m_nFullPacketChnls, m_bNiosGlitchCnt>>
  BY DEF LastReading, outsideIdata, modulo
<1>4. /\ m_Seq \in 0 .. m - 1 /\ m_Ch \in 0 .. Chnls - 1 /\ NowSeq = m_Seq /\ NowCh = m_Ch
      /\ NowSeq' = m_Seq' /\ NowCh' = m_Ch' /\ Follows(m, m_Seq, m_Ch, m_Seq', m_Ch')
      /\ Undisturbed(m)' /\ m_nFullPacketChnls = m * Chnls
  BY <1>2, <1>3, PlaceMoves
<1>5. /\ ~Earlier(m, s, now, m_Seq, m_Ch)
      /\ LastOne(m, s, m_Seq, m_Ch) =>
           \A c \in Channels(m) :
             ~Earlier(m, s, c, m_Seq', m_Ch') /\ (Earlier(m, s, c, m_Seq, m_Ch) \/ c = now)
      /\ ~LastOne(m, s, m_Seq, m_Ch) =>
           \A c \in Channels(m) :
             Earlier(m, s, c, m_Seq', m_Ch') <=> Earlier(m, s, c, m_Seq, m_Ch) \/ c = now
      /\ Bang(m, s, m_Seq') = IF m_Ch + 1 < Chnls THEN Bang(m, s, m_Seq)
                              ELSE IF Bang(m, s, m_Seq) = m - 1 THEN 0 ELSE Bang(m, s, m_Seq) + 1
  <2>1. m \in Nat
    OBVIOUS
  <2>2. /\ ~Earlier(m, s, now, m_Seq, m_Ch)
        /\ LastOne(m, s, m_Seq, m_Ch) =>
             \A c \in Channels(m) :
               ~Earlier(m, s, c, m_Seq', m_Ch') /\ (Earlier(m, s, c, m_Seq, m_Ch) \/ c = now)
        /\ ~LastOne(m, s, m_Seq, m_Ch) =>
             \A c \in Channels(m) :
               Earlier(m, s, c, m_Seq', m_Ch') <=> Earlier(m, s, c, m_Seq, m_Ch) \/ c = now
    BY ZenonT(30), <1>4, <2>1, Advance
  <2>3. Bang(m, s, m_Seq') = IF m_Ch + 1 < Chnls THEN Bang(m, s, m_Seq)
                             ELSE IF Bang(m, s, m_Seq) = m - 1 THEN 0 ELSE Bang(m, s, m_Seq) + 1
    BY <1>4, <2>1, NextBang DEF Follows
  <2> QED
    BY <2>2, <2>3
<1>6. now \in Channels(m) /\ Channels(m) \subseteq Channels(MaxSeq)
  BY <1>4 DEF Channels
<1>7. inputCnt \in [Channels(MaxSeq) -> 0 .. Ascans - 1]
  BY DEF SteadyInv
<1>8. k + 1 = Ascans
  BY <1>2, <1>3, <1>4, <1>5, <1>6 DEF InRound
<1>9. /\ \A c \in Channels(m) : inputCnt[c] = IF Earlier(m, s, c, m_Seq, m_Ch) THEN 0 ELSE k
      /\ DOMAIN slots = {c \in Channels(m) : Earlier(m, s, c, m_Seq, m_Ch)}
      /\ \A c \in DOMAIN slots : slots[c] = Bang(m, s, m_Seq) - Bang(m, s, c[1])
      /\ DOMAIN slots # {} => m_nStoredChannelCount = (Bang(m, s, m_Seq) * Chnls) + m_Ch
  BY <1>2, <1>4, <1>8 DEF InRound
<1>10. /\ inputCnt' \in [Channels(MaxSeq) -> 0 .. Ascans - 1]
       /\ \A c \in Channels(m) : inputCnt'[c] = IF c = now THEN 0 ELSE inputCnt[c]
  <2> HIDE DEF now, new
  <2> QED
    BY <1>3, <1>6, <1>7
<1>11. \A c \in Channels(m) :
         inputCnt'[c] = IF Earlier(m, s, c, m_Seq, m_Ch) \/ c = now THEN 0 ELSE k
  <2> HIDE DEF now, new
  <2> QED
    BY <1>9, <1>10
<1>12. new.count = (Bang(m, s, m_Seq) * Chnls) + m_Ch + 1
  <2>1. CASE DOMAIN slots # {}
    BY <1>9, <2>1 DEF AddToIdataPacket
  <2>2. CASE DOMAIN slots = {}
    <3>1. m_Seq = s /\ m_Ch = 0
      <4>1. <<s, 0>> \in Channels(m) /\ ~Earlier(m, s, <<s, 0>>, m_Seq, m_Ch)
        <5>1. <<s, 0>> \in Channels(m)
          BY DEF Channels
        <5> QED
          BY <1>9, <2>2, <5>1
      <4>2. ~(Bang(m, s, s) < Bang(m, s, m_Seq)) /\ ~(s = m_Seq /\ 0 < m_Ch)
        BY <4>1 DEF Earlier
      <4>3. m \in Nat
        OBVIOUS
      <4>4. Bang(m, s, s) = 0 /\ Bang(m, s, m_Seq) \in 0 .. m - 1
        BY <1>4, <4>3, Bangs
      <4>5. Bang(m, s, m_Seq) = Bang(m, s, s)
        BY <4>2, <4>4
      <4>6. m_Seq = s
        BY <1>4, <4>3, <4>5, Bangs
      <4> QED
        BY <1>4, <4>2, <4>6
    <3>2. Bang(m, s, m_Seq) = 0
      BY <3>1, Bangs
    <3>3. new.count = 1
      BY <2>2 DEF AddToIdataPacket
    <3> QED
      BY <3>1, <3>2, <3>3
  <2> QED
    BY <2>1, <2>2
<1>13. full <=> LastOne(m, s, m_Seq, m_Ch)
  <2> HIDE DEF new
  <2>1. (Bang(m, s, m_Seq) * Chnls) + m_Ch + 1 = m * Chnls <=> LastOne(m, s, m_Seq, m_Ch)
    BY <1>4, CountAdvances
  <2> QED
    BY <1>4, <1>12, <2>1
<1>14. /\ DOMAIN new.slots = {c \in Channels(m) : Earlier(m, s, c, m_Seq, m_Ch) \/ c = now}
       /\ \A c \in DOMAIN new.slots : new.slots[c] = Bang(m, s, m_Seq) - Bang(m, s, c[1])
  <2>1. new.slots = [d \in {now} \cup DOMAIN slots |-> IF d = now THEN 0 ELSE slots[d]]
    BY DEF AddToIdataPacket
  <2>2. now[1] = m_Seq /\ Bang(m, s, m_Seq) \in Int
    BY <1>4, Bangs
  <2> HIDE DEF now, new
  <2>3. DOMAIN new.slots = {now} \cup DOMAIN slots
    BY <2>1
  <2>4. DOMAIN new.slots = {c \in Channels(m) : Earlier(m, s, c, m_Seq, m_Ch) \/ c = now}
    BY <1>6, <1>9, <2>3
  <2>5. ASSUME NEW c \in DOMAIN new.slots
        PROVE  new.slots[c] = Bang(m, s, m_Seq) - Bang(m, s, c[1])
    <3>1. CASE c = now
      BY <2>1, <2>2, <3>1
    <3>2. CASE c # now
      BY <1>9, <2>1, <2>3, <3>2
    <3> QED
      BY <3>1, <3>2
  <2> QED
    BY <2>4, <2>5
<1>15. ASSUME NEW c \in DOMAIN new.slots
       PROVE  c \in Channels(m) /\ Bang(m, s, c[1]) \in 0 .. m - 1 /\ new.slots[c] \in 0 .. m - 1
  <2> HIDE DEF now, new
  <2>1. c \in Channels(m)
    BY <1>14
  <2>2. c[1] \in 0 .. m - 1
    BY <2>1, ChannelIs
  <2>3. \A q \in 0 .. m - 1 : Bang(m, s, q) \in 0 .. m - 1
    BY Bangs
  <2>4. Bang(m, s, c[1]) <= Bang(m, s, m_Seq)
    <3>1. Earlier(m, s, c, m_Seq, m_Ch) \/ c = now
      BY <1>14
    <3>2. now[1] = m_Seq
      BY DEF now
    <3> QED
      BY <1>4, <2>2, <2>3, <3>1, <3>2 DEF Earlier
  <2> QED
    BY <1>4, <1>14, <2>1, <2>2, <2>3, <2>4
<1>16. CASE LastOne(m, s, m_Seq, m_Ch)
  <2> HIDE DEF now, new
  <2>1. \A c \in Channels(m) : inputCnt'[c] = 0 /\ ~Earlier(m, s, c, m_Seq', m_Ch')
    BY <1>5, <1>11, <1>16
  <2>2. DOMAIN slots' = {}
    BY <1>3, <1>13, <1>16 DEF Empty
  <2>3. {c \in Channels(m) : 0 + 1 = Ascans /\ Earlier(m, s, c, m_Seq', m_Ch')} = {}
    BY <2>1
  <2>4. InRound(m, s, 0, NowSeq, NowCh)'
    BY <1>4, <2>1, <2>2, <2>3 DEF InRound
  <2>5. DOMAIN new.slots = Channels(m)
    BY <1>5, <1>14, <1>16
  <2>6. SentWhole(m)'
    BY <1>3, <1>13, <1>15, <1>16, <2>5 DEF SentWhole
  <2>7. 0 \in 0 .. Ascans - 1
    OBVIOUS
  <2> QED
    BY <1>4, <1>10, <2>4, <2>6, <2>7 DEF SteadyInv
<1>17. CASE ~LastOne(m, s, m_Seq, m_Ch)
  <2>1. DOMAIN slots' = DOMAIN new.slots
    BY <1>3, <1>13, <1>17 DEF Older
  <2>2. ASSUME NEW c \in DOMAIN slots'
        PROVE  slots'[c] = Bang(m, s, m_Seq') - Bang(m, s, c[1])
    <3>1. new.slots[c] \in 0 .. m - 1 /\ Bang(m, s, c[1]) \in 0 .. m - 1
      BY <1>15, <2>1
    <3>2. new.slots[c] = Bang(m, s, m_Seq) - Bang(m, s, c[1])
      BY <1>14, <2>1
    <3> HIDE DEF now, new
    <3>3. new.slots[c] < MaxSeq
      BY <3>1
    <3>4. slots' = Older(new.slots)
      BY <1>3, <1>13, <1>17
    <3>5. slots'[c] = new.slots[c] + IF m_Ch + 1 < Chnls THEN 0 ELSE 1
      BY <1>4, <2>1, <3>1, <3>3, <3>4 DEF Older, MainBangOver
    <3>6. Bang(m, s, m_Seq') = Bang(m, s, m_Seq) + IF m_Ch + 1 < Chnls THEN 0 ELSE 1
      <4>1. Bang(m, s, m_Seq) \in 0 .. m - 1
        BY <1>4, Bangs
      <4>2. m_Ch + 1 < Chnls \/ Bang(m, s, m_Seq) # m - 1
        BY <1>4, <1>17 DEF LastOne
      <4> QED
        BY <1>4, <1>5, <4>1, <4>2
    <3>7. Bang(m, s, m_Seq) \in Int
      BY <1>4, Bangs
    <3> QED
      BY <3>1, <3>2, <3>5, <3>6, <3>7
  <2> HIDE DEF now, new
  <2>3. \A c \in Channels(m) :
          inputCnt'[c] = IF Earlier(m, s, c, m_Seq', m_Ch') THEN 0 ELSE k
    BY <1>5, <1>11, <1>17
  <2>4. DOMAIN slots' = {c \in Channels(m) : k + 1 = Ascans /\ Earlier(m, s, c, m_Seq', m_Ch')}
    BY <1>5, <1>8, <1>14, <1>17, <2>1
  <2>5. m_nStoredChannelCount' = (Bang(m, s, m_Seq') * Chnls) + m_Ch'
    <3>1. (Bang(m, s, m_Seq') * Chnls) + m_Ch' = (Bang(m, s, m_Seq) * Chnls) + m_Ch + 1
      BY <1>4, <1>17, CountAdvances
    <3> QED
      BY <1>3, <1>12, <3>1
  <2>6. InRound(m, s, k, NowSeq, NowCh)'
    BY <1>4, <1>8, <2>2, <2>3, <2>4, <2>5 DEF InRound
  <2>7. SentWhole(m)'
    BY <1>2, <1>3, <1>13, <1>17 DEF SentWhole
  <2> QED
    BY <1>4, <1>10, <2>6, <2>7 DEF SteadyInv
<1> QED
  BY <1>16, <1>17

\* A packet begins where the last one ended; the partial packet stays.
LEMMA StartPacketSteady == SteadyInv /\ StartPacket => SteadyInv'
<1> SUFFICES ASSUME SteadyInv, StartPacket PROVE SteadyInv'
  OBVIOUS
<1> USE SizesAre
<1>1. PICK m \in Modulos : \E s \in 0 .. m - 1, k \in 0 .. Ascans - 1 :
        Undisturbed(m) /\ SentWhole(m) /\ InRound(m, s, k, NowSeq, NowCh)
  BY DEF SteadyInv
<1>2. PICK s \in 0 .. m - 1, k \in 0 .. Ascans - 1 :
        Undisturbed(m) /\ SentWhole(m) /\ InRound(m, s, k, NowSeq, NowCh)
  BY <1>1
<1>3. /\ packet # None /\ reading = 0 /\ m_Seq' = packet.start /\ m_Ch' = 0
      /\ slots' = IF Glitched \/ NewModulo THEN Empty ELSE slots
      /\ m_bNiosGlitchCnt' = IF Glitched THEN packet.glitch
                             ELSE IF NewModulo /\ DOMAIN slots # {}
                                  THEN (m_bNiosGlitchCnt + 1) % 256 ELSE m_bNiosGlitchCnt
      /\ gnSeqModulo' = packet.modulo /\ m_nFullPacketChnls' = packet.modulo * Chnls
      /\ reading' = 1
      /\ UNCHANGED <<board, packet, inputCnt, m_nStoredChannelCount, sent>>
  BY DEF StartPacket, outsideIdata
<1>4. /\ packet.start \in 0 .. m - 1 /\ packet.modulo = m /\ packet.glitch = 0
      /\ m_bNiosGlitchCnt = 0 /\ (DOMAIN slots # {} => gnSeqModulo = m)
      /\ board.start = (packet.start + SeqPerPacket) % m
      /\ board \in [start : 0 .. m - 1, modulo : {m}, glitch : {0}]
      /\ packet \in [start : 0 .. m - 1, modulo : {m}, glitch : {0}]
  BY <1>2, <1>3 DEF Undisturbed
<1>5. ~Glitched /\ (NewModulo => DOMAIN slots = {})
  BY <1>4 DEF Glitched, NewModulo
<1>6. DOMAIN slots' = DOMAIN slots /\ \A c \in DOMAIN slots : slots'[c] = slots[c]
  BY <1>3, <1>5 DEF Empty
<1>7. InPacket' /\ NowSeq' = NowSeq /\ NowCh' = NowCh
  BY <1>3 DEF InPacket, NowSeq, NowCh
<1>8. \E b \in 0 .. SeqPerPacket :
        /\ reading' = (b * Chnls) + m_Ch' + 1
        /\ m_Seq' = (packet'.start + b) % m
        /\ b = SeqPerPacket => m_Ch' = 0
  <2>1. packet.start = (m * 0) + packet.start /\ packet.start \in Int
    BY <1>4
  <2>2. packet.start % m = packet.start
    <3>1. m \in Nat /\ m > 0
      OBVIOUS
    <3> QED
      BY <1>4, <2>1, <3>1, Remainder
  <2>3. 0 \in 0 .. SeqPerPacket /\ 0 * Chnls = 0 /\ packet.start + 0 = packet.start
    BY <1>4
  <2> QED
    BY <1>3, <2>2, <2>3
<1>9. Undisturbed(m)'
  <2>1. m_Seq' \in 0 .. m - 1 /\ m_Ch' \in 0 .. Chnls - 1 /\ reading' \in Nat
    BY <1>3, <1>4
  <2>2. m_bNiosGlitchCnt' = 0
    BY <1>3, <1>4, <1>5
  <2>3. gnSeqModulo' = m /\ m_nFullPacketChnls' = m * Chnls
    BY <1>3, <1>4
  <2> QED
    BY <1>3, <1>4, <1>8, <2>1, <2>2, <2>3 DEF Undisturbed
<1>10. InRound(m, s, k, NowSeq, NowCh)'
  <2>1. \A c \in DOMAIN slots' : slots'[c] = slots[c]
    BY <1>6
  <2> QED
    BY <1>2, <1>3, <1>6, <1>7, <2>1 DEF InRound
<1>11. SentWhole(m)' /\ inputCnt' \in [Channels(MaxSeq) -> 0 .. Ascans - 1]
  BY <1>2, <1>3 DEF SentWhole, SteadyInv
<1> QED
  BY <1>9, <1>10, <1>11 DEF SteadyInv

\* A packet ends where the next one begins, whether it has arrived or not.
LEMMA PacketEndsSteady == SteadyInv /\ (EndPacket \/ Arrive) => SteadyInv'
<1> SUFFICES ASSUME SteadyInv, EndPacket \/ Arrive PROVE SteadyInv'
  OBVIOUS
<1> USE SizesAre
<1>1. PICK m \in Modulos : \E s \in 0 .. m - 1, k \in 0 .. Ascans - 1 :
        Undisturbed(m) /\ SentWhole(m) /\ InRound(m, s, k, NowSeq, NowCh)
  BY DEF SteadyInv
<1>2. PICK s \in 0 .. m - 1, k \in 0 .. Ascans - 1 :
        Undisturbed(m) /\ SentWhole(m) /\ InRound(m, s, k, NowSeq, NowCh)
  BY <1>1
<1>3. UNCHANGED <<gnSeqModulo, m_nFullPacketChnls, m_bNiosGlitchCnt, inputCnt, slots,
                  m_nStoredChannelCount, sent>>
  BY DEF EndPacket, Arrive, modulo, assembly
<1>4. board \in [start : 0 .. m - 1, modulo : {m}, glitch : {0}] /\ board # None
  <2>1. board \in [start : 0 .. m - 1, modulo : {m}, glitch : {0}]
    BY <1>2 DEF Undisturbed
  <2>2. "start" \in DOMAIN board /\ "start" \notin DOMAIN None
    BY <2>1 DEF None
  <2> QED
    BY <2>1, <2>2
<1>5. Undisturbed(m)' /\ NowSeq' = NowSeq /\ NowCh' = NowCh
  <2>1. CASE EndPacket
    <3>1. /\ packet # None /\ reading > SeqPerPacket * Chnls
          /\ m_Seq' = (packet.start + SeqPerPacket) % gnSeqModulo
          /\ packet' = None /\ reading' = 0 /\ UNCHANGED board
      BY <2>1 DEF EndPacket, outsideIdata
    <3>2. InPacket /\ ~InPacket'
      BY <1>2, <3>1 DEF InPacket, Undisturbed
    <3>3. PICK b \in 0 .. SeqPerPacket :
            /\ reading = (b * Chnls) + m_Ch + 1
            /\ m_Seq = (packet.start + b) % m
            /\ b = SeqPerPacket => m_Ch = 0
      BY <1>2, <3>2 DEF Undisturbed
    <3>4. m_Ch \in 0 .. Chnls - 1
      BY <1>2, <3>2 DEF Undisturbed
    <3>5. b = SeqPerPacket
      <4> SUFFICES ASSUME b + 1 <= SeqPerPacket PROVE FALSE
        OBVIOUS
      <4>1. PICK r \in Nat : r = SeqPerPacket - (b + 1)
        OBVIOUS
      <4>2. SeqPerPacket = b + 1 + r
        BY <4>1
      <4>3. (b + 1 + r) * Chnls = (b * Chnls) + Chnls + (r * Chnls) /\ r * Chnls >= 0
        OBVIOUS
      <4> QED
        BY <3>1, <3>3, <3>4, <4>2, <4>3
    <3>6. m_Ch = 0 /\ m_Seq = (packet.start + SeqPerPacket) % m
      BY <3>3, <3>5
    <3>7. m_Seq = board.start
      BY <1>2, <3>1, <3>6 DEF Undisturbed
    <3>8. NowSeq' = NowSeq /\ NowCh' = NowCh
      BY <3>1, <3>2, <3>6, <3>7 DEF NowSeq, NowCh
    <3>9. Undisturbed(m)'
      BY <1>2, <1>3, <3>1, <3>2 DEF Undisturbed
    <3> QED
      BY <3>8, <3>9
  <2>2. CASE Arrive
    <3>1. /\ packet = None /\ packet' = board /\ reading' = 0
          /\ board' = [board EXCEPT !.start = NextStart]
      BY <2>2 DEF Arrive
    <3>2. ~InPacket /\ ~InPacket'
      BY <3>1 DEF InPacket
    <3>3. NowSeq' = NowSeq /\ NowCh' = NowCh
      BY <1>4, <3>1, <3>2 DEF NowSeq, NowCh
    <3>4. NextStart = (board.start + SeqPerPacket) % m /\ NextStart \in 0 .. m - 1
      <4>1. board.modulo = m /\ board.start + SeqPerPacket \in Int /\ m \in Nat /\ m > 0
        BY <1>4
      <4> QED
        BY <4>1, Divides DEF NextStart
    <3>5. /\ board' \in [start : 0 .. m - 1, modulo : {m}, glitch : {0}]
          /\ board'.start = (packet'.start + SeqPerPacket) % m
      BY <1>4, <3>1, <3>4
    <3> QED
      BY <1>2, <1>3, <1>4, <3>1, <3>2, <3>3, <3>5 DEF Undisturbed
  <2> QED
    BY <2>1, <2>2
<1>6. InRound(m, s, k, NowSeq, NowCh)'
  BY <1>2, <1>3, <1>5 DEF InRound
<1>7. SentWhole(m)' /\ inputCnt' \in [Channels(MaxSeq) -> 0 .. Ascans - 1]
  BY <1>2, <1>3 DEF SentWhole, SteadyInv
<1> QED
  BY <1>5, <1>6, <1>7 DEF SteadyInv

\* Without faults the board, the network and the command thread do nothing else.
LEMMA SteadyKeeps == Faults = {} /\ SteadyInv /\ [NextIdata]_idata => SteadyInv'
<1> SUFFICES ASSUME Faults = {}, SteadyInv, [NextIdata]_idata PROVE SteadyInv'
  OBVIOUS
<1>1. ~(Lose \/ Glitch \/ SetModulo \/ WFifoInit)
  BY DEF Lose, Glitch, SetModulo, WFifoInit, Fault
<1>2. CASE UNCHANGED idata
  BY <1>2 DEF idata, outsideIdata, place, modulo, assembly, SteadyInv, Undisturbed, SentWhole, InRound,
              InPacket, NowSeq, NowCh
<1> QED
  BY <1>1, <1>2, ReadingSteady, LastReadingSteady, StartPacketSteady, PacketEndsSteady
     DEF NextIdata, ProcessInstrumentData

\* A packet with the channels of all sequences, none older than a round.
LEMMA SteadyMeans == SteadyInv => WholeRound
<1> SUFFICES ASSUME SteadyInv PROVE WholeRound
  OBVIOUS
<1> USE SizesAre
<1>1. PICK m \in Modulos : SentWhole(m)
  BY DEF SteadyInv
<1>2. AllChannels
  BY <1>1 DEF SentWhole, AllChannels
<1>3. ASSUME DOMAIN sent # {}, NEW c \in DOMAIN sent
      PROVE  sent[c] * Chnls < Cardinality(DOMAIN sent)
  <2>1. DOMAIN sent = Channels(m) /\ sent[c] \in 0 .. m - 1
    BY <1>1, <1>3 DEF SentWhole
  <2>2. IsFiniteSet(0 .. m - 1) /\ Cardinality(0 .. m - 1) = m
    <3>1. m \in Int /\ m - 1 \in Int /\ ~(0 > m - 1)
      OBVIOUS
    <3> QED
      BY <3>1, FS_Interval
  <2>3. IsFiniteSet(0 .. Chnls - 1) /\ Cardinality(0 .. Chnls - 1) = Chnls
    <3>1. Chnls - 1 \in Int /\ ~(0 > Chnls - 1)
      OBVIOUS
    <3> QED
      BY <3>1, FS_Interval
  <2>4. Cardinality(Channels(m)) = m * Chnls
    BY <2>2, <2>3, FS_Product DEF Channels
  <2>5. PICK x \in 0 .. m - 1, r \in Nat : x = sent[c] /\ m = x + 1 + r
    <3>1. m - 1 - sent[c] \in Nat /\ m = sent[c] + 1 + (m - 1 - sent[c])
      BY <2>1
    <3> QED
      BY <2>1, <3>1
  <2>6. (x + 1 + r) * Chnls = (x * Chnls) + Chnls + (r * Chnls) /\ r * Chnls >= 0
    OBVIOUS
  <2>7. x * Chnls < m * Chnls
    BY <2>5, <2>6
  <2> QED
    BY <2>1, <2>4, <2>5, <2>7
<1> QED
  BY <1>2, <1>3 DEF WholeRound, OneRound

\* For any numbers of sequences, channels and readings, and packets of any length: without
\* faults every packet sent to the PAG has the channels of all sequences of the board, and
\* they are of one round of the machine (ProcessInstrumentData and AddToIdataPacket).
THEOREM SteadyPacketsWhole ==
  ASSUME Faults = {}
  PROVE  SpecIdata => []WholeRound
<1>1. SteadyInv /\ [NextIdata]_idata => SteadyInv'
  BY SteadyKeeps
<1> QED
  BY <1>1, SteadyStarts, SteadyMeans, PTL DEF SpecIdata

\* What the steady part of the run does.
PartSteady == part = "steady" => SteadyInv

LEMMA PartSteadyKept ==
  ASSUME Faults = {}
  PROVE  PartSteady /\ [MCNext]_<<part, data, others>> => PartSteady'
<1> SUFFICES ASSUME PartSteady, [MCNext]_<<part, data, others>>, part' = "steady" PROVE SteadyInv'
  BY DEF PartSteady
<1>1. part = "steady"
  <2>1. part' = part
    BY DEF MCNext
  <2> QED
    BY <2>1
<1>2. SteadyInv
  BY <1>1 DEF PartSteady
<1>3. NextIdata \/ UNCHANGED idata
  <2>1. UNCHANGED data => UNCHANGED idata
    BY DEF data
  <2>2. UNCHANGED <<part, data, others>> => UNCHANGED data
    OBVIOUS
  <2>3. Filtering => UNCHANGED idata
    BY <1>1 DEF Filtering
  <2>4. Assembling => NextIdata
    BY <1>1 DEF Assembling
  <2>5. MCNext => Filtering \/ Assembling \/ UNCHANGED data
    BY DEF MCNext
  <2> QED
    BY <2>1, <2>2, <2>3, <2>4, <2>5
<1> QED
  BY <1>2, <1>3, SteadyKeeps

\* The same of the run.
THEOREM PartsSteadyWhole ==
  ASSUME Faults = {}
  PROVE  MCSpec => []SteadyWhole
<1>1. MCInit => PartSteady
  <2>1. MCInit /\ part = "steady" => InitIdata
    BY DEF MCInit
  <2> QED
    BY <2>1, SteadyStarts DEF PartSteady
<1>2. PartSteady => SteadyWhole
  BY SteadyMeans DEF PartSteady, SteadyWhole
<1> QED
  BY <1>1, <1>2, PartSteadyKept, PTL DEF MCSpec

-----------------------------------------------------------------------------
(* The start and the stop of the servers.                                  *)

\* Where a server can be.  Nothing has been made for it,
Unborn(s) ==
  /\ listener[s] = "none" /\ mail[s] = << >>
  /\ s \notin pSCM /\ s \notin pServerListenThread /\ s \notin nServerIsListening

\* or it works, with its object and its thread: the thread has its first message before it,
\* makes the socket listen, or waits for what comes;
Works(s) ==
  /\ s \in pSCM /\ s \in pServerListenThread
  /\ listener[s] = "listen" => (m_pListenSocket[s] = "open" <=> address[s] = "free")

Comes(s) ==
  Works(s) /\ listener[s] = "idle" /\ mail[s] = <<"init">> /\ s \notin nServerIsListening
Opens(s) ==
  Works(s) /\ listener[s] = "listen" /\ mail[s] = << >> /\ s \notin nServerIsListening
Ready(s) ==
  /\ Works(s) /\ listener[s] = "idle" /\ mail[s] = << >>
  /\ address[s] = "free" => s \in nServerIsListening

\* or it was given up while its thread was there, which the thread will learn of;
GivenUp(s) ==
  /\ s \notin pSCM /\ listener[s] = "idle" /\ mail[s] = <<"quit">>
  /\ s = 0 /\ gui = <<"start", 1>> /\ address[0] = "taken"

\* or its thread has been asked to stop,
Asked(s) ==
  /\ Works(s)
  /\ \/ listener[s] = "idle" /\ mail[s] \in {<<"init", "stop">>, <<"stop">>}
     \/ listener[s] = "listen" /\ mail[s] = <<"stop">>
     \/ listener[s] = "exit"

\* and has ended.
Ended(s) == s \notin pServerListenThread /\ listener[s] = "gone" /\ mail[s] = << >>

\* How far the GUI thread is with a server: before it starts it, after that, while it waits
\* for its end, and when it has done with it.
Before(s) == (gui[1] = "start" /\ s >= gui[2]) \/ (gui[1] = "wait" /\ s > gui[2])
Serves(s) ==
  \/ gui[1] = "run" \/ (gui[1] = "wait" /\ s <= gui[2]) \/ (gui[1] = "start" /\ s < gui[2])
  \/ (gui[1] = "destroy" /\ s >= gui[2]) \/ (gui[1] \in {"waitExit", "deleted"} /\ s > gui[2])
Stopping(s) == gui = <<"waitExit", s>>
Over(s) ==
  \/ gui[1] = "done" \/ (gui[1] \in {"destroy", "waitExit"} /\ s < gui[2])
  \/ (gui[1] = "deleted" /\ s <= gui[2])

\* The one follows from the other: the inductive invariant, for each server
ServerInv(s) ==
  /\ Before(s) \/ address[s] = "bad" => Unborn(s)
  /\ Serves(s) /\ address[s] # "bad" => Comes(s) \/ Opens(s) \/ Ready(s) \/ GivenUp(s)
  /\ Stopping(s) => address[s] # "bad" /\ s \in pSCM /\ (Asked(s) \/ Ended(s))
  /\ Over(s) /\ address[s] # "bad" => s \notin pSCM /\ Ended(s)

\* and for the GUI thread.
GuiInv ==
  /\ gui[1] \in {"wait", "run", "done"} => gui[2] = 0
  /\ gui[1] = "wait" => address[0] # "bad"
  /\ address[0] = "free" /\ gui = <<"start", 1>> => 0 \in nServerIsListening
  /\ broken # "no" => address[0] = "taken"

StartInv == GuiInv /\ \A s \in Start!Servers : ServerInv(s)

\* Types hold whether waits are long enough or not.
StartIInv == Start!TypeOK /\ (patiently => StartInv)

Msgs == {"init", "stop", "quit"}

\* The messages that are ever in a queue together.
LEMMA Mails ==
  /\ \A m \in Msgs : Head(<<m>>) = m /\ Tail(<<m>>) = << >>
  /\ \A m \in Msgs : Append(<< >>, m) = <<m>> /\ <<m>> # << >>
  /\ Head(<<"init", "stop">>) = "init" /\ Tail(<<"init", "stop">>) = <<"stop">>
  /\ Append(<<"init">>, "stop") = <<"init", "stop">> /\ <<"init", "stop">> # << >>
<1>1. /\ \A m \in Msgs : Head(<<m>>) = m /\ Tail(<<m>>) = << >>
      /\ \A m \in Msgs : Append(<< >>, m) = <<m>> /\ <<m>> # << >>
  BY DEF Msgs
<1>2. <<"init">> \in Seq({"init", "stop"})
  OBVIOUS
<1>3. <<"init", "stop">> \in Seq({"init", "stop"}) /\ Len(<<"init", "stop">>) = 2
  OBVIOUS
<1> DEFINE a == Append(<<"init">>, "stop")
<1>4. a \in Seq({"init", "stop"}) /\ Len(a) = 2 /\ a[1] = "init" /\ a[2] = "stop"
  BY <1>2
<1> HIDE DEF a
<1>5. \A k \in 1 .. 2 : a[k] = <<"init", "stop">>[k]
  BY <1>4
<1>6. a = <<"init", "stop">>
  BY <1>3, <1>4, <1>5, SeqEqual
<1>7. /\ Head(<<"init", "stop">>) = "init" /\ Tail(<<"init", "stop">>) = <<"stop">>
      /\ <<"init", "stop">> # << >>
  OBVIOUS
<1> QED
  BY <1>1, <1>6, <1>7 DEF a

\* Every step keeps the types.
LEMMA StartTypes == Start!TypeOK /\ [Start!Next]_(Start!startUp) => Start!TypeOK'
<1> SUFFICES ASSUME Start!TypeOK, [Start!Next]_(Start!startUp) PROVE Start!TypeOK'
  OBVIOUS
<1> USE DEF Start!TypeOK, Start!Fine, Start!Crash, Start!outside, Start!structure,
            Start!thread, Start!Moves, Start!Servers
<1>1. \A s \in Start!Servers :
        /\ mail[s] \in Seq(Msgs)
        /\ mail[s] # << >> => Tail(mail[s]) \in Seq(Msgs)
        /\ \A m \in Msgs : Append(mail[s], m) \in Seq(Msgs)
  BY DEF Msgs
<1>2. \A s \in Start!Servers : \A m \in Msgs : Start!Posted(s, m) \in [Start!Servers -> Seq(Msgs)]
  BY <1>1 DEF Start!Posted, Msgs
<1>3. ASSUME NEW s \in Start!Servers, Start!Gets(s, "init") \/ Start!Gets(s,
             "stop") \/ Start!Gets(s, "quit"), Start!Read(s)
      PROVE  mail' \in [Start!Servers -> Seq(Msgs)]
  BY <1>1, <1>3 DEF Start!Read, Start!Gets, Msgs
<1> USE DEF Msgs
<1>4. ASSUME NEW s \in Start!Servers, Start!InitListnerThread(s) PROVE Start!TypeOK'
  BY <1>3, <1>4 DEF Start!InitListnerThread, Start!Through
<1>5. ASSUME NEW s \in Start!Servers, Start!Listen(s) PROVE Start!TypeOK'
  BY <1>5 DEF Start!Listen, Start!Through
<1>6. ASSUME NEW s \in Start!Servers, Start!StopListnerThread(s) \/ Start!QuitPosted(s)
      PROVE Start!TypeOK'
  BY <1>3, <1>6 DEF Start!StopListnerThread, Start!QuitPosted, Start!Through,
     Start!DeleteSocket
<1>7. ASSUME NEW s \in Start!Servers, Start!ExitInstance(s) PROVE Start!TypeOK'
  BY <1>7 DEF Start!ExitInstance
<1>8. gui[2] \in Start!Servers /\ Start!After(gui[2]) \in {"start", "run"} \X Start!Servers
  BY DEF Start!After
<1>9. CASE Start!StartListenerThread
  <2>1. CASE address[gui[2]] = "bad"
    BY <1>8, <1>9, <2>1 DEF Start!StartListenerThread
  <2>2. CASE address[gui[2]] # "bad"
    <3>1. /\ mail' \in [Start!Servers -> Seq(Msgs)]
          /\ listener' \in [Start!Servers -> {"none", "idle", "listen", "exit", "gone"}]
      BY <1>2, <1>8, <1>9, <2>2 DEF Start!StartListenerThread
    <3>2. gui' \in {"start", "wait", "run"} \X Start!Servers
      BY <1>8, <1>9, <2>2 DEF Start!StartListenerThread
    <3> QED
      BY <1>8, <1>9, <2>2, <3>1, <3>2 DEF Start!StartListenerThread
  <2> QED
    BY <2>1, <2>2
<1>10. CASE Start!IsListening \/ Start!TimedOut
  BY SMTT(20), <1>2, <1>8, <1>10 DEF Start!IsListening, Start!TimedOut, Start!DeleteSCM
<1>11. CASE Start!PressShutdown
  BY <1>11 DEF Start!PressShutdown
<1>12. CASE Start!ServerShutDown
  BY <1>2, <1>8, <1>12 DEF Start!ServerShutDown
<1>13. CASE Start!DestroySCM
  <2>1. CASE gui[1] = "waitExit"
    BY <1>2, <1>8, <1>13, <2>1 DEF Start!DestroySCM, Start!DeleteSCM
  <2>2. CASE gui[1] = "deleted"
    BY <1>2, <1>8, <1>13, <2>2 DEF Start!DestroySCM
  <2> QED
    BY <1>13, <2>1, <2>2 DEF Start!DestroySCM
<1>14. CASE UNCHANGED Start!startUp
  BY <1>14 DEF Start!startUp
<1> QED
  BY <1>4, <1>5, <1>6, <1>7, <1>9, <1>10, <1>11, <1>12, <1>13, <1>14 DEF Start!Next,
     Start!ListenerThread

\* What a step leaves alone of one server.
Same(s) ==
  /\ listener'[s] = listener[s] /\ mail'[s] = mail[s] /\ m_pListenSocket'[s] = m_pListenSocket[s]
  /\ s \in pSCM' <=> s \in pSCM
  /\ s \in pServerListenThread' <=> s \in pServerListenThread
  /\ s \in nServerIsListening' <=> s \in nServerIsListening

\* The GUI thread is in one phase with each server,
LEMMA Phases ==
  ASSUME Start!TypeOK, NEW s \in Start!Servers
  PROVE  /\ Before(s) \/ Serves(s) \/ Stopping(s) \/ Over(s)
         /\ ~(Before(s) /\ (Serves(s) \/ Stopping(s) \/ Over(s)))
         /\ ~(Serves(s) /\ (Stopping(s) \/ Over(s))) /\ ~(Stopping(s) /\ Over(s))
<1>1. gui = <<gui[1], gui[2]>> /\ gui[2] \in Start!Servers /\ s \in 0 .. 1 /\ gui[2] \in 0 .. 1
      /\ gui[1] \in {"start", "wait", "run", "destroy", "waitExit", "deleted", "done"}
  BY DEF Start!TypeOK, Start!Servers
<1>2. Stopping(s) <=> gui[1] = "waitExit" /\ gui[2] = s
  BY <1>1 DEF Stopping
<1> QED
  BY <1>1, <1>2 DEF Before, Serves, Over

\* so that a server with an object or a thread is in one of four states.
LEMMA States ==
  ASSUME Start!TypeOK, NEW s \in Start!Servers, ServerInv(s)
  PROVE  \/ Unborn(s)
         \/ Serves(s) /\ address[s] # "bad" /\ (Comes(s) \/ Opens(s) \/ Ready(s) \/ GivenUp(s))
         \/ Stopping(s) /\ address[s] # "bad" /\ s \in pSCM /\ (Asked(s) \/ Ended(s))
         \/ Over(s) /\ address[s] # "bad" /\ s \notin pSCM /\ Ended(s)
BY Phases DEF ServerInv

\* What one listener thread does leaves the other server alone.
LEMMA OthersKept ==
  ASSUME StartInv, UNCHANGED <<gui, Start!outside>>, NEW s \in Start!Servers,
         \A t \in Start!Servers \ {s} : Same(t), ServerInv(s)', GuiInv'
  PROVE  StartInv'
<1>1. ASSUME NEW t \in Start!Servers \ {s} PROVE ServerInv(t)'
  BY <1>1 DEF StartInv, ServerInv, Same, Unborn, Works, Comes, Opens, Ready, GivenUp,
     Asked, Ended, Before, Serves, Stopping, Over, Start!outside
<1> QED
  BY <1>1 DEF StartInv

\* The steps of the listener thread.
LEMMA InitListnerThreadKeeps ==
  ASSUME Start!TypeOK, StartInv, broken = "no", NEW s \in Start!Servers,
         Start!InitListnerThread(s)
  PROVE StartInv'
<1> USE DEF Start!outside, Start!structure, Start!thread
<1>1. /\ ServerInv(s) /\ GuiInv
      /\ listener[s] = "idle" /\ mail[s] # << >> /\ Head(mail[s]) = "init"
  BY DEF StartInv, Start!InitListnerThread, Start!Gets
<1>2. \/ Serves(s) /\ address[s] # "bad" /\ Comes(s)
      \/ Stopping(s) /\ Asked(s) /\ address[s] # "bad" /\ mail[s] = <<"init", "stop">>
  BY <1>1, States, Mails DEF Unborn, Comes, Opens, Ready, GivenUp, Asked, Ended, Works, Msgs
<1>3. Works(s)
  BY <1>2 DEF Comes, Asked
<1>4. /\ mail' = [mail EXCEPT ![s] = Tail(mail[s])]
      /\ listener' = [listener EXCEPT ![s] = "listen"]
      /\ nServerIsListening' = nServerIsListening \ {s}
      /\ m_pListenSocket' =
           [m_pListenSocket EXCEPT ![s] = IF address[s] = "free" THEN "open" ELSE "dead"]
      /\ UNCHANGED <<pSCM, pServerListenThread, gui, Start!outside>>
      /\ broken' = "no"
  BY <1>3 DEF Start!InitListnerThread, Start!Through, Start!Read, Start!Moves, Start!Fine,
     Start!Crash, Works
<1>5. \A t \in Start!Servers \ {s} : Same(t)
  BY <1>4 DEF Start!TypeOK, Same
<1>6. /\ listener'[s] = "listen" /\ mail'[s] = Tail(mail[s]) /\ s \notin nServerIsListening'
      /\ m_pListenSocket'[s] = "open" <=> address[s] = "free"
  BY <1>4 DEF Start!TypeOK
<1>7. Works(s)'
  BY <1>3, <1>4, <1>6 DEF Works
<1>8. CASE Serves(s) /\ address[s] # "bad" /\ Comes(s)
  <2>1. Opens(s)'
    BY <1>6, <1>7, <1>8, Mails DEF Comes, Opens, Msgs
  <2>2. ServerInv(s)'
    BY <1>4, <1>8, <2>1, Phases DEF ServerInv, Before, Serves, Stopping, Over
  <2>3. GuiInv'
    BY <1>1, <1>4, <1>8 DEF GuiInv, Comes, Start!Servers
  <2> QED
    BY <1>4, <1>5, <2>2, <2>3, OthersKept
<1>9. CASE Stopping(s) /\ Asked(s) /\ address[s] # "bad" /\ mail[s] = <<"init", "stop">>
  <2>1. Asked(s)'
    BY <1>6, <1>7, <1>9, Mails DEF Asked
  <2>2. ServerInv(s)'
    BY <1>3, <1>4, <1>9, <2>1, Phases DEF ServerInv, Before, Serves, Stopping, Over, Works
  <2>3. GuiInv'
    BY <1>1, <1>4, <1>9 DEF GuiInv, Stopping
  <2> QED
    BY <1>4, <1>5, <2>2, <2>3, OthersKept
<1> QED
  BY <1>2, <1>8, <1>9

LEMMA ListenKeeps ==
  ASSUME Start!TypeOK, StartInv, broken = "no", NEW s \in Start!Servers, Start!Listen(s)
  PROVE StartInv'
<1> USE DEF Start!outside, Start!structure, Start!thread
<1>1. ServerInv(s) /\ GuiInv /\ listener[s] = "listen"
  BY DEF StartInv, Start!Listen
<1>2. \/ Serves(s) /\ address[s] # "bad" /\ Opens(s)
      \/ Stopping(s) /\ Asked(s) /\ address[s] # "bad" /\ mail[s] = <<"stop">>
  BY <1>1, States DEF Unborn, Comes, Opens, Ready, GivenUp, Asked, Ended, Works
<1>3. Works(s)
  BY <1>2 DEF Opens, Asked
<1>4. /\ listener' = [listener EXCEPT ![s] = "idle"]
      /\ nServerIsListening' = nServerIsListening \cup {t \in {s} : m_pListenSocket[t] = "open"}
      /\ UNCHANGED <<pSCM, pServerListenThread, m_pListenSocket, mail, gui, Start!outside>>
      /\ broken' = "no"
  BY <1>3 DEF Start!Listen, Start!Through, Start!Moves, Start!Fine, Start!Crash, Works
<1>5. \A t \in Start!Servers \ {s} : Same(t)
  BY <1>4 DEF Start!TypeOK, Same
<1>6. listener'[s] = "idle" /\ (address[s] = "free" => s \in nServerIsListening')
  BY <1>1, <1>3, <1>4 DEF Start!TypeOK, Works
<1>7. Works(s)'
  BY <1>3, <1>4, <1>6 DEF Works
<1>8. GuiInv'
  BY <1>1, <1>4 DEF GuiInv
<1>9. CASE Serves(s) /\ address[s] # "bad" /\ Opens(s)
  <2>1. Ready(s)'
    BY <1>4, <1>6, <1>7, <1>9 DEF Opens, Ready
  <2>2. ServerInv(s)'
    BY <1>4, <1>9, <2>1, Phases DEF ServerInv, Before, Serves, Stopping, Over
  <2> QED
    BY <1>4, <1>5, <1>8, <2>2, OthersKept
<1>10. CASE Stopping(s) /\ Asked(s) /\ address[s] # "bad" /\ mail[s] = <<"stop">>
  <2>1. Asked(s)'
    BY <1>4, <1>6, <1>7, <1>10 DEF Asked
  <2>2. ServerInv(s)'
    BY <1>3, <1>4, <1>10, <2>1, Phases DEF ServerInv, Before, Serves, Stopping, Over, Works
  <2> QED
    BY <1>4, <1>5, <1>8, <2>2, OthersKept
<1> QED
  BY <1>2, <1>9, <1>10

LEMMA StopListnerThreadKeeps ==
  ASSUME Start!TypeOK, StartInv, broken = "no", NEW s \in Start!Servers,
         Start!StopListnerThread(s)
  PROVE StartInv'
<1> USE DEF Start!outside, Start!structure, Start!thread
<1>1. /\ ServerInv(s) /\ GuiInv
      /\ listener[s] = "idle" /\ mail[s] # << >> /\ Head(mail[s]) = "stop"
  BY DEF StartInv, Start!StopListnerThread, Start!Gets
<1>2. Stopping(s) /\ Asked(s) /\ address[s] # "bad"
  BY <1>1, States, Mails DEF Unborn, Comes, Opens, Ready, GivenUp, Asked, Ended, Works, Msgs
<1>3. Works(s)
  BY <1>2 DEF Asked
<1>4. /\ mail' = [mail EXCEPT ![s] = Tail(mail[s])]
      /\ listener' = [listener EXCEPT ![s] = "exit"]
      /\ m_pListenSocket' = [m_pListenSocket EXCEPT ![s] = "none"]
      /\ UNCHANGED <<pSCM, pServerListenThread, nServerIsListening, gui, Start!outside>>
      /\ broken' = "no"
  BY <1>3 DEF Start!StopListnerThread, Start!Through, Start!Read, Start!Moves, Start!Fine,
     Start!Crash, Works, Start!DeleteSocket
<1>5. \A t \in Start!Servers \ {s} : Same(t)
  BY <1>4 DEF Start!TypeOK, Same
<1>6. listener'[s] = "exit"
  BY <1>4 DEF Start!TypeOK
<1>7. Works(s)' /\ Asked(s)'
  BY <1>3, <1>4, <1>6 DEF Works, Asked
<1>8. ServerInv(s)'
  BY <1>2, <1>3, <1>4, <1>7, Phases DEF ServerInv, Before, Serves, Stopping, Over, Works
<1>9. GuiInv'
  BY <1>1, <1>4 DEF GuiInv
<1> QED
  BY <1>4, <1>5, <1>8, <1>9, OthersKept

\* Only a server given up has a message to quit, and then its object is gone.
LEMMA QuitPostedKeeps ==
  ASSUME Start!TypeOK, StartInv, broken = "no", NEW s \in Start!Servers, Start!QuitPosted(s)
  PROVE StartInv'
<1> USE DEF Start!outside, Start!structure, Start!thread
<1>1. /\ ServerInv(s) /\ GuiInv
      /\ listener[s] = "idle" /\ mail[s] # << >> /\ Head(mail[s]) = "quit"
  BY DEF StartInv, Start!QuitPosted, Start!Gets
<1>2. GivenUp(s)
  BY <1>1, States, Mails DEF Unborn, Comes, Opens, Ready, GivenUp, Asked, Ended, Works, Msgs
<1>3. UNCHANGED <<pSCM, Start!structure, Start!thread, gui, Start!outside>>
  BY <1>2 DEF Start!QuitPosted, Start!Through, Start!Crash, GivenUp
<1>4. \A t \in Start!Servers \ {s} : Same(t)
  BY <1>3 DEF Same
<1>5. ServerInv(s)'
  BY <1>1, <1>3 DEF ServerInv, Unborn, Works, Comes, Opens, Ready, GivenUp, Asked, Ended,
     Before, Serves, Stopping, Over
<1>6. GuiInv'
  BY <1>1, <1>2, <1>3 DEF GuiInv, GivenUp
<1> QED
  BY <1>3, <1>4, <1>5, <1>6, OthersKept

LEMMA ExitInstanceKeeps ==
  ASSUME Start!TypeOK, StartInv, broken = "no", NEW s \in Start!Servers,
         Start!ExitInstance(s)
  PROVE StartInv'
<1> USE DEF Start!outside, Start!structure, Start!thread
<1>1. ServerInv(s) /\ GuiInv /\ listener[s] = "exit"
  BY DEF StartInv, Start!ExitInstance
<1>2. Stopping(s) /\ Asked(s) /\ address[s] # "bad" /\ s \in pSCM
  BY <1>1, States DEF Unborn, Comes, Opens, Ready, GivenUp, Asked, Ended, Works
<1>3. /\ mail' = [mail EXCEPT ![s] = << >>]
      /\ listener' = [listener EXCEPT ![s] = "gone"]
      /\ pServerListenThread' = pServerListenThread \ {s}
      /\ UNCHANGED <<pSCM, m_pListenSocket, nServerIsListening, gui, Start!outside>>
      /\ broken' = "no"
  BY DEF Start!ExitInstance, Start!Moves, Start!Fine
<1>4. \A t \in Start!Servers \ {s} : Same(t)
  BY <1>3 DEF Start!TypeOK, Same
<1>5. Ended(s)'
  BY <1>3 DEF Start!TypeOK, Ended
<1>6. ServerInv(s)'
  BY <1>2, <1>3, <1>5, Phases DEF ServerInv, Before, Serves, Stopping, Over
<1>7. GuiInv'
  BY <1>1, <1>3 DEF GuiInv
<1> QED
  BY <1>3, <1>4, <1>6, <1>7, OthersKept

\* A server that a step of the GUI thread leaves alone.
LEMMA LeftAlone ==
  ASSUME NEW t \in Start!Servers, ServerInv(t), Same(t), UNCHANGED address, ~GivenUp(t),
         Before(t)' => Before(t), Serves(t)' => Serves(t), ~Stopping(t)', Over(t)' => Over(t)
  PROVE  ServerInv(t)'
BY DEF ServerInv, Same, Unborn, Works, Comes, Opens, Ready, GivenUp, Asked, Ended

LEMMA Only01 == Start!Servers = {0, 1} /\ \A s \in Start!Servers : s = 0 \/ s = 1
BY DEF Start!Servers

\* The steps of the GUI thread.  If the wait before server 1 was long enough, server 0 has
\* learnt that it was given up, and the program has stopped.
LEMMA StartListenerThreadKeeps ==
  ASSUME Start!TypeOK, StartInv, patiently, broken = "no", Start!StartListenerThread
  PROVE StartInv'
<1> USE DEF Start!outside, Start!structure, Start!thread
<1>0. PICK s \in Start!Servers : s = gui[2]
  BY DEF Start!TypeOK
<1>1. gui[1] = "start" /\ s \in Start!Servers /\ gui = <<"start", s>>
  BY <1>0 DEF Start!StartListenerThread, Start!TypeOK
<1>2. GuiInv /\ \A t \in Start!Servers : ServerInv(t)
  BY DEF StartInv
<1>3. Before(s) /\ Unborn(s)
  BY <1>0, <1>1, <1>2 DEF Before, ServerInv, Start!Servers
<1>4. s = 1 => ~GivenUp(0)
  <2> SUFFICES ASSUME s = 1 PROVE ~GivenUp(0)
    OBVIOUS
  <2>1. Start!Quiet(0)
    BY <1>0 DEF Start!StartListenerThread, Start!WaitEnds, Start!Servers
  <2> QED
    BY <2>1, Mails DEF Start!Quiet, GivenUp, Msgs
<1>5. ~GivenUp(0) /\ ~GivenUp(1)
  BY <1>1, <1>4, Only01 DEF GivenUp
<1>6. broken' = "no" /\ UNCHANGED Start!outside
  BY <1>0 DEF Start!StartListenerThread, Start!Fine
<1>7. CASE address[s] = "bad"
  <2>1. gui' = Start!After(s) /\ UNCHANGED <<pSCM, Start!structure, Start!thread>>
    BY <1>0, <1>7 DEF Start!StartListenerThread
  <2>2. \A t \in Start!Servers : Same(t)
    BY <2>1 DEF Same
  <2>3. CASE s = 0
    <3>1. gui' = <<"start", 1>>
      BY <2>1, <2>3 DEF Start!After
    <3>2. \A t \in Start!Servers : Before(t)' \/ t = 0
      BY <3>1 DEF Before, Start!Servers
    <3>3. ServerInv(0)'
      BY <1>3, <1>6, <1>7, <2>1, <2>3, <3>1 DEF ServerInv, Unborn, Stopping
    <3>4. ServerInv(1)'
      BY <1>1, <1>2, <1>5, <1>6, <2>2, <2>3, <3>1, LeftAlone DEF Before, Serves, Stopping,
         Over, Start!Servers
    <3>5. GuiInv'
      BY <1>6, <1>7, <2>3, <3>1 DEF GuiInv
    <3> QED
      BY <3>3, <3>4, <3>5, Only01 DEF StartInv
  <2>4. CASE s = 1
    <3>1. gui' = <<"run", 0>>
      BY <2>1, <2>4 DEF Start!After
    <3>3. ServerInv(1)'
      BY <1>3, <1>6, <1>7, <2>1, <2>4, <3>1 DEF ServerInv, Unborn, Stopping
    <3>4. ServerInv(0)'
      BY <1>1, <1>2, <1>5, <1>6, <2>2, <2>4, <3>1, LeftAlone DEF Before, Serves, Stopping,
         Over, Start!Servers
    <3>5. GuiInv'
      BY <1>6, <3>1 DEF GuiInv
    <3> QED
      BY <3>3, <3>4, <3>5, Only01 DEF StartInv
  <2> QED
    BY <1>1, <2>3, <2>4, Only01
<1>8. CASE address[s] # "bad"
  <2>1. /\ pSCM' = pSCM \cup {s} /\ pServerListenThread' = pServerListenThread \cup {s}
        /\ mail' = Start!Posted(s, "init") /\ listener' = [listener EXCEPT ![s] = "idle"]
        /\ gui' = IF s = 0 THEN <<"wait", 0>> ELSE Start!After(s)
        /\ UNCHANGED <<nServerIsListening, m_pListenSocket>>
    BY <1>0, <1>8 DEF Start!StartListenerThread, Start!Moves
  <2>2. mail' = [mail EXCEPT ![s] = Append(mail[s], "init")]
    BY <1>3, <2>1 DEF Start!Posted, Unborn
  <2>3. mail'[s] = <<"init">>
    BY <1>1, <1>3, <2>2, Mails DEF Start!TypeOK, Unborn, Msgs
  <2>4. listener'[s] = "idle" /\ \A t \in Start!Servers \ {s} : Same(t)
    BY <1>1, <2>1, <2>2 DEF Start!TypeOK, Same
  <2>5. Comes(s)'
    <3>1. s \in pSCM' /\ s \in pServerListenThread' /\ s \notin nServerIsListening'
      BY <1>1, <1>3, <2>1 DEF Unborn
    <3> QED
      BY <2>3, <2>4, <3>1 DEF Comes, Works
  <2>6. CASE s = 0
    <3>1. gui' = <<"wait", 0>>
      BY <2>1, <2>6
    <3>2. ServerInv(0)'
      <4>1. ~Before(0)' /\ ~Stopping(0)' /\ ~Over(0)'
        BY <3>1 DEF Before, Stopping, Over
      <4> QED
        BY <1>6, <1>8, <2>5, <2>6, <4>1 DEF ServerInv
    <3>3. ServerInv(1)'
      BY <1>1, <1>2, <1>5, <1>6, <2>4, <2>6, <3>1, LeftAlone DEF Before, Serves, Stopping,
         Over, Start!Servers
    <3>4. GuiInv'
      BY <1>6, <1>8, <2>6, <3>1 DEF GuiInv
    <3> QED
      BY <3>2, <3>3, <3>4, Only01 DEF StartInv
  <2>7. CASE s = 1
    <3>1. gui' = <<"run", 0>>
      BY <2>1, <2>7 DEF Start!After
    <3>2. ServerInv(1)'
      <4>1. ~Before(1)' /\ ~Stopping(1)' /\ ~Over(1)'
        BY <3>1 DEF Before, Stopping, Over
      <4> QED
        BY <1>6, <1>8, <2>5, <2>7, <4>1 DEF ServerInv
    <3>3. ServerInv(0)'
      BY <1>1, <1>2, <1>5, <1>6, <2>4, <2>7, <3>1, LeftAlone DEF Before, Serves, Stopping,
         Over, Start!Servers
    <3>4. GuiInv'
      BY <1>6, <3>1 DEF GuiInv
    <3> QED
      BY <3>2, <3>3, <3>4, Only01 DEF StartInv
  <2> QED
    BY <1>1, <2>6, <2>7, Only01
<1> QED
  BY <1>7, <1>8

LEMMA IsListeningKeeps ==
  ASSUME Start!TypeOK, StartInv, broken = "no", Start!IsListening PROVE StartInv'
<1> USE DEF Start!outside, Start!structure, Start!thread
<1>1. gui[1] = "wait" /\ gui[2] = 0 /\ gui' = <<"start", 1>> /\ 0 \in nServerIsListening
  BY DEF Start!IsListening, StartInv, GuiInv, Start!After
<1>2. UNCHANGED <<pSCM, Start!structure, Start!thread, Start!outside>> /\ broken' = "no"
  BY DEF Start!IsListening, Start!Fine
<1>3. \A t \in Start!Servers : Same(t) /\ ServerInv(t) /\ ~GivenUp(t)
  BY <1>1, <1>2 DEF Same, StartInv, GivenUp
<1>4. \A t \in Start!Servers : ServerInv(t)'
  <2>1. ServerInv(0)'
    BY <1>1, <1>2, <1>3, LeftAlone DEF Before, Serves, Stopping, Over, Start!Servers
  <2>2. ServerInv(1)'
    BY <1>1, <1>2, <1>3, LeftAlone DEF Before, Serves, Stopping, Over, Start!Servers
  <2> QED
    BY <2>1, <2>2, Only01
<1>5. GuiInv'
  BY <1>1, <1>2 DEF GuiInv, StartInv
<1> QED
  BY <1>4, <1>5 DEF StartInv

\* If the wait was long enough, only a port that is taken brings it to its end.
LEMMA TimedOutKeeps ==
  ASSUME Start!TypeOK, StartInv, patiently, broken = "no", Start!TimedOut PROVE StartInv'
<1> USE DEF Start!outside, Start!structure, Start!thread
<1>1. gui[1] = "wait" /\ gui[2] = 0 /\ gui' = <<"start", 1>> /\ 0 \notin nServerIsListening
  BY DEF Start!TimedOut, StartInv, GuiInv, Start!After
<1>2. /\ pSCM' = pSCM \ {0}
      /\ UNCHANGED <<Start!structure, listener, m_pListenSocket, Start!outside>>
      /\ mail' = IF 0 \in pServerListenThread THEN Start!Posted(0, "quit") ELSE mail
      /\ broken' = "no"
  BY <1>1 DEF Start!TimedOut, Start!DeleteSCM, Start!Fine
<1>3. Start!Quiet(0) /\ ServerInv(0) /\ ServerInv(1) /\ address[0] # "bad"
  BY <1>1 DEF Start!TimedOut, Start!WaitEnds, Start!Servers, StartInv, GuiInv
<1>4. Serves(0) /\ ~GivenUp(0) /\ ~GivenUp(1)
  BY <1>1 DEF Serves, GivenUp
<1>5. Ready(0)
  BY <1>3, <1>4, Mails DEF ServerInv, Start!Quiet, Comes, Opens, Msgs
<1>6. address[0] = "taken"
  BY <1>1, <1>3, <1>5 DEF Ready, Start!TypeOK, Start!Servers
<1>7. mail' = [mail EXCEPT ![0] = Append(mail[0], "quit")]
  BY <1>2, <1>5 DEF Ready, Works, Start!Posted
<1>8. mail'[0] = <<"quit">> /\ Same(1)
  BY <1>2, <1>5, <1>7, Mails DEF Ready, Start!TypeOK, Start!Servers, Msgs, Same
<1>9. GivenUp(0)'
  BY <1>1, <1>2, <1>5, <1>6, <1>8 DEF GivenUp, Ready
<1>10. ServerInv(0)'
  BY <1>1, <1>2, <1>6, <1>9 DEF ServerInv, Before, Stopping, Over
<1>11. ServerInv(1)'
  BY <1>1, <1>2, <1>3, <1>4, <1>8, LeftAlone DEF Before, Serves, Stopping, Over,
     Start!Servers
<1>12. GuiInv'
  BY <1>1, <1>2, <1>6 DEF GuiInv
<1> QED
  BY <1>10, <1>11, <1>12, Only01 DEF StartInv

LEMMA PressShutdownKeeps ==
  ASSUME Start!TypeOK, StartInv, broken = "no", Start!PressShutdown PROVE StartInv'
<1> USE DEF Start!outside, Start!structure, Start!thread
<1>1. gui[1] = "run" /\ gui[2] = 0 /\ gui' = <<"destroy", 0>>
  BY DEF Start!PressShutdown, StartInv, GuiInv
<1>2. UNCHANGED <<pSCM, Start!structure, Start!thread, Start!outside>> /\ broken' = "no"
  BY DEF Start!PressShutdown, Start!Fine
<1>3. \A t \in Start!Servers : Same(t) /\ ServerInv(t) /\ ~GivenUp(t)
  BY <1>1, <1>2 DEF Same, StartInv, GivenUp
<1>4. \A t \in Start!Servers : ServerInv(t)'
  BY <1>1, <1>2, <1>3, LeftAlone DEF Before, Serves, Stopping, Over, Start!Servers
<1>5. GuiInv'
  BY <1>1, <1>2 DEF GuiInv, StartInv
<1> QED
  BY <1>4, <1>5 DEF StartInv

LEMMA ServerShutDownKeeps ==
  ASSUME Start!TypeOK, StartInv, broken = "no", Start!ServerShutDown PROVE StartInv'
<1> USE DEF Start!outside, Start!structure, Start!thread
<1>0. PICK s \in Start!Servers : s = gui[2]
  BY DEF Start!TypeOK
<1>1. gui[1] = "destroy" /\ s \in Start!Servers /\ Serves(s) /\ ~GivenUp(0) /\ ~GivenUp(1)
  BY <1>0 DEF Start!ServerShutDown, Start!TypeOK, Serves, Start!Servers, GivenUp
<1>2. GuiInv /\ \A t \in Start!Servers : ServerInv(t)
  BY DEF StartInv
<1>3. /\ gui' = <<IF s \in pSCM THEN "waitExit" ELSE "deleted", s>>
      /\ mail' = IF s \in pSCM \cap pServerListenThread THEN Start!Posted(s, "stop") ELSE mail
      /\ UNCHANGED <<pSCM, Start!structure, listener, m_pListenSocket, Start!outside>>
      /\ broken' = "no"
  BY <1>0 DEF Start!ServerShutDown, Start!Fine
<1>4. \A t \in Start!Servers \ {s} : Same(t)
  BY <1>1, <1>3 DEF Start!TypeOK, Same, Start!Posted
<1>5. gui'[1] \in {"waitExit", "deleted"} /\ gui'[2] = s
  BY <1>3
<1>6. \A t \in Start!Servers \ {s} : ServerInv(t)'
  <2> SUFFICES ASSUME NEW t \in Start!Servers \ {s} PROVE ServerInv(t)'
    OBVIOUS
  <2>1. ServerInv(t) /\ Same(t) /\ ~GivenUp(t) /\ UNCHANGED address
    BY <1>1, <1>2, <1>3, <1>4, Only01
  <2>2. CASE s = 0 /\ t = 1
    <3>1. Serves(t) /\ ~Before(t)' /\ ~Stopping(t)' /\ ~Over(t)'
      BY <1>0, <1>1, <1>3, <1>5, <2>2 DEF Before, Serves, Stopping, Over
    <3> QED
      BY <2>1, <3>1, LeftAlone
  <2>3. CASE s = 1 /\ t = 0
    <3>1. Over(t) /\ ~Before(t)' /\ ~Stopping(t)' /\ ~Serves(t)'
      BY <1>0, <1>1, <1>3, <1>5, <2>3 DEF Before, Serves, Stopping, Over
    <3> QED
      BY <2>1, <3>1, LeftAlone
  <2> QED
    BY <1>1, <2>2, <2>3, Only01
<1>7. GuiInv'
  BY <1>2, <1>3, <1>5 DEF GuiInv
<1>8. CASE address[s] = "bad"
  <2>1. Unborn(s)
    BY <1>1, <1>2, <1>8 DEF ServerInv
  <2>2. gui' = <<"deleted", s>> /\ mail' = mail
    BY <1>3, <2>1 DEF Unborn
  <2>3. ServerInv(s)'
    <3>1. Unborn(s)' /\ address'[s] = "bad" /\ gui'[1] = "deleted"
      BY <1>3, <1>8, <2>1, <2>2 DEF Unborn
    <3>2. ~Stopping(s)'
      BY <3>1 DEF Stopping
    <3> QED
      BY <3>1, <3>2 DEF ServerInv
  <2> QED
    BY <1>6, <1>7, <2>3 DEF StartInv
<1>9. CASE address[s] # "bad"
  <2>1. Comes(s) \/ Opens(s) \/ Ready(s)
    BY <1>1, <1>2, <1>9, Only01 DEF ServerInv
  <2>2. Works(s) /\ listener[s] \in {"idle", "listen"}
    BY <2>1 DEF Comes, Opens, Ready
  <2>3. gui' = <<"waitExit", s>> /\ mail' = [mail EXCEPT ![s] = Append(mail[s], "stop")]
    BY <1>3, <2>2 DEF Works, Start!Posted
  <2>4. mail'[s] = Append(mail[s], "stop")
    BY <1>1, <2>3 DEF Start!TypeOK
  <2>5. Asked(s)'
    <3>1. Works(s)'
      BY <1>3, <2>2 DEF Works
    <3>2. \/ listener[s] = "idle" /\ Append(mail[s], "stop") \in {<<"init", "stop">>, <<"stop">>}
          \/ listener[s] = "listen" /\ Append(mail[s], "stop") = <<"stop">>
      BY <2>1, Mails DEF Comes, Opens, Ready, Msgs
    <3> QED
      BY <1>3, <2>4, <3>1, <3>2 DEF Asked
  <2>6. ServerInv(s)'
    <3>1. ~Before(s)' /\ ~Serves(s)' /\ ~Over(s)'
      <4>1. gui'[1] = "waitExit" /\ gui'[2] = s /\ s \in 0 .. 1
        BY <1>1, <2>3 DEF Start!Servers
      <4> QED
        BY <4>1 DEF Before, Serves, Over
    <3>2. address'[s] # "bad" /\ s \in pSCM'
      BY <1>3, <1>9, <2>2 DEF Works
    <3> QED
      BY <2>5, <3>1, <3>2 DEF ServerInv
  <2> QED
    BY <1>6, <1>7, <2>6 DEF StartInv
<1> QED
  BY <1>8, <1>9

\* If the wait was long enough, the thread has gone when the object goes.
LEMMA DestroySCMKeeps ==
  ASSUME Start!TypeOK, StartInv, patiently, broken = "no", Start!DestroySCM PROVE StartInv'
<1> USE DEF Start!outside, Start!structure, Start!thread
<1>0. PICK s \in Start!Servers : s = gui[2]
  BY DEF Start!TypeOK
<1>1. s \in Start!Servers /\ GuiInv /\ \A t \in Start!Servers : ServerInv(t)
  BY DEF StartInv, Start!TypeOK
<1>2. gui[1] \in {"waitExit", "deleted"} /\ gui = <<gui[1], s>> /\ ~GivenUp(0) /\ ~GivenUp(1)
  BY <1>0 DEF Start!DestroySCM, GivenUp, Start!TypeOK
<1>3. CASE gui[1] = "waitExit"
  <2>1. /\ s \in pServerListenThread => Start!WaitEnds
        /\ gui' = <<"deleted", s>> /\ pSCM' = pSCM \ {s}
        /\ mail' = IF s \in pServerListenThread THEN Start!Posted(s, "quit") ELSE mail
        /\ UNCHANGED <<Start!structure, listener, m_pListenSocket, Start!outside>>
        /\ broken' = "no"
    BY <1>0, <1>3 DEF Start!DestroySCM, Start!DeleteSCM, Start!Fine
  <2>2. Stopping(s) /\ address[s] # "bad" /\ (Asked(s) \/ Ended(s))
    BY <1>1, <1>2, <1>3 DEF Stopping, ServerInv
  <2>3. ~Asked(s)
    <3> SUFFICES ASSUME Asked(s) PROVE FALSE
      OBVIOUS
    <3>1. Start!Quiet(s)
      BY <1>1, <2>1 DEF Asked, Works, Start!WaitEnds
    <3> QED
      BY <3>1, Mails DEF Asked, Start!Quiet, Msgs
  <2>4. Ended(s) /\ mail' = mail
    BY <2>1, <2>2, <2>3 DEF Ended
  <2>5. Over(s)' /\ ~Before(s)' /\ ~Serves(s)' /\ ~Stopping(s)'
    <3>1. gui'[1] = "deleted" /\ gui'[2] = s /\ s \in 0 .. 1
      BY <1>1, <2>1 DEF Start!Servers
    <3>2. ~Stopping(s)'
      BY <3>1 DEF Stopping
    <3> QED
      BY <3>1, <3>2 DEF Before, Serves, Over
  <2>6. ServerInv(s)'
    <3>1. s \notin pSCM' /\ Ended(s)' /\ address'[s] # "bad"
      BY <2>1, <2>2, <2>4 DEF Ended
    <3> QED
      BY <2>5, <3>1 DEF ServerInv
  <2>7. ASSUME NEW t \in Start!Servers \ {s} PROVE ServerInv(t)'
    <3>1. ServerInv(t) /\ Same(t) /\ ~GivenUp(t) /\ UNCHANGED address
      BY <1>1, <1>2, <2>1, <2>4, Only01 DEF Same
    <3>2. CASE s = 0 /\ t = 1
      <4>1. Serves(t) /\ ~Before(t)' /\ ~Stopping(t)' /\ ~Over(t)'
        BY <1>0, <1>2, <1>3, <2>1, <3>2 DEF Before, Serves, Stopping, Over
      <4> QED
        BY <3>1, <4>1, LeftAlone
    <3>3. CASE s = 1 /\ t = 0
      <4>1. Over(t) /\ ~Before(t)' /\ ~Stopping(t)' /\ ~Serves(t)'
        BY <1>0, <1>2, <1>3, <2>1, <3>3 DEF Before, Serves, Stopping, Over
      <4> QED
        BY <3>1, <4>1, LeftAlone
    <3> QED
      BY <1>1, <3>2, <3>3, Only01
  <2>8. GuiInv'
    BY <1>1, <2>1 DEF GuiInv
  <2> QED
    BY <2>6, <2>7, <2>8 DEF StartInv
<1>4. CASE gui[1] = "deleted"
  <2>1. /\ gui' = IF s = 0 THEN <<"destroy", 1>> ELSE <<"done", 0>>
        /\ UNCHANGED <<pSCM, Start!structure, Start!thread, Start!outside>>
        /\ broken' = "no"
    BY <1>0, <1>4 DEF Start!DestroySCM, Start!Fine
  <2>2. \A t \in Start!Servers : ServerInv(t) /\ Same(t) /\ ~GivenUp(t) /\ UNCHANGED address
    BY <1>1, <1>2, <2>1, Only01 DEF Same
  <2>3. CASE s = 0
    <3>1. gui' = <<"destroy", 1>> /\ gui[1] = "deleted" /\ gui[2] = 0
      BY <1>0, <1>4, <2>1, <2>3
    <3>2. ServerInv(0)'
      BY <2>2, <3>1, LeftAlone DEF Before, Serves, Stopping, Over, Start!Servers
    <3>3. ServerInv(1)'
      BY <2>2, <3>1, LeftAlone DEF Before, Serves, Stopping, Over, Start!Servers
    <3>4. GuiInv'
      BY <1>1, <2>1, <3>1 DEF GuiInv
    <3> QED
      BY <3>2, <3>3, <3>4, Only01 DEF StartInv
  <2>4. CASE s = 1
    <3>1. gui' = <<"done", 0>> /\ gui[1] = "deleted" /\ gui[2] = 1
      BY <1>0, <1>4, <2>1, <2>4
    <3>2. ServerInv(0)'
      BY <2>2, <3>1, LeftAlone DEF Before, Serves, Stopping, Over, Start!Servers
    <3>3. ServerInv(1)'
      BY <2>2, <3>1, LeftAlone DEF Before, Serves, Stopping, Over, Start!Servers
    <3>4. GuiInv'
      BY <1>1, <2>1, <3>1 DEF GuiInv
    <3> QED
      BY <3>2, <3>3, <3>4, Only01 DEF StartInv
  <2> QED
    BY <2>3, <2>4, Only01
<1> QED
  BY <1>2, <1>3, <1>4

LEMMA StartInit == Start!Init => StartIInv
<1> SUFFICES ASSUME Start!Init PROVE StartIInv
  OBVIOUS
<1>1. Start!TypeOK
  BY DEF Start!Init, Start!TypeOK, Start!Servers
<1>2. gui[1] = "start" /\ gui[2] = 0 /\ gui = <<"start", 0>> /\ broken = "no"
  BY DEF Start!Init
<1>3. \A s \in Start!Servers : Unborn(s) /\ ~Serves(s) /\ ~Stopping(s) /\ ~Over(s)
  BY <1>2 DEF Start!Init, Unborn, Serves, Stopping, Over, Start!Servers
<1>4. StartInv
  BY <1>2, <1>3 DEF StartInv, GuiInv, ServerInv
<1> QED
  BY <1>1, <1>4 DEF StartIInv

LEMMA StartNext == StartIInv /\ [Start!Next]_(Start!startUp) => StartIInv'
<1> SUFFICES ASSUME StartIInv, [Start!Next]_(Start!startUp) PROVE StartIInv'
  OBVIOUS
<1>1. Start!TypeOK /\ Start!TypeOK'
  BY StartTypes DEF StartIInv
<1>2. patiently' = patiently
  BY DEF Start!Next, Start!ListenerThread, Start!InitListnerThread, Start!Listen,
     Start!StopListnerThread, Start!QuitPosted, Start!ExitInstance, Start!Through,
     Start!Crash, Start!Fine, Start!StartListenerThread, Start!IsListening, Start!TimedOut,
     Start!PressShutdown, Start!ServerShutDown, Start!DestroySCM, Start!outside,
     Start!startUp
<1> SUFFICES ASSUME patiently PROVE StartInv'
  BY <1>1, <1>2 DEF StartIInv
<1>3. StartInv
  BY DEF StartIInv
<1>4. CASE UNCHANGED Start!startUp
  BY <1>3, <1>4 DEF Start!startUp, Start!outside, Start!structure, Start!thread, StartInv,
     GuiInv, ServerInv, Unborn, Works, Comes, Opens, Ready, GivenUp, Asked, Ended, Before,
     Serves, Stopping, Over
<1>5. CASE Start!Next
  <2>1. broken = "no"
    BY <1>5 DEF Start!Next
  <2>2. CASE Start!ListenerThread
    BY <1>1, <1>3, <2>1, <2>2, InitListnerThreadKeeps, ListenKeeps, StopListnerThreadKeeps,
       QuitPostedKeeps, ExitInstanceKeeps DEF Start!ListenerThread
  <2> QED
    BY <1>1, <1>3, <1>5, <2>1, <2>2, StartListenerThreadKeeps, IsListeningKeeps,
       TimedOutKeeps, PressShutdownKeeps, ServerShutDownKeeps, DestroySCMKeeps
       DEF Start!Next
<1> QED
  BY <1>4, <1>5

\* Every state of a program whose waits are long enough is one of those above.
THEOREM StartInvariant == Start!Spec => []StartIInv
<1>1. Start!Init => StartIInv
  BY StartInit
<1>2. StartIInv /\ [Start!Next]_(Start!startUp) => StartIInv'
  BY StartNext
<1> QED
  BY <1>1, <1>2, PTL DEF Start!Spec

\* In each of them the start-up keeps its promises.
LEMMA StartIInvMeans == StartIInv => Start!StartsAndStops
<1> SUFFICES ASSUME StartIInv, patiently PROVE Start!StartsAndStops
  BY DEF Start!StartsAndStops
<1>1. Start!TypeOK /\ GuiInv /\ \A s \in Start!Servers : ServerInv(s)
  BY DEF StartIInv, StartInv
<1>2. ASSUME NEW s \in Start!Servers, Start!Started(s), address[s] = "free", Start!Quiet(s)
      PROVE  s \in pSCM \cap nServerIsListening
  <2>1. Serves(s)
    BY <1>2 DEF Start!Started, Serves
  <2>2. Ready(s)
    BY <1>1, <1>2, <2>1, Mails DEF ServerInv, Start!Quiet, Comes, Opens, GivenUp, Msgs
  <2> QED
    BY <1>2, <2>2 DEF Ready, Works
<1>3. ASSUME NEW s \in Start!Servers, s \in pSCM, listener[s] = "idle"
      PROVE  s \in pServerListenThread
  BY <1>1, <1>3, States DEF Unborn, Comes, Opens, Ready, GivenUp, Asked, Ended, Works
<1>4. ASSUME gui[1] = "done", NEW s \in Start!Servers PROVE listener[s] \in {"none", "gone"}
  BY <1>1, <1>4 DEF ServerInv, Over, Unborn, Ended
<1> QED
  BY <1>1, <1>2, <1>3, <1>4 DEF Start!StartsAndStops, GuiInv

\* If waits are long enough, a server whose address is free listens when the next one is
\* made, or soon after the last, whatever becomes of the other; no listener thread is left at
\* the end; and no listener follows an object that is gone, but that of server 0 if its port
\* was taken.
THEOREM ServersStartAndStop == Start!Spec => []Start!StartsAndStops
BY StartInvariant, StartIInvMeans, PTL

\* The run that exercises the parts, one at a time, does with the servers what StartUp does.
LEMMA PartsStartServers == MCSpec => Start!Spec
<1>1. MCInit => Start!Init
  BY DEF MCInit
<1>2. ASSUME [MCNext]_<<part, data, others>> PROVE [Start!Next]_(Start!startUp)
  <2>1. UNCHANGED threads => UNCHANGED starting
    BY DEF threads
  <2>2. UNCHANGED others => UNCHANGED threads
    BY DEF others
  <2>3. UNCHANGED <<part, data, others>> => UNCHANGED others
    OBVIOUS
  <2>4. Acting => Start!Next \/ UNCHANGED starting
    BY DEF Acting
  <2>5. MCNext => Acting \/ UNCHANGED others \/ UNCHANGED threads
    BY DEF MCNext
  <2>6. UNCHANGED starting => UNCHANGED Start!startUp
    BY DEF starting, Start!startUp, Start!outside, Start!structure, Start!thread
  <2> QED
    BY <1>2, <2>1, <2>2, <2>3, <2>4, <2>5, <2>6
<1> QED
  BY <1>1, <1>2, PTL DEF MCSpec, Start!Spec

\* The same of the run.
THEOREM PartsStartAndStop == MCSpec => []StartsAndStops
<1>1. Start!StartsAndStops => StartsAndStops
  BY DEF StartsAndStops
<1> QED
  BY <1>1, PartsStartServers, ServersStartAndStop, PTL

-----------------------------------------------------------------------------
(* The counts of lost packets, for numbers and counts of any width.        *)

LEMMA WordIs ==
  /\ Words \in Nat /\ Words > 1 /\ Words > 0
  /\ UInt \in Nat /\ UInt > 0 /\ Byte \in Nat /\ Byte > 0 /\ Gap \in Nat
BY PartsAssumption DEF Count!Parameters

LEMMA ForWord ==
  /\ \A a \in Int : a % Words \in 0 .. Words - 1 /\ \E q \in Int : a = Words * q + (a % Words)
  /\ \A a, b, q \in Int : a - b = Words * q => a % Words = b % Words
<1>1. \A a \in Int : a % Words \in 0 .. Words - 1 /\ \E q \in Int : a = Words * q + (a % Words)
  <2> TAKE a \in Int
  <2> QED
    BY WordIs, Divides
<1>2. \A a, b, q \in Int : a - b = Words * q => a % Words = b % Words
  <2> TAKE a, b, q \in Int
  <2> QED
    BY WordIs, SameRemainder
<1> QED
  BY <1>1, <1>2

LEMMA ForUInt ==
  /\ \A a \in Int : a % UInt \in 0 .. UInt - 1 /\ \E q \in Int : a = UInt * q + (a % UInt)
  /\ \A a, b, q \in Int : a - b = UInt * q => a % UInt = b % UInt
<1>1. \A a \in Int : a % UInt \in 0 .. UInt - 1 /\ \E q \in Int : a = UInt * q + (a % UInt)
  <2> TAKE a \in Int
  <2> QED
    BY WordIs, Divides
<1>2. \A a, b, q \in Int : a - b = UInt * q => a % UInt = b % UInt
  <2> TAKE a, b, q \in Int
  <2> QED
    BY WordIs, SameRemainder
<1> QED
  BY <1>1, <1>2

LEMMA WordDivides == \E c \in Int : UInt = Words * c
<1>1. UInt % Words = 0 /\ UInt \in Int
  BY PartsAssumption, WordIs DEF Count!Parameters
<1>2. PICK c \in Int : UInt = Words * c + (UInt % Words)
  BY <1>1, ForWord
<1> QED
  BY <1>1, <1>2, WordIs

LEMMA OneIsOne == 1 % Words = 1
BY WordIs, Remainder, 1 = Words * 0 + 1

\* The receiver knows which packet comes after the last one it got, and both counts are
\* what they should be.
CountInv ==
  /\ Count!TypeOK
  /\ fresh => wLastSeqCnt = 0
  /\ ~fresh /\ (receiver = "client" => ~hidden) => Count!FirstMissing = (wLastSeqCnt + 1) % Words
  /\ receiver = "client" /\ ~hidden /\ fresh => Count!FirstMissing = 0
  /\ Count!CountsLosses

CountTypes ==
  /\ wMsgSeqCount \in 0 .. Words - 1 /\ wLastSeqCnt \in 0 .. Words - 1
  /\ uLostReceivedPackets \in 0 .. UInt - 1 /\ lost \in 0 .. UInt - 1 /\ again \in 0 .. UInt - 1
  /\ gbAdcMsgIdErrorCntPAP \in 0 .. Byte - 1 /\ due \in 0 .. Byte - 1
  /\ missing \in 0 .. Gap
  /\ fresh \in BOOLEAN /\ crossed \in BOOLEAN /\ hidden \in BOOLEAN
  /\ receiver \in {"server", "client"}

LEMMA CountTypesAre == Count!TypeOK <=> CountTypes
BY DEF Count!TypeOK, CountTypes

LEMMA FirstMissingIs ==
  ASSUME CountTypes
  PROVE  /\ Count!FirstMissing \in 0 .. Words - 1
         /\ \E q \in Int : wMsgSeqCount = Count!FirstMissing + missing + Words * q
<1>1. wMsgSeqCount \in Int /\ missing \in Int /\ wMsgSeqCount - missing \in Int
  BY WordIs DEF CountTypes
<1>2. Count!FirstMissing \in 0 .. Words - 1
  BY <1>1, WordIs, Divides DEF Count!FirstMissing
<1>3. PICK q \in Int : wMsgSeqCount - missing = Words * q + Count!FirstMissing
  BY <1>1, ForWord DEF Count!FirstMissing
<1>4. Words * q \in Int /\ Count!FirstMissing \in Int
  BY <1>2, <1>3, WordIs
<1>5. wMsgSeqCount = Count!FirstMissing + missing + Words * q
  BY <1>1, <1>3, <1>4
<1> QED
  BY <1>2, <1>5

LEMMA CountStarts == Count!Init => CountInv
<1> SUFFICES ASSUME Count!Init PROVE CountInv
  OBVIOUS
<1>1. CountTypes
  <2>1. 0 \in 0 .. Words - 1 /\ 0 \in 0 .. UInt - 1 /\ 0 \in 0 .. Byte - 1 /\ 0 \in 0 .. Gap
    BY WordIs
  <2> QED
    BY <2>1 DEF Count!Init, CountTypes
<1>2. \A n \in Nat : n > 0 => 0 % n = 0
  <2> SUFFICES ASSUME NEW n \in Nat, n > 0 PROVE 0 % n = 0
    OBVIOUS
  <2> QED
    BY Remainder, 0 = n * 0 + 0
<1>3. Count!FirstMissing = 0
  BY <1>2, WordIs DEF Count!Init, Count!FirstMissing
<1>4. Count!ServerCounts /\ Count!ClientCounts
  BY <1>2, WordIs DEF Count!Init, Count!ServerCounts, Count!ClientCounts
<1> QED
  BY <1>1, <1>3, <1>4, CountTypesAre DEF CountInv, Count!CountsLosses, Count!Init

\* A packet given up leaves the first one missing as it was.
LEMMA GiveUpKeeps == CountInv /\ Count!GiveUp => CountInv'
<1> SUFFICES ASSUME CountInv, Count!GiveUp PROVE CountInv'
  OBVIOUS
<1>1. CountTypes
  BY CountTypesAre DEF CountInv
<1>2. /\ missing < Gap /\ wMsgSeqCount' = (wMsgSeqCount + 1) % Words /\ missing' = missing + 1
      /\ UNCHANGED <<receiver, wLastSeqCnt, uLostReceivedPackets, gbAdcMsgIdErrorCntPAP, fresh,
                     lost, again, due, crossed, hidden>>
  BY DEF Count!GiveUp
<1>3. wMsgSeqCount \in Int /\ missing \in Int
  BY <1>1, WordIs DEF CountTypes
<1>4. PICK q \in Int : wMsgSeqCount + 1 = Words * q + wMsgSeqCount'
  <2>1. wMsgSeqCount + 1 \in Int
    BY <1>3
  <2> QED
    BY <1>2, <2>1, ForWord
<1>5. wMsgSeqCount' \in 0 .. Words - 1
  BY <1>2, <1>3, WordIs, Divides
<1>6. CountTypes'
  BY <1>1, <1>2, <1>5, WordIs DEF CountTypes
<1>7. Count!FirstMissing' = Count!FirstMissing
  <2>1. wMsgSeqCount' - missing' \in Int /\ wMsgSeqCount - missing \in Int
    BY <1>2, <1>3, <1>5, WordIs
  <2>2. Words * q \in Int /\ Words * (0 - q) = 0 - Words * q /\ 0 - q \in Int
    BY <1>4, WordIs
  <2>3. (wMsgSeqCount' - missing') - (wMsgSeqCount - missing) = Words * (0 - q)
    BY <1>2, <1>3, <1>4, <1>5, <2>2, WordIs
  <2> QED
    BY <2>1, <2>2, <2>3, ForWord DEF Count!FirstMissing
<1>8. Count!CountsLosses'
  BY <1>2 DEF CountInv, Count!CountsLosses, Count!ServerCounts, Count!ClientCounts
<1>9. Count!TypeOK'
  BY <1>6, CountTypesAre DEF Count!TypeOK, CountTypes
<1> QED
  BY <1>2, <1>7, <1>8, <1>9 DEF CountInv

\* What follows the last number received.
LEMMA NextMissing ==
  ASSUME CountTypes, wMsgSeqCount' = (wMsgSeqCount + 1) % Words, missing' = 0
  PROVE  wMsgSeqCount' \in 0 .. Words - 1 /\ Count!FirstMissing' = (wMsgSeqCount + 1) % Words
<1>1. wMsgSeqCount + 1 \in Int
  BY WordIs DEF CountTypes
<1>2. wMsgSeqCount' \in 0 .. Words - 1
  BY <1>1, ForWord
<1>3. wMsgSeqCount' = Words * 0 + wMsgSeqCount'
  BY <1>2, WordIs
<1>4. wMsgSeqCount' % Words = wMsgSeqCount'
  BY <1>2, <1>3, WordIs, Remainder
<1>5. wMsgSeqCount' - 0 = wMsgSeqCount'
  BY <1>2
<1> QED
  BY <1>2, <1>4, <1>5 DEF Count!FirstMissing

\* The two sums the server's count is compared with.
LEMMA ServerKeeps ==
  ASSUME CountInv, Count!OnReceive, receiver = "server"
  PROVE  Count!ServerCounts'
<1>1. CountTypes
  BY CountTypesAre DEF CountInv
<1> DEFINE add == IF fresh THEN Count!FirstMissing - 1 ELSE 0
<1>2. /\ wMsgSeqCount \in Int /\ missing \in Int /\ lost \in Int /\ again \in Int
      /\ uLostReceivedPackets \in Int /\ wLastSeqCnt \in Int
  BY <1>1, WordIs DEF CountTypes
<1>3. Count!FirstMissing \in 0 .. Words - 1 /\ Count!FirstMissing \in Int /\ add \in Int
  BY <1>1, FirstMissingIs, WordIs
<1>4. PICK q \in Int : wMsgSeqCount = Count!FirstMissing + missing + Words * q
  BY <1>1, FirstMissingIs
<1>5. (wLastSeqCnt + 1) % Words = Count!FirstMissing - add
  <2>1. CASE fresh
    <3>1. wLastSeqCnt + 1 = 1
      BY <2>1 DEF CountInv
    <3> QED
      BY <1>3, <2>1, <3>1, OneIsOne
  <2>2. CASE ~fresh
    BY <1>3, <2>2 DEF CountInv
  <2> QED
    BY <2>1, <2>2
<1>6. /\ uLostReceivedPackets' = (uLostReceivedPackets + Count!Width) % UInt
      /\ lost' = (lost + missing) % UInt
      /\ crossed' = (crossed \/ Count!FirstMissing + missing >= Words)
      /\ again' = IF fresh THEN (again + Count!FirstMissing - 1) % UInt ELSE again
      /\ receiver' = receiver
  BY DEF Count!OnReceive
<1>7. again' = (again + add) % UInt
  <2>1. CASE fresh
    BY <1>2, <1>3, <1>6, <2>1
  <2>2. CASE ~fresh
    <3>1. again = UInt * 0 + again /\ again \in 0 .. UInt - 1
      BY <1>1, WordIs DEF CountTypes
    <3>2. again % UInt = again
      BY <1>2, <3>1, WordIs, Remainder
    <3> QED
      BY <1>2, <1>6, <2>2, <3>2
  <2> QED
    BY <2>1, <2>2
<1> HIDE DEF add
<1>8. Count!Width = missing + add + Words * q /\ Count!Width \in Int /\ Words * q \in Int
  BY <1>2, <1>3, <1>4, <1>5, WordIs DEF Count!Width
<1>9. PICK k1 \in Int : uLostReceivedPackets + Count!Width = UInt * k1 + uLostReceivedPackets'
  BY <1>2, <1>6, <1>8, ForUInt
<1>10. PICK k2 \in Int : lost + missing = UInt * k2 + lost'
  BY <1>2, <1>6, ForUInt
<1>11. PICK k3 \in Int : again + add = UInt * k3 + again'
  BY <1>2, <1>3, <1>7, ForUInt
<1>12. uLostReceivedPackets' \in Int /\ lost' \in Int /\ again' \in Int
  BY <1>2, <1>3, <1>6, <1>7, <1>8, ForUInt
<1>13. (uLostReceivedPackets' - lost' - again') % Words = 0
  <2>1. PICK c \in Int : UInt = Words * c
    BY WordDivides
  <2>2. PICK x0, x1, x2, x3 \in Int :
          x0 = Words * q /\ x1 = UInt * k1 /\ x2 = UInt * k2 /\ x3 = UInt * k3
    BY WordIs
  <2>3. x1 = Words * (c * k1) /\ x2 = Words * (c * k2) /\ x3 = Words * (c * k3)
    BY <2>1, <2>2, WordIs
  <2>4. PICK k \in Int : Words * k = x0 - x1 + x2 + x3
    <3>1. PICK y1, y2, y3 \in Int : y1 = c * k1 /\ y2 = c * k2 /\ y3 = c * k3
      OBVIOUS
    <3>2. x0 = Words * q /\ x1 = Words * y1 /\ x2 = Words * y2 /\ x3 = Words * y3
      BY <2>2, <2>3, <3>1
    <3>3. Words * (q - y1 + y2 + y3) = (Words * q) - (Words * y1) + (Words * y2) + (Words * y3)
      BY WordIs
    <3> QED
      BY <3>2, <3>3
  <2>5. (uLostReceivedPackets' - lost' - again') - (uLostReceivedPackets - lost - again) = Words * k
    <3>1. /\ Count!Width = missing + add + x0
          /\ uLostReceivedPackets + Count!Width = x1 + uLostReceivedPackets'
          /\ lost + missing = x2 + lost' /\ again + add = x3 + again'
      BY <1>8, <1>9, <1>10, <1>11, <2>2
    <3>2. PICK u, l, g \in Int : u = uLostReceivedPackets' /\ l = lost' /\ g = again'
      BY <1>12
    <3>3. (uLostReceivedPackets' - lost' - again') - (uLostReceivedPackets - lost - again)
            = x0 - x1 + x2 + x3
      <4>1. /\ Count!Width = missing + add + x0 /\ uLostReceivedPackets + Count!Width = x1 + u
            /\ lost + missing = x2 + l /\ again + add = x3 + g
        BY <3>1, <3>2
      <4>2. (u - l - g) - (uLostReceivedPackets - lost - again) = x0 - x1 + x2 + x3
        BY <1>2, <1>3, <1>8, <4>1
      <4> QED
        BY <3>2, <4>2
    <3> QED
      BY <2>4, <3>3
  <2>6. (uLostReceivedPackets - lost - again) % Words = 0
    BY DEF CountInv, Count!CountsLosses, Count!ServerCounts
  <2>7. uLostReceivedPackets' - lost' - again' \in Int /\ uLostReceivedPackets - lost - again \in Int
    BY <1>2, <1>12
  <2> QED
    BY <2>4, <2>5, <2>6, <2>7, ForWord
<1>14. ~crossed' => uLostReceivedPackets' = (lost' + again') % UInt
  <2> SUFFICES ASSUME ~crossed' PROVE uLostReceivedPackets' = (lost' + again') % UInt
    OBVIOUS
  <2>1. ~crossed /\ ~(Count!FirstMissing + missing >= Words)
    BY <1>6
  <2>2. Count!FirstMissing + missing \in 0 .. Words - 1
    BY <1>1, <1>2, <1>3, <2>1, WordIs DEF CountTypes
  <2>3. wMsgSeqCount \in 0 .. Words - 1
    BY <1>1 DEF CountTypes
  <2>4. wMsgSeqCount % Words = wMsgSeqCount
    <3>1. wMsgSeqCount = Words * 0 + wMsgSeqCount
      BY <1>2, WordIs
    <3> QED
      BY <1>2, <2>3, <3>1, WordIs, Remainder
  <2>5. wMsgSeqCount % Words = Count!FirstMissing + missing
    <3>1. wMsgSeqCount = Words * q + (Count!FirstMissing + missing)
      BY <1>2, <1>3, <1>4, <1>8
    <3> QED
      BY <1>2, <2>2, <3>1, WordIs, Remainder
  <2>6. Count!Width = missing + add
    BY <1>2, <1>3, <1>5, <2>4, <2>5 DEF Count!Width
  <2>7. uLostReceivedPackets = (lost + again) % UInt
    BY <2>1 DEF CountInv, Count!CountsLosses, Count!ServerCounts
  <2>8. PICK k4 \in Int : lost + again = UInt * k4 + uLostReceivedPackets
    BY <1>2, <2>7, ForUInt
  <2>9. PICK x2, x3, x4 \in Int :
          x2 = UInt * k2 /\ x3 = UInt * k3 /\ x4 = UInt * k4 /\ UInt * (k2 + k3 - k4) = x2 + x3 - x4
    BY WordIs
  <2>10. (uLostReceivedPackets + Count!Width) - (lost' + again') = UInt * (k2 + k3 - k4)
    <3>1. /\ lost + missing = x2 + lost' /\ again + add = x3 + again'
          /\ lost + again = x4 + uLostReceivedPackets
      BY <1>10, <1>11, <2>8, <2>9
    <3>2. PICK l, g \in Int : l = lost' /\ g = again'
      BY <1>12
    <3>3. (uLostReceivedPackets + Count!Width) - (lost' + again') = x2 + x3 - x4
      <4>1. /\ lost + missing = x2 + l /\ again + add = x3 + g
            /\ lost + again = x4 + uLostReceivedPackets
        BY <3>1, <3>2
      <4>2. (uLostReceivedPackets + Count!Width) - (l + g) = x2 + x3 - x4
        BY <1>2, <1>3, <2>6, <4>1
      <4> QED
        BY <3>2, <4>2
    <3> QED
      BY <2>9, <3>3
  <2>11. uLostReceivedPackets + Count!Width \in Int /\ lost' + again' \in Int
    BY <1>2, <1>8, <1>12
  <2> QED
    <3>1. k2 + k3 - k4 \in Int
      OBVIOUS
    <3> QED
      BY <1>6, <2>10, <2>11, <3>1, ForUInt
<1> QED
  BY <1>13, <1>14 DEF Count!ServerCounts

\* A client sees that a number is not the next one, unless all are missing in between.
LEMMA ClientKeeps ==
  ASSUME CountInv, Count!OnReceive, receiver = "client"
  PROVE  Count!ClientCounts'
<1>1. CountTypes
  BY CountTypesAre DEF CountInv
<1>2. /\ gbAdcMsgIdErrorCntPAP' = (gbAdcMsgIdErrorCntPAP + IF Count!Unexpected THEN 1 ELSE 0) % Byte
      /\ due' = (due + IF missing > 0 \/ Count!FirstMissing = 0 THEN 1 ELSE 0) % Byte
      /\ hidden' = (hidden \/ (missing > 0 /\ missing % Words = 0) \/ (fresh /\ wMsgSeqCount = 1))
      /\ receiver' = receiver
  BY DEF Count!OnReceive
<1> SUFFICES ASSUME ~hidden' PROVE gbAdcMsgIdErrorCntPAP' = due'
  BY DEF Count!ClientCounts
<1>3. /\ ~hidden /\ ~(missing > 0 /\ missing % Words = 0) /\ ~(fresh /\ wMsgSeqCount = 1)
  BY <1>2
<1>4. gbAdcMsgIdErrorCntPAP = due
  BY <1>3 DEF CountInv, Count!CountsLosses, Count!ClientCounts
<1>5. /\ wMsgSeqCount \in 0 .. Words - 1 /\ wLastSeqCnt \in 0 .. Words - 1 /\ missing \in 0 .. Gap
  BY <1>1 DEF CountTypes
<1>6. PICK q \in Int : wMsgSeqCount = Count!FirstMissing + missing + Words * q
  BY <1>1, FirstMissingIs
<1>7. Count!FirstMissing \in 0 .. Words - 1
  BY <1>1, FirstMissingIs
<1>8. /\ wMsgSeqCount \in Int /\ missing \in Int /\ Count!FirstMissing \in Int /\ wLastSeqCnt \in Int
      /\ Words * q \in Int
  BY <1>5, <1>7, WordIs
<1>9. CASE fresh
  <2>1. Count!FirstMissing = 0 /\ wLastSeqCnt = 0
    BY <1>3, <1>9 DEF CountInv
  <2>2. Count!Unexpected
    BY <1>3, <1>9, <2>1 DEF Count!Unexpected
  <2> QED
    BY <1>2, <1>4, <2>1, <2>2
<1>10. CASE ~fresh
  <2>1. Count!FirstMissing = (wLastSeqCnt + 1) % Words
    BY <1>3, <1>10 DEF CountInv
  <2>2. wLastSeqCnt + 1 = Words => Count!FirstMissing = 0
    <3>1. 0 \in 0 .. Words - 1 /\ Words = Words * 1 + 0
      BY WordIs
    <3>2. Words % Words = 0
      BY <3>1, WordIs, Remainder
    <3> QED
      BY <2>1, <3>2
  <2>3. wLastSeqCnt + 1 # Words => Count!FirstMissing = wLastSeqCnt + 1
    <3> SUFFICES ASSUME wLastSeqCnt + 1 # Words PROVE Count!FirstMissing = wLastSeqCnt + 1
      OBVIOUS
    <3>1. wLastSeqCnt + 1 \in 0 .. Words - 1 /\ wLastSeqCnt + 1 = Words * 0 + (wLastSeqCnt + 1)
      BY <1>5, WordIs
    <3> QED
      BY <1>8, <2>1, <3>1, WordIs, Remainder
  <2>4. CASE missing = 0
    <3>1. wMsgSeqCount = Words * q + Count!FirstMissing
      BY <1>6, <1>8, <2>4
    <3>2. wMsgSeqCount % Words = Count!FirstMissing
      BY <1>7, <1>8, <3>1, WordIs, Remainder
    <3>3. wMsgSeqCount = Words * 0 + wMsgSeqCount
      BY <1>8, WordIs
    <3>4. wMsgSeqCount % Words = wMsgSeqCount
      BY <1>5, <1>8, <3>3, WordIs, Remainder
    <3>5. wMsgSeqCount = Count!FirstMissing
      BY <3>2, <3>4
    <3>6. Count!Unexpected <=> Count!FirstMissing = 0
      BY <1>5, <2>2, <2>3, <3>5, WordIs DEF Count!Unexpected
    <3> QED
      BY <1>2, <1>4, <2>4, <3>6
  <2>5. CASE missing > 0
    <3>1. Count!Unexpected
      <4> SUFFICES ASSUME wMsgSeqCount = wLastSeqCnt + 1 PROVE FALSE
        BY DEF Count!Unexpected
      <4>1. wMsgSeqCount = Count!FirstMissing
        BY <1>5, <2>3, WordIs
      <4>2. missing - 0 = Words * (0 - q)
        <5>1. missing + Words * q = 0
          BY <1>6, <1>8, <4>1
        <5>2. Words * (0 - q) = 0 - (Words * q)
          BY WordIs
        <5> QED
          BY <1>8, <5>1, <5>2
      <4>3. missing % Words = 0 % Words
        <5>1. 0 - q \in Int
          OBVIOUS
        <5> QED
          BY <1>8, <4>2, <5>1, ForWord
      <4>4. 0 % Words = 0
        <5>1. 0 = Words * 0 + 0 /\ 0 \in 0 .. Words - 1
          BY WordIs
        <5> QED
          BY <5>1, WordIs, Remainder
      <4> QED
        BY <1>3, <2>5, <4>3, <4>4
    <3> QED
      BY <1>2, <1>4, <2>5, <3>1
  <2> QED
    BY <1>5, <2>4, <2>5
<1> QED
  BY <1>9, <1>10

LEMMA ReceiveKeeps == CountInv /\ Count!OnReceive => CountInv'
<1> SUFFICES ASSUME CountInv, Count!OnReceive PROVE CountInv'
  OBVIOUS
<1>1. CountTypes
  BY CountTypesAre DEF CountInv
<1>2. /\ wLastSeqCnt' = wMsgSeqCount /\ wMsgSeqCount' = (wMsgSeqCount + 1) % Words
      /\ missing' = 0 /\ fresh' = FALSE /\ receiver' = receiver
      /\ lost' = (lost + missing) % UInt
      /\ due' = (due + IF missing > 0 \/ Count!FirstMissing = 0 THEN 1 ELSE 0) % Byte
      /\ crossed' = (crossed \/ Count!FirstMissing + missing >= Words)
      /\ hidden' = (hidden \/ (missing > 0 /\ missing % Words = 0) \/ (fresh /\ wMsgSeqCount = 1))
  BY DEF Count!OnReceive
<1>3. wMsgSeqCount' \in 0 .. Words - 1 /\ Count!FirstMissing' = (wMsgSeqCount + 1) % Words
  BY <1>1, <1>2, NextMissing
<1>4. CountTypes'
  <2>1. \A a \in Int : a % UInt \in 0 .. UInt - 1 /\ a % Byte \in 0 .. Byte - 1
    BY WordIs, Divides
  <2>2. /\ lost + missing \in Int /\ uLostReceivedPackets + Count!Width \in Int
        /\ again + Count!FirstMissing - 1 \in Int
    BY <1>1, FirstMissingIs, ForWord, WordIs DEF CountTypes, Count!Width
  <2>3. lost' \in 0 .. UInt - 1
    BY <1>2, <2>1, <2>2
  <2>4. uLostReceivedPackets' \in 0 .. UInt - 1
    BY <1>1, <2>1, <2>2 DEF Count!OnReceive, CountTypes
  <2>5. again' \in 0 .. UInt - 1
    BY <1>1, <2>1, <2>2 DEF Count!OnReceive, CountTypes
  <2>6. due' \in 0 .. Byte - 1
    <3>1. due + (IF missing > 0 \/ Count!FirstMissing = 0 THEN 1 ELSE 0) \in Int
      BY <1>1, WordIs DEF CountTypes
    <3> QED
      BY <1>2, <2>1, <3>1
  <2>7. gbAdcMsgIdErrorCntPAP' \in 0 .. Byte - 1
    <3>1. gbAdcMsgIdErrorCntPAP + (IF Count!Unexpected THEN 1 ELSE 0) \in Int
      BY <1>1, WordIs DEF CountTypes
    <3>2. \/ gbAdcMsgIdErrorCntPAP' = (gbAdcMsgIdErrorCntPAP + IF Count!Unexpected THEN 1 ELSE 0) % Byte
          \/ gbAdcMsgIdErrorCntPAP' = gbAdcMsgIdErrorCntPAP
      BY DEF Count!OnReceive
    <3> QED
      BY <1>1, <2>1, <3>1, <3>2 DEF CountTypes
  <2>8. /\ wLastSeqCnt' \in 0 .. Words - 1 /\ missing' \in 0 .. Gap
        /\ receiver' \in {"server", "client"}
    BY <1>1, <1>2, WordIs DEF CountTypes
  <2>9. fresh' \in BOOLEAN /\ crossed' \in BOOLEAN /\ hidden' \in BOOLEAN
    BY <1>2
  <2> QED
    BY <1>3, <2>3, <2>4, <2>5, <2>6, <2>7, <2>8, <2>9 DEF CountTypes
<1>5. Count!TypeOK'
  BY <1>4 DEF Count!TypeOK, CountTypes
<1>6. Count!ServerCounts' /\ Count!ClientCounts'
  <2>1. receiver \in {"server", "client"}
    BY <1>1 DEF CountTypes
  <2>2. CASE receiver = "server"
    <3>1. Count!ClientCounts'
      BY <1>2, <2>2 DEF Count!ClientCounts
    <3> QED
      BY <2>2, <3>1, ServerKeeps
  <2>3. CASE receiver = "client"
    <3>1. Count!ServerCounts'
      BY <1>2, <2>3 DEF Count!ServerCounts
    <3> QED
      BY <2>3, <3>1, ClientKeeps
  <2> QED
    BY <2>1, <2>2, <2>3
<1> QED
  BY <1>2, <1>3, <1>5, <1>6 DEF CountInv, Count!CountsLosses

\* A new socket, or a sender that starts anew.
LEMMA AnewKeeps == CountInv /\ (Count!NewSocket \/ Count!Restart) => CountInv'
<1> SUFFICES ASSUME CountInv, Count!NewSocket \/ Count!Restart PROVE CountInv'
  OBVIOUS
<1>1. CountTypes
  BY CountTypesAre DEF CountInv
<1>2. /\ UNCHANGED <<receiver, uLostReceivedPackets, gbAdcMsgIdErrorCntPAP, lost, again, due, crossed>>
      /\ receiver = "server" => fresh' = TRUE /\ wLastSeqCnt' = 0
      /\ receiver = "client" => hidden' = TRUE /\ UNCHANGED <<wLastSeqCnt, fresh>>
      /\ hidden' = TRUE \/ hidden' = hidden
      /\ \/ wMsgSeqCount' = 0 /\ missing' = 0
         \/ UNCHANGED <<wMsgSeqCount, missing>>
  BY DEF Count!NewSocket, Count!Restart
<1>3. receiver \in {"server", "client"}
  BY <1>1 DEF CountTypes
<1>4. CountTypes'
  <2>1. wMsgSeqCount' \in 0 .. Words - 1 /\ wLastSeqCnt' \in 0 .. Words - 1 /\ missing' \in 0 .. Gap
    BY <1>1, <1>2, WordIs DEF CountTypes
  <2>2. fresh' \in BOOLEAN /\ hidden' \in BOOLEAN /\ crossed' \in BOOLEAN
    BY <1>1, <1>2 DEF CountTypes
  <2> QED
    BY <1>1, <1>2, <2>1, <2>2 DEF CountTypes
<1>5. Count!TypeOK'
  BY <1>4 DEF Count!TypeOK, CountTypes
<1>6. Count!CountsLosses'
  BY <1>2, <1>3 DEF CountInv, Count!CountsLosses, Count!ServerCounts, Count!ClientCounts
<1>7. fresh' => wLastSeqCnt' = 0
  BY <1>2, <1>3 DEF CountInv
<1> QED
  BY <1>2, <1>3, <1>5, <1>6, <1>7 DEF CountInv

LEMMA StepCount == CountInv /\ [Count!Next]_(Count!vars) => CountInv'
<1>1. CountInv /\ UNCHANGED Count!vars => CountInv'
  BY DEF Count!vars, CountInv, Count!TypeOK, Count!CountsLosses, Count!ServerCounts,
         Count!ClientCounts, Count!FirstMissing
<1> QED
  BY <1>1, GiveUpKeeps, ReceiveKeeps, AnewKeeps DEF Count!Next

\* Whatever the widths of the numbers and of the counts and however many packets are given
\* up in a row: a server's count is what was lost and what its new sockets add, a client's
\* the number of gaps and of packets 0 (OnReceive of CServerSocket and of client 0).
THEOREM LossesAreCounted == Count!Spec => []Count!CountsLosses
<1>1. CountInv => Count!CountsLosses
  BY DEF CountInv
<1> QED
  BY <1>1, CountStarts, StepCount, PTL DEF Count!Spec

\* The run that exercises the parts, one at a time, does with the counts what SeqCount does.
LEMMA PartsCount == MCSpec => Count!Spec
<1>1. MCInit => Count!Init
  BY DEF MCInit
<1>2. ASSUME [MCNext]_<<part, data, others>> PROVE [Count!Next]_(Count!vars)
  <2>1. UNCHANGED memories => UNCHANGED counts
    BY DEF memories
  <2>2. UNCHANGED others => UNCHANGED memories
    BY DEF others
  <2>3. UNCHANGED <<part, data, others>> => UNCHANGED others
    OBVIOUS
  <2>4. Keeping => Count!Next \/ UNCHANGED counts
    BY DEF Keeping
  <2>5. MCNext => Keeping \/ UNCHANGED others \/ UNCHANGED memories
    BY DEF MCNext
  <2>6. UNCHANGED counts => UNCHANGED Count!vars
    BY DEF counts, Count!vars
  <2> QED
    BY <1>2, <2>1, <2>2, <2>3, <2>4, <2>5, <2>6
<1> QED
  BY <1>1, <1>2, PTL DEF MCSpec, Count!Spec

\* The same of the run.
THEOREM PartsCountLosses == MCSpec => []CountsLosses
<1>1. Count!CountsLosses => CountsLosses
  BY DEF CountsLosses
<1> QED
  BY <1>1, PartsCount, LossesAreCounted, PTL

-----------------------------------------------------------------------------
(* The shut-down of the connection to the PAG, for lists and queues of any *)
(* length.                                                                 *)

\* The places of all threads and the messages there are.
Labels ==
  {"idle", "gone", "onClose", "killSocket", "killRecv", "killed", "exit", "exitSocket", "busy",
   "queue", "run", "waitTester", "sleepKill", "waitSocket", "sleep20", "wait rcv", "wait snd",
   "wait cmd", "delete", "lists", "last rcv", "last snd", "last cmd", "done"}
WorkerMessages ==
  {<<"snd", "send">>, <<"cmd", "packets">>, <<"snd", "kill">>, <<"cmd", "kill">>}
RcvMessages == FromGui \cup {"init", "tick", "packet", "close"}

\* No message of the GUI thread waits at the receive thread, or only the first is one.
NoKills(q) == \A k \in FromGui : ~Contains(q, k)
FirstIs(q, m) == q # << >> /\ Head(q) = m /\ NoKills(Tail(q))

\* Where each thread can be.
Places ==
  /\ pc["rcv"] \in {"idle", "onClose", "killSocket", "killRecv", "killed", "exit", "exitSocket", "gone"}
  /\ pc["snd"] \in {"idle", "busy", "gone"} /\ pc["cmd"] \in {"idle", "busy", "gone"}
  /\ pc["feeder"] \in {"idle", "queue"}
  /\ pc["gui"] \in {"run", "waitTester", "sleepKill", "waitSocket", "sleep20", "wait rcv",
                    "wait snd", "wait cmd", "delete", "lists", "last rcv", "last snd",
                    "last cmd", "done"}

\* What holds however long the waits are.
BaseInv ==
  /\ TypeOK /\ Places
  /\ pc["feeder"] = "queue" => sendList < MaxPackets
  /\ pc["gui"] \in {"lists", "last rcv", "last snd", "last cmd", "done"} => sendList = Gone

\* To a PAP to which nobody was talking nobody begins to talk.
CalmInv ==
  /\ crashed \in {"no", "rcv"}
  /\ calm => crashed = "no" /\ ~traffic /\ pc["feeder"] = "idle" /\ sendList \in {0, Gone}

\* The socket is deleted by the receive thread alone, which sleeps on it until the others
\* have done what was to be done.
Settled ==
  /\ pc["cmd"] # "busy" /\ <<"cmd", "packets">> \notin msgs
  /\ pc["snd"] # "busy" /\ pc["feeder"] = "idle"

SocketInv ==
  /\ pSocket # "open" => ~Contains(rcvMsgs, "packet") /\ ~Contains(rcvMsgs, "close")
  /\ pc["rcv"] \in {"onClose", "killSocket", "killRecv"} => pSocket = "closed"
  /\ pSocket = "closed" => pc["rcv"] \in {"onClose", "killSocket", "killRecv", "exitSocket"}
  /\ pc["rcv"] \in {"killed", "gone"} => pSocket = "null"
  /\ pc["rcv"] = "exitSocket" => pSocket # "open"
  /\ pSocket = "null" => Settled

ThreadInv ==
  /\ \A t \in Workers : t \in pThread <=> pc[t] # "gone"
  /\ sendList = Gone <=> pc["rcv"] = "gone"
  /\ ~ccm => pc["gui"] = "done"
  /\ ~quit => pc["rcv"] \notin {"killed", "exit", "exitSocket", "gone"}

\* How the receive thread comes to its end,
ReceiveInv ==
  /\ pc["gui"] \in {"run", "waitTester"} =>
       ~quit /\ NoKills(rcvMsgs) /\ pc["rcv"] \in {"idle", "onClose"}
  /\ pc["gui"] = "sleepKill" =>
       /\ ~quit
       /\ \/ pc["rcv"] = "idle" /\ pSocket = "open" /\ FirstIs(rcvMsgs, "killSocket")
          \/ pc["rcv"] = "killSocket" /\ NoKills(rcvMsgs)
  /\ pc["gui"] = "waitSocket" => ~quit /\ pc["rcv"] = "killSocket" /\ NoKills(rcvMsgs)
  /\ pc["gui"] = "sleep20" =>
       /\ NoKills(rcvMsgs)
       /\ pc["rcv"] # "killRecv" /\ (quit => pc["rcv"] # "killSocket")
  /\ pc["gui"] = "wait rcv" =>
       \/ ~quit /\ pc["rcv"] = "idle" /\ FirstIs(rcvMsgs, "killRecv")
       \/ NoKills(rcvMsgs) /\ pc["rcv"] = "killRecv"
       \/ NoKills(rcvMsgs) /\ quit /\ pc["rcv"] # "killSocket"
  /\ pc["gui"] \notin {"run", "waitTester", "sleepKill", "waitSocket", "sleep20", "wait rcv"} =>
       pc["rcv"] = "gone"

\* and the two others.  The send thread has nothing to do meanwhile.
WorkerInv ==
  /\ pc["gui"] \notin {"run", "waitTester"} =>
       ~Contains(rcvMsgs, "tick") /\ pc["snd"] # "busy" /\ <<"snd", "send">> \notin msgs
  /\ pc["gui"] \in {"run", "waitTester", "sleepKill", "waitSocket", "sleep20", "wait rcv"} =>
       \A t \in {"snd", "cmd"} : pc[t] # "gone" /\ <<t, "kill">> \notin msgs
  /\ pc["gui"] = "wait snd" =>
       /\ pc["cmd"] # "gone" /\ <<"cmd", "kill">> \notin msgs
       /\ pc["snd"] = "gone" \/ <<"snd", "kill">> \in msgs
  /\ pc["gui"] = "wait cmd" =>
       pc["snd"] = "gone" /\ (pc["cmd"] = "gone" \/ <<"cmd", "kill">> \in msgs)
  /\ pc["gui"] \in {"delete", "lists", "last rcv", "last snd", "last cmd", "done"} => WorkersGone

PatientInv == CalmInv /\ SocketInv /\ ThreadInv /\ ReceiveInv /\ WorkerInv

DownInv == BaseInv /\ (patient => PatientInv)

-----------------------------------------------------------------------------
\* A queue of the receive thread with a message more, and with some less.
LEMMA Appended ==
  ASSUME NEW q \in Seq(RcvMessages), NEW m \in RcvMessages
  PROVE  /\ Append(q, m) \in Seq(RcvMessages)
         /\ \A k \in RcvMessages : Contains(Append(q, m), k) <=> Contains(q, k) \/ k = m
         /\ NoKills(q) /\ m \notin FromGui => NoKills(Append(q, m))
         /\ \A k : FirstIs(q, k) /\ m \notin FromGui => FirstIs(Append(q, m), k)
         /\ q = << >> => FirstIs(Append(q, m), m)
<1>1. /\ Append(q, m) \in Seq(RcvMessages) /\ Len(Append(q, m)) = Len(q) + 1 /\ Len(q) \in Nat
      /\ \A j \in 1 .. Len(q) : Append(q, m)[j] = q[j]
      /\ Append(q, m)[Len(q) + 1] = m
  OBVIOUS
<1>2. \A k : Contains(Append(q, m), k) <=> Contains(q, k) \/ k = m
  <2> SUFFICES ASSUME NEW k PROVE Contains(Append(q, m), k) <=> Contains(q, k) \/ k = m
    OBVIOUS
  <2>1. Contains(Append(q, m), k) => Contains(q, k) \/ k = m
    BY <1>1 DEF Contains
  <2>2. Contains(q, k) => Contains(Append(q, m), k)
    BY <1>1 DEF Contains
  <2>3. k = m => Contains(Append(q, m), k)
    <3>1. Len(q) + 1 \in 1 .. Len(Append(q, m))
      BY <1>1
    <3> QED
      BY <1>1, <3>1 DEF Contains
  <2> QED
    BY <2>1, <2>2, <2>3
<1>3. NoKills(q) /\ m \notin FromGui => NoKills(Append(q, m))
  BY <1>2 DEF NoKills
<1>4. ASSUME NEW k, FirstIs(q, k), m \notin FromGui PROVE FirstIs(Append(q, m), k)
  <2>1. q # << >> /\ Head(q) = k /\ NoKills(Tail(q)) /\ Len(q) > 0
    BY <1>4 DEF FirstIs
  <2>2. Append(q, m) # << >> /\ Head(Append(q, m)) = k
    BY <1>1, <2>1
  <2>3. Tail(q) \in Seq(RcvMessages) /\ Tail(Append(q, m)) = Append(Tail(q), m)
    <3>1. Tail(q) \in Seq(RcvMessages) /\ Len(Tail(q)) = Len(q) - 1
          /\ \A j \in 1 .. Len(q) - 1 : Tail(q)[j] = q[j + 1]
      BY <2>1
    <3>2. /\ Tail(Append(q, m)) \in Seq(RcvMessages) /\ Len(Tail(Append(q, m))) = Len(q)
          /\ \A j \in 1 .. Len(q) : Tail(Append(q, m))[j] = Append(q, m)[j + 1]
      BY <1>1, <2>1, <2>2
    <3>3. /\ Append(Tail(q), m) \in Seq(RcvMessages) /\ Len(Append(Tail(q), m)) = Len(q)
          /\ \A j \in 1 .. Len(q) - 1 : Append(Tail(q), m)[j] = Tail(q)[j]
          /\ Append(Tail(q), m)[Len(q)] = m
      BY <1>1, <3>1
    <3>4. ASSUME NEW j \in 1 .. Len(q) PROVE Tail(Append(q, m))[j] = Append(Tail(q), m)[j]
      <4>1. CASE j = Len(q)
        BY <1>1, <3>2, <3>3, <4>1
      <4>2. CASE j # Len(q)
        <5>1. j \in 1 .. Len(q) - 1 /\ j + 1 \in 1 .. Len(q)
          BY <1>1, <4>2
        <5> QED
          BY <1>1, <3>1, <3>2, <3>3, <5>1
      <4> QED
        BY <4>1, <4>2
    <3> QED
      BY <3>1, <3>2, <3>3, <3>4, SeqEqual
  <2>4. NoKills(Append(Tail(q), m))
    <3>1. \A k2 \in FromGui : Contains(Append(Tail(q), m), k2) => Contains(Tail(q), k2) \/ k2 = m
      <4> DEFINE r == Tail(q)
      <4>1. r \in Seq(RcvMessages)
        BY <2>3
      <4> HIDE DEF r
      <4>2. /\ Append(r, m) \in Seq(RcvMessages) /\ Len(Append(r, m)) = Len(r) + 1 /\ Len(r) \in Nat
            /\ \A j \in 1 .. Len(r) : Append(r, m)[j] = r[j]
            /\ Append(r, m)[Len(r) + 1] = m
        BY <4>1
      <4>3. \A k2 : Contains(Append(r, m), k2) => Contains(r, k2) \/ k2 = m
        BY <4>2 DEF Contains
      <4> QED
        BY <4>3 DEF r
    <3> QED
      BY <1>4, <2>1, <3>1 DEF NoKills
  <2> QED
    BY <2>2, <2>3, <2>4 DEF FirstIs
<1>5. ASSUME q = << >> PROVE FirstIs(Append(q, m), m)
  <2>1. Len(q) = 0 /\ Append(q, m) # << >> /\ Head(Append(q, m)) = m
    BY <1>1, <1>5
  <2>2. Len(Tail(Append(q, m))) = 0
    BY <1>1, <2>1
  <2>3. NoKills(Tail(Append(q, m)))
    BY <2>2 DEF NoKills, Contains
  <2> QED
    BY <2>1, <2>3 DEF FirstIs
<1> QED
  BY <1>1, <1>2, <1>3, <1>4, <1>5

LEMMA Shortened ==
  ASSUME NEW q \in Seq(RcvMessages), q # << >>
  PROVE  /\ Tail(q) \in Seq(RcvMessages) /\ Head(q) \in RcvMessages
         /\ Contains(q, Head(q))
         /\ \A k : Contains(Tail(q), k) => Contains(q, k)
         /\ NoKills(q) => NoKills(Tail(q))
         /\ \A k : FirstIs(q, k) => Head(q) = k /\ NoKills(Tail(q))
<1>1. /\ Tail(q) \in Seq(RcvMessages) /\ Len(Tail(q)) = Len(q) - 1 /\ Len(q) \in Nat \ {0}
      /\ \A j \in 1 .. Len(q) - 1 : Tail(q)[j] = q[j + 1]
      /\ Head(q) = q[1] /\ Head(q) \in RcvMessages
  OBVIOUS
<1>2. Contains(q, Head(q))
  BY <1>1 DEF Contains
<1>3. ASSUME NEW k, Contains(Tail(q), k) PROVE Contains(q, k)
  <2>1. PICK j \in 1 .. Len(q) - 1 : Tail(q)[j] = k
    BY <1>1, <1>3 DEF Contains
  <2>2. j + 1 \in 1 .. Len(q) /\ q[j + 1] = k
    BY <1>1, <2>1
  <2> QED
    BY <2>2 DEF Contains
<1> QED
  BY <1>1, <1>2, <1>3 DEF NoKills, FirstIs

LEMMA NotificationsGo ==
  ASSUME NEW q \in Seq(RcvMessages), NoNotifications(q)
  PROVE  /\ rcvMsgs' \in Seq(RcvMessages)
         /\ \A k : Contains(rcvMsgs', k) => Contains(q, k) /\ k \notin {"packet", "close"}
         /\ NoKills(q) => NoKills(rcvMsgs')
<1>1. PICK n \in 0 .. Len(q) : \E stays \in [1 .. n -> DOMAIN q] :
        /\ {stays[j] : j \in 1 .. n} = {j \in DOMAIN q : q[j] \notin {"packet", "close"}}
        /\ rcvMsgs' = [j \in 1 .. n |-> q[stays[j]]]
  BY DEF NoNotifications
<1>2. PICK stays \in [1 .. n -> DOMAIN q] :
        /\ {stays[j] : j \in 1 .. n} = {j \in DOMAIN q : q[j] \notin {"packet", "close"}}
        /\ rcvMsgs' = [j \in 1 .. n |-> q[stays[j]]]
  BY <1>1
<1>3. DOMAIN q = 1 .. Len(q) /\ n \in Nat /\ \A j \in 1 .. Len(q) : q[j] \in RcvMessages
  BY <1>1
<1>4. \A j \in 1 .. n : stays[j] \in 1 .. Len(q) /\ q[stays[j]] \notin {"packet", "close"}
  BY <1>2, <1>3
<1>5. rcvMsgs' \in Seq(RcvMessages) /\ Len(rcvMsgs') = n
      /\ \A j \in 1 .. n : rcvMsgs'[j] = q[stays[j]]
  BY <1>2, <1>3, <1>4
<1>6. \A k : Contains(rcvMsgs', k) => Contains(q, k) /\ k \notin {"packet", "close"}
  BY <1>4, <1>5 DEF Contains
<1> QED
  BY <1>5, <1>6 DEF NoKills

-----------------------------------------------------------------------------
(* Types and places, however long the waits are.                           *)

\* A step of one thread leaves the others where they are.
LEMMA Gone1 ==
  ASSUME TypeOK, NEW t \in Threads, NEW l, Goto(t, l)
  PROVE  pc'[t] = l /\ \A u \in Threads \ {t} : pc'[u] = pc[u]
BY DEF TypeOK, Goto

LEMMA PlacesKept ==
  ASSUME BaseInv, NEW t \in Threads, NEW l, Goto(t, l),
         \/ t = "rcv" /\ l \in {"idle", "onClose", "killSocket", "killRecv", "killed", "exit",
                                "exitSocket", "gone"}
         \/ t \in {"snd", "cmd"} /\ l \in {"idle", "busy", "gone"}
         \/ t = "feeder" /\ l \in {"idle", "queue"}
         \/ t = "gui" /\ l \in {"run", "waitTester", "sleepKill", "waitSocket", "sleep20",
                                "wait rcv", "wait snd", "wait cmd", "delete", "lists", "last rcv",
                                "last snd", "last cmd", "done"}
  PROVE  /\ Places'
         /\ pc' \in [Threads -> Labels]
<1>1. pc'[t] = l /\ \A u \in Threads \ {t} : pc'[u] = pc[u]
  BY Gone1 DEF BaseInv
<1>2. {"rcv", "snd", "cmd", "feeder", "gui"} = Threads
  BY DEF Threads, Workers
<1>3. Places'
  BY <1>1, <1>2 DEF BaseInv, Places
<1> QED
  BY <1>3 DEF BaseInv, TypeOK, Goto, Labels

LEMMA Posted1 ==
  ASSUME TypeOK
  PROVE  /\ \A m \in RcvMessages : PostRcv(m) => rcvMsgs' \in Seq(RcvMessages)
         /\ \A t, m : <<t, m>> \in WorkerMessages /\ PostTo(t, m) =>
              msgs' \subseteq WorkerMessages
<1>1. rcvMsgs \in Seq(RcvMessages)
  BY DEF TypeOK, RcvMessages
<1>2. \A m \in RcvMessages : PostRcv(m) => rcvMsgs' \in Seq(RcvMessages)
  BY <1>1 DEF PostRcv
<1> QED
  BY <1>2 DEF TypeOK, PostTo, WorkerMessages

LEMMA CrashBase == ASSUME BaseInv, NEW t \in Threads \cup {"tester"}, Crash(t) PROVE BaseInv'
<1>1. crashed' = t /\ UNCHANGED <<outside, state, queues, pc>>
  BY DEF Crash
<1>2. Places'
  BY <1>1 DEF BaseInv, Places
<1>3. TypeOK'
  BY <1>1 DEF BaseInv, TypeOK, outside, state, queues
<1> QED
  BY <1>1, <1>2, <1>3 DEF BaseInv, state

LEMMA OutsideBase == BaseInv /\ (TrafficEnds \/ PagCommands \/ PagCloses) => BaseInv'
<1> SUFFICES ASSUME BaseInv, TrafficEnds \/ PagCommands \/ PagCloses PROVE BaseInv'
  OBVIOUS
<1>1. rcvMsgs' \in Seq(RcvMessages)
  BY Posted1 DEF BaseInv, TypeOK, TrafficEnds, PagCommands, PagCloses, Notify, Outside, RcvMessages
<1> QED
  BY <1>1 DEF BaseInv, TypeOK, Places, TrafficEnds, PagCommands, PagCloses, Notify, Outside,
     RcvMessages

LEMMA ReceiveBase == MaxPackets \in Nat /\ BaseInv /\ (Receive \/ RcvQuits) => BaseInv'
<1> SUFFICES ASSUME MaxPackets \in Nat, BaseInv, Receive \/ RcvQuits PROVE BaseInv'
  OBVIOUS
<1>1. "rcv" \in Threads /\ "gui" \in Threads /\ "feeder" \in Threads /\ "rcv" # "gui"
  BY DEF Threads, Workers
<1>2. rcvMsgs \in Seq(RcvMessages)
  BY DEF BaseInv, TypeOK, RcvMessages
<1>3. Rest /\ rcvMsgs # << >> => rcvMsgs' \in Seq(RcvMessages)
  BY <1>2, Shortened DEF Rest
<1>4. ASSUME NEW l, Goto("rcv", l) PROVE pc'["gui"] = pc["gui"] /\ pc'["feeder"] = pc["feeder"]
  BY <1>1, <1>4, Gone1 DEF BaseInv
<1>5. Crash("rcv") => BaseInv'
  BY <1>1, CrashBase
<1>6. ASSUME NEW l \in {"idle", "onClose", "killSocket", "killRecv", "killed", "exit", "exitSocket", "gone"},
             Goto("rcv", l), UNCHANGED <<patient, traffic, calm, ccm, pThread, msgs, crashed>>,
             pSocket' \in {"null", "open", "closed"}, rcvMsgs' \in Seq(RcvMessages),
             quit' \in BOOLEAN, UNCHANGED <<sendList, rcvList>>
      PROVE  BaseInv'
  <2>1. Places' /\ pc' \in [Threads -> Labels]
    BY <1>1, <1>6, PlacesKept
  <2> QED
    BY <1>4, <1>6, <2>1 DEF BaseInv, TypeOK, RcvMessages, Labels
<1>7. ASSUME UNCHANGED <<patient, traffic, calm, ccm, sendList, pThread, pc, crashed>>,
             pSocket' \in {"null", "open", "closed"}, rcvMsgs' \in Seq(RcvMessages),
             quit' \in BOOLEAN, msgs' \subseteq WorkerMessages, rcvList' \in Gone .. MaxPackets,
             rcvList' = Gone <=> rcvList = Gone
      PROVE  BaseInv'
  <2>1. Places'
    BY <1>7 DEF BaseInv, Places
  <2>2. TypeOK'
    BY <1>7 DEF BaseInv, TypeOK, RcvMessages, WorkerMessages
  <2> QED
    BY <1>7, <2>1, <2>2 DEF BaseInv
<1> USE DEF Gets, At, Fine, outside, state, queues
<1>8. CASE InitTcpThread
  BY <1>3, <1>5, <1>7, <1>8 DEF InitTcpThread, Through, BaseInv, TypeOK, WorkerMessages
<1>9. CASE OnTimer
  <2>1. CASE Crash("rcv")
    BY <1>5, <2>1
  <2>2. CASE ~Crash("rcv")
    <3>1. msgs' \subseteq WorkerMessages
      BY <1>9, <2>2, Posted1 DEF OnTimer, Through, BaseInv, TypeOK, WorkerMessages
    <3>2. pSocket' \in {"null", "open", "closed"}
      BY <1>9, <2>2 DEF OnTimer, Through, BaseInv, TypeOK
    <3> QED
      BY <1>3, <1>7, <1>9, <2>2, <3>1, <3>2 DEF OnTimer, Through, BaseInv, TypeOK
  <2> QED
    BY <2>1, <2>2
<1>10. CASE OnReceive
  <2>1. CASE Crash("rcv")
    BY <1>5, <2>1
  <2>2. CASE ~Crash("rcv")
    <3>1. msgs' \subseteq WorkerMessages
      BY <1>10, <2>2, Posted1 DEF OnReceive, Through, BaseInv, TypeOK, WorkerMessages
    <3>2. rcvList' \in Gone .. MaxPackets /\ (rcvList' = Gone <=> rcvList = Gone)
      <4>1. rcvList' = IF rcvList \in 0 .. MaxPackets - 1 THEN rcvList + 1 ELSE rcvList
        BY <1>10, <2>2 DEF OnReceive, Through
      <4>2. rcvList \in Gone .. MaxPackets
        BY DEF BaseInv, TypeOK
      <4> QED
        BY <4>1, <4>2 DEF Gone
    <3> QED
      BY <1>3, <1>7, <1>10, <2>2, <3>1, <3>2 DEF OnReceive, Through, BaseInv, TypeOK
  <2> QED
    BY <2>1, <2>2
<1>11. ASSUME NEW l \in {"onClose", "killSocket", "killRecv"}, rcvMsgs # << >>, Through(Close(l)) PROVE BaseInv'
  <2>1. CASE Crash("rcv")
    BY <1>5, <2>1
  <2>2. CASE ~Crash("rcv")
    <3>1. NoNotifications(Tail(rcvMsgs)) /\ Tail(rcvMsgs) \in Seq(RcvMessages)
      BY <1>2, <1>11, <2>2, Shortened DEF Through, Close
    <3>2. rcvMsgs' \in Seq(RcvMessages)
      BY <3>1, NotificationsGo
    <3> QED
      BY <1>6, <1>11, <2>2, <3>2 DEF Through, Close, BaseInv, TypeOK
  <2> QED
    BY <2>1, <2>2
<1>12. CASE OnClose
  BY <1>11, <1>12 DEF OnClose
<1>13. CASE SocketForgotten
  BY <1>2, <1>5, <1>6, <1>13 DEF SocketForgotten, Through, BaseInv, TypeOK
<1>14. CASE KillSocket
  <2>1. CASE pSocket # "null"
    BY <1>11, <1>14, <2>1 DEF KillSocket
  <2>2. CASE pSocket = "null"
    BY <1>3, <1>6, <1>14, <2>2 DEF KillSocket, BaseInv, TypeOK
  <2> QED
    BY <2>1, <2>2
<1>15. CASE KillReceiveThread
  <2>1. CASE pSocket # "null"
    BY <1>11, <1>15, <2>1 DEF KillReceiveThread
  <2>2. CASE pSocket = "null"
    BY <1>3, <1>7, <1>15, <2>2 DEF KillReceiveThread, BaseInv, TypeOK, WorkerMessages
  <2> QED
    BY <2>1, <2>2
<1>16. CASE SocketKilled
  BY <1>2, <1>5, <1>6, <1>16 DEF SocketKilled, Through, BaseInv, TypeOK
<1>17. CASE KillSlept
  BY <1>2, <1>6, <1>17 DEF KillSlept, BaseInv, TypeOK
<1>18. CASE RcvQuits
  BY <1>2, <1>6, <1>18 DEF RcvQuits, BaseInv, TypeOK
<1>19. CASE ExitNothing
  BY <1>2, <1>6, <1>19 DEF ExitNothing, BaseInv, TypeOK
<1>20. CASE ExitSocket
  <2>1. rcvMsgs' \in Seq(RcvMessages)
    BY <1>2, <1>20, NotificationsGo DEF ExitSocket
  <2> QED
    BY <1>6, <1>20, <2>1 DEF ExitSocket, BaseInv, TypeOK
<1>21. CASE ExitLists
  <2>1. CASE sendList # 0
    BY <1>5, <1>21, <2>1 DEF ExitLists
  <2>2. CASE sendList = 0
    <3>1. Goto("rcv", "gone") /\ pSocket' = "null" /\ rcvList' = Gone /\ sendList' = Gone
          /\ pThread' = pThread \ {"rcv"} /\ UNCHANGED <<patient, traffic, calm, crashed, ccm, rcvMsgs, msgs, quit>>
      BY <1>21, <2>2 DEF ExitLists
    <3>2. Places' /\ pc' \in [Threads -> Labels]
      BY <1>1, <3>1, PlacesKept
    <3>3. Gone < MaxPackets /\ Gone \in Gone .. MaxPackets
      BY DEF Gone
    <3> QED
      BY <1>4, <3>1, <3>2, <3>3 DEF BaseInv, TypeOK, Labels
  <2> QED
    BY <2>1, <2>2
<1> QED
  BY <1>8, <1>9, <1>10, <1>12, <1>13, <1>14, <1>15, <1>16, <1>17, <1>18, <1>19, <1>20, <1>21 DEF Receive

LEMMA WorkersBase == MaxPackets \in Nat /\ BaseInv /\ (Send \/ Command) => BaseInv'
<1> SUFFICES ASSUME MaxPackets \in Nat, BaseInv, Send \/ Command PROVE BaseInv'
  OBVIOUS
<1>0. MaxPackets \in Int /\ MaxPackets >= 0
  OBVIOUS
<1>1. /\ Threads = {"rcv", "snd", "cmd", "feeder", "gui"}
      /\ "rcv" \in Threads /\ "snd" \in Threads /\ "cmd" \in Threads
  BY DEF Threads, Workers
<1>2. ASSUME NEW t \in {"snd", "cmd"}, NEW l, Goto(t, l)
      PROVE  pc'["gui"] = pc["gui"] /\ pc'["feeder"] = pc["feeder"]
  BY <1>1, <1>2, Gone1 DEF BaseInv
<1>3. ASSUME NEW t \in {"snd", "cmd"}, NEW l \in {"idle", "busy", "gone"}, Goto(t, l),
             UNCHANGED <<patient, traffic, calm, ccm, pSocket, rcvMsgs, quit, crashed>>,
             pThread' \subseteq Workers, msgs' \subseteq WorkerMessages,
             sendList' \in Gone .. sendList, sendList' = Gone <=> sendList = Gone,
             UNCHANGED rcvList
      PROVE  BaseInv'
  <2>1. Places' /\ pc' \in [Threads -> Labels]
    BY <1>1, <1>3, PlacesKept
  <2>2. MaxPackets \in Int /\ sendList \in Gone .. MaxPackets /\ Gone = -1
    BY <1>0 DEF BaseInv, TypeOK, Gone
  <2>7. sendList' \in Gone .. MaxPackets
    BY <1>3, <2>2
  <2>3. TypeOK'
    BY <1>3, <2>1, <2>7 DEF BaseInv, TypeOK, Labels, WorkerMessages
  <2>4. pc["feeder"] = "queue" => sendList < MaxPackets
    BY DEF BaseInv
  <2>5. pc'["feeder"] = "queue" => sendList' < MaxPackets
    BY <1>2, <1>3, <2>2, <2>4
  <2>6. pc["gui"] \in {"lists", "last rcv", "last snd", "last cmd", "done"} => sendList = Gone
    BY DEF BaseInv
  <2> QED
    BY <1>2, <1>3, <2>1, <2>3, <2>5, <2>6 DEF BaseInv
<1>4. ASSUME UNCHANGED <<patient, traffic, calm, ccm, pSocket, pThread, queues, pc, crashed>>,
             sendList' \in Gone .. sendList, sendList' = Gone <=> sendList = Gone,
             rcvList' \in Gone .. rcvList, rcvList' = Gone <=> rcvList = Gone
      PROVE  BaseInv'
  <2>1. MaxPackets \in Int /\ sendList \in Gone .. MaxPackets /\ rcvList \in Gone .. MaxPackets
        /\ Gone = -1
    BY <1>0 DEF BaseInv, TypeOK, Gone
  <2>2. sendList' \in Gone .. MaxPackets /\ rcvList' \in Gone .. MaxPackets
    BY <1>4, <2>1
  <2>3. TypeOK'
    BY <1>4, <2>2 DEF BaseInv, TypeOK, queues
  <2>4. pc["feeder"] = "queue" => sendList < MaxPackets
    BY DEF BaseInv
  <2>5. pc'["feeder"] = "queue" => sendList' < MaxPackets
    BY <1>4, <2>1, <2>4
  <2>6. Places'
    BY <1>4 DEF BaseInv, Places
  <2> QED
    BY <1>4, <2>3, <2>5, <2>6 DEF BaseInv
<1>5. \A t \in Threads : Crash(t) => BaseInv'
  BY CrashBase
<1>6. sendList \in Int /\ rcvList \in Int /\ Gone = -1 /\ sendList >= -1 /\ rcvList >= -1
      /\ pThread \subseteq Workers /\ msgs \subseteq WorkerMessages
  <2>1. sendList \in Gone .. MaxPackets /\ rcvList \in Gone .. MaxPackets /\ Gone = -1
    BY DEF BaseInv, TypeOK, Gone
  <2>2. pThread \subseteq Workers /\ msgs \subseteq WorkerMessages
    BY DEF BaseInv, TypeOK, WorkerMessages
  <2> QED
    BY <1>0, <2>1, <2>2
<1> USE DEF Fine, outside, state, queues
<1>7. CASE TransmitPackets
  <2>1. CASE Crash("snd")
    BY <1>1, <1>5, <2>1
  <2>2. CASE ~Crash("snd")
    <3>1. /\ sendList # Gone /\ Taken("snd", "send")
          /\ sendList' = IF pSocket = "null" THEN 0 ELSE sendList
          /\ Goto("snd", IF pSocket = "null" \/ sendList = 0 THEN "idle" ELSE "busy")
          /\ UNCHANGED <<patient, traffic, calm, ccm, pSocket, rcvList, pThread, rcvMsgs, quit, crashed>>
      BY <1>7, <2>2 DEF TransmitPackets
    <3>2. msgs' \subseteq WorkerMessages /\ sendList' \in Gone .. sendList /\ sendList' # Gone
      BY <1>6, <3>1 DEF Taken
    <3>3. PICK l \in {"idle", "busy", "gone"} : Goto("snd", l)
      BY <3>1
    <3> QED
      BY <1>3, <1>6, <3>1, <3>2, <3>3
  <2> QED
    BY <2>1, <2>2
<1>8. CASE SendNext
  <2>1. CASE Crash("snd")
    BY <1>1, <1>5, <2>1
  <2>2. CASE sendList > 0 /\ sendList' = sendList - 1
             /\ Fine /\ UNCHANGED <<ccm, pSocket, rcvList, pThread, queues, pc>>
    <3>1. sendList' \in Gone .. sendList /\ sendList' # Gone /\ sendList # Gone
          /\ rcvList' \in Gone .. rcvList
      BY <1>6, <2>2
    <3> QED
      BY <1>4, <2>2, <3>1
  <2>3. CASE Goto("snd", "idle") /\ Fine /\ UNCHANGED <<state, queues>>
    <3>1. sendList' \in Gone .. sendList
      BY <1>6, <2>3
    <3> QED
      BY <1>3, <1>6, <2>3, <3>1
  <2> QED
    BY <1>8, <2>1, <2>2, <2>3 DEF SendNext
<1>9. CASE ProcessReceivedMessage
  <2>1. /\ Taken("cmd", "packets") /\ Goto("cmd", IF ~ccm \/ rcvList = Gone THEN "idle" ELSE "busy")
        /\ Fine /\ UNCHANGED <<state, rcvMsgs, quit>>
    BY <1>9 DEF ProcessReceivedMessage
  <2>2. msgs' \subseteq WorkerMessages /\ sendList' \in Gone .. sendList
    BY <1>6, <2>1 DEF Taken
  <2>3. PICK l \in {"idle", "busy", "gone"} : Goto("cmd", l)
    BY <2>1
  <2> QED
    BY <1>3, <1>6, <2>1, <2>2, <2>3
<1>10. CASE CommandNext
  <2>1. CASE Crash("cmd")
    BY <1>1, <1>5, <2>1
  <2>2. CASE rcvList > 0 /\ rcvList' = rcvList - 1
             /\ Fine /\ UNCHANGED <<ccm, pSocket, sendList, pThread, queues, pc>>
    <3>1. rcvList' \in Gone .. rcvList /\ rcvList' # Gone /\ rcvList # Gone
          /\ sendList' \in Gone .. sendList
      BY <1>6, <2>2
    <3> QED
      BY <1>4, <2>2, <3>1
  <2>3. CASE Goto("cmd", "idle") /\ Fine /\ UNCHANGED <<state, queues>>
    <3>1. sendList' \in Gone .. sendList
      BY <1>6, <2>3
    <3> QED
      BY <1>3, <1>6, <2>3, <3>1
  <2> QED
    BY <1>10, <2>1, <2>2, <2>3 DEF CommandNext
<1>11. ASSUME NEW t \in {"snd", "cmd"}, Exit(t) PROVE BaseInv'
  <2>1. /\ Goto(t, "gone") /\ pThread' = pThread \ {t} /\ Taken(t, "kill")
        /\ Fine /\ UNCHANGED <<ccm, pSocket, sendList, rcvList, rcvMsgs, quit>>
    BY <1>11 DEF Exit
  <2>2. msgs' \subseteq WorkerMessages /\ sendList' \in Gone .. sendList /\ pThread' \subseteq Workers
    BY <1>6, <2>1 DEF Taken
  <2> QED
    BY <1>3, <2>1, <2>2
<1> QED
  BY <1>7, <1>8, <1>9, <1>10, <1>11 DEF Send, Command

LEMMA OthersBase ==
  MaxPackets \in Nat /\ BaseInv /\ (SendIdataToPag \/ Queue \/ TimerTick \/ PressShutdown) => BaseInv'
<1> SUFFICES ASSUME MaxPackets \in Nat, BaseInv,
                    SendIdataToPag \/ Queue \/ TimerTick \/ PressShutdown
             PROVE  BaseInv'
  OBVIOUS
<1>0. MaxPackets \in Int /\ MaxPackets >= 0
  OBVIOUS
<1>1. /\ Threads = {"rcv", "snd", "cmd", "feeder", "gui"}
      /\ "feeder" \in Threads /\ "gui" \in Threads
  BY DEF Threads, Workers
<1>2. MaxPackets \in Int /\ sendList \in Gone .. MaxPackets /\ Gone = -1
      /\ msgs \subseteq WorkerMessages /\ rcvMsgs \in Seq(RcvMessages)
  BY <1>0 DEF BaseInv, TypeOK, Gone, WorkerMessages, RcvMessages
<1>3. ASSUME NEW m \in RcvMessages, PostRcv(m),
             UNCHANGED <<patient, traffic, calm, state, msgs, quit, pc, crashed>>
      PROVE  BaseInv'
  <2>1. rcvMsgs' \in Seq(RcvMessages)
    BY <1>3, Posted1 DEF BaseInv
  <2>2. TypeOK'
    BY <1>3, <2>1 DEF BaseInv, TypeOK, state, RcvMessages
  <2>3. Places'
    BY <1>3 DEF BaseInv, Places
  <2> QED
    BY <1>3, <2>2, <2>3 DEF BaseInv, state
<1> USE DEF Fine, outside, state, queues
<1>4. CASE SendIdataToPag
  <2>1. CASE pSocket = "null"
    BY <1>3, <1>4, <2>1 DEF SendIdataToPag, RcvMessages
  <2>2. CASE pSocket # "null"
    <3>1. sendList < MaxPackets /\ Goto("feeder", "queue") /\ Fine /\ UNCHANGED <<state, queues>>
      BY <1>4, <2>2 DEF SendIdataToPag
    <3>2. Places' /\ pc' \in [Threads -> Labels] /\ pc'["gui"] = pc["gui"]
      BY <1>1, <3>1, PlacesKept, Gone1 DEF BaseInv
    <3>3. TypeOK'
      BY <3>1, <3>2 DEF BaseInv, TypeOK, Labels
    <3> QED
      BY <3>1, <3>2, <3>3 DEF BaseInv
  <2> QED
    BY <2>1, <2>2
<1>5. CASE Queue
  <2>1. CASE Crash("feeder")
    BY <1>1, <2>1, CrashBase
  <2>2. CASE ~Crash("feeder")
    <3>1. /\ pc["feeder"] = "queue" /\ sendList # Gone /\ sendList' = sendList + 1
          /\ Goto("feeder", "idle")
          /\ Fine /\ UNCHANGED <<ccm, pSocket, rcvList, pThread, queues>>
      BY <1>5, <2>2 DEF Queue, At
    <3>2. Places' /\ pc' \in [Threads -> Labels] /\ pc'["gui"] = pc["gui"] /\ pc'["feeder"] = "idle"
      BY <1>1, <3>1, PlacesKept, Gone1 DEF BaseInv
    <3>3. sendList < MaxPackets
      BY <3>1 DEF BaseInv
    <3>4. sendList' \in Gone .. MaxPackets /\ sendList' # Gone
      BY <1>2, <3>1, <3>3
    <3>5. TypeOK'
      BY <3>1, <3>2, <3>4 DEF BaseInv, TypeOK, Labels
    <3> QED
      BY <3>1, <3>2, <3>5 DEF BaseInv
  <2> QED
    BY <2>1, <2>2
<1>6. CASE TimerTick
  <2>1. CASE Crash("tester")
    BY <2>1, CrashBase
  <2>2. CASE ~Crash("tester")
    BY <1>3, <1>6, <2>2 DEF TimerTick, RcvMessages
  <2> QED
    BY <2>1, <2>2
<1>7. CASE PressShutdown
  <2>1. GuiStep("run", "waitTester") /\ calm' \in BOOLEAN
        /\ UNCHANGED <<patient, traffic, state, queues, crashed>>
    BY <1>7 DEF PressShutdown
  <2>2. Goto("gui", "waitTester")
    BY <2>1 DEF GuiStep
  <2>3. /\ Places' /\ pc' \in [Threads -> Labels] /\ pc'["gui"] = "waitTester"
        /\ pc'["feeder"] = pc["feeder"]
    BY <1>1, <2>2, PlacesKept, Gone1 DEF BaseInv
  <2>4. TypeOK'
    BY <2>1, <2>3 DEF BaseInv, TypeOK, Labels
  <2> QED
    BY <2>1, <2>3, <2>4 DEF BaseInv
<1> QED
  BY <1>4, <1>5, <1>6, <1>7

LEMMA DestroyBase == MaxPackets \in Nat /\ BaseInv /\ DestroyCCM => BaseInv'
<1> SUFFICES ASSUME MaxPackets \in Nat, BaseInv, DestroyCCM PROVE BaseInv'
  OBVIOUS
<1>0. MaxPackets \in Int /\ Gone \in Gone .. MaxPackets /\ Gone < MaxPackets
  BY DEF Gone
<1>1. /\ Threads = {"rcv", "snd", "cmd", "feeder", "gui"} /\ "gui" \in Threads
  BY DEF Threads, Workers
<1>2. MaxPackets \in Int /\ sendList \in Gone .. MaxPackets /\ Gone = -1
      /\ msgs \subseteq WorkerMessages /\ rcvMsgs \in Seq(RcvMessages)
  BY <1>0 DEF BaseInv, TypeOK, Gone, WorkerMessages, RcvMessages
<1>3. ASSUME NEW l \in {"run", "waitTester", "sleepKill", "waitSocket", "sleep20", "wait rcv",
                        "wait snd", "wait cmd", "delete", "lists", "last rcv", "last snd",
                        "last cmd", "done"},
             Goto("gui", l), l \in {"lists", "last rcv", "last snd", "last cmd", "done"} => sendList' = Gone,
             UNCHANGED <<patient, traffic, calm, pSocket, pThread, quit, crashed>>, ccm' \in BOOLEAN,
             rcvMsgs' \in Seq(RcvMessages), msgs' \subseteq WorkerMessages,
             \/ UNCHANGED <<sendList, rcvList>> /\ (~ccm' => rcvList = Gone)
             \/ sendList' = Gone /\ rcvList' = Gone
      PROVE  BaseInv'
  <2>1. /\ Places' /\ pc' \in [Threads -> Labels] /\ pc'["gui"] = l /\ pc'["feeder"] = pc["feeder"]
    BY <1>1, <1>3, PlacesKept, Gone1 DEF BaseInv
  <2>2. sendList' \in Gone .. MaxPackets /\ rcvList' \in Gone .. MaxPackets
        /\ (rcvList' = Gone <=> sendList' = Gone)
    BY <1>0, <1>3 DEF BaseInv, TypeOK
  <2>3. TypeOK'
    BY <1>3, <2>1, <2>2 DEF BaseInv, TypeOK, Labels, WorkerMessages, RcvMessages
  <2>4. pc'["feeder"] = "queue" => sendList' < MaxPackets
    <3>1. pc["feeder"] = "queue" => sendList < MaxPackets
      BY DEF BaseInv
    <3> QED
      BY <1>0, <1>3, <2>1, <3>1
  <2> QED
    BY <1>3, <2>1, <2>3, <2>4 DEF BaseInv
<1> USE DEF Fine, outside, state, queues, GuiStep, At
<1>4. ~ccm => rcvList = Gone
  BY DEF BaseInv, TypeOK
<1>5. \A m \in RcvMessages : PostRcv(m) => rcvMsgs' \in Seq(RcvMessages)
  BY Posted1 DEF BaseInv
<1>6. ccm \in BOOLEAN
  BY DEF BaseInv, TypeOK
<1>7. CASE GuiKillSocket
  <2>1. rcvMsgs' \in Seq(RcvMessages)
    BY <1>2, <1>5, <1>7 DEF GuiKillSocket, RcvMessages, FromGui
  <2> QED
    BY <1>2, <1>3, <1>4, <1>6, <1>7, <2>1 DEF GuiKillSocket
<1>8. CASE SocketAsked
  BY <1>2, <1>3, <1>4, <1>6, <1>8 DEF SocketAsked
<1>9. CASE SocketWaited
  <2>1. CASE Crash("gui")
    BY <1>1, <2>1, CrashBase
  <2>2. CASE ~Crash("gui")
    <3>1. Goto("gui", "sleep20") /\ Fine /\ UNCHANGED <<state, queues>>
      BY <1>9, <2>2 DEF SocketWaited
    <3> QED
      BY <1>2, <1>3, <1>4, <1>6, <3>1
  <2> QED
    BY <2>1, <2>2
<1>10. ASSUME NEW from, NEW l \in {"wait rcv", "last rcv"}, GuiKillReceiveThread(from, l),
              l = "last rcv" => sendList = Gone
       PROVE  BaseInv'
  <2>1. rcvMsgs' \in Seq(RcvMessages)
    BY <1>2, <1>5, <1>10 DEF GuiKillReceiveThread, RcvMessages, FromGui
  <2> QED
    BY <1>2, <1>3, <1>4, <1>6, <1>10, <2>1 DEF GuiKillReceiveThread
<1>11. ASSUME NEW t \in {"snd", "cmd"}, NEW from,
              NEW l \in {"wait snd", "wait cmd", "last snd", "last cmd"}, GuiKill(t, from, l),
              l \in {"last snd", "last cmd"} => sendList = Gone
       PROVE  BaseInv'
  <2>1. msgs' \subseteq WorkerMessages
    BY <1>2, <1>11, Posted1 DEF GuiKill, WorkerMessages, BaseInv
  <2> QED
    BY <1>2, <1>3, <1>4, <1>6, <1>11, <2>1 DEF GuiKill
<1>12. pc["gui"] \in {"lists", "last rcv", "last snd", "last cmd", "done"} => sendList = Gone
  BY DEF BaseInv
<1>13. CASE KillThreads
  <2>1. CASE GuiKillReceiveThread("sleep20", "wait rcv")
    BY <1>10, <2>1
  <2>2. CASE GuiKill("snd", "wait rcv", "wait snd")
    BY <1>11, <2>2
  <2>3. CASE GuiKill("cmd", "wait snd", "wait cmd")
    BY <1>11, <2>3
  <2>4. CASE GuiStep("wait cmd", "delete") /\ Fine /\ UNCHANGED <<state, queues>>
    BY <1>2, <1>3, <1>4, <1>6, <2>4
  <2> QED
    BY <1>13, <2>1, <2>2, <2>3, <2>4 DEF KillThreads
<1>14. CASE DeleteLists
  BY <1>2, <1>3, <1>6, <1>14 DEF DeleteLists
<1>15. CASE KillThreadsAgain
  <2>1. CASE GuiKillReceiveThread("lists", "last rcv")
    <3>1. pc["gui"] = "lists"
      BY <2>1 DEF GuiKillReceiveThread
    <3> QED
      BY <1>10, <1>12, <2>1, <3>1
  <2>2. CASE GuiKill("snd", "last rcv", "last snd")
    <3>1. pc["gui"] = "last rcv"
      BY <2>2 DEF GuiKill
    <3> QED
      BY <1>11, <1>12, <2>2, <3>1
  <2>3. CASE GuiKill("cmd", "last snd", "last cmd")
    <3>1. pc["gui"] = "last snd"
      BY <2>3 DEF GuiKill
    <3> QED
      BY <1>11, <1>12, <2>3, <3>1
  <2> QED
    BY <1>15, <2>1, <2>2, <2>3 DEF KillThreadsAgain
<1>16. CASE Deleted
  <2>1. pc["gui"] = "last cmd"
    BY <1>16 DEF Deleted
  <2>2. sendList = Gone /\ rcvList = Gone
    BY <1>12, <2>1 DEF BaseInv, TypeOK
  <2> QED
    BY <1>2, <1>3, <1>16, <2>2 DEF Deleted
<1> QED
  BY <1>7, <1>8, <1>9, <1>13, <1>14, <1>15, <1>16 DEF DestroyCCM

-----------------------------------------------------------------------------
(* Time: what is so when a thread's wait ends.                             *)

LEMMA Waits ==
  ASSUME Places
  PROVE  /\ pc["gui"] = "waitTester" => Delay("gui") = 4
         /\ pc["gui"] = "sleepKill" => Delay("gui") = 1
         /\ pc["gui"] = "waitSocket" /\ pSocket # "open" => Delay("gui") = 1
         /\ pc["gui"] = "sleep20" => Delay("gui") = 3
         /\ pc["gui"] = "wait rcv" /\ "rcv" \in pThread => Delay("gui") = 4
         /\ pc["gui"] = "wait snd" /\ "snd" \in pThread => Delay("gui") = 4
         /\ pc["gui"] = "wait cmd" /\ "cmd" \in pThread => Delay("gui") = 4
         /\ pc["rcv"] \in {"onClose", "killSocket", "killRecv", "killed", "exitSocket"} =>
              Delay("rcv") = 2
         /\ pc["rcv"] = "idle" /\ (quit \/ rcvMsgs # << >>) => Delay("rcv") = 0
         /\ pc["rcv"] = "exit" => Delay("rcv") = 0
         /\ \A t \in {"snd", "cmd"} :
              /\ pc[t] = "busy" => Delay(t) = 0
              /\ pc[t] = "idle" /\ (\E m \in msgs : m[1] = t) => Delay(t) = 0
         /\ pc["feeder"] = "queue" => Delay("feeder") = 0
<1>1. /\ pc["gui"] = "waitTester" => Delay("gui") = 4
      /\ pc["gui"] = "sleepKill" => Delay("gui") = 1
      /\ pc["gui"] = "waitSocket" /\ pSocket # "open" => Delay("gui") = 1
      /\ pc["gui"] = "sleep20" => Delay("gui") = 3
  BY DEF Delay, Workers
<1>2. /\ pc["gui"] = "wait rcv" /\ "rcv" \in pThread => Delay("gui") = 4
      /\ pc["gui"] = "wait snd" /\ "snd" \in pThread => Delay("gui") = 4
      /\ pc["gui"] = "wait cmd" /\ "cmd" \in pThread => Delay("gui") = 4
  BY DEF Delay, Workers
<1>3. pc["rcv"] \in {"onClose", "killSocket", "killRecv", "killed", "exitSocket"} => Delay("rcv") = 2
  BY DEF Delay, Workers
<1>4. pc["rcv"] = "idle" /\ (quit \/ rcvMsgs # << >>) => Delay("rcv") = 0
  BY DEF Delay, Workers, HasMessage
<1>5. pc["rcv"] = "exit" => Delay("rcv") = 0
  BY DEF Delay
<1>6. ASSUME NEW t \in {"snd", "cmd"}, pc[t] = "busy" PROVE Delay(t) = 0
  BY <1>6 DEF Delay
<1>7. ASSUME NEW t \in {"snd", "cmd"}, pc[t] = "idle", \E m \in msgs : m[1] = t PROVE Delay(t) = 0
  BY <1>7 DEF Delay, Workers, HasMessage
<1>8. pc["feeder"] = "queue" => Delay("feeder") = 0
  BY DEF Delay
<1> QED
  BY <1>1, <1>2, <1>3, <1>4, <1>5, <1>6, <1>7, <1>8

\* When the wait of the receive thread or of the GUI thread ends, nobody has anything to do
\* at once.
LEMMA Patience ==
  ASSUME BaseInv, patient, NEW t \in {"rcv", "gui"}, Awake(t), Delay(t) \in 1 .. 4
  PROVE  /\ pc["snd"] # "busy" /\ pc["cmd"] # "busy" /\ pc["feeder"] = "idle"
         /\ \A w \in {"snd", "cmd"} : \A m : pc[w] = "idle" => <<w, m>> \notin msgs
         /\ t = "gui" => pc["rcv"] # "exit" /\ (pc["rcv"] = "idle" => rcvMsgs = << >> /\ ~quit)
         /\ t = "gui" /\ Delay(t) > 2 =>
              pc["rcv"] \notin {"onClose", "killSocket", "killRecv", "killed", "exitSocket"}
         /\ t = "rcv" /\ Delay(t) > 1 =>
              pc["gui"] # "sleepKill" /\ (pc["gui"] = "waitSocket" => pSocket = "open")
<1>1. Threads = {"rcv", "snd", "cmd", "feeder", "gui"}
  BY DEF Threads, Workers
<1>2. \A u \in Threads \ {t} : Delay(u) >= Delay(t)
  BY DEF Awake
<1>3. Places
  BY DEF BaseInv
<1>4. \A u \in Threads \ {t} : Delay(u) # 0
  BY <1>2
<1>5. \A w \in {"snd", "cmd"} : Delay(w) # 0 /\ Delay("feeder") # 0
  BY <1>1, <1>4
<1>6. pc["snd"] # "busy" /\ pc["cmd"] # "busy" /\ pc["feeder"] = "idle"
  BY <1>3, <1>5, Waits DEF Places
<1>7. \A w \in {"snd", "cmd"} : pc[w] = "idle" => ~(\E m \in msgs : m[1] = w)
  BY <1>3, <1>5, Waits
<1>8. ASSUME t = "gui" PROVE pc["rcv"] # "exit" /\ (pc["rcv"] = "idle" => rcvMsgs = << >> /\ ~quit)
  <2>1. Delay("rcv") # 0
    BY <1>1, <1>4, <1>8
  <2> QED
    BY <1>3, <2>1, Waits
<1>9. ASSUME t = "gui", Delay(t) > 2
      PROVE  pc["rcv"] \notin {"onClose", "killSocket", "killRecv", "killed", "exitSocket"}
  <2>1. Delay("rcv") # 2
    BY <1>1, <1>2, <1>9
  <2> QED
    BY <1>3, <2>1, Waits
<1>10. ASSUME t = "rcv", Delay(t) > 1
       PROVE  pc["gui"] # "sleepKill" /\ (pc["gui"] = "waitSocket" => pSocket = "open")
  <2>1. Delay("gui") # 1
    BY <1>1, <1>2, <1>10
  <2> QED
    BY <1>3, <2>1, Waits
<1> QED
  BY <1>6, <1>7, <1>8, <1>9, <1>10

-----------------------------------------------------------------------------
(* The receive thread.                                                     *)

LEMMA ReceivePatient ==
  ASSUME BaseInv, patient, PatientInv, Receive \/ RcvQuits
  PROVE  PatientInv'
<1>1. rcvMsgs \in Seq(RcvMessages) /\ pSocket \in {"null", "open", "closed"} /\ quit \in BOOLEAN
      /\ sendList \in Int /\ rcvList \in Int /\ (rcvList = Gone <=> sendList = Gone)
      /\ pThread \subseteq Workers /\ msgs \subseteq WorkerMessages
  <2>1. sendList \in Gone .. MaxPackets /\ rcvList \in Gone .. MaxPackets
    BY DEF BaseInv, TypeOK
  <2>2. sendList \in Int /\ rcvList \in Int
    BY <2>1
  <2> QED
    BY <2>2 DEF BaseInv, TypeOK, RcvMessages, WorkerMessages
<1>2. CalmInv /\ SocketInv /\ ThreadInv /\ ReceiveInv /\ WorkerInv
  BY DEF PatientInv
<1>3. pc["rcv"] # "gone"
  BY DEF Receive, InitTcpThread, OnTimer, OnReceive, OnClose, SocketForgotten, KillSocket,
         KillReceiveThread, SocketKilled, KillSlept, RcvQuits, ExitNothing, ExitSocket, ExitLists,
         Gets, At
<1>4. /\ pc["gui"] \in {"run", "waitTester", "sleepKill", "waitSocket", "sleep20", "wait rcv"}
      /\ ccm /\ sendList # Gone /\ rcvList # Gone
  BY <1>1, <1>2, <1>3 DEF ReceiveInv, ThreadInv
<1>5. ASSUME NEW m, Gets(m)
      PROVE  /\ pc["rcv"] = "idle" /\ Tail(rcvMsgs) \in Seq(RcvMessages) /\ Contains(rcvMsgs, m)
             /\ \A k : Contains(Tail(rcvMsgs), k) => Contains(rcvMsgs, k)
             /\ NoKills(rcvMsgs) => NoKills(Tail(rcvMsgs)) /\ m \notin FromGui
             /\ \A k : FirstIs(rcvMsgs, k) => m = k /\ NoKills(Tail(rcvMsgs))
             /\ pSocket # "open" => m # "packet" /\ m # "close"
             /\ pSocket # "closed"
  <2>1. pc["rcv"] = "idle" /\ rcvMsgs # << >> /\ Head(rcvMsgs) = m
    BY <1>5 DEF Gets, At
  <2>2. Contains(rcvMsgs, m)
    BY <1>1, <2>1, Shortened
  <2>3. NoKills(rcvMsgs) => m \notin FromGui
    BY <2>2 DEF NoKills
  <2>4. pSocket # "open" => m # "packet" /\ m # "close"
    BY <1>2, <2>2 DEF SocketInv
  <2>5. pSocket # "closed"
    BY <1>2, <2>1 DEF SocketInv
  <2> QED
    BY <1>1, <2>1, <2>2, <2>3, <2>4, <2>5, Shortened
\* What the others do not see.
<1>6. ASSUME UNCHANGED <<calm, traffic, crashed>>, pc'["feeder"] = pc["feeder"],
             sendList' \in {sendList, Gone}
      PROVE  CalmInv'
  BY <1>2, <1>6 DEF CalmInv
<1>7. ASSUME \A u \in Threads \ {"rcv"} : pc'[u] = pc[u],
             \A k : Contains(rcvMsgs', k) => Contains(rcvMsgs, k),
             \A t \in {"snd", "cmd"} : <<t, "kill">> \in msgs' => <<t, "kill">> \in msgs,
             <<"snd", "send">> \in msgs' => <<"snd", "send">> \in msgs \/ Contains(rcvMsgs, "tick")
      PROVE  WorkerInv'
  <2>1. pc'["gui"] = pc["gui"] /\ pc'["snd"] = pc["snd"] /\ pc'["cmd"] = pc["cmd"]
    BY <1>7 DEF Threads, Workers
  <2> QED
    BY <1>2, <1>4, <1>7, <2>1 DEF WorkerInv
<1>8. ASSUME NEW l, Goto("rcv", l) PROVE pc'["rcv"] = l /\ \A u \in Threads \ {"rcv"} : pc'[u] = pc[u]
  BY <1>8, Gone1 DEF BaseInv, Threads, Workers
<1>9. ASSUME \A u \in Threads \ {"rcv"} : pc'[u] = pc[u]
      PROVE  /\ pc'["gui"] = pc["gui"] /\ pc'["snd"] = pc["snd"] /\ pc'["cmd"] = pc["cmd"]
             /\ pc'["feeder"] = pc["feeder"]
  BY <1>9 DEF Threads, Workers
\* A message is handled without the socket being closed.
<1>11. ASSUME NEW m \in {"init", "tick", "packet"}, Gets(m), rcvMsgs' = Tail(rcvMsgs),
              UNCHANGED <<patient, traffic, calm, ccm, sendList, pThread, quit, pc, crashed>>,
              pSocket' = pSocket \/ (pSocket = "null" /\ pSocket' = "open"),
              \/ msgs' = msgs
              \/ m = "tick" /\ msgs' = msgs \cup {<<"snd", "send">>}
              \/ m = "packet" /\ msgs' = msgs \cup {<<"cmd", "packets">>}
       PROVE  PatientInv'
  <2>1. CalmInv'
    BY <1>6, <1>11
  <2>2. SocketInv'
    BY <1>2, <1>5, <1>11 DEF SocketInv, Settled
  <2>3. ThreadInv'
    BY <1>2, <1>11 DEF ThreadInv
  <2>4. ReceiveInv'
    <3>1. pc["rcv"] = "idle" /\ ~FirstIs(rcvMsgs, "killSocket") /\ ~FirstIs(rcvMsgs, "killRecv")
          /\ (NoKills(rcvMsgs) => NoKills(rcvMsgs'))
      BY <1>5, <1>11
    <3> QED
      BY <1>2, <1>4, <1>11, <3>1 DEF ReceiveInv
  <2>5. WorkerInv'
    BY <1>5, <1>7, <1>11
  <2> QED
    BY <2>1, <2>2, <2>3, <2>4, <2>5 DEF PatientInv
\* The socket is closed, and the thread sleeps.
<1>12. ASSUME NEW m \in {"close", "killSocket", "killRecv"}, Gets(m), pSocket # "null",
              NEW l \in {"onClose", "killSocket", "killRecv"},
              IF m = "close" THEN l = "onClose" ELSE l = m,
              pSocket' = "closed", NoNotifications(Tail(rcvMsgs)), Goto("rcv", l),
              UNCHANGED <<patient, traffic, calm, ccm, sendList, pThread, msgs, quit, crashed>>
       PROVE  PatientInv'
  <2>1. pc'["rcv"] = l /\ \A u \in Threads \ {"rcv"} : pc'[u] = pc[u]
    BY <1>8, <1>12
  <2>2. /\ pc'["gui"] = pc["gui"] /\ pc'["snd"] = pc["snd"] /\ pc'["cmd"] = pc["cmd"]
        /\ pc'["feeder"] = pc["feeder"]
    BY <1>9, <2>1
  <2>3. /\ \A k : Contains(rcvMsgs', k) => Contains(rcvMsgs, k) /\ k \notin {"packet", "close"}
        /\ NoKills(Tail(rcvMsgs)) => NoKills(rcvMsgs')
    BY <1>5, <1>12, NotificationsGo
  <2>4. CalmInv'
    BY <1>6, <1>12, <2>2
  <2>5. SocketInv'
    BY <1>12, <2>1, <2>3 DEF SocketInv
  <2>6. ThreadInv'
    BY <1>2, <1>3, <1>12, <2>1, <2>2 DEF ThreadInv, Workers
  <2>7. ReceiveInv'
    <3>1. CASE m = "close"
      <4>1. pc["rcv"] = "idle" /\ ~FirstIs(rcvMsgs, "killSocket") /\ ~FirstIs(rcvMsgs, "killRecv")
            /\ (NoKills(rcvMsgs) => NoKills(rcvMsgs'))
        BY <1>5, <1>12, <2>3, <3>1
      <4> QED
        BY <1>2, <1>4, <1>12, <2>1, <2>2, <3>1, <4>1 DEF ReceiveInv
    <3>2. CASE m = "killSocket"
      BY <1>2, <1>4, <1>5, <1>12, <2>1, <2>2, <2>3, <3>2 DEF ReceiveInv, FromGui
    <3>3. CASE m = "killRecv"
      BY <1>2, <1>4, <1>5, <1>12, <2>1, <2>2, <2>3, <3>3 DEF ReceiveInv, FromGui
    <3> QED
      BY <3>1, <3>2, <3>3
  <2>8. WorkerInv'
    BY <1>7, <1>12, <2>1, <2>3
  <2> QED
    BY <2>4, <2>5, <2>6, <2>7, <2>8 DEF PatientInv
<1> USE DEF Fine, outside, state, queues
<1>13. CASE InitTcpThread
  <2>1. /\ Gets("init") /\ Rest /\ pSocket' = IF pSocket = "null" THEN "open" ELSE pSocket
        /\ Fine /\ UNCHANGED <<ccm, sendList, rcvList, pThread, msgs, quit, pc>>
    BY <1>4, <1>13 DEF InitTcpThread, Through
  <2> QED
    BY <1>11, <2>1 DEF Rest
<1>14. CASE OnTimer
  <2>1. /\ Gets("tick") /\ Rest
        /\ pSocket' \in {pSocket, IF pSocket = "null" THEN "open" ELSE pSocket}
        /\ IF sendList > 0 /\ "snd" \in pThread THEN PostTo("snd", "send") ELSE UNCHANGED msgs
        /\ Fine /\ UNCHANGED <<ccm, sendList, rcvList, pThread, quit, pc>>
    BY <1>4, <1>14 DEF OnTimer, Through
  <2>2. msgs' = msgs \/ msgs' = msgs \cup {<<"snd", "send">>}
    BY <2>1 DEF PostTo
  <2> QED
    BY <1>11, <2>1, <2>2 DEF Rest
<1>15. CASE OnReceive
  <2>1. /\ Gets("packet") /\ Rest /\ PostTo("cmd", "packets")
        /\ Fine /\ UNCHANGED <<ccm, pSocket, sendList, pThread, quit, pc>>
    BY <1>4, <1>15 DEF OnReceive, Through
  <2>2. msgs' = msgs \/ msgs' = msgs \cup {<<"cmd", "packets">>}
    BY <2>1 DEF PostTo
  <2> QED
    BY <1>11, <2>1, <2>2 DEF Rest
<1>16. ASSUME NEW m \in {"close", "killSocket", "killRecv"}, Gets(m), pSocket # "null",
              NEW l \in {"onClose", "killSocket", "killRecv"},
              IF m = "close" THEN l = "onClose" ELSE l = m, Through(Close(l))
       PROVE  PatientInv'
  <2>1. Close(l) /\ Fine
    BY <1>4, <1>16 DEF Through
  <2> QED
    BY <1>12, <1>16, <2>1 DEF Close
<1>17. CASE OnClose
  <2>1. Gets("close") /\ Through(Close("onClose")) /\ pSocket # "null"
    BY <1>5, <1>17 DEF OnClose
  <2> QED
    BY <1>16, <2>1
\* The GUI thread does not wait for a socket that is not there.
<1>18. CASE KillSocket
  <2>1. CASE pSocket # "null"
    BY <1>16, <1>18, <2>1 DEF KillSocket
  <2>2. CASE pSocket = "null"
    <3>1. Gets("killSocket")
      BY <1>18, <2>2 DEF KillSocket
    <3>2. pc["rcv"] = "idle" /\ ~NoKills(rcvMsgs) /\ ~FirstIs(rcvMsgs, "killRecv")
      BY <1>5, <3>1 DEF FromGui
    <3> QED
      BY <1>2, <1>4, <2>2, <3>2 DEF ReceiveInv
  <2> QED
    BY <2>1, <2>2
<1>19. CASE KillReceiveThread
  <2>1. CASE pSocket # "null"
    BY <1>16, <1>19, <2>1 DEF KillReceiveThread
  <2>2. CASE pSocket = "null"
    <3>1. Gets("killRecv") /\ rcvMsgs' = Tail(rcvMsgs) /\ quit' = TRUE
          /\ UNCHANGED <<patient, traffic, calm, crashed, ccm, pSocket, sendList, rcvList,
                         pThread, msgs, pc>>
      BY <1>19, <2>2 DEF KillReceiveThread, Rest
    <3>2. /\ pc["rcv"] = "idle" /\ ~NoKills(rcvMsgs) /\ ~FirstIs(rcvMsgs, "killSocket")
          /\ (FirstIs(rcvMsgs, "killRecv") => NoKills(rcvMsgs'))
          /\ \A k : Contains(rcvMsgs', k) => Contains(rcvMsgs, k)
      BY <1>5, <3>1 DEF FromGui
    <3>3. CalmInv'
      BY <1>6, <3>1
    <3>4. SocketInv'
      BY <1>2, <3>1, <3>2 DEF SocketInv, Settled
    <3>5. ThreadInv'
      BY <1>2, <3>1 DEF ThreadInv
    <3>6. ReceiveInv'
      BY <1>2, <1>4, <3>1, <3>2 DEF ReceiveInv
    <3>7. WorkerInv'
      BY <1>7, <3>1, <3>2
    <3> QED
      BY <3>3, <3>4, <3>5, <3>6, <3>7 DEF PatientInv
  <2> QED
    BY <2>1, <2>2
\* The thread sleeps until the others have done what was to be done.
<1>20. ASSUME Awake("rcv"), pc["rcv"] \in {"onClose", "killSocket", "killRecv", "killed", "exitSocket"}
       PROVE  Settled /\ pc["gui"] # "sleepKill" /\ (pc["gui"] = "waitSocket" => pSocket = "open")
  <2>1. Delay("rcv") = 2
    BY <1>20, Waits DEF BaseInv
  <2>2. /\ pc["snd"] # "busy" /\ pc["cmd"] # "busy" /\ pc["feeder"] = "idle"
        /\ \A w \in {"snd", "cmd"} : \A m : pc[w] = "idle" => <<w, m>> \notin msgs
        /\ pc["gui"] # "sleepKill" /\ (pc["gui"] = "waitSocket" => pSocket = "open")
    BY <1>20, <2>1, Patience
  <2>3. pc["cmd"] = "idle"
    BY <1>2, <1>4, <2>2 DEF WorkerInv, BaseInv, Places
  <2> QED
    BY <2>2, <2>3 DEF Settled
<1>21. CASE SocketForgotten
  <2>1. /\ pc["rcv"] = "onClose" /\ Awake("rcv") /\ Goto("rcv", "idle") /\ pSocket' = "null"
        /\ Fine /\ UNCHANGED <<ccm, sendList, rcvList, pThread, queues>>
    BY <1>4, <1>21 DEF SocketForgotten, Through, At
  <2>2. pc'["rcv"] = "idle" /\ \A u \in Threads \ {"rcv"} : pc'[u] = pc[u]
    BY <1>8, <2>1
  <2>3. /\ pc'["gui"] = pc["gui"] /\ pc'["snd"] = pc["snd"] /\ pc'["cmd"] = pc["cmd"]
        /\ pc'["feeder"] = pc["feeder"]
    BY <1>9, <2>2
  <2>4. CalmInv'
    BY <1>6, <2>1, <2>3
  <2>5. SocketInv'
    BY <1>2, <1>20, <2>1, <2>2, <2>3 DEF SocketInv, Settled
  <2>6. ThreadInv'
    BY <1>2, <2>1, <2>2, <2>3 DEF ThreadInv, Workers
  <2>7. ReceiveInv'
    BY <1>2, <1>4, <2>1, <2>2, <2>3 DEF ReceiveInv
  <2>8. WorkerInv'
    BY <1>7, <2>1, <2>2
  <2> QED
    BY <2>4, <2>5, <2>6, <2>7, <2>8 DEF PatientInv
<1>22. CASE SocketKilled
  <2>1. /\ Awake("rcv") /\ pc["rcv"] \in {"killSocket", "killRecv"}
        /\ Goto("rcv", IF pc["rcv"] = "killSocket" THEN "killed" ELSE "idle")
        /\ pSocket' = "null" /\ quit' = TRUE
        /\ Fine /\ UNCHANGED <<ccm, sendList, rcvList, pThread, rcvMsgs, msgs>>
    BY <1>4, <1>22 DEF SocketKilled, Through, At
  <2>2. /\ pc'["rcv"] = IF pc["rcv"] = "killSocket" THEN "killed" ELSE "idle"
        /\ \A u \in Threads \ {"rcv"} : pc'[u] = pc[u]
    BY <1>8, <2>1
  <2>3. /\ pc'["gui"] = pc["gui"] /\ pc'["snd"] = pc["snd"] /\ pc'["cmd"] = pc["cmd"]
        /\ pc'["feeder"] = pc["feeder"]
    BY <1>9, <2>2
  <2>4. CalmInv'
    BY <1>6, <2>1, <2>3
  <2>5. SocketInv'
    BY <1>2, <1>20, <2>1, <2>2, <2>3 DEF SocketInv, Settled
  <2>6. ThreadInv'
    BY <1>2, <2>1, <2>2, <2>3 DEF ThreadInv, Workers
  <2>7. ReceiveInv'
    <3>1. pc["gui"] # "sleepKill" /\ pc["gui"] # "waitSocket" /\ pSocket = "closed"
      BY <1>2, <1>20, <2>1 DEF SocketInv
    <3> QED
      BY <1>2, <1>4, <2>1, <2>2, <2>3, <3>1 DEF ReceiveInv
  <2>8. WorkerInv'
    BY <1>7, <2>1, <2>2
  <2> QED
    BY <2>4, <2>5, <2>6, <2>7, <2>8 DEF PatientInv
\* The thread quits.
<1>23. ASSUME NEW l \in {"idle", "exit", "exitSocket"}, Goto("rcv", l), quit,
              pc["rcv"] \in {"killed", "idle", "exit"},
              l = "idle" => pc["rcv"] = "killed", l = "exitSocket" => pSocket' # "open",
              \/ UNCHANGED <<pSocket, rcvMsgs>>
              \/ /\ l = "exitSocket" /\ NoNotifications(rcvMsgs)
                 /\ pSocket' = IF pSocket = "null" THEN "null" ELSE "closed",
              Fine, UNCHANGED <<ccm, sendList, rcvList, pThread, msgs, quit>>
       PROVE  PatientInv'
  <2>1. pc'["rcv"] = l /\ \A u \in Threads \ {"rcv"} : pc'[u] = pc[u]
    BY <1>8, <1>23
  <2>2. /\ pc'["gui"] = pc["gui"] /\ pc'["snd"] = pc["snd"] /\ pc'["cmd"] = pc["cmd"]
        /\ pc'["feeder"] = pc["feeder"]
    BY <1>9, <2>1
  <2>3. /\ \A k : Contains(rcvMsgs', k) => Contains(rcvMsgs, k)
        /\ NoKills(rcvMsgs) => NoKills(rcvMsgs')
        /\ rcvMsgs' # rcvMsgs => \A k \in {"packet", "close"} : ~Contains(rcvMsgs', k)
    BY <1>1, <1>23, NotificationsGo
  <2>4. CalmInv'
    BY <1>6, <1>23, <2>2
  <2>5. SocketInv'
    <3>1. pSocket # "closed"
      BY <1>2, <1>23 DEF SocketInv
    <3>2. pSocket' # "open" => ~Contains(rcvMsgs', "packet") /\ ~Contains(rcvMsgs', "close")
      <4>1. CASE UNCHANGED <<pSocket, rcvMsgs>>
        BY <1>2, <4>1 DEF SocketInv
      <4>2. CASE NoNotifications(rcvMsgs)
        BY <1>1, <4>2, NotificationsGo
      <4> QED
        BY <1>23, <4>1, <4>2
    <3>3. pSocket' = "closed" => l = "exitSocket"
      BY <1>23, <3>1
    <3>4. pSocket' = "null" => Settled
      BY <1>2, <1>23 DEF SocketInv
    <3>5. Settled => Settled'
      BY <1>23, <2>2 DEF Settled
    <3> QED
      BY <1>23, <2>1, <3>2, <3>3, <3>4, <3>5 DEF SocketInv
  <2>6. ThreadInv'
    BY <1>2, <1>23, <2>1, <2>2 DEF ThreadInv, Workers
  <2>7. ReceiveInv'
    BY <1>2, <1>4, <1>23, <2>1, <2>2, <2>3 DEF ReceiveInv
  <2>8. WorkerInv'
    BY <1>7, <1>23, <2>1, <2>3
  <2> QED
    BY <2>4, <2>5, <2>6, <2>7, <2>8 DEF PatientInv
<1>24. pc["rcv"] \in {"killed", "exit", "exitSocket"} => quit
  BY <1>1, <1>2 DEF ThreadInv
<1>25. CASE KillSlept
  BY <1>23, <1>24, <1>25 DEF KillSlept, At
<1>26. CASE RcvQuits
  BY <1>23, <1>26 DEF RcvQuits, At
<1>27. CASE ExitNothing
  BY <1>4, <1>27 DEF ExitNothing
<1>28. CASE ExitSocket
  BY <1>23, <1>24, <1>28 DEF ExitSocket, At
<1>29. CASE ExitLists
  <2>1. pc["rcv"] = "exitSocket" /\ (pSocket # "null" => Awake("rcv"))
    BY <1>29 DEF ExitLists, At
  <2>2. Settled
    BY <1>2, <1>20, <2>1 DEF SocketInv
  <2>3. CASE sendList # 0
    <3>1. Crash("rcv") /\ ~calm
      BY <1>2, <1>4, <1>29, <2>3 DEF ExitLists, CalmInv
    <3>2. crashed' = "rcv" /\ UNCHANGED <<patient, traffic, calm, ccm, pSocket, sendList, rcvList,
                                         pThread, rcvMsgs, msgs, quit, pc>>
      BY <3>1 DEF Crash
    <3>3. CalmInv'
      BY <3>1, <3>2 DEF CalmInv
    <3>4. SocketInv' /\ ThreadInv'
      BY <1>2, <3>2 DEF SocketInv, ThreadInv, Settled
    <3>5. ReceiveInv' /\ WorkerInv'
      BY <1>2, <3>2 DEF ReceiveInv, WorkerInv, WorkersGone
    <3> QED
      BY <3>3, <3>4, <3>5 DEF PatientInv
  <2>4. CASE sendList = 0
    <3>1. /\ Goto("rcv", "gone") /\ pSocket' = "null" /\ rcvList' = Gone /\ sendList' = Gone
          /\ pThread' = pThread \ {"rcv"} /\ Fine /\ UNCHANGED <<ccm, rcvMsgs, msgs, quit>>
      BY <1>29, <2>4 DEF ExitLists
    <3>2. pc'["rcv"] = "gone" /\ \A u \in Threads \ {"rcv"} : pc'[u] = pc[u]
      BY <1>8, <3>1
    <3>3. /\ pc'["gui"] = pc["gui"] /\ pc'["snd"] = pc["snd"] /\ pc'["cmd"] = pc["cmd"]
          /\ pc'["feeder"] = pc["feeder"]
      BY <1>9, <3>2
    <3>4. CalmInv'
      BY <1>6, <3>1, <3>3
    <3>5. SocketInv'
      BY <1>2, <2>1, <2>2, <3>1, <3>2, <3>3 DEF SocketInv, Settled
    <3>6. ThreadInv'
      BY <1>2, <1>24, <2>1, <3>1, <3>2, <3>3 DEF ThreadInv, Workers
    <3>7. ReceiveInv'
      BY <1>2, <1>4, <1>24, <2>1, <3>1, <3>2, <3>3 DEF ReceiveInv
    <3>8. WorkerInv'
      BY <1>7, <3>1, <3>2
    <3> QED
      BY <3>4, <3>5, <3>6, <3>7, <3>8 DEF PatientInv
  <2> QED
    BY <2>3, <2>4
<1> QED
  BY <1>13, <1>14, <1>15, <1>17, <1>18, <1>19, <1>21, <1>22, <1>25, <1>26, <1>27, <1>28, <1>29 DEF Receive

-----------------------------------------------------------------------------
(* The others.                                                             *)

\* A message that is not the GUI thread's is posted to the receive thread.
LEMMA PostPatient ==
  ASSUME BaseInv, patient, PatientInv, NEW m \in {"init", "tick", "packet", "close"}, PostRcv(m),
         m \in {"packet", "close"} => pSocket = "open", m = "tick" => pc["gui"] = "run",
         UNCHANGED <<calm, traffic, state, msgs, quit, pc, crashed>>
  PROVE  PatientInv'
<1>1. rcvMsgs \in Seq(RcvMessages) /\ m \in RcvMessages /\ m \notin FromGui
  BY DEF BaseInv, TypeOK, RcvMessages, FromGui
<1>2. rcvMsgs' = rcvMsgs \/ rcvMsgs' = Append(rcvMsgs, m)
  BY DEF PostRcv
<1>3. /\ \A k \in RcvMessages : Contains(rcvMsgs', k) => Contains(rcvMsgs, k) \/ k = m
      /\ NoKills(rcvMsgs) => NoKills(rcvMsgs')
      /\ \A k : FirstIs(rcvMsgs, k) => FirstIs(rcvMsgs', k)
  BY <1>1, <1>2, Appended
<1>4. CalmInv /\ SocketInv /\ ThreadInv /\ ReceiveInv /\ WorkerInv
  BY DEF PatientInv
<1> USE DEF state
<1>5. CalmInv'
  BY <1>4 DEF CalmInv
<1>6. SocketInv'
  BY <1>3, <1>4 DEF SocketInv, Settled, RcvMessages
<1>7. ThreadInv'
  BY <1>4 DEF ThreadInv
<1>8. ReceiveInv'
  BY <1>3, <1>4 DEF ReceiveInv
<1>9. WorkerInv'
  BY <1>3, <1>4 DEF WorkerInv, WorkersGone, RcvMessages
<1> QED
  BY <1>5, <1>6, <1>7, <1>8, <1>9 DEF PatientInv

LEMMA OutsidePatient ==
  ASSUME BaseInv, patient, PatientInv, TrafficEnds \/ PagCommands \/ PagCloses
  PROVE  PatientInv'
<1>1. CASE TrafficEnds
  <2>1. traffic' = FALSE /\ UNCHANGED <<calm, state, queues, pc, crashed>>
    BY <1>1 DEF TrafficEnds, Outside, state, queues
  <2>2. CalmInv' /\ SocketInv'
    BY <2>1 DEF PatientInv, CalmInv, SocketInv, Settled, state, queues
  <2>3. ThreadInv' /\ ReceiveInv'
    BY <2>1 DEF PatientInv, ThreadInv, ReceiveInv, state, queues
  <2>4. WorkerInv'
    BY <2>1 DEF PatientInv, WorkerInv, WorkersGone, state, queues
  <2> QED
    BY <2>2, <2>3, <2>4 DEF PatientInv
<1>2. ASSUME NEW m \in {"packet", "close"}, Notify(m) PROVE PatientInv'
  BY <1>2, PostPatient DEF Notify, Outside, state
<1> QED
  BY <1>1, <1>2 DEF PagCommands, PagCloses

LEMMA WorkersPatient ==
  ASSUME MaxPackets \in Nat, BaseInv, patient, PatientInv, Send \/ Command
  PROVE  PatientInv'
<1>1. /\ Threads = {"rcv", "snd", "cmd", "feeder", "gui"} /\ Workers = {"rcv", "snd", "cmd"}
      /\ "snd" \in Threads /\ "cmd" \in Threads
  BY DEF Threads, Workers
<1>2. CalmInv /\ SocketInv /\ ThreadInv /\ ReceiveInv /\ WorkerInv
  BY DEF PatientInv
<1>3. sendList \in Gone .. MaxPackets /\ (rcvList = Gone <=> sendList = Gone)
  BY DEF BaseInv, TypeOK
<1>4. \A t \in {"snd", "cmd"} : \A l :
        Goto(t, l) => pc'[t] = l /\ \A u \in Threads \ {t} : pc'[u] = pc[u]
  BY <1>1, Gone1 DEF BaseInv
\* Until the end of the receive thread all is there.
<1>5. pc["rcv"] # "gone" => ccm /\ sendList # Gone /\ rcvList # Gone
  BY <1>2, <1>3 DEF ThreadInv, ReceiveInv
\* A worker takes a message, or does what it has to do, without exiting.
<1>6. ASSUME pc["rcv"] # "gone", NEW t \in {"snd", "cmd"}, pc[t] # "gone",
             pc'[t] # "gone", \A u \in Threads \ {t} : pc'[u] = pc[u],
             pc'[t] = "busy" => pSocket # "null" /\ (t = "snd" => pc["gui"] \in {"run", "waitTester"}),
             \A k : <<k, "kill">> \in msgs' <=> <<k, "kill">> \in msgs, msgs' \subseteq msgs,
             sendList' # Gone, calm => sendList' = sendList \/ sendList' = 0,
             UNCHANGED <<calm, traffic, ccm, pSocket, pThread, rcvMsgs, quit, crashed>>
      PROVE  PatientInv'
  <2>1. /\ pc'["gui"] = pc["gui"] /\ pc'["rcv"] = pc["rcv"] /\ pc'["feeder"] = pc["feeder"]
        /\ \A w \in {"snd", "cmd"} : w # t => pc'[w] = pc[w]
    BY <1>1, <1>6
  <2>2. CalmInv'
    BY <1>2, <1>5, <1>6, <2>1 DEF CalmInv
  <2>3. SocketInv'
    <3>1. pSocket = "null" => Settled'
      BY <1>2, <1>6, <2>1 DEF SocketInv, Settled
    <3> QED
      BY <1>2, <1>6, <2>1, <3>1 DEF SocketInv
  <2>4. ThreadInv'
    BY <1>1, <1>2, <1>5, <1>6, <2>1 DEF ThreadInv
  <2>5. ReceiveInv'
    BY <1>2, <1>6, <2>1 DEF ReceiveInv
  <2>6. WorkerInv'
    <3>1. pc["gui"] \in {"run", "waitTester", "sleepKill", "waitSocket", "sleep20", "wait rcv"}
      BY <1>2, <1>6 DEF ReceiveInv
    <3> QED
      BY <1>2, <1>6, <2>1, <3>1 DEF WorkerInv
  <2> QED
    BY <2>2, <2>3, <2>4, <2>5, <2>6 DEF PatientInv
<1> USE DEF Fine, outside, state, queues
<1>7. CASE TransmitPackets
  <2>1. pc["snd"] = "idle" /\ <<"snd", "send">> \in msgs
    BY <1>7 DEF TransmitPackets, At
  <2>2. pc["gui"] \in {"run", "waitTester"} /\ pc["rcv"] # "gone"
    BY <1>2, <2>1 DEF WorkerInv, ReceiveInv
  <2>3. /\ Taken("snd", "send") /\ sendList' = IF pSocket = "null" THEN 0 ELSE sendList
        /\ Goto("snd", IF pSocket = "null" \/ sendList = 0 THEN "idle" ELSE "busy")
        /\ Fine /\ UNCHANGED <<ccm, pSocket, rcvList, pThread, rcvMsgs, quit>>
    BY <1>5, <1>7, <2>2 DEF TransmitPackets
  <2>4. sendList' # Gone /\ (sendList' = sendList \/ sendList' = 0)
    BY <1>5, <2>2, <2>3 DEF Gone
  <2>5. msgs' = msgs \ {<<"snd", "send">>}
    BY <2>3 DEF Taken
  <2>6. msgs' \subseteq msgs /\ \A k : <<k, "kill">> \in msgs' <=> <<k, "kill">> \in msgs
    BY <2>5
  <2>7. /\ pc'["snd"] = IF pSocket = "null" \/ sendList = 0 THEN "idle" ELSE "busy"
        /\ \A u \in Threads \ {"snd"} : pc'[u] = pc[u]
    BY <1>4, <2>3
  <2> QED
    BY <1>6, <2>1, <2>2, <2>3, <2>4, <2>6, <2>7
<1>8. CASE SendNext
  <2>1. pc["snd"] = "busy"
    BY <1>8 DEF SendNext, At
  <2>2. pc["gui"] \in {"run", "waitTester"} /\ pc["rcv"] # "gone" /\ pSocket # "null"
    BY <1>2, <2>1 DEF WorkerInv, ReceiveInv, SocketInv, Settled
  <2>3. CASE /\ sendList > 0 /\ sendList' = sendList - 1
             /\ Fine /\ UNCHANGED <<ccm, pSocket, rcvList, pThread, queues, pc>>
    <3>1. sendList' # Gone /\ sendList \notin {0, Gone}
      BY <1>3, <2>3 DEF Gone
    <3>2. ~calm
      BY <1>2, <3>1 DEF CalmInv
    <3> QED
      BY <1>6, <2>1, <2>2, <2>3, <3>1, <3>2
  <2>4. CASE Goto("snd", "idle") /\ Fine /\ UNCHANGED <<state, queues>>
    <3>1. pc'["snd"] = "idle" /\ \A u \in Threads \ {"snd"} : pc'[u] = pc[u]
      BY <1>4, <2>4
    <3> QED
      BY <1>5, <1>6, <2>1, <2>2, <2>4, <3>1
  <2> QED
    BY <1>5, <1>8, <2>2, <2>3, <2>4 DEF SendNext
<1>9. CASE ProcessReceivedMessage
  <2>1. /\ pc["cmd"] = "idle" /\ <<"cmd", "packets">> \in msgs
        /\ msgs' = msgs \ {<<"cmd", "packets">>}
        /\ Goto("cmd", IF ~ccm \/ rcvList = Gone THEN "idle" ELSE "busy")
        /\ Fine /\ UNCHANGED <<state, rcvMsgs, quit>>
    BY <1>9 DEF ProcessReceivedMessage, Taken, At
  <2>2. pSocket # "null" /\ pc["rcv"] # "gone"
    BY <1>2, <2>1 DEF SocketInv, Settled
  <2>3. msgs' \subseteq msgs /\ \A k : <<k, "kill">> \in msgs' <=> <<k, "kill">> \in msgs
    BY <2>1
  <2>4. pc'["cmd"] # "gone" /\ \A u \in Threads \ {"cmd"} : pc'[u] = pc[u]
    BY <1>4, <2>1
  <2> QED
    BY <1>5, <1>6, <2>1, <2>2, <2>3, <2>4
<1>10. CASE CommandNext
  <2>1. pc["cmd"] = "busy"
    BY <1>10 DEF CommandNext, At
  <2>2. pSocket # "null" /\ pc["rcv"] # "gone"
    BY <1>2, <2>1 DEF SocketInv, Settled
  <2>3. CASE Fine /\ UNCHANGED <<ccm, pSocket, sendList, pThread, queues, pc>>
    BY <1>5, <1>6, <2>1, <2>2, <2>3
  <2>4. CASE Goto("cmd", "idle") /\ Fine /\ UNCHANGED <<state, queues>>
    <3>1. pc'["cmd"] = "idle" /\ \A u \in Threads \ {"cmd"} : pc'[u] = pc[u]
      BY <1>4, <2>4
    <3> QED
      BY <1>5, <1>6, <2>1, <2>2, <2>4, <3>1
  <2> QED
    BY <1>5, <1>10, <2>2, <2>3, <2>4 DEF CommandNext
\* The workers exit one after the other, when the receive thread is gone.
<1>11. ASSUME NEW t \in {"snd", "cmd"}, Exit(t) PROVE PatientInv'
  <2>1. /\ pc[t] = "idle" /\ <<t, "kill">> \in msgs /\ msgs' = msgs \ {<<t, "kill">>}
        /\ Goto(t, "gone") /\ pThread' = pThread \ {t}
        /\ Fine /\ UNCHANGED <<ccm, pSocket, sendList, rcvList, rcvMsgs, quit>>
    BY <1>11 DEF Exit, Taken, At
  <2>2. pc'[t] = "gone" /\ \A u \in Threads \ {t} : pc'[u] = pc[u]
    BY <1>4, <2>1
  <2>3. /\ pc'["gui"] = pc["gui"] /\ pc'["rcv"] = pc["rcv"] /\ pc'["feeder"] = pc["feeder"]
        /\ \A w \in {"snd", "cmd"} : w # t => pc'[w] = pc[w]
    BY <1>1, <2>2
  <2>4. pc["gui"] \in {"wait snd", "wait cmd"}
    BY <1>1, <1>2, <2>1 DEF WorkerInv, WorkersGone, BaseInv, Places
  <2>5. IF t = "snd" THEN pc["gui"] = "wait snd" ELSE pc["gui"] = "wait cmd"
    BY <1>2, <2>1, <2>4 DEF WorkerInv
  <2>6. CalmInv'
    BY <1>2, <2>1, <2>3 DEF CalmInv
  <2>7. SocketInv'
    BY <1>2, <2>1, <2>2, <2>3 DEF SocketInv, Settled
  <2>8. ThreadInv'
    BY <1>1, <1>2, <2>1, <2>2, <2>3 DEF ThreadInv
  <2>9. ReceiveInv'
    BY <1>2, <2>1, <2>3, <2>5 DEF ReceiveInv
  <2>10. WorkerInv'
    BY <1>2, <2>1, <2>2, <2>3, <2>5 DEF WorkerInv
  <2> QED
    BY <2>6, <2>7, <2>8, <2>9, <2>10 DEF PatientInv
<1> QED
  BY <1>7, <1>8, <1>9, <1>10, <1>11 DEF Send, Command

LEMMA OthersPatient ==
  ASSUME MaxPackets \in Nat, BaseInv, patient, PatientInv, crashed = "no",
         SendIdataToPag \/ Queue \/ TimerTick \/ PressShutdown
  PROVE  PatientInv'
<1>1. /\ Threads = {"rcv", "snd", "cmd", "feeder", "gui"} /\ Workers = {"rcv", "snd", "cmd"}
      /\ "feeder" \in Threads /\ "gui" \in Threads
  BY DEF Threads, Workers
<1>2. CalmInv /\ SocketInv /\ ThreadInv /\ ReceiveInv /\ WorkerInv
  BY DEF PatientInv
<1>3. sendList \in Gone .. MaxPackets /\ (rcvList = Gone <=> sendList = Gone)
  BY DEF BaseInv, TypeOK
<1>4. \A t \in {"feeder", "gui"} : \A l :
        Goto(t, l) => pc'[t] = l /\ \A u \in Threads \ {t} : pc'[u] = pc[u]
  BY <1>1, Gone1 DEF BaseInv
\* The feeder goes on.
<1>5. ASSUME NEW l \in {"idle", "queue"}, Goto("feeder", l), ~calm, pSocket # "null",
             sendList' # Gone, sendList # Gone,
             UNCHANGED <<calm, traffic, ccm, pSocket, pThread, rcvMsgs, msgs, quit, crashed>>
      PROVE  PatientInv'
  <2>1. pc'["feeder"] = l /\ \A u \in Threads \ {"feeder"} : pc'[u] = pc[u]
    BY <1>4, <1>5
  <2>2. /\ pc'["rcv"] = pc["rcv"] /\ pc'["snd"] = pc["snd"] /\ pc'["cmd"] = pc["cmd"]
        /\ pc'["gui"] = pc["gui"]
    BY <1>1, <2>1
  <2>3. CalmInv'
    BY <1>2, <1>5 DEF CalmInv
  <2>4. SocketInv'
    BY <1>2, <1>5, <2>2 DEF SocketInv
  <2>5. ThreadInv'
    BY <1>1, <1>2, <1>5, <2>2 DEF ThreadInv
  <2>6. ReceiveInv'
    BY <1>2, <1>5, <2>2 DEF ReceiveInv
  <2>7. WorkerInv'
    BY <1>1, <1>2, <1>5, <2>2 DEF WorkerInv, WorkersGone
  <2> QED
    BY <2>3, <2>4, <2>5, <2>6, <2>7 DEF PatientInv
<1>6. pSocket # "null" => ccm /\ sendList # Gone
  BY <1>2 DEF SocketInv, ThreadInv, ReceiveInv
<1> USE DEF Fine, outside, state, queues
<1>7. CASE SendIdataToPag
  <2>1. CASE pSocket = "null"
    BY <1>7, <2>1, PostPatient DEF SendIdataToPag
  <2>2. CASE pSocket # "null"
    <3>1. traffic /\ Goto("feeder", "queue") /\ Fine /\ UNCHANGED <<state, queues>>
      BY <1>7, <2>2 DEF SendIdataToPag
    <3>2. ~calm
      BY <1>2, <3>1 DEF CalmInv
    <3> QED
      BY <1>5, <1>6, <2>2, <3>1, <3>2
  <2> QED
    BY <2>1, <2>2
<1>8. CASE Queue
  <2>1. pc["feeder"] = "queue"
    BY <1>8 DEF Queue, At
  <2>2. pSocket # "null" /\ ~calm
    BY <1>2, <2>1 DEF SocketInv, Settled, CalmInv
  <2>3. /\ sendList' = sendList + 1 /\ Goto("feeder", "idle")
        /\ Fine /\ UNCHANGED <<ccm, pSocket, rcvList, pThread, queues>>
    BY <1>6, <1>8, <2>2 DEF Queue
  <2>4. sendList' # Gone
    BY <1>3, <2>3 DEF Gone
  <2> QED
    BY <1>5, <1>6, <2>2, <2>3, <2>4
<1>9. CASE TimerTick
  <2>1. pc["gui"] = "run"
    BY <1>9 DEF TimerTick, nShutDown
  <2> QED
    BY <1>9, <2>1, PostPatient DEF TimerTick, nShutDown
<1>10. CASE PressShutdown
  <2>1. /\ pc["gui"] = "run" /\ Goto("gui", "waitTester")
        /\ UNCHANGED <<patient, traffic, state, queues, crashed>>
        /\ calm' => ~traffic /\ sendList = 0 /\ pc["feeder"] = "idle"
    BY <1>10 DEF PressShutdown, GuiStep, At
  <2>2. pc'["gui"] = "waitTester" /\ \A u \in Threads \ {"gui"} : pc'[u] = pc[u]
    BY <1>4, <2>1
  <2>3. /\ pc'["rcv"] = pc["rcv"] /\ pc'["snd"] = pc["snd"] /\ pc'["cmd"] = pc["cmd"]
        /\ pc'["feeder"] = pc["feeder"]
    BY <1>1, <2>2
  <2>4. CalmInv'
    BY <2>1, <2>3 DEF CalmInv
  <2>5. SocketInv'
    BY <1>2, <2>1, <2>3 DEF SocketInv, Settled
  <2>6. ThreadInv'
    BY <1>1, <1>2, <2>1, <2>3 DEF ThreadInv
  <2>7. ReceiveInv'
    BY <1>2, <2>1, <2>2, <2>3 DEF ReceiveInv
  <2>8. WorkerInv'
    BY <1>2, <2>1, <2>2, <2>3 DEF WorkerInv
  <2> QED
    BY <2>4, <2>5, <2>6, <2>7, <2>8 DEF PatientInv
<1> QED
  BY <1>7, <1>8, <1>9, <1>10

\* The GUI thread finds everybody where it has told them to be.
LEMMA DestroyPatient ==
  ASSUME MaxPackets \in Nat, BaseInv, patient, PatientInv, DestroyCCM
  PROVE  PatientInv'
<1>1. /\ Threads = {"rcv", "snd", "cmd", "feeder", "gui"} /\ Workers = {"rcv", "snd", "cmd"}
      /\ "gui" \in Threads
  BY DEF Threads, Workers
<1>2. CalmInv /\ SocketInv /\ ThreadInv /\ ReceiveInv /\ WorkerInv
  BY DEF PatientInv
<1>3. rcvMsgs \in Seq(RcvMessages) /\ quit \in BOOLEAN /\ pSocket \in {"null", "open", "closed"}
      /\ Places
  BY DEF BaseInv, TypeOK, RcvMessages
<1>4. ASSUME NEW l, Goto("gui", l)
      PROVE  /\ pc'["gui"] = l /\ pc'["rcv"] = pc["rcv"] /\ pc'["snd"] = pc["snd"]
             /\ pc'["cmd"] = pc["cmd"] /\ pc'["feeder"] = pc["feeder"]
  BY <1>1, <1>4, Gone1 DEF BaseInv
<1>5. ASSUME Awake("gui"), Delay("gui") \in {1, 3, 4}
      PROVE  /\ pc["snd"] # "busy" /\ pc["cmd"] # "busy" /\ pc["feeder"] = "idle"
             /\ \A w \in {"snd", "cmd"} : \A m : pc[w] = "idle" => <<w, m>> \notin msgs
             /\ pc["rcv"] # "exit" /\ (pc["rcv"] = "idle" => rcvMsgs = << >> /\ ~quit)
             /\ Delay("gui") # 1 => pc["rcv"] \in {"idle", "gone"}
  <2>1. Delay("gui") \in 1 .. 4 /\ (Delay("gui") # 1 => Delay("gui") > 2)
    BY <1>5
  <2>2. /\ pc["snd"] # "busy" /\ pc["cmd"] # "busy" /\ pc["feeder"] = "idle"
        /\ \A w \in {"snd", "cmd"} : \A m : pc[w] = "idle" => <<w, m>> \notin msgs
        /\ pc["rcv"] # "exit" /\ (pc["rcv"] = "idle" => rcvMsgs = << >> /\ ~quit)
    BY <1>5, <2>1, Patience
  <2>3. Delay("gui") # 1 =>
          pc["rcv"] \notin {"onClose", "killSocket", "killRecv", "killed", "exitSocket"}
    BY <1>5, <2>1, Patience
  <2>4. Delay("gui") # 1 => pc["rcv"] \in {"idle", "gone"}
    BY <1>3, <2>2, <2>3 DEF Places
  <2> QED
    BY <2>2, <2>4
<1>6. NoKills(<< >>) /\ \A k : ~Contains(<< >>, k)
  BY DEF NoKills, Contains
\* A step of the GUI thread that leaves lists and threads alone.
<1>7. ASSUME NEW l, Goto("gui", l), UNCHANGED <<patient, traffic, calm, crashed, ccm, pSocket,
             sendList, pThread, quit>>, \A k \in {"tick", "packet", "close"} :
               Contains(rcvMsgs', k) => Contains(rcvMsgs, k),
             <<"cmd", "packets">> \in msgs' => <<"cmd", "packets">> \in msgs
      PROVE  CalmInv' /\ SocketInv' /\ (ccm => ThreadInv')
  <2>1. CalmInv'
    BY <1>2, <1>4, <1>7 DEF CalmInv
  <2>2. SocketInv'
    BY <1>2, <1>4, <1>7 DEF SocketInv, Settled
  <2>3. ccm => ThreadInv'
    BY <1>1, <1>2, <1>4, <1>7 DEF ThreadInv
  <2> QED
    BY <2>1, <2>2, <2>3
<1>8. pc["gui"] # "done" => ccm
  BY <1>2 DEF ThreadInv
<1> USE DEF Fine, outside, state, queues, GuiStep, At
<1>9. CASE GuiKillSocket
  <2>1. pc["gui"] = "waitTester" /\ Awake("gui")
    BY <1>9 DEF GuiKillSocket
  <2>2. Delay("gui") = 4
    BY <1>3, <2>1, Waits
  <2>3. /\ pc["rcv"] = "idle" /\ rcvMsgs = << >> /\ ~quit /\ pSocket # "closed"
        /\ pc["snd"] = "idle" /\ <<"snd", "send">> \notin msgs
    BY <1>2, <1>3, <1>5, <2>1, <2>2 DEF ReceiveInv, SocketInv, WorkerInv, Places
  <2>4. CASE pSocket # "null"
    <3>1. /\ Goto("gui", "sleepKill") /\ PostRcv("killSocket")
          /\ Fine /\ UNCHANGED <<state, msgs, quit>>
      BY <1>1, <1>2, <1>9, <2>3, <2>4 DEF GuiKillSocket, ThreadInv
    <3>2. rcvMsgs' = Append(rcvMsgs, "killSocket")
      BY <2>3, <3>1 DEF PostRcv
    <3>3. /\ \A k \in RcvMessages : Contains(rcvMsgs', k) => k = "killSocket"
          /\ FirstIs(rcvMsgs', "killSocket")
      BY <1>3, <1>6, <2>3, <3>2, Appended DEF RcvMessages, FromGui
    <3>4. CalmInv' /\ SocketInv' /\ ThreadInv'
      BY <1>7, <1>8, <2>1, <3>1, <3>3 DEF RcvMessages
    <3>9. /\ pc'["gui"] = "sleepKill" /\ pc'["rcv"] = pc["rcv"] /\ pc'["snd"] = pc["snd"]
         /\ pc'["cmd"] = pc["cmd"] /\ pc'["feeder"] = pc["feeder"]
      BY <1>4, <3>1
    <3>5. ReceiveInv'
      BY <1>3, <2>3, <2>4, <3>1, <3>3, <3>9 DEF ReceiveInv
    <3>6. WorkerInv'
      BY <1>2, <2>1, <2>3, <3>1, <3>3, <3>9 DEF WorkerInv, RcvMessages
    <3> QED
      BY <3>4, <3>5, <3>6 DEF PatientInv
  <2>5. CASE pSocket = "null"
    <3>1. Goto("gui", "sleep20") /\ Fine /\ UNCHANGED <<state, queues>>
      BY <1>9, <2>5 DEF GuiKillSocket
    <3>2. CalmInv' /\ SocketInv' /\ ThreadInv'
      BY <1>7, <1>8, <2>1, <3>1
    <3>9. /\ pc'["gui"] = "sleep20" /\ pc'["rcv"] = pc["rcv"] /\ pc'["snd"] = pc["snd"]
         /\ pc'["cmd"] = pc["cmd"] /\ pc'["feeder"] = pc["feeder"]
      BY <1>4, <3>1
    <3>3. ReceiveInv'
      BY <1>6, <2>3, <3>1, <3>9 DEF ReceiveInv
    <3>4. WorkerInv'
      BY <1>2, <1>6, <2>1, <2>3, <3>1, <3>9 DEF WorkerInv
    <3> QED
      BY <3>2, <3>3, <3>4 DEF PatientInv
  <2> QED
    BY <2>4, <2>5
<1>10. CASE SocketAsked
  <2>1. pc["gui"] = "sleepKill" /\ Awake("gui")
    BY <1>10 DEF SocketAsked
  <2>2. Delay("gui") = 1
    BY <1>3, <2>1, Waits
  <2>3. pc["rcv"] = "killSocket" /\ ~quit /\ NoKills(rcvMsgs) /\ pSocket = "closed"
    <3>1. pc["rcv"] = "idle" => rcvMsgs = << >>
      BY <1>5, <2>1, <2>2
    <3> QED
      BY <1>2, <2>1, <3>1 DEF ReceiveInv, SocketInv, FirstIs
  <2>4. Goto("gui", "waitSocket") /\ Fine /\ UNCHANGED <<state, queues>>
    BY <1>10, <2>3 DEF SocketAsked
  <2>5. CalmInv' /\ SocketInv' /\ ThreadInv'
    BY <1>7, <1>8, <2>1, <2>4
  <2>9. /\ pc'["gui"] = "waitSocket" /\ pc'["rcv"] = pc["rcv"] /\ pc'["snd"] = pc["snd"]
       /\ pc'["cmd"] = pc["cmd"] /\ pc'["feeder"] = pc["feeder"]
    BY <1>4, <2>4
  <2>6. ReceiveInv'
    BY <2>3, <2>4, <2>9 DEF ReceiveInv
  <2>7. WorkerInv'
    BY <1>2, <2>1, <2>4, <2>9 DEF WorkerInv
  <2> QED
    BY <2>5, <2>6, <2>7 DEF PatientInv
<1>11. CASE SocketWaited
  <2>1. pc["gui"] = "waitSocket"
    BY <1>11 DEF SocketWaited
  <2>2. pc["rcv"] = "killSocket" /\ ~quit /\ NoKills(rcvMsgs) /\ pSocket = "closed"
    BY <1>2, <2>1 DEF ReceiveInv, SocketInv
  <2>3. Goto("gui", "sleep20") /\ Fine /\ UNCHANGED <<state, queues>>
    BY <1>11, <2>2 DEF SocketWaited
  <2>4. CalmInv' /\ SocketInv' /\ ThreadInv'
    BY <1>7, <1>8, <2>1, <2>3
  <2>9. /\ pc'["gui"] = "sleep20" /\ pc'["rcv"] = pc["rcv"] /\ pc'["snd"] = pc["snd"]
       /\ pc'["cmd"] = pc["cmd"] /\ pc'["feeder"] = pc["feeder"]
    BY <1>4, <2>3
  <2>5. ReceiveInv'
    BY <2>2, <2>3, <2>9 DEF ReceiveInv
  <2>6. WorkerInv'
    BY <1>2, <2>1, <2>3, <2>9 DEF WorkerInv
  <2> QED
    BY <2>4, <2>5, <2>6 DEF PatientInv
<1>12. CASE GuiKillReceiveThread("sleep20", "wait rcv")
  <2>1. /\ pc["gui"] = "sleep20" /\ Awake("gui") /\ Goto("gui", "wait rcv")
        /\ IF "rcv" \in pThread THEN PostRcv("killRecv") ELSE UNCHANGED rcvMsgs
        /\ Fine /\ UNCHANGED <<state, msgs, quit>>
    BY <1>12 DEF GuiKillReceiveThread
  <2>2. Delay("gui") = 3
    BY <1>3, <2>1, Waits
  <2>3. pc["rcv"] \in {"idle", "gone"} /\ (pc["rcv"] = "idle" => rcvMsgs = << >> /\ ~quit)
    <3>1. Delay("gui") \in {1, 3, 4} /\ Delay("gui") # 1
      BY <2>2
    <3>2. Awake("gui")
      BY <2>1
    <3> QED
      BY <1>5, <3>1, <3>2
  <2>4. CASE pc["rcv"] = "idle"
    <3>1. rcvMsgs' = Append(rcvMsgs, "killRecv")
      BY <1>1, <1>2, <2>1, <2>4 DEF PostRcv, ThreadInv
    <3>2. /\ \A k \in RcvMessages : Contains(rcvMsgs', k) => k = "killRecv"
          /\ FirstIs(rcvMsgs', "killRecv")
      BY <1>3, <1>6, <2>3, <2>4, <3>1, Appended DEF RcvMessages, FromGui
    <3>3. CalmInv' /\ SocketInv' /\ ThreadInv'
      BY <1>7, <1>8, <2>1, <3>2 DEF RcvMessages
    <3>9. /\ pc'["gui"] = "wait rcv" /\ pc'["rcv"] = pc["rcv"] /\ pc'["snd"] = pc["snd"]
         /\ pc'["cmd"] = pc["cmd"] /\ pc'["feeder"] = pc["feeder"]
      BY <1>4, <2>1
    <3>4. ReceiveInv'
      BY <2>1, <2>3, <2>4, <3>2, <3>9 DEF ReceiveInv
    <3>5. WorkerInv'
      BY <1>2, <2>1, <3>2, <3>9 DEF WorkerInv, RcvMessages
    <3> QED
      BY <3>3, <3>4, <3>5 DEF PatientInv
  <2>5. CASE pc["rcv"] = "gone"
    <3>1. rcvMsgs' = rcvMsgs /\ quit /\ NoKills(rcvMsgs)
      BY <1>1, <1>2, <2>1, <2>5 DEF ThreadInv, ReceiveInv
    <3>2. CalmInv' /\ SocketInv' /\ ThreadInv'
      BY <1>7, <1>8, <2>1, <3>1
    <3>9. /\ pc'["gui"] = "wait rcv" /\ pc'["rcv"] = pc["rcv"] /\ pc'["snd"] = pc["snd"]
         /\ pc'["cmd"] = pc["cmd"] /\ pc'["feeder"] = pc["feeder"]
      BY <1>4, <2>1
    <3>3. ReceiveInv'
      BY <2>1, <2>5, <3>1, <3>9 DEF ReceiveInv
    <3>4. WorkerInv'
      BY <1>2, <2>1, <3>1, <3>9 DEF WorkerInv
    <3> QED
      BY <3>2, <3>3, <3>4 DEF PatientInv
  <2> QED
    BY <2>3, <2>4, <2>5
\* A worker is told to quit, when the one before is gone.
<1>13. ASSUME NEW t \in {"snd", "cmd"}, NEW from, NEW l, GuiKill(t, from, l), t \in pThread
       PROVE  msgs' = msgs \cup {<<t, "kill">>} /\ pc[t] # "gone"
  <2>1. pc[t] # "gone"
    BY <1>1, <1>2, <1>13 DEF ThreadInv
  <2> QED
    BY <1>13, <2>1 DEF GuiKill, PostTo
<1>14. CASE GuiKill("snd", "wait rcv", "wait snd")
  <2>1. /\ pc["gui"] = "wait rcv" /\ Awake("gui") /\ Goto("gui", "wait snd")
        /\ Fine /\ UNCHANGED <<state, rcvMsgs, quit>>
    BY <1>14 DEF GuiKill
  <2>2. pc["rcv"] = "gone"
    <3>1. SUFFICES ASSUME pc["rcv"] # "gone" PROVE FALSE
      OBVIOUS
    <3>2. "rcv" \in pThread
      BY <1>1, <1>2, <3>1 DEF ThreadInv
    <3>3. Delay("gui") = 4
      BY <1>3, <2>1, <3>2, Waits
    <3>4. pc["rcv"] = "idle" /\ rcvMsgs = << >> /\ ~quit
      <4>1. Delay("gui") \in {1, 3, 4} /\ Delay("gui") # 1
        BY <3>3
      <4>2. Awake("gui")
        BY <2>1
      <4> QED
        BY <1>5, <3>1, <4>1, <4>2
    <3> QED
      BY <1>2, <2>1, <3>4 DEF ReceiveInv, FirstIs
  <2>3. pc["snd"] # "gone" /\ msgs' = msgs \cup {<<"snd", "kill">>}
    BY <1>1, <1>2, <1>13, <1>14, <2>1 DEF WorkerInv, ThreadInv
  <2>4. CalmInv' /\ SocketInv' /\ ThreadInv'
    BY <1>7, <1>8, <2>1, <2>3
  <2>9. /\ pc'["gui"] = "wait snd" /\ pc'["rcv"] = pc["rcv"] /\ pc'["snd"] = pc["snd"]
       /\ pc'["cmd"] = pc["cmd"] /\ pc'["feeder"] = pc["feeder"]
    BY <1>4, <2>1
  <2>5. ReceiveInv'
    BY <2>1, <2>2, <2>9 DEF ReceiveInv
  <2>6. WorkerInv'
    BY <1>2, <2>1, <2>3, <2>9 DEF WorkerInv
  <2> QED
    BY <2>4, <2>5, <2>6 DEF PatientInv
<1>15. ASSUME NEW t \in {"snd", "cmd"}, Awake("gui"),
              pc["gui"] = IF t = "snd" THEN "wait snd" ELSE "wait cmd"
       PROVE  pc[t] = "gone"
  <2>1. SUFFICES ASSUME pc[t] # "gone" PROVE FALSE
    OBVIOUS
  <2>2. t \in pThread /\ <<t, "kill">> \in msgs
    BY <1>1, <1>2, <1>15, <2>1 DEF ThreadInv, WorkerInv
  <2>3. Delay("gui") = 4
    BY <1>3, <1>15, <2>2, Waits
  <2>4. pc[t] = "idle"
    BY <1>3, <1>5, <1>15, <2>1, <2>3 DEF Places
  <2> QED
    BY <1>5, <1>15, <2>2, <2>3, <2>4
<1>16. CASE GuiKill("cmd", "wait snd", "wait cmd")
  <2>1. /\ pc["gui"] = "wait snd" /\ Awake("gui") /\ Goto("gui", "wait cmd")
        /\ Fine /\ UNCHANGED <<state, rcvMsgs, quit>>
    BY <1>16 DEF GuiKill
  <2>2. pc["rcv"] = "gone" /\ pc["snd"] = "gone"
    BY <1>2, <1>15, <2>1 DEF ReceiveInv
  <2>3. pc["cmd"] # "gone" /\ msgs' = msgs \cup {<<"cmd", "kill">>}
    BY <1>1, <1>2, <1>13, <1>16, <2>1 DEF WorkerInv, ThreadInv
  <2>4. CalmInv' /\ SocketInv' /\ ThreadInv'
    BY <1>7, <1>8, <2>1, <2>3
  <2>9. /\ pc'["gui"] = "wait cmd" /\ pc'["rcv"] = pc["rcv"] /\ pc'["snd"] = pc["snd"]
       /\ pc'["cmd"] = pc["cmd"] /\ pc'["feeder"] = pc["feeder"]
    BY <1>4, <2>1
  <2>5. ReceiveInv'
    BY <2>1, <2>2, <2>9 DEF ReceiveInv
  <2>6. WorkerInv'
    BY <1>2, <2>1, <2>2, <2>3, <2>9 DEF WorkerInv
  <2> QED
    BY <2>4, <2>5, <2>6 DEF PatientInv
\* Nobody is left, and the rest changes neither the messages nor the threads.
<1>17. ASSUME pc["gui"] \in {"delete", "lists", "last rcv", "last snd", "last cmd", "done"}
       PROVE  WorkersGone /\ pThread \cap Workers = {} /\ sendList = Gone
  BY <1>1, <1>2, <1>17 DEF WorkerInv, ThreadInv, WorkersGone
<1>18. ASSUME pc["gui"] \in {"wait cmd", "delete", "lists", "last rcv", "last snd", "last cmd"},
              pc["rcv"] = "gone", pc["snd"] = "gone", pc["cmd"] = "gone",
              NEW l \in {"delete", "lists", "last rcv", "last snd", "last cmd", "done"},
              Goto("gui", l), UNCHANGED <<pSocket, pThread, rcvMsgs, msgs, quit>>,
              Fine, sendList' = sendList, ccm' = ccm \/ l = "done"
       PROVE  PatientInv'
  <2>1. /\ pc'["gui"] = l /\ pc'["rcv"] = "gone" /\ pc'["snd"] = "gone" /\ pc'["cmd"] = "gone"
        /\ pc'["feeder"] = pc["feeder"]
    BY <1>4, <1>18
  <2>2. CalmInv'
    BY <1>2, <1>18, <2>1 DEF CalmInv
  <2>3. SocketInv'
    BY <1>2, <1>18, <2>1 DEF SocketInv, Settled
  <2>4. ThreadInv'
    <3>1. /\ sendList' = Gone /\ pThread' = pThread /\ quit' = quit /\ (~ccm' => pc'["gui"] = "done")
      <4>1. sendList = Gone /\ ccm
        BY <1>2, <1>8, <1>18 DEF ThreadInv
      <4> QED
        BY <1>18, <2>1, <4>1
    <3>2. quit /\ \A t \in Workers : t \notin pThread
      BY <1>1, <1>2, <1>18 DEF ThreadInv
    <3> QED
      BY <1>1, <2>1, <3>1, <3>2 DEF ThreadInv
  <2>5. ReceiveInv'
    BY <1>18, <2>1 DEF ReceiveInv
  <2>6. WorkerInv'
    BY <1>1, <1>2, <1>18, <2>1 DEF WorkerInv, WorkersGone
  <2> QED
    BY <2>2, <2>3, <2>4, <2>5, <2>6 DEF PatientInv
<1>19. CASE Awake("gui") /\ GuiStep("wait cmd", "delete") /\ Fine /\ UNCHANGED <<state, queues>>
  <2>1. pc["rcv"] = "gone" /\ pc["snd"] = "gone" /\ pc["cmd"] = "gone"
    BY <1>2, <1>15, <1>19 DEF ReceiveInv, WorkerInv
  <2> QED
    BY <1>18, <1>19, <2>1
<1>20. CASE DeleteLists
  <2>1. pc["gui"] = "delete"
    BY <1>20 DEF DeleteLists
  <2>2. pc["rcv"] = "gone" /\ pc["snd"] = "gone" /\ pc["cmd"] = "gone" /\ sendList = Gone
    BY <1>1, <1>17, <2>1 DEF WorkersGone
  <2>3. Goto("gui", "lists") /\ sendList' = Gone /\ Fine /\ UNCHANGED <<ccm, pSocket, pThread, queues>>
    BY <1>20 DEF DeleteLists
  <2> QED
    BY <1>18, <2>1, <2>2, <2>3
<1>21. CASE KillThreadsAgain
  <2>1. pc["gui"] \in {"lists", "last rcv", "last snd"}
    BY <1>21 DEF KillThreadsAgain, GuiKillReceiveThread, GuiKill
  <2>2. /\ pc["rcv"] = "gone" /\ pc["snd"] = "gone" /\ pc["cmd"] = "gone" /\ sendList = Gone
        /\ \A t \in Workers : t \notin pThread
    BY <1>1, <1>17, <2>1 DEF WorkersGone
  <2>3. PICK l \in {"last rcv", "last snd", "last cmd"} :
          Goto("gui", l) /\ Fine /\ UNCHANGED <<state, queues>>
    BY <1>1, <1>21, <2>2 DEF KillThreadsAgain, GuiKillReceiveThread, GuiKill
  <2> QED
    BY <1>18, <2>1, <2>2, <2>3
<1>22. CASE Deleted
  <2>1. pc["gui"] = "last cmd"
    BY <1>22 DEF Deleted
  <2>2. pc["rcv"] = "gone" /\ pc["snd"] = "gone" /\ pc["cmd"] = "gone"
    BY <1>1, <1>17, <2>1 DEF WorkersGone
  <2>3. Goto("gui", "done") /\ Fine /\ UNCHANGED <<pSocket, sendList, rcvList, pThread, queues>>
    BY <1>22 DEF Deleted
  <2> QED
    BY <1>18, <2>1, <2>2, <2>3
<1> QED
  BY <1>9, <1>10, <1>11, <1>12, <1>14, <1>16, <1>19, <1>20, <1>21, <1>22 DEF DestroyCCM, KillThreads

-----------------------------------------------------------------------------
LEMMA DownStarts == MaxPackets \in Nat /\ Init => DownInv
<1> SUFFICES ASSUME MaxPackets \in Nat, Init PROVE DownInv
  OBVIOUS
<1>1. /\ Threads = {"rcv", "snd", "cmd", "feeder", "gui"} /\ Workers = {"rcv", "snd", "cmd"}
  BY DEF Threads, Workers
<1>2. /\ pc["gui"] = "run" /\ \A t \in {"rcv", "snd", "cmd", "feeder"} : pc[t] = "idle"
      /\ pc \in [Threads -> Labels]
  BY <1>1 DEF Init, Labels
<1>3. Places
  BY <1>2 DEF Places
<1>4. rcvMsgs = <<"init">> /\ rcvMsgs \in Seq(RcvMessages) /\ \A k : Contains(rcvMsgs, k) <=> k = "init"
  BY DEF Init, RcvMessages, Contains
<1>5. 0 \in Gone .. MaxPackets /\ 0 # Gone
  BY DEF Gone
<1>6. TypeOK
  BY <1>2, <1>4, <1>5 DEF Init, TypeOK, Labels, RcvMessages
<1>7. BaseInv
  BY <1>2, <1>3, <1>6 DEF BaseInv
<1>8. NoKills(rcvMsgs)
  BY <1>4 DEF NoKills, FromGui
<1>9. CalmInv /\ SocketInv
  BY <1>2, <1>4 DEF Init, CalmInv, SocketInv, Settled
<1>10. ThreadInv
  BY <1>1, <1>2, <1>5 DEF Init, ThreadInv
<1>11. ReceiveInv
  BY <1>2, <1>8 DEF Init, ReceiveInv
<1>12. WorkerInv
  BY <1>2 DEF Init, WorkerInv
<1> QED
  BY <1>7, <1>9, <1>10, <1>11, <1>12 DEF DownInv, PatientInv

LEMMA DownKept == MaxPackets \in Nat /\ DownInv /\ [Next]_vars => DownInv'
<1> SUFFICES ASSUME MaxPackets \in Nat, DownInv, [Next]_vars PROVE DownInv'
  OBVIOUS
<1>1. BaseInv /\ (patient => PatientInv)
  BY DEF DownInv
<1>2. CASE Next
  <2>1. crashed = "no"
    BY <1>2 DEF Next
  <2>2. patient' = patient
    BY <1>2 DEF Next, TrafficEnds, PagCommands, PagCloses, Notify, Outside, Receive, InitTcpThread,
       OnTimer, OnReceive, OnClose, SocketForgotten, KillSocket, KillReceiveThread, SocketKilled,
       KillSlept, RcvQuits, ExitNothing, ExitSocket, ExitLists, Through, Close, Crash, Send,
       TransmitPackets, SendNext, Command, ProcessReceivedMessage, CommandNext, Exit,
       SendIdataToPag, Queue, TimerTick, PressShutdown, DestroyCCM, GuiKillSocket, SocketAsked,
       SocketWaited, KillThreads, GuiKillReceiveThread, GuiKill, DeleteLists, KillThreadsAgain,
       Deleted, Fine, outside
  <2>3. CASE TrafficEnds \/ PagCommands \/ PagCloses
    BY <1>1, <2>2, <2>3, OutsideBase, OutsidePatient DEF DownInv
  <2>4. CASE Receive \/ RcvQuits
    BY <1>1, <2>2, <2>4, ReceiveBase, ReceivePatient DEF DownInv
  <2>5. CASE Send \/ Command
    BY <1>1, <2>2, <2>5, WorkersBase, WorkersPatient DEF DownInv
  <2>6. CASE SendIdataToPag \/ Queue \/ TimerTick \/ PressShutdown
    BY <1>1, <2>1, <2>2, <2>6, OthersBase, OthersPatient DEF DownInv
  <2>7. CASE DestroyCCM
    BY <1>1, <2>2, <2>7, DestroyBase, DestroyPatient DEF DownInv
  <2> QED
    BY <1>2, <2>3, <2>4, <2>5, <2>6, <2>7 DEF Next
<1>3. CASE UNCHANGED vars
  <2>1. UNCHANGED <<patient, traffic, calm, ccm, pSocket, sendList, rcvList, pThread, rcvMsgs, msgs,
                    quit, pc, crashed>>
    BY <1>3 DEF vars, outside, state, queues
  <2>2. BaseInv'
    <3>1. TypeOK' /\ Places'
      <4>1. TypeOK'
        BY <1>1, <2>1 DEF BaseInv, TypeOK
      <4>2. Places'
        BY <1>1, <2>1 DEF BaseInv, Places
      <4> QED
        BY <4>1, <4>2
    <3> QED
      BY <1>1, <2>1, <3>1 DEF BaseInv
  <2>3. patient => CalmInv' /\ SocketInv' /\ ThreadInv'
    BY <1>1, <2>1 DEF PatientInv, CalmInv, SocketInv, Settled, ThreadInv
  <2>4. patient => ReceiveInv' /\ WorkerInv'
    BY <1>1, <2>1 DEF PatientInv, ReceiveInv, WorkerInv, WorkersGone
  <2> QED
    BY <2>1, <2>2, <2>3, <2>4 DEF DownInv, PatientInv
<1> QED
  BY <1>2, <1>3

\* PA2WinDlg.cpp:2268 and the threads it tells to end: for lists of any length and any number
\* of messages, what the model promises of a connection that is taken down.
THEOREM ConnectionGoesDown == Spec => []Inv
<1>1. DownInv => Inv
  <2> SUFFICES ASSUME DownInv PROVE Inv
    OBVIOUS
  <2>1. TypeOK
    BY DEF DownInv, BaseInv
  <2>2. patient => crashed \in {"no", "rcv"} /\ (calm => crashed = "no")
    BY DEF DownInv, PatientInv, CalmInv
  <2>3. patient /\ ~ccm => WorkersGone
    BY DEF DownInv, PatientInv, ThreadInv, WorkerInv
  <2> QED
    BY <2>1, <2>2, <2>3 DEF Inv, CleanExit
<1> QED
  <2>1. Init => DownInv
    BY DownStarts, ShutdownAssumption
  <2>2. DownInv /\ [Next]_vars => DownInv'
    BY DownKept, ShutdownAssumption
  <2> QED
    BY <1>1, <2>1, <2>2, PTL DEF Spec
=============================================================================
