--------------------------- MODULE IdataAssembly ---------------------------
(***************************************************************************)
(* CServerRcvListThread::ProcessInstrumentData and AddToIdataPacket: how   *)
(* the receive-list thread of the PAP turns the packets of one gate board  *)
(* into IDATA_PAP packets for the PAG.  Every virtual channel counts its   *)
(* own readings; the channel that has had ASCANS_TO_AVG of them puts its   *)
(* peaks into its slot of m_pIdataPacket, and the packet is sent when as   *)
(* many channels have done so as there are channels.                       *)
(*                                                                         *)
(* Readings themselves are abstracted away (WallFilter has them): what     *)
(* matters is which channel a reading belongs to and when its interval     *)
(* ends.  The list the thread takes packets from is first-in first-out, so *)
(* a packet is modelled from the moment it is taken off.  A slot of the    *)
(* packet being assembled holds how many main bangs ago it was filled.     *)
(* The copy of every packet for the all-wall client is not modelled.       *)
(***************************************************************************)
EXTENDS Integers, FiniteSets

CONSTANTS
  MaxSeq,        \* MAX_SEQ_COUNT: sequences with channels of their own
  Chnls,         \* MAX_CHNLS_PER_MAIN_BANG
  Ascans,        \* ASCANS_TO_AVG
  SeqPerPacket,  \* sequences in an instrument packet
  Modulos,       \* the sequence moduli the board may be set to
  Faults,        \* what may go wrong: "loss", "glitch", "modulo", "configure"
  MaxFaults      \* bound: faults in one run

ASSUME IdataAssumption ==
  /\ MaxSeq \in Nat \ {0} /\ Chnls \in Nat \ {0} /\ Ascans \in Nat \ {0}
  /\ SeqPerPacket \in Nat \ {0} /\ MaxFaults \in Nat
  /\ Modulos \subseteq 1 .. MaxSeq /\ Modulos # {}
  /\ Faults \subseteq {"loss", "glitch", "modulo", "configure"}

VARIABLES
  board,         \* the board: next bStartSeqNumber, bSeqModulo, bNiosGlitchCnt
  faults,        \* how much has gone wrong
  packet,        \* the instrument packet in work, or None
  reading,       \* how many of its readings have been processed
  gnSeqModulo,
  m_Seq, m_Ch,   \* the channel the next reading belongs to
  m_nFullPacketChnls,
  m_bNiosGlitchCnt,
  inputCnt,      \* m_bInputCnt of every channel
  slots,         \* the filled slots of m_pIdataPacket, which is NULL with none
  m_nStoredChannelCount,
  sent           \* the slots of the last packet sent

outsideIdata == <<board, faults>>
place == <<packet, reading, m_Seq, m_Ch>>
modulo == <<gnSeqModulo, m_nFullPacketChnls>>
assembly == <<slots, m_nStoredChannelCount, sent>>
idata == <<outsideIdata, place, modulo, m_bNiosGlitchCnt, inputCnt, assembly>>

None == [none |-> TRUE]
Empty == << >>

Channels(m) == (0 .. m - 1) \X (0 .. Chnls - 1)

InitIdata ==
  /\ \E m \in Modulos, s \in 0 .. MaxSeq - 1 :
       s < m /\ board = [start |-> s, modulo |-> m, glitch |-> 0]
  /\ faults = 0
  /\ packet = None /\ reading = 0 /\ m_Seq = 0 /\ m_Ch = 0
  /\ gnSeqModulo = 0 /\ m_nFullPacketChnls = 0 /\ m_bNiosGlitchCnt = 0
  /\ inputCnt = [c \in Channels(MaxSeq) |-> 0]
  /\ slots = Empty /\ m_nStoredChannelCount = 0 /\ sent = Empty

-----------------------------------------------------------------------------
\* The board and the network.  The board fires the sequences round robin and
\* starts a packet with the sequence that follows the last one of the packet
\* before.

NextStart == (board.start + SeqPerPacket) % board.modulo

Arrive ==
  /\ packet = None
  /\ packet' = board
  /\ reading' = 0
  /\ board' = [board EXCEPT !.start = NextStart]
  /\ UNCHANGED <<faults, m_Seq, m_Ch, modulo, m_bNiosGlitchCnt, inputCnt, assembly>>

Fault(f) == f \in Faults /\ faults < MaxFaults /\ faults' = faults + 1

\* OnReceive flushed the bytes of a packet.
Lose ==
  /\ Fault("loss")
  /\ board' = [board EXCEPT !.start = NextStart]
  /\ UNCHANGED <<place, modulo, m_bNiosGlitchCnt, inputCnt, assembly>>

Glitch ==
  /\ Fault("glitch")
  /\ board' = [board EXCEPT !.glitch = (board.glitch + 1) % 256]
  /\ UNCHANGED <<place, modulo, m_bNiosGlitchCnt, inputCnt, assembly>>

SetModulo ==
  /\ Fault("modulo")
  /\ \E m \in Modulos \ {board.modulo} :
       board' = [board EXCEPT !.start = 0, !.modulo = m]
  /\ UNCHANGED <<place, modulo, m_bNiosGlitchCnt, inputCnt, assembly>>

\* WFifoInit, called on the command thread for one channel at a time.
WFifoInit ==
  /\ Fault("configure")
  /\ \E c \in Channels(MaxSeq) : inputCnt' = [inputCnt EXCEPT ![c] = 0]
  /\ UNCHANGED <<board, place, modulo, m_bNiosGlitchCnt, assembly>>

-----------------------------------------------------------------------------
\* ProcessInstrumentData, case eNcNxInspID.

Glitched == DOMAIN slots # {} /\ packet.glitch # m_bNiosGlitchCnt
NewModulo == gnSeqModulo # packet.modulo

\* Variant: a new modulo does not restart the packet.
StartPacketKeepsSlots ==
  /\ packet # None /\ reading = 0 /\ m_Seq' = packet.start /\ m_Ch' = 0
  /\ slots' = IF Glitched THEN Empty ELSE slots
  /\ m_bNiosGlitchCnt' = IF Glitched THEN packet.glitch ELSE m_bNiosGlitchCnt
  /\ gnSeqModulo' = packet.modulo /\ m_nFullPacketChnls' = packet.modulo * Chnls
  /\ reading' = 1
  /\ UNCHANGED <<outsideIdata, packet, inputCnt, m_nStoredChannelCount, sent>>

\* Variant: every packet is taken to start with sequence 0.
StartPacketFromZero ==
  /\ packet # None /\ reading = 0 /\ m_Seq' = 0 /\ m_Ch' = 0
  /\ slots' = IF Glitched \/ NewModulo THEN Empty ELSE slots
  /\ m_bNiosGlitchCnt' = IF Glitched THEN packet.glitch ELSE m_bNiosGlitchCnt
  /\ gnSeqModulo' = packet.modulo /\ m_nFullPacketChnls' = packet.modulo * Chnls
  /\ reading' = 1
  /\ UNCHANGED <<outsideIdata, packet, inputCnt, m_nStoredChannelCount, sent>>

\* Before the loop: a glitch or a new modulo deletes the partial packet, and
\* the packet says which sequence comes first.
StartPacket ==
  /\ packet # None /\ reading = 0
  /\ slots' = IF Glitched \/ NewModulo THEN Empty ELSE slots
  /\ m_bNiosGlitchCnt' =
       IF Glitched THEN packet.glitch
       ELSE IF NewModulo /\ DOMAIN slots # {} THEN (m_bNiosGlitchCnt + 1) % 256
       ELSE m_bNiosGlitchCnt
  /\ m_Seq' = packet.start /\ m_Ch' = 0
  /\ gnSeqModulo' = packet.modulo /\ m_nFullPacketChnls' = packet.modulo * Chnls
  /\ reading' = 1
  /\ UNCHANGED <<outsideIdata, packet, inputCnt, m_nStoredChannelCount, sent>>

\* Variant: one channel too many.
MainBangOverLate == m_Ch >= Chnls

\* IncStartCh and IncStartSeq; a main bang is over with its last channel.
MainBangOver == m_Ch + 1 >= Chnls

IncStartCh ==
  /\ m_Ch' = IF MainBangOver THEN 0 ELSE m_Ch + 1
  /\ m_Seq' = IF MainBangOver THEN (m_Seq + 1) % gnSeqModulo ELSE m_Seq

Older(s) ==
  IF ~MainBangOver THEN s
  ELSE [c \in DOMAIN s |-> IF s[c] < MaxSeq THEN s[c] + 1 ELSE MaxSeq]

\* Variant: the count of a new packet starts at 2.
AddToIdataPacketCountsTwice(c) ==
  [slots |-> [d \in {c} \cup DOMAIN slots |-> IF d = c THEN 0 ELSE slots[d]],
   count |-> IF DOMAIN slots = {} THEN 2 ELSE m_nStoredChannelCount + 1]

AddToIdataPacket(c) ==
  [slots |-> [d \in {c} \cup DOMAIN slots |-> IF d = c THEN 0 ELSE slots[d]],
   count |-> IF DOMAIN slots = {} THEN 1 ELSE m_nStoredChannelCount + 1]

InLoop == packet # None /\ reading \in 1 .. SeqPerPacket * Chnls

\* A reading inside its channel's interval: AscanInputDone returns 0.
Reading ==
  /\ InLoop /\ inputCnt[<<m_Seq, m_Ch>>] + 1 < Ascans
  /\ inputCnt' = [inputCnt EXCEPT ![<<m_Seq, m_Ch>>] = @ + 1]
  /\ slots' = Older(slots)
  /\ reading' = reading + 1 /\ IncStartCh
  /\ UNCHANGED <<outsideIdata, packet, modulo, m_bNiosGlitchCnt, m_nStoredChannelCount, sent>>

\* The last reading of the interval: the channel fills its slot, and the packet
\* is sent once it is full.
LastReading ==
  /\ InLoop /\ inputCnt[<<m_Seq, m_Ch>>] + 1 >= Ascans
  /\ inputCnt' = [inputCnt EXCEPT ![<<m_Seq, m_Ch>>] = 0]
  /\ LET new == AddToIdataPacket(<<m_Seq, m_Ch>>)
         full == new.count = m_nFullPacketChnls
     IN  /\ m_nStoredChannelCount' = new.count
         /\ slots' = IF full THEN Empty ELSE Older(new.slots)
         /\ sent' = IF full THEN new.slots ELSE sent
  /\ reading' = reading + 1 /\ IncStartCh
  /\ UNCHANGED <<outsideIdata, packet, modulo, m_bNiosGlitchCnt>>

EndPacket ==
  /\ packet # None /\ reading > SeqPerPacket * Chnls
  /\ m_Seq' = (packet.start + SeqPerPacket) % gnSeqModulo
  /\ packet' = None /\ reading' = 0
  /\ UNCHANGED <<outsideIdata, m_Ch, modulo, m_bNiosGlitchCnt, inputCnt, assembly>>

ProcessInstrumentData == StartPacket \/ Reading \/ LastReading \/ EndPacket

NextIdata ==
  \/ Arrive \/ Lose \/ Glitch \/ SetModulo \/ WFifoInit
  \/ ProcessInstrumentData

SpecIdata == InitIdata /\ [][NextIdata]_idata

-----------------------------------------------------------------------------
IdataTypeOK ==
  /\ board.start \in 0 .. MaxSeq - 1 /\ board.modulo \in Modulos
  /\ board.glitch \in 0 .. 255 /\ m_bNiosGlitchCnt \in 0 .. 255
  /\ packet # None => packet.start < packet.modulo
  /\ reading \in 0 .. SeqPerPacket * Chnls + 1
  /\ gnSeqModulo \in Modulos \cup {0}
  /\ <<m_Seq, m_Ch>> \in Channels(MaxSeq)
  /\ \A c \in Channels(MaxSeq) : inputCnt[c] \in 0 .. Ascans - 1
  /\ \A s \in {slots, sent} :
       DOMAIN s \subseteq Channels(MaxSeq) /\ \A c \in DOMAIN s : s[c] \in 0 .. MaxSeq

\* The test for a full packet is an equality: whatever happens to the board and
\* the channels, a packet between two readings is still to be filled, so that
\* the equality is never stepped over and the stream to the PAG never ends.
NeverOverfull ==
  DOMAIN slots # {} /\ reading > 0 => m_nStoredChannelCount < m_nFullPacketChnls

\* ServerRcvListThread.cpp:901, "we will have collected all 3*8 = 24 channels":
\* no channel is missing from a packet that is sent.
AllChannels == DOMAIN sent # {} => \E m \in Modulos : DOMAIN sent = Channels(m)

\* The peaks in a packet are of one round of the outsideIdata: no channel filled its
\* slot a whole round before another one of the same packet.
OneRound == DOMAIN sent # {} => \A c \in DOMAIN sent : sent[c] * Chnls < Cardinality(DOMAIN sent)

\* A packet shows one round of the outsideIdata, whole.
WholeRound == AllChannels /\ OneRound
=============================================================================
