------------------------------ MODULE MCParts -------------------------------
(***************************************************************************)
(* The smaller parts of PAP and PAG, which share nothing with one another  *)
(* that their properties are about:                                        *)
(*                                                                         *)
(*  - what the receive-list thread does with inspection data: the two      *)
(*    filters of a CvChannel, with small FIFOs, and the assembly of the    *)
(*    packets for the PAG, for boards of two kinds: a steady one with the  *)
(*    sizes of the program, and one of a smaller size for which everything *)
(*    may go wrong;                                                        *)
(*  - the ring of commands of TestThread.cpp, the counts of lost packets,  *)
(*    the number of a PAP, and the configuration file;                     *)
(*  - the dialog of the PAG that makes commands, and its record of         *)
(*    all-wall data;                                                       *)
(*  - how the servers of the PAP are started and stopped.                  *)
(*                                                                         *)
(* Filters and assembly meet only in the peaks that are copied into the    *)
(* slots.  A behaviour exercises one part, the others staying as they were *)
(* constructed.                                                            *)
(***************************************************************************)
EXTENDS IdataAssembly, SmallCmdFifo

CONSTANTS
  Words, UInt, Byte, Gap,  \* as in SeqCount
  Paps, PacketsEach, MaxPresses,  \* as in Recording
  WallDepth, MaxNx, WordMax, WallAscans, Readings, WallParams,  \* as in WallFilter
  FlawDepth, Amps, FlawDefault, FlawParams,  \* as in NcFilter
  Drives, HighestNumber, Tried, MaxFiles,  \* as in PapNumber
  MaxServers, Values, MaxEdits, MaxCrashes,  \* as in IniFile
  Arrows, TypedTexts, Blasts, MaxChanges  \* as in PagCommands

VARIABLES
  part,  \* the one exercised: "wall", "flaw", "steady", "faulty", "ring", "count", "number", "ini",
         \* "dialog", "record" or "start"
  NxFifo, m_wTOFMaxSum, m_wTOFMinSum, m_bInputCnt, m_wBadInARow, dropOut, at, wWall, i, wOldWall,
  init, reported, lastGood, sums, lastSums, undisturbed,
  NcFifo, last, called,
  receiver, wMsgSeqCount, wLastSeqCnt, uLostReceivedPackets, gbAdcMsgIdErrorCntPAP,
  missing, fresh, lost, again, due, crossed, hidden,
  roots, myID, gbAssignedPAPNumber,
  file, m_sections, running, settings, edits, crashes, clean, wanted, damaged,
  text, position, kept, kind, m_nReadBackWhat, chosen, onList, deleted, changes, clicked, unsure,
  patiently, address, pSCM, pServerListenThread, pServerListenSocket, nServerIsListening, listener,
  m_pListenSocket, mail, gui, broken,
  screen, m_nRecordState, fileOpen, record, pressing, empty, arrived, thread, overtaken, early,
  presses, thrown

\* The run has FIFOs of three cells and WORDs up to 9: Nx of 2, limits that reject 0 as
\* too thin; more Nx than the FIFO allows; and a channel that is not a wall channel.
SomeParams ==
  {[nx |-> n, max |-> 3, min |-> 1, drop |-> 2] : n \in {0, 2, 3}}

Wall == INSTANCE WallFilter WITH
          Depth <- WallDepth, Ascans <- WallAscans, Params <- WallParams, pc <- at

\* What the constructor passes to FifoInit: every reading at or above 20 %.
ConstructorParams == [nc |-> 1, thld |-> 20, mod |-> 1]

\* The shape of the tests' call (2 of 3 readings), and what FifoInit corrects:
\* bNc beyond the cells, bMod below bNc, a threshold below 2 %, no bNc at all.
SomeFlawParams ==
  {[nc |-> 2, thld |-> 20, mod |-> 3], [nc |-> 5, thld |-> 20, mod |-> 3],
   [nc |-> 2, thld |-> 1, mod |-> 0], [nc |-> 0, thld |-> 20, mod |-> 0]}

\* The run has amplitudes below, just below, at and above the threshold of 20 %.
Nc == INSTANCE NcFilter WITH
        Depth <- FlawDepth, Default <- FlawDefault, Params <- FlawParams

Faulty == INSTANCE IdataAssembly WITH
            Chnls <- 1, Ascans <- 3, SeqPerPacket <- 5, Modulos <- {2, 3},
            Faults <- {"loss", "glitch", "modulo", "configure"}, MaxFaults <- 3

\* The run has WORDs of 4 numbers, BYTEs too, UINTs of twice as many, and gaps of more
\* than a WORD.
Count == INSTANCE SeqCount

\* The run has a drive for sticks, the one GetPAPFromCDrive looks at, and C; numbers of
\* which one is not looked for, and one is invalid.
SomeDrives == <<"G", "D", "C">>
Number == INSTANCE PapNumber WITH Highest <- HighestNumber

\* The run has a program that is killed once while it saves, and one change by hand.
Ini == INSTANCE IniFile

\* The run has two PAPs and two boards, the sequences of the program, and parameters beyond
\* what fake data may have; typed numbers in and out of range.
DialogFields == [pap |-> 1, board |-> 1, seq |-> 2, ch |-> 1, gate |-> 1, param |-> 40]
DialogTexts ==
  [pap |-> {1}, board |-> {1, 8}, seq |-> {1, 5}, ch |-> {}, gate |-> {}, param |-> {40, 41}]

SomeBlasts == [pulser |-> 1, adc |-> 11, large |-> 1, last |-> 1]
Dialog == INSTANCE PagCommands WITH Highest <- Arrows, Typed <- TypedTexts

Start == INSTANCE StartUp WITH patient <- patiently, crashed <- broken

\* The run has two PAPs with three packets each, and a dialog that is used four times:
\* opened, used to record and to save, and closed.
Record == INSTANCE Recording WITH
            MaxPackets <- PacketsEach, dialog <- screen, gui <- pressing,
            packet <- arrived, crashed <- thrown

ASSUME PartsAssumption ==
  /\ Wall!Parameters /\ Nc!Parameters /\ Count!Parameters /\ Number!Parameters /\ Ini!Parameters
  /\ Dialog!Parameters /\ Record!Parameters

wall == <<NxFifo, m_wTOFMaxSum, m_wTOFMinSum, m_bInputCnt, m_wBadInARow, dropOut, at, wWall, i,
          wOldWall, init, reported, lastGood, sums, lastSums, undisturbed>>
flaw == <<NcFifo, last, called>>
data == <<wall, flaw, idata>>
counts == <<receiver, wMsgSeqCount, wLastSeqCnt, uLostReceivedPackets, gbAdcMsgIdErrorCntPAP,
            missing, fresh, lost, again, due, crossed, hidden>>
numbers == <<roots, myID, gbAssignedPAPNumber>>
configuration == <<file, m_sections, running, settings, edits, crashes, clean, wanted, damaged>>
dialog == <<text, position, kept, kind, m_nReadBackWhat, chosen, onList, deleted, changes, clicked,
            unsure>>
starting == <<patiently, address, pSCM, pServerListenThread, pServerListenSocket,
              nServerIsListening, listener, m_pListenSocket, mail, gui, broken>>
recording == <<screen, m_nRecordState, fileOpen, record, pressing, empty, arrived, thread, overtaken,
               early, presses, thrown>>
memories == <<ring, counts, numbers, configuration, dialog>>
threads == <<starting, recording>>
others == <<memories, threads>>

\* A part that is not exercised starts in one of its initial states.
MCInit ==
  /\ part \in {"wall", "flaw", "steady", "faulty", "ring", "count", "number", "ini", "dialog",
              "start", "record"}
  /\ Wall!Init /\ Nc!Init /\ InitRing /\ Count!Init /\ Number!Init /\ Ini!Init
  /\ Dialog!Init /\ Start!Init /\ Record!Init
  /\ IF part = "faulty" THEN Faulty!InitIdata ELSE InitIdata
  /\ part \notin {"steady", "faulty"} => board.modulo = 1
  /\ part # "wall" => NxFifo.nx = 2 /\ ~dropOut
  /\ part # "count" => receiver = "server"
  /\ part # "number" => roots = {} /\ myID = {}
  /\ part # "ini" => file = <<>>
  /\ part # "start" => patiently /\ address = [s \in {0, 1} |-> "free"]

Filtering ==
  \/ part = "wall" /\ Wall!Next /\ UNCHANGED <<flaw, idata>>
  \/ part = "flaw" /\ Nc!Next /\ UNCHANGED <<wall, idata>>

Assembling ==
  \/ part = "steady" /\ NextIdata /\ UNCHANGED <<wall, flaw>>
  \/ part = "faulty" /\ Faulty!NextIdata /\ UNCHANGED <<wall, flaw>>

Keeping ==
  \/ part = "ring" /\ RingNext /\ UNCHANGED <<counts, numbers, configuration, dialog>>
  \/ part = "count" /\ Count!Next /\ UNCHANGED <<ring, numbers, configuration, dialog>>
  \/ part = "number" /\ Number!Next /\ UNCHANGED <<ring, counts, configuration, dialog>>
  \/ part = "ini" /\ Ini!Next /\ UNCHANGED <<ring, counts, numbers, dialog>>
  \/ part = "dialog" /\ Dialog!Next /\ UNCHANGED <<ring, counts, numbers, configuration>>

Acting ==
  \/ part = "start" /\ Start!Next /\ UNCHANGED recording
  \/ part = "record" /\ Record!Next /\ UNCHANGED starting

MCNext ==
  \/ (Filtering \/ Assembling) /\ UNCHANGED <<part, others>>
  \/ Keeping /\ UNCHANGED <<part, data, threads>>
  \/ Acting /\ UNCHANGED <<part, data, memories>>

MCSpec == MCInit /\ [][MCNext]_<<part, data, others>>

\* The type invariants of the parts: whatever parameters the filters are given, the
\* indices and what is stored stay within the FIFOs of the source.
MCTypeOK ==
  /\ part = "wall" => Wall!TypeOK
  /\ part = "flaw" => Nc!TypeOK
  /\ part = "steady" => IdataTypeOK
  /\ part = "faulty" => Faulty!IdataTypeOK
  /\ part = "ring" => RingTypeOK
  /\ part = "count" => Count!TypeOK
  /\ part = "number" => Number!TypeOK
  /\ part = "ini" => Ini!TypeOK
  /\ part = "dialog" => Dialog!TypeOK
  /\ part = "start" => Start!TypeOK
  /\ part = "record" => Record!TypeOK

\* WallFilter: the sum kept by differences is that of the FIFO, and of the last Nx good
\* readings; the peaks in a packet are those of its 16 readings.
WallIsRight == part = "wall" => Wall!SumIsRight /\ Wall!ReportsPeaks

\* NcFilter: a flaw is called exactly when Nc of the last bMod readings reach the
\* threshold, and the peak of an interval tells whether one was.
FlawsAreRight == part = "flaw" => Nc!FlawsAreRight

\* IdataAssembly's WholeRound, for the steady board: without faults every packet
\* sent has all channels, and they are of one round of the machine.
SteadyWhole == part = "steady" => WholeRound

\* SeqCount: a server's count and a client's are off by what is said there and no more.
CountsLosses == part = "count" => Count!CountsLosses

\* IniFile: what was saved is what is read, and what people set is used until they change
\* it, unless the program was killed before it was written again.
ConfigurationKept == part = "ini" => Ini!ConfigurationKept

\* PagCommands: what is chosen in the dialog, but for the silent entries, gets through PAG
\* and PAP to a board.
OffersArrive == part = "dialog" => Dialog!OffersArrive

\* PagCommands: a command goes where the arrows point and carries what is shown, with the
\* exceptions named there.
ShownIsSent == part = "dialog" => Dialog!ShownIsSent

\* StartUp: servers with a free address come to listen, and no listener outlives its object.
StartsAndStops == part = "start" => Start!StartsAndStops

\* Recording: what is recorded is whole, and only a press on its way harms a thread.
RecordIsWhole == part = "record" => Record!RecordIsWhole

\* PapNumber: the stick's number is taken and prevails, and no number is made up.
StickWins == [][part = "number" => Number!StickWins]_numbers
=============================================================================
