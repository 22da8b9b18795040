----------------------------- MODULE Recording ------------------------------
(***************************************************************************)
(* The record of all-wall data that the PAG keeps, CNcNx::m_AllWallFile.   *)
(*                                                                         *)
(*  - The GUI thread opens and closes the dialog, and the file when its    *)
(*    button is pressed.                                                   *)
(*  - There is a receive-list thread for every PAP.  ProcessPAP_Data       *)
(*    follows gDlg.pNcNx to the dialog, and writes a packet if the file is *)
(*    said to be open.  Nothing keeps the GUI thread off meanwhile.        *)
(*                                                                         *)
(* After an access to what is not there the program stops (crashed), as it *)
(* does when a thread throws.  The copies of the last packets, which are   *)
(* only shown, are left out.                                               *)
(***************************************************************************)
EXTENDS Integers, Sequences

CONSTANTS
  Paps,        \* those connected
  MaxPackets,  \* bound: packets of each
  MaxPresses   \* bound: what is done with the dialog

Parameters ==
  /\ Paps # {} /\ {"no", "End"} \cap Paps = {}
  /\ MaxPackets \in Nat /\ MaxPresses \in Nat

VARIABLES
  dialog,          \* gDlg.pNcNx: "none", "made" before OnInitDialog has run, or "shown"
  m_nRecordState,  \* 0, or what it was before it was set
  fileOpen,        \* m_AllWallFile has a handle
  record,          \* what the open file, or the last one closed, has in it
  gui,             \* what the GUI thread does: "idle", "opened", "saving" or "closed"
  empty,           \* the file was found to be empty
  packet,          \* the packet of each PAP: the last one that came
  thread,          \* what its thread does: "idle", "copied" it or "writes" it
  overtaken,       \* the threads that tested something which has been changed
  early,           \* history: the packets in the file before m_nRecordState was set
  presses,
  crashed

screen == <<dialog, m_nRecordState, fileOpen, record, gui, empty, early, presses>>
threads == <<packet, thread>>
recording == <<screen, threads, overtaken, crashed>>

Init ==
  /\ dialog = "none" /\ m_nRecordState = 0 /\ fileOpen = FALSE /\ record = << >>
  /\ gui = "idle" /\ empty = FALSE
  /\ packet = [p \in Paps |-> 0] /\ thread = [p \in Paps |-> "idle"] /\ overtaken = {}
  /\ early = 0 /\ presses = 0 /\ crashed = "no"

-----------------------------------------------------------------------------
\* The GUI thread.

Busy == {p \in Paps : thread[p] # "idle"}

\* While a press is being dealt with, no test that a thread makes can be relied upon.
Gui(A) == A /\ overtaken' = overtaken \cup Busy /\ UNCHANGED <<threads, crashed>>

Press(A) ==
  Gui(gui = "idle" /\ dialog # "made" /\ presses < MaxPresses /\ presses' = presses + 1 /\ A)

\* OnConfigureNcNx.  The constructor leaves m_nRecordState as the memory was.
OnConfigureNcNx ==
  Press(/\ dialog = "none" /\ dialog' = "made" /\ m_nRecordState' \in {0, 1}
        /\ UNCHANGED <<fileOpen, record, gui, empty, early>>)

OnInitDialog ==
  Gui(/\ dialog = "made" /\ dialog' = "shown" /\ m_nRecordState' = 0
      /\ UNCHANGED <<fileOpen, record, gui, empty, early, presses>>)

\* OnOK and OnCancel delete the dialog, which closes the file.
OnClose ==
  Press(/\ dialog = "shown" /\ dialog' = "none" /\ fileOpen' = FALSE
        /\ UNCHANGED <<m_nRecordState, record, gui, empty, early>>)

\* OnBnClickedBnRecord.  A file that cannot be opened throws at SeekToBegin, and is
\* forgotten.
OpenRecord ==
  Press(/\ dialog = "shown" /\ m_nRecordState = 0
        /\ fileOpen' = TRUE /\ record' = << >> /\ gui' = "opened" /\ early' = 0
        /\ UNCHANGED <<dialog, m_nRecordState, empty>>)

StartRecord ==
  Gui(/\ gui = "opened" /\ m_nRecordState' = 1 /\ gui' = "idle" /\ early' = Len(record)
      /\ UNCHANGED <<dialog, fileOpen, record, empty, presses>>)

TestLength ==
  Press(/\ dialog = "shown" /\ m_nRecordState > 0 /\ empty' = (record = << >>) /\ gui' = "saving"
        /\ UNCHANGED <<dialog, m_nRecordState, fileOpen, record, early>>)

\* A file without packets gets an "End".
End == <<"End", 0>>

CloseRecord ==
  Gui(/\ gui = "saving" /\ fileOpen' = FALSE /\ gui' = "closed"
      /\ record' = IF empty THEN Append(record, End) ELSE record
      /\ UNCHANGED <<dialog, m_nRecordState, empty, early, presses>>)

ForgetRecord ==
  Gui(/\ gui = "closed" /\ m_nRecordState' = 0 /\ gui' = "idle"
      /\ UNCHANGED <<dialog, fileOpen, record, empty, early, presses>>)

-----------------------------------------------------------------------------
\* ProcessPAP_Data for a packet of all-wall data.

Settled == gui = "idle" /\ dialog # "made"
Go(p, l) == thread' = [thread EXCEPT ![p] = l]
Crash(p) == crashed' = p /\ UNCHANGED <<screen, threads, overtaken>>

\* Without a dialog it is dropped.
CopyAllWall(p) ==
  /\ thread[p] = "idle" /\ packet[p] < MaxPackets
  /\ packet' = [packet EXCEPT ![p] = @ + 1]
  /\ Go(p, IF dialog = "none" THEN "idle" ELSE "copied")
  /\ overtaken' = IF Settled THEN overtaken \ {p} ELSE overtaken \cup {p}
  /\ UNCHANGED <<screen, crashed>>

\* Variant: the state is not tested.
AlwaysWrite(p) ==
  /\ thread[p] = "copied"
  /\ \/ dialog # "none" /\ Go(p, "writes") /\ UNCHANGED <<screen, packet, overtaken, crashed>>
     \/ dialog = "none" /\ Crash(p)

TestRecordState(p) ==
  /\ thread[p] = "copied"
  /\ \/ dialog # "none" /\ Go(p, IF m_nRecordState > 0 THEN "writes" ELSE "idle")
        /\ UNCHANGED <<screen, packet, overtaken, crashed>>
     \/ dialog = "none" /\ Crash(p)

\* A CFile that is not open throws.
WriteAllWall(p) ==
  /\ thread[p] = "writes"
  /\ \/ /\ dialog # "none" /\ fileOpen
        /\ record' = Append(record, <<p, packet[p]>>) /\ Go(p, "idle")
        /\ UNCHANGED <<dialog, m_nRecordState, fileOpen, gui, empty, early, presses, packet,
                       overtaken, crashed>>
     \/ (dialog = "none" \/ ~fileOpen) /\ Crash(p)

ProcessPAP_Data == \E p \in Paps : CopyAllWall(p) \/ TestRecordState(p) \/ WriteAllWall(p)

Next ==
  /\ crashed = "no"
  /\ \/ OnConfigureNcNx \/ OnInitDialog \/ OnClose
     \/ OpenRecord \/ StartRecord \/ TestLength \/ CloseRecord \/ ForgetRecord
     \/ ProcessPAP_Data

Spec == Init /\ [][Next]_recording

-----------------------------------------------------------------------------
TypeOK ==
  /\ dialog \in {"none", "made", "shown"} /\ m_nRecordState \in {0, 1}
  /\ {fileOpen, empty} \subseteq BOOLEAN
  /\ record \in Seq((Paps \X (1 .. MaxPackets)) \cup {End})
  /\ gui \in {"idle", "opened", "saving", "closed"}
  /\ packet \in [Paps -> 0 .. MaxPackets] /\ thread \in [Paps -> {"idle", "copied", "writes"}]
  /\ overtaken \subseteq Paps /\ early \in 0 .. Len(record)
  /\ presses \in 0 .. MaxPresses /\ crashed \in Paps \cup {"no"}

\* From the j-th to the k-th place in the record, no packet of their PAP is missing.
NoGap(j, k) ==
  /\ record[j][2] < record[k][2]
  /\ \A n \in record[j][2] .. record[k][2] : \E i \in j .. k : record[i] = <<record[j][1], n>>

\* NcNx.cpp:1723 and ServerRcvListThread.cpp:1299: a record has the packets of each PAP in
\* their order and without a gap, and "End" only if it has none, however presses and packets
\* come, but for what a press overtakes on its way: a thread that found the record before
\* it open may put one packet into the new one as soon as that has a file, and the next
\* ones may be dropped until m_nRecordState is set.  Nothing else ends the program.
RecordIsWhole ==
  /\ \A p \in Paps : crashed = p => p \in overtaken
  /\ \A j, k \in DOMAIN record :
       j < k /\ record[j][1] = record[k][1] => k > early /\ (j > early => NoGap(j, k))
  /\ \A i \in DOMAIN record : record[i] = End => ~fileOpen /\ i = Len(record)
  /\ gui = "closed" /\ (\E i \in DOMAIN record : record[i] = End) =>
       \A i \in DOMAIN record : record[i] # End => record[i][1] \in overtaken
=============================================================================
