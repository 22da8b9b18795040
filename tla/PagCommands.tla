----------------------------- MODULE PagCommands -----------------------------
(***************************************************************************)
(* The dialog of the PAG that makes commands, CNcNx: six edit boxes with   *)
(* arrows, which say where a command goes and what it carries, buttons for *)
(* the three kinds of commands, and a list of which every choice is to     *)
(* make a command, or a blast of them, and send it.  SendMsg copies them   *)
(* and SendMsgToPAP hands the copies to the connection of their PAP, which *)
(* is taken to be there (PapMap has how it is found).                      *)
(*                                                                         *)
(* The number an edit box shows, the position its arrows are at and the    *)
(* member the commands are made from are three things.  A number outside   *)
(* the range of the arrows stands for all texts that are not in it.        *)
(* The ch and gate of a large command have no meaning.                     *)
(***************************************************************************)
EXTENDS CommandIds, Sequences

CONSTANTS
  Highest,     \* of each field, the last value of its arrows
  Typed,       \* of each field, the numbers people type
  Blasts,      \* turns of the loops of Blast: [pulser, adc, large, last]
  MaxChanges   \* bound: changes of the fields

Fields == {"pap", "board", "seq", "ch", "gate", "param"}

Parameters ==
  /\ Highest \in [Fields -> Nat] /\ Typed \in [Fields -> SUBSET Nat]
  /\ Blasts \in [{"pulser", "adc", "large", "last"} -> Nat]
  /\ Highest["seq"] <= 31  \* gMaxSeqCount - 1
  /\ MaxChanges \in Nat

\* Blast, GateBlast, Cmd204hBlast, Cmd205hBlast.
BlastEntries == {12, 33, 34, 35}

VARIABLES
  text,             \* of each field, the number shown
  position,         \* that of its arrows
  kept,             \* m_nPAP, m_nBoard, m_nSeq, m_nCh, m_nGate, m_nParam
  kind,             \* m_nWhichTypeCmd: "small", "large" or "pulser"
  m_nReadBackWhat,
  chosen,           \* the last choice, or none
  onList,           \* the copies it put on the list of their PAP, by their places in the choice
  deleted,          \* SendMsg has deleted what was not made by new
  changes,
  \* history
  clicked,          \* of each field, what the last click on its arrows set
  unsure            \* fields of which something else was done since then

fields == <<text, position, kept, changes, clicked, unsure>>
vars == <<fields, kind, m_nReadBackWhat, chosen, onList, deleted>>

NoChoice == {}
Zero == [f \in Fields |-> 0]

Init ==
  /\ text = Zero /\ position = Zero /\ kept = Zero
  /\ kind = "small" /\ m_nReadBackWhat = 1
  /\ chosen = NoChoice /\ onList = << >> /\ deleted = FALSE
  /\ changes = 0 /\ clicked = Zero /\ unsure = {}

-----------------------------------------------------------------------------
\* The edit boxes and their arrows.

InRange(f, v) == v <= Highest[f]

\* What the arrows take from the edit box.
Taken(f) == IF InRange(f, text[f]) THEN text[f] ELSE position[f]

\* The new position, checked against the range.
GetSpinValue(f, delta) ==
  LET v == Taken(f) + delta
  IN  IF v < 0 THEN 0 ELSE IF v > Highest[f] THEN Highest[f] ELSE v

Change ==
  /\ changes < MaxChanges /\ changes' = changes + 1
  /\ chosen' = NoChoice /\ onList' = << >>
  /\ UNCHANGED <<kind, m_nReadBackWhat, deleted>>

OnDeltapos(f) ==
  /\ Change
  /\ \E delta \in {-1, 1} :
       LET v == GetSpinValue(f, delta) IN
         /\ kept' = [kept EXCEPT ![f] = v]
         /\ text' = [text EXCEPT ![f] = v]
         /\ position' = [position EXCEPT ![f] = v]
         /\ clicked' = [clicked EXCEPT ![f] = v]
  /\ unsure' = unsure \ {f}

\* The edit boxes of PAP and board have no handler.
Handled(f) == f \notin {"pap", "board"}

OnEnChange(f) ==
  /\ Change
  /\ \E v \in Typed[f] \ {text[f]} :
       /\ text' = [text EXCEPT ![f] = v]
       /\ unsure' = IF Handled(f) /\ InRange(f, v) THEN unsure \ {f} ELSE unsure \cup {f}
       /\ IF Handled(f)
          THEN LET p == IF InRange(f, v) THEN v ELSE position[f] IN
                 position' = [position EXCEPT ![f] = p] /\ kept' = [kept EXCEPT ![f] = p]
          ELSE UNCHANGED <<position, kept>>
  /\ UNCHANGED clicked

\* The list of commands is filled anew for each kind.
Entries == [large |-> 0 .. 1, small |-> 0 .. 36, pulser |-> 0 .. LastPulser]

\* The buttons for the kinds, and the list of what can be read back.
PopulateCmdComboBox ==
  /\ kind' \in DOMAIN Entries \ {kind}
  /\ chosen' = NoChoice /\ onList' = << >>
  /\ UNCHANGED <<fields, m_nReadBackWhat, deleted>>

OnCbnSelchangeCbRdwhat ==
  /\ m_nReadBackWhat' \in 1 .. 3 \ {m_nReadBackWhat}
  /\ chosen' = NoChoice /\ onList' = << >>
  /\ UNCHANGED <<fields, kind, deleted>>

-----------------------------------------------------------------------------
\* Making commands.

Plain(id, value) ==
  [id |-> id, pap |-> kept["pap"], board |-> kept["board"], seq |-> 0, ch |-> 0, gate |-> 0,
   value |-> value, size |-> SmallSize]

\* Variant: sequence and channel swapped.
ForSwapped(id, seq, ch, gate, value) ==
  [Plain(id, value) EXCEPT !.seq = ch, !.ch = seq, !.gate = gate]

For(id, seq, ch, gate, value) ==
  [Plain(id, value) EXCEPT !.seq = seq, !.ch = ch, !.gate = gate]

Large(id, seq, value, size) == [Plain(id, value) EXCEPT !.seq = seq, !.size = size]

Seq5 == kept["seq"] % 32
TcgGain == FirstLarge + 4
SeqTcgGain == FirstLarge + 5

GateCmd(id, value) == For(id, kept["seq"], kept["ch"], kept["gate"], value)
TcgCmd(id) == GateCmd(id, kept["param"])
FakeData ==
  For(1, Seq5, kept["ch"], kept["gate"], IF kept["param"] > 32 THEN 32 ELSE kept["param"])
PulserCmd(i) == For(FirstPulser + i, Seq5, kept["ch"], kept["gate"], kept["param"])
LargeCmd(i) == Large(TcgGain + i, Seq5, kept["param"], LargestSize)
ProcNull == Plain(0, 0)
ReadBackCmd == For(30, kept["seq"], 0, 0, m_nReadBackWhat)

\* The sequence, channel and gate that GenericSmall gets are not used.
GenericSmall(id) == Plain(id, kept["param"])
DebugPrint(id, value) == Plain(id, value)
X_LocScale(id) == Plain(id, kept["param"])

\* Nx is 1, 2 or 3; the limits go with it.
MakeWallNxCmd(nx) == Plain(SetWallNx, nx)
NxTestCases ==
  LET nSelect == kept["param"] % 4 IN MakeWallNxCmd(IF nSelect = 0 THEN 1 ELSE nSelect)

\* The pulser is told to clear its counters, then gets its shapes; the buffer is
\* filled with its indices before.
PulserBlast ==
  <<DebugPrint(FirstPulser + 8, 6)>>
    \o [n \in 1 .. 4 * Blasts.pulser |-> For(FirstPulser + 3, (n - 1) % 10, 13, 14, 255)]

\* rand() & 1 chooses between the large commands.
AdcBlast(rand) ==
  [n \in 1 .. Blasts.adc |->
    LET i == n - 1 IN
      IF i % 10 = 0 THEN Large(TcgGain + rand[n], 6, i, LargestSize)
      ELSE For(2 + (i % 6), i % 3, i % 8, i % 4, i)]

LargeBlast(rand) ==
  [n \in 1 .. Blasts.large |-> Large(TcgGain + rand[n], 6, n - 1, LargestSize)]
    \o [n \in 1 .. Blasts.last |-> Large(TcgGain, 6, n - 1, LargestSize)]

\* For every gate command, channel and gate, with the numbers 1 to 32 to be read back.
GateBlast ==
  LET is == IF kept["seq"] % 4 = 3 THEN 2 ELSE kept["seq"] % 4
  IN  [n \in 1 .. 7 * 32 |->
        For(2 + ((n - 1) \div 32), is, ((n - 1) \div 4) % 8, (n - 1) % 4, 1 + ((n - 1) % 32))]

Cmd204hBlast == [n \in 1 .. 3 * 8 |-> Large(TcgGain, (n - 1) \div 8, 0, 288)]
Cmd205hBlast == [n \in 1 .. 3 |-> Large(SeqTcgGain, n - 1, 0, 288)]

-----------------------------------------------------------------------------
\* SendMsg, SendMsgToPAP.

LargeId(k) == k.id \in FirstLarge .. FirstPulser - 1

\* SendMsg deletes the buffer it is called with.
Deletes(k) == k.id > FirstPulser + LastPulser \/ (LargeId(k) /\ k.id >= FirstLarge + LastLarge)

\* The copy that it makes.
Limit(k) == IF LargeId(k) THEN LargestSize ELSE SmallSize
Copied(k) ==
  LET c == IF k.id >= FirstLarge /\ k.size > Limit(k) THEN [k EXCEPT !.size = Limit(k)] ELSE k
  IN  IF k.id = SeqTcgGain THEN [c EXCEPT !.value = 0]  \* wCmd[i] = i
      ELSE c

\* Variant: the commands that were once made for a test are known, these not.
KnownOld(k) == LargeId(k) => k.id = NcNx

Known(k) == LargeId(k) => k.id \in LargeSent

\* SendMsgToPAP refuses the null command.
SendMsg(k) == ~Deletes(k) /\ Known(k) /\ k.id > 0

Sends(entry, commands) ==
  /\ chosen' = {<<kind, entry>>}
  /\ onList' = [n \in {m \in DOMAIN commands : SendMsg(commands[m])} |-> Copied(commands[n])]
  /\ deleted' = (deleted \/ \E n \in DOMAIN commands : Deletes(commands[n]))
  /\ UNCHANGED <<kind, m_nReadBackWhat>>

-----------------------------------------------------------------------------
\* OnCbnSelchangeCbCmds: the entry that is chosen in the list.

ChooseLarge ==
  /\ kind = "large"
  /\ \E i \in Entries.large : Sends(i, <<LargeCmd(i)>>)
  /\ UNCHANGED fields

ChoosePulser ==
  /\ kind = "pulser"
  /\ \E i \in Entries.pulser : Sends(i, <<PulserCmd(i)>>)
  /\ UNCHANGED fields

ChooseProcNull == \E i \in {0, 13} : Sends(i, <<ProcNull>>)
ChooseFakeData == Sends(1, <<FakeData>>)
ChooseGate == \E i \in 2 .. 8 : Sends(i, <<GateCmd(i, kept["param"])>>)
ChooseTcg == \E i \in {10, 11} : Sends(i, <<TcgCmd(i)>>)
ChooseValue ==
  \/ Sends(27, <<GenericSmall(27)>>)
  \/ Sends(29, <<DebugPrint(29, kept["param"])>>)
  \/ Sends(36, <<X_LocScale(36)>>)
ChooseNx == Sends(28, <<NxTestCases>>)
ChooseReadBack == Sends(30, <<ReadBackCmd>>)
ChooseGateBlast == Sends(33, GateBlast)
Choose204 == Sends(34, Cmd204hBlast)
Choose205 == Sends(35, Cmd205hBlast)

Blast ==
  \E a \in [{n \in 1 .. Blasts.adc : n % 10 = 1} -> 0 .. 1], l \in [1 .. Blasts.large -> 0 .. 1] :
    Sends(12, PulserBlast \o AdcBlast(a) \o LargeBlast(l))

\* The trigger is 0 or 1, and so is m_nParam from then on.
ChooseTrigger ==
  /\ kind = "small"
  /\ Sends(9, <<GateCmd(9, kept["param"] % 2)>>)
  /\ kept' = [kept EXCEPT !["param"] = @ % 2]
  /\ unsure' = IF kept["param"] > 1 THEN unsure \cup {"param"} ELSE unsure
  /\ UNCHANGED <<text, position, changes, clicked>>

\* Entries that nothing is done for, SamInitAdc with its body compiled out.
ChooseNothing ==
  \E i \in Entries.small \ (0 .. 13 \cup 27 .. 30 \cup 33 .. 36) : Sends(i, << >>)

ChooseSmall ==
  /\ kind = "small"
  /\ \/ ChooseProcNull \/ ChooseFakeData \/ ChooseGate \/ ChooseTcg \/ Blast \/ ChooseValue
     \/ ChooseNx \/ ChooseReadBack \/ ChooseGateBlast \/ Choose204 \/ Choose205 \/ ChooseNothing
  /\ UNCHANGED fields

Next ==
  \/ \E f \in Fields : OnDeltapos(f) \/ OnEnChange(f)
  \/ PopulateCmdComboBox \/ OnCbnSelchangeCbRdwhat
  \/ ChooseSmall \/ ChooseTrigger \/ ChooseLarge \/ ChoosePulser

Spec == Init /\ [][Next]_vars

-----------------------------------------------------------------------------
TypeOK ==
  /\ \A f \in Fields : position[f] \in 0 .. Highest[f] /\ kept[f] \in 0 .. Highest[f]
  /\ text \in [Fields -> Nat] /\ clicked \in [Fields -> Nat] /\ unsure \subseteq Fields
  /\ kind \in DOMAIN Entries /\ m_nReadBackWhat \in 1 .. 3
  /\ chosen = NoChoice => onList = << >>
  /\ \A n \in DOMAIN onList : onList[n].id \in 1 .. FirstPulser + LastPulser
  /\ deleted \in BOOLEAN /\ changes \in 0 .. MaxChanges

\* Entries of which nothing reaches a board, although "Selecting a command from this combo
\* box creates the command and sends it" (NcNx.cpp:448): null commands, those that make no
\* command, and the reset of the pulser, which the PAP refuses.
Silent ==
  {<<"small", i>> : i \in {0, 13} \cup 14 .. 26 \cup {31, 32}} \cup {<<"pulser", LastPulser>>}

Arrives(k) == k.id = SetWallNx \/ (Forwarded(k) /\ Sendable(k))

\* The dialog and the PAP agree on the commands: whatever is chosen, except for the silent
\* entries, every command that is made passes SendMsg of the PAG, the router of the PAP and
\* the sender of the board it is for, whatever was clicked or typed before; and
\* SendMsg never deletes the buffers of its callers, which are members of the dialog and
\* static ones.
OffersArrive ==
  /\ ~deleted
  /\ \A c \in chosen :
       /\ c \notin Silent => onList # << >> /\ \A n \in DOMAIN onList : Arrives(onList[n])
       /\ c \in Silent => \A n \in DOMAIN onList : ~Arrives(onList[n])
       /\ c = <<"small", 12>> =>
            DOMAIN onList = 1 .. 1 + 4 * Blasts.pulser + Blasts.adc + Blasts.large + Blasts.last

\* The fields that a single command carries.
Carried(k) ==
  {"pap", "board"}
    \cup (IF k.id \in 1 .. 11 \cup {30} \/ k.id >= FirstLarge THEN {"seq"} ELSE {})
    \cup (IF k.id \in 1 .. 11 \/ k.id >= FirstPulser THEN {"ch", "gate"} ELSE {})
    \cup (IF k.id \in 2 .. 8 \cup {10, 11, 27, 29, 36, TcgGain} \/ k.id >= FirstPulser
          THEN {"param"} ELSE {})

Value(k, f) == IF f = "param" THEN k.value ELSE k[f]

\* A command goes to the PAP and the board that the arrows were last clicked to, whatever
\* has been typed since then, and carries what the dialog shows, except in fields in
\* which a text was typed that is not taken over (PAP, board, numbers out of range), and
\* after a choice of SetChnlTrigger, which leaves only one bit of the parameter.
ShownIsSent ==
  \A c \in chosen : \A n \in DOMAIN onList :
    LET k == onList[n] IN
      /\ k.pap = clicked["pap"] /\ k.board = clicked["board"]
      /\ c \notin {<<"small", i>> : i \in BlastEntries} =>
           \A f \in Carried(k) \ unsure : Value(k, f) = text[f]
=============================================================================
