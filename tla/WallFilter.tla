----------------------------- MODULE WallFilter -----------------------------
(***************************************************************************)
(* The wall half of CvChannel: the Nx FIFO that sums the last Nx wall      *)
(* readings of a channel, and the peak hold of its largest and smallest    *)
(* sum over ASCANS_TO_AVG readings.  The receive-list thread calls         *)
(* InputWFifo and AscanInputDone for every reading; the command thread     *)
(* calls WFifoInit when the PAG sends new parameters.  Neither takes a     *)
(* lock.  The steps of a call are those between which the other thread can *)
(* change something; a single memory access is indivisible.                *)
(***************************************************************************)
EXTENDS Integers, Sequences, FiniteSetsExt

CONSTANTS
  Depth,     \* cells of NxFifo.wCell
  MaxNx,     \* WFifoInit limits bNx to this
  WordMax,   \* the largest WORD
  Ascans,    \* ASCANS_TO_AVG
  Readings,  \* wall readings of the board
  Params     \* the parameters the PAG sends: [nx, max, min, drop]

Parameters ==
  /\ Depth \in Nat /\ MaxNx \in 1 .. Depth /\ WordMax \in Nat /\ Ascans \in Nat \ {0}
  /\ Readings \subseteq 0 .. WordMax
  /\ Params \subseteq [nx : 0 .. WordMax, max : 0 .. WordMax, min : 0 .. WordMax,
                       drop : 0 .. WordMax]

VARIABLES
  NxFifo,        \* cell, inPt, nx, sum, good, and the limits max, min, drop
  m_wTOFMaxSum, m_wTOFMinSum,
  m_bInputCnt,
  m_wBadInARow,
  dropOut,       \* the drop-out bit of m_wStatus
  pc, wWall, i, wOldWall,  \* the reading in work
  init,          \* the parameters WFifoInit is about to store, or None
  reported,      \* what was last put into the packet
  lastGood,      \* history: the good readings since WFifoInit
  sums,          \* history: the sums of this interval, those over Nx of its readings
  lastSums,      \* history: those of the interval before, None before the first
  undisturbed    \* history: no reading was in work during the last WFifoInit

peaks == <<m_wTOFMaxSum, m_wTOFMinSum, reported>>
call == <<wWall, i, wOldWall>>
bad == <<m_wBadInARow, dropOut>>
history == <<lastGood, sums, lastSums, undisturbed>>
vars == <<NxFifo, peaks, m_bInputCnt, bad, pc, call, init, history>>

\* A sum is a UINT, twice as wide as a WORD; what is held of it is a WORD.
Word(n) == n % (WordMax + 1)
Uint(n) == n % ((WordMax + 1) * (WordMax + 1))

None == [nx |-> -1]
NoSums == [all |-> {}, whole |-> {}]
NoReport == [max |-> 0, min |-> WordMax]

Cleared == [cell |-> [c \in 0 .. Depth - 1 |-> 0], inPt |-> 0, nx |-> 0, sum |-> 0,
            good |-> 0, max |-> 0, min |-> 0, drop |-> 0]

\* Variant: bNx is not limited.
WithParamsUnlimited(f, p) ==
  [f EXCEPT !.nx = p.nx, !.max = p.max, !.min = p.min, !.drop = p.drop]

WithParams(f, p) ==
  [f EXCEPT !.nx = IF p.nx > MaxNx THEN MaxNx ELSE p.nx,
            !.max = p.max, !.min = p.min, !.drop = p.drop]

Init ==
  /\ \E p \in Params : NxFifo = WithParams(Cleared, p)
  /\ m_wTOFMaxSum = 0 /\ m_wTOFMinSum = WordMax /\ reported = NoReport
  /\ m_bInputCnt = 0 /\ m_wBadInARow = 0
  /\ dropOut \in BOOLEAN  \* the constructor leaves m_wStatus alone
  /\ pc = "idle" /\ wWall = 0 /\ i = 0 /\ wOldWall = 0
  /\ init = None
  /\ lastGood = << >> /\ sums = NoSums /\ lastSums = None /\ undisturbed = TRUE

-----------------------------------------------------------------------------
\* InputWFifo.

StartReading == pc = "idle" /\ undisturbed' = (undisturbed /\ init = None)

\* A channel without Nx ignores the reading.
NotAWall ==
  /\ StartReading /\ NxFifo.nx = 0
  /\ pc' = "count"
  /\ UNCHANGED <<NxFifo, peaks, m_bInputCnt, bad, call, init, lastGood, sums, lastSums>>

BadReading ==
  /\ StartReading /\ NxFifo.nx # 0
  /\ \E w \in Readings : w < NxFifo.min \/ w > NxFifo.max
  /\ m_wBadInARow' = Word(m_wBadInARow + 1)
  /\ dropOut' = (dropOut \/ m_wBadInARow' >= NxFifo.drop)
  /\ pc' = "count"
  /\ UNCHANGED <<NxFifo, peaks, m_bInputCnt, call, init, lastGood, sums, lastSums>>

GoodReading ==
  /\ StartReading /\ NxFifo.nx # 0
  /\ \E w \in Readings : w >= NxFifo.min /\ w <= NxFifo.max /\ wWall' = w
  /\ NxFifo' = [NxFifo EXCEPT !.good = @ + 1]
  /\ m_wBadInARow' = 0
  /\ pc' = "index"
  /\ UNCHANGED <<peaks, m_bInputCnt, dropOut, i, wOldWall, init, lastGood, sums, lastSums>>

\* Variant: one cell too many is used.
TakeIndexLate ==
  /\ pc = "index"
  /\ i' = NxFifo.inPt
  /\ NxFifo' = [NxFifo EXCEPT !.inPt = IF @ + 1 > NxFifo.nx THEN 0 ELSE @ + 1]
  /\ pc' = "store"
  /\ UNCHANGED <<peaks, m_bInputCnt, bad, wWall, wOldWall, init, history>>

TakeIndex ==
  /\ pc = "index"
  /\ i' = IF NxFifo.inPt >= NxFifo.nx THEN 0 ELSE NxFifo.inPt
  /\ NxFifo' = [NxFifo EXCEPT !.inPt = IF @ + 1 >= NxFifo.nx THEN 0 ELSE @ + 1]
  /\ pc' = "store"
  /\ UNCHANGED <<peaks, m_bInputCnt, bad, wWall, wOldWall, init, history>>

\* Variant: the oldest reading is taken after it has been replaced.
StoreFirst ==
  /\ pc = "store"
  /\ wOldWall' = wWall
  /\ NxFifo' = [NxFifo EXCEPT !.cell[i] = wWall]
  /\ lastGood' = IF Len(lastGood) < MaxNx THEN Append(lastGood, wWall)
                 ELSE Append(Tail(lastGood), wWall)
  /\ pc' = "sum"
  /\ UNCHANGED <<peaks, m_bInputCnt, bad, wWall, i, init, sums, lastSums, undisturbed>>

Store ==
  /\ pc = "store"
  /\ wOldWall' = NxFifo.cell[i]
  /\ NxFifo' = [NxFifo EXCEPT !.cell[i] = wWall]
  /\ lastGood' = IF Len(lastGood) < MaxNx THEN Append(lastGood, wWall)
                 ELSE Append(Tail(lastGood), wWall)
  /\ pc' = "sum"
  /\ UNCHANGED <<peaks, m_bInputCnt, bad, wWall, i, init, sums, lastSums, undisturbed>>

\* The sum changes by the difference.
AddToSum ==
  /\ pc = "sum"
  /\ NxFifo' = [NxFifo EXCEPT !.sum = Uint(@ + wWall - wOldWall)]
  /\ pc' = "peak"
  /\ UNCHANGED <<peaks, m_bInputCnt, bad, call, init, history>>

\* Variant: the smallest sum may be one over fewer than Nx readings.
HoldPeaksAtOnce ==
  /\ pc = "peak"
  /\ m_wTOFMaxSum' = IF m_wTOFMaxSum < NxFifo.sum THEN Word(NxFifo.sum) ELSE m_wTOFMaxSum
  /\ m_wTOFMinSum' = IF m_wTOFMinSum > NxFifo.sum THEN Word(NxFifo.sum) ELSE m_wTOFMinSum
  /\ sums' = [all |-> sums.all \cup {NxFifo.sum},
              whole |-> sums.whole \cup (IF NxFifo.good >= NxFifo.nx THEN {NxFifo.sum} ELSE {})]
  /\ pc' = "count"
  /\ UNCHANGED <<NxFifo, reported, m_bInputCnt, bad, call, init, lastGood, lastSums, undisturbed>>

HoldPeaks ==
  /\ pc = "peak"
  /\ m_wTOFMaxSum' = IF m_wTOFMaxSum < NxFifo.sum THEN Word(NxFifo.sum) ELSE m_wTOFMaxSum
  /\ m_wTOFMinSum' =
       IF m_wTOFMinSum > NxFifo.sum /\ NxFifo.good >= NxFifo.nx THEN Word(NxFifo.sum)
       ELSE m_wTOFMinSum
  /\ sums' = [all |-> sums.all \cup {NxFifo.sum},
              whole |-> sums.whole \cup (IF NxFifo.good >= NxFifo.nx THEN {NxFifo.sum} ELSE {})]
  /\ pc' = "count"
  /\ UNCHANGED <<NxFifo, reported, m_bInputCnt, bad, call, init, lastGood, lastSums, undisturbed>>

-----------------------------------------------------------------------------
\* AscanInputDone; at the end of an interval the receive-list thread copies the
\* peaks into the packet and calls ResetGatesAndWalls.

Count ==
  /\ pc = "count" /\ m_bInputCnt + 1 < Ascans
  /\ m_bInputCnt' = m_bInputCnt + 1
  /\ pc' = "idle"
  /\ UNCHANGED <<NxFifo, peaks, bad, call, init, history>>

Report ==
  /\ pc = "count" /\ m_bInputCnt + 1 >= Ascans
  /\ m_bInputCnt' = 0
  /\ reported' = [max |-> m_wTOFMaxSum, min |-> m_wTOFMinSum]
  /\ dropOut' = FALSE
  /\ m_wTOFMaxSum' = 0 /\ m_wTOFMinSum' = WordMax
  /\ NxFifo' = [NxFifo EXCEPT !.good = 0]
  /\ pc' = "idle"
  /\ lastSums' = sums /\ sums' = NoSums
  /\ UNCHANGED <<m_wBadInARow, call, init, lastGood, undisturbed>>

-----------------------------------------------------------------------------
\* WFifoInit on the command thread: memset, then the parameters.

InitClear ==
  /\ init = None /\ init' \in Params
  /\ NxFifo' = Cleared
  /\ undisturbed' = (pc = "idle")
  /\ UNCHANGED <<peaks, m_bInputCnt, bad, pc, call, lastGood, sums, lastSums>>

InitStore ==
  /\ init # None
  /\ NxFifo' = WithParams(NxFifo, init)
  /\ m_wTOFMaxSum' = 0 /\ m_wTOFMinSum' = WordMax
  /\ m_bInputCnt' = 0 /\ m_wBadInARow' = 0
  /\ init' = None
  /\ lastGood' = << >> /\ sums' = NoSums /\ lastSums' = None
  /\ UNCHANGED <<dropOut, reported, pc, call, undisturbed>>

InputWFifo ==
  \/ NotAWall \/ BadReading \/ GoodReading
  \/ TakeIndex \/ Store \/ AddToSum \/ HoldPeaks

AscanInputDone == Count \/ Report

WFifoInit == InitClear \/ InitStore

Next == InputWFifo \/ AscanInputDone \/ WFifoInit

Spec == Init /\ [][Next]_vars

-----------------------------------------------------------------------------
TypeOK ==
  /\ NxFifo.cell \in [0 .. Depth - 1 -> 0 .. WordMax]
  /\ NxFifo.inPt \in 0 .. MaxNx - 1 /\ NxFifo.nx \in 0 .. MaxNx
  /\ NxFifo.sum = Uint(NxFifo.sum) /\ NxFifo.good \in 0 .. Ascans
  /\ m_wTOFMaxSum \in 0 .. WordMax /\ m_wTOFMinSum \in 0 .. WordMax
  /\ m_bInputCnt \in 0 .. Ascans - 1 /\ m_wBadInARow \in 0 .. WordMax
  /\ pc \in {"idle", "index", "store", "sum", "peak", "count"}
  /\ wWall \in Readings \cup {0} /\ i \in 0 .. MaxNx - 1 /\ init \in Params \cup {None}

Idle == pc = "idle" /\ init = None

\* f[1] + ... + f[n].
Total(f, n) ==
  LET total[k \in 0 .. n] == IF k = 0 THEN 0 ELSE total[k - 1] + f[k]
  IN  total[n]

\* PA2Struct.h:805, "The FIFO output is actually the sum of the values in the
\* FIFO": though it is only ever changed by differences, this is so whenever the
\* last WFifoInit fell between two readings.
SumOfCells ==
  Idle /\ undisturbed => NxFifo.sum = Total([c \in 1 .. Depth |-> NxFifo.cell[c - 1]], Depth)

\* What is then summed is the last Nx good readings, fewer while the FIFO fills
\* up, whatever bad ones came between.
SumOfLastNx ==
  Idle /\ undisturbed =>
    LET n == IF Len(lastGood) < NxFifo.nx THEN Len(lastGood) ELSE NxFifo.nx
    IN  NxFifo.sum = Total([k \in 1 .. n |-> lastGood[Len(lastGood) - k + 1]], n)

\* The sum is right, whatever readings and parameters came before.
SumIsRight == SumOfCells /\ SumOfLastNx

\* vChannel.h:85-86, what is reported is the largest sum seen over 16 Ascans,
\* and the smallest of those taken when Nx of the 16 readings had been good, as
\* long as the sums fit in the WORDs they are held in.
ReportsPeaks ==
  /\ init = None /\ undisturbed
  /\ lastSums # None /\ lastSums.all \subseteq 0 .. WordMax
  =>
    /\ reported.max = IF lastSums.all = {} THEN 0 ELSE Max(lastSums.all)
    /\ reported.min = IF lastSums.whole = {} THEN WordMax ELSE Min(lastSums.whole)
=============================================================================
