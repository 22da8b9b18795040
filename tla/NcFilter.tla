------------------------------ MODULE NcFilter ------------------------------
(***************************************************************************)
(* The flaw half of CvChannel: the Nc FIFO of one gate.  A reading counts  *)
(* as a flaw when at least Nc of the last bMod readings are at or above    *)
(* the threshold.  The receive-list thread calls InputFifo for every       *)
(* reading and ResetGatesAndWalls at the end of an interval.  FifoInit is  *)
(* called by the constructor and, between readings, by the tests of the    *)
(* class; SetChannelInfo would call it too, but its only call is compiled  *)
(* out.  All of it runs on one thread, so each call is one step.           *)
(***************************************************************************)
EXTENDS Integers, Sequences, FiniteSets, FiniteSetsExt

CONSTANTS
  Depth,   \* cells of bCell, and the limit of bNc and bMod
  Amps,    \* amplitudes
  Default, \* what the constructor passes to FifoInit: [nc, thld, mod]
  Params   \* what later calls pass

Parameters ==
  /\ Depth \in Nat \ {0} /\ Amps \subseteq 0 .. 255
  /\ Params \cup {Default} \subseteq [nc : 0 .. 255, thld : 0 .. 255, mod : 0 .. 255]

VARIABLES
  NcFifo, \* cell, inPt, nc, thold, mod, max, final (bMax and bMaxFinal)
  last,   \* history: the readings since FifoInit, the last Depth of them
  called  \* history: a flaw was called in this interval

vars == <<NcFifo, last, called>>

Cleared == [cell |-> [c \in 0 .. Depth - 1 |-> 0], inPt |-> 0, nc |-> 0, thold |-> 0,
            mod |-> 0, max |-> 0, final |-> 0]

AtMostDepth(n) == IF n > Depth THEN Depth ELSE n

\* Variant: bMod may be less than bNc.
WithParamsShort(f, p) ==
  [f EXCEPT !.nc = AtMostDepth(p.nc), !.mod = AtMostDepth(p.mod),
            !.thold = IF p.thld < 3 THEN 2 ELSE p.thld]

WithParams(f, p) ==
  [f EXCEPT !.nc = AtMostDepth(p.nc),
            !.mod = AtMostDepth(IF p.mod < p.nc THEN p.nc ELSE p.mod),
            !.thold = IF p.thld < 3 THEN 2 ELSE p.thld]

Init ==
  /\ NcFifo = WithParams(Cleared, Default)
  /\ last = << >> /\ called = FALSE

FifoInit ==
  /\ \E p \in Params : NcFifo' = WithParams(Cleared, p)
  /\ last' = << >> /\ called' = FALSE

-----------------------------------------------------------------------------
\* Variant: the FIFO is one cell deeper than bMod.
StoredDeeper(f, amp) ==
  [f EXCEPT !.cell[f.inPt] = amp, !.inPt = IF @ + 1 > f.mod THEN 0 ELSE @ + 1]

\* The oldest cell is replaced.
Stored(f, amp) ==
  [f EXCEPT !.cell[f.inPt] = amp, !.inPt = IF @ + 1 >= f.mod THEN 0 ELSE @ + 1]

\* bMax for the cells in use.
Judged(f) ==
  LET cells == {c \in 0 .. Depth - 1 : c < f.mod}
      above == Cardinality({c \in cells : f.cell[c] >= f.thold})
      top   == Max({0} \cup {f.cell[c] : c \in cells})
  IN  IF above >= f.nc THEN top
      ELSE IF top >= f.thold \/ f.thold - top < 3 THEN (f.thold * 4) \div 5
      ELSE top

\* Variant: a peak of the interval is overwritten by a later reading.
PeakHeldLast(f) == [f EXCEPT !.max = Judged(f), !.final = Judged(f)]

PeakHeld(f) ==
  [f EXCEPT !.max = Judged(f), !.final = IF @ < Judged(f) THEN Judged(f) ELSE @]

\* History: Nc of the last bMod readings are at or above the threshold.
Qualified(readings) ==
  Cardinality({k \in DOMAIN readings : /\ k > Len(readings) - NcFifo.mod
                                       /\ readings[k] >= NcFifo.thold}) >= NcFifo.nc

\* With no Nc the reading is ignored.
InputFifo ==
  /\ NcFifo.nc # 0
  /\ \E amp \in Amps :
       /\ NcFifo' = PeakHeld(Stored(NcFifo, amp))
       /\ last' = IF Len(last) < Depth THEN Append(last, amp) ELSE Append(Tail(last), amp)
  /\ called' = (called \/ Qualified(last'))

\* The interval is over and the channel's peaks are in the packet; the FIFO
\* goes on into the next interval.
ResetGatesAndWalls ==
  /\ NcFifo' = [NcFifo EXCEPT !.final = 0]
  /\ called' = FALSE
  /\ UNCHANGED last

Next == InputFifo \/ ResetGatesAndWalls \/ FifoInit

Spec == Init /\ [][Next]_vars

-----------------------------------------------------------------------------
\* The index stays in the cells in use, and as many cells as Nc are in use,
\* whatever parameters FifoInit is given (vChannel.cpp:92-94).
TypeOK ==
  /\ NcFifo.cell \in [0 .. Depth - 1 -> Amps \cup {0}]
  /\ NcFifo.inPt \in 0 .. Depth - 1 /\ (NcFifo.mod > 0 => NcFifo.inPt < NcFifo.mod)
  /\ NcFifo.nc <= NcFifo.mod /\ NcFifo.mod \in 0 .. Depth
  /\ NcFifo.max \in 0 .. 255 /\ NcFifo.final \in 0 .. 255
  /\ last \in Seq(Amps) /\ called \in BOOLEAN

\* PA2Struct.h:780-787: a flaw is called by the reading after which Nc of the
\* last bMod are at or above the threshold, and by no other; its value is the
\* largest of them.
CallsFlaws ==
  last # << >> =>
    /\ NcFifo.max >= NcFifo.thold <=> Qualified(last)
    /\ Qualified(last) => \E k \in DOMAIN last :
                            k > Len(last) - NcFifo.mod /\ last[k] = NcFifo.max

\* vChannel.cpp:104, "an Nc qualified reading is returned": the peak of an
\* interval reaches the threshold if a flaw was called in it, and only then.
PeakIsOfFlaw == NcFifo.final >= NcFifo.thold <=> called

\* Flaws are called when they should be, and no interval loses one.
FlawsAreRight == CallsFlaws /\ PeakIsOfFlaw
=============================================================================
