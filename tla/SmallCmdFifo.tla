---------------------------- MODULE SmallCmdFifo ----------------------------
(***************************************************************************)
(* The ring of small commands of TestThread.cpp, the copy of the ADC       *)
(* board's command queue that CTestThread::TestAdcFifo exercises.          *)
(*                                                                         *)
(* GetSmallCmdFifoInputPtr and GetSmallCmdFifoOutputPtr return a slot; the *)
(* caller fills it, or reads it, at once.  Both are called by one thread,  *)
(* so a call and the copy that follows it are one step.  A command is      *)
(* represented by the position at which it was put: 1 for the first.       *)
(***************************************************************************)
EXTENDS Integers, Sequences

CONSTANTS
  Modulo,     \* SMALL_CMD_BUF_MODULO, the number of slots
  MaxPuts     \* bound: commands put in one run, far below the WORD wLost

ASSUME ModuloAssumption == Modulo \in Nat \ {0}
ASSUME MaxPutsAssumption == MaxPuts \in Nat

VARIABLES
  bIn, bOut, bCnt,  \* the indices and the count of the ring
  wLost,            \* overwritten commands
  buf,              \* BUF: the command each slot holds, 0 when cleared
  puts,             \* how many commands were put
  got               \* the commands taken out, in order

ring == <<bIn, bOut, bCnt, wLost, buf, puts, got>>

Slots == 0 .. Modulo - 1

InitRing ==
  /\ bIn = 0 /\ bOut = 0 /\ bCnt = 0 /\ wLost = 0
  /\ buf = [s \in Slots |-> 0]
  /\ puts = 0
  /\ got = << >>

\* Variant: bIn stops at the last slot.
InputWithRoomNoWrap ==
  /\ bCnt < Modulo
  /\ bIn' = IF bIn = Modulo - 1 THEN bIn ELSE bIn + 1
  /\ bCnt' = bCnt + 1
  /\ UNCHANGED <<bOut, wLost>>

\* A slot is free: the input index moves on and the count grows.
InputWithRoom ==
  /\ bCnt < Modulo
  /\ bIn' = (bIn + 1) % Modulo
  /\ bCnt' = bCnt + 1
  /\ UNCHANGED <<bOut, wLost>>

\* Variant: the overwritten command is not counted.
InputOverflowUncounted ==
  /\ bCnt = Modulo
  /\ bIn' = bOut
  /\ bOut' = (bOut + 1) % Modulo
  /\ UNCHANGED <<bCnt, wLost>>

\* The count passes Modulo: both indices are derived from bOut.
InputOverflow ==
  /\ bCnt = Modulo
  /\ bIn' = bOut
  /\ bOut' = (bOut + 1) % Modulo
  /\ wLost' = wLost + 1
  /\ UNCHANGED bCnt

Input ==
  /\ puts < MaxPuts
  /\ puts' = puts + 1
  /\ buf' = [buf EXCEPT ![bIn] = puts + 1]
  /\ InputWithRoom \/ InputOverflow
  /\ UNCHANGED got

\* Variant: bOut runs off the end of the ring.
OutputNoWrap ==
  /\ bCnt > 0
  /\ got' = Append(got, buf[bOut])
  /\ bCnt' = bCnt - 1
  /\ bOut' = bOut + 1
  /\ UNCHANGED <<bIn, wLost, buf, puts>>

Output ==
  /\ bCnt > 0
  /\ got' = Append(got, buf[bOut])
  /\ bCnt' = bCnt - 1
  /\ bOut' = (bOut + 1) % Modulo
  /\ UNCHANGED <<bIn, wLost, buf, puts>>

RingNext == Input \/ Output

RingSpec == InitRing /\ [][RingNext]_ring

-----------------------------------------------------------------------------
\* The commands the ring would hand out next, in order.
Waiting == [i \in 1 .. bCnt |-> buf[(bOut + i - 1) % Modulo]]

\* Everything handed out so far and everything that waits.
History == got \o Waiting

RingTypeOK ==
  /\ bIn \in Slots /\ bOut \in Slots
  /\ bCnt \in 0 .. Modulo
  /\ wLost \in 0 .. MaxPuts /\ puts \in 0 .. MaxPuts
  /\ buf \in [Slots -> 0 .. MaxPuts]
  /\ got \in Seq(0 .. MaxPuts)

\* Every command put is handed out, waits, or is counted in wLost, however
\* puts, overflows and gets interleave (lines 336-358 against 302-313).
Accounted == puts = Len(got) + bCnt + wLost

\* Until the first overflow the ring is a queue: what it handed out, followed
\* by what waits, is every command put, in order, wherever the indices wrapped.
QueueUntilOverflow == wLost = 0 => History = [i \in 1 .. puts |-> i]
=============================================================================
