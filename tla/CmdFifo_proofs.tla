--------------------------- MODULE CmdFifo_proofs ---------------------------
(***************************************************************************)
(* Lemmas about CCmdFifo and the packets that OnReceive makes out of it,   *)
(* for every size of the buffer and of the packets.  They are stated of    *)
(* values, not of the variables of a module: the receive paths of a server *)
(* and of a client connection, which use the buffer differently, are both  *)
(* proved from them (Inspection_proofs, Pag_proofs).                       *)
(***************************************************************************)
EXTENDS CmdFifo, SequenceTheorems, TLAPS

USE FifoAssumption

-----------------------------------------------------------------------------
(* The buffer alone.                                                       *)

\* The buffer holds the bytes of the stream up to `last', in order.
Holds(f, last) ==
  /\ f \in Fifo
  /\ f.in = f.out + f.size
  /\ f.in <= MemSize
  /\ f.size <= last
  /\ \A j \in 1 .. f.size : f.mem[f.out + j - 1] = last - f.size + j

\* Moving the unread bytes to the front keeps them.
LEMMA MovedHolds ==
  ASSUME NEW f, NEW last \in Nat, Holds(f, last)
  PROVE  Holds(Moved(f), last)
<1>1. f \in Fifo /\ f.in = f.out + f.size /\ f.in <= MemSize
  BY DEF Holds
<1>2. f.mem \in [Addresses -> Nat] /\ f.in \in Nat /\ f.out \in Nat /\ f.size \in Nat
  BY <1>1 DEF Fifo
<1> DEFINE m == [a \in Addresses |-> IF a < f.size THEN f.mem[f.out + a] ELSE f.mem[a]]
<1>3. m \in [Addresses -> Nat]
  <2>1. \A a \in Addresses : a < f.size => f.out + a \in Addresses
    BY <1>1, <1>2 DEF Addresses
  <2> QED
    BY <2>1, <1>2
<1>4. Moved(f) = [mem |-> m, in |-> f.size, out |-> 0, size |-> f.size]
  BY DEF Moved
<1>5. \A j \in 1 .. f.size : m[j - 1] = last - f.size + j
  <2> SUFFICES ASSUME NEW j \in 1 .. f.size PROVE m[j - 1] = last - f.size + j
    OBVIOUS
  <2>1. j - 1 \in Addresses /\ j - 1 < f.size
    BY <1>1, <1>2 DEF Addresses
  <2>2. m[j - 1] = f.mem[f.out + (j - 1)]
    BY <2>1
  <2>3. f.out + (j - 1) = f.out + j - 1
    BY <1>2
  <2> QED
    BY <2>2, <2>3 DEF Holds
<1> HIDE DEF m
<1>6. Moved(f) \in Fifo
  BY <1>2, <1>3, <1>4 DEF Fifo
<1> QED
  BY <1>1, <1>2, <1>4, <1>5, <1>6 DEF Holds

\* Shift keeps the unread bytes and leaves an empty buffer at the front.
LEMMA ShiftHolds ==
  ASSUME NEW f, NEW last \in Nat, Holds(f, last)
  PROVE  /\ Holds(Shift(f), last)
         /\ Shift(f).size = f.size
         /\ f.size = 0 => Shift(f).in = 0
<1>1. CASE f.size = 0
  <2>1. Shift(f) = [f EXCEPT !.in = 0, !.out = 0]
    BY <1>1 DEF Shift
  <2>2. f.mem \in [Addresses -> Nat] /\ f.size \in Nat
        /\ f = [mem |-> f.mem, in |-> f.in, out |-> f.out, size |-> f.size]
    BY DEF Holds, Fifo
  <2>3. Shift(f) = [mem |-> f.mem, in |-> 0, out |-> 0, size |-> f.size]
    BY <2>1, <2>2
  <2> QED
    BY <1>1, <2>2, <2>3 DEF Holds, Fifo
<1>2. CASE f.size # 0 /\ f.out > MemSize - ShiftMargin
  <2>1. Shift(f) = Moved(f)
    BY <1>2 DEF Shift
  <2> QED
    BY <1>2, <2>1, MovedHolds DEF Moved
<1>3. CASE f.size # 0 /\ ~(f.out > MemSize - ShiftMargin)
  BY <1>3 DEF Shift
<1> QED
  BY <1>1, <1>2, <1>3

\* After Shift, a buffer with less than a packet has room for a Receive.
LEMMA GetInLocHolds ==
  ASSUME NEW f, NEW last \in Nat, Holds(f, last),
         f.size = 0 => f.in = 0,  f.size <= MaxPacket
  PROVE  /\ Holds(GetInLoc(f), last)
         /\ GetInLoc(f).size = f.size
         /\ GetInLoc(f).in + Chunk <= MemSize
<1>1. f.in \in Nat /\ f.out \in Nat /\ f.size \in Nat /\ f.in = f.out + f.size
  BY DEF Holds, Fifo
<1>2. CASE f.in < MemSize - InMargin
  <2>1. GetInLoc(f) = f
    BY <1>2 DEF GetInLoc
  <2> QED
    BY <1>1, <1>2, <2>1
<1>3. CASE ~(f.in < MemSize - InMargin)
  <2>1. f.out < f.in
    BY <1>1, <1>3
  <2>2. GetInLoc(f) = Moved(f)
    BY <1>3, <2>1 DEF GetInLoc
  <2> QED
    BY <1>1, <2>2, MovedHolds DEF Moved
<1> QED
  BY <1>2, <1>3

\* Bytes stored where there is room for them become the latest of the buffer.
LEMMA AddBytesHolds ==
  ASSUME NEW f, NEW last \in Nat, Holds(f, last),
         NEW n \in Nat, f.in + n <= MemSize
  PROVE  /\ Holds(AddBytes(f, last + 1, n), last + n)
         /\ AddBytes(f, last + 1, n).size = f.size + n
<1>1. f.mem \in [Addresses -> Nat]
  BY DEF Holds, Fifo
<1>2. f.in \in Nat /\ f.out \in Nat /\ f.size \in Nat
      /\ f.in = f.out + f.size /\ f.size <= last
  BY DEF Holds, Fifo
<1> DEFINE m == [a \in Addresses |->
                  IF a \in f.in .. f.in + n - 1 THEN last + 1 + (a - f.in) ELSE f.mem[a]]
           g == AddBytes(f, last + 1, n)
<1>3. g = [mem |-> m, in |-> f.in + n, out |-> f.out, size |-> f.size + n]
  BY DEF AddBytes
<1>4. m \in [Addresses -> Nat]
  BY <1>1, <1>2
<1>5. ASSUME NEW j \in 1 .. f.size + n
      PROVE  m[f.out + j - 1] = last - f.size + j
  <2>1. j \in Nat /\ 1 <= j /\ j <= f.size + n
    BY <1>2
  <2> DEFINE a == f.out + j - 1
  <2>2. a \in Int /\ 0 <= a /\ a <= MemSize - 1
    BY <1>2, <2>1
  <2>3. a \in Addresses
    BY <2>2 DEF Addresses
  <2>4. CASE j <= f.size
    <3>1. ~(a \in f.in .. f.in + n - 1)
      BY <1>2, <2>1, <2>4
    <3>2. m[a] = f.mem[a]
      BY <2>3, <3>1
    <3>3. f.mem[a] = last - f.size + j
      BY <1>2, <2>1, <2>4 DEF Holds
    <3> QED
      BY <3>2, <3>3
  <2>5. CASE j > f.size
    <3>1. a \in f.in .. f.in + n - 1
      BY <1>2, <2>1, <2>5
    <3>2. m[a] = last + 1 + (a - f.in)
      BY <2>3, <3>1
    <3>3. last + 1 + (a - f.in) = last - f.size + j
      BY <1>2, <2>1
    <3> QED
      BY <3>2, <3>3
  <2> QED
    BY <1>2, <2>1, <2>4, <2>5
<1>6. \A j \in 1 .. f.size + n : m[f.out + j - 1] = (last + n) - (f.size + n) + j
  BY <1>2, <1>5
<1> HIDE DEF m, g
<1>7. g \in Fifo
  BY <1>2, <1>3, <1>4 DEF Fifo
<1>8. Holds(g, last + n) /\ g.size = f.size + n
  BY <1>2, <1>3, <1>6, <1>7 DEF Holds
<1> QED
  BY <1>8 DEF g

\* Taking a packet off leaves the bytes behind it.
LEMMA NextPacketHolds ==
  ASSUME NEW f, NEW last \in Nat, Holds(f, last),
         NEW n \in Nat, n <= f.size
  PROVE  /\ Holds(NextPacket(f, n), last)
         /\ NextPacket(f, n).size = f.size - n
<1>1. f.mem \in [Addresses -> Nat] /\ f.in \in Nat /\ f.out \in Nat /\ f.size \in Nat
      /\ f.in = f.out + f.size /\ f.size <= last
  BY DEF Holds, Fifo
<1> DEFINE g == NextPacket(f, n)
<1>2. g = [mem |-> f.mem, in |-> f.in, out |-> f.out + n, size |-> f.size - n]
  BY DEF NextPacket
<1>3. \A j \in 1 .. f.size - n : f.mem[f.out + n + j - 1] = last - (f.size - n) + j
  <2> SUFFICES ASSUME NEW j \in 1 .. f.size - n
               PROVE  f.mem[f.out + n + j - 1] = last - (f.size - n) + j
    OBVIOUS
  <2>1. n + j \in 1 .. f.size /\ f.out + (n + j) - 1 = f.out + n + j - 1
    BY <1>1
  <2>2. f.mem[f.out + (n + j) - 1] = last - f.size + (n + j)
    BY <2>1 DEF Holds
  <2> QED
    BY <1>1, <2>1, <2>2
<1> HIDE DEF g
<1>4. g \in Fifo
  BY <1>1, <1>2 DEF Fifo
<1>5. Holds(g, last) /\ g.size = f.size - n
  BY <1>1, <1>2, <1>3, <1>4 DEF Holds
<1> QED
  BY <1>5 DEF g


\* Flushing forgets the unread bytes.
LEMMA FlushedHolds ==
  ASSUME NEW f, NEW last \in Nat, Holds(f, last)
  PROVE  Holds(Flushed(f), last) /\ Flushed(f).size = 0
<1>1. f \in Fifo
  BY DEF Holds
<1>2. Flushed(f) \in Fifo
  BY <1>1 DEF Flushed, Fifo
<1>3. Flushed(f).in = 0 /\ Flushed(f).out = 0 /\ Flushed(f).size = 0
  BY <1>1 DEF Flushed, Fifo
<1> QED
  BY <1>2, <1>3 DEF Holds

\* The memory of a new buffer holds no byte of the stream.
LEMMA NewFifoHolds == Holds(NewFifo, 0) /\ NewFifo.size = 0
BY DEF NewFifo, Holds, Fifo

-----------------------------------------------------------------------------
(* The stream.                                                             *)

\* How many bytes the first k packets of a stream amount to.
End(s, k) == IF k = 0 THEN 0 ELSE s[k].at + s[k].len

\* A stream of packets that follow one another, each as long as one of sizes
\* says and with or without SYNC as one of syncs does.
StreamOf(s, sizes, syncs) ==
  /\ s \in Seq(Packets)
  /\ \A p \in 1 .. Len(s) : /\ s[p].len \in sizes
                           /\ s[p].sync \in syncs
                           /\ s[p].at = End(s, p - 1)
  /\ \A p, q \in 1 .. Len(s) : p < q => s[p].at + s[p].len <= s[q].at

LEMMA TotalIsEnd ==
  ASSUME NEW s \in Seq(Packets)
  PROVE  Total(s) = End(s, Len(s)) /\ Total(s) \in Nat
<1>1. s = << >> <=> Len(s) = 0
  BY EmptySeq
<1>2. ASSUME Len(s) # 0 PROVE s[Len(s)] \in Packets
  BY <1>2
<1> QED
  BY <1>1, <1>2 DEF Total, End, Packets

\* t is s and one more packet.
OneMore(s, t) ==
  /\ Len(t) = Len(s) + 1
  /\ \A p \in 1 .. Len(s) : t[p] = s[p]
  /\ Total(t) \in Nat /\ Total(s) <= Total(t)
  /\ \A k \in 0 .. Len(s) : End(t, k) = End(s, k)

\* One more packet keeps the stream one of such packets.
LEMMA StreamGrows ==
  ASSUME NEW sizes, NEW syncs, NEW s, StreamOf(s, sizes, syncs),
         NEW new \in Packets, new.at = Total(s), new.len \in sizes, new.sync \in syncs,
         NEW t, t = Append(s, new)
  PROVE  StreamOf(t, sizes, syncs) /\ OneMore(s, t)
<1>1. s \in Seq(Packets) /\ Len(s) \in Nat
  BY DEF StreamOf
<1>2. Total(s) = End(s, Len(s)) /\ Total(s) \in Nat
  BY <1>1, TotalIsEnd
<1>4. new.len \in Nat
  BY DEF Packets
<1>5. t \in Seq(Packets) /\ Len(t) = Len(s) + 1 /\ t[Len(s) + 1] = new
      /\ \A p \in 1 .. Len(s) : t[p] = s[p]
  BY <1>1, AppendProperties
<1>6. \A k \in 0 .. Len(s) : End(t, k) = End(s, k)
  BY <1>5 DEF End
<1>7. Total(t) = Total(s) + new.len
  <2>1. Total(t) = End(t, Len(s) + 1)
    BY <1>5, TotalIsEnd
  <2> QED
    BY <1>1, <1>4, <1>5, <2>1 DEF End
<1>8. ASSUME NEW p \in 1 .. Len(t)
      PROVE  t[p].len \in sizes /\ t[p].sync \in syncs /\ t[p].at = End(t, p - 1)
  <2>1. CASE p = Len(s) + 1
    <3>1. t[p] = new
      BY <1>5, <2>1
    <3>2. p - 1 = Len(s) /\ Len(s) \in 0 .. Len(s)
      BY <1>1, <2>1
    <3>3. t[p].at = End(t, p - 1)
      BY <1>2, <1>4, <1>6, <3>1, <3>2
    <3> QED
      BY <1>4, <3>1, <3>3
  <2>2. CASE p \in 1 .. Len(s)
    <3>1. t[p] = s[p] /\ p - 1 \in 0 .. Len(s)
      BY <1>1, <1>5, <2>2
    <3> QED
      BY <1>6, <2>2, <3>1 DEF StreamOf
  <2>3. p = Len(s) + 1 \/ p \in 1 .. Len(s)
    BY <1>1, <1>5
  <2> QED
    BY <2>1, <2>2, <2>3, Zenon
<1>9. ASSUME NEW p \in 1 .. Len(s) PROVE s[p].at + s[p].len <= Total(s)
  <2>1. s[p] \in Packets /\ s[Len(s)] \in Packets
    BY <1>1
  <2>2. CASE p = Len(s)
    BY <1>1, <1>2, <2>1, <2>2 DEF End, Packets
  <2>3. CASE p < Len(s)
    <3>1. s[p].at + s[p].len <= s[Len(s)].at
      BY <1>1, <2>3 DEF StreamOf
    <3>2. Total(s) = s[Len(s)].at + s[Len(s)].len
      BY <1>1, <1>2 DEF End
    <3> QED
      BY <2>1, <3>1, <3>2 DEF Packets
  <2> QED
    BY <1>1, <2>2, <2>3
<1>10. ASSUME NEW p \in 1 .. Len(t), NEW q \in 1 .. Len(t), p < q
       PROVE  t[p].at + t[p].len <= t[q].at
  <2>1. p \in 1 .. Len(s) /\ t[p] = s[p]
    BY <1>1, <1>5, <1>10
  <2>2. CASE q = Len(s) + 1
    BY <1>4, <1>5, <1>9, <2>1, <2>2
  <2>3. CASE q \in 1 .. Len(s)
    <3>1. t[q] = s[q]
      BY <1>5, <2>3
    <3> QED
      BY <1>10, <2>1, <2>3, <3>1 DEF StreamOf
  <2> QED
    BY <1>1, <1>5, <2>2, <2>3
<1>11. StreamOf(t, sizes, syncs)
  BY <1>5, <1>8, <1>10 DEF StreamOf
<1> QED
  BY <1>2, <1>4, <1>5, <1>6, <1>7, <1>11 DEF OneMore

-----------------------------------------------------------------------------
(* What OnReceive finds at m_Out.                                          *)

\* A header at which a packet begins is read as what it is.
LEMMA HeaderRead ==
  ASSUME NEW sizes, 0 \notin sizes, NEW syncs, NEW s, StreamOf(s, sizes, syncs),
         NEW f, NEW last \in Nat, Holds(f, last), f.size >= HdrSize,
         NEW p \in 1 .. Len(s), s[p].at = last - f.size
  PROVE  /\ ByteCounts(f, s) = {s[p].len}
         /\ s[p].sync => HasSync(f, s)
<1>1. f.size \in Nat /\ f.out \in Nat /\ f.size <= last
      /\ \A j \in 1 .. f.size : f.mem[f.out + j - 1] = last - f.size + j
  BY DEF Holds, Fifo
<1>2. s \in Seq(Packets) /\ Len(s) \in Nat /\ DOMAIN s = 1 .. Len(s)
  BY DEF StreamOf
<1>3. \A q \in 1 .. Len(s) : s[q].at \in Nat /\ s[q].len \in Nat
  <2>1. \A q \in 1 .. Len(s) : s[q] \in Packets
    BY <1>2
  <2> QED
    BY <2>1 DEF Packets
<1>4. f.mem[f.out] = s[p].at + 1
  <2>1. 1 \in 1 .. f.size /\ f.out + 1 - 1 = f.out
    BY <1>1
  <2> QED
    BY <1>1, <2>1
<1>5. f.mem[f.out + SyncOff] = s[p].at + SyncOff + 1
  <2>1. SyncOff + 1 \in 1 .. f.size /\ f.out + (SyncOff + 1) - 1 = f.out + SyncOff
    BY <1>1
  <2>2. f.mem[f.out + (SyncOff + 1) - 1] = last - f.size + (SyncOff + 1)
    BY <1>1, <2>1
  <2>3. s[p].at \in Nat /\ last - f.size \in Int /\ SyncOff \in Nat
    BY <1>1, <1>3
  <2>4. last - f.size + (SyncOff + 1) = s[p].at + SyncOff + 1
    BY <2>3
  <2> QED
    BY <2>1, <2>2, <2>4
<1>6. \A q \in 1 .. Len(s) : s[q].at + 1 = s[p].at + 1 => q = p
  <2> SUFFICES ASSUME NEW q \in 1 .. Len(s), s[q].at + 1 = s[p].at + 1, q # p
               PROVE  FALSE
    OBVIOUS
  <2>1. s[q].at = s[p].at
    <3>1. s[q].at \in Nat /\ s[p].at \in Nat
      BY <1>3
    <3> QED
      BY <3>1
  <2>2. s[q].len # 0 /\ s[p].len # 0
    BY DEF StreamOf
  <2>3. CASE q < p
    <3>1. s[q].at + s[q].len <= s[p].at
      BY <2>3 DEF StreamOf
    <3> QED
      BY <1>3, <2>1, <2>2, <3>1
  <2>4. CASE p < q
    <3>1. s[p].at + s[p].len <= s[q].at
      BY <2>4 DEF StreamOf
    <3> QED
      BY <1>3, <2>1, <2>2, <3>1
  <2> QED
    BY <1>2, <2>3, <2>4
<1>7. {q \in DOMAIN s : f.mem[f.out] = s[q].at + 1} = {p}
  BY <1>2, <1>4, <1>6
<1> QED
  BY <1>2, <1>5, <1>7 DEF ByteCounts, HasSync

\* Where SYNC is found a packet begins: pieces of two packets never pass for
\* one, wherever a flush has left m_Out in the stream.
LEMMA SyncFound ==
  ASSUME NEW sizes, NEW syncs, NEW s, StreamOf(s, sizes, syncs),
         NEW f, NEW last \in Nat, Holds(f, last), f.size >= HdrSize, HasSync(f, s)
  PROVE  \E p \in 1 .. Len(s) : s[p].sync /\ s[p].at = last - f.size
<1>1. f.size \in Nat /\ f.out \in Nat /\ f.size <= last
      /\ \A j \in 1 .. f.size : f.mem[f.out + j - 1] = last - f.size + j
  BY DEF Holds, Fifo
<1>2. s \in Seq(Packets) /\ DOMAIN s = 1 .. Len(s)
  BY DEF StreamOf
<1>3. PICK p \in 1 .. Len(s) : s[p].sync /\ f.mem[f.out + SyncOff] = s[p].at + SyncOff + 1
  BY <1>2 DEF HasSync
<1>4. s[p].at \in Nat
  <2>1. s[p] \in Packets
    BY <1>2
  <2> QED
    BY <2>1 DEF Packets
<1>5. SyncOff + 1 \in 1 .. f.size /\ f.out + (SyncOff + 1) - 1 = f.out + SyncOff
  BY <1>1
<1>6. f.mem[f.out + SyncOff] = last - f.size + (SyncOff + 1)
  BY <1>1, <1>5
<1>7. s[p].at = last - f.size
  <2>1. s[p].at + SyncOff + 1 = last - f.size + (SyncOff + 1)
    BY <1>3, <1>6
  <2>2. last - f.size \in Int /\ SyncOff \in Nat
    BY <1>1
  <2> QED
    BY <1>4, <2>1, <2>2
<1> QED
  BY <1>3, <1>7

\* The bytes OnReceive copies are those of that packet.
LEMMA BytesAreThePacket ==
  ASSUME NEW f, NEW last \in Nat, Holds(f, last),
         NEW q \in Packets, last - f.size = q.at, q.len <= f.size
  PROVE  /\ BytesAtOut(f, q.len) = PacketBytes(q)
         /\ PacketBytes(q) \in Seq(Nat)
<1>1. q.at \in Nat /\ q.len \in Nat
  BY DEF Packets
<1>2. f.size \in Nat
      /\ \A j \in 1 .. f.size : f.mem[f.out + j - 1] = last - f.size + j
  BY DEF Holds, Fifo
<1>3. \A j \in 1 .. q.len : f.mem[f.out + j - 1] = q.at + j
  <2> SUFFICES ASSUME NEW j \in 1 .. q.len PROVE f.mem[f.out + j - 1] = q.at + j
    OBVIOUS
  <2>1. j \in 1 .. f.size
    BY <1>1, <1>2
  <2> QED
    BY <1>2, <2>1
<1>4. BytesAtOut(f, q.len) = PacketBytes(q)
  BY <1>3 DEF BytesAtOut, PacketBytes
<1>5. PacketBytes(q) \in [1 .. q.len -> Nat]
  BY <1>1 DEF PacketBytes
<1> QED
  BY <1>1, <1>4, <1>5, SeqDef

-----------------------------------------------------------------------------
(* A receive path: `last' bytes of stream s received, buffer f, and x the  *)
(* packets that have left the buffer.                                      *)

\* x is whole packets of s with their SYNC, each at most once and in the order
\* sent, and none begins after byte `end'.
WholePacketsOf(x, s, end) ==
  /\ x \in Seq(Seq(Nat))
  /\ \A i \in 1 .. Len(x) :
       /\ \E p \in 1 .. Len(s) : s[p].sync /\ x[i] = PacketBytes(s[p])
       /\ x[i][1] \in Nat /\ x[i][1] <= end
       /\ i > 1 => x[i - 1][1] < x[i][1]

\* What holds of every receive path, whether or not it has lost packets.
Path(s, sizes, syncs, last, f, x) ==
  /\ StreamOf(s, sizes, syncs)
  /\ last \in 0 .. Total(s)
  /\ Holds(f, last)
  /\ WholePacketsOf(x, s, last - f.size)

LEMMA PathFacts ==
  ASSUME NEW sizes, NEW syncs, NEW s, NEW last, NEW f, NEW x,
         Path(s, sizes, syncs, last, f, x)
  PROVE  /\ s \in Seq(Packets) /\ Len(s) \in Nat /\ Total(s) \in Nat
         /\ last \in Nat /\ last <= Total(s)
         /\ Holds(f, last) /\ f.size \in Nat /\ f.size <= last
         /\ x \in Seq(Seq(Nat)) /\ Len(x) \in Nat
<1>1. s \in Seq(Packets) /\ last \in 0 .. Total(s) /\ Holds(f, last) /\ x \in Seq(Seq(Nat))
  BY DEF Path, StreamOf, WholePacketsOf
<1>2. Total(s) \in Nat
  BY <1>1, TotalIsEnd
<1>3. f.size \in Nat /\ f.size <= last
  BY <1>1 DEF Holds, Fifo
<1> QED
  BY <1>1, <1>2, <1>3

LEMMA PathStarts ==
  ASSUME NEW sizes, NEW syncs
  PROVE  Path(<< >>, sizes, syncs, 0, NewFifo, << >>)
<1>1. StreamOf(<< >>, sizes, syncs)
  BY DEF StreamOf
<1>2. 0 \in 0 .. Total(<< >>)
  BY DEF Total
<1>3. WholePacketsOf(<< >>, << >>, 0 - NewFifo.size)
  BY DEF WholePacketsOf
<1> QED
  BY <1>1, <1>2, <1>3, NewFifoHolds DEF Path

\* The peer sends one more packet.
LEMMA PathSends ==
  ASSUME NEW sizes, NEW syncs, NEW s, NEW last, NEW f, NEW x, Path(s, sizes, syncs, last, f, x),
         NEW new \in Packets, new.at = Total(s), new.len \in sizes, new.sync \in syncs,
         NEW t, t = Append(s, new)
  PROVE  Path(t, sizes, syncs, last, f, x)
<1>1. StreamOf(s, sizes, syncs)
  BY DEF Path
<1>2. StreamOf(t, sizes, syncs)
  BY <1>1, StreamGrows
<1>3. OneMore(s, t)
  BY <1>1, StreamGrows
<1>4. last \in 0 .. Total(t)
  <2>1. last \in Nat /\ Total(s) \in Nat /\ last <= Total(s)
    BY PathFacts
  <2> QED
    BY <1>3, <2>1 DEF OneMore
<1>5. WholePacketsOf(x, t, last - f.size)
  <2>1. ASSUME NEW i \in 1 .. Len(x)
        PROVE  \E p \in 1 .. Len(t) : t[p].sync /\ x[i] = PacketBytes(t[p])
    <3>1. PICK p \in 1 .. Len(s) : s[p].sync /\ x[i] = PacketBytes(s[p])
      BY DEF Path, WholePacketsOf
    <3>2. p \in 1 .. Len(t) /\ t[p] = s[p]
      BY <1>3, PathFacts DEF OneMore
    <3> QED
      BY <3>1, <3>2
  <2> QED
    BY <2>1 DEF Path, WholePacketsOf
<1> QED
  BY <1>2, <1>4, <1>5 DEF Path

\* A Receive of n bytes while less than a packet waits.
LEMMA PathReceives ==
  ASSUME NEW sizes, NEW syncs, NEW s, NEW last, NEW f, NEW x,
         Path(s, sizes, syncs, last, f, x), f.size < MaxPacket,
         NEW n \in 1 .. Chunk, NEW end, end = last + n, end <= Total(s),
         NEW g, g = AddBytes(GetInLoc(Shift(f)), last + 1, n)
  PROVE  Path(s, sizes, syncs, end, g, x) /\ g.size = f.size + n
<1> DEFINE f1 == Shift(f)
           f2 == GetInLoc(f1)
<1>1. Holds(f, last) /\ last \in Nat /\ f.size \in Nat /\ Total(s) \in Nat
      /\ n \in Nat /\ n <= Chunk
  BY PathFacts
<1>2. Holds(f1, last) /\ f1.size = f.size /\ (f1.size = 0 => f1.in = 0)
  BY <1>1, ShiftHolds
<1>3. f1.size <= MaxPacket
  BY <1>1, <1>2
<1> HIDE DEF f1
<1>4. Holds(f2, last) /\ f2.size = f1.size /\ f2.in + Chunk <= MemSize
  BY <1>1, <1>2, <1>3, GetInLocHolds
<1>5. f2.in + n <= MemSize
  BY <1>1, <1>4 DEF Holds, Fifo
<1> HIDE DEF f2
<1>6. Holds(g, end) /\ g.size = f.size + n
  <2>1. g = AddBytes(f2, last + 1, n)
    BY DEF f1, f2
  <2> QED
    BY <1>1, <1>2, <1>4, <1>5, <2>1, AddBytesHolds
<1>7. end - g.size = last - f.size /\ end \in 0 .. Total(s)
  BY <1>1, <1>6
<1>8. WholePacketsOf(x, s, end - g.size)
  BY <1>7 DEF Path
<1>9. StreamOf(s, sizes, syncs) /\ Holds(g, end) /\ end \in 0 .. Total(s)
  BY <1>6, <1>7 DEF Path
<1> QED
  BY <1>6, <1>8, <1>9 DEF Path

\* A later end changes nothing for the packets before it.
LEMMA LaterEnd ==
  ASSUME NEW x, NEW s, NEW e1 \in Nat, NEW e2 \in Nat, e1 <= e2, WholePacketsOf(x, s, e1)
  PROVE  WholePacketsOf(x, s, e2)
<1>1. ASSUME NEW i \in 1 .. Len(x) PROVE x[i][1] \in Nat /\ x[i][1] <= e2
  BY DEF WholePacketsOf
<1> QED
  BY <1>1 DEF WholePacketsOf

\* A flush loses bytes; it does not disturb what has left the buffer.
LEMMA PathFlushes ==
  ASSUME NEW sizes, NEW syncs, NEW s, NEW last, NEW f, NEW x,
         Path(s, sizes, syncs, last, f, x)
  PROVE  Path(s, sizes, syncs, last, Flushed(f), x) /\ Flushed(f).size = 0
<1>1. Holds(f, last) /\ last \in Nat /\ f.size \in Nat /\ f.size <= last
  BY PathFacts
<1>2. Holds(Flushed(f), last) /\ Flushed(f).size = 0
  BY <1>1, FlushedHolds
<1>3. last - f.size \in Nat /\ last - 0 \in Nat /\ last - f.size <= last - 0
  BY <1>1
<1>4. WholePacketsOf(x, s, last - 0)
  BY <1>3, LaterEnd DEF Path
<1> QED
  BY <1>2, <1>4 DEF Path

\* What OnReceive takes for a packet is one, with its SYNC, from its first byte.
LEMMA PathFindsPacket ==
  ASSUME NEW sizes, 0 \notin sizes, NEW syncs,
         NEW s, NEW last, NEW f, NEW x, Path(s, sizes, syncs, last, f, x),
         f.size >= HdrSize, NEW n \in ByteCounts(f, s), ~LosesSync(f, s, n)
  PROVE  \E p \in 1 .. Len(s) : s[p].sync /\ s[p].at = last - f.size /\ s[p].len = n
<1>1. last \in Nat /\ Holds(f, last) /\ StreamOf(s, sizes, syncs)
  BY PathFacts DEF Path
<1>2. HasSync(f, s)
  BY DEF LosesSync
<1>3. PICK p \in 1 .. Len(s) : s[p].sync /\ s[p].at = last - f.size
  BY <1>1, <1>2, SyncFound
<1>4. ByteCounts(f, s) = {s[p].len}
  BY <1>1, <1>3, HeaderRead
<1> QED
  BY <1>3, <1>4

\* A packet that OnReceive extracts is the next of the whole packets.
LEMMA PathExtracts ==
  ASSUME NEW sizes, 0 \notin sizes, NEW syncs,
         NEW s, NEW last, NEW f, NEW x, Path(s, sizes, syncs, last, f, x),
         f.size >= HdrSize, NEW n \in ByteCounts(f, s), ~LosesSync(f, s, n), n <= f.size,
         NEW g, g = NextPacket(f, n), NEW y, y = Append(x, BytesAtOut(f, n))
  PROVE  Path(s, sizes, syncs, last, g, y) /\ BytesAtOut(f, n) \in Seq(Nat)
<1>1. PICK p \in 1 .. Len(s) : s[p].sync /\ s[p].at = last - f.size /\ s[p].len = n
  BY PathFindsPacket
<1> DEFINE q == s[p]
           b == BytesAtOut(f, n)
<1>2. /\ s \in Seq(Packets) /\ last \in Nat /\ Holds(f, last) /\ f.size \in Nat /\ f.size <= last
      /\ x \in Seq(Seq(Nat)) /\ Len(x) \in Nat
  BY PathFacts
<1>3. q \in Packets /\ q.len # 0
  BY <1>2 DEF Path, StreamOf
<1>4. q.at \in Nat /\ n \in Nat /\ n >= 1 /\ last - f.size = q.at
  BY <1>1, <1>3 DEF Packets
<1>5. b = PacketBytes(q) /\ b \in Seq(Nat)
  BY <1>1, <1>2, <1>3, BytesAreThePacket
<1>6. b[1] = q.at + 1
  <2>1. 1 \in 1 .. q.len
    BY <1>1, <1>4
  <2> QED
    BY <1>5, <2>1 DEF PacketBytes
<1>7. Holds(g, last) /\ g.size = f.size - n
  BY <1>2, <1>4, NextPacketHolds
<1>8. last - g.size \in Nat /\ last - f.size <= last - g.size /\ q.at + 1 <= last - g.size
  <2>1. last - g.size = q.at + n
    BY <1>2, <1>4, <1>7
  <2> QED
    BY <1>4, <2>1
<1> HIDE DEF b
<1>9. /\ y \in Seq(Seq(Nat)) /\ Len(y) = Len(x) + 1 /\ y[Len(x) + 1] = b
      /\ \A i \in 1 .. Len(x) : y[i] = x[i]
  <2>1. y = Append(x, b)
    BY DEF b
  <2> QED
    BY <1>2, <1>5, <2>1, AppendProperties
<1>10. WholePacketsOf(x, s, last - f.size)
  BY DEF Path
<1>11. WholePacketsOf(y, s, last - g.size)
  <2> SUFFICES ASSUME NEW i \in 1 .. Len(y)
               PROVE  /\ \E r \in 1 .. Len(s) : s[r].sync /\ y[i] = PacketBytes(s[r])
                      /\ y[i][1] \in Nat /\ y[i][1] <= last - g.size
                      /\ i > 1 => y[i - 1][1] < y[i][1]
    BY <1>9 DEF WholePacketsOf
  <2>1. CASE i \in 1 .. Len(x)
    <3>1. y[i] = x[i] /\ (i > 1 => y[i - 1] = x[i - 1])
      BY <1>2, <1>9, <2>1
    <3>2. x[i][1] \in Nat /\ x[i][1] <= last - f.size /\ (i > 1 => x[i - 1][1] < x[i][1])
      BY <1>10, <2>1 DEF WholePacketsOf
    <3>3. y[i][1] <= last - g.size
      BY <1>4, <1>8, <3>1, <3>2
    <3> QED
      BY <1>10, <2>1, <3>1, <3>2, <3>3 DEF WholePacketsOf
  <2>2. CASE i = Len(x) + 1
    <3>1. y[i] = PacketBytes(q) /\ y[i][1] = q.at + 1
      BY <1>5, <1>6, <1>9, <2>2
    <3>2. ASSUME i > 1 PROVE y[i - 1][1] < y[i][1]
      <4>1. i - 1 \in 1 .. Len(x) /\ y[i - 1] = x[i - 1]
        BY <1>2, <1>9, <2>2, <3>2
      <4>2. x[i - 1][1] \in Nat /\ x[i - 1][1] <= q.at
        BY <1>4, <1>10, <4>1 DEF WholePacketsOf
      <4> QED
        BY <1>4, <3>1, <4>1, <4>2
    <3> QED
      BY <1>1, <1>4, <1>8, <3>1, <3>2
  <2> QED
    BY <1>2, <1>9, <2>1, <2>2
<1> QED
  BY <1>5, <1>7, <1>11 DEF Path, b

-----------------------------------------------------------------------------
(* A receive path that loses nothing.                                      *)

\* The packets that have left the buffer are the first of the stream, and the
\* unread bytes begin where the last of them ends.
Lossless(s, last, f, x) ==
  /\ Len(x) <= Len(s)
  /\ \A i \in 1 .. Len(x) : x[i] = PacketBytes(s[i])
  /\ last - f.size = End(s, Len(x))

LEMMA LosslessSends ==
  ASSUME NEW s, NEW last, NEW f, NEW x, Lossless(s, last, f, x),
         NEW t, OneMore(s, t), Len(s) \in Nat, Len(x) \in Nat
  PROVE  Lossless(t, last, f, x)
<1>1. Len(x) <= Len(t) /\ Len(x) \in 0 .. Len(s)
  BY DEF Lossless, OneMore
<1>2. \A i \in 1 .. Len(x) : t[i] = s[i]
  BY <1>1 DEF OneMore
<1>3. End(t, Len(x)) = End(s, Len(x))
  BY <1>1 DEF OneMore
<1> QED
  BY <1>1, <1>2, <1>3 DEF Lossless

\* With a header in the buffer, OnReceive finds the byte count of the packet
\* after the last one extracted, and its SYNC if it has one.
LEMMA LosslessHeader ==
  ASSUME NEW sizes, 0 \notin sizes, NEW syncs,
         NEW s, NEW last, NEW f, NEW x, Path(s, sizes, syncs, last, f, x),
         Lossless(s, last, f, x), f.size >= HdrSize, NEW p, p = Len(x) + 1
  PROVE  /\ p \in 1 .. Len(s)
         /\ s[p].at = last - f.size
         /\ ByteCounts(f, s) = {s[p].len}
         /\ s[p].sync => HasSync(f, s)
<1>1. /\ s \in Seq(Packets) /\ Len(s) \in Nat /\ Total(s) \in Nat
      /\ last \in Nat /\ last <= Total(s)
      /\ Holds(f, last) /\ f.size \in Nat /\ f.size <= last
      /\ Len(x) \in Nat
  BY PathFacts
<1>2. last - f.size = End(s, Len(x)) /\ Len(x) <= Len(s)
  BY DEF Lossless
<1>3. Len(x) # Len(s)
  <2>1. ASSUME Len(x) = Len(s) PROVE last - f.size = Total(s)
    BY <1>1, <1>2, <2>1, TotalIsEnd
  <2>2. last - f.size < Total(s)
    BY <1>1
  <2> QED
    BY <1>1, <2>1, <2>2
<1>4. p \in 1 .. Len(s) /\ p - 1 = Len(x)
  BY <1>1, <1>2, <1>3
<1>5. s[p].at = last - f.size /\ StreamOf(s, sizes, syncs)
  BY <1>2, <1>4 DEF Path, StreamOf
<1> QED
  BY <1>1, <1>4, <1>5, HeaderRead

\* An extraction takes the next packet of the stream.
LEMMA LosslessExtracts ==
  ASSUME NEW sizes, 0 \notin sizes, NEW syncs,
         NEW s, NEW last, NEW f, NEW x, Path(s, sizes, syncs, last, f, x),
         Lossless(s, last, f, x), f.size >= HdrSize,
         NEW n \in ByteCounts(f, s), n <= f.size,
         NEW g, g.size = f.size - n, NEW y, y = Append(x, BytesAtOut(f, n))
  PROVE  Lossless(s, last, g, y)
<1> DEFINE p == Len(x) + 1
<1>1. p \in 1 .. Len(s) /\ s[p].at = last - f.size /\ n = s[p].len
  BY LosslessHeader
<1>2. /\ s \in Seq(Packets) /\ last \in Nat /\ Holds(f, last) /\ f.size \in Nat
      /\ x \in Seq(Seq(Nat)) /\ Len(x) \in Nat /\ Len(s) \in Nat
  BY PathFacts
<1>3. s[p] \in Packets
  BY <1>1, <1>2
<1>4. s[p].at \in Nat /\ s[p].len \in Nat
  BY <1>3 DEF Packets
<1>5. BytesAtOut(f, n) = PacketBytes(s[p]) /\ BytesAtOut(f, n) \in Seq(Nat)
  BY <1>1, <1>2, <1>3, BytesAreThePacket
<1>6. /\ Len(y) = p /\ y[p] = PacketBytes(s[p])
      /\ \A i \in 1 .. Len(x) : y[i] = x[i]
  BY <1>2, <1>5, AppendProperties
<1>7. \A i \in 1 .. Len(y) : y[i] = PacketBytes(s[i])
  <2> SUFFICES ASSUME NEW i \in 1 .. Len(y) PROVE y[i] = PacketBytes(s[i])
    OBVIOUS
  <2>1. i = p \/ i \in 1 .. Len(x)
    <3>1. i \in 1 .. Len(x) + 1 /\ Len(x) \in Nat
      BY <1>2, <1>6
    <3> QED
      BY <3>1
  <2> QED
    BY <1>6, <2>1 DEF Lossless
<1>8. last - g.size = End(s, p)
  <2>1. End(s, p) = s[p].at + s[p].len
    BY <1>2 DEF End
  <2> QED
    BY <1>1, <1>2, <1>4, <2>1
<1>9. p <= Len(s)
  BY <1>1, <1>2
<1> QED
  BY <1>6, <1>7, <1>8, <1>9 DEF Lossless

-----------------------------------------------------------------------------
(* The list that the packets are queued on: x is what has been taken off   *)
(* it, y what is still there.                                              *)

LEMMA QueuePut ==
  ASSUME NEW S, NEW x \in Seq(S), NEW y \in Seq(S), NEW e \in S
  PROVE  /\ Append(y, e) \in Seq(S)
         /\ x \o Append(y, e) = Append(x \o y, e)
<1>1. <<e>> \in Seq(S)
  OBVIOUS
<1>2. Append(y, e) = y \o <<e>> /\ Append(y, e) \in Seq(S)
  BY AppendIsConcat, AppendProperties
<1>3. (x \o y) \o <<e>> = x \o (y \o <<e>>) /\ x \o y \in Seq(S)
  BY <1>1, ConcatAssociative, ConcatProperties
<1>4. Append(x \o y, e) = (x \o y) \o <<e>>
  BY <1>3, AppendIsConcat
<1> QED
  BY <1>2, <1>3, <1>4

\* Taking the head off does not change the two together.
LEMMA QueueTake ==
  ASSUME NEW S, NEW x \in Seq(S), NEW y \in Seq(S), y # << >>
  PROVE  /\ Append(x, Head(y)) \in Seq(S) /\ Tail(y) \in Seq(S)
         /\ Append(x, Head(y)) \o Tail(y) = x \o y
         /\ Len(x) + 1 \in 1 .. Len(x \o y)
         /\ (x \o y)[Len(x) + 1] = Head(y)
<1> DEFINE h == Head(y)
           t == Tail(y)
<1>1. h \in S /\ t \in Seq(S) /\ Len(t) = Len(y) - 1 /\ Len(y) \in Nat \ {0} /\ Len(x) \in Nat
      /\ h = y[1] /\ \A i \in 1 .. Len(t) : t[i] = y[i + 1]
  BY HeadTailProperties, EmptySeq
<1> HIDE DEF h, t
<1>2. Append(x, h) \in Seq(S) /\ Len(Append(x, h)) = Len(x) + 1 /\ Append(x, h)[Len(x) + 1] = h
      /\ \A i \in 1 .. Len(x) : Append(x, h)[i] = x[i]
  BY <1>1, AppendProperties
<1> DEFINE u == Append(x, h)
           left == u \o t
           right == x \o y
<1> HIDE DEF u
<1>3. u \in Seq(S) /\ Len(u) = Len(x) + 1 /\ u[Len(x) + 1] = h
      /\ \A i \in 1 .. Len(x) : u[i] = x[i]
  BY <1>2 DEF u
<1>4. /\ left \in Seq(S) /\ Len(left) = Len(u) + Len(t)
      /\ \A i \in 1 .. Len(u) + Len(t) : left[i] = IF i <= Len(u) THEN u[i] ELSE t[i - Len(u)]
  BY <1>1, <1>3, ConcatProperties
<1>5. /\ right \in Seq(S) /\ Len(right) = Len(x) + Len(y)
      /\ \A i \in 1 .. Len(x) + Len(y) : right[i] = IF i <= Len(x) THEN x[i] ELSE y[i - Len(x)]
  BY <1>1, ConcatProperties
<1> HIDE DEF left, right
<1>6. Len(left) = Len(right)
  BY <1>1, <1>3, <1>4, <1>5
<1>7. ASSUME NEW i \in 1 .. Len(left) PROVE left[i] = right[i]
  <2>1. i \in Nat /\ 1 <= i /\ i <= Len(x) + Len(y)
        /\ i \in 1 .. Len(u) + Len(t) /\ i \in 1 .. Len(x) + Len(y)
    BY <1>1, <1>4, <1>5, <1>6
  <2>2. CASE i <= Len(x)
    <3>1. left[i] = u[i] /\ u[i] = x[i]
      BY <1>1, <1>3, <1>4, <2>1, <2>2
    <3> QED
      BY <1>5, <2>1, <2>2, <3>1
  <2>3. CASE i = Len(x) + 1
    <3>1. left[i] = h
      BY <1>1, <1>3, <1>4, <2>1, <2>3
    <3>2. ~(i <= Len(x)) /\ i - Len(x) = 1
      BY <1>1, <2>3
    <3> QED
      BY <1>1, <1>5, <2>1, <3>1, <3>2
  <2>4. CASE i > Len(x) + 1
    <3>1. i - Len(u) \in 1 .. Len(t) /\ i - Len(u) + 1 = i - Len(x) /\ ~(i <= Len(u))
          /\ ~(i <= Len(x))
      BY <1>1, <1>3, <2>1, <2>4
    <3>2. left[i] = t[i - Len(u)]
      BY <1>4, <2>1, <3>1
    <3>3. t[i - Len(u)] = y[i - Len(u) + 1]
      BY <1>1, <3>1
    <3> QED
      BY <1>5, <2>1, <3>1, <3>2, <3>3
  <2> QED
    BY <1>1, <2>1, <2>2, <2>3, <2>4
<1>8. left = right
  BY <1>4, <1>5, <1>6, <1>7, SeqEqual
<1>9. Len(x) + 1 \in 1 .. Len(right)
  BY <1>1, <1>5
<1>10. right[Len(x) + 1] = h
  <2>1. Len(x) + 1 \in 1 .. Len(x) + Len(y) /\ ~(Len(x) + 1 <= Len(x)) /\ Len(x) + 1 - Len(x) = 1
    BY <1>1
  <2>2. right[Len(x) + 1] = y[Len(x) + 1 - Len(x)]
    BY <1>5, <2>1
  <2> QED
    BY <1>1, <2>1, <2>2
<1> QED
  BY <1>1, <1>3, <1>8, <1>9, <1>10 DEF u, h, t, left, right

-----------------------------------------------------------------------------
(* The packets of a stream as PacketChannel sees them.                     *)

BytesOf(s) == [p \in DOMAIN s |-> PacketBytes(s[p])]

LEMMA BytesOfStream ==
  ASSUME NEW s \in Seq(Packets)
  PROVE  /\ BytesOf(s) \in Seq(Seq(Nat))
         /\ Len(BytesOf(s)) = Len(s)
         /\ \A p \in 1 .. Len(s) : BytesOf(s)[p] = PacketBytes(s[p])
<1>1. Len(s) \in Nat /\ DOMAIN s = 1 .. Len(s)
  OBVIOUS
<1>2. ASSUME NEW p \in 1 .. Len(s) PROVE PacketBytes(s[p]) \in Seq(Nat)
  <2>1. s[p].at \in Nat /\ s[p].len \in Nat
    <3>1. s[p] \in Packets
      OBVIOUS
    <3> QED
      BY <3>1 DEF Packets
  <2>2. PacketBytes(s[p]) \in [1 .. s[p].len -> Nat]
    BY <2>1 DEF PacketBytes
  <2> QED
    BY <2>1, <2>2, SeqDef
<1>3. BytesOf(s) \in [1 .. Len(s) -> Seq(Nat)]
  BY <1>1, <1>2 DEF BytesOf
<1>4. BytesOf(s) \in Seq(Seq(Nat))
  BY <1>1, <1>3, SeqDef
<1> QED
  BY <1>1, <1>3, <1>4 DEF BytesOf

\* One more packet is one more for the channel.
LEMMA BytesOfMore ==
  ASSUME NEW s \in Seq(Packets), NEW t \in Seq(Packets), OneMore(s, t)
  PROVE  /\ Len(BytesOf(t)) = Len(BytesOf(s)) + 1
         /\ BytesOf(s) = SubSeq(BytesOf(t), 1, Len(BytesOf(s)))
<1> DEFINE bs == BytesOf(s)
           bt == BytesOf(t)
           sub == SubSeq(bt, 1, Len(s))
<1>1. /\ bs \in Seq(Seq(Nat)) /\ Len(bs) = Len(s) /\ Len(s) \in Nat
      /\ \A p \in 1 .. Len(s) : bs[p] = PacketBytes(s[p])
  BY BytesOfStream
<1>2. /\ bt \in Seq(Seq(Nat)) /\ Len(bt) = Len(t)
      /\ \A p \in 1 .. Len(t) : bt[p] = PacketBytes(t[p])
  BY BytesOfStream
<1>3. Len(t) = Len(s) + 1 /\ \A p \in 1 .. Len(s) : t[p] = s[p]
  BY DEF OneMore
<1> HIDE DEF bs, bt
<1>4. \A i \in 1 .. Len(s) : bt[i] \in Seq(Nat)
  BY <1>1, <1>2, <1>3
<1>5. /\ sub \in Seq(Seq(Nat)) /\ Len(sub) = Len(s)
      /\ \A i \in 1 .. Len(s) : sub[i] = bt[i]
  BY <1>1, <1>4, SubSeqProperties
<1> HIDE DEF sub
<1>6. \A i \in 1 .. Len(s) : sub[i] = bs[i]
  BY <1>1, <1>2, <1>3, <1>5
<1>7. bs = sub
  BY <1>1, <1>5, <1>6, SeqEqual
<1> QED
  BY <1>1, <1>2, <1>3, <1>7 DEF bs, bt, sub
=============================================================================
