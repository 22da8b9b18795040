------------------------- MODULE CommandPath_proofs -------------------------
(***************************************************************************)
(* Proofs about the way of a command through the PAP, for every set of     *)
(* boards, every commands the PAG may send, any number of them, of         *)
(* connections, of tries and of sends that take part of a command.         *)
(***************************************************************************)
EXTENDS CommandPath, SequenceTheorems, TLAPS

USE CommandAssumption

-----------------------------------------------------------------------------
(* The line of a connection: what it sent, the command it is sending and   *)
(* its send list, as constant-level facts.                                 *)

Cmds == [n : 1 .. MaxCommands, id : Words, board : Boards, size : Words]

\* The n-th command of the PAG.
IsCommand(cs, k) == k.n \in 1 .. Len(cs) /\ k = cs[k.n]

\* A command of the PAG, or a piece of one.
IsSent(cs, k) ==
  /\ k.n \in 1 .. Len(cs)
  /\ \/ k = cs[k.n]
     \/ /\ k.id = cs[k.n].id /\ k.board = cs[k.n].board
        /\ k.size = Piece /\ Piece < cs[k.n].size

\* A command may be followed by a later one, a piece also by its own command.
Before(cs, k, l) == k.n < l.n \/ (k.n = l.n /\ k.size < cs[k.n].size)

\* Connection c has sent s, is sending k and has the list l, with u commands counted as
\* unsent: no number is above b, and the order is that of the PAG.
LineOK(c, cs, b, s, k, l, u) ==
  /\ \A i \in 1 .. Len(s) : IsSent(cs, s[i]) /\ ConnOf(s[i]) = c /\ s[i].n <= b
  /\ \A j \in 1 .. Len(l) : IsCommand(cs, l[j]) /\ ConnOf(l[j]) = c /\ l[j].n <= b
  /\ k # NoCommand => IsCommand(cs, k) /\ ConnOf(k) = c /\ k.n <= b
  /\ \A i, j \in 1 .. Len(s) : i < j => Before(cs, s[i], s[j])
  /\ \A i, j \in 1 .. Len(l) : i < j => l[i].n < l[j].n
  /\ \A i \in 1 .. Len(s), j \in 1 .. Len(l) : s[i].n < l[j].n
  /\ k # NoCommand => /\ \A i \in 1 .. Len(s) : Before(cs, s[i], k)
                      /\ \A j \in 1 .. Len(l) : k.n < l[j].n
  /\ u <= b
  /\ k # NoCommand => u < k.n
  /\ \A j \in 1 .. Len(l) : u < l[j].n

LEMMA CmdFields ==
  ASSUME NEW k \in Cmds
  PROVE  k.n \in Nat /\ k.n >= 1 /\ k.size \in Nat /\ k.board \in Boards /\ k # NoCommand
         /\ ConnOf(k) \in Conns
<1>1. k.n \in Nat /\ k.n >= 1 /\ k.size \in Nat /\ k.board \in Boards
  <2>1. MaxWord \in Nat
    BY DEF MaxWord
  <2> QED
    BY <2>1 DEF Cmds, Words
<1>2. k # NoCommand
  BY <1>1 DEF NoCommand
<1>3. ConnOf(k) \in Conns
  BY <1>1 DEF ConnOf, Conns, Servers
<1> QED
  BY <1>1, <1>2, <1>3

\* A command more from the PAG.
LEMMA MoreCommands ==
  ASSUME NEW c, NEW cs \in Seq(Cmds), NEW new \in Cmds, NEW b \in Nat,
         NEW s \in Seq(Cmds), NEW k, NEW l \in Seq(Cmds), NEW u,
         LineOK(c, cs, b, s, k, l, u)
  PROVE  LineOK(c, Append(cs, new), b, s, k, l, u)
<1> DEFINE ds == Append(cs, new)
<1>1. /\ ds \in Seq(Cmds) /\ Len(cs) \in Nat /\ Len(ds) = Len(cs) + 1
      /\ \A n \in 1 .. Len(cs) : ds[n] = cs[n]
  BY AppendProperties
<1> HIDE DEF ds
<1>2. \A n \in 1 .. Len(cs) : n \in 1 .. Len(ds)
  BY <1>1
<1>3. \A x : IsCommand(cs, x) => IsCommand(ds, x)
  BY <1>1, <1>2 DEF IsCommand
<1>4. \A x : IsSent(cs, x) => IsSent(ds, x)
  BY <1>1, <1>2 DEF IsSent
<1>5. \A x, y : x.n \in 1 .. Len(cs) /\ Before(cs, x, y) => Before(ds, x, y)
  BY <1>1 DEF Before
<1>6. \A i \in 1 .. Len(s) : s[i].n \in 1 .. Len(cs)
  BY DEF LineOK, IsSent
<1>7. \A i, j \in 1 .. Len(s) : i < j => Before(ds, s[i], s[j])
  BY <1>5, <1>6 DEF LineOK
<1>8. k # NoCommand => \A i \in 1 .. Len(s) : Before(ds, s[i], k)
  BY <1>5, <1>6 DEF LineOK
<1>9. LineOK(c, ds, b, s, k, l, u)
  BY <1>3, <1>4, <1>7, <1>8 DEF LineOK
<1> QED
  BY <1>9 DEF ds

\* The router has taken one more.
LEMMA HigherBound ==
  ASSUME NEW c, NEW cs \in Seq(Cmds), NEW b \in Nat, NEW d \in Nat, b <= d,
         NEW s \in Seq(Cmds), NEW k \in Cmds \cup {NoCommand}, NEW l \in Seq(Cmds), NEW u \in Nat,
         LineOK(c, cs, b, s, k, l, u)
  PROVE  LineOK(c, cs, d, s, k, l, u)
<1>1. \A i \in 1 .. Len(s) : s[i].n <= d
  <2> TAKE i \in 1 .. Len(s)
  <2>1. s[i] \in Cmds /\ s[i].n <= b
    BY DEF LineOK
  <2>2. s[i].n \in Nat
    BY <2>1, CmdFields
  <2> QED
    BY <2>1, <2>2
<1>2. \A j \in 1 .. Len(l) : l[j].n <= d
  <2> TAKE j \in 1 .. Len(l)
  <2>1. l[j].n \in Nat /\ l[j].n <= b
    BY SMTT(20), CmdFields DEF LineOK
  <2> QED
    BY <2>1
<1>3. k # NoCommand => k.n <= d
  <2>1. SUFFICES ASSUME k # NoCommand PROVE k.n <= d
    OBVIOUS
  <2>2. k.n \in Nat /\ k.n <= b
    BY <2>1, CmdFields DEF LineOK
  <2> QED
    BY <2>2
<1>4. u <= d
  BY DEF LineOK
<1> QED
  BY <1>1, <1>2, <1>3, <1>4 DEF LineOK

\* The router puts the command it has taken last on the list.
LEMMA Listed ==
  ASSUME NEW c, NEW cs \in Seq(Cmds), NEW b \in Nat, NEW d \in Nat, b < d,
         NEW s \in Seq(Cmds), NEW k \in Cmds \cup {NoCommand}, NEW l \in Seq(Cmds), NEW u \in Nat,
         LineOK(c, cs, b, s, k, l, u),
         NEW new \in Cmds, IsCommand(cs, new), ConnOf(new) = c, new.n = d
  PROVE  LineOK(c, cs, d, s, k, Append(l, new), u)
<1> DEFINE m == Append(l, new)
<1>1. /\ m \in Seq(Cmds) /\ Len(l) \in Nat /\ Len(m) = Len(l) + 1
      /\ \A j \in 1 .. Len(l) : m[j] = l[j]
      /\ m[Len(l) + 1] = new
  BY AppendProperties
<1> HIDE DEF m
<1>2. LineOK(c, cs, d, s, k, l, u)
  <2>1. b <= d
    OBVIOUS
  <2> QED
    BY <2>1, HigherBound, Zenon
<1>3. \A j \in 1 .. Len(m) : (j \in 1 .. Len(l) /\ m[j] = l[j]) \/ (j = Len(l) + 1 /\ m[j] = new)
  BY <1>1
<1>4. \A j \in 1 .. Len(m) : IsCommand(cs, m[j]) /\ ConnOf(m[j]) = c /\ m[j].n <= d
  BY <1>2, <1>3 DEF LineOK
<1>5. \A j \in 1 .. Len(l) : l[j].n < d
  <2> TAKE j \in 1 .. Len(l)
  <2>1. l[j].n \in Nat /\ l[j].n <= b
    BY CmdFields DEF LineOK
  <2> QED
    BY <2>1
<1>6. \A i \in 1 .. Len(s) : s[i].n < d
  <2> TAKE i \in 1 .. Len(s)
  <2>1. s[i] \in Cmds /\ s[i].n <= b
    BY DEF LineOK
  <2>2. s[i].n \in Nat
    BY <2>1, CmdFields
  <2> QED
    BY <2>1, <2>2
<1>7. k # NoCommand => k.n < d
  <2>1. SUFFICES ASSUME k # NoCommand PROVE k.n < d
    OBVIOUS
  <2>2. k.n \in Nat /\ k.n <= b
    BY <2>1, CmdFields DEF LineOK
  <2> QED
    BY <2>2
<1>8. u < d
  BY DEF LineOK
<1>9. ASSUME NEW i \in 1 .. Len(m), NEW j \in 1 .. Len(m), i < j PROVE m[i].n < m[j].n
  <2>1. i \in 1 .. Len(l) /\ m[i] = l[i]
    BY <1>1, <1>3, <1>9
  <2> QED
    BY <1>2, <1>3, <1>5, <1>9, <2>1 DEF LineOK
<1>10. \A i \in 1 .. Len(s), j \in 1 .. Len(m) : s[i].n < m[j].n
  BY <1>2, <1>3, <1>6 DEF LineOK
<1>11. k # NoCommand => \A j \in 1 .. Len(m) : k.n < m[j].n
  BY <1>2, <1>3, <1>7 DEF LineOK
<1>12. \A j \in 1 .. Len(m) : u < m[j].n
  BY <1>2, <1>3, <1>8 DEF LineOK
<1>13. LineOK(c, cs, d, s, k, m, u)
  BY <1>2, <1>4, <1>9, <1>10, <1>11, <1>12 DEF LineOK
<1> QED
  BY <1>13 DEF m

\* The owner thread takes a command off the list, to send it or to delete it.
LEMMA TakenOff ==
  ASSUME NEW c, NEW cs \in Seq(Cmds), NEW b \in Nat,
         NEW s \in Seq(Cmds), NEW l \in Seq(Cmds), l # << >>, NEW u \in Nat,
         LineOK(c, cs, b, s, NoCommand, l, u)
  PROVE  /\ Head(l) \in Cmds
         /\ LineOK(c, cs, b, s, Head(l), Tail(l), u)
         /\ LineOK(c, cs, b, s, NoCommand, Tail(l), u)
<1> DEFINE m == Tail(l)
           k == l[1]
<1>1. /\ m \in Seq(Cmds) /\ Len(l) \in Nat /\ Len(l) >= 1 /\ Len(m) = Len(l) - 1
      /\ \A j \in 1 .. Len(m) : m[j] = l[j + 1]
      /\ Head(l) = k
  BY HeadTailProperties, EmptySeq
<1>2. k \in Cmds /\ 1 \in 1 .. Len(l)
  BY <1>1
<1> HIDE DEF m, k
<1>3. ASSUME NEW j \in 1 .. Len(m)
      PROVE  /\ j + 1 \in 1 .. Len(l) /\ m[j] = l[j + 1]
             /\ 1 < j + 1
  BY <1>1
<1>4. \A j \in 1 .. Len(m) : IsCommand(cs, m[j]) /\ ConnOf(m[j]) = c /\ m[j].n <= b /\ u < m[j].n
  BY <1>3 DEF LineOK
<1>5. \A i, j \in 1 .. Len(m) : i < j => m[i].n < m[j].n
  <2> SUFFICES ASSUME NEW i \in 1 .. Len(m), NEW j \in 1 .. Len(m), i < j PROVE m[i].n < m[j].n
    OBVIOUS
  <2>1. i + 1 \in 1 .. Len(l) /\ j + 1 \in 1 .. Len(l) /\ i + 1 < j + 1
    BY <1>3
  <2>2. l[i + 1].n < l[j + 1].n
    BY <2>1 DEF LineOK
  <2> QED
    BY <1>3, <2>2
<1>6. \A j \in 1 .. Len(m) : k.n < m[j].n
  BY <1>2, <1>3 DEF LineOK, k
<1>7. \A i \in 1 .. Len(s), j \in 1 .. Len(m) : s[i].n < m[j].n
  BY <1>3 DEF LineOK
<1>8. \A i \in 1 .. Len(s) : s[i].n < k.n
  BY <1>2 DEF LineOK, k
<1>9. IsCommand(cs, k) /\ ConnOf(k) = c /\ k.n <= b /\ u < k.n
  BY <1>2 DEF LineOK, k
<1>10. LineOK(c, cs, b, s, NoCommand, m, u)
  BY <1>4, <1>5, <1>7 DEF LineOK
<1>11. LineOK(c, cs, b, s, k, m, u)
  BY <1>4, <1>5, <1>6, <1>7, <1>8, <1>9 DEF LineOK, Before
<1> QED
  BY <1>1, <1>2, <1>10, <1>11 DEF m

\* The command is given up, counted or not.
LEMMA GivenUp ==
  ASSUME NEW c, NEW cs \in Seq(Cmds), NEW b \in Nat,
         NEW s \in Seq(Cmds), NEW k \in Cmds, NEW l \in Seq(Cmds), NEW u \in Nat,
         LineOK(c, cs, b, s, k, l, u)
  PROVE  LineOK(c, cs, b, s, NoCommand, l, u) /\ LineOK(c, cs, b, s, NoCommand, l, u + 1)
<1>1. k # NoCommand /\ k.n \in Nat
  BY CmdFields
<1>2. u < k.n /\ k.n <= b /\ \A j \in 1 .. Len(l) : k.n < l[j].n
  BY <1>1 DEF LineOK
<1>3. u + 1 <= b
  BY <1>1, <1>2
<1>4. ASSUME NEW j \in 1 .. Len(l) PROVE u + 1 < l[j].n
  <2>1. l[j] \in Cmds
    OBVIOUS
  <2>2. l[j].n \in Nat /\ k.n < l[j].n
    BY <1>2, <2>1, CmdFields
  <2> QED
    BY <1>1, <1>2, <2>2
<1>5. LineOK(c, cs, b, s, NoCommand, l, u)
  BY DEF LineOK
<1> QED
  BY <1>3, <1>4, <1>5 DEF LineOK

\* The command is sent.
LEMMA WholeSent ==
  ASSUME NEW c, NEW cs \in Seq(Cmds), NEW b \in Nat,
         NEW s \in Seq(Cmds), NEW k \in Cmds, NEW l \in Seq(Cmds), NEW u \in Nat,
         LineOK(c, cs, b, s, k, l, u)
  PROVE  LineOK(c, cs, b, Append(s, k), NoCommand, l, u)
<1> DEFINE t == Append(s, k)
<1>1. /\ t \in Seq(Cmds) /\ Len(s) \in Nat /\ Len(t) = Len(s) + 1
      /\ \A i \in 1 .. Len(s) : t[i] = s[i]
      /\ t[Len(s) + 1] = k
  BY AppendProperties
<1> HIDE DEF t
<1>2. k # NoCommand
  BY CmdFields
<1>3. \A i \in 1 .. Len(t) : (i \in 1 .. Len(s) /\ t[i] = s[i]) \/ (i = Len(s) + 1 /\ t[i] = k)
  BY <1>1
<1>4. IsSent(cs, k) /\ ConnOf(k) = c /\ k.n <= b
  BY <1>2 DEF LineOK, IsSent, IsCommand
<1>5. \A i \in 1 .. Len(t) : IsSent(cs, t[i]) /\ ConnOf(t[i]) = c /\ t[i].n <= b
  <2>1. \A i \in 1 .. Len(s) : IsSent(cs, s[i]) /\ ConnOf(s[i]) = c /\ s[i].n <= b
    BY DEF LineOK
  <2> QED
    BY <1>3, <1>4, <2>1
<1>6. \A i, j \in 1 .. Len(t) : i < j => Before(cs, t[i], t[j])
  <2> SUFFICES ASSUME NEW i \in 1 .. Len(t), NEW j \in 1 .. Len(t), i < j
               PROVE  Before(cs, t[i], t[j])
    OBVIOUS
  <2>1. i \in 1 .. Len(s) /\ t[i] = s[i]
    BY <1>1, <1>3
  <2> QED
    BY <1>2, <1>3, <2>1 DEF LineOK
<1>7. \A i \in 1 .. Len(t), j \in 1 .. Len(l) : t[i].n < l[j].n
  BY <1>2, <1>3 DEF LineOK
<1>8. LineOK(c, cs, b, t, NoCommand, l, u)
  BY <1>5, <1>6, <1>7 DEF LineOK
<1> QED
  BY <1>8 DEF t

\* Part of the command is sent.
LEMMA PieceSent ==
  ASSUME NEW c, NEW cs \in Seq(Cmds), NEW b \in Nat,
         NEW s \in Seq(Cmds), NEW k \in Cmds, NEW l \in Seq(Cmds), NEW u \in Nat,
         Piece < k.size, LineOK(c, cs, b, s, k, l, u)
  PROVE  /\ [k EXCEPT !.size = Piece] \in Cmds
         /\ LineOK(c, cs, b, Append(s, [k EXCEPT !.size = Piece]), k, l, u)
<1> DEFINE p == [k EXCEPT !.size = Piece]
           t == Append(s, p)
<1>1. p \in Cmds /\ p.n = k.n /\ p.id = k.id /\ p.board = k.board /\ p.size = Piece
  <2>1. Piece \in Words
    <3>1. MaxWord \in Nat /\ MaxWord >= 1
      BY DEF MaxWord
    <3> QED
      BY <3>1 DEF Piece, Words
  <2> QED
    BY <2>1 DEF Cmds
<1> HIDE DEF p
<1>2. /\ t \in Seq(Cmds) /\ Len(s) \in Nat /\ Len(t) = Len(s) + 1
      /\ \A i \in 1 .. Len(s) : t[i] = s[i]
      /\ t[Len(s) + 1] = p
  BY <1>1, AppendProperties
<1> HIDE DEF t
<1>3. k # NoCommand
  BY CmdFields
<1>4. \A i \in 1 .. Len(t) : (i \in 1 .. Len(s) /\ t[i] = s[i]) \/ (i = Len(s) + 1 /\ t[i] = p)
  BY <1>2
<1>5. IsCommand(cs, k) /\ ConnOf(k) = c /\ k.n <= b
  BY <1>3 DEF LineOK
<1>6. IsSent(cs, p) /\ ConnOf(p) = c /\ p.n <= b
  BY <1>1, <1>5 DEF IsSent, IsCommand, ConnOf
<1>7. \A i \in 1 .. Len(t) : IsSent(cs, t[i]) /\ ConnOf(t[i]) = c /\ t[i].n <= b
  <2>1. \A i \in 1 .. Len(s) : IsSent(cs, s[i]) /\ ConnOf(s[i]) = c /\ s[i].n <= b
    BY DEF LineOK
  <2> QED
    BY <1>4, <1>6, <2>1
<1>8. Before(cs, p, k)
  BY <1>1, <1>5 DEF Before, IsCommand
<1>9. \A i \in 1 .. Len(s) : Before(cs, s[i], k) /\ Before(cs, s[i], p)
  BY <1>1, <1>3 DEF LineOK, Before
<1>10. \A i, j \in 1 .. Len(t) : i < j => Before(cs, t[i], t[j])
  <2> SUFFICES ASSUME NEW i \in 1 .. Len(t), NEW j \in 1 .. Len(t), i < j
               PROVE  Before(cs, t[i], t[j])
    OBVIOUS
  <2>1. i \in 1 .. Len(s) /\ t[i] = s[i]
    BY <1>2, <1>4
  <2> QED
    BY <1>4, <1>9, <2>1 DEF LineOK
<1>11. \A i \in 1 .. Len(t), j \in 1 .. Len(l) : t[i].n < l[j].n
  BY <1>1, <1>3, <1>4 DEF LineOK
<1>12. \A i \in 1 .. Len(t) : Before(cs, t[i], k)
  BY <1>4, <1>8, <1>9
<1>13. LineOK(c, cs, b, t, k, l, u)
  BY <1>3, <1>7, <1>10, <1>11, <1>12 DEF LineOK
<1> QED
  BY <1>1, <1>13 DEF t, p

-----------------------------------------------------------------------------
(* The inductive invariant.                                                *)

Types ==
  /\ commands \in Seq(Cmds) /\ Len(commands) <= MaxCommands
  /\ taken \in 0 .. Len(commands) /\ routing \in {"take", "queue", "post"}
  /\ routing # "take" => taken > 0
  /\ conn \in [Conns -> {"none", "down", "up"}]
  /\ handlers \in [Conns -> {"owner", "listener"}] /\ accepts \in [Conns -> 0 .. MaxAccepts]
  /\ posts \in [Conns -> 0 .. MaxPosts]
  /\ owner \in [Conns -> {"starting", "idle", "loop", "try", "crashed"}]
  /\ tries \in [Conns -> 0 .. MaxTries - 1]
  /\ sendList \in [Conns -> Seq(Cmds)] /\ sent \in [Conns -> Seq(Cmds)]
  /\ cmd \in [Conns -> Cmds \cup {NoCommand}] /\ unsent \in [Conns -> Nat]

\* Every command on a list is numbered below the one still to be put on a list.
Bound == IF routing = "queue" THEN taken - 1 ELSE taken

\* The line of every connection is in order, a command is being sent while the owner thread
\* tries, and the owner thread has its socket as long as it runs the handlers.
ConnInv(c) ==
  /\ LineOK(c, commands, Bound, sent[c], cmd[c], sendList[c], unsent[c])
  /\ owner[c] = "try" <=> cmd[c] # NoCommand
  /\ owner[c] \in {"loop", "try"} /\ handlers[c] = "owner" => conn[c] = "up"

IInv ==
  /\ Types
  /\ \A i \in 1 .. Len(commands) : commands[i].n = i
  /\ \A c \in Conns : ConnInv(c)

LEMMA BoundNat == Types => Bound \in Nat /\ Bound <= Len(commands)
<1>1. Types => taken \in Nat /\ Len(commands) \in Nat /\ taken <= Len(commands)
  BY DEF Types
<1> QED
  BY <1>1 DEF Types, Bound

LEMMA InitIInv == Init => IInv
<1> SUFFICES ASSUME Init PROVE IInv
  OBVIOUS
<1>1. /\ commands = << >> /\ taken = 0 /\ routing = "take"
      /\ commands \in Seq(Cmds) /\ Len(commands) = 0
  BY EmptySeq DEF Init
<1>2. conn \in [Conns -> {"none", "down", "up"}] /\ handlers \in [Conns -> {"owner", "listener"}]
      /\ owner \in [Conns -> {"starting", "idle", "loop", "try", "crashed"}]
  BY DEF Init
<1>3. /\ accepts \in [Conns -> 0 .. MaxAccepts] /\ posts \in [Conns -> 0 .. MaxPosts]
      /\ tries \in [Conns -> 0 .. MaxTries - 1] /\ unsent \in [Conns -> Nat]
  BY CommandAssumption DEF Init
<1>4. /\ sendList \in [Conns -> Seq(Cmds)] /\ sent \in [Conns -> Seq(Cmds)]
      /\ cmd \in [Conns -> Cmds \cup {NoCommand}]
  BY EmptySeq DEF Init
<1>5. Types
  BY <1>1, <1>2, <1>3, <1>4 DEF Types
<1>6. ASSUME NEW c \in Conns PROVE ConnInv(c)
  <2>1. /\ sent[c] = << >> /\ sendList[c] = << >> /\ cmd[c] = NoCommand /\ unsent[c] = 0
        /\ owner[c] \in {"idle", "starting"} /\ owner[c] # "try"
    BY DEF Init
  <2>2. Bound = 0
    BY <1>1 DEF Bound
  <2>3. LineOK(c, commands, 0, << >>, NoCommand, << >>, 0)
    BY DEF LineOK
  <2> QED
    BY <2>1, <2>2, <2>3 DEF ConnInv
<1> QED
  BY <1>1, <1>5, <1>6 DEF IInv

-----------------------------------------------------------------------------
(* The steps.                                                              *)

\* What changes neither a list nor an owner thread's command.
LEMMA ListsKept ==
  ASSUME IInv, Types',
         UNCHANGED <<commands, Bound, sent, cmd, sendList, unsent, owner>>,
         \A c \in Conns : handlers'[c] = "owner" /\ owner[c] \in {"loop", "try"} =>
                            conn'[c] = "up"
  PROVE  IInv'
<1>1. ASSUME NEW c \in Conns PROVE ConnInv(c)'
  <2>1. ConnInv(c)
    BY DEF IInv
  <2> QED
    BY <2>1 DEF ConnInv
<1> QED
  BY <1>1 DEF IInv

LEMMA SendCommandIInv ==
  ASSUME IInv, SendCommand
  PROVE  IInv'
<1>1. PICK k \in Kinds :
        commands' = Append(commands, [n |-> Len(commands) + 1, id |-> k.id, board |-> k.board, size |-> k.size])
  BY DEF SendCommand
<1> DEFINE new == [n |-> Len(commands) + 1, id |-> k.id, board |-> k.board, size |-> k.size]
<1>2. /\ UNCHANGED <<taken, routing, conn, handlers, accepts, sendList, posts,
                     owner, cmd, tries, sent, unsent>>
      /\ Len(commands) < MaxCommands
  BY DEF SendCommand, router, socket, lists, sender
<1>3. Types /\ commands \in Seq(Cmds) /\ Len(commands) \in Nat /\ MaxCommands \in Nat
  BY CommandAssumption DEF IInv, Types
<1>4. new \in Cmds /\ new.n = Len(commands) + 1
  <2>1. k \in [id : Words, board : Boards, size : Words]
    BY CommandAssumption
  <2> QED
    BY <1>2, <1>3, <2>1 DEF Cmds
<1> HIDE DEF new
<1>5. /\ commands' \in Seq(Cmds) /\ Len(commands') = Len(commands) + 1
      /\ \A i \in 1 .. Len(commands) : commands'[i] = commands[i]
      /\ commands'[Len(commands) + 1] = new
  BY <1>1, <1>3, <1>4, AppendProperties DEF new
<1>6. Len(commands') <= MaxCommands /\ taken' \in 0 .. Len(commands')
  BY <1>2, <1>3, <1>5 DEF Types
<1>7. Types'
  BY <1>2, <1>3, <1>5, <1>6 DEF Types
<1>8. \A i \in 1 .. Len(commands') : commands'[i].n = i
  <2> SUFFICES ASSUME NEW i \in 1 .. Len(commands') PROVE commands'[i].n = i
    OBVIOUS
  <2>1. CASE i = Len(commands) + 1
    BY <1>4, <1>5, <2>1
  <2>2. CASE i \in 1 .. Len(commands)
    BY <1>5, <2>2 DEF IInv
  <2> QED
    BY <1>3, <1>5, <2>1, <2>2
<1>9. ASSUME NEW c \in Conns PROVE ConnInv(c)'
  <2>1. ConnInv(c) /\ Bound' = Bound /\ Bound \in Nat
    BY <1>2, <1>3, BoundNat DEF IInv, Bound
  <2>2. sent[c] \in Seq(Cmds) /\ sendList[c] \in Seq(Cmds)
    BY <1>3 DEF Types
  <2>3. LineOK(c, Append(commands, new), Bound, sent[c], cmd[c], sendList[c], unsent[c])
    BY <1>3, <1>4, <2>1, <2>2, MoreCommands DEF ConnInv
  <2>4. commands' = Append(commands, new)
    BY <1>1 DEF new
  <2> QED
    BY <1>2, <2>1, <2>3, <2>4 DEF ConnInv
<1> QED
  BY <1>7, <1>8, <1>9 DEF IInv

LEMMA RouterIInv ==
  ASSUME IInv, ProcessReceivedMessage
  PROVE  IInv'
<1>1. Types /\ Len(commands) \in Nat /\ taken \in Nat /\ commands \in Seq(Cmds)
  BY DEF IInv, Types
<1>2. UNCHANGED <<commands, conn, handlers, accepts, owner, cmd, tries, sent, unsent>>
  BY DEF ProcessReceivedMessage, Consume, Route, Queue, Post, pag, socket, sender
<1>3. CASE Consume \/ Route
  <2>1. /\ routing = "take" /\ taken < Len(commands) /\ taken' = taken + 1
        /\ routing' \in {"take", "queue"} /\ UNCHANGED <<sendList, posts>>
    BY <1>1, <1>3 DEF Consume, Route, lists, Types
  <2>2. Types'
    <3>1. taken' \in 0 .. Len(commands') /\ taken' > 0
      BY <1>1, <1>2, <2>1
    <3> QED
      BY <1>1, <1>2, <2>1, <3>1 DEF Types
  <2>3. Bound \in Nat /\ Bound' \in Nat /\ Bound <= Bound'
    BY <1>1, <2>1 DEF Bound
  <2>4. ASSUME NEW c \in Conns PROVE ConnInv(c)'
    <3>1. ConnInv(c)
      BY DEF IInv
    <3>2. /\ sent[c] \in Seq(Cmds) /\ sendList[c] \in Seq(Cmds)
          /\ cmd[c] \in Cmds \cup {NoCommand} /\ unsent[c] \in Nat
      BY <1>1 DEF Types
    <3>3. LineOK(c, commands, Bound', sent[c], cmd[c], sendList[c], unsent[c])
      BY <1>1, <2>3, <3>1, <3>2, HigherBound DEF ConnInv
    <3> QED
      BY <1>2, <2>1, <3>1, <3>3 DEF ConnInv
  <2> QED
    BY <1>2, <2>2, <2>4 DEF IInv
<1>4. CASE Queue
  <2> DEFINE d == ConnOf(Current)
  <2>1. /\ routing = "queue" /\ routing' = "post" /\ UNCHANGED <<taken, posts>>
        /\ \/ sendList' = [sendList EXCEPT ![d] = Append(@, Current)]
           \/ sendList' = sendList
    BY <1>4 DEF Queue
  <2>2. taken \in 1 .. Len(commands)
    BY <1>1, <2>1 DEF Types
  <2>3. Current \in Cmds /\ Current.n = taken /\ IsCommand(commands, Current)
    BY <1>1, <2>2 DEF Current, IInv, IsCommand
  <2>4. d \in Conns
    BY <2>3, CmdFields
  <2> HIDE DEF d
  <2>5. sendList' \in [Conns -> Seq(Cmds)]
    <3>1. sendList \in [Conns -> Seq(Cmds)] /\ sendList[d] \in Seq(Cmds)
      BY <1>1, <2>4 DEF Types
    <3>2. Append(sendList[d], Current) \in Seq(Cmds)
      BY <2>3, <3>1, AppendProperties
    <3> QED
      BY <2>1, <3>1, <3>2
  <2>6. Types'
    BY <1>1, <1>2, <2>1, <2>5 DEF Types
  <2>7. Bound \in Nat /\ Bound' = taken /\ Bound < taken /\ Bound <= taken
    BY <1>1, <2>1, <2>2 DEF Bound
  <2>8. ASSUME NEW c \in Conns PROVE ConnInv(c)'
    <3>1. ConnInv(c)
      BY DEF IInv
    <3>2. /\ sent[c] \in Seq(Cmds) /\ sendList[c] \in Seq(Cmds)
          /\ cmd[c] \in Cmds \cup {NoCommand} /\ unsent[c] \in Nat
      BY <1>1 DEF Types
    <3>3. sendList'[c] = sendList[c] \/ (c = d /\ sendList'[c] = Append(sendList[c], Current))
      BY ZenonT(40), <1>1, <2>1, <2>4 DEF Types
    <3>4. LineOK(c, commands, taken, sent[c], cmd[c], sendList[c], unsent[c])
      BY <1>1, <2>7, <3>1, <3>2, HigherBound DEF ConnInv
    <3>5. c = d => LineOK(c, commands, taken, sent[c], cmd[c], Append(sendList[c], Current), unsent[c])
      <4> SUFFICES ASSUME c = d
                   PROVE  LineOK(c, commands, taken, sent[c], cmd[c], Append(sendList[c], Current), unsent[c])
        OBVIOUS
      <4>1. ConnOf(Current) = c
        BY DEF d
      <4> QED
        BY <1>1, <2>3, <2>7, <3>1, <3>2, <4>1, Listed DEF ConnInv
    <3>6. LineOK(c, commands, Bound, sent[c], cmd[c], sendList[c], unsent[c])'
      BY <1>2, <2>7, <3>3, <3>4, <3>5
    <3> QED
      BY <1>2, <3>1, <3>6 DEF ConnInv
  <2> QED
    BY <1>2, <2>6, <2>8 DEF IInv
<1>5. CASE Post
  <2> DEFINE d == ConnOf(Current)
  <2>1. /\ routing = "post" /\ routing' = "take" /\ UNCHANGED <<taken, sendList>>
        /\ posts[d] < MaxPosts
        /\ posts' = [posts EXCEPT ![d] = IF owner[d] = "starting" THEN @ ELSE @ + 1]
    BY <1>5 DEF Post
  <2>2. posts' \in [Conns -> 0 .. MaxPosts]
    <3>1. posts[d] \in 0 .. MaxPosts => posts[d] + 1 \in 0 .. MaxPosts
      BY <2>1, CommandAssumption
    <3> QED
      BY <1>1, <2>1, <3>1 DEF Types
  <2>3. Types'
    BY <1>1, <1>2, <2>1, <2>2 DEF Types
  <2>4. Bound' = Bound
    BY <2>1 DEF Bound
  <2>5. \A c \in Conns : handlers'[c] = "owner" /\ owner[c] \in {"loop", "try"} => conn'[c] = "up"
    BY <1>2 DEF IInv, ConnInv
  <2> QED
    BY <1>2, <2>1, <2>3, <2>4, <2>5, ListsKept
<1> QED
  BY <1>3, <1>4, <1>5 DEF ProcessReceivedMessage

LEMMA SocketIInv ==
  ASSUME IInv, NEW c \in Conns, Accept(c) \/ OnClose(c)
  PROVE  IInv'
<1>1. Types /\ \A b \in Conns : ConnInv(b)
  BY DEF IInv
<1>2. UNCHANGED <<commands, taken, routing, sendList, posts, owner, cmd, tries, sent, unsent>>
  BY DEF Accept, OnClose, pag, router, lists, sender
<1>3. Bound' = Bound
  BY <1>2 DEF Bound
<1>4. CASE Accept(c)
  <2>1. /\ accepts[c] < MaxAccepts /\ conn[c] # "up"
        /\ accepts' = [accepts EXCEPT ![c] = @ + 1]
        /\ conn' = [conn EXCEPT ![c] = "up"]
        /\ handlers' = [handlers EXCEPT ![c] = IF conn[c] = "none" THEN "owner" ELSE "listener"]
    BY <1>4 DEF Accept
  <2>2. accepts' \in [Conns -> 0 .. MaxAccepts]
    <3>1. accepts[c] \in 0 .. MaxAccepts /\ accepts[c] + 1 \in 0 .. MaxAccepts
      BY <1>1, <2>1, CommandAssumption DEF Types
    <3> QED
      BY <1>1, <2>1, <3>1 DEF Types
  <2>3. /\ conn' \in [Conns -> {"none", "down", "up"}]
        /\ handlers' \in [Conns -> {"owner", "listener"}]
    BY <1>1, <2>1 DEF Types
  <2>4. Types'
    BY <1>1, <1>2, <2>2, <2>3 DEF Types
  <2>5. \A b \in Conns : handlers'[b] = "owner" /\ owner[b] \in {"loop", "try"} => conn'[b] = "up"
    BY <1>1, <2>1 DEF Types, ConnInv
  <2> QED
    BY <1>2, <1>3, <2>4, <2>5, ListsKept
<1>5. CASE OnClose(c)
  <2>1. /\ handlers[c] = "owner" => owner[c] = "idle"
        /\ conn' = [conn EXCEPT ![c] = "down"]
        /\ UNCHANGED <<handlers, accepts>>
    BY <1>5 DEF OnClose
  <2>2. conn' \in [Conns -> {"none", "down", "up"}]
    BY <1>1, <2>1 DEF Types
  <2>3. Types'
    BY <1>1, <1>2, <2>1, <2>2 DEF Types
  <2>4. \A b \in Conns : handlers'[b] = "owner" /\ owner[b] \in {"loop", "try"} => conn'[b] = "up"
    BY <1>1, <2>1 DEF Types, ConnInv
  <2> QED
    BY <1>2, <1>3, <2>1, <2>3, <2>4, ListsKept
<1> QED
  BY <1>4, <1>5

LEMMA TickIInv ==
  ASSUME IInv, Tick
  PROVE  IInv'
<1>1. Types /\ \A b \in Conns : ConnInv(b)
  BY DEF IInv
<1>2. UNCHANGED <<commands, taken, routing, conn, handlers, accepts, sendList,
                  owner, cmd, tries, sent, unsent>>
  BY DEF Tick, pag, router, socket, sender
<1>3. posts' \in [Conns -> 0 .. MaxPosts]
  <2>1. posts' = [c \in Conns |->
                   IF c \in Woken /\ owner[c] # "starting" THEN posts[c] + 1 ELSE posts[c]]
        /\ \A c \in Woken : posts[c] < MaxPosts
    BY DEF Tick
  <2>2. ASSUME NEW c \in Conns
        PROVE  (IF c \in Woken /\ owner[c] # "starting" THEN posts[c] + 1 ELSE posts[c]) \in 0 .. MaxPosts
    <3>1. posts[c] \in 0 .. MaxPosts /\ MaxPosts \in Nat
      BY <1>1, CommandAssumption DEF Types
    <3> QED
      BY <2>1, <3>1
  <2> QED
    BY <2>1, <2>2
<1>4. Types'
  BY <1>1, <1>2, <1>3 DEF Types
<1>5. Bound' = Bound
  BY <1>2 DEF Bound
<1>6. \A c \in Conns : handlers'[c] = "owner" /\ owner[c] \in {"loop", "try"} => conn'[c] = "up"
  BY <1>1, <1>2 DEF ConnInv
<1> QED
  BY <1>2, <1>4, <1>5, <1>6, ListsKept

\* A step of the owner thread of connection c.
LEMMA OneConnection ==
  ASSUME IInv, Types', NEW c \in Conns,
         UNCHANGED <<commands, taken, routing, conn, handlers>>,
         \A b \in Conns \ {c} : /\ sent'[b] = sent[b] /\ cmd'[b] = cmd[b]
                                /\ sendList'[b] = sendList[b] /\ unsent'[b] = unsent[b]
                                /\ owner'[b] = owner[b],
         LineOK(c, commands, Bound, sent'[c], cmd'[c], sendList'[c], unsent'[c]),
         owner'[c] = "try" <=> cmd'[c] # NoCommand,
         owner'[c] \in {"loop", "try"} /\ handlers[c] = "owner" => conn[c] = "up"
  PROVE  IInv'
<1>1. Bound' = Bound
  BY DEF Bound
<1>2. ConnInv(c)'
  BY <1>1 DEF ConnInv
<1>3. ASSUME NEW b \in Conns \ {c} PROVE ConnInv(b)'
  <2>1. ConnInv(b)
    BY DEF IInv
  <2> QED
    BY <1>1, <2>1 DEF ConnInv
<1>4. \A i \in 1 .. Len(commands') : commands'[i].n = i
  BY DEF IInv
<1> QED
  BY <1>2, <1>3, <1>4 DEF IInv

\* The owner thread takes a message, a command, or finds nothing to do.
LEMMA TakeIInv ==
  ASSUME IInv, NEW c \in Conns,
         StartOwner(c) \/ TakeMessage(c) \/ TakeCommand(c) \/ NoSocketToLock(c) \/ ListEmpty(c)
  PROVE  IInv'
<1>1. Types /\ ConnInv(c) /\ commands \in Seq(Cmds) /\ Bound \in Nat
  <2>1. Types /\ ConnInv(c)
    BY DEF IInv
  <2> QED
    BY <2>1, BoundNat DEF Types
<1>2. UNCHANGED <<commands, taken, routing, conn, handlers, accepts, sent, unsent>>
  BY DEF StartOwner, TakeMessage, TakeCommand, NoSocketToLock, ListEmpty,
         pag, router, socket, lists
<1>3. /\ sent[c] \in Seq(Cmds) /\ sendList[c] \in Seq(Cmds) /\ unsent[c] \in Nat
      /\ LineOK(c, commands, Bound, sent[c], cmd[c], sendList[c], unsent[c])
  BY <1>1 DEF Types, ConnInv
<1>4. CASE StartOwner(c) \/ TakeMessage(c) \/ NoSocketToLock(c) \/ ListEmpty(c)
  <2>1. PICK o \in {"idle", "loop", "crashed"} :
          owner' = [owner EXCEPT ![c] = o] /\ (o = "loop" => conn[c] = "up")
    BY <1>4 DEF StartOwner, TakeMessage, NoSocketToLock, ListEmpty
  <2>2. UNCHANGED <<sendList, cmd, tries>> /\ owner[c] # "try"
    BY <1>4 DEF StartOwner, TakeMessage, NoSocketToLock, ListEmpty, lists
  <2>3. posts' \in [Conns -> 0 .. MaxPosts]
    <3>1. CASE TakeMessage(c)
      <4>1. posts[c] > 0 /\ posts' = [posts EXCEPT ![c] = @ - 1]
        BY <3>1 DEF TakeMessage
      <4>2. posts[c] \in 0 .. MaxPosts /\ posts[c] - 1 \in 0 .. MaxPosts
        BY <1>1, <4>1, CommandAssumption DEF Types
      <4> QED
        BY <1>1, <4>1, <4>2 DEF Types
    <3>2. CASE posts' = posts
      BY <1>1, <3>2 DEF Types
    <3> QED
      BY <1>4, <3>1, <3>2 DEF StartOwner, NoSocketToLock, ListEmpty, lists
  <2>4. Types'
    BY <1>1, <1>2, <2>1, <2>2, <2>3 DEF Types
  <2>5. owner'[c] = o /\ \A b \in Conns \ {c} : owner'[b] = owner[b]
    BY <1>1, <2>1 DEF Types
  <2>6. cmd[c] = NoCommand
    BY <1>1, <2>2 DEF ConnInv
  <2> QED
    BY <1>2, <1>3, <2>1, <2>2, <2>4, <2>5, <2>6, OneConnection
<1>5. CASE TakeCommand(c)
  <2> DEFINE l == sendList[c]
  <2>1. /\ owner[c] = "loop" /\ l # << >> /\ conn[c] = "up"
        /\ sendList' = [sendList EXCEPT ![c] = Tail(l)] /\ UNCHANGED posts
    BY <1>5 DEF TakeCommand
  <2>2. cmd[c] = NoCommand
    BY <1>1, <2>1 DEF ConnInv
  <2>3. /\ Head(l) \in Cmds /\ Tail(l) \in Seq(Cmds)
        /\ LineOK(c, commands, Bound, sent[c], Head(l), Tail(l), unsent[c])
        /\ LineOK(c, commands, Bound, sent[c], NoCommand, Tail(l), unsent[c])
    BY <1>1, <1>3, <2>1, <2>2, TakenOff, HeadTailProperties
  <2> HIDE DEF l
  <2>4. /\ sendList' \in [Conns -> Seq(Cmds)] /\ sendList'[c] = Tail(l)
        /\ \A b \in Conns \ {c} : sendList'[b] = sendList[b]
    BY <1>1, <2>1, <2>3 DEF Types
  <2>5. CASE Sendable(Head(l))
    <3>1. /\ cmd' = [cmd EXCEPT ![c] = Head(l)]
          /\ tries' = [tries EXCEPT ![c] = 0]
          /\ owner' = [owner EXCEPT ![c] = "try"]
      BY <1>5, <2>5 DEF TakeCommand, l
    <3>2. /\ cmd' \in [Conns -> Cmds \cup {NoCommand}] /\ cmd'[c] = Head(l)
          /\ owner' \in [Conns -> {"starting", "idle", "loop", "try", "crashed"}] /\ owner'[c] = "try"
          /\ \A b \in Conns \ {c} : cmd'[b] = cmd[b] /\ owner'[b] = owner[b]
      BY <1>1, <2>3, <3>1 DEF Types
    <3>3. tries' \in [Conns -> 0 .. MaxTries - 1]
      BY <1>1, <3>1, CommandAssumption DEF Types
    <3>4. Types'
      BY <1>1, <1>2, <2>1, <2>4, <3>2, <3>3 DEF Types
    <3>5. Head(l) # NoCommand
      BY <2>3, CmdFields
    <3> QED
      BY <1>2, <2>1, <2>3, <2>4, <3>2, <3>4, <3>5, OneConnection
  <2>6. CASE ~Sendable(Head(l))
    <3>1. UNCHANGED <<cmd, tries, owner>>
      BY <1>5, <2>6 DEF TakeCommand, l
    <3>2. Types'
      BY <1>1, <1>2, <2>1, <2>4, <3>1 DEF Types
    <3> QED
      BY <1>2, <2>1, <2>2, <2>3, <2>4, <3>1, <3>2, OneConnection
  <2> QED
    BY <2>5, <2>6
<1> QED
  BY <1>4, <1>5

\* The owner thread tries to send a command: it is sent, in whole or in part, it fails,
\* or the socket is gone.
LEMMA TryIInv ==
  ASSUME IInv, NEW c \in Conns,
         Send(c) \/ WouldBlock(c) \/ SendError(c) \/ ShortSend(c) \/ SocketGone(c)
  PROVE  IInv'
<1> DEFINE s == sent[c]
           k == cmd[c]
           l == sendList[c]
           u == unsent[c]
           OK(t, m, v) == LineOK(c, commands, Bound, t, m, l, v)
<1>1. Types /\ ConnInv(c) /\ commands \in Seq(Cmds) /\ Bound \in Nat
  <2>1. Types /\ ConnInv(c)
    BY DEF IInv
  <2> QED
    BY <2>1, BoundNat DEF Types
<1>2. UNCHANGED <<commands, taken, routing, conn, handlers, accepts, sendList, posts>>
      /\ owner[c] = "try"
  BY DEF Send, WouldBlock, SendError, ShortSend, SocketGone, pag, router, socket, lists
<1>3. /\ s \in Seq(Cmds) /\ l \in Seq(Cmds) /\ u \in Nat /\ k \in Cmds /\ OK(s, k, u)
      /\ handlers[c] = "owner" => conn[c] = "up"
  BY <1>1, <1>2 DEF Types, ConnInv
<1>4. tries[c] \in 0 .. MaxTries - 1 /\ 1 \in 0 .. MaxTries - 1 /\ 0 \in 0 .. MaxTries - 1
      /\ (tries[c] + 1 < MaxTries => tries[c] + 1 \in 0 .. MaxTries - 1)
  BY <1>1, CommandAssumption DEF Types
<1> HIDE DEF s, k, l, u, OK
\* The values after the step.
<1>5. ASSUME NEW t \in Seq(Cmds), NEW v \in Nat, NEW m \in Cmds \cup {NoCommand},
             NEW o \in {"loop", "try"}, NEW n \in 0 .. MaxTries - 1,
             OK(t, m, v), o = "try" <=> m # NoCommand,
             sent' = [sent EXCEPT ![c] = t], cmd' = [cmd EXCEPT ![c] = m],
             unsent' = [unsent EXCEPT ![c] = v], owner' = [owner EXCEPT ![c] = o],
             tries' = [tries EXCEPT ![c] = n]
      PROVE  IInv'
  <2>1. /\ sent' \in [Conns -> Seq(Cmds)] /\ sent'[c] = t
        /\ cmd' \in [Conns -> Cmds \cup {NoCommand}] /\ cmd'[c] = m
        /\ unsent' \in [Conns -> Nat] /\ unsent'[c] = v
    BY <1>1, <1>5 DEF Types
  <2>2. /\ owner' \in [Conns -> {"starting", "idle", "loop", "try", "crashed"}] /\ owner'[c] = o
        /\ tries' \in [Conns -> 0 .. MaxTries - 1]
    BY <1>1, <1>5 DEF Types
  <2>3. \A b \in Conns \ {c} : /\ sent'[b] = sent[b] /\ cmd'[b] = cmd[b] /\ unsent'[b] = unsent[b]
                                /\ sendList'[b] = sendList[b] /\ owner'[b] = owner[b]
    BY <1>1, <1>2, <1>5 DEF Types
  <2>4. Types'
    BY <1>1, <1>2, <2>1, <2>2 DEF Types
  <2>5. LineOK(c, commands, Bound, sent'[c], cmd'[c], sendList'[c], unsent'[c])
    BY <1>2, <1>5, <2>1 DEF OK, l
  <2> QED
    BY <1>2, <1>3, <1>5, <2>1, <2>2, <2>3, <2>4, <2>5, OneConnection
<1>6. sent = [sent EXCEPT ![c] = s] /\ cmd = [cmd EXCEPT ![c] = k]
      /\ unsent = [unsent EXCEPT ![c] = u] /\ owner = [owner EXCEPT ![c] = "try"]
  BY <1>1, <1>2 DEF Types, s, k, u
<1>7. k # NoCommand
  BY <1>3, CmdFields
<1>8. OK(s, NoCommand, u) /\ OK(s, NoCommand, u + 1) /\ u + 1 \in Nat
  BY <1>1, <1>3, GivenUp DEF OK
<1>9. Done(c) <=> /\ owner' = [owner EXCEPT ![c] = "loop"]
                  /\ cmd' = [cmd EXCEPT ![c] = NoCommand]
                  /\ tries' = [tries EXCEPT ![c] = 0]
  BY DEF Done
<1>10. CASE Send(c)
  <2> DEFINE t == Append(s, k)
  <2>1. sent' = [sent EXCEPT ![c] = t] /\ Done(c) /\ unsent' = unsent
    BY <1>10 DEF Send, s, k
  <2>2. OK(t, NoCommand, u) /\ t \in Seq(Cmds)
    BY <1>1, <1>3, WholeSent, AppendProperties DEF OK
  <2> HIDE DEF t
  <2> QED
    BY <1>3, <1>4, <1>5, <1>6, <1>9, <2>1, <2>2
<1>11. CASE (SendError(c) \/ SocketGone(c))
  <2>1. Done(c) /\ sent' = sent /\ unsent' = unsent
    BY <1>11 DEF SendError, SocketGone
  <2> QED
    BY <1>3, <1>4, <1>5, <1>6, <1>8, <1>9, <2>1
\* Another try, or the end of the loop, after t was sent.
<1>12. ASSUME NEW t \in Seq(Cmds), sent' = [sent EXCEPT ![c] = t], TryAgain(c),
              OK(t, k, u), OK(t, NoCommand, u + 1)
       PROVE  IInv'
  <2>1. CASE tries[c] + 1 < MaxTries
    <3>1. tries' = [tries EXCEPT ![c] = tries[c] + 1] /\ UNCHANGED <<owner, cmd, unsent>>
      BY <1>12, <2>1 DEF TryAgain
    <3> QED
      BY <1>3, <1>4, <1>5, <1>6, <1>7, <1>12, <2>1, <3>1
  <2>2. CASE ~(tries[c] + 1 < MaxTries)
    <3>1. Done(c) /\ unsent' = [unsent EXCEPT ![c] = u + 1]
      BY <1>12, <2>2 DEF TryAgain, u
    <3> QED
      BY <1>4, <1>5, <1>8, <1>9, <1>12, <3>1
  <2> QED
    BY <2>1, <2>2
<1>13. CASE WouldBlock(c)
  <2>1. sent' = [sent EXCEPT ![c] = s] /\ TryAgain(c)
    BY <1>6, <1>13 DEF WouldBlock
  <2> QED
    BY <1>3, <1>8, <1>12, <2>1
<1>14. CASE ShortSend(c)
  <2> DEFINE p == [k EXCEPT !.size = Piece]
             t == Append(s, p)
  <2>1. Piece < k.size /\ sent' = [sent EXCEPT ![c] = t]
    BY <1>14 DEF ShortSend, s, k
  <2>2. p \in Cmds /\ OK(t, k, u)
    BY <1>1, <1>3, <2>1, PieceSent DEF OK
  <2>3. t \in Seq(Cmds)
    BY <1>3, <2>2, AppendProperties
  <2> HIDE DEF p, t
  <2>4. OK(t, NoCommand, u) /\ OK(t, NoCommand, u + 1)
    BY <1>1, <1>3, <2>2, <2>3, GivenUp DEF OK
  <2>5. CASE TryAgain(c)
    BY <1>12, <2>1, <2>2, <2>3, <2>4, <2>5
  <2>6. CASE Done(c) /\ UNCHANGED unsent
    BY <1>3, <1>4, <1>5, <1>6, <1>9, <2>1, <2>3, <2>4, <2>6
  <2>7. CASE tries' = [tries EXCEPT ![c] = 1] /\ UNCHANGED <<owner, cmd, unsent>>
    BY <1>3, <1>4, <1>5, <1>6, <1>7, <2>1, <2>2, <2>3, <2>7
  <2> QED
    BY <1>14, <2>5, <2>6, <2>7 DEF ShortSend
<1> QED
  BY <1>10, <1>11, <1>13, <1>14

LEMMA StepIInv == IInv /\ [Next]_vars => IInv'
<1> SUFFICES ASSUME IInv, [Next]_vars PROVE IInv'
  OBVIOUS
<1>1. CASE Next
  BY <1>1, SendCommandIInv, RouterIInv, TickIInv, SocketIInv, TakeIInv, TryIInv
     DEF Next, TransmitPackets
<1>2. CASE UNCHANGED vars
  <2>1. UNCHANGED <<commands, taken, routing, conn, handlers, accepts, sendList, posts,
                    owner, cmd, tries, sent, unsent>>
    BY <1>2 DEF vars, pag, router, socket, lists, sender
  <2>2. Types' /\ Bound' = Bound
    BY <2>1 DEF IInv, Types, Bound
  <2>3. \A c \in Conns : handlers'[c] = "owner" /\ owner[c] \in {"loop", "try"} => conn'[c] = "up"
    BY <2>1 DEF IInv, ConnInv
  <2> QED
    BY <2>1, <2>2, <2>3, ListsKept
<1> QED
  BY <1>1, <1>2

-----------------------------------------------------------------------------
(* The theorems.                                                           *)

\* The way of the commands in every state.
THEOREM CommandInvariant == Spec => []IInv
BY InitIInv, StepIInv, PTL DEF Spec

LEMMA CommandTypes == IInv => TypeOK
<1> SUFFICES ASSUME IInv PROVE TypeOK
  OBVIOUS
<1>1. /\ Types /\ commands \in Seq(Cmds) /\ Len(commands) \in Nat /\ Bound \in Nat
      /\ Bound <= Len(commands) /\ Len(commands) <= MaxCommands /\ MaxCommands \in Nat
      /\ DOMAIN commands = 1 .. Len(commands)
  <2>1. Types
    BY DEF IInv
  <2> QED
    BY <2>1, BoundNat, CommandAssumption DEF Types
<1>2. \A k : IsCommand(commands, k) => k \in Range(commands)
  BY <1>1 DEF IsCommand, Range
<1>3. ASSUME NEW c \in Conns
      PROVE  /\ sendList[c] \in Seq(Range(commands))
             /\ \A i \in DOMAIN sent[c] :
                  sent[c][i] \in Range(commands) \/ [commands[sent[c][i].n] EXCEPT !.size = Piece] = sent[c][i]
             /\ cmd[c] \in Range(commands) \cup {NoCommand}
             /\ owner[c] = "try" <=> cmd[c] # NoCommand
             /\ unsent[c] \in 0 .. MaxCommands
  <2>1. ConnInv(c)
    BY DEF IInv
  <2>2. LineOK(c, commands, Bound, sent[c], cmd[c], sendList[c], unsent[c])
        /\ (owner[c] = "try" <=> cmd[c] # NoCommand)
    BY <2>1 DEF ConnInv
  <2>3. sent[c] \in Seq(Cmds) /\ sendList[c] \in Seq(Cmds) /\ unsent[c] \in Nat
        /\ cmd[c] \in Cmds \cup {NoCommand}
    BY <1>1 DEF Types
  <2>4. sendList[c] \in Seq(Range(commands))
    <3>1. \A j \in 1 .. Len(sendList[c]) : sendList[c][j] \in Range(commands)
      BY <1>2, <2>2 DEF LineOK
    <3>2. sendList[c] \in [1 .. Len(sendList[c]) -> Range(commands)] /\ Len(sendList[c]) \in Nat
      BY <2>3, <3>1
    <3> QED
      BY <3>2, SeqDef
  <2>5. ASSUME NEW i \in DOMAIN sent[c]
        PROVE  sent[c][i] \in Range(commands) \/ [commands[sent[c][i].n] EXCEPT !.size = Piece] = sent[c][i]
    <3> DEFINE k == sent[c][i]
               full == commands[k.n]
    <3>1. k \in Cmds /\ IsSent(commands, k)
      BY <2>2, <2>3, <2>5 DEF LineOK
    <3>2. k.n \in 1 .. Len(commands) /\ full \in Cmds /\ full.n = k.n
      BY <1>1, <3>1 DEF IsSent, IInv
    <3>3. CASE k = full
      BY <1>2, <3>2, <3>3 DEF IsCommand
    <3>4. CASE k.id = full.id /\ k.board = full.board /\ k.size = Piece
      <4> HIDE DEF k, full
      <4>1. k = [n |-> k.n, id |-> k.id, board |-> k.board, size |-> k.size]
        BY <3>1 DEF Cmds
      <4>2. [full EXCEPT !.size = Piece]
              = [n |-> full.n, id |-> full.id, board |-> full.board, size |-> Piece]
        BY <3>2 DEF Cmds
      <4>3. [full EXCEPT !.size = Piece] = k
        BY <3>2, <3>4, <4>1, <4>2
      <4> QED
        BY <4>3 DEF k, full
    <3> QED
      BY <3>1, <3>3, <3>4 DEF IsSent
  <2>6. cmd[c] \in Range(commands) \cup {NoCommand}
    BY <1>2, <2>2 DEF LineOK
  <2>7. unsent[c] \in 0 .. MaxCommands
    BY <1>1, <2>2, <2>3 DEF LineOK
  <2> QED
    BY <2>2, <2>4, <2>5, <2>6, <2>7
<1> QED
  BY <1>1, <1>3 DEF TypeOK, Types, Cmds

\* The lists hold only commands of the PAG, the count of unsent ones stays in its bounds, and
\* the owner thread finds its socket as long as it runs the handlers itself.
THEOREM CommandOwnerHasSocket == Spec => []Inv
<1>1. IInv => SocketWhileSending
  BY DEF IInv, ConnInv, SocketWhileSending
<1> QED
  BY <1>1, CommandTypes, CommandInvariant, PTL DEF Inv

\* Every board gets commands that are for it, none twice and in the order in which the PAG
\* sent them, whatever the boards, the connections and the sends do.
THEOREM CommandsInOrder == Spec => []DeliveredInOrder
<1>1. ASSUME IInv, NEW c \in Conns, NEW i \in DOMAIN Line(c)
      PROVE  /\ ConnOf(Line(c)[i]) = c
             /\ i > 1 =>
                  \/ Line(c)[i - 1].n < Line(c)[i].n
                  \/ Line(c)[i - 1].n = Line(c)[i].n /\ IsPiece(Line(c)[i - 1])
  <2> DEFINE s == sent[c]
             k == cmd[c]
             l == sendList[c]
             m == IF k = NoCommand THEN << >> ELSE <<k>>
             sm == s \o m
             line == sm \o l
  <2>1. Types /\ ConnInv(c)
    BY <1>1 DEF IInv
  <2>2. LineOK(c, commands, Bound, s, k, l, unsent[c])
    BY <2>1 DEF ConnInv
  <2>3. s \in Seq(Cmds) /\ l \in Seq(Cmds) /\ k \in Cmds \cup {NoCommand}
        /\ Len(s) \in Nat /\ Len(l) \in Nat
    BY <2>1 DEF Types
  <2>4. m \in Seq(Cmds) /\ Len(m) = (IF k = NoCommand THEN 0 ELSE 1)
        /\ (k # NoCommand => m[1] = k)
    BY <2>3
  <2>5. Line(c) = line
    BY DEF Line
  <2> HIDE DEF s, k, l, m
  <2>6. /\ sm \in Seq(Cmds) /\ Len(sm) = Len(s) + Len(m)
        /\ \A j \in 1 .. Len(s) + Len(m) : sm[j] = IF j <= Len(s) THEN s[j] ELSE m[j - Len(s)]
    BY ZenonT(40), <2>3, <2>4, ConcatProperties
  <2> HIDE DEF sm
  <2>7. /\ line \in Seq(Cmds) /\ Len(line) = Len(sm) + Len(l)
        /\ \A j \in 1 .. Len(sm) + Len(l) : line[j] = IF j <= Len(sm) THEN sm[j] ELSE l[j - Len(sm)]
    <3>1. sm \in Seq(Cmds) /\ l \in Seq(Cmds)
      BY <2>3, <2>6
    <3> QED
      BY <3>1, ConcatProperties
  <2> HIDE DEF line
  \* An element of the line is one of what was sent, the command, or one of the list.
  <2>8. ASSUME NEW j \in 1 .. Len(line)
        PROVE  \/ j \in 1 .. Len(s) /\ line[j] = s[j]
               \/ k # NoCommand /\ j = Len(s) + 1 /\ Len(m) = 1 /\ line[j] = k
               \/ j - Len(s) - Len(m) \in 1 .. Len(l) /\ line[j] = l[j - Len(s) - Len(m)]
    <3>1. Len(m) \in {0, 1} /\ (k = NoCommand <=> Len(m) = 0)
      BY <2>4
    <3>2. CASE j <= Len(s)
      BY <2>3, <2>6, <2>7, <2>8, <3>1, <3>2
    <3>3. CASE j > Len(s) /\ j <= Len(sm)
      <4>1. k # NoCommand /\ j = Len(s) + 1 /\ Len(m) = 1 /\ j - Len(s) = 1
        BY SMTT(20), <2>3, <2>6, <2>8, <3>1, <3>3
      <4>2. line[j] = sm[j] /\ sm[j] = m[j - Len(s)]
        BY <2>3, <2>6, <2>7, <2>8, <3>1, <3>3
      <4> QED
        BY <2>4, <4>1, <4>2
    <3>4. CASE j > Len(sm)
      BY <2>3, <2>6, <2>7, <2>8, <3>1, <3>4
    <3> QED
      BY <2>3, <2>6, <2>8, <3>1, <3>2, <3>3, <3>4
  <2>9. i \in 1 .. Len(line)
    BY <1>1, <2>5, <2>7
  <2>10. ConnOf(line[i]) = c
    BY <2>2, <2>8, <2>9 DEF LineOK
  <2>11. ASSUME i > 1 PROVE Before(commands, line[i - 1], line[i])
    <3>1. i - 1 \in 1 .. Len(line) /\ i - 1 < i
      BY <2>7, <2>9, <2>11
    <3>2. Len(m) \in {0, 1}
      BY <2>4
    <3>3. CASE i \in 1 .. Len(s) /\ line[i] = s[i]
      <4>1. i - 1 \in 1 .. Len(s) /\ line[i - 1] = s[i - 1]
        BY <2>3, <2>8, <3>1, <3>2, <3>3
      <4> QED
        BY <2>2, <3>1, <3>3, <4>1 DEF LineOK
    <3>4. CASE k # NoCommand /\ i = Len(s) + 1 /\ Len(m) = 1 /\ line[i] = k
      <4>1. i - 1 \in 1 .. Len(s) /\ line[i - 1] = s[i - 1]
        BY <2>3, <2>8, <3>1, <3>4
      <4> QED
        BY <2>2, <3>4, <4>1 DEF LineOK
    <3>5. CASE i - Len(s) - Len(m) \in 1 .. Len(l) /\ line[i] = l[i - Len(s) - Len(m)]
      <4> DEFINE n == i - Len(s) - Len(m)
      <4>1. CASE i - 1 \in 1 .. Len(s) /\ line[i - 1] = s[i - 1]
        BY <2>2, <3>5, <4>1 DEF LineOK, Before
      <4>2. CASE k # NoCommand /\ line[i - 1] = k
        BY <2>2, <3>5, <4>2 DEF LineOK, Before
      <4>3. CASE i - 1 - Len(s) - Len(m) \in 1 .. Len(l) /\ line[i - 1] = l[i - 1 - Len(s) - Len(m)]
        <5>1. i - 1 - Len(s) - Len(m) = n - 1 /\ n - 1 < n
          BY <2>3, <2>9, <3>2
        <5>2. l[n - 1].n < l[n].n
          BY <2>2, <3>5, <4>3, <5>1 DEF LineOK
        <5> QED
          BY <3>5, <4>3, <5>1, <5>2 DEF Before
      <4> QED
        BY <2>8, <3>1, <4>1, <4>2, <4>3
    <3> QED
      BY <2>8, <2>9, <3>3, <3>4, <3>5
  <2> QED
    BY <2>5, <2>10, <2>11 DEF Before, IsPiece
<1>2. IInv => DeliveredInOrder
  BY <1>1 DEF DeliveredInOrder
<1> QED
  BY <1>2, CommandInvariant, PTL
=============================================================================
