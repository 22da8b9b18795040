--------------------------- MODULE PapMap_proofs ---------------------------
(***************************************************************************)
(* Proofs about the connections of the PAPs, for every number of PAPs, of  *)
(* addresses, of entries and of connections.                               *)
(***************************************************************************)
EXTENDS PapMap, FiniteSetTheorems, SequenceTheorems, WellFoundedInduction, TLAPS

USE MapAssumption

-----------------------------------------------------------------------------
(* The inductive invariant.                                                *)

Entries == [ip : Addresses \cup {0}, pSocket : Conns \cup {0}, started : BOOLEAN,
            bConnected : BOOLEAN, list : SUBSET Paps]

Phases == {"none", "pending", "posted", "attached", "lost", "closed"}

Types ==
  /\ steady \in BOOLEAN /\ lease \in [Paps -> Addresses]
  /\ made \in 0 .. MaxConns /\ conn \in [1 .. made -> [pap : Paps, ip : Addresses]]
  /\ left \subseteq 1 .. made
  /\ phase \in [Conns -> Phases]
  /\ owner \in [Conns -> Slots \cup {NoSlot}]
  /\ slot \in [Slots -> Entries]
  /\ alive \subseteq Conns /\ index \in [Conns -> Slots \cup {NoSlot}]
  /\ handle \in [Conns -> Conns \cup {0}] /\ object \in [Conns -> Conns \cup {0}]
  /\ bActualClientConnection \in [Paps -> Slots \cup {NoSlot}]
  /\ sending \subseteq [pap : Paps, slot : Slots] /\ \A m, n \in sending : m = n
  /\ astray \in BOOLEAN
  /\ crashed \in {"no", "owner", "gui"}

\* Connections are accepted in the order in which they are made, and handed to an entry then.
PhaseInv ==
  /\ \A c \in Conns : phase[c] # "none" => c <= made
  /\ \A c \in Conns : phase[c] \in {"none", "pending"} => owner[c] = NoSlot
  /\ \A c \in Conns : phase[c] \in {"posted", "attached", "lost"} => owner[c] # NoSlot
  /\ \A c, d \in Conns : c < d /\ phase[c] = "pending" => phase[d] \in {"none", "pending"}

\* Entries are given out in order, one to an address.
EntryInv ==
  /\ \A s, t \in Slots : t < s /\ slot[s].ip # 0 => slot[t].ip # 0
  /\ \A s, t \in Slots : slot[s].ip # 0 /\ slot[s].ip = slot[t].ip => s = t

\* What an entry, a socket and the handle map have belongs to the address of the entry.
AddressInv ==
  /\ \A c \in Conns : owner[c] # NoSlot => c <= made /\ slot[owner[c]].ip = conn[c].ip
  /\ \A s \in Slots : slot[s].pSocket # 0 => owner[slot[s].pSocket] = s
  /\ \A o \in Conns : handle[o] # 0 => owner[o] # NoSlot /\ owner[handle[o]] = owner[o]
  /\ \A c \in Conns : object[c] # 0 => owner[c] # NoSlot /\ owner[object[c]] = owner[c]

\* While addresses stay what a PAP is sent waits in the entry of its address.
MapInv ==
  /\ lease = FirstLease
  /\ \A c \in 1 .. made : conn[c].ip = FirstLease[conn[c].pap]
  /\ \A p \in Paps : LET s == bActualClientConnection[p]
                     IN  s # NoSlot => slot[s].ip = FirstLease[p]
  /\ \A m \in sending : slot[m.slot].ip = FirstLease[m.pap]
  /\ \A s \in Slots : \A p \in slot[s].list : slot[s].ip = FirstLease[p]
  /\ ~astray

\* No PAP has closed twice.
FirstCloses == \A c, d \in left : conn[c].pap = conn[d].pap => c = d

\* Another connection was handed to the entry of c before it.
Second(c) == \E b \in 1 .. c - 1 : owner[b] = owner[c]

\* A PAP that connects again has closed, or was refused.
AgainInv ==
  /\ \A c, d \in 1 .. made : c < d /\ conn[c].pap = conn[d].pap =>
                                c \in left \/ (phase[c] = "closed" /\ owner[c] = NoSlot)
  /\ \A c \in Conns : phase[c] = "closed" /\ owner[c] # NoSlot => c \in left

\* One connection of an entry follows the other.
TurnInv ==
  /\ \A c, d \in Conns : c < d /\ owner[c] = owner[d] /\ owner[c] # NoSlot
                           /\ phase[d] \in {"attached", "closed"} => phase[c] = "closed"
  /\ \A s \in Slots : slot[s].ip # 0 => \E c \in Conns : owner[c] = s
  /\ \A c \in Conns : phase[c] = "posted" /\ slot[owner[c]].started => Second(c)
  /\ \A c \in Conns : phase[c] \in {"posted", "attached"} => index[c] = owner[c] \/ Second(c)

\* The entry of a connection that is attached has the socket made for it, and no entry
\* has another.
SocketInv ==
  /\ \A c \in Conns : phase[c] = "attached" =>
                         /\ slot[owner[c]].pSocket = c /\ slot[owner[c]].started
                         /\ object[c] = c /\ handle[c] = c
  /\ \A s \in Slots : LET o == slot[s].pSocket
                      IN  o # 0 => /\ o \in alive
                                   /\ phase[o] = IF slot[s].started THEN "attached" ELSE "posted"
  /\ \A s \in Slots : slot[s].ip # 0 /\ ~slot[s].started =>
                         \A c \in Conns : owner[c] = s => slot[s].pSocket = c

FirstCloseInv == AgainInv /\ TurnInv /\ SocketInv /\ crashed # "owner"

IInv ==
  /\ Types /\ PhaseInv /\ EntryInv /\ AddressInv
  /\ steady => MapInv
  /\ steady /\ FirstCloses => FirstCloseInv

LEMMA FirstLeaseIsLease ==
  /\ FirstLease \in [Paps -> Addresses]
  /\ \A p, q \in Paps : FirstLease[p] = FirstLease[q] => p = q
BY DEF FirstLease, Leases

\* What the program takes is in the set, and nothing in the set is smaller.
LEMMA Smallest ==
  ASSUME NEW S, S \subseteq Slots, S # {}
  PROVE  /\ Min(S) \in S
         /\ \A x \in S : Min(S) <= x
<1>1. S \subseteq Nat
  BY DEF Slots
<1>2. \E x \in S : \A y \in S : ~(<<y, x>> \in OpToRel(<, Nat))
  BY <1>1, NatLessThanWellFounded, WFMin
<1>3. ASSUME NEW x \in Nat, NEW y \in Nat, ~(<<y, x>> \in OpToRel(<, Nat))
      PROVE  x =< y
  BY <1>3 DEF OpToRel
<1>4. \E x \in S : \A y \in S : x =< y
  BY <1>1, <1>2, <1>3
<1> QED
  BY <1>4 DEF Min

LEMMA InitIInv == Init => IInv
<1> SUFFICES ASSUME Init PROVE IInv
  OBVIOUS
<1>1. Types
  <2>1. conn \in [1 .. made -> [pap : Paps, ip : Addresses]] /\ made \in 0 .. MaxConns
    BY EmptySeq DEF Init
  <2>2. slot \in [Slots -> Entries]
    BY DEF Init, Entries
  <2>3. lease \in [Paps -> Addresses]
    BY FirstLeaseIsLease DEF Init
  <2>4. phase \in [Conns -> Phases] /\ crashed \in {"no", "owner", "gui"}
    BY DEF Init, Phases
  <2> QED
    BY <2>1, <2>2, <2>3, <2>4 DEF Init, Types
<1>2. PhaseInv
  BY DEF Init, PhaseInv
<1>3. EntryInv
  BY DEF Init, EntryInv
<1>4. AddressInv
  BY DEF Init, AddressInv
<1>5. MapInv
  BY DEF Init, MapInv, NoSlot, Slots
<1>6. FirstCloseInv
  BY DEF Init, FirstCloseInv, AgainInv, TurnInv, SocketInv
<1> QED
  BY <1>1, <1>2, <1>3, <1>4, <1>5, <1>6 DEF IInv

-----------------------------------------------------------------------------
(* A crash.                                                                *)

\* A step that only tells of a crash keeps the invariant, if it is not one of an owner
\* thread at a first close.
LEMMA CrashKeeps ==
  ASSUME IInv, NEW t \in {"owner", "gui"}, Crash(t),
         steady /\ FirstCloseInv /\ FirstCloses => t # "owner"
  PROVE  IInv'
<1> USE DEF Crash, network, sockets
<1>1. Types'
  BY DEF IInv, Types
<1>2. PhaseInv' /\ EntryInv' /\ AddressInv' /\ (steady => MapInv)'
  BY DEF IInv, PhaseInv, EntryInv, AddressInv, MapInv
<1>3. (steady /\ FirstCloses => FirstCloseInv)'
  BY DEF IInv, FirstCloses, FirstCloseInv, AgainInv, TurnInv, SocketInv, Second
<1> QED
  BY <1>1, <1>2, <1>3 DEF IInv

-----------------------------------------------------------------------------
(* The PAPs and the network.                                               *)

LEMMA ConnectKeeps ==
  ASSUME IInv, NEW p \in Paps, Connect(p)
  PROVE  IInv'
<1> DEFINE new == [pap |-> p, ip |-> lease[p]]
<1>1. /\ Offline(p) /\ made' = made + 1 /\ made < MaxConns
      /\ conn' = [c \in 1 .. made' |-> IF c = made' THEN new ELSE conn[c]]
      /\ phase' = [phase EXCEPT ![made'] = "pending"]
      /\ UNCHANGED <<lease, left, steady, crashed, owner, slot, sockets, bActualClientConnection,
                     sending, astray>>
  BY DEF Connect, Network, Same, IInv, Types
<1>2. /\ made \in Nat /\ made' \in Conns /\ made + 1 \in Conns /\ Conns \subseteq Nat
      /\ \A c \in 1 .. made : c # made + 1 /\ c \in 1 .. made' /\ conn'[c] = conn[c] /\ c \in Conns
      /\ conn'[made'] = new
      /\ phase[made'] = "none"
  BY <1>1 DEF Conns, IInv, Types, PhaseInv, Phases
<1>3. Types'
  <2>1. new \in [pap : Paps, ip : Addresses]
    BY DEF IInv, Types
  <2>2. conn' \in [1 .. made' -> [pap : Paps, ip : Addresses]]
    BY <1>1, <1>2, <2>1 DEF IInv, Types
  <2>3. phase' \in [Conns -> Phases]
    BY <1>1 DEF IInv, Types, Phases
  <2>4. made' \in 0 .. MaxConns /\ left' \subseteq 1 .. made'
    BY <1>1, <1>2 DEF IInv, Types
  <2> QED
    BY <1>1, <2>2, <2>3, <2>4 DEF IInv, Types, sockets
<1>4. PhaseInv'
  BY <1>1, <1>2 DEF IInv, Types, PhaseInv
<1>5. EntryInv'
  BY <1>1 DEF IInv, EntryInv
<1>6. AddressInv'
  BY <1>1, <1>2 DEF IInv, AddressInv, sockets, Conns
<1>7. (steady => MapInv)'
  BY <1>1, <1>2 DEF IInv, MapInv
<1>8. (steady /\ FirstCloses => FirstCloseInv)'
  <2> SUFFICES ASSUME steady, FirstCloses' PROVE FirstCloseInv'
    BY <1>1
  <2>1. FirstCloses
    BY ZenonT(40), <1>1, <1>2 DEF FirstCloses, IInv, Types
  <2>2. FirstCloseInv
    BY <2>1 DEF IInv
  <2>3. owner[made'] = NoSlot
    BY <1>2 DEF IInv, PhaseInv
  <2>4. \A c \in Conns : c # made' => phase'[c] = phase[c]
    BY <1>1 DEF IInv, Types
  <2>5. phase'[made'] = "pending"
    BY <1>1, <1>2 DEF IInv, Types
  <2>6. AgainInv'
    <3>1. \A c \in 1 .. made : conn[c].pap = p => c \in left \/ phase[c] = "closed"
      BY <1>1 DEF Offline, Open
    <3>2. \A c \in 1 .. made : conn[c].pap = p => c \in left \/ (phase[c] = "closed" /\ owner[c] = NoSlot)
      BY <1>2, <2>2, <3>1 DEF FirstCloseInv, AgainInv
    <3>3. \A c \in 1 .. made : conn'[c].pap = conn[c].pap /\ phase'[c] = phase[c]
      BY <1>1, <1>2, <2>4
    <3>4. \A c, d \in 1 .. made' : c < d /\ conn'[c].pap = conn'[d].pap =>
             c \in left \/ (phase'[c] = "closed" /\ owner[c] = NoSlot)
      <4> SUFFICES ASSUME NEW c \in 1 .. made', NEW d \in 1 .. made', c < d,
                          conn'[c].pap = conn'[d].pap
                   PROVE  c \in left \/ (phase'[c] = "closed" /\ owner[c] = NoSlot)
        OBVIOUS
      <4>1. c \in 1 .. made
        BY <1>1, <1>2
      <4>2. CASE d = made'
        BY <1>2, <3>2, <3>3, <4>1, <4>2
      <4>3. CASE d # made'
        <5>1. d \in 1 .. made
          BY <1>1, <1>2, <4>3
        <5> QED
          BY <2>2, <3>3, <4>1, <5>1 DEF FirstCloseInv, AgainInv
      <4> QED
        BY <4>2, <4>3
    <3> QED
      BY <1>1, <1>2, <2>2, <2>3, <2>4, <3>4 DEF FirstCloseInv, AgainInv
  <2>7. TurnInv'
    <3>1. TurnInv
      BY <2>2 DEF FirstCloseInv
    <3>2. \A c \in Conns : phase'[c] \in {"posted", "attached", "closed"} => phase'[c] = phase[c]
      BY <2>4, <2>5
    <3>3. \A c \in Conns : phase[c] = "closed" => phase'[c] = "closed"
      BY <1>2, <2>4
    <3> QED
      BY <1>1, <3>1, <3>2, <3>3 DEF TurnInv, Second, sockets
  <2>8. SocketInv'
    BY <1>1, <1>2, <2>2, <2>3, <2>4, <2>5 DEF FirstCloseInv, SocketInv, sockets, IInv, Types, Entries
  <2> QED
    BY <1>1, <2>2, <2>6, <2>7, <2>8 DEF FirstCloseInv
<1> QED
  BY <1>3, <1>4, <1>5, <1>6, <1>7, <1>8 DEF IInv

LEMMA DisconnectKeeps ==
  ASSUME IInv, NEW c \in Conns, Disconnect(c)
  PROVE  IInv'
<1>1. /\ c \in 1 .. made /\ left' = left \cup {c}
      /\ UNCHANGED <<lease, conn, made, phase, steady, crashed, owner, slot, sockets,
                     bActualClientConnection, sending, astray>>
  BY DEF Disconnect, Network, Same, Open, IInv, Types, Conns
<1>2. Types'
  BY <1>1 DEF IInv, Types, sockets
<1>3. PhaseInv' /\ EntryInv' /\ AddressInv' /\ (steady => MapInv)'
  BY <1>1 DEF IInv, PhaseInv, EntryInv, AddressInv, MapInv, sockets
<1>4. FirstCloses' => FirstCloses
  BY <1>1 DEF FirstCloses
<1>5. (steady /\ FirstCloses => FirstCloseInv)'
  BY <1>1, <1>4 DEF IInv, FirstCloseInv, AgainInv, TurnInv, SocketInv, Second, sockets
<1> QED
  BY <1>2, <1>3, <1>5 DEF IInv

LEMMA RenewKeeps ==
  ASSUME IInv, Renew
  PROVE  IInv'
<1>1. /\ ~steady /\ lease' \in [Paps -> Addresses]
      /\ UNCHANGED <<left, conn, made, phase, steady, crashed, owner, slot, sockets,
                     bActualClientConnection, sending, astray>>
  BY DEF Renew, Network, Same, Leases
<1>2. Types'
  BY <1>1 DEF IInv, Types, sockets
<1>3. PhaseInv' /\ EntryInv' /\ AddressInv'
  BY <1>1 DEF IInv, PhaseInv, EntryInv, AddressInv, sockets
<1> QED
  BY <1>1, <1>2, <1>3 DEF IInv

-----------------------------------------------------------------------------
(* The listener thread.                                                    *)

\* What an accept leaves alone, and the order of the connections that wait.
LEMMA Accepted ==
  ASSUME IInv, NEW c \in Conns, Accept(c)
  PROVE  /\ c \in 1 .. made /\ phase[c] = "pending" /\ owner[c] = NoSlot
         /\ conn[c] \in [pap : Paps, ip : Addresses] /\ conn[c].ip # 0
         /\ \A d \in Conns : d < c => phase[d] # "pending"
         /\ \A d \in Conns : owner[d] # NoSlot => d < c
         /\ UNCHANGED <<steady, crashed, lease, conn, made, left, bActualClientConnection, sending,
                        astray>>
<1>1. phase[c] = "pending" /\ \A d \in 1 .. c - 1 : phase[d] # "pending"
  BY DEF Accept, Oldest
<1>2. c \in 1 .. made /\ owner[c] = NoSlot
  BY <1>1 DEF IInv, PhaseInv, Conns, Types
<1>3. conn[c] \in [pap : Paps, ip : Addresses] /\ conn[c].ip # 0
  BY <1>2 DEF IInv, Types
<1>4. \A d \in Conns : d < c => phase[d] # "pending"
  BY <1>1 DEF Conns
<1>5. ASSUME NEW d \in Conns, owner[d] # NoSlot PROVE d < c
  <2>1. ~(c < d)
    BY <1>1, <1>5 DEF IInv, PhaseInv
  <2> QED
    BY <1>2, <1>5, <2>1 DEF Conns
<1> QED
  BY <1>1, <1>2, <1>3, <1>4, <1>5 DEF Accept, Same, network

\* The entry that OnAccept takes: of the address if there is one, else the next one.
LEMMA EntryTaken ==
  ASSUME IInv, NEW a \in Addresses, Candidates(a) # {},
         NEW s, s = Min(Candidates(a))
  PROVE  /\ s \in Slots /\ s # NoSlot /\ slot[s].ip \in {0, a}
         /\ \A t \in Slots : slot[t].ip = a => s <= t
         /\ slot[s].ip = 0 => \A t \in Slots : t < s => slot[t].ip # 0 /\ slot[t].ip # a
         /\ slot[s].ip = 0 => \A t \in Slots : slot[t].ip # a
         /\ slot[s].ip = 0 => \A t \in Slots : slot[t].ip # 0 => t < s
<1>1. Candidates(a) \subseteq Slots
  BY DEF Candidates
<1>2. s \in Candidates(a) /\ \A t \in Candidates(a) : s <= t
  BY <1>1, Smallest
<1>3. s \in Slots /\ s # NoSlot /\ slot[s].ip \in {0, a} /\ Slots \subseteq Int
  BY <1>2 DEF Candidates, Slots, NoSlot
<1>4. \A t \in Slots : slot[t].ip = a => s <= t
  BY <1>2 DEF Candidates
<1>5. \A t \in Slots : t < s => slot[t].ip # 0 /\ slot[t].ip # a
  <2> SUFFICES ASSUME NEW t \in Slots, t < s PROVE t \notin Candidates(a)
    BY DEF Candidates
  <2> QED
    BY <1>2, <1>3
<1>6. slot[s].ip = 0 => \A t \in Slots : slot[t].ip # a
  <2> SUFFICES ASSUME slot[s].ip = 0, NEW t \in Slots, slot[t].ip = a PROVE FALSE
    OBVIOUS
  <2>1. slot[t].ip # 0 /\ t # s
    OBVIOUS
  <2>2. s < t
    BY <1>3, <1>4, <2>1
  <2> QED
    BY <1>3, <2>1, <2>2 DEF IInv, EntryInv
<1>7. slot[s].ip = 0 => \A t \in Slots : slot[t].ip # 0 => t < s
  BY <1>3 DEF IInv, EntryInv
<1> QED
  BY <1>3, <1>4, <1>5, <1>6, <1>7

LEMMA AcceptNewKeeps ==
  ASSUME IInv, NEW c \in Conns, OnAcceptNew(c)
  PROVE  IInv'
<1> DEFINE a == conn[c].ip
           s == Min(Candidates(a))
           new == [ip |-> a, pSocket |-> c, started |-> FALSE, bConnected |-> TRUE, list |-> {}]
<1>1. /\ c \in 1 .. made /\ phase[c] = "pending" /\ owner[c] = NoSlot
      /\ a \in Addresses /\ a # 0 /\ c # 0
      /\ \A d \in Conns : d < c => phase[d] # "pending"
      /\ \A d \in Conns : owner[d] # NoSlot => d < c
      /\ UNCHANGED <<steady, crashed, lease, conn, made, left, bActualClientConnection, sending,
                     astray>>
  BY Accepted DEF OnAcceptNew, Conns
<1>2. /\ slot[s].ip = 0
      /\ slot' = [slot EXCEPT ![s] = new]
      /\ index' = [index EXCEPT ![c] = s] /\ owner' = [owner EXCEPT ![c] = s]
      /\ alive' = alive \cup {c} /\ phase' = [phase EXCEPT ![c] = "posted"]
      /\ UNCHANGED <<handle, object>>
  BY DEF OnAcceptNew
<1>3. /\ s \in Slots /\ s # NoSlot
      /\ \A t \in Slots : t < s => slot[t].ip # 0 /\ slot[t].ip # a
      /\ \A t \in Slots : slot[t].ip # a
      /\ \A t \in Slots : slot[t].ip # 0 => t < s
  <2>1. Candidates(a) # {}
    BY DEF OnAcceptNew
  <2> QED
    BY <1>1, <1>2, <2>1, EntryTaken
<1> HIDE DEF s
<1>4. /\ \A t \in Slots : t # s => slot'[t] = slot[t]
      /\ slot'[s] = new
      /\ \A d \in Conns : d # c => owner'[d] = owner[d] /\ phase'[d] = phase[d] /\ index'[d] = index[d]
      /\ owner'[c] = s /\ phase'[c] = "posted" /\ index'[c] = s
  BY <1>2, <1>3 DEF IInv, Types
<1>5. new \in Entries
  BY <1>1 DEF Entries
<1> HIDE DEF a
<1>6. new.ip = a /\ new.pSocket = c /\ new.started = FALSE /\ new.list = {}
  OBVIOUS
<1> HIDE DEF new
\* The entry had no connections.
<1>7. \A d \in Conns : owner[d] # s
  <2>1. \A d \in Conns : owner[d] # NoSlot => conn[d].ip # 0 /\ slot[owner[d]].ip = conn[d].ip
    BY DEF IInv, AddressInv, Types, Conns
  <2> QED
    BY <1>2, <1>3, <2>1
<1>8. Types'
  <2>1. slot' \in [Slots -> Entries]
    BY <1>2, <1>5 DEF IInv, Types
  <2>2. phase' \in [Conns -> Phases]
    BY <1>2 DEF IInv, Types, Phases
  <2>3. owner' \in [Conns -> Slots \cup {NoSlot}] /\ index' \in [Conns -> Slots \cup {NoSlot}]
    BY <1>2, <1>3 DEF IInv, Types
  <2> QED
    BY <1>1, <1>2, <2>1, <2>2, <2>3 DEF IInv, Types
<1>9. PhaseInv'
  <2>1. \A d \in Conns : d < c => phase[d] # "pending"
    BY <1>1
  <2> QED
    BY <1>1, <1>3, <1>4, <2>1 DEF IInv, PhaseInv, Conns
<1>10. EntryInv'
  BY <1>1, <1>3, <1>4, <1>6 DEF IInv, EntryInv, Slots
<1>11. AddressInv'
  <2> USE DEF IInv, AddressInv
  <2>1. \A d \in Conns : owner'[d] # NoSlot => d <= made' /\ slot'[owner'[d]].ip = conn'[d].ip
    <3> SUFFICES ASSUME NEW d \in Conns, owner'[d] # NoSlot
                 PROVE  d <= made /\ slot'[owner'[d]].ip = conn[d].ip
      BY <1>1
    <3>1. CASE d = c
      BY <1>1, <1>4, <1>6, <3>1 DEF a
    <3>2. CASE d # c
      <4>1. owner'[d] = owner[d] /\ owner[d] # s /\ owner[d] \in Slots
        BY <1>4, <1>7, <3>2 DEF Types
      <4> QED
        BY <1>4, <4>1
    <3> QED
      BY <3>1, <3>2
  <2>2. \A t \in Slots : slot'[t].pSocket # 0 => owner'[slot'[t].pSocket] = t
    <3> SUFFICES ASSUME NEW t \in Slots, slot'[t].pSocket # 0
                 PROVE  owner'[slot'[t].pSocket] = t
      OBVIOUS
    <3>1. CASE t = s
      BY <1>4, <1>6, <3>1
    <3>2. CASE t # s
      <4>1. slot[t].pSocket \in Conns /\ owner[slot[t].pSocket] = t
        BY <1>4, <3>2 DEF Types, Entries
      <4>2. slot[t].pSocket # c
        BY <1>1, <1>3, <4>1 DEF Slots, NoSlot
      <4> QED
        BY <1>4, <3>2, <4>1, <4>2
    <3> QED
      BY <3>1, <3>2
  <2>3. \A o \in Conns : owner[o] # NoSlot => o # c /\ owner'[o] = owner[o]
    BY <1>1, <1>4
  <2>4. \A o \in Conns : handle[o] # 0 =>
           /\ owner[o] # NoSlot /\ owner[handle[o]] = owner[o] /\ handle[o] \in Conns
    BY DEF Types
  <2>5. \A o \in Conns : object[o] # 0 =>
           /\ owner[o] # NoSlot /\ owner[object[o]] = owner[o] /\ object[o] \in Conns
    BY DEF Types
  <2> QED
    BY <1>2, <2>1, <2>2, <2>3, <2>4, <2>5
<1>12. (steady => MapInv)'
  <2> SUFFICES ASSUME steady PROVE MapInv'
    BY <1>1
  <2>1. MapInv
    BY DEF IInv
  <2>2. \A p \in Paps : FirstLease[p] # 0
    BY FirstLeaseIsLease
  <2>3. \A t \in Slots : slot[t].ip # 0 => slot'[t].ip = slot[t].ip
    BY <1>2, <1>4
  <2>4. \A t \in Slots : \A p \in slot'[t].list : slot'[t].ip = FirstLease[p]
    <3> SUFFICES ASSUME NEW t \in Slots, NEW p \in slot'[t].list
                 PROVE  slot'[t].ip = FirstLease[p]
      OBVIOUS
    <3>1. t # s
      BY <1>4, <1>6
    <3> QED
      BY <1>4, <2>1, <3>1 DEF MapInv
  <2>5. \A m \in sending : m.slot \in Slots /\ slot[m.slot].ip # 0 /\ slot[m.slot].ip = FirstLease[m.pap]
    BY <2>1, <2>2 DEF MapInv, IInv, Types
  <2>6. \A p \in Paps : bActualClientConnection[p] # NoSlot =>
          slot'[bActualClientConnection[p]].ip = FirstLease[p]
    BY <2>1, <2>2, <2>3 DEF MapInv, IInv, Types
  <2> QED
    BY <1>1, <2>1, <2>3, <2>4, <2>5, <2>6 DEF MapInv
<1>13. (steady /\ FirstCloses => FirstCloseInv)'
  <2> SUFFICES ASSUME steady, FirstCloses' PROVE FirstCloseInv'
    BY <1>1
  <2>1. FirstCloseInv
    BY <1>1 DEF IInv, FirstCloses
  <2>2. 1 .. made \subseteq Conns
    BY DEF IInv, Types, Conns
  <2>3. AgainInv'
    BY <1>1, <1>4, <2>1, <2>2 DEF FirstCloseInv, AgainInv
  <2>4. TurnInv'
    <3> USE <2>1 DEF FirstCloseInv, TurnInv
    <3>1. \A d \in Conns : d # c => owner'[d] = owner[d] /\ owner'[d] # s
      BY <1>4, <1>7
    <3>2. \A b, d \in Conns : b < d /\ owner'[b] = owner'[d] /\ owner'[b] # NoSlot
             /\ phase'[d] \in {"attached", "closed"} => phase'[b] = "closed"
      BY <1>4, <3>1
    <3>3. \A t \in Slots : slot'[t].ip # 0 => \E d \in Conns : owner'[d] = t
      BY <1>1, <1>4, <3>1, <1>3 DEF Slots, NoSlot
    <3>4. \A d \in Conns : d # c /\ Second(d) /\ owner[d] # NoSlot => Second(d)'
      BY <1>1, <3>1 DEF Second, Conns
    <3>5. \A d \in Conns : d # c /\ phase'[d] \in {"posted", "attached"} =>
             owner[d] \in Slots /\ slot'[owner[d]] = slot[owner[d]]
      BY <1>4, <1>7 DEF IInv, PhaseInv, Types
    <3>6. \A d \in Conns : phase'[d] = "posted" /\ slot'[owner'[d]].started => Second(d)'
      BY <1>4, <1>6, <3>1, <3>4, <3>5 DEF IInv, PhaseInv
    <3>7. \A d \in Conns : phase'[d] \in {"posted", "attached"} =>
             index'[d] = owner'[d] \/ Second(d)'
      BY <1>4, <3>1, <3>4 DEF IInv, PhaseInv
    <3> QED
      BY <3>2, <3>3, <3>6, <3>7
  <2>5. SocketInv'
    BY <1>1, <1>2, <1>4, <1>6, <1>7, <2>1 DEF FirstCloseInv, SocketInv
  <2> QED
    BY <1>1, <2>1, <2>3, <2>4, <2>5 DEF FirstCloseInv
<1> QED
  BY <1>8, <1>9, <1>10, <1>11, <1>12, <1>13 DEF IInv

LEMMA AcceptAgainKeeps ==
  ASSUME IInv, NEW c \in Conns, OnAcceptAgain(c)
  PROVE  IInv'
<1> DEFINE a == conn[c].ip
           s == Min(Candidates(a))
<1>1. /\ c \in 1 .. made /\ phase[c] = "pending" /\ owner[c] = NoSlot
      /\ a \in Addresses
      /\ \A d \in Conns : d < c => phase[d] # "pending"
      /\ \A d \in Conns : owner[d] # NoSlot => d < c
      /\ UNCHANGED <<steady, crashed, lease, conn, made, left, bActualClientConnection, sending,
                     astray>>
  BY Accepted DEF OnAcceptAgain
<1>2. /\ slot[s].ip # 0
      /\ owner' = [owner EXCEPT ![c] = s]
      /\ phase' = [phase EXCEPT ![c] = IF slot[s].started THEN "posted" ELSE "lost"]
      /\ UNCHANGED <<slot, sockets>>
  BY DEF OnAcceptAgain
<1>3. s \in Slots /\ s # NoSlot /\ slot[s].ip = a
  <2>1. Candidates(a) # {}
    BY DEF OnAcceptAgain
  <2> QED
    BY <1>1, <1>2, <2>1, EntryTaken
<1> HIDE DEF s
<1>4. /\ \A d \in Conns : d # c => owner'[d] = owner[d] /\ phase'[d] = phase[d]
      /\ owner'[c] = s
      /\ phase'[c] = IF slot[s].started THEN "posted" ELSE "lost"
  BY <1>2, <1>3 DEF IInv, Types
<1>5. \A d \in Conns : owner[d] # NoSlot => owner'[d] = owner[d] /\ phase'[d] = phase[d] /\ d # c
  BY <1>1, <1>4
<1>6. Types'
  <2>1. phase' \in [Conns -> Phases]
    BY <1>2 DEF IInv, Types, Phases
  <2>2. owner' \in [Conns -> Slots \cup {NoSlot}]
    BY <1>2, <1>3 DEF IInv, Types
  <2> QED
    BY <1>1, <1>2, <2>1, <2>2 DEF IInv, Types, sockets
<1>7. PhaseInv'
  BY <1>1, <1>3, <1>4 DEF IInv, PhaseInv, Conns
<1>8. EntryInv'
  BY <1>2 DEF IInv, EntryInv
<1>9. AddressInv'
  <2> USE DEF IInv, AddressInv, sockets
  <2>1. \A d \in Conns : owner'[d] # NoSlot => d <= made' /\ slot'[owner'[d]].ip = conn'[d].ip
    BY <1>1, <1>2, <1>3, <1>4
  <2>2. \A t \in Slots : slot[t].pSocket # 0 => slot[t].pSocket \in Conns /\ owner[slot[t].pSocket] # NoSlot
    BY DEF Types, Entries, Slots, NoSlot
  <2>3. \A o \in Conns : /\ handle[o] # 0 => handle[o] \in Conns
                         /\ object[o] # 0 => object[o] \in Conns
    BY DEF Types
  <2> QED
    BY <1>2, <1>5, <2>1, <2>2, <2>3
<1>10. (steady => MapInv)'
  BY <1>1, <1>2 DEF IInv, MapInv
<1>11. (steady /\ FirstCloses => FirstCloseInv)'
  <2> SUFFICES ASSUME steady, FirstCloses' PROVE FirstCloseInv'
    BY <1>1
  <2>1. FirstCloseInv
    BY <1>1 DEF IInv, FirstCloses
  <2>2. 1 .. made \subseteq Conns
    BY DEF IInv, Types, Conns
  <2>3. AgainInv'
    BY <1>1, <1>4, <2>1, <2>2 DEF FirstCloseInv, AgainInv
  <2>4. slot[s].started /\ phase'[c] = "posted"
    BY <1>2, <1>3, <1>4 DEF OnAcceptAgain, Accept
  <2>5. TurnInv'
    <3> USE <2>1 DEF FirstCloseInv, TurnInv
    <3>1. \A b, d \in Conns : b < d /\ owner'[b] = owner'[d] /\ owner'[b] # NoSlot
             /\ phase'[d] \in {"attached", "closed"} => phase'[b] = "closed"
      <4> SUFFICES ASSUME NEW b \in Conns, NEW d \in Conns, b < d, owner'[b] = owner'[d],
                          owner'[b] # NoSlot, phase'[d] \in {"attached", "closed"}
                   PROVE  phase'[b] = "closed"
        OBVIOUS
      <4>1. d # c
        BY <2>4
      <4>2. d < c
        BY <1>1, <1>4, <4>1
      <4>3. b # c
        BY <4>2 DEF Conns
      <4> QED
        BY <1>4, <4>1, <4>3
    <3>2. \A t \in Slots : slot'[t].ip # 0 => \E d \in Conns : owner'[d] = t
      <4> SUFFICES ASSUME NEW t \in Slots, slot[t].ip # 0 PROVE \E d \in Conns : owner'[d] = t
        BY <1>2
      <4>1. PICK d \in Conns : owner[d] = t
        OBVIOUS
      <4>2. owner[d] # NoSlot
        BY <4>1 DEF Slots, NoSlot
      <4> QED
        BY <1>5, <4>1, <4>2
    <3>3. \A d \in Conns : d # c /\ Second(d) /\ owner[d] # NoSlot => Second(d)'
      BY <1>1, <1>5 DEF Second, Conns
    <3>4. Second(c)'
      <4>1. PICK d \in Conns : owner[d] = s
        BY <1>2, <1>3
      <4>2. d < c /\ owner'[d] = s
        BY <1>1, <1>3, <1>5, <4>1
      <4> QED
        BY <1>4, <4>2 DEF Second, Conns
    <3>5. \A d \in Conns : phase'[d] = "posted" /\ slot'[owner'[d]].started => Second(d)'
      BY <1>2, <1>4, <3>3, <3>4 DEF IInv, PhaseInv
    <3>6. \A d \in Conns : phase'[d] \in {"posted", "attached"} =>
             index'[d] = owner'[d] \/ Second(d)'
      BY <1>2, <1>4, <3>3, <3>4 DEF IInv, PhaseInv, sockets
    <3> QED
      BY <3>1, <3>2, <3>5, <3>6
  <2>6. SocketInv'
    <3> USE <2>1 DEF FirstCloseInv, SocketInv
    <3>1. \A d \in Conns : phase'[d] = "attached" => d # c /\ owner'[d] = owner[d] /\ phase[d] = "attached"
      BY <1>4, <2>4
    <3>2. \A t \in Slots : slot[t].pSocket # 0 => phase'[slot[t].pSocket] = phase[slot[t].pSocket]
      BY <1>5 DEF IInv, AddressInv, Types, Entries, Slots, NoSlot
    <3>3. \A d \in Conns : \A t \in Slots : owner'[d] = t /\ ~slot[t].started => owner[d] = t
      BY <1>4, <2>4
    <3> QED
      BY <1>2, <3>1, <3>2, <3>3 DEF sockets
  <2> QED
    BY <1>1, <2>1, <2>3, <2>5, <2>6 DEF FirstCloseInv
<1> QED
  BY <1>6, <1>7, <1>8, <1>9, <1>10, <1>11 DEF IInv

LEMMA AcceptRefusedKeeps ==
  ASSUME IInv, NEW c \in Conns, OnAcceptRefused(c)
  PROVE  IInv'
<1>1. /\ c \in 1 .. made /\ phase[c] = "pending" /\ owner[c] = NoSlot
      /\ \A d \in Conns : d < c => phase[d] # "pending"
      /\ phase' = [phase EXCEPT ![c] = "closed"]
      /\ UNCHANGED <<steady, crashed, lease, conn, made, left, bActualClientConnection, sending,
                     astray, owner, slot, sockets>>
  BY Accepted DEF OnAcceptRefused
<1>2. /\ \A d \in Conns : d # c => phase'[d] = phase[d]
      /\ phase'[c] = "closed"
  BY <1>1 DEF IInv, Types
<1>3. Types'
  <2>1. phase' \in [Conns -> Phases]
    BY <1>1 DEF IInv, Types, Phases
  <2> QED
    BY <1>1, <2>1 DEF IInv, Types, sockets
<1>4. PhaseInv'
  BY <1>1, <1>2 DEF IInv, PhaseInv, Conns
<1>5. EntryInv' /\ AddressInv' /\ (steady => MapInv)'
  BY <1>1 DEF IInv, EntryInv, AddressInv, MapInv, sockets
<1>6. (steady /\ FirstCloses => FirstCloseInv)'
  <2> SUFFICES ASSUME steady, FirstCloses' PROVE FirstCloseInv'
    BY <1>1
  <2>1. FirstCloseInv
    BY <1>1 DEF IInv, FirstCloses
  <2>2. 1 .. made \subseteq Conns
    BY DEF IInv, Types, Conns
  <2>3. \A d \in Conns : owner[d] # NoSlot => phase'[d] = phase[d]
    BY <1>1, <1>2
  <2>4. AgainInv'
    BY <1>1, <1>2, <2>1, <2>2 DEF FirstCloseInv, AgainInv
  <2>5. TurnInv'
    <3>1. \A d \in Conns : phase'[d] \in {"posted", "attached"} => phase[d] = phase'[d]
      BY <1>2
    <3>2. \A d \in Conns : Second(d)' <=> Second(d)
      BY <1>1 DEF Second
    <3>3. \A b, d \in Conns : b < d /\ owner[b] = owner[d] /\ owner[b] # NoSlot
             /\ phase'[d] \in {"attached", "closed"} => phase'[b] = "closed"
      BY <2>1, <2>3 DEF FirstCloseInv, TurnInv
    <3> QED
      BY <1>1, <2>1, <3>1, <3>2, <3>3 DEF FirstCloseInv, TurnInv, sockets
  <2>6. SocketInv'
    <3>1. \A t \in Slots : slot[t].pSocket # 0 => phase'[slot[t].pSocket] = phase[slot[t].pSocket]
      BY <2>3 DEF IInv, AddressInv, Types, Entries, Slots, NoSlot
    <3> QED
      BY <1>1, <1>2, <2>1, <3>1 DEF FirstCloseInv, SocketInv, sockets
  <2> QED
    BY <1>1, <2>1, <2>4, <2>5, <2>6 DEF FirstCloseInv
<1> QED
  BY <1>3, <1>4, <1>5, <1>6 DEF IInv

-----------------------------------------------------------------------------
(* The owner threads.                                                      *)

LEMMA InitInstanceKeeps ==
  ASSUME IInv, NEW s \in Slots, InitInstance(s)
  PROVE  IInv'
<1> DEFINE o == slot[s].pSocket
<1>1. slot[s].ip # 0 /\ ~slot[s].started
  BY DEF InitInstance
\* In a first close the entry has a socket.
<1>2. steady /\ FirstCloseInv => o # 0
  <2> SUFFICES ASSUME FirstCloseInv PROVE o # 0
    OBVIOUS
  <2>1. PICK c \in Conns : owner[c] = s
    BY <1>1 DEF FirstCloseInv, TurnInv
  <2> QED
    BY <1>1, <2>1 DEF FirstCloseInv, SocketInv, Conns
<1>3. CASE o = 0 /\ Crash("owner")
  BY <1>2, <1>3, CrashKeeps
<1>4. ASSUME o # 0,
             /\ phase' = [phase EXCEPT ![o] = "attached"]
             /\ handle' = [handle EXCEPT ![o] = o] /\ object' = [object EXCEPT ![o] = o]
             /\ slot' = [slot EXCEPT ![s].started = TRUE]
             /\ OwnerStep /\ UNCHANGED <<alive, index, bActualClientConnection>>
      PROVE  IInv'
  <2>1. o \in Conns /\ owner[o] = s /\ s # NoSlot /\ slot[s] \in Entries
    <3>1. slot[s] \in Entries /\ s # NoSlot
      BY DEF IInv, Types, Slots, NoSlot
    <3>2. o \in Conns
      BY <1>4, <3>1 DEF Entries
    <3> QED
      BY <1>4, <3>1, <3>2 DEF IInv, AddressInv
  <2> HIDE DEF o
  <2>2. UNCHANGED <<steady, crashed, lease, conn, made, left, owner, sending, astray, alive, index,
                    bActualClientConnection>>
    BY <1>4 DEF OwnerStep, Same, network
  <2>3. /\ \A d \in Conns : d # o => phase'[d] = phase[d] /\ handle'[d] = handle[d] /\ object'[d] = object[d]
        /\ phase'[o] = "attached" /\ handle'[o] = o /\ object'[o] = o
    BY <1>4, <2>1 DEF IInv, Types
  <2>4. /\ slot' \in [Slots -> Entries]
        /\ \A t \in Slots : /\ slot'[t].ip = slot[t].ip /\ slot'[t].pSocket = slot[t].pSocket
                            /\ slot'[t].list = slot[t].list
                            /\ t # s => slot'[t].started = slot[t].started
        /\ slot'[s].started
    BY <1>4, <2>1 DEF IInv, Types, Entries
  <2>5. Types'
    <3>1. phase' \in [Conns -> Phases]
      BY <1>4 DEF IInv, Types, Phases
    <3>2. handle' \in [Conns -> Conns \cup {0}] /\ object' \in [Conns -> Conns \cup {0}]
      BY <1>4, <2>1 DEF IInv, Types
    <3> QED
      BY <2>2, <2>4, <3>1, <3>2 DEF IInv, Types
  <2>6. phase[o] # "none" /\ phase[o] # "pending" /\ o <= made
    BY <2>1 DEF IInv, PhaseInv, AddressInv
  <2>7. PhaseInv'
    <3>1. \A d \in Conns : phase'[d] \in {"none", "pending"} \/ phase[d] = "pending" =>
             phase'[d] = phase[d]
      BY <2>3, <2>6
    <3>2. owner[o] # NoSlot
      BY <2>1
    <3> QED
      BY <2>2, <2>3, <2>6, <3>1, <3>2 DEF IInv, PhaseInv
  <2>8. EntryInv'
    BY <2>4 DEF IInv, EntryInv
  <2>9. AddressInv'
    <3>1. \A d \in Conns : owner[d] # NoSlot => owner[d] \in Slots
      BY DEF IInv, Types
    <3>2. \A d \in Conns : handle'[d] = handle[d] \/ (d = o /\ handle'[d] = d)
      BY <2>3
    <3>3. \A d \in Conns : object'[d] = object[d] \/ (d = o /\ object'[d] = d)
      BY <2>3
    <3> QED
      BY <2>1, <2>2, <2>4, <3>1, <3>2, <3>3 DEF IInv, AddressInv
  <2>10. (steady => MapInv)'
    <3>1. \A p \in Paps : bActualClientConnection[p] # NoSlot => bActualClientConnection[p] \in Slots
      BY DEF IInv, Types
    <3>2. \A m \in sending : m.slot \in Slots
      BY DEF IInv, Types
    <3> QED
      BY <2>2, <2>4, <3>1, <3>2 DEF IInv, MapInv
  <2>11. (steady /\ FirstCloses => FirstCloseInv)'
    <3> SUFFICES ASSUME steady, FirstCloses' PROVE FirstCloseInv'
      BY <2>2
    <3>1. FirstCloseInv
      BY <2>2 DEF IInv, FirstCloses
    <3>2. o \in alive /\ phase[o] = "posted"
      BY <1>1, <1>4, <3>1 DEF FirstCloseInv, SocketInv, o
    <3>3. \A d \in Conns : owner[d] = s => d = o
      BY <1>1, <3>1 DEF FirstCloseInv, SocketInv, o
    <3>4. 1 .. made \subseteq Conns
      BY DEF IInv, Types, Conns
    <3>5. AgainInv'
      BY <2>2, <2>3, <3>1, <3>2, <3>4 DEF FirstCloseInv, AgainInv
    <3>6. TurnInv'
      <4>1. \A d \in Conns : Second(d)' <=> Second(d)
        BY <2>2 DEF Second
      <4>2. \A b, d \in Conns : b < d /\ owner[b] = owner[d] /\ owner[b] # NoSlot
               /\ phase'[d] \in {"attached", "closed"} => phase'[b] = "closed"
        <5> SUFFICES ASSUME NEW b \in Conns, NEW d \in Conns, b < d, owner[b] = owner[d],
                            owner[b] # NoSlot, phase'[d] \in {"attached", "closed"}
                     PROVE  phase'[b] = "closed"
          OBVIOUS
        <5>1. b # o /\ d # o
          BY <2>1, <3>3 DEF Conns
        <5> QED
          BY <2>3, <3>1, <5>1 DEF FirstCloseInv, TurnInv
      <4>3. \A t \in Slots : slot'[t].ip # 0 => \E d \in Conns : owner'[d] = t
        BY <2>2, <2>4, <3>1 DEF FirstCloseInv, TurnInv
      <4>4. \A d \in Conns : phase'[d] = "posted" /\ slot'[owner'[d]].started => Second(d)
        <5> SUFFICES ASSUME NEW d \in Conns, phase'[d] = "posted", slot'[owner'[d]].started
                     PROVE  Second(d)
          OBVIOUS
        <5>1. d # o /\ phase[d] = "posted" /\ owner[d] # s
          BY <2>3, <3>3
        <5>2. owner[d] \in Slots
          BY <5>1 DEF IInv, Types, PhaseInv
        <5> QED
          BY <2>2, <2>4, <3>1, <5>1, <5>2 DEF FirstCloseInv, TurnInv
      <4>5. \A d \in Conns : phase'[d] \in {"posted", "attached"} => index'[d] = owner'[d] \/ Second(d)
        BY <2>2, <2>3, <3>1, <3>2 DEF FirstCloseInv, TurnInv
      <4> QED
        BY <2>2, <4>1, <4>2, <4>3, <4>4, <4>5 DEF TurnInv
    <3>7. SocketInv'
      <4> USE <3>1 DEF FirstCloseInv, SocketInv
      <4>1. \A d \in Conns : phase'[d] = "attached" =>
              /\ slot'[owner[d]].pSocket = d /\ slot'[owner[d]].started
              /\ object'[d] = d /\ handle'[d] = d
        <5> SUFFICES ASSUME NEW d \in Conns, phase'[d] = "attached"
                     PROVE  /\ slot'[owner[d]].pSocket = d /\ slot'[owner[d]].started
                            /\ object'[d] = d /\ handle'[d] = d
          OBVIOUS
        <5>1. CASE d = o
          <6>1. slot'[s].pSocket = o
            BY <2>4 DEF o
          <6> QED
            BY <2>1, <2>3, <2>4, <5>1, <6>1
        <5>2. CASE d # o
          <6>1. phase[d] = "attached" /\ owner[d] \in Slots
            BY <2>3, <5>2 DEF IInv, Types, PhaseInv
          <6>2. slot'[owner[d]].started
            BY <2>4, <6>1
          <6> QED
            BY <2>3, <2>4, <5>2, <6>1, <6>2
        <5> QED
          BY <5>1, <5>2
      <4>2. \A t \in Slots : LET q == slot'[t].pSocket
              IN  q # 0 => /\ q \in alive
                           /\ phase'[q] = IF slot'[t].started THEN "attached" ELSE "posted"
        <5> SUFFICES ASSUME NEW t \in Slots, NEW q, q = slot[t].pSocket, q # 0
                     PROVE  q \in alive /\ phase'[q] = IF slot'[t].started THEN "attached" ELSE "posted"
          BY <2>4
        <5>1. CASE t = s
          BY <2>3, <2>4, <3>2, <5>1 DEF o
        <5>2. CASE t # s
          <6>1. q \in Conns /\ owner[q] = t
            BY DEF IInv, AddressInv, Types, Entries
          <6>2. q # o
            BY <2>1, <5>2, <6>1
          <6>3. q \in alive /\ phase[q] = IF slot[t].started THEN "attached" ELSE "posted"
            OBVIOUS
          <6>4. slot'[t].started = slot[t].started /\ phase'[q] = phase[q]
            BY <2>3, <2>4, <5>2, <6>1, <6>2
          <6> QED
            BY <6>3, <6>4
        <5> QED
          BY <5>1, <5>2
      <4>3. \A t \in Slots : slot'[t].ip # 0 /\ ~slot'[t].started =>
              \A c \in Conns : owner[c] = t => slot'[t].pSocket = c
        <5>1. \A t \in Slots : ~slot'[t].started => ~slot[t].started
          BY <2>4
        <5> QED
          BY <2>4, <5>1
      <4> QED
        BY <2>2, <4>1, <4>2, <4>3
    <3> QED
      BY <2>2, <3>1, <3>5, <3>6, <3>7 DEF FirstCloseInv
  <2> QED
    BY <2>5, <2>7, <2>8, <2>9, <2>10, <2>11 DEF IInv
<1> QED
  BY <1>3, <1>4 DEF InitInstance

LEMMA AttachSocketKeeps ==
  ASSUME IInv, NEW s \in Slots, AttachSocket(s)
  PROVE  IInv'
<1> DEFINE o(c) == IF slot[s].pSocket = 0 THEN c ELSE slot[s].pSocket
<1>1. PICK c \in Conns :
        /\ phase[c] = "posted" /\ owner[c] = s /\ slot[s].started
        /\ FinsFirst(c)
        /\ \/ /\ o(c) = c \/ o(c) \in alive
              /\ phase' = [phase EXCEPT ![c] = "attached"]
              /\ handle' = [handle EXCEPT ![o(c)] = c] /\ object' = [object EXCEPT ![c] = o(c)]
              /\ alive' = alive \cup {o(c)}
              /\ slot' = [slot EXCEPT ![s].pSocket = o(c), ![s].bConnected = TRUE]
              /\ \E i \in NewIndex : index' = IF o(c) = c THEN [index EXCEPT ![o(c)] = i] ELSE index
              /\ OwnerStep /\ UNCHANGED bActualClientConnection
           \/ o(c) # c /\ o(c) \notin alive /\ Crash("owner")
  BY DEF AttachSocket
<1> DEFINE w == o(c)
<1>2. slot[s] \in Entries /\ s # NoSlot /\ c # 0 /\ Conns \subseteq Nat
  <2>1. slot[s] \in Entries
    BY DEF IInv, Types
  <2>2. c # 0 /\ Conns \subseteq Nat
    BY <1>1 DEF Conns
  <2>3. s # NoSlot
    BY DEF Slots, NoSlot
  <2> QED
    BY <2>1, <2>2, <2>3
<1>3. w \in Conns /\ owner[w] = s
  <2>1. slot[s].pSocket # 0 => slot[s].pSocket \in Conns /\ owner[slot[s].pSocket] = s
    BY <1>2 DEF Entries, IInv, AddressInv
  <2> QED
    BY <1>1, <2>1
\* In a first close the entry has no other socket.
<1>4. steady /\ FirstCloseInv => slot[s].pSocket = 0 /\ w = c
  <2> SUFFICES ASSUME steady, FirstCloseInv, slot[s].pSocket # 0 PROVE FALSE
    OBVIOUS
  <2> DEFINE q == slot[s].pSocket
  <2>1. q \in Conns /\ owner[q] = s
    BY <1>2 DEF Entries, IInv, AddressInv
  <2>2. phase[q] = "attached"
    BY <1>1 DEF FirstCloseInv, SocketInv
  <2> HIDE DEF q
  <2>3. CASE q < c
    <3>1. q \in 1 .. c - 1
      BY <2>1, <2>3 DEF Conns
    <3> QED
      BY <1>1, <2>1, <2>2, <3>1 DEF FinsFirst
  <2>4. CASE c < q
    BY <1>1, <1>2, <2>1, <2>2, <2>4 DEF FirstCloseInv, TurnInv
  <2>5. c # q
    BY <1>1, <2>2
  <2>6. c \in Nat /\ q \in Nat
    BY <1>1, <2>1 DEF Conns
  <2> QED
    BY <2>3, <2>4, <2>5, <2>6
<1> HIDE DEF o
<1>5. CASE w # c /\ w \notin alive /\ Crash("owner")
  BY <1>4, <1>5, CrashKeeps
<1> HIDE DEF w
<1>6. ASSUME /\ phase' = [phase EXCEPT ![c] = "attached"]
             /\ handle' = [handle EXCEPT ![w] = c] /\ object' = [object EXCEPT ![c] = w]
             /\ alive' = alive \cup {w}
             /\ slot' = [slot EXCEPT ![s].pSocket = w, ![s].bConnected = TRUE]
             /\ \E i \in NewIndex : index' = IF w = c THEN [index EXCEPT ![w] = i] ELSE index
             /\ OwnerStep /\ UNCHANGED bActualClientConnection
      PROVE  IInv'
  <2>2. UNCHANGED <<steady, crashed, lease, conn, made, left, owner, sending, astray,
                    bActualClientConnection>>
    BY <1>6 DEF OwnerStep, Same, network
  <2>3. /\ \A d \in Conns : d # c => phase'[d] = phase[d] /\ object'[d] = object[d]
        /\ \A d \in Conns : d # w => handle'[d] = handle[d]
        /\ phase'[c] = "attached" /\ handle'[w] = c /\ object'[c] = w
    BY <1>3, <1>6 DEF IInv, Types
  <2>4. /\ slot' \in [Slots -> Entries]
        /\ \A t \in Slots : /\ slot'[t].ip = slot[t].ip /\ slot'[t].started = slot[t].started
                            /\ slot'[t].list = slot[t].list
                            /\ t # s => slot'[t].pSocket = slot[t].pSocket
        /\ slot'[s].pSocket = w
    BY <1>2, <1>3, <1>6 DEF IInv, Types, Entries
  <2>5. /\ index' \in [Conns -> Slots \cup {NoSlot}]
        /\ \A d \in Conns : d # c => index'[d] = index[d]
    BY <1>6 DEF IInv, Types, NewIndex
  <2>6. Types'
    <3>1. phase' \in [Conns -> Phases]
      BY <1>6 DEF IInv, Types, Phases
    <3>2. handle' \in [Conns -> Conns \cup {0}] /\ object' \in [Conns -> Conns \cup {0}]
      BY <1>3, <1>6 DEF IInv, Types
    <3>3. alive' \subseteq Conns
      BY <1>3, <1>6 DEF IInv, Types
    <3> QED
      BY <2>2, <2>4, <2>5, <3>1, <3>2, <3>3 DEF IInv, Types
  <2>7. PhaseInv'
    <3>1. \A d \in Conns : phase'[d] \in {"none", "pending"} \/ phase[d] \in {"none", "pending"} =>
             phase'[d] = phase[d]
      BY <1>1, <2>3
    <3>2. phase[c] # "none" /\ owner[c] # NoSlot
      BY <1>1, <1>2
    <3> QED
      BY <2>2, <2>3, <3>1, <3>2 DEF IInv, PhaseInv
  <2>8. EntryInv'
    BY <2>4 DEF IInv, EntryInv
  <2>9. AddressInv'
    <3>1. \A d \in Conns : owner[d] # NoSlot => owner[d] \in Slots
      BY DEF IInv, Types
    <3>2. \A d \in Conns : handle'[d] = handle[d] \/ (d = w /\ handle'[d] = c)
      BY <2>3
    <3>3. \A d \in Conns : object'[d] = object[d] \/ (d = c /\ object'[d] = w)
      BY <2>3
    <3>4. \A t \in Slots : slot'[t].pSocket = slot[t].pSocket \/ (t = s /\ slot'[t].pSocket = w)
      BY <2>4
    <3> QED
      BY <1>1, <1>2, <1>3, <2>2, <2>4, <3>1, <3>2, <3>3, <3>4 DEF IInv, AddressInv
  <2>10. (steady => MapInv)'
    <3>1. \A p \in Paps : bActualClientConnection[p] # NoSlot => bActualClientConnection[p] \in Slots
      BY DEF IInv, Types
    <3>2. \A m \in sending : m.slot \in Slots
      BY DEF IInv, Types
    <3> QED
      BY <2>2, <2>4, <3>1, <3>2 DEF IInv, MapInv
  <2>11. (steady /\ FirstCloses => FirstCloseInv)'
    <3> SUFFICES ASSUME steady, FirstCloses' PROVE FirstCloseInv'
      BY <2>2
    <3>1. FirstCloseInv
      BY <2>2 DEF IInv, FirstCloses
    <3>2. slot[s].pSocket = 0 /\ w = c
      BY <1>4, <3>1
    <3>3. 1 .. made \subseteq Conns
      BY DEF IInv, Types, Conns
    <3>4. AgainInv'
      BY <1>1, <2>2, <2>3, <3>1, <3>3 DEF FirstCloseInv, AgainInv
    <3>5. TurnInv'
      <4>1. \A d \in Conns : Second(d)' <=> Second(d)
        BY <2>2 DEF Second
      <4>2. \A b, d \in Conns : b < d /\ owner[b] = owner[d] /\ owner[b] # NoSlot
               /\ phase'[d] \in {"attached", "closed"} => phase'[b] = "closed"
        <5> SUFFICES ASSUME NEW b \in Conns, NEW d \in Conns, b < d, owner[b] = owner[d],
                            owner[b] # NoSlot, phase'[d] \in {"attached", "closed"}
                     PROVE  phase'[b] = "closed"
          OBVIOUS
        <5>1. CASE d = c
          <6>1. b \in 1 .. c - 1 /\ b # c
            BY <5>1 DEF Conns
          <6>2. phase[b] = "closed"
            BY <1>1, <5>1, <6>1 DEF FinsFirst
          <6> QED
            BY <2>3, <6>1, <6>2
        <5>2. CASE d # c
          <6>1. phase[b] = "closed"
            BY <2>3, <3>1, <5>2 DEF FirstCloseInv, TurnInv
          <6> QED
            BY <1>1, <2>3, <6>1
        <5> QED
          BY <5>1, <5>2
      <4>3. \A t \in Slots : slot'[t].ip # 0 => \E d \in Conns : owner'[d] = t
        BY <2>2, <2>4, <3>1 DEF FirstCloseInv, TurnInv
      <4>4. \A d \in Conns : phase'[d] = "posted" /\ slot'[owner'[d]].started => Second(d)
        <5> SUFFICES ASSUME NEW d \in Conns, phase'[d] = "posted", slot'[owner'[d]].started
                     PROVE  Second(d)
          OBVIOUS
        <5>1. d # c /\ phase[d] = "posted"
          BY <2>3
        <5>2. owner[d] \in Slots
          BY <5>1 DEF IInv, Types, PhaseInv
        <5>3. slot[owner[d]].started
          BY <2>2, <2>4, <5>2
        <5> QED
          BY <3>1, <5>1, <5>3 DEF FirstCloseInv, TurnInv
      <4>5. Second(c)
        BY <1>1, <3>1 DEF FirstCloseInv, TurnInv
      <4>6. \A d \in Conns : phase'[d] \in {"posted", "attached"} => index'[d] = owner'[d] \/ Second(d)
        BY <2>2, <2>3, <2>5, <3>1, <4>5 DEF FirstCloseInv, TurnInv
      <4> QED
        BY <2>2, <4>1, <4>2, <4>3, <4>4, <4>6 DEF TurnInv
    <3>6. SocketInv'
      <4> USE <3>1 DEF FirstCloseInv, SocketInv
      <4>1. \A d \in Conns : phase'[d] = "attached" =>
              /\ slot'[owner[d]].pSocket = d /\ slot'[owner[d]].started
              /\ object'[d] = d /\ handle'[d] = d
        <5> SUFFICES ASSUME NEW d \in Conns, phase'[d] = "attached"
                     PROVE  /\ slot'[owner[d]].pSocket = d /\ slot'[owner[d]].started
                            /\ object'[d] = d /\ handle'[d] = d
          OBVIOUS
        <5>1. CASE d = c
          <6>1. slot'[s].started
            BY <1>1, <2>4
          <6> QED
            BY <1>1, <2>3, <2>4, <3>2, <5>1, <6>1
        <5>2. CASE d # c
          <6>1. phase[d] = "attached" /\ owner[d] \in Slots
            BY <2>3, <5>2 DEF IInv, Types, PhaseInv
          <6>2. owner[d] # s
            BY <1>2, <3>2, <6>1 DEF Conns
          <6>3. slot'[owner[d]].started
            BY <2>4, <6>1
          <6> QED
            BY <2>3, <2>4, <3>2, <5>2, <6>1, <6>2, <6>3
        <5> QED
          BY <5>1, <5>2
      <4>2. \A t \in Slots : LET q == slot'[t].pSocket
              IN  q # 0 => /\ q \in alive'
                           /\ phase'[q] = IF slot'[t].started THEN "attached" ELSE "posted"
        <5> SUFFICES ASSUME NEW t \in Slots, NEW q, q = slot'[t].pSocket, q # 0
                     PROVE  q \in alive' /\ phase'[q] = IF slot'[t].started THEN "attached" ELSE "posted"
          OBVIOUS
        <5>1. CASE t = s
          <6>1. q = c /\ slot'[t].started
            BY <1>1, <2>4, <3>2, <5>1
          <6> QED
            BY <1>6, <2>3, <3>2, <6>1
        <5>2. CASE t # s
          <6>1. q = slot[t].pSocket
            BY <2>4, <5>2
          <6>2. q \in Conns /\ owner[q] = t
            BY <6>1 DEF IInv, AddressInv, Types, Entries
          <6>3. q # c
            BY <1>1, <5>2, <6>2
          <6>4. q \in alive /\ phase[q] = IF slot[t].started THEN "attached" ELSE "posted"
            BY <6>1
          <6>5. slot'[t].started = slot[t].started /\ phase'[q] = phase[q]
            BY <2>3, <2>4, <6>2, <6>3
          <6> QED
            BY <1>6, <6>4, <6>5
        <5> QED
          BY <5>1, <5>2
      <4>3. \A t \in Slots : slot'[t].ip # 0 /\ ~slot'[t].started =>
              \A d \in Conns : owner[d] = t => slot'[t].pSocket = d
        <5>1. \A t \in Slots : ~slot'[t].started => ~slot[t].started /\ t # s
          BY <1>1, <2>4
        <5> QED
          BY <2>4, <5>1
      <4> QED
        BY <2>2, <4>1, <4>2, <4>3
    <3> QED
      BY <2>2, <3>1, <3>4, <3>5, <3>6 DEF FirstCloseInv
  <2> QED
    BY <2>6, <2>7, <2>8, <2>9, <2>10, <2>11 DEF IInv
<1> QED
  BY <1>1, <1>5, <1>6 DEF w

LEMMA OnCloseKeeps ==
  ASSUME IInv, NEW s \in Slots, OnClose(s)
  PROVE  IInv'
<1> DEFINE o(c) == object[c]
           t(c) == index[o(c)]
           sound(c) == /\ o(c) \in alive /\ t(c) \in Slots
                       /\ slot[t(c)].ip # 0 /\ slot[t(c)].pSocket \in alive
<1>1. PICK c \in left :
        /\ owner[c] = s /\ phase[c] = "attached"
        /\ \/ /\ sound(c)
              /\ CloseAll({o(c), slot[t(c)].pSocket}, c)
              /\ alive' = alive \ {o(c)}
              /\ slot' = Unlinked(t(c))
              /\ index' = [index EXCEPT ![o(c)] = NoSlot]
              /\ OwnerStep /\ UNCHANGED <<object, bActualClientConnection>>
           \/ ~sound(c) /\ Crash("owner")
  BY DEF OnClose
<1> DEFINE w == o(c)
           u == t(c)
<1>2. c \in Conns /\ c \in 1 .. made /\ s # NoSlot
  <2>1. s # NoSlot
    BY DEF Slots, NoSlot
  <2> QED
    BY <1>1, <2>1 DEF IInv, Types, Conns
\* In a first close the connection is the first of its entry, and has all to itself.
<1>3. steady /\ FirstCloses /\ FirstCloseInv =>
        /\ sound(c) /\ w = c /\ u = s /\ slot[s].pSocket = c /\ handle[c] = c /\ slot[s].started
  <2> SUFFICES ASSUME steady, FirstCloses, FirstCloseInv
               PROVE  /\ sound(c) /\ w = c /\ u = s /\ slot[s].pSocket = c /\ handle[c] = c
                      /\ slot[s].started
    OBVIOUS
  <2>1. slot[s].pSocket = c /\ slot[s].started /\ w = c /\ handle[c] = c
    BY <1>1, <1>2 DEF FirstCloseInv, SocketInv
  <2>2. c \in alive /\ slot[s].ip # 0
    <3>1. c # 0 /\ conn[c].ip # 0
      BY <1>2 DEF IInv, Types, Conns
    <3> QED
      BY <1>1, <1>2, <2>1, <3>1 DEF FirstCloseInv, SocketInv, IInv, AddressInv
  <2>3. ~Second(c)
    <3> SUFFICES ASSUME NEW b \in 1 .. c - 1, owner[b] = s PROVE FALSE
      BY <1>1 DEF Second
    <3>1. b \in Conns /\ b < c /\ b \in 1 .. made
      BY <1>2 DEF Conns, IInv, Types
    <3>2. b \in left
      BY <1>1, <1>2, <3>1 DEF FirstCloseInv, TurnInv, AgainInv
    <3>3. conn[b].ip = conn[c].ip
      BY <1>1, <1>2, <3>1 DEF IInv, AddressInv
    <3>4. conn[b].pap = conn[c].pap
      <4>1. conn[b].pap \in Paps /\ conn[c].pap \in Paps
        BY <1>2, <3>1 DEF IInv, Types
      <4> QED
        BY <1>2, <3>1, <3>3, <4>1, FirstLeaseIsLease DEF IInv, MapInv
    <3> QED
      BY <1>1, <3>1, <3>2, <3>4 DEF FirstCloses, Conns
  <2>4. index[c] = s
    BY <1>1, <1>2, <2>3 DEF FirstCloseInv, TurnInv
  <2> QED
    BY <2>1, <2>2, <2>4
<1>4. CASE ~sound(c) /\ Crash("owner")
  BY <1>3, <1>4, CrashKeeps
<1>5. ASSUME sound(c),
             CloseAll({w, slot[u].pSocket}, c), alive' = alive \ {w},
             slot' = Unlinked(u), index' = [index EXCEPT ![w] = NoSlot],
             OwnerStep, UNCHANGED <<object, bActualClientConnection>>
      PROVE  IInv'
  <2>1. w \in Conns /\ u \in Slots /\ slot[u].pSocket \in Conns
    BY <1>5 DEF IInv, Types
  <2> HIDE DEF w, u
  <2>2. UNCHANGED <<steady, crashed, lease, conn, made, left, owner, sending, astray, object,
                    bActualClientConnection>>
    BY <1>5 DEF OwnerStep, Same, network
  <2> DEFINE os == {w, slot[u].pSocket}
             shut(d) == d = c \/ \E q \in os : handle[q] = d
  <2>3. /\ phase' = [d \in Conns |-> IF shut(d) THEN "closed" ELSE phase[d]]
        /\ handle' = [q \in Conns |-> IF q \in os THEN 0 ELSE handle[q]]
    BY <1>5 DEF CloseAll
  <2>4. \A q \in os : q \in Conns
    BY <2>1
  <2> HIDE DEF os
  <2>5. \A d \in Conns : shut(d) => owner[d] # NoSlot
    <3> SUFFICES ASSUME NEW d \in Conns, NEW q \in os, handle[q] = d PROVE owner[d] # NoSlot
      BY <1>1, <1>2
    <3>1. d # 0
      BY DEF Conns
    <3> QED
      BY <2>4, <3>1 DEF IInv, AddressInv
  <2>6. \A d \in Conns : phase'[d] = IF shut(d) THEN "closed" ELSE phase[d]
    BY <2>3
  <2> HIDE DEF shut
  <2>7. /\ slot' \in [Slots -> Entries]
        /\ \A v \in Slots : /\ slot'[v].ip = slot[v].ip /\ slot'[v].started = slot[v].started
                            /\ slot'[v].list = slot[v].list
                            /\ v # u => slot'[v].pSocket = slot[v].pSocket
        /\ slot'[u].pSocket = 0
    <3>1. slot' = [slot EXCEPT ![u].pSocket = 0, ![u].bConnected = FALSE]
      BY <1>5 DEF Unlinked
    <3>2. slot \in [Slots -> Entries] /\ slot[u] \in Entries
      BY <2>1 DEF IInv, Types
    <3> QED
      BY <2>1, <3>1, <3>2 DEF Entries
  <2>8. Types'
    <3>1. phase' \in [Conns -> Phases]
      BY <2>3 DEF IInv, Types, Phases
    <3>2. handle' \in [Conns -> Conns \cup {0}]
      BY <2>3 DEF IInv, Types
    <3>3. alive' \subseteq Conns /\ index' \in [Conns -> Slots \cup {NoSlot}]
      BY <1>5 DEF IInv, Types
    <3> QED
      BY <2>2, <2>7, <3>1, <3>2, <3>3 DEF IInv, Types
  <2>9. PhaseInv'
    <3>1. \A d \in Conns : phase'[d] = phase[d] \/ (phase'[d] = "closed" /\ owner[d] # NoSlot)
      BY <2>5, <2>6
    <3>2. \A d \in Conns : owner[d] # NoSlot => d <= made /\ phase[d] \notin {"none", "pending"}
      BY DEF IInv, PhaseInv, AddressInv
    <3>3. \A d \in Conns : phase'[d] \in {"none", "pending"} <=> phase[d] \in {"none", "pending"}
      BY <3>1, <3>2
    <3>4. \A d \in Conns : phase'[d] = "pending" => phase[d] = "pending"
      BY <3>1
    <3> QED
      BY <2>2, <3>1, <3>2, <3>3, <3>4 DEF IInv, PhaseInv
  <2>10. EntryInv'
    BY <2>7 DEF IInv, EntryInv
  <2>11. AddressInv'
    <3>1. \A d \in Conns : owner[d] # NoSlot => owner[d] \in Slots
      BY DEF IInv, Types
    <3>2. \A d \in Conns : handle'[d] = handle[d] \/ handle'[d] = 0
      BY <2>3
    <3>3. \A v \in Slots : slot'[v].pSocket = slot[v].pSocket \/ slot'[v].pSocket = 0
      BY <2>7
    <3> QED
      BY <2>2, <2>7, <3>1, <3>2, <3>3 DEF IInv, AddressInv
  <2>12. (steady => MapInv)'
    <3>1. \A p \in Paps : bActualClientConnection[p] # NoSlot => bActualClientConnection[p] \in Slots
      BY DEF IInv, Types
    <3>2. \A m \in sending : m.slot \in Slots
      BY DEF IInv, Types
    <3> QED
      BY <2>2, <2>7, <3>1, <3>2 DEF IInv, MapInv
  <2>13. (steady /\ FirstCloses => FirstCloseInv)'
    <3> SUFFICES ASSUME steady, FirstCloses' PROVE FirstCloseInv'
      BY <2>2
    <3>1. FirstCloseInv /\ FirstCloses
      BY <2>2 DEF IInv, FirstCloses
    <3>2. w = c /\ u = s /\ slot[s].pSocket = c /\ handle[c] = c /\ slot[s].started
      BY <1>3, <3>1
    <3>3. os = {c}
      BY <3>2 DEF os
    <3>4. \A d \in Conns : d # c => phase'[d] = phase[d] /\ handle'[d] = handle[d] /\ index'[d] = index[d]
      BY <1>5, <2>3, <2>6, <3>2, <3>3 DEF shut, IInv, Types
    <3>5. phase'[c] = "closed"
      BY <1>2, <2>6 DEF shut
    <3>6. 1 .. made \subseteq Conns
      BY DEF IInv, Types, Conns
    <3>7. AgainInv'
      BY <1>1, <2>2, <3>1, <3>4, <3>5, <3>6 DEF FirstCloseInv, AgainInv
    <3>8. TurnInv'
      <4>1. \A d \in Conns : Second(d)' <=> Second(d)
        BY <2>2 DEF Second
      <4>2. \A b, d \in Conns : b < d /\ owner[b] = owner[d] /\ owner[b] # NoSlot
               /\ phase'[d] \in {"attached", "closed"} => phase'[b] = "closed"
        <5>1. \A d \in Conns : phase'[d] \in {"attached", "closed"} => phase[d] \in {"attached", "closed"}
          BY <1>1, <3>4
        <5>2. \A d \in Conns : phase[d] = "closed" => phase'[d] = "closed"
          BY <3>4, <3>5
        <5> QED
          BY <3>1, <5>1, <5>2 DEF FirstCloseInv, TurnInv
      <4>3. \A v \in Slots : slot'[v].ip # 0 => \E d \in Conns : owner'[d] = v
        BY <2>2, <2>7, <3>1 DEF FirstCloseInv, TurnInv
      <4>4. \A d \in Conns : phase'[d] = "posted" /\ slot'[owner'[d]].started => Second(d)
        <5> SUFFICES ASSUME NEW d \in Conns, phase'[d] = "posted", slot'[owner'[d]].started
                     PROVE  Second(d)
          OBVIOUS
        <5>1. d # c /\ phase[d] = "posted"
          BY <3>4, <3>5
        <5>2. owner[d] \in Slots
          BY <5>1 DEF IInv, Types, PhaseInv
        <5>3. slot[owner[d]].started
          BY <2>2, <2>7, <5>2
        <5> QED
          BY <3>1, <5>1, <5>3 DEF FirstCloseInv, TurnInv
      <4>5. \A d \in Conns : phase'[d] \in {"posted", "attached"} => index'[d] = owner'[d] \/ Second(d)
        BY <2>2, <3>1, <3>4, <3>5 DEF FirstCloseInv, TurnInv
      <4> QED
        BY <2>2, <4>1, <4>2, <4>3, <4>4, <4>5 DEF TurnInv
    <3>9. SocketInv'
      <4> USE <3>1 DEF FirstCloseInv, SocketInv
      <4>1. \A d \in Conns : phase'[d] = "attached" =>
              /\ slot'[owner[d]].pSocket = d /\ slot'[owner[d]].started
              /\ object[d] = d /\ handle'[d] = d
        <5> SUFFICES ASSUME NEW d \in Conns, phase'[d] = "attached"
                     PROVE  /\ slot'[owner[d]].pSocket = d /\ slot'[owner[d]].started
                            /\ object[d] = d /\ handle'[d] = d
          OBVIOUS
        <5>1. d # c /\ phase[d] = "attached"
          BY <3>4, <3>5
        <5>2. owner[d] \in Slots /\ owner[d] # s
          BY <3>2, <5>1 DEF IInv, Types, PhaseInv
        <5>3. slot'[owner[d]].started
          BY <2>7, <5>1, <5>2
        <5> QED
          BY <2>7, <3>2, <3>4, <5>1, <5>2, <5>3
      <4>2. \A v \in Slots : LET q == slot'[v].pSocket
              IN  q # 0 => /\ q \in alive'
                           /\ phase'[q] = IF slot'[v].started THEN "attached" ELSE "posted"
        <5> SUFFICES ASSUME NEW v \in Slots, NEW q, q = slot'[v].pSocket, q # 0
                     PROVE  q \in alive' /\ phase'[q] = IF slot'[v].started THEN "attached" ELSE "posted"
          OBVIOUS
        <5>1. v # s /\ q = slot[v].pSocket
          BY <2>7, <3>2
        <5>2. q \in Conns /\ owner[q] = v
          BY <5>1 DEF IInv, AddressInv, Types, Entries
        <5>3. q # c
          BY <1>1, <5>1, <5>2
        <5>4. q \in alive /\ phase[q] = IF slot[v].started THEN "attached" ELSE "posted"
          BY <5>1
        <5>5. slot'[v].started = slot[v].started /\ phase'[q] = phase[q]
          BY <2>7, <3>4, <5>2, <5>3
        <5> QED
          BY <1>5, <3>2, <5>3, <5>4, <5>5
      <4>3. \A v \in Slots : slot'[v].ip # 0 /\ ~slot'[v].started =>
              \A d \in Conns : owner[d] = v => slot'[v].pSocket = d
        <5>1. \A v \in Slots : ~slot'[v].started => ~slot[v].started /\ v # s
          BY <2>7, <3>2
        <5> QED
          BY <2>7, <3>2, <5>1
      <4> QED
        BY <2>2, <4>1, <4>2, <4>3
    <3> QED
      BY <2>2, <3>1, <3>7, <3>8, <3>9 DEF FirstCloseInv
  <2> QED
    BY <2>8, <2>9, <2>10, <2>11, <2>12, <2>13 DEF IInv
<1> QED
  BY <1>1, <1>4, <1>5

\* Whatever was notified, the packet is one of a PAP that has the address of the entry.
LEMMA OnReceiveKeeps ==
  ASSUME IInv, NEW c \in Conns, OnReceive(c)
  PROVE  IInv'
<1> DEFINE o == object[c]
           k == handle[o]
           s == owner[c]
<1>1. phase[c] = "attached"
  BY DEF OnReceive
<1>2. s \in Slots /\ s # NoSlot
  BY <1>1 DEF IInv, PhaseInv, Types
<1>3. steady /\ FirstCloseInv => o \in alive
  BY <1>1, <1>2 DEF FirstCloseInv, SocketInv, Conns
<1>4. CASE o \notin alive /\ Crash("owner")
  BY <1>3, <1>4, CrashKeeps
<1>5. ASSUME o \in alive, k # 0,
             bActualClientConnection' = Learn(conn[k].pap, s),
             slot' = [slot EXCEPT ![s].bConnected = TRUE],
             OwnerStep, UNCHANGED <<phase, sockets>>
      PROVE  IInv'
  <2>1. o \in Conns /\ o # 0 /\ k \in Conns
    BY <1>5 DEF IInv, Types, Conns
  <2>2. owner[o] = s /\ owner[k] = s
    BY <1>5, <2>1 DEF IInv, AddressInv
  <2> HIDE DEF o, k
  <2>3. k \in 1 .. made /\ slot[s].ip = conn[k].ip
    BY <1>2, <2>1, <2>2 DEF IInv, AddressInv, Conns, Types
  <2>4. conn[k].pap \in Paps
    BY <2>3 DEF IInv, Types
  <2> HIDE DEF s
  <2>5. UNCHANGED <<steady, crashed, lease, conn, made, left, owner, sending, astray, phase,
                    alive, index, handle, object>>
    BY <1>5 DEF OwnerStep, Same, network, sockets
  <2>6. /\ slot' \in [Slots -> Entries]
        /\ \A t \in Slots : /\ slot'[t].ip = slot[t].ip /\ slot'[t].started = slot[t].started
                            /\ slot'[t].list = slot[t].list /\ slot'[t].pSocket = slot[t].pSocket
    <3>1. slot \in [Slots -> Entries] /\ slot[s] \in Entries
      BY <1>2 DEF IInv, Types
    <3> QED
      BY <1>2, <1>5, <3>1 DEF Entries
  <2>7. /\ bActualClientConnection' \in [Paps -> Slots \cup {NoSlot}]
        /\ \A p \in Paps : \/ bActualClientConnection'[p] = bActualClientConnection[p]
                           \/ p = conn[k].pap /\ bActualClientConnection'[p] = s
    BY <1>2, <1>5, <2>4 DEF Learn, IInv, Types
  <2>8. Types'
    BY <2>5, <2>6, <2>7 DEF IInv, Types
  <2>9. PhaseInv'
    BY <2>5 DEF IInv, PhaseInv
  <2>10. EntryInv'
    BY <2>6 DEF IInv, EntryInv
  <2>11. AddressInv'
    <3>1. \A d \in Conns : owner[d] # NoSlot => owner[d] \in Slots
      BY DEF IInv, Types
    <3> QED
      BY <2>5, <2>6, <3>1 DEF IInv, AddressInv
  <2>12. (steady => MapInv)'
    <3> SUFFICES ASSUME steady PROVE MapInv'
      BY <2>5
    <3>1. MapInv
      BY DEF IInv
    <3>2. \A p \in Paps : bActualClientConnection[p] # NoSlot => bActualClientConnection[p] \in Slots
      BY DEF IInv, Types
    <3>3. \A m \in sending : m.slot \in Slots
      BY DEF IInv, Types
    <3>4. slot[s].ip = FirstLease[conn[k].pap]
      BY <2>3, <3>1 DEF MapInv
    <3>5. \A p \in Paps : bActualClientConnection'[p] # NoSlot =>
            slot'[bActualClientConnection'[p]].ip = FirstLease[p]
      <4> SUFFICES ASSUME NEW p \in Paps, bActualClientConnection'[p] # NoSlot
                   PROVE  slot'[bActualClientConnection'[p]].ip = FirstLease[p]
        OBVIOUS
      <4>1. CASE bActualClientConnection'[p] = bActualClientConnection[p]
        BY <2>6, <3>1, <3>2, <4>1 DEF MapInv
      <4>2. CASE p = conn[k].pap /\ bActualClientConnection'[p] = s
        BY <1>2, <2>6, <3>4, <4>2
      <4> QED
        BY <2>7, <4>1, <4>2
    <3> QED
      BY <2>5, <2>6, <3>1, <3>3, <3>5 DEF MapInv
  <2>13. (steady /\ FirstCloses => FirstCloseInv)'
    <3> SUFFICES ASSUME steady, FirstCloses' PROVE FirstCloseInv'
      BY <2>5
    <3>1. FirstCloseInv
      BY <2>5 DEF IInv, FirstCloses
    <3>2. \A d \in Conns : phase[d] \in {"posted", "attached"} => owner[d] \in Slots
      BY DEF IInv, PhaseInv, Types
    <3>3. AgainInv'
      BY <2>5, <3>1 DEF FirstCloseInv, AgainInv
    <3>4. TurnInv'
      BY <2>5, <2>6, <3>1, <3>2 DEF FirstCloseInv, TurnInv, Second
    <3>5. SocketInv'
      BY <2>5, <2>6, <3>1, <3>2 DEF FirstCloseInv, SocketInv
    <3> QED
      BY <2>5, <3>1, <3>3, <3>4, <3>5 DEF FirstCloseInv
  <2> QED
    BY <2>8, <2>9, <2>10, <2>11, <2>12, <2>13 DEF IInv
<1> QED
  BY <1>4, <1>5 DEF OnReceive

-----------------------------------------------------------------------------
(* Commands.  These steps change no more than a list, the command that is  *)
(* being sent, and what has gone astray.                                   *)

LEMMA CommandKeeps ==
  ASSUME IInv,
         UNCHANGED <<steady, crashed, network, phase, owner, sockets, bActualClientConnection>>,
         slot' \in [Slots -> Entries],
         \A t \in Slots : /\ slot'[t].ip = slot[t].ip /\ slot'[t].started = slot[t].started
                          /\ slot'[t].pSocket = slot[t].pSocket,
         sending' \subseteq [pap : Paps, slot : Slots], \A m, n \in sending' : m = n,
         astray' \in BOOLEAN,
         steady => MapInv'
  PROVE  IInv'
<1>1. UNCHANGED <<steady, crashed, lease, conn, made, left, phase, owner, alive, index, handle, object,
                  bActualClientConnection>>
  BY DEF network, sockets
<1>2. Types'
  BY <1>1 DEF IInv, Types
<1>3. PhaseInv'
  BY <1>1 DEF IInv, PhaseInv
<1>4. EntryInv'
  BY DEF IInv, EntryInv
<1>5. AddressInv'
  <2>1. \A d \in Conns : owner[d] # NoSlot => owner[d] \in Slots
    BY DEF IInv, Types
  <2> QED
    BY <1>1, <2>1 DEF IInv, AddressInv
<1>6. (steady /\ FirstCloses => FirstCloseInv)'
  <2> SUFFICES ASSUME steady, FirstCloses' PROVE FirstCloseInv'
    BY <1>1
  <2>1. FirstCloseInv
    BY <1>1 DEF IInv, FirstCloses
  <2>2. \A d \in Conns : phase[d] \in {"posted", "attached"} => owner[d] \in Slots
    BY DEF IInv, PhaseInv, Types
  <2>3. AgainInv'
    BY <1>1, <2>1 DEF FirstCloseInv, AgainInv
  <2>4. TurnInv'
    BY <1>1, <2>1, <2>2 DEF FirstCloseInv, TurnInv, Second
  <2>5. SocketInv'
    BY <1>1, <2>1, <2>2 DEF FirstCloseInv, SocketInv
  <2> QED
    BY <1>1, <2>1, <2>3, <2>4, <2>5 DEF FirstCloseInv
<1> QED
  BY <1>1, <1>2, <1>3, <1>4, <1>5, <1>6 DEF IInv

\* The socket of an entry has a connection of its address, which only one PAP has.
LEMMA TransmitKeeps ==
  ASSUME IInv, NEW s \in Slots, TransmitPackets(s)
  PROVE  IInv'
<1> DEFINE o == slot[s].pSocket
           c == handle[o]
<1>1. slot[s].list # {} /\ o # 0
  BY DEF TransmitPackets
<1>2. slot[s] \in Entries /\ o \in Conns
  BY <1>1 DEF IInv, Types, Entries
<1>3. steady /\ FirstCloseInv => o \in alive
  BY <1>1 DEF FirstCloseInv, SocketInv
<1>4. CASE o \notin alive /\ Crash("owner")
  BY <1>3, <1>4, CrashKeeps
<1>5. ASSUME slot' = [slot EXCEPT ![s].list = {}],
             astray' = (astray \/ (c # 0 /\ c \notin left /\ slot[s].list # {conn[c].pap})),
             Same, UNCHANGED <<network, phase, owner, sockets, bActualClientConnection, sending>>
      PROVE  IInv'
  <2>1. /\ slot' \in [Slots -> Entries]
        /\ \A t \in Slots : /\ slot'[t].ip = slot[t].ip /\ slot'[t].started = slot[t].started
                            /\ slot'[t].pSocket = slot[t].pSocket
                            /\ t # s => slot'[t].list = slot[t].list
        /\ slot'[s].list = {}
    <3>1. slot \in [Slots -> Entries]
      BY DEF IInv, Types
    <3> QED
      BY <1>2, <1>5, <3>1 DEF Entries
  <2>2. ASSUME steady, c # 0 PROVE slot[s].list = {conn[c].pap}
    <3>1. owner[o] = s /\ owner[c] = s /\ c \in Conns /\ s # NoSlot
      BY <1>1, <1>2, <2>2 DEF IInv, AddressInv, Types, Slots, NoSlot
    <3> HIDE DEF o, c
    <3>2. c \in 1 .. made /\ conn[c].ip = slot[s].ip
      BY <3>1 DEF IInv, AddressInv, Conns, Types
    <3>3. conn[c].pap \in Paps /\ slot[s].ip = FirstLease[conn[c].pap]
      BY <2>2, <3>2 DEF IInv, MapInv, Types
    <3>4. \A p \in slot[s].list : p \in Paps /\ FirstLease[p] = slot[s].ip
      BY <1>2, <2>2 DEF IInv, MapInv, Entries
    <3>5. \A p \in slot[s].list : p = conn[c].pap
      BY <3>3, <3>4, FirstLeaseIsLease
    <3> QED
      BY <1>1, <3>5
  <2>3. astray' \in BOOLEAN /\ (steady => astray' = astray)
    BY <1>5, <2>2 DEF IInv, Types
  <2>4. steady => MapInv'
    <3>1. \A p \in Paps : bActualClientConnection[p] # NoSlot => bActualClientConnection[p] \in Slots
      BY DEF IInv, Types
    <3>2. \A m \in sending : m.slot \in Slots
      BY DEF IInv, Types
    <3>3. \A t \in Slots : \A p \in slot'[t].list : p \in slot[t].list
      BY <2>1
    <3>4. UNCHANGED <<lease, made, conn, bActualClientConnection, sending>>
      BY <1>5 DEF network
    <3> SUFFICES ASSUME steady PROVE MapInv'
      OBVIOUS
    <3>5. MapInv /\ ~astray'
      BY <2>3 DEF IInv, MapInv
    <3>6. /\ lease' = FirstLease'
          /\ \A d \in 1 .. made' : conn'[d].ip = FirstLease'[conn'[d].pap]
      BY <3>4, <3>5 DEF MapInv, FirstLease
    <3>7. \A p \in Paps : bActualClientConnection'[p] # NoSlot =>
                          slot'[bActualClientConnection'[p]].ip = FirstLease[p]
      BY <2>1, <3>1, <3>4, <3>5 DEF MapInv
    <3>8. \A n \in sending' : slot'[n.slot].ip = FirstLease[n.pap]
      BY <2>1, <3>2, <3>4, <3>5 DEF MapInv
    <3>9. \A t \in Slots : \A p \in slot'[t].list : slot'[t].ip = FirstLease[p]
      BY <2>1, <3>3, <3>5 DEF MapInv
    <3> QED
      BY <3>4, <3>5, <3>6, <3>7, <3>8, <3>9 DEF MapInv, FirstLease
  <2> QED
    BY <1>5, <2>1, <2>3, <2>4, CommandKeeps DEF Same, IInv, Types
<1> QED
  BY <1>4, <1>5 DEF TransmitPackets

LEMMA SendMsgKeeps ==
  ASSUME IInv, NEW p \in Paps, SendMsgToPAP(p)
  PROVE  IInv'
<1> DEFINE s == bActualClientConnection[p]
           m == [pap |-> p, slot |-> s]
<1>1. /\ s \in Slots /\ sending' = {m}
      /\ UNCHANGED <<steady, crashed, network, phase, owner, sockets, bActualClientConnection, astray,
                     slot>>
  BY DEF SendMsgToPAP, GuiStep, Same
<1>2. m.pap = p /\ m.slot = s /\ m \in [pap : Paps, slot : Slots] /\ s # NoSlot
  BY <1>1 DEF Slots, NoSlot
<1> HIDE DEF m
<1>3. steady => MapInv'
  <2>1. ASSUME steady, NEW n \in sending' PROVE slot[n.slot].ip = FirstLease[n.pap]
    BY <1>1, <1>2, <2>1 DEF IInv, MapInv
  <2> QED
    BY <1>1, <2>1 DEF IInv, MapInv, network
<1>4. slot' \in [Slots -> Entries] /\ astray' \in BOOLEAN
  BY <1>1 DEF IInv, Types
<1>5. sending' \subseteq [pap : Paps, slot : Slots] /\ \A n, l \in sending' : n = l
  BY <1>1, <1>2
<1> QED
  BY <1>1, <1>3, <1>4, <1>5, CommandKeeps

LEMMA SendPacketKeeps ==
  ASSUME IInv, SendPacketToPAP
  PROVE  IInv'
<1>1. PICK m \in sending :
        \/ /\ slot' = [slot EXCEPT ![m.slot].list = @ \cup {m.pap}]
           /\ sending' = {} /\ GuiStep
        \/ Crash("gui")
  BY DEF SendPacketToPAP
<1>2. CASE Crash("gui")
  BY <1>2, CrashKeeps
<1>3. ASSUME slot' = [slot EXCEPT ![m.slot].list = @ \cup {m.pap}], sending' = {}, GuiStep
      PROVE  IInv'
  <2>1. m.slot \in Slots /\ m.pap \in Paps
    BY <1>1 DEF IInv, Types
  <2>2. UNCHANGED <<steady, crashed, network, phase, owner, sockets, bActualClientConnection, astray>>
    BY <1>3 DEF GuiStep, Same
  <2>3. slot \in [Slots -> Entries] /\ slot[m.slot] \in Entries
    BY <2>1 DEF IInv, Types
  <2>4. /\ slot' \in [Slots -> Entries]
        /\ \A t \in Slots : /\ slot'[t].ip = slot[t].ip /\ slot'[t].started = slot[t].started
                            /\ slot'[t].pSocket = slot[t].pSocket
                            /\ t # m.slot => slot'[t].list = slot[t].list
        /\ slot'[m.slot].list = slot[m.slot].list \cup {m.pap}
    BY <1>3, <2>1, <2>3 DEF Entries
  <2>5. steady => MapInv'
    <3> SUFFICES ASSUME steady PROVE MapInv'
      OBVIOUS
    <3>1. MapInv
      BY DEF IInv
    <3>2. \A p \in Paps : bActualClientConnection[p] # NoSlot => bActualClientConnection[p] \in Slots
      BY DEF IInv, Types
    <3>3. slot[m.slot].ip = FirstLease[m.pap]
      BY <1>1, <3>1 DEF MapInv
    <3>4. \A t \in Slots : \A p \in slot'[t].list :
            p \in slot[t].list \/ (t = m.slot /\ p = m.pap)
      BY <2>4
    <3>5. \A t \in Slots : \A p \in slot'[t].list : slot'[t].ip = FirstLease[p]
      BY <2>4, <3>1, <3>3, <3>4 DEF MapInv
    <3> QED
      BY <1>3, <2>2, <2>4, <3>1, <3>2, <3>5 DEF MapInv, network
  <2>6. astray' \in BOOLEAN
    BY <2>2 DEF IInv, Types
  <2> QED
    BY <1>3, <2>2, <2>4, <2>5, <2>6, CommandKeeps
<1> QED
  BY <1>1, <1>2, <1>3

-----------------------------------------------------------------------------
(* The theorems.                                                           *)

LEMMA NextIInv == IInv /\ [Next]_vars => IInv'
<1> SUFFICES ASSUME IInv, [Next]_vars PROVE IInv'
  OBVIOUS
<1>1. ASSUME NEW p \in Paps, Connect(p) \/ SendMsgToPAP(p) PROVE IInv'
  BY <1>1, ConnectKeeps, SendMsgKeeps
<1>2. ASSUME NEW c \in Conns, Disconnect(c) \/ OnReceive(c) PROVE IInv'
  BY <1>2, DisconnectKeeps, OnReceiveKeeps
<1>3. ASSUME NEW s \in Slots, Owner(s) PROVE IInv'
  BY <1>3, InitInstanceKeeps, AttachSocketKeeps, OnCloseKeeps, TransmitKeeps DEF Owner
<1>4. CASE OnAccept
  BY <1>4, AcceptNewKeeps, AcceptAgainKeeps, AcceptRefusedKeeps DEF OnAccept
<1>5. CASE SendPacketToPAP
  BY <1>5, SendPacketKeeps
<1>6. CASE Renew
  BY <1>6, RenewKeeps
<1>7. CASE UNCHANGED vars
  <2> USE <1>7 DEF vars, network, sockets
  <2>1. Types'
    BY DEF IInv, Types
  <2>2. PhaseInv' /\ EntryInv' /\ AddressInv' /\ (steady => MapInv)'
    BY DEF IInv, PhaseInv, EntryInv, AddressInv, MapInv
  <2>3. (steady /\ FirstCloses => FirstCloseInv)'
    BY DEF IInv, FirstCloses, FirstCloseInv, AgainInv, TurnInv, SocketInv, Second
  <2> QED
    BY <2>1, <2>2, <2>3 DEF IInv
<1> QED
  BY <1>1, <1>2, <1>3, <1>4, <1>5, <1>6, <1>7 DEF Next

\* The map, its sockets and the commands on their way, in every state.
THEOREM MapInvariant == Spec => []IInv
<1>1. Init => IInv
  BY InitIInv
<1>2. IInv /\ [Next]_vars => IInv'
  BY NextIInv
<1> QED
  BY <1>1, <1>2, PTL DEF Spec

\* While the PAPs keep their addresses no command comes to another PAP than the one
\* it is for, whatever closes and connects again while it waits in the list of an
\* entry (SendMsgToPAP, OnReceive, TransmitPackets).
THEOREM CommandsFindTheirPap == Spec => []SteadyRightPap
<1>1. IInv => SteadyRightPap
  BY DEF IInv, MapInv, SteadyRightPap
<1> QED
  BY <1>1, MapInvariant, PTL

\* The types, and: in a steady network no owner thread meets a socket that is gone until
\* a PAP closes for the second time (OnClose, AttachSocket, OnReceive, TransmitPackets).
THEOREM FirstCloseIsSafe == Spec => []Inv
<1>1. IInv => TypeOK
  <2> SUFFICES ASSUME IInv PROVE TypeOK
    OBVIOUS
  <2>1. Cardinality(sending) <= 1
    <3>1. CASE sending = {}
      BY <3>1, FS_EmptySet
    <3>2. CASE sending # {}
      <4>1. PICK m \in sending : TRUE
        BY <3>2
      <4>2. sending = {m}
        BY <4>1 DEF IInv, Types
      <4>3. Cardinality({m}) = 1
        BY FS_Singleton
      <4> QED
        BY <4>2, <4>3
    <3> QED
      BY <3>1, <3>2
  <2> QED
    BY <2>1 DEF IInv, Types, TypeOK, Entries, Phases
<1>2. IInv => FirstCloseSafe
  BY DEF IInv, FirstCloseInv, FirstCloses, FirstCloseSafe
<1> QED
  BY <1>1, <1>2, MapInvariant, PTL DEF Inv

=============================================================================
