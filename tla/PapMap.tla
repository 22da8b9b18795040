------------------------------- MODULE PapMap -------------------------------
(***************************************************************************)
(* How the PAG finds the connection of a PAP.  PAPs get their addresses by *)
(* DHCP, so the order of the connections says nothing: OnAccept gives each *)
(* address an entry of pClientConnection, its owner thread attaches the    *)
(* connections of that address one after the other, and every packet       *)
(* received tells which PAP is behind the entry (bActualClientConnection). *)
(* Commands are sent to the entry that the map has for a PAP.              *)
(*                                                                         *)
(* A connection and the CServerSocket made for it have the same number.    *)
(* After an access to what is no longer there the model stops (crashed).   *)
(***************************************************************************)
EXTENDS Integers, FiniteSets, FiniteSetsExt

CONSTANTS
  Paps,       \* PAP numbers
  Addresses,  \* IP addresses the DHCP server may give out
  MAX_CLIENTS_PER_SERVER,
  MaxConns,   \* bound: times the PAPs connect, if steady
  MaxMoving   \* bound: the same if not

Conns == 1 .. MaxConns
Slots == 0 .. MAX_CLIENTS_PER_SERVER - 1
NoSlot == 255

Leases == {f \in [Paps -> Addresses] : \A p, q \in Paps : f[p] = f[q] => p = q}

\* Entries are numbered by bytes, of which 0xff is none; there is an address for every PAP.
ASSUME MapAssumption ==
  /\ MAX_CLIENTS_PER_SERVER \in 1 .. NoSlot /\ MaxConns \in Nat
  /\ MaxMoving \in 0 .. MaxConns
  /\ 0 \notin Addresses /\ Leases # {}

FirstLease == CHOOSE f \in Leases : TRUE  \* addresses are only compared

VARIABLES
  steady,     \* leases last, FINs arrive before the next SYN, Sleeps are long enough
  lease,      \* the address of each PAP
  conn,       \* who made each connection, and from where: [pap, ip]
  made,       \* connections so far
  left,       \* those the PAP has closed
  phase,      \* of each: "none", "pending", "posted", "attached", "lost" or "closed"
  owner,      \* the entry whose owner thread it was handed to
  slot,       \* pClientConnection: [ip, pSocket, started, bConnected, list]
  alive,      \* the CServerSockets there are
  index,      \* m_nClientIndex of each
  handle,     \* m_hSocket of each: a connection, or 0
  object,     \* the socket that the handle map of its owner thread has for a connection
  bActualClientConnection,
  sending,    \* SendMsgToPAP has checked an entry: [pap, slot], or {}
  astray,     \* a command has come to another PAP than the one it is for
  crashed     \* the kind of thread that accessed what is not there, or "no"

network == <<lease, conn, made, left>>
sockets == <<alive, index, handle, object>>
vars == <<steady, network, phase, owner, slot, sockets, bActualClientConnection, sending, astray,
          crashed>>

Init ==
  /\ steady \in BOOLEAN
  /\ lease = FirstLease
  /\ conn = <<>> /\ made = 0 /\ left = {}
  /\ phase = [c \in Conns |-> "none"] /\ owner = [c \in Conns |-> NoSlot]
  /\ slot = [s \in Slots |-> [ip |-> 0, pSocket |-> 0, started |-> FALSE, bConnected |-> FALSE,
                              list |-> {}]]
  /\ alive = {} /\ index = [c \in Conns |-> NoSlot]
  /\ handle = [c \in Conns |-> 0] /\ object = [c \in Conns |-> 0]
  /\ bActualClientConnection = [p \in Paps |-> NoSlot]
  /\ sending = {} /\ astray = FALSE /\ crashed = "no"

Same == UNCHANGED <<steady, crashed>>

Crash(t) ==
  /\ crashed' = t
  /\ UNCHANGED <<steady, network, phase, owner, slot, sockets, bActualClientConnection, sending, astray>>

-----------------------------------------------------------------------------
\* The PAPs and the network.

Open(c) == c <= made /\ c \notin left /\ phase[c] # "closed"
Offline(p) == \A c \in 1 .. made : conn[c].pap = p => ~Open(c)

Network(A) ==
  /\ A /\ Same
  /\ UNCHANGED <<owner, slot, sockets, bActualClientConnection, sending, astray>>

Connect(p) ==
  Network(/\ Offline(p) /\ made < IF steady THEN MaxConns ELSE MaxMoving
          /\ made' = made + 1
          /\ conn' = [c \in 1 .. made' |-> IF c = made' THEN [pap |-> p, ip |-> lease[p]] ELSE conn[c]]
          /\ phase' = [phase EXCEPT ![made'] = "pending"]
          /\ UNCHANGED <<lease, left>>)

\* A PAP that stops, or closes its socket.
Disconnect(c) ==
  Network(Open(c) /\ left' = left \cup {c} /\ UNCHANGED <<lease, conn, made, phase>>)

\* Leases that run out, or a DHCP server that starts anew.  (Bound: once.)
Renew ==
  Network(/\ ~steady /\ lease = FirstLease
          /\ lease' \in Leases \ {lease}
          /\ \A p \in Paps : Offline(p) \/ lease'[p] = lease[p]
          /\ UNCHANGED <<conn, made, left, phase>>)

-----------------------------------------------------------------------------
\* OnAccept, on the listener thread.

Oldest(c) == phase[c] = "pending" /\ \A d \in 1 .. c - 1 : phase[d] # "pending"

\* Variant: an entry without a socket is taken too.
CandidatesDead(a) == {s \in Slots : slot[s].ip \in {0, a} \/ slot[s].pSocket = 0}

\* Entries are taken in order and stay with their address.
Candidates(a) == {s \in Slots : slot[s].ip \in {0, a}}

Accept(c) ==
  /\ Oldest(c)
  /\ steady => \A s \in Slots : slot[s].ip # 0 => slot[s].started
  /\ Same /\ UNCHANGED <<network, bActualClientConnection, sending, astray>>

\* An address not seen before: the structure, a socket, and the owner thread,
\* which attaches the handle when it starts.
OnAcceptNew(c) ==
  /\ Accept(c) /\ Candidates(conn[c].ip) # {}
  /\ LET s == Min(Candidates(conn[c].ip))
     IN  /\ slot[s].ip = 0
         /\ slot' = [slot EXCEPT ![s] = [ip |-> conn[c].ip, pSocket |-> c, started |-> FALSE,
                                         bConnected |-> TRUE, list |-> {}]]
         /\ index' = [index EXCEPT ![c] = s] /\ owner' = [owner EXCEPT ![c] = s]
  /\ alive' = alive \cup {c}
  /\ phase' = [phase EXCEPT ![c] = "posted"]
  /\ UNCHANGED <<handle, object>>

\* One seen before: the handle is posted to the owner thread.  A thread that has
\* not started has no queue, and the post is lost.
OnAcceptAgain(c) ==
  /\ Accept(c) /\ Candidates(conn[c].ip) # {}
  /\ LET s == Min(Candidates(conn[c].ip))
     IN  /\ slot[s].ip # 0
         /\ owner' = [owner EXCEPT ![c] = s]
         /\ phase' = [phase EXCEPT ![c] = IF slot[s].started THEN "posted" ELSE "lost"]
  /\ UNCHANGED <<slot, sockets>>

\* Every entry belongs to another address.
OnAcceptRefused(c) ==
  /\ Accept(c) /\ Candidates(conn[c].ip) = {}
  /\ phase' = [phase EXCEPT ![c] = "closed"]
  /\ UNCHANGED <<owner, slot, sockets>>

OnAccept == \E c \in Conns : OnAcceptNew(c) \/ OnAcceptAgain(c) \/ OnAcceptRefused(c)

-----------------------------------------------------------------------------
\* The owner thread of entry s.

OwnerStep == Same /\ UNCHANGED <<network, owner, sending, astray>>

InitInstance(s) ==
  /\ slot[s].ip # 0 /\ ~slot[s].started
  /\ LET o == slot[s].pSocket   \* made for the connection that is to be attached
     IN  \/ /\ o # 0
            /\ phase' = [phase EXCEPT ![o] = "attached"]
            /\ handle' = [handle EXCEPT ![o] = o] /\ object' = [object EXCEPT ![o] = o]
            /\ slot' = [slot EXCEPT ![s].started = TRUE]
            /\ OwnerStep /\ UNCHANGED <<alive, index, bActualClientConnection>>
         \/ o = 0 /\ Crash("owner")

\* A FIN that arrives before the next SYN is handled before it.
FinsFirst(c) == steady => \A d \in 1 .. c - 1 : owner[d] = owner[c] => phase[d] = "closed"

\* m_nClientIndex of a socket made by AttachSocket is what was in its memory.
NewIndex == Slots \cup {NoSlot}

\* WM_USER_ATTACH_SERVER_SOCKET.  The old handle stays in the handle map: what
\* is given to closesocket is the pointer.
AttachSocket(s) ==
  \E c \in Conns :
    /\ phase[c] = "posted" /\ owner[c] = s /\ slot[s].started
    /\ \A d \in 1 .. c - 1 : ~(phase[d] = "posted" /\ owner[d] = s)
    /\ FinsFirst(c)
    /\ LET o == IF slot[s].pSocket = 0 THEN c ELSE slot[s].pSocket
       IN  \/ /\ o = c \/ o \in alive
              /\ phase' = [phase EXCEPT ![c] = "attached"]
              /\ handle' = [handle EXCEPT ![o] = c] /\ object' = [object EXCEPT ![c] = o]
              /\ alive' = alive \cup {o}
              /\ slot' = [slot EXCEPT ![s].pSocket = o, ![s].bConnected = TRUE]
              /\ \E i \in NewIndex :
                   index' = IF o = c THEN [index EXCEPT ![o] = i] ELSE index
              /\ OwnerStep /\ UNCHANGED bActualClientConnection
           \/ o # c /\ o \notin alive /\ Crash("owner")

\* Close of the connections that the sockets in os have, and of c.
CloseAll(os, c) ==
  /\ phase' = [d \in Conns |-> IF d = c \/ \E o \in os : handle[o] = d THEN "closed" ELSE phase[d]]
  /\ handle' = [o \in Conns |-> IF o \in os THEN 0 ELSE handle[o]]

\* Variant: pSocket stays.
UnlinkedKeeps(t) == [slot EXCEPT ![t].bConnected = FALSE]

\* The entry after its socket is gone.
Unlinked(t) == [slot EXCEPT ![t].pSocket = 0, ![t].bConnected = FALSE]

\* OnClose deletes the socket that the handle map has, and with it what the entry
\* of its index has.
OnClose(s) ==
  \E c \in left :
    /\ owner[c] = s /\ phase[c] = "attached"
    /\ LET o == object[c]
           t == index[o]
           sound == o \in alive /\ t \in Slots /\ slot[t].ip # 0 /\ slot[t].pSocket \in alive
       IN  \/ /\ sound
              /\ CloseAll({o, slot[t].pSocket}, c)
              /\ alive' = alive \ {o}
              /\ slot' = Unlinked(t)
              /\ index' = [index EXCEPT ![o] = NoSlot]
              /\ OwnerStep /\ UNCHANGED <<object, bActualClientConnection>>
           \/ ~sound /\ Crash("owner")

\* Variant: only the first packet tells.
LearnOnce(p, s) ==
  [bActualClientConnection EXCEPT ![p] = IF @ = NoSlot THEN s ELSE @]

\* Connection order may not match PAP order.
Learn(p, s) == [bActualClientConnection EXCEPT ![p] = s]

\* A packet of inspection data, which a PAP sends all the time, or one that comes late
\* from a PAP that has left.  The notification may be for an old handle, but what is
\* read is what the socket's handle has.
OnReceive(c) ==
  /\ phase[c] = "attached"
  /\ \/ /\ object[c] \in alive /\ handle[object[c]] # 0
        /\ bActualClientConnection' = Learn(conn[handle[object[c]]].pap, owner[c])
        /\ slot' = [slot EXCEPT ![owner[c]].bConnected = TRUE]
        /\ OwnerStep /\ UNCHANGED <<phase, sockets>>
     \/ object[c] \notin alive /\ Crash("owner")

\* All commands of the list go to the connection that the socket has now.
TransmitPackets(s) ==
  /\ slot[s].list # {} /\ slot[s].pSocket # 0
  /\ LET o == slot[s].pSocket
         c == handle[o]
     IN  \/ /\ o \in alive
            /\ slot' = [slot EXCEPT ![s].list = {}]
            /\ astray' = (astray \/ (c # 0 /\ c \notin left /\ slot[s].list # {conn[c].pap}))
            /\ Same /\ UNCHANGED <<network, phase, owner, sockets, bActualClientConnection, sending>>
         \/ o \notin alive /\ Crash("owner")

Owner(s) == InitInstance(s) \/ AttachSocket(s) \/ OnClose(s) \/ TransmitPackets(s)

-----------------------------------------------------------------------------
\* The GUI thread: SendMsgToPAP looks the entry up and checks it, SendPacketToPAP
\* checks again and adds the command to the list.  (Bound: one command at a time.)

GuiStep == Same /\ UNCHANGED <<network, phase, owner, sockets, bActualClientConnection, astray>>

SendMsgToPAP(p) ==
  /\ sending = {} /\ \A s \in Slots : slot[s].list = {}
  /\ LET s == bActualClientConnection[p]
     IN  s \in Slots /\ slot[s].pSocket # 0 /\ slot[s].bConnected /\ sending' = {[pap |-> p, slot |-> s]}
  /\ GuiStep /\ UNCHANGED slot

\* A command that is refused here is deleted by both.
SendPacketToPAP ==
  \E m \in sending :
    \/ /\ slot[m.slot].pSocket \in alive
       /\ slot' = [slot EXCEPT ![m.slot].list = @ \cup {m.pap}]
       /\ sending' = {}
       /\ GuiStep
    \/ slot[m.slot].pSocket \notin alive /\ Crash("gui")

Next ==
  /\ crashed = "no"
  /\ \/ \E p \in Paps : Connect(p) \/ SendMsgToPAP(p)
     \/ \E c \in Conns : Disconnect(c) \/ OnReceive(c)
     \/ \E s \in Slots : Owner(s)
     \/ OnAccept \/ SendPacketToPAP \/ Renew

Spec == Init /\ [][Next]_vars

\* Every thread runs, and a PAP that is connected goes on sending.
Running(A) == crashed = "no" /\ A
Fair ==
  /\ WF_vars(Running(OnAccept))
  /\ \A s \in Slots : WF_vars(Running(InitInstance(s) \/ AttachSocket(s) \/ OnClose(s)))
  /\ \A c \in Conns : WF_vars(Running(OnReceive(c)))

FairSpec == Spec /\ Fair

-----------------------------------------------------------------------------
TypeOK ==
  /\ steady \in BOOLEAN /\ lease \in [Paps -> Addresses]
  /\ made \in 0 .. MaxConns /\ conn \in [1 .. made -> [pap : Paps, ip : Addresses]]
  /\ left \subseteq 1 .. made
  /\ phase \in [Conns -> {"none", "pending", "posted", "attached", "lost", "closed"}]
  /\ owner \in [Conns -> Slots \cup {NoSlot}]
  /\ slot \in [Slots -> [ip : Addresses \cup {0}, pSocket : Conns \cup {0}, started : BOOLEAN,
                         bConnected : BOOLEAN, list : SUBSET Paps]]
  /\ alive \subseteq Conns /\ index \in [Conns -> Slots \cup {NoSlot}]
  /\ handle \in [Conns -> Conns \cup {0}] /\ object \in [Conns -> Conns \cup {0}]
  /\ bActualClientConnection \in [Paps -> Slots \cup {NoSlot}]
  /\ sending \subseteq [pap : Paps, slot : Slots] /\ Cardinality(sending) <= 1
  /\ astray \in BOOLEAN
  /\ crashed \in {"no", "owner", "gui"}

\* PA2WinDlg.cpp:2860, "map the intended client number into the actual number": as
\* long as every PAP keeps its address, a command comes to the PAP it is meant for,
\* whatever the order in which PAPs connect, close and connect again, and however
\* long it waits in a list.
SteadyRightPap == steady => ~astray

\* A first close is safe: until a PAP closes for the second time OnClose and the
\* handles of the next connection meet no socket that is gone, if FINs and attaches
\* come in order.  (SendMsgToPAP may always find the socket gone that it has checked.)
FirstCloseSafe ==
  steady /\ (\A c, d \in left : conn[c].pap = conn[d].pap => c = d) => crashed # "owner"

\* The type invariant and the safety of the first close.
Inv == TypeOK /\ FirstCloseSafe

\* ServerSocket.cpp:1337, "connection order may not match PAP order": the map comes to
\* lead to every PAP that stays connected and has an entry, and stays right.
Leads(c) ==
  LET s == bActualClientConnection[conn[c].pap]
  IN  s \in Slots /\ slot[s].pSocket # 0 /\ handle[slot[s].pSocket] = c

MapSettles ==
  <>[](crashed # "no" \/ \A c \in 1 .. made : Open(c) /\ phase[c] # "lost" => Leads(c))
=============================================================================
