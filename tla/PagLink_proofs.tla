--------------------------- MODULE PagLink_proofs ---------------------------
(***************************************************************************)
(* Proofs about one connection of the PAP to the PAG, for every number of  *)
(* packets, of closes and of messages that wait, and every retry count.    *)
(***************************************************************************)
EXTENDS PagLink, SequenceTheorems, TLAPS

USE PagLinkAssumption

-----------------------------------------------------------------------------
(* The inductive invariant.                                                *)

Messages == {"tick", "init", "connect", "refused", "close"}

Todos ==
  {<< >>, <<"start">>, <<"start", "post">>, <<"post">>,
   <<"connect">>, <<"connect", "post">>, <<"delete">>}

SentPackets == [id : Nat, num : Nat]

\* A message m is in the queue q.
In(m, q) == \E i \in 1 .. Len(q) : q[i] = m

Types ==
  /\ pagUp \in BOOLEAN /\ otherUp \in BOOLEAN /\ closes \in 0 .. MaxCloses
  /\ socket \in {"null", "created", "connecting", "failed", "open", "broken"}
  /\ bConnected \in BOOLEAN
  /\ rcvMsgs \in Seq(Messages) /\ Len(rcvMsgs) <= MaxMsgs
  /\ todo \in Todos
  /\ retryTick \in 0 .. RetryTicks /\ xmitMsgs \in 0 .. MaxMsgs
  /\ sendList \in Seq(Nat) /\ made \in 0 .. MaxPackets
  /\ feeder \in {"idle", "queue", "restart"}
  /\ sender \in {"idle", "kill", "take", "try", "send", "crashed"}
  /\ packet \in Nat /\ tries \in 0 .. RetryCount /\ count \in Nat /\ lost \in Nat
  /\ sent \in Seq(SentPackets)

\* What the flag and the waiting notifications say of the socket.
ConnectionInv ==
  /\ bConnected \/ In("connect", rcvMsgs) => socket \in {"open", "broken"}
  /\ In("close", rcvMsgs) => socket = "broken"
  /\ socket = "broken" => In("close", rcvMsgs) \/ todo = <<"delete">>
  /\ closes = 0 =>
       /\ socket # "broken" /\ todo # <<"delete">>
       /\ sender \in {"take", "try", "send"} => socket = "open"

\* The packets on the list come after the one taken last, and before the one made last
\* while that is still to be queued.
ListInv ==
  /\ packet <= made
  /\ Increasing(sendList)
  /\ \A i \in 1 .. Len(sendList) : packet < sendList[i] /\ sendList[i] <= made
  /\ feeder = "queue" => packet < made /\ \A i \in 1 .. Len(sendList) : sendList[i] < made

\* Whether the packet taken last is still to be sent.
Trying == sender \in {"try", "send"}

\* What was sent comes before the packet taken last, under a smaller number.
SentInv ==
  /\ SentInOrder
  /\ \A i \in 1 .. Len(sent) : sent[i].id <= packet /\ sent[i].num < count
  /\ Trying => \A i \in 1 .. Len(sent) : sent[i].id < packet /\ sent[i].num < count - 1
  /\ count <= packet
  /\ sender = "send" => tries < RetryCount
  /\ Len(sent) + lost <= count
  /\ Trying => Len(sent) + lost < count
  /\ closes = 0 => /\ Trying => count = Len(sent) + lost + 1
                   /\ ~Trying => count = Len(sent) + lost

IInv == Types /\ ConnectionInv /\ ListInv /\ SentInv

LEMMA InitIInv == Init => IInv
<1> SUFFICES ASSUME Init PROVE IInv
  OBVIOUS
<1>1. Types
  <2>1. rcvMsgs = <<"init">> /\ rcvMsgs \in Seq(Messages) /\ Len(rcvMsgs) <= MaxMsgs
    BY DEF Init, Messages
  <2>2. sendList \in Seq(Nat) /\ sent \in Seq(SentPackets)
    BY EmptySeq DEF Init
  <2>3. /\ closes \in 0 .. MaxCloses /\ socket = "null" /\ retryTick \in 0 .. RetryTicks /\ xmitMsgs \in 0 .. MaxMsgs
        /\ made \in 0 .. MaxPackets /\ feeder = "idle" /\ sender = "idle"
        /\ packet \in Nat /\ tries \in 0 .. RetryCount /\ count \in Nat /\ lost \in Nat
    BY DEF Init
  <2>4. pagUp \in BOOLEAN /\ otherUp \in BOOLEAN /\ bConnected \in BOOLEAN /\ todo \in Todos
    BY Zenon DEF Init, Todos
  <2> QED
    BY <2>1, <2>2, <2>3, <2>4 DEF Types
<1>2. ConnectionInv
  <2>1. rcvMsgs = <<"init">> /\ Len(rcvMsgs) = 1 /\ rcvMsgs[1] = "init"
    BY DEF Init
  <2>2. ~In("connect", rcvMsgs) /\ ~In("close", rcvMsgs)
    BY <2>1 DEF In
  <2> QED
    BY <2>2 DEF Init, ConnectionInv
<1>3. ListInv
  BY DEF Init, ListInv, Increasing
<1>4. SentInv
  BY DEF Init, SentInv, SentInOrder, Increasing, Trying
<1> QED
  BY <1>1, <1>2, <1>3, <1>4 DEF IInv

-----------------------------------------------------------------------------
(* What is left of a handler.                                              *)

LEMMA ConnectThenPost == <<"connect">> \o <<"post">> = <<"connect", "post">>
<1> DEFINE a == <<"connect">>
           b == <<"post">>
           c == <<"connect", "post">>
           S == {"connect", "post"}
<1>1. a \in Seq(S) /\ b \in Seq(S) /\ c \in Seq(S)
  OBVIOUS
<1>2. /\ Len(a) = 1 /\ a[1] = "connect"
      /\ Len(b) = 1 /\ b[1] = "post"
      /\ Len(c) = 2 /\ c[1] = "connect" /\ c[2] = "post"
  OBVIOUS
<1> HIDE DEF a, b, c, S
<1>3. /\ a \o b \in Seq(S) /\ Len(a \o b) = 2
      /\ (a \o b)[1] = "connect" /\ (a \o b)[2] = "post"
  BY <1>1, <1>2, ConcatProperties
<1>4. \A i \in 1 .. 2 : (a \o b)[i] = c[i]
  BY <1>2, <1>3
<1>5. a \o b = c
  BY <1>1, <1>2, <1>3, <1>4, SeqEqual
<1> QED
  BY <1>5 DEF a, b, c

LEMMA TodoHead ==
  ASSUME todo \in Todos, todo # << >>
  PROVE  /\ Head(todo) = "delete" => todo = <<"delete">> /\ Tail(todo) = << >>
         /\ Head(todo) = "post" => todo = <<"post">> /\ Tail(todo) = << >>
         /\ Head(todo) \in {"start", "connect"} =>
              todo # <<"delete">> /\ Tail(todo) \in {<< >>, <<"post">>}
<1>1. todo \in {<<"start">>, <<"start", "post">>, <<"post">>,
                <<"connect">>, <<"connect", "post">>, <<"delete">>}
  BY DEF Todos
<1>2. /\ Head(<<"start">>) = "start" /\ Tail(<<"start">>) = << >>
      /\ Head(<<"post">>) = "post" /\ Tail(<<"post">>) = << >>
      /\ Head(<<"connect">>) = "connect" /\ Tail(<<"connect">>) = << >>
      /\ Head(<<"delete">>) = "delete" /\ Tail(<<"delete">>) = << >>
  OBVIOUS
<1>3. /\ Head(<<"start", "post">>) = "start" /\ Tail(<<"start", "post">>) = <<"post">>
      /\ Head(<<"connect", "post">>) = "connect" /\ Tail(<<"connect", "post">>) = <<"post">>
  OBVIOUS
<1> QED
  BY <1>1, <1>2, <1>3, Zenon

-----------------------------------------------------------------------------
(* The messages of the receive thread.                                     *)

LEMMA NotifyAdds ==
  ASSUME Types, NEW m \in Messages, Notify(m)
  PROVE  /\ rcvMsgs' \in Seq(Messages) /\ Len(rcvMsgs') <= MaxMsgs
         /\ In(m, rcvMsgs')
         /\ \A k \in Messages : In(k, rcvMsgs) => In(k, rcvMsgs')
         /\ \A k \in Messages \ {m} : In(k, rcvMsgs') => In(k, rcvMsgs)
<1>1. /\ rcvMsgs \in Seq(Messages) /\ Len(rcvMsgs) \in Nat /\ Len(rcvMsgs) < MaxMsgs
      /\ rcvMsgs' = Append(rcvMsgs, m)
  BY DEF Types, Notify
<1>2. /\ rcvMsgs' \in Seq(Messages) /\ Len(rcvMsgs') = Len(rcvMsgs) + 1
      /\ \A i \in 1 .. Len(rcvMsgs) : rcvMsgs'[i] = rcvMsgs[i]
      /\ rcvMsgs'[Len(rcvMsgs) + 1] = m
  BY <1>1, AppendProperties
<1>3. Len(rcvMsgs') <= MaxMsgs
  BY <1>1, <1>2
<1>4. In(m, rcvMsgs')
  BY <1>1, <1>2 DEF In
<1>5. ASSUME NEW k \in Messages, In(k, rcvMsgs) PROVE In(k, rcvMsgs')
  BY <1>1, <1>2, <1>5 DEF In
<1>6. ASSUME NEW k \in Messages \ {m}, In(k, rcvMsgs') PROVE In(k, rcvMsgs)
  BY <1>1, <1>2, <1>6 DEF In
<1> QED
  BY <1>2, <1>3, <1>4, <1>5, <1>6

LEMMA HandlesTakes ==
  ASSUME Types, NEW m \in Messages, Handles(m)
  PROVE  /\ rcvMsgs' \in Seq(Messages) /\ Len(rcvMsgs') <= MaxMsgs
         /\ In(m, rcvMsgs)
         /\ \A k \in Messages : In(k, rcvMsgs') => In(k, rcvMsgs)
         /\ \A k \in Messages \ {m} : In(k, rcvMsgs) => In(k, rcvMsgs')
<1>1. /\ rcvMsgs \in Seq(Messages) /\ Len(rcvMsgs) \in Nat /\ Len(rcvMsgs) <= MaxMsgs
      /\ rcvMsgs # << >> /\ rcvMsgs' = Tail(rcvMsgs) /\ Head(rcvMsgs) = m
  BY DEF Types, Handles
<1>2. /\ rcvMsgs' \in Seq(Messages) /\ Len(rcvMsgs') = Len(rcvMsgs) - 1
      /\ \A i \in 1 .. Len(rcvMsgs') : rcvMsgs'[i] = rcvMsgs[i + 1]
  BY <1>1, HeadTailProperties
<1>3. Len(rcvMsgs) >= 1 /\ rcvMsgs[1] = m
  BY <1>1, EmptySeq
<1>4. Len(rcvMsgs') <= MaxMsgs
  BY <1>1, <1>2
<1>5. In(m, rcvMsgs)
  BY <1>1, <1>3 DEF In
<1>6. ASSUME NEW k \in Messages, In(k, rcvMsgs') PROVE In(k, rcvMsgs)
  <2>1. PICK i \in 1 .. Len(rcvMsgs') : rcvMsgs'[i] = k
    BY <1>6 DEF In
  <2>2. i + 1 \in 1 .. Len(rcvMsgs) /\ rcvMsgs[i + 1] = k
    BY <1>1, <1>2, <2>1
  <2> QED
    BY <2>2 DEF In
<1>7. ASSUME NEW k \in Messages \ {m}, In(k, rcvMsgs) PROVE In(k, rcvMsgs')
  <2>1. PICK i \in 1 .. Len(rcvMsgs) : rcvMsgs[i] = k
    BY <1>7 DEF In
  <2>2. i # 1
    BY <1>3, <2>1
  <2>3. i - 1 \in 1 .. Len(rcvMsgs') /\ (i - 1) + 1 = i
    BY <1>1, <1>2, <2>2
  <2>4. rcvMsgs'[i - 1] = k
    BY <1>2, <2>1, <2>3
  <2> QED
    BY <2>3, <2>4 DEF In
<1> QED
  BY <1>2, <1>4, <1>5, <1>6, <1>7

\* With the socket its notifications go.
LEMMA DeleteSocketTakes ==
  ASSUME Types, DeleteSocket
  PROVE  /\ rcvMsgs' \in Seq(Messages) /\ Len(rcvMsgs') <= MaxMsgs
         /\ ~In("connect", rcvMsgs') /\ ~In("close", rcvMsgs')
<1>1. rcvMsgs \in Seq(Messages) /\ Len(rcvMsgs) \in Nat /\ Len(rcvMsgs) <= MaxMsgs
      /\ DOMAIN rcvMsgs = 1 .. Len(rcvMsgs)
  BY DEF Types
<1>2. PICK n \in 0 .. Len(rcvMsgs) : \E stays \in [1 .. n -> DOMAIN rcvMsgs] :
        /\ {stays[i] : i \in 1 .. n} = {i \in DOMAIN rcvMsgs : rcvMsgs[i] \in {"tick", "init"}}
        /\ rcvMsgs' = [i \in 1 .. n |-> rcvMsgs[stays[i]]]
  BY DEF DeleteSocket
<1> PICK stays \in [1 .. n -> DOMAIN rcvMsgs] :
        /\ {stays[i] : i \in 1 .. n} = {i \in DOMAIN rcvMsgs : rcvMsgs[i] \in {"tick", "init"}}
        /\ rcvMsgs' = [i \in 1 .. n |-> rcvMsgs[stays[i]]]
  BY <1>2
<1>3. \A i \in 1 .. n : rcvMsgs[stays[i]] \in {"tick", "init"}
  OBVIOUS
<1>4. n \in Nat /\ n <= MaxMsgs
  BY <1>1, <1>2
<1>5. rcvMsgs' \in [1 .. n -> {"tick", "init"}]
  BY <1>3
<1>6. rcvMsgs' \in Seq({"tick", "init"}) /\ Len(rcvMsgs') = n
  BY <1>4, <1>5, SeqDef
<1>7. rcvMsgs' \in Seq(Messages)
  BY <1>6, SeqMonotonic DEF Messages
<1>8. \A i \in 1 .. Len(rcvMsgs') : rcvMsgs'[i] \in {"tick", "init"}
  BY <1>5, <1>6
<1>9. ~In("connect", rcvMsgs') /\ ~In("close", rcvMsgs')
  BY <1>8 DEF In
<1> QED
  BY <1>4, <1>6, <1>7, <1>9

-----------------------------------------------------------------------------
(* One lemma for each thread.                                              *)

\* What the network and the receive thread do leaves the packets alone.
LEMMA PacketsKept ==
  ASSUME IInv, UNCHANGED <<list, transmit>>, closes' = 0 => closes = 0
  PROVE  ListInv' /\ SentInv'
<1>1. UNCHANGED <<sendList, made, feeder, sender, packet, tries, count, lost, sent>>
  BY DEF list, transmit
<1>2. ListInv'
  BY <1>1 DEF IInv, ListInv
<1>3. SentInv'
  BY <1>1 DEF IInv, SentInv, SentInOrder, Trying
<1> QED
  BY <1>2, <1>3

LEMMA NetworkIInv ==
  ASSUME IInv, NetConnect \/ PagStarts \/ PagCloses \/ OtherLink \/ TimerTick \/ UNCHANGED vars
  PROVE  IInv'
<1> USE DEF Messages, environment, connection, receiver, list, transmit
<1>1. Types /\ ConnectionInv
  BY DEF IInv
<1>2. UNCHANGED <<list, transmit>> /\ closes \in Nat /\ (closes' = 0 => closes = 0)
  BY <1>1 DEF NetConnect, PagStarts, PagCloses, OtherLink, TimerTick, vars, Types
<1>3. ListInv' /\ SentInv'
  BY <1>2, PacketsKept
<1>4. CASE NetConnect
  <2>1. socket = "connecting" /\ UNCHANGED <<pagUp, otherUp, closes, bConnected, todo, retryTick, xmitMsgs, sender>>
    BY <1>4 DEF NetConnect
  <2>2. CASE pagUp
    <3>1. socket' = "open" /\ Notify("connect")
      BY <1>4, <2>2 DEF NetConnect
    <3>2. Types'
      BY <1>1, <1>2, <2>1, <3>1, NotifyAdds DEF Types
    <3>3. ~In("close", rcvMsgs')
      BY <1>1, <2>1, <3>1, NotifyAdds DEF ConnectionInv
    <3>4. ConnectionInv'
      BY <1>1, <2>1, <3>1, <3>3 DEF ConnectionInv
    <3> QED
      BY <1>3, <3>2, <3>4 DEF IInv
  <2>3. CASE ~pagUp
    <3>1. socket' = "failed" /\ Notify("refused")
      BY <1>4, <2>3 DEF NetConnect
    <3>2. Types'
      BY <1>1, <1>2, <2>1, <3>1, NotifyAdds DEF Types
    <3>3. ~In("close", rcvMsgs') /\ ~In("connect", rcvMsgs')
      BY <1>1, <2>1, <3>1, NotifyAdds DEF ConnectionInv
    <3>4. ConnectionInv'
      BY <1>1, <2>1, <3>1, <3>3 DEF ConnectionInv
    <3> QED
      BY <1>3, <3>2, <3>4 DEF IInv
  <2> QED
    BY <2>2, <2>3
<1>5. CASE PagCloses
  <2>1. /\ socket = "open" /\ socket' = "broken" /\ Notify("close")
        /\ closes' = closes + 1 /\ closes' \in 0 .. MaxCloses /\ pagUp' \in BOOLEAN
        /\ UNCHANGED <<otherUp, bConnected, todo, retryTick, xmitMsgs, sender>>
    BY <1>1, <1>5 DEF PagCloses, Types
  <2>2. Types'
    BY <1>1, <1>2, <2>1, NotifyAdds DEF Types
  <2>3. In("close", rcvMsgs')
    BY <1>1, <2>1, NotifyAdds
  <2>4. ConnectionInv'
    BY <1>2, <2>1, <2>3 DEF ConnectionInv
  <2> QED
    BY <1>3, <2>2, <2>4 DEF IInv
<1>6. CASE TimerTick
  <2>1. Notify("tick") /\ UNCHANGED <<pagUp, otherUp, closes, socket, bConnected, todo, retryTick, xmitMsgs, sender>>
    BY <1>6 DEF TimerTick
  <2>2. Types'
    BY <1>1, <1>2, <2>1, NotifyAdds DEF Types
  <2>3. In("close", rcvMsgs') = In("close", rcvMsgs) /\ In("connect", rcvMsgs') = In("connect", rcvMsgs)
    <3>1. In("close", rcvMsgs') <=> In("close", rcvMsgs)
      BY <1>1, <2>1, NotifyAdds
    <3>2. In("connect", rcvMsgs') <=> In("connect", rcvMsgs)
      BY <1>1, <2>1, NotifyAdds
    <3> QED
      BY <3>1, <3>2 DEF In
  <2>4. ConnectionInv'
    BY <1>1, <2>1, <2>3 DEF ConnectionInv
  <2> QED
    BY <1>3, <2>2, <2>4 DEF IInv
<1>7. CASE PagStarts \/ OtherLink \/ UNCHANGED vars
  <2>1. /\ UNCHANGED <<closes, socket, bConnected, rcvMsgs, todo, retryTick, xmitMsgs, sender>>
        /\ pagUp' \in BOOLEAN /\ otherUp' \in BOOLEAN
    BY <1>1, <1>7 DEF PagStarts, OtherLink, vars, Types
  <2>2. Types'
    BY <1>1, <1>2, <2>1 DEF Types
  <2>3. ConnectionInv'
    BY <1>1, <2>1 DEF ConnectionInv
  <2> QED
    BY <1>3, <2>2, <2>3 DEF IInv
<1> QED
  BY <1>4, <1>5, <1>6, <1>7

LEMMA ReceiveIInv ==
  ASSUME IInv, Receive
  PROVE  IInv'
<1> USE DEF Messages, environment, connection, receiver, list, transmit
<1>1. Types /\ ConnectionInv
  BY DEF IInv
<1>2. UNCHANGED <<list, transmit>> /\ closes' = closes
  BY DEF Receive, InitTcpThread, OnTimer, OnConnect, OnClose, Delete,
         StartTCPCommunication, ConnectSocket, Post
<1>3. ListInv' /\ SentInv'
  BY <1>2, PacketsKept
<1>4. CASE InitTcpThread
  <2>1. Handles("init") /\ todo = << >> /\ todo' = <<"start">>
    BY <1>4 DEF InitTcpThread, Handles
  <2>2. UNCHANGED <<pagUp, otherUp, closes, socket, bConnected, retryTick, xmitMsgs, sender>>
    BY <1>4 DEF InitTcpThread
  <2>3. Types'
    BY <1>1, <1>2, <2>1, <2>2, HandlesTakes DEF Types, Todos
  <2>4. (In("close", rcvMsgs') <=> In("close", rcvMsgs))
        /\ (In("connect", rcvMsgs') <=> In("connect", rcvMsgs))
    BY <1>1, <2>1, HandlesTakes
  <2>5. ConnectionInv'
    BY <1>1, <2>1, <2>2, <2>4 DEF ConnectionInv
  <2> QED
    BY <1>3, <2>3, <2>5 DEF IInv
<1>5. CASE OnTimer
  <2>1. Handles("tick") /\ todo = << >> /\ todo' \in {<<"start", "post">>, <<"post">>}
    BY <1>5 DEF OnTimer, Handles
  <2>2. UNCHANGED <<pagUp, otherUp, closes, socket, bConnected, xmitMsgs, sender>>
    BY <1>5 DEF OnTimer
  <2>3. retryTick' \in 0 .. RetryTicks
    BY <1>1, <1>5 DEF OnTimer, Types
  <2>4. Types'
    BY <1>1, <1>2, <2>1, <2>2, <2>3, HandlesTakes DEF Types, Todos
  <2>5. (In("close", rcvMsgs') <=> In("close", rcvMsgs))
        /\ (In("connect", rcvMsgs') <=> In("connect", rcvMsgs))
    BY <1>1, <2>1, HandlesTakes
  <2>6. ConnectionInv'
    BY <1>1, <2>1, <2>2, <2>5 DEF ConnectionInv
  <2> QED
    BY <1>3, <2>4, <2>6 DEF IInv
<1>6. CASE OnConnect
  <2>1. PICK m \in {"connect", "refused"} : Handles(m) /\ bConnected' = (m = "connect")
    BY <1>6 DEF OnConnect
  <2>2. UNCHANGED <<pagUp, otherUp, closes, socket, todo, retryTick, xmitMsgs, sender>>
    BY <1>6 DEF OnConnect
  <2>3. Types'
    BY <1>1, <1>2, <2>1, <2>2, HandlesTakes DEF Types
  <2>4. (In("close", rcvMsgs') <=> In("close", rcvMsgs))
        /\ (In("connect", rcvMsgs') => In("connect", rcvMsgs))
        /\ In(m, rcvMsgs)
    BY <1>1, <2>1, HandlesTakes
  <2>5. bConnected' \/ In("connect", rcvMsgs') => socket' \in {"open", "broken"}
    BY <1>1, <2>1, <2>2, <2>4 DEF ConnectionInv
  <2>6. ConnectionInv'
    BY <1>1, <2>2, <2>4, <2>5 DEF ConnectionInv
  <2> QED
    BY <1>3, <2>3, <2>6 DEF IInv
<1>7. CASE OnClose
  <2>1. Handles("close") /\ bConnected' = FALSE /\ todo' = <<"delete">>
    BY <1>7 DEF OnClose
  <2>2. UNCHANGED <<pagUp, otherUp, closes, socket, retryTick, xmitMsgs, sender>>
    BY <1>7 DEF OnClose
  <2>3. Types'
    BY ZenonT(40), <1>1, <1>2, <2>1, <2>2, HandlesTakes DEF Types, Todos
  <2>4. (In("close", rcvMsgs') => In("close", rcvMsgs))
        /\ (In("connect", rcvMsgs') => In("connect", rcvMsgs))
        /\ In("close", rcvMsgs)
    BY <1>1, <2>1, HandlesTakes
  <2>5. socket = "broken" /\ closes # 0
    BY <1>1, <2>4 DEF ConnectionInv
  <2>6. ConnectionInv'
    BY <1>1, <2>1, <2>2, <2>4, <2>5 DEF ConnectionInv
  <2> QED
    BY <1>3, <2>3, <2>6 DEF IInv
<1>8. CASE Delete
  <2>1. todo = <<"delete">> /\ todo' = << >>
    BY <1>1, <1>8, TodoHead DEF Delete, Types
  <2>2. DeleteSocket /\ socket' = "null" /\ bConnected' = FALSE
    BY <1>8 DEF Delete, DeleteSocket
  <2>3. UNCHANGED <<pagUp, otherUp, closes, retryTick, xmitMsgs, sender>>
    BY <1>8 DEF Delete
  <2>4. Types'
    BY <1>1, <1>2, <2>1, <2>2, <2>3, DeleteSocketTakes DEF Types, Todos
  <2>5. closes # 0
    BY <1>1, <2>1 DEF ConnectionInv
  <2>6. ConnectionInv'
    BY <1>1, <2>2, <2>3, <2>5, DeleteSocketTakes DEF ConnectionInv
  <2> QED
    BY <1>3, <2>4, <2>6 DEF IInv
<1>9. CASE StartTCPCommunication
  <2>1. todo # <<"delete">> /\ Tail(todo) \in {<< >>, <<"post">>}
    BY <1>1, <1>9, TodoHead DEF StartTCPCommunication, Types
  <2>2. todo' \in {<< >>, <<"post">>, <<"connect">>, <<"connect", "post">>}
    <3>1. <<"connect">> \o << >> = <<"connect">>
      OBVIOUS
    <3> QED
      BY <1>9, <2>1, <3>1, ConnectThenPost, Zenon DEF StartTCPCommunication
  <2>3. UNCHANGED <<pagUp, otherUp, closes, bConnected, rcvMsgs, retryTick, xmitMsgs, sender>>
    BY <1>9 DEF StartTCPCommunication
  <2>4. socket' = socket \/ (socket = "null" /\ socket' = "created")
    BY <1>9 DEF StartTCPCommunication
  <2>5. Types'
    BY <1>1, <1>2, <2>2, <2>3, <2>4 DEF Types, Todos
  <2>6. todo # <<"delete">> /\ todo' # <<"delete">>
    BY <2>1, <2>2
  <2>7. ConnectionInv'
    BY <1>1, <2>3, <2>4, <2>6 DEF ConnectionInv
  <2> QED
    BY <1>3, <2>5, <2>7 DEF IInv
<1>10. CASE ConnectSocket
  <2>1. todo # <<"delete">> /\ todo' \in {<< >>, <<"post">>}
    BY <1>1, <1>10, TodoHead DEF ConnectSocket, Types
  <2>2. todo # <<"delete">> /\ todo' # <<"delete">>
    BY <2>1
  <2>3. UNCHANGED <<pagUp, otherUp, closes, retryTick, xmitMsgs, sender>>
    BY <1>10 DEF ConnectSocket
  <2>4. CASE socket = "connecting" /\ DeleteSocket
    <3>1. socket' = "null" /\ bConnected' = FALSE
      BY <2>4 DEF DeleteSocket
    <3>2. Types'
      BY <1>1, <1>2, <2>1, <2>3, <2>4, <3>1, DeleteSocketTakes DEF Types, Todos
    <3>3. ConnectionInv'
      BY <1>1, <2>2, <2>3, <2>4, <3>1, DeleteSocketTakes DEF ConnectionInv
    <3> QED
      BY <1>3, <3>2, <3>3 DEF IInv
  <2>5. CASE /\ \/ socket' = socket
                \/ socket \in {"created", "failed"} /\ socket' = "connecting"
             /\ UNCHANGED <<bConnected, rcvMsgs>>
    <3>1. Types'
      BY <1>1, <1>2, <2>1, <2>3, <2>5 DEF Types, Todos
    <3>2. ConnectionInv'
      BY <1>1, <2>2, <2>3, <2>5 DEF ConnectionInv
    <3> QED
      BY <1>3, <3>1, <3>2 DEF IInv
  <2> QED
    BY <1>10, <2>4, <2>5 DEF ConnectSocket
<1>11. CASE Post
  <2>1. todo = <<"post">> /\ todo' = << >>
    BY <1>1, <1>11, TodoHead DEF Post, Types
  <2>2. UNCHANGED <<pagUp, otherUp, closes, socket, bConnected, rcvMsgs, retryTick, sender>>
    BY <1>11 DEF Post
  <2>3. xmitMsgs' \in 0 .. MaxMsgs
    BY <1>1, <1>11 DEF Post, Types
  <2>4. Types'
    BY <1>1, <1>2, <2>1, <2>2, <2>3 DEF Types, Todos
  <2>5. ConnectionInv'
    BY <1>1, <2>1, <2>2 DEF ConnectionInv
  <2> QED
    BY <1>3, <2>4, <2>5 DEF IInv
<1> QED
  BY <1>4, <1>5, <1>6, <1>7, <1>8, <1>9, <1>10, <1>11 DEF Receive

\* An element put behind a rising list that is smaller than it.
LEMMA AppendIncreasing ==
  ASSUME NEW s \in Seq(Nat), Increasing(s), NEW e \in Nat, \A i \in 1 .. Len(s) : s[i] < e
  PROVE  Increasing(Append(s, e))
<1> DEFINE t == Append(s, e)
<1>1. /\ t \in Seq(Nat) /\ Len(t) = Len(s) + 1 /\ Len(s) \in Nat
      /\ \A i \in 1 .. Len(s) : t[i] = s[i]
      /\ t[Len(s) + 1] = e
  BY AppendProperties
<1>2. DOMAIN t = 1 .. Len(s) + 1 /\ DOMAIN s = 1 .. Len(s)
  BY <1>1
<1> HIDE DEF t
<1>3. ASSUME NEW i \in DOMAIN t, NEW j \in DOMAIN t, i < j PROVE t[i] < t[j]
  <2>1. i \in 1 .. Len(s) /\ t[i] = s[i]
    BY <1>1, <1>2, <1>3
  <2>2. CASE j = Len(s) + 1
    BY <1>1, <2>1, <2>2
  <2>3. CASE j \in 1 .. Len(s)
    BY <1>1, <1>2, <1>3, <2>1, <2>3 DEF Increasing
  <2> QED
    BY <1>1, <1>2, <2>2, <2>3
<1>4. Increasing(t)
  BY <1>3 DEF Increasing
<1> QED
  BY <1>4 DEF t

LEMMA FeederIInv ==
  ASSUME IInv, Feed \/ Queue \/ Restart
  PROVE  IInv'
<1> USE DEF Messages, environment, connection, receiver, transmit
<1>1. Types /\ ConnectionInv /\ ListInv /\ SentInv
  BY DEF IInv
<1>2. /\ sendList \in Seq(Nat) /\ made \in Nat /\ packet \in Nat /\ Len(sendList) \in Nat
      /\ DOMAIN sendList = 1 .. Len(sendList)
      /\ \A i \in 1 .. Len(sendList) : sendList[i] \in Nat
  BY <1>1 DEF Types
<1>3. UNCHANGED <<pagUp, otherUp, closes, socket, todo, retryTick, xmitMsgs,
                  sender, packet, tries, count, lost, sent>>
  BY DEF Feed, Queue, Restart
<1>4. SentInv'
  BY <1>1, <1>3 DEF SentInv, SentInOrder, Trying
<1>5. CASE Feed
  <2>1. /\ made < MaxPackets /\ made' = made + 1 /\ feeder' \in {"queue", "restart"}
        /\ UNCHANGED <<bConnected, rcvMsgs, sendList>>
    BY <1>5 DEF Feed
  <2>2. Types'
    BY <1>1, <1>2, <1>3, <2>1 DEF Types
  <2>3. ConnectionInv'
    BY <1>1, <1>3, <2>1 DEF ConnectionInv
  <2>4. \A i \in 1 .. Len(sendList) : sendList[i] < made'
    BY <1>1, <1>2, <2>1 DEF ListInv
  <2>5. ListInv'
    BY <1>1, <1>2, <1>3, <2>1, <2>4 DEF ListInv
  <2> QED
    BY <1>4, <2>2, <2>3, <2>5 DEF IInv
<1>6. CASE Queue
  <2>1. /\ feeder = "queue" /\ feeder' = "idle" /\ sendList' = Append(sendList, made)
        /\ UNCHANGED <<bConnected, rcvMsgs, made>>
    BY <1>6 DEF Queue
  <2>2. /\ sendList' \in Seq(Nat) /\ Len(sendList') = Len(sendList) + 1
        /\ \A i \in 1 .. Len(sendList) : sendList'[i] = sendList[i]
        /\ sendList'[Len(sendList) + 1] = made
    BY <1>2, <2>1, AppendProperties
  <2>3. Types'
    BY <1>1, <1>2, <1>3, <2>1, <2>2 DEF Types
  <2>4. ConnectionInv'
    BY <1>1, <1>3, <2>1 DEF ConnectionInv
  <2>5. packet < made /\ \A i \in 1 .. Len(sendList) : sendList[i] < made
    BY <1>1, <2>1 DEF ListInv
  <2>6. Increasing(sendList')
    BY <1>1, <1>2, <2>1, <2>5, AppendIncreasing DEF ListInv
  <2>7. \A i \in 1 .. Len(sendList') : packet < sendList'[i] /\ sendList'[i] <= made
    BY <1>1, <1>2, <2>2, <2>5 DEF ListInv
  <2>8. ListInv'
    BY <1>1, <1>3, <2>1, <2>6, <2>7 DEF ListInv
  <2> QED
    BY <1>4, <2>3, <2>4, <2>8 DEF IInv
<1>7. CASE Restart
  <2>1. /\ feeder' = "idle" /\ bConnected' = FALSE /\ Notify("init")
        /\ UNCHANGED <<sendList, made>>
    BY <1>7 DEF Restart
  <2>2. Types'
    BY <1>1, <1>3, <2>1, NotifyAdds DEF Types
  <2>3. (In("close", rcvMsgs') <=> In("close", rcvMsgs))
        /\ (In("connect", rcvMsgs') <=> In("connect", rcvMsgs))
    BY <1>1, <2>1, NotifyAdds
  <2>4. ConnectionInv'
    BY <1>1, <1>3, <2>1, <2>3 DEF ConnectionInv
  <2>5. ListInv'
    BY <1>1, <1>3, <2>1 DEF ListInv
  <2> QED
    BY <1>4, <2>2, <2>4, <2>5 DEF IInv
<1> QED
  BY <1>5, <1>6, <1>7

LEMMA SenderIInv ==
  ASSUME IInv, TransmitPackets
  PROVE  IInv'
<1> USE DEF environment, connection, receiver, list
<1>1. Types /\ ConnectionInv /\ ListInv /\ SentInv
  BY DEF IInv
<1>2. /\ sendList \in Seq(Nat) /\ made \in Nat /\ packet \in Nat /\ count \in Nat /\ lost \in Nat
      /\ sent \in Seq(SentPackets) /\ Len(sent) \in Nat /\ Len(sendList) \in Nat
      /\ DOMAIN sent = 1 .. Len(sent) /\ DOMAIN sendList = 1 .. Len(sendList)
      /\ tries \in 0 .. RetryCount /\ closes \in Nat
  BY <1>1 DEF Types
<1>3. ASSUME NEW i \in 1 .. Len(sent) PROVE sent[i].id \in Nat /\ sent[i].num \in Nat
  <2>1. sent[i] \in SentPackets
    BY <1>2
  <2> QED
    BY <2>1 DEF SentPackets
<1>4. UNCHANGED <<pagUp, otherUp, closes, socket, rcvMsgs, todo, retryTick, made, feeder>>
  BY DEF TransmitPackets, Begin, Kill, Take, Try, Send
<1>5. CASE Begin
  <2>1. /\ xmitMsgs > 0 /\ xmitMsgs' = xmitMsgs - 1 /\ sender = "idle"
        /\ sender' \in {"idle", "kill", "take"}
        /\ sender' = "take" => socket # "null" /\ bConnected
        /\ UNCHANGED <<bConnected, sendList, packet, tries, count, lost, sent>>
    BY <1>5 DEF Begin
  <2>2. Types'
    BY <1>1, <1>4, <2>1 DEF Types
  <2>3. ConnectionInv'
    BY <1>1, <1>4, <2>1 DEF ConnectionInv
  <2>4. ListInv'
    BY <1>1, <1>4, <2>1 DEF ListInv
  <2>5. SentInv'
    BY <1>1, <1>4, <2>1 DEF SentInv, SentInOrder, Trying
  <2> QED
    BY <2>2, <2>3, <2>4, <2>5 DEF IInv
<1>6. CASE Kill
  <2>1. /\ sender = "kill" /\ sender' = "idle" /\ bConnected' = FALSE /\ sendList' = << >>
        /\ UNCHANGED <<xmitMsgs, packet, tries, count, lost, sent>>
    BY <1>6 DEF Kill
  <2>2. Types'
    BY <1>1, <1>4, <2>1, EmptySeq DEF Types
  <2>3. ConnectionInv'
    BY <1>1, <1>4, <2>1 DEF ConnectionInv
  <2>4. ListInv'
    BY <1>1, <1>4, <2>1 DEF ListInv, Increasing
  <2>5. SentInv'
    BY <1>1, <1>4, <2>1 DEF SentInv, SentInOrder, Trying
  <2> QED
    BY <2>2, <2>3, <2>4, <2>5 DEF IInv
<1>7. CASE Take
  <2>1. sender = "take" /\ UNCHANGED <<bConnected, xmitMsgs, lost, sent>>
    BY <1>7 DEF Take
  <2>2. CASE sendList = << >>
    <3>1. sender' = "idle" /\ UNCHANGED <<sendList, packet, tries, count>>
      BY <1>7, <2>2 DEF Take
    <3>2. Types'
      BY <1>1, <1>4, <2>1, <3>1 DEF Types
    <3>3. ConnectionInv' /\ ListInv'
      BY <1>1, <1>4, <2>1, <3>1 DEF ConnectionInv, ListInv
    <3>4. SentInv'
      BY <1>1, <1>4, <2>1, <3>1 DEF SentInv, SentInOrder, Trying
    <3> QED
      BY <3>2, <3>3, <3>4 DEF IInv
  <2>3. CASE sendList # << >>
    <3>1. /\ sender' = "try" /\ packet' = Head(sendList) /\ sendList' = Tail(sendList)
          /\ tries' = 0 /\ count' = count + 1
      BY <1>7, <2>3 DEF Take
    <3>2. /\ sendList' \in Seq(Nat) /\ Len(sendList') = Len(sendList) - 1
          /\ \A i \in 1 .. Len(sendList') : sendList'[i] = sendList[i + 1]
          /\ Len(sendList) >= 1 /\ packet' = sendList[1]
      BY <1>2, <2>3, <3>1, HeadTailProperties, EmptySeq
    <3>3. 1 \in 1 .. Len(sendList)
      BY <1>2, <3>2
    <3>4. packet' \in Nat /\ packet < packet' /\ packet' <= made
          /\ (feeder = "queue" => packet' < made)
      <4>1. /\ sendList[1] \in Nat /\ packet < sendList[1] /\ sendList[1] <= made
            /\ feeder = "queue" => sendList[1] < made
        BY <1>1, <1>2, <3>3 DEF ListInv
      <4> QED
        BY <3>2, <4>1
    <3>5. Types'
      BY <1>1, <1>2, <1>4, <2>1, <3>1, <3>2, <3>4 DEF Types
    <3>6. ConnectionInv'
      BY <1>1, <1>4, <2>1, <3>1 DEF ConnectionInv
    <3>7. ASSUME NEW i \in 1 .. Len(sendList')
          PROVE  /\ i + 1 \in 1 .. Len(sendList) /\ sendList'[i] = sendList[i + 1]
                 /\ packet' < sendList'[i] /\ sendList'[i] <= made
                 /\ feeder = "queue" => sendList'[i] < made
      <4>1. i + 1 \in 1 .. Len(sendList) /\ 1 < i + 1
        BY <1>2, <3>2
      <4>2. sendList'[i] = sendList[i + 1]
        BY <3>2
      <4>3. sendList[1] < sendList[i + 1]
        BY <1>1, <1>2, <3>3, <4>1 DEF ListInv, Increasing
      <4>4. sendList[i + 1] <= made /\ (feeder = "queue" => sendList[i + 1] < made)
        BY <1>1, <4>1 DEF ListInv
      <4> QED
        BY <3>2, <4>1, <4>2, <4>3, <4>4
    <3>8. Increasing(sendList')
      <4>1. DOMAIN sendList' = 1 .. Len(sendList')
        BY <3>2
      <4>2. ASSUME NEW i \in 1 .. Len(sendList'), NEW j \in 1 .. Len(sendList'), i < j
            PROVE  sendList'[i] < sendList'[j]
        <5>1. /\ i + 1 \in 1 .. Len(sendList) /\ j + 1 \in 1 .. Len(sendList) /\ i + 1 < j + 1
              /\ sendList'[i] = sendList[i + 1] /\ sendList'[j] = sendList[j + 1]
          BY <3>7, <4>2
        <5> QED
          BY <1>1, <1>2, <5>1 DEF ListInv, Increasing
      <4> QED
        BY <4>1, <4>2 DEF Increasing
    <3>9. ListInv'
      BY <1>4, <3>4, <3>7, <3>8 DEF ListInv
    <3>10. SentInv'
      <4>1. SentInOrder'
        BY <1>1, <2>1 DEF SentInv, SentInOrder
      <4>2. \A i \in 1 .. Len(sent) : sent[i].id < packet' /\ sent[i].num < count' - 1
        <5> SUFFICES ASSUME NEW i \in 1 .. Len(sent)
                     PROVE  sent[i].id < packet' /\ sent[i].num < count' - 1
          OBVIOUS
        <5>1. sent[i].id <= packet /\ sent[i].num < count
          BY <1>1 DEF SentInv
        <5>2. count \in Nat /\ packet \in Nat /\ sent[i].id \in Nat /\ sent[i].num \in Nat
          BY <1>2, <1>3
        <5>3. count' = count + 1 /\ packet' \in Nat /\ packet < packet'
          BY <3>1, <3>4
        <5> QED
          BY <5>1, <5>2, <5>3
      <4>3. count' <= packet' /\ Len(sent) + lost < count'
        BY <1>1, <1>2, <3>1, <3>4 DEF SentInv
      <4>4. closes = 0 => count' = Len(sent) + lost + 1
        BY <1>1, <1>2, <2>1, <3>1 DEF SentInv, Trying
      <4>5. \A i \in 1 .. Len(sent) : sent[i].id <= packet' /\ sent[i].num < count'
        <5> SUFFICES ASSUME NEW i \in 1 .. Len(sent)
                     PROVE  sent[i].id <= packet' /\ sent[i].num < count'
          OBVIOUS
        <5>1. sent[i].id < packet' /\ sent[i].num < count' - 1
          BY <4>2
        <5>2. count' \in Nat /\ packet' \in Nat /\ sent[i].id \in Nat /\ sent[i].num \in Nat
          BY <1>2, <1>3, <3>1, <3>4
        <5> QED
          BY <5>1, <5>2
      <4> QED
        BY <1>2, <1>4, <2>1, <3>1, <4>1, <4>2, <4>3, <4>4, <4>5 DEF SentInv, Trying
    <3> QED
      BY <3>5, <3>6, <3>9, <3>10 DEF IInv
  <2> QED
    BY <2>2, <2>3
<1>8. CASE Try
  <2>1. /\ sender = "try"
        /\ UNCHANGED <<bConnected, sendList, xmitMsgs, packet, tries, count, sent>>
        /\ \/ tries = RetryCount /\ sender' = "take" /\ lost' = lost + 1
           \/ tries # RetryCount /\ socket = "null" /\ sender' = "take" /\ lost' = lost
           \/ tries # RetryCount /\ sender' = "send" /\ lost' = lost
    BY <1>8 DEF Try
  <2>2. Types'
    BY <1>1, <1>2, <1>4, <2>1 DEF Types
  <2>3. ConnectionInv'
    BY <1>1, <1>4, <2>1 DEF ConnectionInv
  <2>4. ListInv'
    BY <1>1, <1>4, <2>1 DEF ListInv
  <2>5. closes = 0 => socket # "null"
    BY <1>1, <2>1 DEF ConnectionInv
  <2>6. SentInOrder'
    BY <1>1, <2>1 DEF SentInv, SentInOrder
  <2>7. sent' = sent /\ packet' = packet /\ count' = count /\ closes' = closes
    BY <1>4, <2>1
  <2>8. \A i \in 1 .. Len(sent) :
          sent[i].id <= packet /\ sent[i].num < count /\ sent[i].id < packet /\ sent[i].num < count - 1
    BY <1>1, <2>1 DEF SentInv, Trying
  <2>9. count <= packet /\ Len(sent) + lost < count
    BY <1>1, <2>1 DEF SentInv, Trying
  <2>10. sender' = "send" => tries' < RetryCount
    BY <1>2, <2>1
  <2>11. /\ Len(sent) + lost' <= count
         /\ Trying' => Len(sent) + lost' < count
    BY <1>2, <2>1, <2>9 DEF Trying
  <2>12. closes = 0 => /\ Trying' => count = Len(sent) + lost' + 1
                       /\ ~Trying' => count = Len(sent) + lost'
    <3>1. closes = 0 => count = Len(sent) + lost + 1
      BY <1>1, <2>1 DEF SentInv, Trying
    <3> QED
      BY <1>2, <2>1, <2>5, <3>1 DEF Trying
  <2>13. SentInv'
    BY <2>6, <2>7, <2>8, <2>9, <2>10, <2>11, <2>12 DEF SentInv
  <2> QED
    BY <2>2, <2>3, <2>4, <2>13 DEF IInv
<1>9. CASE Send
  <2>1. sender = "send" /\ UNCHANGED <<bConnected, sendList, xmitMsgs, packet, count, lost>>
    BY <1>9 DEF Send
  <2>2. ListInv'
    BY <1>1, <1>4, <2>1 DEF ListInv
  <2>3. CASE /\ socket = "open" /\ sender' = "take" /\ tries' = tries
             /\ sent' = Append(sent, [id |-> packet, num |-> count - 1])
    <3> DEFINE new == [id |-> packet, num |-> count - 1]
    <3>1. /\ \A i \in 1 .. Len(sent) : sent[i].id < packet /\ sent[i].num < count - 1
          /\ count >= 1
      BY <1>1, <1>2, <2>1 DEF SentInv, Trying
    <3>2. new \in SentPackets /\ new.id = packet /\ new.num = count - 1
      BY <1>2, <3>1 DEF SentPackets
    <3> HIDE DEF new
    <3>3. /\ sent' \in Seq(SentPackets) /\ Len(sent') = Len(sent) + 1
          /\ \A i \in 1 .. Len(sent) : sent'[i] = sent[i]
          /\ sent'[Len(sent) + 1] = new
      BY <1>2, <2>3, <3>2, AppendProperties DEF new
    <3>4. Types'
      BY <1>1, <1>4, <2>1, <2>3, <3>3 DEF Types
    <3>5. ConnectionInv'
      BY <1>1, <1>4, <2>1, <2>3 DEF ConnectionInv
    <3>6. \A i \in 1 .. Len(sent') : sent'[i].id <= packet /\ sent'[i].num < count
      <4> SUFFICES ASSUME NEW i \in 1 .. Len(sent')
                   PROVE  sent'[i].id <= packet /\ sent'[i].num < count
        OBVIOUS
      <4>1. CASE i = Len(sent) + 1
        BY <1>2, <3>2, <3>3, <4>1
      <4>2. CASE i \in 1 .. Len(sent)
        BY <1>2, <1>3, <3>1, <3>3, <4>2
      <4> QED
        BY <1>2, <3>3, <4>1, <4>2
    <3>7. SentInOrder'
      <4>1. DOMAIN sent' = 1 .. Len(sent) + 1
        BY <3>3
      <4>2. ASSUME NEW i \in 1 .. Len(sent) + 1, NEW j \in 1 .. Len(sent) + 1, i < j
            PROVE  sent'[i].id < sent'[j].id /\ sent'[i].num < sent'[j].num
        <5>1. i \in 1 .. Len(sent) /\ sent'[i] = sent[i]
          <6>1. i \in 1 .. Len(sent)
            BY <1>2, <4>2
          <6> QED
            BY <3>3, <6>1
        <5>2. CASE j = Len(sent) + 1
          BY <3>1, <3>2, <3>3, <5>1, <5>2
        <5>3. CASE j \in 1 .. Len(sent)
          BY <1>1, <1>2, <3>3, <4>2, <5>1, <5>3 DEF SentInv, SentInOrder, Increasing
        <5> QED
          BY <1>2, <5>2, <5>3
      <4> QED
        BY <4>1, <4>2 DEF SentInOrder, Increasing
    <3>8. SentInv'
      BY <1>1, <1>2, <1>4, <2>1, <2>3, <3>3, <3>6, <3>7 DEF SentInv, Trying
    <3> QED
      BY <2>2, <3>4, <3>5, <3>8 DEF IInv
  <2>4. CASE /\ sent' = sent
             /\ \/ socket = "null" /\ sender' = "crashed" /\ tries' = tries
                \/ socket = "broken" /\ sender' = "take" /\ tries' = tries
                \/ tries' = tries + 1 /\ sender' = "try"
    <3>1. tries < RetryCount
      BY <1>1, <2>1 DEF SentInv
    <3>2. Types'
      BY <1>1, <1>2, <1>4, <2>1, <2>4, <3>1 DEF Types
    <3>3. ConnectionInv'
      BY <1>1, <1>4, <2>1, <2>4 DEF ConnectionInv
    <3>4. closes = 0 => socket = "open"
      BY <1>1, <2>1 DEF ConnectionInv
    <3>5. SentInOrder'
      BY <1>1, <2>4 DEF SentInv, SentInOrder
    <3>6. SentInv'
      BY <1>1, <1>2, <1>4, <2>1, <2>4, <3>4, <3>5 DEF SentInv, Trying
    <3> QED
      BY <2>2, <3>2, <3>3, <3>6 DEF IInv
  <2> QED
    BY <1>9, <2>3, <2>4 DEF Send
<1> QED
  BY <1>5, <1>6, <1>7, <1>8, <1>9 DEF TransmitPackets

LEMMA StepIInv == IInv /\ [Next]_vars => IInv'
BY NetworkIInv, ReceiveIInv, FeederIInv, SenderIInv DEF Next

-----------------------------------------------------------------------------
(* The theorems.                                                           *)

\* One connection to the PAG in every state, for any number of packets.
THEOREM LinkInvariant == Spec => []IInv
BY InitIInv, StepIInv, PTL DEF Spec

LEMMA LinkTypes == IInv => TypeOK
<1> SUFFICES ASSUME IInv PROVE TypeOK
  OBVIOUS
<1>1. Types /\ ListInv /\ SentInv
  BY DEF IInv
<1>2. ToSet(rcvMsgs) \subseteq {"tick", "init", "connect", "refused", "close"}
  <2>1. \A i \in DOMAIN rcvMsgs : rcvMsgs[i] \in Messages
    BY <1>1 DEF Types
  <2>2. ToSet(rcvMsgs) \subseteq Messages
    BY <2>1 DEF ToSet
  <2> QED
    BY <2>2, Zenon DEF Messages
<1>3. ToSet(todo) \subseteq {"start", "connect", "delete", "post"} /\ Len(todo) <= 2
  <2> DEFINE S == {"start", "connect", "delete", "post"}
  <2>1. /\ << >> \in Seq(S) /\ <<"start">> \in Seq(S) /\ <<"post">> \in Seq(S)
        /\ <<"connect">> \in Seq(S) /\ <<"delete">> \in Seq(S)
        /\ <<"start", "post">> \in Seq(S) /\ <<"connect", "post">> \in Seq(S)
    OBVIOUS
  <2>2. /\ Len(<< >>) <= 2 /\ Len(<<"start">>) <= 2 /\ Len(<<"post">>) <= 2
        /\ Len(<<"connect">>) <= 2 /\ Len(<<"delete">>) <= 2
        /\ Len(<<"start", "post">>) <= 2 /\ Len(<<"connect", "post">>) <= 2
    OBVIOUS
  <2>3. todo \in Todos
    BY <1>1 DEF Types
  <2> HIDE DEF S
  <2>4. todo \in Seq(S) /\ Len(todo) <= 2
    BY <2>1, <2>2, <2>3, Zenon DEF Todos
  <2>5. \A i \in DOMAIN todo : todo[i] \in S
    BY <2>4
  <2> QED
    BY <2>4, <2>5 DEF ToSet, S
<1>4. Increasing(sendList) /\ ToSet(sendList) \subseteq 1 .. made
  <2>1. ASSUME NEW i \in DOMAIN sendList PROVE sendList[i] \in 1 .. made
    <3>1. i \in 1 .. Len(sendList) /\ sendList[i] \in Nat
      BY <1>1, <2>1 DEF Types
    <3> QED
      BY <1>1, <3>1 DEF Types, ListInv
  <2> QED
    BY <1>1, <2>1 DEF ListInv, ToSet
<1>5. packet \in 0 .. made /\ made <= MaxPackets /\ count <= made /\ lost <= count
  <2>1. Len(sent) \in Nat
    BY <1>1 DEF Types
  <2> QED
    BY <1>1, <2>1 DEF Types, ListInv, SentInv
<1> QED
  BY <1>1, <1>2, <1>3, <1>4, <1>5 DEF TypeOK, Types

\* What retries, losses and reconnects leave of the packets is in order and
\* accounted for, whatever the number of packets and of tries.
THEOREM LinkKeepsOrder == Spec => []Inv
<1>1. IInv => SentInOrder /\ LossesCounted
  BY DEF IInv, SentInv, LossesCounted, Trying
<1> QED
  BY <1>1, LinkTypes, LinkInvariant, PTL DEF Inv

\* With nothing waiting at the receive thread, bConnected means an open socket.
THEOREM LinkConnectedMeansOpen == Spec => []ConnectedMeansOpen
<1>1. IInv => ConnectedMeansOpen
  <2>1. SUFFICES ASSUME IInv, bConnected, rcvMsgs = << >>, todo = << >>
                 PROVE  socket = "open"
    BY DEF ConnectedMeansOpen
  <2>2. ~In("close", rcvMsgs) /\ todo # <<"delete">>
    BY <2>1 DEF In
  <2> QED
    BY <2>1, <2>2 DEF IInv, ConnectionInv
<1> QED
  BY <1>1, LinkInvariant, PTL
=============================================================================
