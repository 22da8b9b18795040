------------------------------ MODULE PagLink ------------------------------
(***************************************************************************)
(* One of the two connections by which the PAP, a client, sends data to    *)
(* the PAG: CCM_PAG (peaks) or CCM_PAG_AW (all wall).                      *)
(*                                                                         *)
(*  - A receive-list thread queues packets in SendIdataToPag.  The message *)
(*    it posts goes to its own thread, which has no handler for it.        *)
(*  - The receive thread owns the socket: it handles timer ticks, requests *)
(*    to connect and the socket's notifications, in the order they come.   *)
(*  - The send thread empties the list in TransmitPackets, when the        *)
(*    receive thread has posted it a message.                              *)
(*                                                                         *)
(* pSocket and bConnected are read and written by all three, without a     *)
(* lock.  After a packet is given to TCP it counts as sent; what the PAG   *)
(* makes of the stream is the subject of ServerReceive.                    *)
(***************************************************************************)
EXTENDS Integers, Sequences, SequencesExt

CONSTANTS
  RetryTicks,  \* ticks without a connection before the next try (50)
  RetryCount,  \* RETRY_COUNT: how often one packet is tried (4)
  MayFail,     \* whether Send may fail on an open connection
  MaxPackets,  \* bound: packets queued
  MaxCloses,   \* bound: times the PAG closes the connection
  MaxMsgs      \* bound: messages waiting at a thread

ASSUME PagLinkAssumption ==
  /\ RetryTicks \in Nat \ {0} /\ RetryCount \in Nat \ {0}
  /\ MayFail \in BOOLEAN
  /\ MaxPackets \in Nat /\ MaxCloses \in Nat /\ MaxMsgs \in Nat \ {0}

VARIABLES
  pagUp,      \* whether the PAG accepts connections
  otherUp,    \* whether the test thread ticks this connection: always for CCM_PAG,
              \* while CCM_PAG is connected for CCM_PAG_AW
  closes,     \* how often the PAG has closed the connection
  socket,     \* pSocket: "null", "created", "connecting", "failed", "open" or "broken"
  bConnected,
  rcvMsgs,    \* messages to the receive thread
  todo,       \* what is left of the one it handles
  retryTick,  \* m_nConnectRetryTick
  sendList,   \* pSendPktList: packets 1, 2, ...
  made,       \* how many packets have been queued or deleted
  feeder,     \* SendIdataToPag: "idle", "queue" or "restart"
  xmitMsgs,   \* messages posted to the send thread
  sender,     \* the send thread: "idle", "kill", "take", "try", "send" or "crashed"
  packet,     \* the packet it sends, and how often it has tried
  tries,
  count,      \* m_wMsgSeqCount
  lost,       \* uLostSentPackets
  sent        \* packets given to TCP: [id, num]

Increasing(s) == \A i, j \in DOMAIN s : i < j => s[i] < s[j]

environment == <<pagUp, otherUp, closes>>
connection == <<socket, bConnected>>
receiver == <<rcvMsgs, todo, retryTick>>
list == <<sendList, made, feeder>>
transmit == <<sender, packet, tries, count, lost, sent>>
vars == <<environment, connection, receiver, list, xmitMsgs, transmit>>

\* InitReceiveThread has posted the first request to connect.
Init ==
  /\ pagUp \in BOOLEAN /\ otherUp \in BOOLEAN /\ closes = 0
  /\ socket = "null" /\ bConnected = FALSE
  /\ rcvMsgs = <<"init">> /\ todo = << >> /\ retryTick = 0
  /\ sendList = << >> /\ made = 0 /\ feeder = "idle" /\ xmitMsgs = 0
  /\ sender = "idle" /\ packet = 0 /\ tries = 0 /\ count = 0 /\ lost = 0 /\ sent = << >>

-----------------------------------------------------------------------------
\* The network and the PAG.

Notify(m) == Len(rcvMsgs) < MaxMsgs /\ rcvMsgs' = Append(rcvMsgs, m)

\* A connection attempt completes.
NetConnect ==
  /\ socket = "connecting"
  /\ IF pagUp THEN socket' = "open" /\ Notify("connect")
              ELSE socket' = "failed" /\ Notify("refused")
  /\ UNCHANGED <<environment, bConnected, todo, retryTick, list, xmitMsgs, transmit>>

PagStarts ==
  /\ ~pagUp /\ pagUp' = TRUE
  /\ UNCHANGED <<otherUp, closes, connection, receiver, list, xmitMsgs, transmit>>

\* The PAG closes the connection, and may go down.
PagCloses ==
  /\ socket = "open" /\ closes < MaxCloses
  /\ socket' = "broken" /\ Notify("close")
  /\ closes' = closes + 1 /\ pagUp' \in BOOLEAN
  /\ UNCHANGED <<otherUp, bConnected, todo, retryTick, list, xmitMsgs, transmit>>

OtherLink ==
  /\ otherUp' = ~otherUp
  /\ UNCHANGED <<pagUp, closes, connection, receiver, list, xmitMsgs, transmit>>

\* CTestThread, every 100 ms.  Bound: one tick waiting.
TimerTick ==
  /\ otherUp /\ ~Contains(rcvMsgs, "tick") /\ Notify("tick")
  /\ UNCHANGED <<environment, connection, todo, retryTick, list, xmitMsgs, transmit>>

-----------------------------------------------------------------------------
\* The receive thread.

\* ~CClientSocket: no notification of a deleted socket arrives.
\* The messages that stay keep their order.
DeleteSocket ==
  /\ socket' = "null" /\ bConnected' = FALSE
  /\ \E n \in 0 .. Len(rcvMsgs) : \E stays \in [1 .. n -> DOMAIN rcvMsgs] :
       /\ Increasing(stays)
       /\ {stays[i] : i \in 1 .. n} = {i \in DOMAIN rcvMsgs : rcvMsgs[i] \in {"tick", "init"}}
       /\ rcvMsgs' = [i \in 1 .. n |-> rcvMsgs[stays[i]]]

\* GetMessage.  All steps of a handler but the first wait in todo.
Handles(m) == todo = << >> /\ rcvMsgs # << >> /\ Head(rcvMsgs) = m /\ rcvMsgs' = Tail(rcvMsgs)

InitTcpThread ==
  /\ Handles("init")
  /\ todo' = <<"start">>
  /\ UNCHANGED <<environment, connection, retryTick, list, xmitMsgs, transmit>>

OnTimer ==
  /\ Handles("tick")
  /\ LET due == ~bConnected /\ retryTick >= RetryTicks
     IN  /\ todo' = IF due THEN <<"start", "post">> ELSE <<"post">>
         /\ retryTick' = IF bConnected THEN retryTick ELSE IF due THEN 1 ELSE retryTick + 1
  /\ UNCHANGED <<environment, connection, list, xmitMsgs, transmit>>

OnConnect ==
  /\ \/ Handles("connect") /\ bConnected' = TRUE
     \/ Handles("refused") /\ bConnected' = FALSE
  /\ UNCHANGED <<environment, socket, todo, retryTick, list, xmitMsgs, transmit>>

\* Variant: the close is only reported, as in OnSocketClose.
OnCloseReported ==
  /\ Handles("close")
  /\ UNCHANGED <<environment, connection, todo, retryTick, list, xmitMsgs, transmit>>

OnClose ==
  /\ Handles("close")
  /\ bConnected' = FALSE
  /\ todo' = <<"delete">>
  /\ UNCHANGED <<environment, socket, retryTick, list, xmitMsgs, transmit>>

Delete ==
  /\ todo # << >> /\ Head(todo) = "delete" /\ todo' = Tail(todo)
  /\ DeleteSocket
  /\ UNCHANGED <<environment, retryTick, list, xmitMsgs, transmit>>

\* Variant: with a socket there is nothing to do.
StartOnce ==
  /\ todo # << >> /\ Head(todo) = "start"
  /\ IF bConnected \/ socket # "null"
     THEN todo' = Tail(todo) /\ UNCHANGED socket
     ELSE /\ todo' = <<"connect">> \o Tail(todo)
          /\ socket' = "created"
  /\ UNCHANGED <<environment, bConnected, rcvMsgs, retryTick, list, xmitMsgs, transmit>>

\* nOnConnectError is WSAECONNREFUSED to start with, and then what Connect left
\* there while it kept the socket: every one of these leads to ConnectSocket.
StartTCPCommunication ==
  /\ todo # << >> /\ Head(todo) = "start"
  /\ IF bConnected
     THEN todo' = Tail(todo) /\ UNCHANGED socket
     ELSE /\ todo' = <<"connect">> \o Tail(todo)
          /\ socket' = IF socket = "null" THEN "created" ELSE socket
  /\ UNCHANGED <<environment, bConnected, rcvMsgs, retryTick, list, xmitMsgs, transmit>>

\* An attempt in progress makes Connect fail with WSAEINVAL, which is taken for
\* success, or with WSAEALREADY, which deletes the socket.
ConnectSocket ==
  /\ todo # << >> /\ Head(todo) = "connect" /\ todo' = Tail(todo)
  /\ \/ /\ socket \in {"created", "failed"} /\ socket' = "connecting"
        /\ UNCHANGED <<bConnected, rcvMsgs>>
     \/ /\ socket \in {"connecting", "open", "broken"}
        /\ UNCHANGED <<connection, rcvMsgs>>
     \/ socket = "connecting" /\ DeleteSocket
  /\ UNCHANGED <<environment, retryTick, list, xmitMsgs, transmit>>

\* Variant: the send thread is only told when a new connection is tried.
PostWhenDue ==
  /\ todo # << >> /\ Head(todo) = "post" /\ todo' = Tail(todo) /\ xmitMsgs < MaxMsgs
  /\ xmitMsgs' = IF sendList # << >> /\ retryTick = 1 THEN xmitMsgs + 1 ELSE xmitMsgs
  /\ UNCHANGED <<environment, connection, rcvMsgs, retryTick, list, transmit>>

\* The end of OnTimer.
Post ==
  /\ todo # << >> /\ Head(todo) = "post" /\ todo' = Tail(todo) /\ xmitMsgs < MaxMsgs
  /\ xmitMsgs' = IF sendList # << >> THEN xmitMsgs + 1 ELSE xmitMsgs
  /\ UNCHANGED <<environment, connection, rcvMsgs, retryTick, list, transmit>>

Receive ==
  InitTcpThread \/ OnTimer \/ OnConnect \/ OnClose \/ Delete
    \/ StartTCPCommunication \/ ConnectSocket \/ Post

-----------------------------------------------------------------------------
\* SendIdataToPag, on a receive-list thread.

Feed ==
  /\ feeder = "idle" /\ made < MaxPackets
  /\ made' = made + 1
  /\ feeder' = IF socket = "null" THEN "restart" ELSE "queue"
  /\ UNCHANGED <<environment, connection, receiver, sendList, xmitMsgs, transmit>>

Queue ==
  /\ feeder = "queue" /\ feeder' = "idle"
  /\ sendList' = Append(sendList, made)
  /\ UNCHANGED <<environment, connection, receiver, made, xmitMsgs, transmit>>

\* The packet has been deleted.
Restart ==
  /\ feeder = "restart" /\ feeder' = "idle"
  /\ bConnected' = FALSE /\ Notify("init")
  /\ UNCHANGED <<environment, socket, todo, retryTick, sendList, made, xmitMsgs, transmit>>

-----------------------------------------------------------------------------
\* TransmitPackets, on the send thread.

Begin ==
  /\ sender = "idle" /\ xmitMsgs > 0 /\ xmitMsgs' = xmitMsgs - 1
  /\ sender' = IF sendList = << >> THEN "idle"
               ELSE IF socket = "null" \/ ~bConnected THEN "kill" ELSE "take"
  /\ UNCHANGED <<environment, connection, receiver, list, packet, tries, count, lost, sent>>

\* Not connected: the packets are deleted.
Kill ==
  /\ sender = "kill" /\ sender' = "idle"
  /\ bConnected' = FALSE /\ sendList' = << >>
  /\ UNCHANGED <<environment, socket, receiver, made, feeder, xmitMsgs,
                 packet, tries, count, lost, sent>>

Take ==
  /\ sender = "take"
  /\ IF sendList = << >>
     THEN sender' = "idle" /\ UNCHANGED <<sendList, packet, tries, count>>
     ELSE /\ sender' = "try" /\ packet' = Head(sendList) /\ sendList' = Tail(sendList)
          /\ tries' = 0 /\ count' = count + 1
  /\ UNCHANGED <<environment, connection, receiver, made, feeder, xmitMsgs, lost, sent>>

\* Variant: a packet that cannot be sent is put back at the end of the list.
TryRequeues ==
  /\ sender = "try"
  /\ IF tries = RetryCount
     THEN sender' = "take" /\ sendList' = Append(sendList, packet)
     ELSE sender' = (IF socket = "null" THEN "take" ELSE "send") /\ UNCHANGED sendList
  /\ UNCHANGED <<environment, connection, receiver, made, feeder, xmitMsgs,
                 packet, tries, count, lost, sent>>

\* Variant: after the last try the packet is dropped without being counted.
TryUncounted ==
  /\ sender = "try"
  /\ sender' = IF tries = RetryCount \/ socket = "null" THEN "take" ELSE "send"
  /\ UNCHANGED <<environment, connection, receiver, list, xmitMsgs,
                 packet, tries, count, lost, sent>>

\* The head of the retry loop and what follows it.
Try ==
  /\ sender = "try"
  /\ IF tries = RetryCount
     THEN sender' = "take" /\ lost' = lost + 1
     ELSE sender' = (IF socket = "null" THEN "take" ELSE "send") /\ UNCHANGED lost
  /\ UNCHANGED <<environment, connection, receiver, list, xmitMsgs, packet, tries, count, sent>>

\* Send returns the whole length, or less, or an error.  The number of the
\* packet is the count before it was taken.
Send ==
  /\ sender = "send"
  /\ \/ socket = "null" /\ sender' = "crashed" /\ UNCHANGED <<tries, sent>>
     \/ /\ socket = "open"
        /\ sent' = Append(sent, [id |-> packet, num |-> count - 1])
        /\ sender' = "take" /\ UNCHANGED tries
     \/ /\ socket = "broken"
        /\ sender' = "take" /\ UNCHANGED <<tries, sent>>
     \/ /\ socket # "null" /\ (socket = "open" => MayFail)
        /\ tries' = tries + 1 /\ sender' = "try" /\ UNCHANGED sent
  /\ UNCHANGED <<environment, connection, receiver, list, xmitMsgs, packet, count, lost>>

TransmitPackets == Begin \/ Kill \/ Take \/ Try \/ Send

Next ==
  \/ NetConnect \/ PagStarts \/ PagCloses \/ OtherLink \/ TimerTick
  \/ Receive
  \/ Feed \/ Queue \/ Restart
  \/ TransmitPackets

Spec == Init /\ [][Next]_vars

\* The threads run.  The timer goes on ticking, whatever the other connection
\* does, as long as that is up again and again.  A try to connect completes
\* sometimes before the next try, 50 ticks later, may end it.
Fair ==
  /\ SF_vars(TimerTick) /\ WF_vars(Receive) /\ WF_vars(Queue \/ Restart)
  /\ WF_vars(TransmitPackets) /\ SF_vars(NetConnect)

LiveSpec == Spec /\ Fair

-----------------------------------------------------------------------------
TypeOK ==
  /\ pagUp \in BOOLEAN /\ otherUp \in BOOLEAN /\ closes \in 0 .. MaxCloses
  /\ socket \in {"null", "created", "connecting", "failed", "open", "broken"}
  /\ bConnected \in BOOLEAN
  /\ Len(rcvMsgs) <= MaxMsgs
  /\ ToSet(rcvMsgs) \subseteq {"tick", "init", "connect", "refused", "close"}
  /\ ToSet(todo) \subseteq {"start", "connect", "delete", "post"} /\ Len(todo) <= 2
  /\ retryTick \in 0 .. RetryTicks /\ xmitMsgs \in 0 .. MaxMsgs
  /\ Increasing(sendList) /\ ToSet(sendList) \subseteq 1 .. made /\ made <= MaxPackets
  /\ feeder \in {"idle", "queue", "restart"}
  /\ sender \in {"idle", "kill", "take", "try", "send", "crashed"}
  /\ packet \in 0 .. made /\ tries \in 0 .. RetryCount /\ count <= made /\ lost <= count

\* Packets reach TCP in the order they were made, each at most once, under
\* rising numbers: what retries, deletions and reconnects do never reorders or
\* repeats a whole packet (ClientCommunicationThread.cpp:1133-1333).
SentInOrder ==
  /\ Increasing([i \in DOMAIN sent |-> sent[i].id])
  /\ Increasing([i \in DOMAIN sent |-> sent[i].num])

\* While the PAG never closes the connection, the numbers missing in what it
\* gets are as many as uLostSentPackets says.
LossesCounted ==
  closes = 0 /\ sender \in {"idle", "kill", "take"} => count = Len(sent) + lost

\* What retries, losses and reconnects leave of the packets is in order and accounted for.
Inv == TypeOK /\ SentInOrder /\ LossesCounted

\* ClientConnectionManagement.h:139, "true if connection is successful": with
\* nothing waiting at the receive thread, bConnected means an open socket.
ConnectedMeansOpen ==
  bConnected /\ rcvMsgs = << >> /\ todo = << >> => socket = "open"

\* The timer ticks this connection now and then.
Ticked == []<>otherUp

\* ClientCommunicationThread.cpp:1419, "In case we have packets to send and
\* haven't been pinged to send them": as long as the timer ticks now and then,
\* the list is emptied again and again.
Drains == Ticked => (sendList # << >> ~> (sendList = << >> \/ sender = "crashed"))

\* When the PAG stays up, the socket is opened in the end and stays open.
Reopens == Ticked /\ <>[]pagUp => <>[](socket = "open" \/ sender = "crashed")

\* ClientCommunicationThread.cpp:1387, "if we haven't made the connection after
\* a second or so, retry": when the PAG stays up, we are connected in the end.
Reconnects == Ticked /\ <>[]pagUp => <>[](bConnected \/ sender = "crashed")
=============================================================================
