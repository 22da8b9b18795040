--------------------------- MODULE ClientShutdown ---------------------------
(***************************************************************************)
(* How the PAP takes down one of its connections to the PAG, pCCM_PAG.     *)
(* DestroyCCM tells the receive thread to delete the socket and itself,    *)
(* then the send thread and the command thread, and deletes the object.    *)
(*                                                                         *)
(*  - The receive thread deletes the socket, and in ExitInstance all       *)
(*    lists, also those that the other threads use.                        *)
(*  - The send thread empties the send list, the command thread the        *)
(*    receive list; a receive-list thread of the servers, which are shut   *)
(*    down later, fills the send list.                                     *)
(*  - The test thread ticks, as long as it runs.                           *)
(*                                                                         *)
(* As in ServerConnection, the threads are told apart by Sleep and waits   *)
(* that give up; patient says whether these are long enough; after an      *)
(* access to what is not there the model stops (crashed).                  *)
(***************************************************************************)
EXTENDS Integers, Sequences, SequencesExt

CONSTANTS
  MaxPackets,  \* bound: packets in a list
  MaxMsgs      \* bound: messages waiting at the receive thread, without the GUI's

ASSUME ShutdownAssumption == MaxPackets \in Nat /\ MaxMsgs \in Nat

Workers == {"rcv", "snd", "cmd"}
Threads == Workers \cup {"feeder", "gui"}
Gone == -1  \* a list that has been deleted

VARIABLES
  patient,
  traffic,   \* boards send inspection data, and the PAG commands
  calm,      \* they did not when the shut-down began, and the lists were empty
  ccm,       \* pCCM_PAG is there
  pSocket,   \* "null", "open" or "closed" (with m_hSocket of -1)
  sendList,  \* packets in pSendPktList, or Gone
  rcvList,   \* commands in pRcvPktPacketList, or Gone
  pThread,   \* the workers whose pointers are set
  rcvMsgs,   \* messages to the receive thread
  msgs,      \* those to the other workers: at most one of a kind
  quit,      \* the receive thread has WM_QUIT coming
  pc,
  crashed

state == <<ccm, pSocket, sendList, rcvList, pThread>>
outside == <<patient, traffic, calm>>
queues == <<rcvMsgs, msgs, quit>>
vars == <<outside, state, queues, pc, crashed>>

nShutDown == pc["gui"] # "run"

Init ==
  /\ patient \in BOOLEAN /\ traffic \in BOOLEAN /\ calm = FALSE
  /\ ccm = TRUE /\ pSocket = "null" /\ sendList = 0 /\ rcvList = 0
  /\ pThread = Workers
  /\ rcvMsgs = <<"init">> /\ msgs = {} /\ quit = FALSE
  /\ pc = [t \in Threads |-> IF t = "gui" THEN "run" ELSE "idle"]
  /\ crashed = "no"

-----------------------------------------------------------------------------
\* Time.

HasMessage(t) ==
  IF t = "rcv" THEN quit \/ rcvMsgs # << >> ELSE \E m \in msgs : m[1] = t

\* How long a thread waits where it is: 0, 10 ms, somewhat later than that, 20 ms, up to
\* a second, or for ever.
Delay(t) ==
  CASE pc[t] \in {"gone", "run", "done"} -> 9
    [] pc[t] = "idle" /\ t \in Workers -> IF HasMessage(t) THEN 0 ELSE 9
    [] pc[t] = "idle" /\ t = "feeder" -> 9
    [] pc[t] = "sleepKill" -> 1
    [] pc[t] = "waitSocket" -> IF pSocket = "open" THEN 4 ELSE 1
    [] pc[t] \in {"onClose", "killSocket", "killed", "killRecv", "exitSocket"} -> 2
    [] pc[t] = "sleep20" -> 3
    [] pc[t] = "waitTester" -> 4
    [] pc[t] \in {"wait rcv", "last rcv"} -> IF "rcv" \in pThread THEN 4 ELSE 0
    [] pc[t] \in {"wait snd", "last snd"} -> IF "snd" \in pThread THEN 4 ELSE 0
    [] pc[t] \in {"wait cmd", "last cmd"} -> IF "cmd" \in pThread THEN 4 ELSE 0
    [] OTHER -> 0

Awake(t) == patient => \A u \in Threads \ {t} : Delay(u) >= Delay(t)

-----------------------------------------------------------------------------
At(t, l) == pc[t] = l
Goto(t, l) == pc' = [pc EXCEPT ![t] = l]

Crash(t) == crashed' = t /\ UNCHANGED <<outside, state, queues, pc>>

Fine == UNCHANGED <<outside, crashed>>

\* The thread that posts may be any; the queue of a thread goes with it.
PostRcv(m) == rcvMsgs' = IF pc["rcv"] = "gone" THEN rcvMsgs ELSE Append(rcvMsgs, m)
PostTo(t, m) == msgs' = IF pc[t] = "gone" THEN msgs ELSE msgs \cup {<<t, m>>}

FromGui == {"killSocket", "killRecv"}
HasRoom == Len(SelectSeq(rcvMsgs, LAMBDA m : m \notin FromGui)) < MaxMsgs

-----------------------------------------------------------------------------
\* Boards and PAG.

Outside(A) == A /\ UNCHANGED <<patient, calm, ccm, sendList, rcvList, pThread, msgs, quit, pc, crashed>>

TrafficEnds == Outside(traffic /\ traffic' = FALSE /\ UNCHANGED <<pSocket, rcvMsgs>>)

Notify(m) ==
  Outside(/\ pSocket = "open" /\ HasRoom /\ ~Contains(rcvMsgs, m) /\ PostRcv(m)
          /\ UNCHANGED <<traffic, pSocket>>)

PagCommands == traffic /\ Notify("packet")
PagCloses == Notify("close")

-----------------------------------------------------------------------------
\* The receive thread.

Gets(m) == At("rcv", "idle") /\ rcvMsgs # << >> /\ Head(rcvMsgs) = m
Rest == rcvMsgs' = Tail(rcvMsgs)

\* The handler A uses the object.
Through(A) == (ccm /\ A /\ Fine) \/ (~ccm /\ Crash("rcv"))

\* StartTCPCommunication, which makes a socket if there is none; PagLink has the rest.
InitTcpThread ==
  /\ Gets("init")
  /\ Through(/\ Rest
             /\ pSocket' = IF pSocket = "null" THEN "open" ELSE pSocket
             /\ UNCHANGED <<ccm, sendList, rcvList, pThread, msgs, quit, pc>>)

\* A tick may be due for that, too, and tells the send thread that there are packets.
OnTimer ==
  /\ Gets("tick")
  /\ Through(/\ Rest
             /\ pSocket' \in {pSocket, IF pSocket = "null" THEN "open" ELSE pSocket}
             /\ IF sendList > 0 /\ "snd" \in pThread THEN PostTo("snd", "send") ELSE UNCHANGED msgs
             /\ UNCHANGED <<ccm, sendList, rcvList, pThread, quit, pc>>)

OnReceive ==
  /\ Gets("packet")
  /\ Through(/\ Rest
             /\ rcvList' = IF rcvList \in 0 .. MaxPackets - 1 THEN rcvList + 1 ELSE rcvList
             /\ PostTo("cmd", "packets")
             /\ UNCHANGED <<ccm, pSocket, sendList, pThread, quit, pc>>)

\* No notification of a closed socket arrives: of the messages ms the others stay.
NoNotifications(ms) ==
  \E n \in 0 .. Len(ms) : \E stays \in [1 .. n -> DOMAIN ms] :
    /\ \A i, j \in 1 .. n : i < j => stays[i] < stays[j]
    /\ {stays[i] : i \in 1 .. n} = {i \in DOMAIN ms : ms[i] \notin {"packet", "close"}}
    /\ rcvMsgs' = [i \in 1 .. n |-> ms[stays[i]]]

\* ~CClientSocket closes the handle, and sleeps before it forgets the socket.
Close(l) ==
  /\ pSocket' = "closed" /\ NoNotifications(Tail(rcvMsgs)) /\ Goto("rcv", l)
  /\ UNCHANGED <<ccm, sendList, rcvList, pThread, msgs, quit>>

OnClose == Gets("close") /\ Through(Close("onClose"))

SocketForgotten ==
  /\ At("rcv", "onClose") /\ Awake("rcv")
  /\ Through(/\ Goto("rcv", "idle") /\ pSocket' = "null"
             /\ UNCHANGED <<ccm, sendList, rcvList, pThread, queues>>)

\* KillSocket; in a shut-down, the only time it is sent, KillReceiveThread follows.
KillSocket ==
  \/ pSocket # "null" /\ Gets("killSocket") /\ Through(Close("killSocket"))
  \/ /\ pSocket = "null" /\ Gets("killSocket") /\ Rest
     /\ quit' = TRUE /\ Goto("rcv", "killed")
     /\ Fine /\ UNCHANGED <<state, msgs>>

\* KillReceiveThread deletes a socket that was made meanwhile.
KillReceiveThread ==
  \/ pSocket # "null" /\ Gets("killRecv") /\ Through(Close("killRecv"))
  \/ /\ pSocket = "null" /\ Gets("killRecv") /\ Rest
     /\ quit' = TRUE
     /\ Fine /\ UNCHANGED <<state, msgs, pc>>

SocketKilled ==
  /\ Awake("rcv")
  /\ At("rcv", "killSocket") \/ At("rcv", "killRecv")
  /\ Through(/\ Goto("rcv", IF At("rcv", "killSocket") THEN "killed" ELSE "idle")
             /\ pSocket' = "null" /\ quit' = TRUE
             /\ UNCHANGED <<ccm, sendList, rcvList, pThread, rcvMsgs, msgs>>)

KillSlept ==
  /\ At("rcv", "killed") /\ Awake("rcv") /\ Goto("rcv", "idle")
  /\ Fine /\ UNCHANGED <<state, queues>>

RcvQuits ==
  /\ At("rcv", "idle") /\ rcvMsgs = << >> /\ quit /\ Goto("rcv", "exit")
  /\ Fine /\ UNCHANGED <<state, queues>>

\* ExitInstance does nothing, not even that, if the lists are gone.
ExitNothing ==
  /\ At("rcv", "exit") /\ rcvList = Gone /\ Goto("rcv", "gone")
  /\ Fine /\ UNCHANGED <<state, queues>>

ExitSocket ==
  /\ At("rcv", "exit") /\ rcvList # Gone /\ Goto("rcv", "exitSocket")
  /\ pSocket' = IF pSocket = "null" THEN "null" ELSE "closed"
  /\ NoNotifications(rcvMsgs)
  /\ Fine /\ UNCHANGED <<ccm, sendList, rcvList, pThread, msgs, quit>>

\* All lists are deleted.  A send list with packets in it is emptied by removing the heads
\* of a list that has just been deleted.
ExitLists ==
  /\ At("rcv", "exitSocket") /\ (pSocket # "null" => Awake("rcv"))
  /\ \/ /\ sendList = 0
        /\ Goto("rcv", "gone")
        /\ pSocket' = "null" /\ rcvList' = Gone /\ sendList' = Gone
        /\ pThread' = pThread \ {"rcv"}
        /\ Fine /\ UNCHANGED <<ccm, queues>>
     \/ sendList # 0 /\ Crash("rcv")

Receive ==
  InitTcpThread \/ OnTimer \/ OnReceive \/ OnClose \/ SocketForgotten \/ KillSocket
    \/ KillReceiveThread \/ SocketKilled \/ KillSlept \/ ExitNothing \/ ExitSocket \/ ExitLists

-----------------------------------------------------------------------------
\* The send thread and the command thread.

Taken(t, m) == At(t, "idle") /\ <<t, m>> \in msgs /\ msgs' = msgs \ {<<t, m>>}

\* Neither test of the list comes before each use of it.
TransmitPackets ==
  /\ At("snd", "idle") /\ <<"snd", "send">> \in msgs
  /\ \/ /\ sendList # Gone /\ (ccm \/ sendList = 0) /\ Taken("snd", "send")
        /\ sendList' = IF pSocket = "null" THEN 0 ELSE sendList
        /\ Goto("snd", IF pSocket = "null" \/ sendList = 0 THEN "idle" ELSE "busy")
        /\ Fine /\ UNCHANGED <<ccm, pSocket, rcvList, pThread, rcvMsgs, quit>>
     \/ (sendList = Gone \/ (~ccm /\ sendList > 0)) /\ Crash("snd")

SendNext ==
  /\ At("snd", "busy")
  /\ \/ /\ sendList > 0 /\ ccm /\ sendList' = sendList - 1
        /\ Fine /\ UNCHANGED <<ccm, pSocket, rcvList, pThread, queues, pc>>
     \/ /\ sendList = 0 /\ Goto("snd", "idle")
        /\ Fine /\ UNCHANGED <<state, queues>>
     \/ (sendList = Gone \/ (~ccm /\ sendList > 0)) /\ Crash("snd")

ProcessReceivedMessage ==
  /\ Taken("cmd", "packets")
  /\ Goto("cmd", IF ~ccm \/ rcvList = Gone THEN "idle" ELSE "busy")
  /\ Fine /\ UNCHANGED <<state, rcvMsgs, quit>>

CommandNext ==
  /\ At("cmd", "busy")
  /\ \/ /\ rcvList > 0 /\ ccm /\ rcvList' = rcvList - 1
        /\ Fine /\ UNCHANGED <<ccm, pSocket, sendList, pThread, queues, pc>>
     \/ /\ rcvList = 0 /\ Goto("cmd", "idle")
        /\ Fine /\ UNCHANGED <<state, queues>>
     \/ (rcvList = Gone \/ (~ccm /\ rcvList > 0)) /\ Crash("cmd")

\* Variant: PostQuitMessage is missing.
ExitForgotten(t) ==
  /\ Taken(t, "kill")
  /\ Fine /\ UNCHANGED <<state, rcvMsgs, quit, pc>>

\* Told to quit, a thread does so when no other message is left.
Exit(t) ==
  /\ Taken(t, "kill") /\ (\A m \in msgs' : m[1] # t)
  /\ Goto(t, "gone") /\ pThread' = pThread \ {t}
  /\ Fine /\ UNCHANGED <<ccm, pSocket, sendList, rcvList, rcvMsgs, quit>>

Send == TransmitPackets \/ SendNext \/ Exit("snd")
Command == ProcessReceivedMessage \/ CommandNext \/ Exit("cmd")

-----------------------------------------------------------------------------
\* SendIdataToPag, on a receive-list thread: tests, then adds.

SendIdataToPag ==
  /\ At("feeder", "idle") /\ traffic /\ ccm
  /\ IF pSocket = "null"
     THEN /\ "rcv" \in pThread /\ HasRoom /\ ~Contains(rcvMsgs, "init") /\ PostRcv("init")
          /\ UNCHANGED pc
     ELSE /\ "snd" \in pThread /\ sendList < MaxPackets /\ Goto("feeder", "queue")
          /\ UNCHANGED rcvMsgs
  /\ Fine /\ UNCHANGED <<state, msgs, quit>>

Queue ==
  /\ At("feeder", "queue")
  /\ \/ /\ ccm /\ sendList # Gone /\ sendList' = sendList + 1 /\ Goto("feeder", "idle")
        /\ Fine /\ UNCHANGED <<ccm, pSocket, rcvList, pThread, queues>>
     \/ (~ccm \/ sendList = Gone) /\ Crash("feeder")

\* The test thread, which sees nShutDown with a delay if it was not waited for.
TimerTick ==
  /\ patient => ~nShutDown
  /\ ~Contains(rcvMsgs, "tick")
  /\ \/ /\ ccm /\ "rcv" \in pThread /\ HasRoom /\ PostRcv("tick")
        /\ Fine /\ UNCHANGED <<state, msgs, quit, pc>>
     \/ ~ccm /\ nShutDown /\ Crash("tester")

-----------------------------------------------------------------------------
\* The GUI thread: OnBnClickedBnShutdown and DestroyCCM.

GuiStep(from, to) == At("gui", from) /\ Goto("gui", to)

PressShutdown ==
  /\ GuiStep("run", "waitTester")
  /\ calm' = /\ ~traffic /\ sendList = 0 /\ rcvList = 0 /\ ~Contains(rcvMsgs, "packet")
             /\ \A t \in {"snd", "cmd", "feeder"} : pc[t] = "idle"
  /\ UNCHANGED <<patient, traffic, state, queues, crashed>>

GuiKillSocket ==
  /\ Awake("gui")
  /\ \/ /\ pSocket # "null" /\ GuiStep("waitTester", "sleepKill")
        /\ IF "rcv" \in pThread THEN PostRcv("killSocket") ELSE UNCHANGED rcvMsgs
     \/ pSocket = "null" /\ GuiStep("waitTester", "sleep20") /\ UNCHANGED rcvMsgs
  /\ Fine /\ UNCHANGED <<state, msgs, quit>>

SocketAsked ==
  /\ Awake("gui") /\ GuiStep("sleepKill", IF pSocket = "null" THEN "sleep20" ELSE "waitSocket")
  /\ Fine /\ UNCHANGED <<state, queues>>

\* Every 10 ms it looks at the handle, through the pointer.
SocketWaited ==
  /\ At("gui", "waitSocket") /\ Awake("gui")
  /\ \/ pSocket # "null" /\ Goto("gui", "sleep20") /\ Fine /\ UNCHANGED <<state, queues>>
     \/ pSocket = "null" /\ Crash("gui")

\* Posts a message, if the thread's pointer is set, and waits for it to be cleared.
GuiKillReceiveThread(from, to) ==
  /\ Awake("gui") /\ GuiStep(from, to)
  /\ IF "rcv" \in pThread THEN PostRcv("killRecv") ELSE UNCHANGED rcvMsgs
  /\ Fine /\ UNCHANGED <<state, msgs, quit>>

GuiKill(t, from, to) ==
  /\ Awake("gui") /\ GuiStep(from, to)
  /\ IF t \in pThread THEN PostTo(t, "kill") ELSE UNCHANGED msgs
  /\ Fine /\ UNCHANGED <<state, rcvMsgs, quit>>

\* Variant: the receive thread is not waited for.
ThreadsNotWaited ==
  \/ GuiKillReceiveThread("sleep20", "wait rcv")
  \/ GuiStep("wait rcv", "delete") /\ Fine /\ UNCHANGED <<state, queues>>

KillThreads ==
  \/ GuiKillReceiveThread("sleep20", "wait rcv")
  \/ GuiKill("snd", "wait rcv", "wait snd")
  \/ GuiKill("cmd", "wait snd", "wait cmd")
  \/ Awake("gui") /\ GuiStep("wait cmd", "delete") /\ Fine /\ UNCHANGED <<state, queues>>

\* Variant: the destructor knows of one list only.
DeleteSendList ==
  /\ GuiStep("delete", "lists")
  /\ sendList' = Gone
  /\ Fine /\ UNCHANGED <<ccm, pSocket, rcvList, pThread, queues>>

\* ~CCCM_PAG deletes the lists that are left, ~CClientConnectionManagement tells the
\* threads that are left, and waits again.
DeleteLists ==
  /\ GuiStep("delete", "lists")
  /\ sendList' = Gone /\ rcvList' = Gone
  /\ Fine /\ UNCHANGED <<ccm, pSocket, pThread, queues>>

KillThreadsAgain ==
  \/ GuiKillReceiveThread("lists", "last rcv")
  \/ GuiKill("snd", "last rcv", "last snd")
  \/ GuiKill("cmd", "last snd", "last cmd")

Deleted ==
  /\ Awake("gui") /\ GuiStep("last cmd", "done")
  /\ ccm' = FALSE
  /\ Fine /\ UNCHANGED <<pSocket, sendList, rcvList, pThread, queues>>

DestroyCCM ==
  GuiKillSocket \/ SocketAsked \/ SocketWaited \/ KillThreads \/ DeleteLists
    \/ KillThreadsAgain \/ Deleted

Next ==
  /\ crashed = "no"
  /\ \/ TrafficEnds \/ PagCommands \/ PagCloses
     \/ Receive \/ RcvQuits \/ Send \/ Command
     \/ SendIdataToPag \/ Queue \/ TimerTick
     \/ PressShutdown \/ DestroyCCM

Spec == Init /\ [][Next]_vars

\* Every thread runs.  The receive thread has a moment without messages now and then,
\* and a patient Sleep ends though others come and go.
Running(A) == crashed = "no" /\ A
Fair ==
  /\ WF_vars(Running(Receive)) /\ SF_vars(Running(RcvQuits))
  /\ WF_vars(Running(Send)) /\ WF_vars(Running(Command)) /\ WF_vars(Running(Queue))
  /\ SF_vars(Running(DestroyCCM))

FairSpec == Spec /\ Fair

-----------------------------------------------------------------------------
TypeOK ==
  /\ {patient, traffic, calm, ccm} \subseteq BOOLEAN
  /\ pSocket \in {"null", "open", "closed"}
  /\ sendList \in Gone .. MaxPackets /\ rcvList \in Gone .. MaxPackets
  /\ (rcvList = Gone <=> sendList = Gone) /\ (~ccm => rcvList = Gone)
  /\ pThread \subseteq Workers /\ quit \in BOOLEAN
  /\ rcvMsgs \in Seq(FromGui \cup {"init", "tick", "packet", "close"})
  /\ msgs \subseteq {<<"snd", "send">>, <<"cmd", "packets">>, <<"snd", "kill">>, <<"cmd", "kill">>}
  /\ pc \in [Threads -> {"idle", "gone", "onClose", "killSocket", "killRecv", "killed", "exit",
                         "exitSocket", "busy", "queue", "run", "waitTester", "sleepKill",
                         "waitSocket", "sleep20", "wait rcv", "wait snd", "wait cmd", "delete",
                         "lists", "last rcv", "last snd", "last cmd", "done"}]
  /\ crashed \in Threads \cup {"no", "tester"}

WorkersGone == \A t \in Workers : pc[t] = "gone"

\* PA2WinDlg.cpp:2268, "delete the client socket, then the cmd process thread, then the
\* send thread, then the receive thread": if Sleeps and waits are long enough, the object
\* is deleted after its threads, nobody but ExitInstance, which empties the send list by
\* way of another one, finds something gone, not even in the middle of traffic, and a PAP
\* to which nobody was talking shuts down without a crash.
CleanExit ==
  patient =>
    /\ crashed \in {"no", "rcv"}
    /\ ~ccm => WorkersGone
    /\ calm => crashed = "no"

\* The type invariant and the clean exit.
Inv == TypeOK /\ CleanExit

\* The shut-down comes to its end, if boards and PAG fall silent some time, and then no
\* thread is left.
ShutDownEnds ==
  nShutDown /\ ~traffic ~> crashed # "no" \/ (pc["gui"] = "done" /\ (patient => WorkersGone))
=============================================================================
