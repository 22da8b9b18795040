------------------------------ MODULE StartUp -------------------------------
(***************************************************************************)
(* How the PAP makes its two servers, one for the boards and one for the   *)
(* pulser, and their listener threads, and how it stops the latter.        *)
(*                                                                         *)
(*  - The GUI thread makes a CServerConnectionManagement, pSCM[i], and has *)
(*    it start its listener thread.  It waits four seconds for server 0 to *)
(*    listen, and does not wait for server 1.                              *)
(*  - The listener thread gets the object with its first message, makes    *)
(*    the listening socket for it, and keeps both.                         *)
(*  - The shut-down tells each listener thread to stop, waits a second,    *)
(*    and deletes the object.                                              *)
(*                                                                         *)
(* As in ServerConnection, patient says whether waits are long enough, and *)
(* after an access to what is not there the model stops (crashed).  What   *)
(* is accepted, and how that is taken down, is there too.                  *)
(***************************************************************************)
EXTENDS Integers, Sequences

Servers == {0, 1}

VARIABLES
  patient,
  address,              \* of each server: "free", "taken" by another program, or "bad" in the INI file
  pSCM,                 \* the servers whose object is there
  pServerListenThread,  \* those whose structure has a thread
  pServerListenSocket,  \* and a socket
  nServerIsListening,
  listener,             \* where each listener thread is
  m_pListenSocket,      \* its own socket: "none", "open", or "dead" if there is no handle
  mail,                 \* its messages
  gui,                  \* <<what the GUI thread does, for which server>>
  crashed

outside == <<patient, address>>
structure == <<pServerListenThread, pServerListenSocket, nServerIsListening>>
thread == <<listener, m_pListenSocket, mail>>
startUp == <<outside, pSCM, structure, thread, gui, crashed>>

Init ==
  /\ patient \in BOOLEAN /\ address \in [Servers -> {"free", "taken", "bad"}]
  /\ pSCM = {} /\ pServerListenThread = {} /\ pServerListenSocket = {} /\ nServerIsListening = {}
  /\ listener = [s \in Servers |-> "none"] /\ m_pListenSocket = [s \in Servers |-> "none"]
  /\ mail = [s \in Servers |-> << >>]
  /\ gui = <<"start", 0>> /\ crashed = "no"

-----------------------------------------------------------------------------
Quiet(s) == listener[s] \in {"none", "gone"} \/ (listener[s] = "idle" /\ mail[s] = << >>)

\* A Sleep or a wait of the GUI thread comes to its end.
WaitEnds == patient => \A s \in Servers : Quiet(s)

Crash(t) == crashed' = t /\ UNCHANGED <<outside, pSCM, structure, thread, gui>>
Fine == UNCHANGED <<outside, crashed>>
Moves(s, l) == listener' = [listener EXCEPT ![s] = l]

\* PostThreadMessage fails if there is no thread any more.
Posted(s, m) == IF listener[s] = "gone" THEN mail ELSE [mail EXCEPT ![s] = Append(@, m)]

Gets(s, m) == listener[s] = "idle" /\ mail[s] # << >> /\ Head(mail[s]) = m
Read(s) == mail' = [mail EXCEPT ![s] = Tail(@)]

\* The thread follows m_pMySCM, or its socket does: A, if the object is there.
Through(s, A) == (s \in pSCM /\ A /\ Fine) \/ (s \notin pSCM /\ Crash("listener"))

-----------------------------------------------------------------------------
\* The listener thread.  InitListnerThread makes the socket, which has no handle if its
\* port is taken, and then makes it listen whether it has one or not.
InitListnerThread(s) ==
  /\ Gets(s, "init")
  /\ Through(s, /\ Read(s) /\ Moves(s, "listen")
                /\ nServerIsListening' = nServerIsListening \ {s}
                /\ m_pListenSocket' = [m_pListenSocket EXCEPT
                                         ![s] = IF address[s] = "free" THEN "open" ELSE "dead"]
                /\ UNCHANGED <<pSCM, pServerListenThread, pServerListenSocket, gui>>)

Listen(s) ==
  /\ listener[s] = "listen"
  /\ Through(s, /\ Moves(s, "idle")
                /\ pServerListenSocket' = pServerListenSocket \cup {s}
                /\ nServerIsListening' =
                     nServerIsListening \cup {t \in {s} : m_pListenSocket[t] = "open"}
                /\ UNCHANGED <<pSCM, pServerListenThread, m_pListenSocket, mail, gui>>)

\* ~CServerSocket forgets the socket by way of the object.
DeleteSocket(s) ==
  /\ m_pListenSocket' = [m_pListenSocket EXCEPT ![s] = "none"]
  /\ pServerListenSocket' = pServerListenSocket \ {s}

StopListnerThread(s) ==
  /\ Gets(s, "stop") /\ s \in pServerListenThread
  /\ Through(s, /\ Read(s) /\ Moves(s, "exit") /\ DeleteSocket(s)
                /\ UNCHANGED <<pSCM, pServerListenThread, nServerIsListening, gui>>)

\* WM_QUIT from the destructor: ExitInstance finds the socket and deletes it.
QuitPosted(s) ==
  /\ Gets(s, "quit")
  /\ Through(s, /\ Read(s) /\ Moves(s, "exit") /\ DeleteSocket(s)
                /\ UNCHANGED <<pSCM, pServerListenThread, nServerIsListening, gui>>)

\* ExitInstance without a socket, and ~CServerListenThread.  Structures are never deleted.
ExitInstance(s) ==
  /\ listener[s] = "exit" /\ Moves(s, "gone") /\ mail' = [mail EXCEPT ![s] = << >>]
  /\ pServerListenThread' = pServerListenThread \ {s}
  /\ Fine
  /\ UNCHANGED <<pSCM, pServerListenSocket, nServerIsListening, m_pListenSocket, gui>>

ListenerThread ==
  \E s \in Servers :
    InitListnerThread(s) \/ Listen(s) \/ StopListnerThread(s) \/ QuitPosted(s) \/ ExitInstance(s)

-----------------------------------------------------------------------------
\* The GUI thread: InitializeServerConnectionManagement and DestroySCM.

After(s) == IF s = 0 THEN <<"start", 1>> ELSE <<"run", 0>>

\* StartListenerThread refuses an address that cannot be one, and the object goes again.
\* Otherwise the thread gets its first message before it has run.
StartListenerThread ==
  LET s == gui[2] IN
  /\ gui[1] = "start"
  /\ s = 1 => WaitEnds  \* Sleep(500)
  /\ IF address[s] = "bad"
     THEN gui' = After(s) /\ UNCHANGED <<pSCM, structure, thread>>
     ELSE /\ pSCM' = pSCM \cup {s}
          /\ pServerListenThread' = pServerListenThread \cup {s}
          /\ mail' = Posted(s, "init") /\ Moves(s, "idle")
          /\ gui' = IF s = 0 THEN <<"wait", 0>> ELSE After(s)
          /\ UNCHANGED <<pServerListenSocket, nServerIsListening, m_pListenSocket>>
  /\ Fine

IsListening ==
  /\ gui[1] = "wait" /\ gui[2] \in nServerIsListening
  /\ gui' = After(gui[2])
  /\ Fine /\ UNCHANGED <<pSCM, structure, thread>>

\* The destructor leaves a thread that is still there a message.
DeleteSCM(s) ==
  /\ pSCM' = pSCM \ {s}
  /\ mail' = IF s \in pServerListenThread THEN Posted(s, "quit") ELSE mail
  /\ UNCHANGED <<structure, listener, m_pListenSocket>>

\* Variant: the other server is given up, too.
GiveUpAll ==
  /\ gui[1] = "wait" /\ gui[2] \notin nServerIsListening /\ WaitEnds
  /\ gui' = <<"run", 0>> /\ DeleteSCM(gui[2]) /\ Fine

\* After four seconds the server is given up, and never tried again.
TimedOut ==
  /\ gui[1] = "wait" /\ gui[2] \notin nServerIsListening /\ WaitEnds
  /\ gui' = After(gui[2]) /\ DeleteSCM(gui[2]) /\ Fine

PressShutdown ==
  /\ gui[1] = "run" /\ gui' = <<"destroy", 0>>
  /\ Fine /\ UNCHANGED <<pSCM, structure, thread>>

\* ServerShutDown does nothing about a thread that is not there.
ServerShutDown ==
  LET s == gui[2] IN
  /\ gui[1] = "destroy"
  /\ gui' = <<IF s \in pSCM THEN "waitExit" ELSE "deleted", s>>
  /\ mail' = IF s \in pSCM \cap pServerListenThread THEN Posted(s, "stop") ELSE mail
  /\ Fine /\ UNCHANGED <<pSCM, structure, listener, m_pListenSocket>>

\* It is over when the thread has gone, or after a second.
DestroySCM ==
  LET s == gui[2] IN
  \/ /\ gui[1] = "waitExit" /\ (s \in pServerListenThread => WaitEnds)
     /\ gui' = <<"deleted", s>> /\ DeleteSCM(s) /\ Fine
  \/ /\ gui[1] = "deleted"
     /\ gui' = IF s = 0 THEN <<"destroy", 1>> ELSE <<"done", 0>>
     /\ Fine /\ UNCHANGED <<pSCM, structure, thread>>

Next ==
  /\ crashed = "no"
  /\ \/ ListenerThread
     \/ StartListenerThread \/ IsListening \/ TimedOut
     \/ PressShutdown \/ ServerShutDown \/ DestroySCM

Spec == Init /\ [][Next]_startUp

-----------------------------------------------------------------------------
TypeOK ==
  /\ patient \in BOOLEAN /\ address \in [Servers -> {"free", "taken", "bad"}]
  /\ \A field \in {pSCM, pServerListenThread, pServerListenSocket, nServerIsListening} :
       field \subseteq Servers
  /\ listener \in [Servers -> {"none", "idle", "listen", "exit", "gone"}]
  /\ m_pListenSocket \in [Servers -> {"none", "open", "dead"}]
  /\ mail \in [Servers -> Seq({"init", "stop", "quit"})]
  /\ gui \in {"start", "wait", "run", "destroy", "waitExit", "deleted", "done"} \X Servers
  /\ crashed \in {"no", "listener"}

Started(s) == gui[1] = "run" \/ (gui[1] = "start" /\ s < gui[2])

\* PA2WinDlg.cpp:1421, "wait a while until listening": if waits are long enough, a server
\* whose address is free listens when the next one is made, or soon after the last, whatever
\* becomes of the other; the program ends without a listener thread; and no listener follows
\* an object that is gone, but that of server 0 if its port was taken.
StartsAndStops ==
  patient =>
    /\ crashed # "no" => address[0] = "taken"
    /\ \A s \in Servers :
         /\ Started(s) /\ address[s] = "free" /\ Quiet(s) => s \in pSCM \cap nServerIsListening
         /\ s \in pSCM /\ listener[s] = "idle" => s \in pServerListenThread
    /\ gui[1] = "done" => \A s \in Servers : listener[s] \in {"none", "gone"}
    /\ address[0] = "free" /\ gui = <<"start", 1>> => 0 \in nServerIsListening
=============================================================================
