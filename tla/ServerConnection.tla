-------------------------- MODULE ServerConnection --------------------------
(***************************************************************************)
(* The life of one entry pClientConnection[i] of a server of the PAP: the  *)
(* structure, its lists, its socket and its two threads, from the first    *)
(* OnAccept to ServerShutDown.                                             *)
(*                                                                         *)
(*  - The listener thread runs OnAccept.  It makes the structure for the   *)
(*    board's first connection, and attaches later connections itself, so  *)
(*    that it then also gets their notifications.                          *)
(*  - The owner thread attaches the first connection, makes the list       *)
(*    thread, and handles the messages that tell it to stop.               *)
(*  - The list thread processes packets through pSocket and pRcvPktList.   *)
(*  - The GUI thread shuts the server down.                                *)
(*                                                                         *)
(* The threads are told apart by nothing but Sleep and waits that give up. *)
(* The variable patient says whether these are long enough: if so, one of  *)
(* them ends only when no other thread has something to do, or a shorter   *)
(* Sleep to wait for.  After an access to what is no longer there the      *)
(* model stops (crashed).  A connection and the CServerSocket made for it  *)
(* have the same number.                                                   *)
(***************************************************************************)
EXTENDS Integers

CONSTANT MaxConns  \* bound: times the board connects

ASSUME ConnectionAssumption == MaxConns \in Nat

Conns == 1 .. MaxConns
Handlers == {"listener", "owner"}
Threads == Handlers \cup {"list", "gui"}

VARIABLES
  patient,  \* whether Sleeps and waits are long enough
  made,     \* connections of the board so far
  left,     \* those it has closed
  stage,    \* of each: "none", "pending" in the backlog, "held" as a mere handle,
            \* the thread that gets its notifications, or "closed"
  object,   \* the socket this thread's handle map has for it
  alive,    \* the CServerSockets there are
  handle,   \* m_hSocket of each: a connection, or 0
  hConn,    \* m_hConnectionSocket of the owner thread
  scc,      \* the structure: [there, pSocket, pOwner, pList, lists]
  kill,     \* WM_USER_KILL_OWNER_SOCKET waits at the owner thread
  stop,     \* WM_USER_STOP_LISTNER_THREAD: "no", "posted" or "done"
  packets,  \* a message waits at the list thread
  quit,     \* the threads that have WM_QUIT coming
  pc,       \* where each thread is
  work,     \* the connection or socket it works on
  exiting,  \* the owner thread is past its message loop
  crashed   \* the thread that accessed what is not there, or "no"

board == <<made, left>>
sockets == <<stage, object, alive, handle, hConn>>
messages == <<kill, stop, packets, quit>>
control == <<pc, work, exiting>>
vars == <<patient, board, sockets, scc, messages, control, crashed>>

\* PressShutdown sets nShutDown, ServerShutDown then nSeverShutDownFlag.
nShutDown == pc["gui"] # "run"
nSeverShutDownFlag == pc["gui"] \notin {"run", "destroyCCM"}

Listening == pc["listener"] # "gone" /\ stop # "done"

Init ==
  /\ patient \in BOOLEAN
  /\ made = 0 /\ left = {}
  /\ stage = [c \in Conns |-> "none"] /\ object = [c \in Conns |-> 0]
  /\ alive = {} /\ handle = [c \in Conns |-> 0] /\ hConn = 0
  /\ scc = [there |-> "no", pSocket |-> 0, pOwner |-> FALSE, pList |-> FALSE, lists |-> FALSE]
  /\ kill = FALSE /\ stop = "no" /\ packets = FALSE /\ quit = {}
  /\ pc = [t \in Threads |-> CASE t = "listener" -> "idle" [] t = "gui" -> "run" [] OTHER -> "none"]
  /\ work = [t \in Handlers |-> 0] /\ exiting = FALSE
  /\ crashed = "no"

-----------------------------------------------------------------------------
\* Time.

Notified(t) == \E c \in left : stage[c] = t

HasMessage(t) ==
  CASE t = "listener" -> \/ Notified(t) \/ stop = "posted" \/ t \in quit
                         \/ \E c \in Conns : stage[c] = "pending"
    [] t = "owner" -> Notified(t) \/ kill \/ t \in quit
    [] t = "list" -> packets \/ t \in quit
    [] OTHER -> FALSE

\* How long a thread will wait where it is: 0, some ms, a second, two seconds, or for ever.
Delay(t) ==
  CASE pc[t] \in {"none", "suspended", "gone", "run", "destroyCCM", "done"} -> 4
    [] pc[t] = "idle" -> IF HasMessage(t) THEN 0 ELSE 4
    [] pc[t] \in {"accept", "resume", "accepted", "closing", "startList", "quitting", "sleep"} -> 1
    [] pc[t] = "waitListener" -> IF pc["listener"] = "gone" THEN 0 ELSE 2
    [] pc[t] = "waitExit" -> IF scc.pOwner THEN 2 ELSE 0
    [] pc[t] = "waitSocket" -> 2
    [] pc[t] = "waitOwner" -> IF scc.pOwner THEN 3 ELSE 0
    [] pc[t] = "waitList" -> IF scc.pList THEN 2 ELSE 0
    [] OTHER -> 0

\* A Sleep or a wait of thread t ends.
Awake(t) == patient => \A u \in Threads \ {t} : Delay(u) >= Delay(t)

-----------------------------------------------------------------------------
Goto(t, l) == pc' = [pc EXCEPT ![t] = l]
At(t, l) == pc[t] = l

Crash(t) ==
  /\ crashed' = t
  /\ UNCHANGED <<patient, board, sockets, scc, messages, control>>

Fine == UNCHANGED <<patient, crashed>>

\* The board.  It connects again when it has left the last connection, or was
\* told that it is closed; a patient board takes a second.
Connect ==
  /\ Listening /\ made < MaxConns
  /\ made > 0 => made \in left \/ stage[made] = "closed"
  /\ (patient => \A t \in Threads : Delay(t) >= 2)
  /\ made' = made + 1
  /\ stage' = [stage EXCEPT ![made + 1] = "pending"]
  /\ Fine /\ UNCHANGED <<left, object, alive, handle, hConn, scc, messages, control>>

Disconnect ==
  /\ made > 0 /\ made \notin left /\ stage[made] # "closed"
  /\ left' = left \cup {made}
  /\ Fine /\ UNCHANGED <<made, sockets, scc, messages, control>>

-----------------------------------------------------------------------------
\* OnAccept, on the listener thread.

OnAcceptPrep ==
  /\ At("listener", "idle") /\ Listening
  /\ \E c \in Conns :
       /\ stage[c] = "pending" /\ \A d \in Conns : stage[d] = "pending" => c <= d
       /\ IF nSeverShutDownFlag
          THEN stage' = [stage EXCEPT ![c] = "closed"] /\ UNCHANGED <<pc, work>>
          ELSE /\ Goto("listener", "accept") /\ work' = [work EXCEPT !["listener"] = c]
               /\ UNCHANGED stage
  /\ Fine /\ UNCHANGED <<board, object, alive, handle, hConn, scc, messages, exiting>>

\* The first connection: the structure with its lists, the owner thread,
\* suspended, and the socket.
AcceptFirst ==
  /\ At("listener", "accept") /\ Awake("listener") /\ scc.there = "no"
  /\ LET c == work["listener"]
     IN  /\ stage' = [stage EXCEPT ![c] = "held"] /\ hConn' = c
         /\ alive' = alive \cup {c}
         /\ scc' = [there |-> "yes", pSocket |-> c, pOwner |-> TRUE, pList |-> FALSE, lists |-> TRUE]
  /\ pc' = [pc EXCEPT !["listener"] = "resume", !["owner"] = "suspended"]
  /\ Fine /\ UNCHANGED <<board, object, handle, messages, work, exiting>>

\* Variant: the owner thread stays suspended.
ResumeForgotten ==
  /\ At("listener", "resume") /\ Awake("listener")
  /\ Goto("listener", "accepted")
  /\ Fine /\ UNCHANGED <<board, sockets, scc, messages, work, exiting>>

Resume ==
  /\ At("listener", "resume") /\ Awake("listener")
  /\ \/ /\ scc.there = "yes" /\ scc.pSocket # 0
        /\ pc' = [pc EXCEPT !["listener"] = "accepted", !["owner"] = "starting"]
        /\ Fine /\ UNCHANGED <<board, sockets, scc, messages, work, exiting>>
     \/ (scc.there # "yes" \/ scc.pSocket = 0) /\ Crash("listener")

\* Variant: the old socket is taken to be there.
AcceptAgainReuses ==
  /\ At("listener", "accept") /\ Awake("listener")
  /\ scc.there = "yes" /\ scc.pOwner
  /\ stage' = [stage EXCEPT ![work["listener"]] = "held"] /\ hConn' = work["listener"]
  /\ Goto("listener", "attach")
  /\ Fine /\ UNCHANGED <<board, object, alive, handle, scc, messages, work, exiting>>

\* A later one, with the owner thread still there: a socket, if there is none ...
AcceptAgain ==
  /\ At("listener", "accept") /\ Awake("listener")
  /\ scc.there = "yes" /\ scc.pOwner
  /\ LET c == work["listener"]
     IN  /\ stage' = [stage EXCEPT ![c] = "held"]
         /\ alive' = IF scc.pSocket = 0 THEN alive \cup {c} ELSE alive
         /\ scc' = [scc EXCEPT !.pSocket = IF @ = 0 THEN c ELSE @]
         /\ hConn' = c
  /\ Goto("listener", "attach")
  /\ Fine /\ UNCHANGED <<board, object, handle, messages, work, exiting>>

\* ... and the handle is attached to it, on this thread.
Attach ==
  /\ At("listener", "attach")
  /\ \/ /\ scc.there = "yes" /\ scc.pSocket # 0
        /\ LET c == work["listener"]
           IN  /\ stage' = [stage EXCEPT ![c] = "listener"]
               /\ object' = [object EXCEPT ![c] = scc.pSocket]
               /\ handle' = [handle EXCEPT ![scc.pSocket] = c]
        /\ Goto("listener", "accepted")
        /\ Fine /\ UNCHANGED <<board, alive, hConn, scc, messages, work, exiting>>
     \/ (scc.there # "yes" \/ scc.pSocket = 0) /\ Crash("listener")

\* The owner thread is gone, or the structure is: refused.  (Bound: OnAccept
\* does not make a new structure while its server is being deleted.)
AcceptRefused ==
  /\ At("listener", "accept") /\ Awake("listener")
  /\ scc.there # "no" /\ ~scc.pOwner
  /\ stage' = [stage EXCEPT ![work["listener"]] = "closed"]
  /\ Goto("listener", "idle")
  /\ Fine /\ UNCHANGED <<board, object, alive, handle, hConn, scc, messages, work, exiting>>

Accepted ==
  /\ At("listener", "accepted") /\ Awake("listener")
  /\ Goto("listener", "idle")
  /\ Fine /\ UNCHANGED <<board, sockets, scc, messages, work, exiting>>

OnAccept ==
  OnAcceptPrep \/ AcceptFirst \/ Resume \/ AcceptAgain \/ Attach \/ AcceptRefused \/ Accepted

-----------------------------------------------------------------------------
\* A socket's end, on the thread that got the notification or is told to stop.

\* The connection of socket o is closed, and those in cs are.
CloseHandles(o, cs) ==
  /\ stage' = [c \in Conns |-> IF c \in cs \/ c = handle[o] THEN "closed" ELSE stage[c]]
  /\ handle' = [handle EXCEPT ![o] = 0]

\* OnClose, up to delete this.  The handle map may name a socket that has been
\* given another connection, or one that is gone.
OnClose(t) ==
  /\ At(t, "idle")
  /\ \E c \in left :
       /\ stage[c] = t
       /\ \/ /\ object[c] \in alive
             /\ CloseHandles(object[c], {c})
             /\ work' = [work EXCEPT ![t] = object[c]] /\ Goto(t, "closing")
             /\ Fine /\ UNCHANGED <<board, object, alive, hConn, scc, messages, exiting>>
          \/ object[c] \notin alive /\ Crash(t)

\* ~CServerSocket, of socket work[t].  In a shut-down it also deletes the lists
\* and tells the thread it runs on to quit.
Destroy(t) ==
  /\ At(t, "closing") /\ Awake(t)
  /\ LET sound == /\ scc.there = "yes" /\ scc.pSocket # 0 /\ work[t] \in alive
                  /\ nShutDown => scc.pOwner
     IN  \/ /\ sound
            /\ alive' = alive \ {work[t]}
            /\ IF nShutDown THEN UNCHANGED <<stage, handle>> ELSE CloseHandles(scc.pSocket, {})
            /\ scc' = [scc EXCEPT !.pSocket = 0, !.lists = @ /\ ~nShutDown]
            /\ quit' = IF nShutDown THEN quit \cup {t} ELSE quit
            /\ Goto(t, IF nShutDown THEN "waitExit" ELSE "unlink")
            /\ Fine /\ UNCHANGED <<board, object, hConn, kill, stop, packets, work, exiting>>
         \/ ~sound /\ Crash(t)

\* Its last lines, in a shut-down after waiting a second for the owner thread to go.
Unlink(t) ==
  /\ At(t, "unlink") \/ (At(t, "waitExit") /\ Awake(t))
  /\ \/ /\ scc.there = "yes"
        /\ scc' = [scc EXCEPT !.pSocket = 0]
        /\ Goto(t, IF t = "owner" /\ exiting THEN "exit" ELSE "idle")
        /\ Fine /\ UNCHANGED <<board, sockets, messages, work, exiting>>
     \/ scc.there # "yes" /\ Crash(t)

\* OnReceive: packets for the list, and a message to the list thread, which gets
\* it if it runs.
OnReceive(t) ==
  /\ At(t, "idle") /\ ~nSeverShutDownFlag
  /\ \E c \in Conns \ left :
       /\ stage[c] = t
       /\ \/ /\ object[c] \in alive /\ scc.there = "yes" /\ scc.pList
             /\ ~packets /\ packets' = (pc["list"] \in {"idle", "busy"})
             /\ Fine /\ UNCHANGED <<board, sockets, scc, kill, stop, quit, control>>
          \/ (object[c] \notin alive \/ scc.there # "yes" \/ ~scc.pList) /\ Crash(t)

-----------------------------------------------------------------------------
\* The listener thread's end.

StopListnerThread ==
  /\ At("listener", "idle") /\ stop = "posted"
  /\ stop' = "done" /\ quit' = quit \cup {"listener"}
  /\ stage' = [c \in Conns |-> IF stage[c] = "pending" THEN "closed" ELSE stage[c]]
  /\ Fine /\ UNCHANGED <<board, object, alive, handle, hConn, scc, kill, packets, control>>

\* WM_QUIT comes when no other message is left.
ListenerExit ==
  /\ At("listener", "idle") /\ "listener" \in quit
  /\ stop # "posted" /\ ~Notified("listener") /\ \A c \in Conns : stage[c] # "pending"
  /\ Goto("listener", "gone")
  /\ Fine /\ UNCHANGED <<board, sockets, scc, messages, work, exiting>>

Listener ==
  OnAccept \/ OnClose("listener") \/ Destroy("listener") \/ Unlink("listener")
    \/ StopListnerThread \/ ListenerExit

-----------------------------------------------------------------------------
\* The owner thread.

\* It attaches the handle, and makes the list thread, suspended ...
InitInstance ==
  /\ At("owner", "starting")
  /\ \/ /\ scc.there = "yes" /\ scc.pSocket # 0
        /\ stage' = [stage EXCEPT ![hConn] = IF @ = "closed" THEN @ ELSE "owner"]
        /\ object' = [object EXCEPT ![hConn] = scc.pSocket]
        /\ handle' = [handle EXCEPT ![scc.pSocket] = hConn]
        /\ scc' = [scc EXCEPT !.pList = TRUE]
        /\ pc' = [pc EXCEPT !["owner"] = "startList", !["list"] = "suspended"]
        /\ Fine /\ UNCHANGED <<board, alive, hConn, messages, work, exiting>>
     \/ (scc.there # "yes" \/ scc.pSocket = 0) /\ Crash("owner")

\* ... and resumes it.
StartList ==
  /\ At("owner", "startList") /\ Awake("owner")
  /\ pc' = [pc EXCEPT !["owner"] = "idle", !["list"] = "idle"]
  /\ Fine /\ UNCHANGED <<board, sockets, scc, messages, work, exiting>>

\* Variant: without a socket there is nothing to do.
KillServerSocketOnly ==
  /\ At("owner", "idle") /\ kill /\ kill' = FALSE
  /\ IF scc.there = "yes" /\ scc.pSocket # 0
     THEN /\ CloseHandles(scc.pSocket, {})
          /\ work' = [work EXCEPT !["owner"] = scc.pSocket] /\ Goto("owner", "closing")
     ELSE UNCHANGED <<stage, handle, work, pc>>
  /\ Fine /\ UNCHANGED <<board, object, alive, hConn, scc, stop, packets, quit, exiting>>

\* Without a socket KillServerSocketOwner quits, else the socket's destructor does.
KillServerSocket ==
  /\ At("owner", "idle") /\ kill
  /\ \/ /\ scc.there = "yes" /\ scc.pSocket = 0
        /\ kill' = FALSE /\ Goto("owner", "quitting")
        /\ Fine /\ UNCHANGED <<board, sockets, scc, stop, packets, quit, work, exiting>>
     \/ /\ scc.there = "yes" /\ scc.pSocket # 0
        /\ kill' = FALSE
        /\ CloseHandles(scc.pSocket, {})
        /\ work' = [work EXCEPT !["owner"] = scc.pSocket] /\ Goto("owner", "closing")
        /\ Fine /\ UNCHANGED <<board, object, alive, hConn, scc, stop, packets, quit, exiting>>
     \/ scc.there # "yes" /\ Crash("owner")

KillServerSocketOwner ==
  /\ At("owner", "quitting") /\ Awake("owner")
  /\ quit' = quit \cup {"owner"} /\ Goto("owner", "idle")
  /\ Fine /\ UNCHANGED <<board, sockets, scc, kill, stop, packets, work, exiting>>

OwnerQuits ==
  /\ At("owner", "idle") /\ "owner" \in quit /\ ~kill /\ ~Notified("owner")
  /\ exiting' = TRUE /\ Goto("owner", "exit")
  /\ Fine /\ UNCHANGED <<board, sockets, scc, messages, work>>

\* ExitInstance and ~CServerSocketOwnerThread: a socket made meanwhile is deleted.
ExitInstance ==
  /\ At("owner", "exit")
  /\ IF scc.there = "yes" /\ scc.pSocket # 0
     THEN /\ CloseHandles(scc.pSocket, {})
          /\ work' = [work EXCEPT !["owner"] = scc.pSocket] /\ Goto("owner", "closing")
          /\ UNCHANGED scc
     ELSE /\ scc' = [scc EXCEPT !.pOwner = @ /\ scc.there # "yes"]
          /\ Goto("owner", "gone")
          /\ UNCHANGED <<stage, handle, work>>
  /\ Fine /\ UNCHANGED <<board, object, alive, hConn, messages, exiting>>

Owner ==
  InitInstance \/ StartList \/ OnClose("owner") \/ Destroy("owner") \/ Unlink("owner")
    \/ KillServerSocket \/ KillServerSocketOwner \/ OwnerQuits \/ ExitInstance

-----------------------------------------------------------------------------
\* The list thread.

\* Without a socket the packets stay on their list.
ProcessRcvList ==
  /\ At("list", "idle") /\ packets
  /\ \/ /\ scc.there = "yes" /\ (scc.pSocket = 0 \/ scc.lists)
        /\ packets' = FALSE
        /\ Goto("list", IF scc.pSocket = 0 THEN "idle" ELSE "busy")
        /\ Fine /\ UNCHANGED <<board, sockets, scc, kill, stop, quit, work, exiting>>
     \/ (scc.there # "yes" \/ (scc.pSocket # 0 /\ ~scc.lists)) /\ Crash("list")

\* The packet is processed, and the list locked again, through pSocket.
Processed ==
  /\ At("list", "busy")
  /\ LET sound == scc.there = "yes" /\ scc.pSocket # 0 /\ scc.lists
     IN  \/ sound /\ Goto("list", "idle")
               /\ Fine /\ UNCHANGED <<board, sockets, scc, messages, work, exiting>>
         \/ ~sound /\ Crash("list")

ListExit ==
  /\ At("list", "idle") /\ "list" \in quit /\ ~packets
  /\ \/ /\ scc.there = "yes"
        /\ scc' = [scc EXCEPT !.pList = FALSE] /\ Goto("list", "gone")
        /\ Fine /\ UNCHANGED <<board, sockets, messages, work, exiting>>
     \/ scc.there # "yes" /\ Crash("list")

ListThread == ProcessRcvList \/ Processed \/ ListExit

-----------------------------------------------------------------------------
\* The GUI thread: OnBnClickedBnShutdown, DestroySCM, ServerShutDown.

Gui(from, to) == At("gui", from) /\ Goto("gui", to) /\ Fine /\ UNCHANGED <<board, sockets, work, exiting>>

PressShutdown == Gui("run", "destroyCCM") /\ UNCHANGED <<scc, messages>>

\* Without a listener thread ServerShutDown does nothing more.
ServerShutDown ==
  /\ \/ /\ pc["listener"] # "gone" /\ Gui("destroyCCM", "waitListener")
        /\ stop' = "posted" /\ UNCHANGED <<scc, kill, packets, quit>>
     \/ /\ pc["listener"] = "gone" /\ Gui("destroyCCM", "delete")
        /\ UNCHANGED <<scc, messages>>

\* Waits up to a second for the listener thread, then posts the first message to
\* the owner thread, which may not get it before it runs.
GuiKillServerSocket ==
  /\ Awake("gui")
  /\ \/ /\ scc.there = "no" /\ Gui("waitListener", "delete") /\ UNCHANGED messages
     \/ /\ scc.there = "yes" /\ ~scc.pOwner /\ Gui("waitListener", "sleep") /\ UNCHANGED messages
     \/ /\ scc.there = "yes" /\ scc.pOwner /\ Gui("waitListener", "waitSocket")
        /\ kill' \in IF pc["owner"] \in {"suspended", "starting"} THEN BOOLEAN ELSE {TRUE}
        /\ UNCHANGED <<stop, packets, quit>>
  /\ UNCHANGED scc

\* The wait is for the structure to go, which nobody else deletes.
SocketWaited == Awake("gui") /\ Gui("waitSocket", "sleep") /\ UNCHANGED <<scc, messages>>

KillServerRcvListThread ==
  /\ Awake("gui")
  /\ Gui("sleep", IF scc.pList THEN "waitOwner" ELSE "killConnection")
  /\ UNCHANGED <<scc, messages>>

\* Variant: it does not wait for the owner thread.
OwnerNotWaited ==
  /\ Gui("waitOwner", "waitList")
  /\ quit' = IF pc["list"] \in {"idle", "busy"} THEN quit \cup {"list"} ELSE quit
  /\ UNCHANGED <<scc, kill, stop, packets>>

OwnerWaited ==
  /\ Awake("gui") /\ Gui("waitOwner", "waitList")
  /\ quit' = IF pc["list"] \in {"idle", "busy"} THEN quit \cup {"list"} ELSE quit
  /\ UNCHANGED <<scc, kill, stop, packets>>

ListWaited == Awake("gui") /\ Gui("waitList", "killConnection") /\ UNCHANGED <<scc, messages>>

Freed == [there |-> "deleted", pSocket |-> 0, pOwner |-> FALSE, pList |-> FALSE, lists |-> FALSE]

KillClientConnection == Gui("killConnection", "delete") /\ scc' = Freed /\ UNCHANGED messages

\* ~CServerConnectionManagement deletes what is still there.
DeleteSCM ==
  /\ Gui("delete", "done")
  /\ scc' = IF scc.there = "yes" THEN Freed ELSE scc
  /\ quit' = IF pc["listener"] = "gone" THEN quit ELSE quit \cup {"listener"}
  /\ UNCHANGED <<kill, stop, packets>>

GuiThread ==
  ServerShutDown \/ GuiKillServerSocket \/ SocketWaited \/ KillServerRcvListThread
    \/ OwnerWaited \/ ListWaited \/ KillClientConnection \/ DeleteSCM

Next ==
  /\ crashed = "no"
  /\ \/ Connect \/ Disconnect \/ PressShutdown
     \/ Listener \/ Owner \/ ListThread \/ GuiThread
     \/ \E t \in Handlers : OnReceive(t)

Spec == Init /\ [][Next]_vars

\* Every thread runs, and a Sleep ends, even if a patient one is put off again
\* and again by packets that arrive.
Running(A) == crashed = "no" /\ A
Fair ==
  /\ SF_vars(Running(Listener)) /\ SF_vars(Running(Owner))
  /\ WF_vars(Running(ListThread)) /\ SF_vars(Running(GuiThread))

FairSpec == Spec /\ Fair

-----------------------------------------------------------------------------
TypeOK ==
  /\ patient \in BOOLEAN
  /\ made \in 0 .. MaxConns /\ left \subseteq 1 .. made
  /\ stage \in [Conns -> {"none", "pending", "held", "listener", "owner", "closed"}]
  /\ object \in [Conns -> Conns \cup {0}] /\ handle \in [Conns -> Conns \cup {0}]
  /\ alive \subseteq Conns /\ hConn \in Conns \cup {0}
  /\ scc \in [there : {"no", "yes", "deleted"}, pSocket : alive \cup {0}, pOwner : BOOLEAN,
              pList : BOOLEAN, lists : BOOLEAN]
  /\ kill \in BOOLEAN /\ stop \in {"no", "posted", "done"} /\ packets \in BOOLEAN
  /\ quit \subseteq {"listener", "owner", "list"}
  /\ pc \in [Threads -> {"none", "suspended", "starting", "idle", "accept", "resume", "attach",
                         "accepted", "closing", "unlink", "waitExit", "startList", "quitting",
                         "exit", "busy", "run", "destroyCCM", "waitListener", "waitSocket",
                         "sleep", "waitOwner", "waitList", "killConnection", "delete", "done",
                         "gone"}]
  /\ work \in [Handlers -> Conns \cup {0}] /\ exiting \in BOOLEAN
  /\ crashed \in Threads \cup {"no"}

Gone(t) == pc[t] \in {"none", "gone"}

\* ServerSocketOwnerThread.cpp:362, "must delete the following before deleting the
\* connection: ... pServerSocketOwnerThread, pServerRcvListThread": if the waits of
\* the shut-down are long enough, no thread of the connection is left when
\* KillClientConnection deletes it.  Not so when ServerShutDown finds no listener
\* thread to stop and returns at once.
DeletedLast ==
  patient /\ stop # "no" /\ scc.there = "deleted" => Gone("owner") /\ Gone("list")

\* The type invariant and the order in which a shut-down deletes.
Inv == TypeOK /\ DeletedLast

\* Sockets, lists and the structure are shared without locks or counts.  With
\* Sleeps long enough nobody but the list thread, which tests pSocket once for
\* many packets (ServerRcvListThread.cpp:213-235), finds what it uses gone while
\* the program serves, however often the board reconnects; nor in a shut-down of
\* a board that never did.
NoStaleUse ==
  patient /\ (~nShutDown \/ made <= 1) => crashed \in {"no", "list"}

\* A connection that takes part in what the server does: its notifications come
\* to a thread, and lead to the socket that commands are sent through.
Serving(c) ==
  /\ stage[c] \in Handlers /\ scc.pSocket \in alive
  /\ object[c] = scc.pSocket /\ handle[scc.pSocket] = c

\* ServerSocket.cpp:1159, "try detaching the existing socket and reattaching the new
\* socket": every connection of the board, the first one or a later one, comes
\* to be served if it lasts, by OnAccept and the threads it makes.
AcceptedIsServed ==
  \A c \in Conns :
    patient /\ stage[c] = "pending" ~>
      Serving(c) \/ c \in left \/ stage[c] = "closed" \/ nShutDown \/ crashed # "no"

\* ServerConnectionManagement.cpp:383, "Let the threads close/destroy all object they
\* control in their ExitInstance() routine": the shut-down comes to its end, with
\* the structure deleted and every thread that it told to stop gone.
ShutDownEnds ==
  nShutDown ~>
    \/ crashed # "no"
    \/ /\ pc["gui"] = "done"
       /\ patient => scc.there # "yes" /\ Gone("listener")
       /\ patient /\ stop # "no" => Gone("owner") /\ Gone("list")
=============================================================================
