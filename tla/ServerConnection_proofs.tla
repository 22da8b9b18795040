----------------------- MODULE ServerConnection_proofs -----------------------
(***************************************************************************)
(* Proofs about one entry of a server of the PAP, for every number of      *)
(* times its board connects.                                               *)
(***************************************************************************)
EXTENDS ServerConnection, TLAPS

USE ConnectionAssumption

-----------------------------------------------------------------------------
(* The inductive invariant.                                                *)

Stages == {"none", "pending", "held", "listener", "owner", "closed"}
Structures == [there : {"no", "yes", "deleted"}, pSocket : Conns \cup {0}, pOwner : BOOLEAN,
               pList : BOOLEAN, lists : BOOLEAN]

Accepting == {"accept", "resume", "attach", "accepted"}
Ending == {"closing", "unlink", "waitExit"}
Leaving == {"waitSocket", "sleep", "waitOwner"}

ListenerAt == Accepting \cup Ending \cup {"idle", "gone"}
OwnerAt == Ending \cup {"none", "suspended", "starting", "startList", "idle", "quitting", "exit",
"gone"}
ListAt == {"none", "suspended", "idle", "busy", "gone"}
GuiAt == Leaving \cup {"run", "destroyCCM", "waitListener", "waitList", "killConnection",
"delete", "done"}

Types ==
  /\ patient \in BOOLEAN
  /\ made \in 0 .. MaxConns /\ left \subseteq 1 .. made
  /\ stage \in [Conns -> Stages]
  /\ object \in [Conns -> Conns \cup {0}] /\ handle \in [Conns -> Conns \cup {0}]
  /\ alive \subseteq Conns /\ hConn \in Conns \cup {0}
  /\ scc \in Structures
  /\ kill \in BOOLEAN /\ stop \in {"no", "posted", "done"} /\ packets \in BOOLEAN
  /\ quit \subseteq {"listener", "owner", "list"}
  /\ work \in [Handlers -> Conns \cup {0}] /\ exiting \in BOOLEAN
  /\ crashed \in Threads \cup {"no"}

\* Where each thread may be.
Places ==
  /\ pc \in [Threads -> ListenerAt \cup OwnerAt \cup ListAt \cup GuiAt]
  /\ pc["listener"] \in ListenerAt /\ pc["owner"] \in OwnerAt
  /\ pc["list"] \in ListAt /\ pc["gui"] \in GuiAt
  /\ pc["listener"] = "accept" => work["listener"] \in Conns

\* The structure has the socket, and each thread as long as it is there.
StructureInv ==
  /\ scc.pSocket # 0 => scc.pSocket \in alive /\ scc.there = "yes"
  /\ scc.there = "no" => pc["owner"] = "none"
  /\ scc.there = "yes" =>
       /\ pc["owner"] # "none"
       /\ scc.pOwner <=> pc["owner"] # "gone"
       /\ scc.pList <=> pc["list"] \notin {"none", "gone"}
  /\ scc.there = "deleted" => pc["gui"] \in {"delete", "done"}

\* How the threads are started, and told to stop.
ThreadsInv ==
  /\ pc["list"] = "none" <=> pc["owner"] \in {"none", "suspended", "starting"}
  /\ pc["list"] = "suspended" <=> pc["owner"] = "startList"
  /\ pc["owner"] = "suspended" <=> pc["listener"] = "resume"
  /\ pc["list"] = "gone" => "list" \in quit
  /\ "list" \in quit => pc["gui"] \in {"waitList", "killConnection", "delete", "done"}
  /\ stop # "no" => pc["gui"] \notin {"run", "destroyCCM"}
  /\ stop = "no" => pc["gui"] \in {"run", "destroyCCM", "delete", "done"}

\* With waits long enough the listener thread accepts nothing while it is shut down, and
\* the owner thread starts before OnAccept ends.
WaitsInv ==
  /\ pc["owner"] = "starting" => pc["listener"] = "accepted"
  /\ pc["gui"] \in {"run", "destroyCCM", "waitListener"} \/ pc["listener"] \notin Accepting

\* The owner thread has been told to go: a message waits for it, or it works on it.
Told == kill \/ "owner" \in quit \/ pc["owner"] \in {"quitting", "closing"}

\* How far the threads are at each wait of the shut-down.
ShutDownInv ==
  /\ pc["gui"] \in Leaving => scc.there = "yes" /\ scc.pList /\ (scc.pOwner => Told)
  /\ pc["gui"] \in {"waitList", "killConnection"} => scc.there = "yes" /\ ~scc.pOwner
  /\ pc["gui"] = "waitList" /\ scc.pList => "list" \in quit
  /\ pc["gui"] = "killConnection" => ~scc.pList
  /\ pc["gui"] \in {"delete", "done"} =>
       \/ scc.there = "no"
       \/ scc.there = "deleted" /\ pc["owner"] = "gone" /\ pc["list"] = "gone"

\* What NoStaleUse is about.
Calm == patient /\ (~nShutDown \/ made <= 1)

\* While the server runs no thread ends, and there is always an entry after the first accept.
RunsInv ==
  /\ quit = {} /\ ~kill /\ ~exiting
  /\ pc["owner"] \notin {"quitting", "exit", "gone", "waitExit"}
  /\ pc["listener"] \notin {"gone", "waitExit"}
  /\ scc.there = "no" => made = 0 \/ (made = 1 /\ stage[1] = "pending")

\* There is one connection at a time, the last one made, and its socket.
LastInv ==
  /\ crashed \in {"no", "list"}
  /\ \A c \in Conns : /\ c < made => stage[c] = "closed"
                      /\ c > made => stage[c] = "none"
                      /\ handle[c] \in {0, c}
  /\ made > 0 => stage[made] # "none"
  /\ scc.pSocket \in {0, made}
  /\ \A t \in Handlers :
       pc[t] = "closing" =>
         work[t] = made /\ scc.pSocket = made /\ stage[made] = "closed"
  /\ ~(pc["listener"] = "closing" /\ pc["owner"] = "closing")
  /\ \A t \in Handlers : pc[t] \in {"unlink", "waitExit"} => scc.pSocket = 0
  /\ scc.pSocket # 0 =>
       \/ stage[made] \in {"held", "listener", "owner"}
       \/ \E t \in Handlers : pc[t] = "closing"
  /\ made > 0 /\ stage[made] \in {"held", "listener", "owner"} => scc.pSocket = made
  /\ made > 0 /\ stage[made] \in Handlers => object[made] = made /\ handle[made] = made

\* How far it has come.
AcceptInv ==
  /\ pc["listener"] = "accept" => work["listener"] = made /\ stage[made] = "pending"
  /\ pc["listener"] = "resume" => made = 1 /\ stage[made] = "held" /\ hConn = made
  /\ pc["listener"] = "attach" => made > 1 /\ stage[made] = "held" /\ work["listener"] = made
  /\ pc["owner"] = "starting" => made = 1 /\ stage[made] = "held" /\ hConn = made
  /\ made > 0 /\ stage[made] = "held" =>
       pc["listener"] \in {"resume", "attach"} \/ pc["owner"] = "starting"
  /\ made > 0 /\ stage[made] = "listener" => made > 1
  /\ pc["listener"] \in Ending => made > 1 /\ scc.there = "yes"
  /\ scc.there = "yes" => made > 0 /\ stage[1] \notin {"none", "pending"}
  /\ pc["owner"] = "gone" => scc.pSocket = 0
  /\ pc["listener"] = "gone" => stop = "done" \/ pc["gui"] = "done"
  /\ "listener" \in quit => stop = "done" \/ pc["gui"] = "done"
  /\ pc["gui"] \notin {"run", "destroyCCM"} => stop # "no"

Base == Types /\ Places /\ StructureInv /\ ThreadsInv

IInv ==
  /\ Base
  /\ patient => WaitsInv
  /\ patient /\ stop # "no" => ShutDownInv
  /\ patient /\ pc["gui"] = "run" => RunsInv
  /\ Calm => LastInv /\ AcceptInv

-----------------------------------------------------------------------------
(* Lemmas.                                                                 *)
\* When nothing is left to do but to wait for seconds, no socket is being closed.
LEMMA Quiet ==
  ASSUME Places, RunsInv, \A t \in Threads : Delay(t) >= 2
  PROVE  /\ pc["listener"] = "idle" /\ ~HasMessage("listener")
         /\ pc["owner"] \in {"none", "suspended", "idle"}
         /\ pc["owner"] = "idle" => ~HasMessage("owner")
<1>1. Delay("listener") >= 2 /\ Delay("owner") >= 2
  BY DEF Threads, Handlers
<1>2. pc["listener"] = "idle" /\ ~HasMessage("listener")
  BY <1>1 DEF Places, RunsInv, Delay, ListenerAt, Accepting, Ending
<1>3. /\ pc["owner"] \in {"none", "suspended", "idle"}
      /\ pc["owner"] = "idle" => ~HasMessage("owner")
  BY <1>1 DEF Places, RunsInv, Delay, OwnerAt, Ending
<1> QED
  BY <1>2, <1>3

LEMMA ClosedTypes ==
  ASSUME Types, NEW o, NEW cs, CloseHandles(o, cs)
  PROVE  stage' \in [Conns -> Stages] /\ handle' \in [Conns -> Conns \cup {0}]
BY DEF CloseHandles, Types, Stages

\* Only the list thread can access, in a calm run, what is not there.
LEMMA CrashKeeps ==
  ASSUME IInv, NEW t \in Threads, Crash(t), Calm => t = "list"
  PROVE  IInv'
<1> USE DEF Crash, board, sockets, messages, control
<1>1. Base'
  <2>1. Types'
    BY DEF IInv, Base, Types
  <2>2. Places'
    BY DEF IInv, Base, Places
  <2>3. StructureInv' /\ ThreadsInv'
    BY DEF IInv, Base, StructureInv, ThreadsInv
  <2> QED
    BY <2>1, <2>2, <2>3 DEF Base
<1>2. Calm' => Calm
  BY DEF Calm, nShutDown
<1>3. Calm' => LastInv'
  BY <1>2 DEF IInv, LastInv
<1>4. Calm' => AcceptInv'
  BY <1>2 DEF IInv, AcceptInv
<1>5. patient' => WaitsInv'
  BY DEF IInv, WaitsInv
<1>6. patient' /\ stop' # "no" => ShutDownInv'
  BY DEF IInv, ShutDownInv, Told
<1>7. patient' /\ pc'["gui"] = "run" => RunsInv'
  BY DEF IInv, RunsInv
<1> QED
  BY <1>1, <1>3, <1>4, <1>5, <1>6, <1>7 DEF IInv

\* In a calm run the structure and a connection are there while a thread closes a socket.
LEMMA EndingThere ==
  ASSUME IInv, Calm, NEW t \in Handlers, pc[t] \in Ending
  PROVE  scc.there = "yes"
<1>1. LastInv /\ AcceptInv /\ StructureInv /\ Types
  BY DEF IInv, Base
<1>2. CASE t = "listener"
  BY <1>1, <1>2 DEF AcceptInv
<1>3. CASE t = "owner"
  <2>1. scc.there # "no"
    BY <1>1, <1>3 DEF StructureInv, Ending
  <2>2. scc.there # "deleted"
    <3> SUFFICES ASSUME scc.there = "deleted" PROVE FALSE
      OBVIOUS
    <3>1. pc["gui"] \in {"delete", "done"}
      BY <1>1 DEF StructureInv
    <3>2. stop # "no" /\ patient
      BY <1>1, <3>1 DEF AcceptInv, Calm
    <3>3. ShutDownInv
      BY <3>2 DEF IInv
    <3> QED
      BY <1>3, <3>1, <3>3 DEF ShutDownInv, Ending
  <2> QED
    BY <1>1, <2>1, <2>2 DEF Types, Structures
<1> QED
  BY <1>2, <1>3 DEF Handlers

LEMMA ClosingMade ==
  ASSUME IInv, Calm, NEW t \in Handlers, pc[t] = "closing"
  PROVE  made \in Conns /\ made > 0
<1>1. LastInv /\ AcceptInv /\ StructureInv /\ Types
  BY DEF IInv, Base
<1>2. scc.there = "yes"
  BY EndingThere DEF Ending
<1> QED
  BY <1>1, <1>2 DEF AcceptInv, Types, Conns

-----------------------------------------------------------------------------
(* The board.                                                              *)

\* The board connects only when nothing but seconds is waited for: the last connection is then
\* closed, and no thread is closing a socket.
LEMMA ConnectKeeps ==
  ASSUME IInv, crashed = "no", Connect
  PROVE  IInv'
<1> USE DEF Connect, At, Goto, Fine, board, sockets, messages, control
<1>1. Base'
  <2>1. Types'
    <3>1. made + 1 \in Conns /\ made + 1 \in 0 .. MaxConns /\ left \subseteq 1 .. made + 1
      BY DEF IInv, Base, Types, Conns
    <3>2. stage' \in [Conns -> Stages]
      BY DEF IInv, Base, Types, Stages
    <3> QED
      BY <3>1, <3>2 DEF IInv, Base, Types
  <2>2. Places'
    BY DEF IInv, Base, Types, Places, Handlers, Threads, ListenerAt, OwnerAt, ListAt, GuiAt,
         Accepting, Ending, Leaving
  <2>3. StructureInv'
    BY DEF IInv, Base, Types, Places, StructureInv, ThreadsInv, Structures, Handlers, Threads,
         nSeverShutDownFlag, nShutDown, GuiAt, Leaving
  <2>4. ThreadsInv'
    BY DEF IInv, Base, Types, Places, StructureInv, ThreadsInv, Structures, Handlers, Threads,
         nSeverShutDownFlag, nShutDown, GuiAt, Leaving
  <2> QED
    BY <2>1, <2>2, <2>3, <2>4 DEF Base
<1>2. ASSUME patient
      PROVE  /\ WaitsInv'
             /\ stop' # "no" => ShutDownInv'
             /\ pc'["gui"] = "run" => RunsInv'
  <2> USE <1>2 DEF IInv, Base, Places
  <2>1. WaitsInv'
    BY DEF WaitsInv, Types, Handlers, Threads, ListenerAt, OwnerAt, GuiAt, Accepting, Ending,
         Leaving, Awake, Delay, nSeverShutDownFlag, nShutDown, ThreadsInv
  <2>2. stop' # "no" => ShutDownInv'
    BY DEF ShutDownInv, StructureInv, ThreadsInv, Told, WaitsInv, Types, Structures, Handlers,
         Threads, ListenerAt, OwnerAt, ListAt, GuiAt, Accepting, Ending, Leaving, Awake, Delay,
         HasMessage, nSeverShutDownFlag, nShutDown
  <2>3. pc'["gui"] = "run" => RunsInv'
    <3> SUFFICES ASSUME pc["gui"] = "run" PROVE RunsInv'
      OBVIOUS
    <3>1. RunsInv
      BY <1>2
    <3>2. ~(made = 1 /\ stage[1] = "pending")
      BY <1>2, <3>1, Quiet DEF HasMessage, Conns
    <3>3. made + 1 = 1 => stage'[1] = "pending"
      BY DEF Types, Conns
    <3> QED
      BY <3>1, <3>2, <3>3 DEF RunsInv, Types
  <2> QED
    BY <2>1, <2>2, <2>3
<1>3. ASSUME Calm' PROVE LastInv' /\ AcceptInv'
  <2> USE DEF IInv, Base, Places
  <2>1. Calm /\ LastInv /\ AcceptInv
    BY <1>3 DEF Calm, nShutDown, Types, Threads
  <2>2. patient /\ WaitsInv /\ (stop # "no" => ShutDownInv) /\ (pc["gui"] = "run" => RunsInv)
    BY <2>1 DEF Calm
  <2>3. LastInv'
    <3>1. made + 1 \in Conns /\ made \in Nat /\ (made > 0 => made \in Conns)
      BY DEF Types, Conns
    <3>2. made > 0 => pc["gui"] = "run" /\ RunsInv
      BY <1>3, <2>2, <3>1 DEF Calm, nShutDown
    <3>3. made > 0 => stage[made] \notin {"pending", "held", "listener", "owner"}
      <4> SUFFICES ASSUME made > 0, stage[made] \in {"pending", "held", "listener", "owner"}
                   PROVE  FALSE
        OBVIOUS
      <4>1. /\ pc["listener"] = "idle" /\ ~HasMessage("listener")
            /\ pc["owner"] \in {"none", "suspended", "idle"}
            /\ pc["owner"] = "idle" => ~HasMessage("owner")
        BY <2>2, <3>2, Quiet
      <4>2. stage[made] # "pending"
        BY <3>1, <4>1 DEF HasMessage
      <4>3. stage[made] # "held"
        BY <2>1, <4>1 DEF AcceptInv
      <4>4. made \in left
        BY <4>2, <4>3
      <4>5. stage[made] # "listener"
        BY <4>1, <4>4 DEF HasMessage, Notified
      <4>6. stage[made] = "owner" => pc["owner"] = "idle"
        <5>1. stage[made] = "owner" => scc.pSocket # 0
          BY <2>1, <3>1 DEF LastInv
        <5> QED
          BY <4>1, <5>1 DEF StructureInv, ThreadsInv
      <4> QED
        BY <4>1, <4>2, <4>3, <4>4, <4>5, <4>6 DEF HasMessage, Notified
    <3>4. made > 0 => stage[made] = "closed"
      <4>1. made > 0 => stage[made] \in Stages /\ stage[made] # "none"
        BY <2>1, <3>1 DEF LastInv, Types
      <4> QED
        BY <3>3, <4>1 DEF Stages
    <3>5. \A t \in Handlers : pc[t] # "closing"
      <4>1. made > 0 => pc["listener"] # "closing" /\ pc["owner"] # "closing"
        BY <2>2, <3>2, Quiet
      <4>2. ASSUME made = 0, NEW t \in Handlers, pc[t] = "closing" PROVE FALSE
        <5>1. scc.pSocket = 0 /\ 0 \notin alive
          BY <2>1, <4>2 DEF LastInv, Types, Conns
        <5>2. work[t] = 0
          BY <2>1, <4>2 DEF LastInv
        <5>3. pc["listener"] \notin Ending /\ scc.there # "yes"
          BY <2>1, <4>2 DEF AcceptInv, Types, Conns
        <5>4. t = "owner"
          BY <4>2, <5>3 DEF Handlers, Ending
        <5>5. scc.there = "deleted"
          BY <4>2, <5>3, <5>4 DEF StructureInv, Types, Structures
        <5>6. stop # "no"
          BY <2>1, <5>5 DEF AcceptInv, StructureInv
        <5> QED
          BY <2>2, <4>2, <5>4, <5>5, <5>6 DEF ShutDownInv, StructureInv
      <4> QED
        BY <3>1, <4>1, <4>2 DEF Handlers
    <3>6. scc.pSocket = 0
      BY <2>1, <3>1, <3>4, <3>5 DEF LastInv
    <3>7. /\ stage'[made + 1] = "pending"
          /\ \A c \in Conns : c # made + 1 => stage'[c] = stage[c]
      BY <3>1 DEF Types
    <3> QED
      BY <2>1, <3>1, <3>4, <3>5, <3>6, <3>7 DEF LastInv, Conns, Handlers
  <2>4. AcceptInv'
    <3>1. made + 1 \in Conns /\ made \in Nat /\ (made > 0 => made \in Conns)
      BY DEF Types, Conns
    <3>2. made > 0 => pc["gui"] = "run" /\ RunsInv
      BY <1>3, <2>2, <3>1 DEF Calm, nShutDown
    <3>3. made > 0 => /\ pc["listener"] = "idle" 
                      /\ pc["owner"] \in {"none", "suspended", "idle"}
      BY <2>2, <3>2, Quiet
    <3>4. /\ stage'[made + 1] = "pending"
          /\ \A c \in Conns : c # made + 1 => stage'[c] = stage[c]
      BY <3>1 DEF Types
    <3>5. pc["owner"] # "starting" /\ pc["listener"] \notin {"accept", "resume", "attach"}
      <4>1. made = 0 => made \notin Conns /\ made # 1 /\ ~(made > 1)
        BY DEF Conns
      <4>2. CASE made = 0
        BY <2>1, <4>1, <4>2 DEF AcceptInv
      <4>3. CASE made > 0
        BY <3>3, <4>3
      <4> QED
        BY <3>1, <4>2, <4>3
    <3>6. scc.there = "yes" => made > 0 /\ stage'[1] \notin {"none", "pending"}
      BY <2>1, <3>1, <3>4 DEF AcceptInv, Conns
    <3> QED
      BY <2>1, <3>1, <3>3, <3>4, <3>5, <3>6 DEF AcceptInv
  <2> QED
    BY <2>3, <2>4
<1> QED
  BY <1>1, <1>2, <1>3 DEF IInv, Base, Calm, Connect, Fine

\* The end of a connection is only noted.
LEMMA DisconnectKeeps ==
  ASSUME IInv, crashed = "no", Disconnect
  PROVE  IInv'
<1> USE DEF Disconnect, At, Goto, Fine, board, sockets, messages, control
<1>1. Base'
  <2>1. Types'
    BY DEF IInv, Base, Types, Structures, Stages, Handlers, Threads
  <2>2. Places'
    BY DEF IInv, Base, Types, Places, Handlers, Threads, ListenerAt, OwnerAt, ListAt, GuiAt,
         Accepting, Ending, Leaving
  <2>3. StructureInv'
    BY DEF IInv, Base, Types, Places, StructureInv, ThreadsInv, Structures, Handlers, Threads,
         nSeverShutDownFlag, nShutDown, GuiAt, Leaving
  <2>4. ThreadsInv'
    BY DEF IInv, Base, Types, Places, StructureInv, ThreadsInv, Structures, Handlers, Threads,
         nSeverShutDownFlag, nShutDown, GuiAt, Leaving
  <2> QED
    BY <2>1, <2>2, <2>3, <2>4 DEF Base
<1>2. ASSUME patient
      PROVE  /\ WaitsInv'
             /\ stop' # "no" => ShutDownInv'
             /\ pc'["gui"] = "run" => RunsInv'
  <2> USE <1>2 DEF IInv, Base, Places
  <2>1. WaitsInv'
    BY DEF WaitsInv, Types, Handlers, Threads, ListenerAt, OwnerAt, GuiAt, Accepting, Ending,
         Leaving, Awake, Delay, nSeverShutDownFlag, nShutDown, ThreadsInv
  <2>2. stop' # "no" => ShutDownInv'
    BY DEF ShutDownInv, StructureInv, ThreadsInv, Told, WaitsInv, Types, Structures, Handlers,
         Threads, ListenerAt, OwnerAt, ListAt, GuiAt, Accepting, Ending, Leaving, Awake, Delay,
         HasMessage, nSeverShutDownFlag, nShutDown
  <2>3. pc'["gui"] = "run" => RunsInv'
    BY DEF RunsInv, Types, Structures, StructureInv, ThreadsInv, Handlers, Threads,
         nSeverShutDownFlag, nShutDown, GuiAt, Leaving, Awake, Delay, HasMessage, ListenerAt,
         OwnerAt, Accepting, Ending, Notified
  <2> QED
    BY <2>1, <2>2, <2>3
<1>3. ASSUME Calm' PROVE LastInv' /\ AcceptInv'
  <2> USE DEF IInv, Base, Places
  <2>1. Calm /\ LastInv /\ AcceptInv
    BY <1>3 DEF Calm, nShutDown, Types, Threads
  <2>2. patient /\ WaitsInv /\ (stop # "no" => ShutDownInv) /\ (pc["gui"] = "run" => RunsInv)
    BY <2>1 DEF Calm
  <2>3. LastInv'
    BY <1>3, <2>1, <2>2 DEF LastInv, AcceptInv, WaitsInv, ShutDownInv, RunsInv, StructureInv,
         ThreadsInv, Handlers, Threads, Accepting, Ending, Leaving, ListenerAt, OwnerAt, GuiAt,
         Stages, Structures, Types, Conns, Calm, nShutDown, nSeverShutDownFlag
  <2>4. AcceptInv'
    BY <1>3, <2>1, <2>2 DEF LastInv, AcceptInv, WaitsInv, ShutDownInv, RunsInv, StructureInv,
         ThreadsInv, Handlers, Threads, Accepting, Ending, Leaving, ListenerAt, OwnerAt, GuiAt,
         Stages, Structures, Types, Conns, Calm, nShutDown, nSeverShutDownFlag
  <2> QED
    BY <2>3, <2>4
<1> QED
  BY <1>1, <1>2, <1>3 DEF IInv, Base, Calm, Disconnect, Fine

-----------------------------------------------------------------------------
(* OnAccept, on the listener thread.                                       *)

\* The listener thread takes the one connection that is pending, the last one.
LEMMA OnAcceptPrepKeeps ==
  ASSUME IInv, crashed = "no", OnAcceptPrep
  PROVE  IInv'
<1> USE DEF OnAcceptPrep, At, Goto, Fine, board, sockets, messages, control
<1>1. Base'
  <2>1. Types'
    BY DEF IInv, Base, Types, Structures, Stages, Handlers, Threads
  <2>2. Places'
    BY DEF IInv, Base, Types, Places, Handlers, Threads, ListenerAt, OwnerAt, ListAt, GuiAt,
         Accepting, Ending, Leaving
  <2>3. StructureInv'
    BY DEF IInv, Base, Types, Places, StructureInv, ThreadsInv, Structures, Handlers, Threads,
         nSeverShutDownFlag, nShutDown, GuiAt, Leaving
  <2>4. ThreadsInv'
    BY DEF IInv, Base, Types, Places, StructureInv, ThreadsInv, Structures, Handlers, Threads,
         nSeverShutDownFlag, nShutDown, GuiAt, Leaving
  <2> QED
    BY <2>1, <2>2, <2>3, <2>4 DEF Base
<1>2. ASSUME patient
      PROVE  /\ WaitsInv'
             /\ stop' # "no" => ShutDownInv'
             /\ pc'["gui"] = "run" => RunsInv'
  <2> USE <1>2 DEF IInv, Base, Places
  <2>1. WaitsInv'
    BY DEF WaitsInv, Types, Handlers, Threads, ListenerAt, OwnerAt, GuiAt, Accepting, Ending,
         Leaving, Awake, Delay, nSeverShutDownFlag, nShutDown, ThreadsInv
  <2>2. stop' # "no" => ShutDownInv'
    BY DEF ShutDownInv, StructureInv, ThreadsInv, Told, WaitsInv, Types, Structures, Handlers,
         Threads, ListenerAt, OwnerAt, ListAt, GuiAt, Accepting, Ending, Leaving, Awake, Delay,
         HasMessage, nSeverShutDownFlag, nShutDown
  <2>3. pc'["gui"] = "run" => RunsInv'
    BY DEF RunsInv, Types, Structures, StructureInv, ThreadsInv, Handlers, Threads,
         nSeverShutDownFlag, nShutDown, GuiAt, Leaving, Awake, Delay, HasMessage, ListenerAt,
         OwnerAt, Accepting, Ending, Notified
  <2> QED
    BY <2>1, <2>2, <2>3
<1>3. ASSUME Calm' PROVE LastInv' /\ AcceptInv'
  <2> USE DEF IInv, Base, Places
  <2>1. Calm /\ LastInv /\ AcceptInv
    BY <1>3 DEF Calm, nShutDown, Types, Threads
  <2>2. patient /\ WaitsInv /\ (stop # "no" => ShutDownInv) /\ (pc["gui"] = "run" => RunsInv)
    BY <2>1 DEF Calm
  <2>3. LastInv'
    BY <1>3, <2>1, <2>2 DEF LastInv, AcceptInv, WaitsInv, ShutDownInv, RunsInv, StructureInv,
         ThreadsInv, Handlers, Threads, Accepting, Ending, Leaving, ListenerAt, OwnerAt, GuiAt,
         Stages, Structures, Types, Conns, Calm, nShutDown, nSeverShutDownFlag
  <2>4. AcceptInv'
    BY <1>3, <2>1, <2>2 DEF LastInv, AcceptInv, WaitsInv, ShutDownInv, RunsInv, StructureInv,
         ThreadsInv, Handlers, Threads, Accepting, Ending, Leaving, ListenerAt, OwnerAt, GuiAt,
         Stages, Structures, Types, Conns, Calm, nShutDown, nSeverShutDownFlag
  <2> QED
    BY <2>3, <2>4
<1> QED
  BY <1>1, <1>2, <1>3 DEF IInv, Base, Calm, OnAcceptPrep, Fine

\* With no structure it is the first connection, which gets everything.
LEMMA AcceptFirstKeeps ==
  ASSUME IInv, crashed = "no", AcceptFirst
  PROVE  IInv'
<1> USE DEF AcceptFirst, At, Goto, Fine, board, sockets, messages, control
<1>1. Base'
  <2>1. Types'
    <3>1. work["listener"] \in Conns
      BY DEF IInv, Base, Places
    <3>2. stage' \in [Conns -> Stages] /\ alive' \subseteq Conns /\ hConn' \in Conns \cup {0}
      BY <3>1 DEF IInv, Base, Types, Stages
    <3>3. scc' \in Structures
      BY <3>1 DEF Structures
    <3> QED
      BY <3>2, <3>3 DEF IInv, Base, Types
  <2>2. Places'
    BY DEF IInv, Base, Types, Places, Handlers, Threads, ListenerAt, OwnerAt, ListAt, GuiAt,
         Accepting, Ending, Leaving
  <2>3. StructureInv'
    BY DEF IInv, Base, Types, Places, StructureInv, ThreadsInv, Structures, Handlers, Threads,
         nSeverShutDownFlag, nShutDown, GuiAt, Leaving
  <2>4. ThreadsInv'
    BY DEF IInv, Base, Types, Places, StructureInv, ThreadsInv, Structures, Handlers, Threads,
         nSeverShutDownFlag, nShutDown, GuiAt, Leaving
  <2> QED
    BY <2>1, <2>2, <2>3, <2>4 DEF Base
<1>2. ASSUME patient
      PROVE  /\ WaitsInv'
             /\ stop' # "no" => ShutDownInv'
             /\ pc'["gui"] = "run" => RunsInv'
  <2> USE <1>2 DEF IInv, Base, Places
  <2>1. WaitsInv'
    BY DEF WaitsInv, Types, Handlers, Threads, ListenerAt, OwnerAt, GuiAt, Accepting, Ending,
         Leaving, Awake, Delay, nSeverShutDownFlag, nShutDown, ThreadsInv
  <2>2. stop' # "no" => ShutDownInv'
    BY DEF ShutDownInv, StructureInv, ThreadsInv, Told, WaitsInv, Types, Structures, Handlers,
         Threads, ListenerAt, OwnerAt, ListAt, GuiAt, Accepting, Ending, Leaving, Awake, Delay,
         HasMessage, nSeverShutDownFlag, nShutDown
  <2>3. pc'["gui"] = "run" => RunsInv'
    BY DEF RunsInv, Types, Structures, StructureInv, ThreadsInv, Handlers, Threads,
         nSeverShutDownFlag, nShutDown, GuiAt, Leaving, Awake, Delay, HasMessage, ListenerAt,
         OwnerAt, Accepting, Ending, Notified
  <2> QED
    BY <2>1, <2>2, <2>3
<1>3. ASSUME Calm' PROVE LastInv' /\ AcceptInv'
  <2> USE DEF IInv, Base, Places
  <2>1. Calm /\ LastInv /\ AcceptInv
    BY <1>3 DEF Calm, nShutDown, Types, Threads
  <2>2. patient /\ WaitsInv /\ (stop # "no" => ShutDownInv) /\ (pc["gui"] = "run" => RunsInv)
    BY <2>1 DEF Calm
  <2>3. LastInv'
    BY <1>3, <2>1, <2>2 DEF LastInv, AcceptInv, WaitsInv, ShutDownInv, RunsInv, StructureInv,
         ThreadsInv, Handlers, Threads, Accepting, Ending, Leaving, ListenerAt, OwnerAt, GuiAt,
         Stages, Structures, Types, Conns, Calm, nShutDown, nSeverShutDownFlag
  <2>4. AcceptInv'
    <3>1. made = 1 /\ work["listener"] = made /\ stage[made] = "pending"
      BY <2>1, <2>2 DEF AcceptInv, RunsInv, Calm, nShutDown, Conns, Types
    <3>2. stage'[1] = "held" /\ 1 \in Conns
      BY <3>1 DEF Types, Conns
    <3>3. /\ pc'["listener"] = "resume" /\ pc'["owner"] = "suspended" /\ pc'["gui"] = pc["gui"]
          /\ hConn' = made /\ scc'.there = "yes" /\ made' = made /\ quit' = quit /\ stop' = stop
      BY <3>1 DEF Threads, Handlers
    <3> QED
      BY <2>1, <3>1, <3>2, <3>3 DEF AcceptInv, Ending
  <2> QED
    BY <2>3, <2>4
<1> QED
  BY <1>1, <1>2, <1>3 DEF IInv, Base, Calm, AcceptFirst, Fine

\* The owner thread may start only now: it has a socket.
LEMMA ResumeKeeps ==
  ASSUME IInv, crashed = "no", Resume
  PROVE  IInv'
<1> USE DEF Resume, At, Goto, Fine, board, sockets, messages, control
<1>0. crashed' # "no" => IInv'
  <2> SUFFICES ASSUME crashed' # "no" PROVE IInv'
    OBVIOUS
  <2>1. Crash("listener")
    BY DEF Crash
  <2>2. ASSUME Calm PROVE FALSE
    <3>1. LastInv /\ AcceptInv /\ StructureInv /\ Types
      BY <2>2 DEF IInv, Base

    <3> QED
      BY <3>1 DEF LastInv, AcceptInv, StructureInv, Conns, Types
  <2> QED
    BY <2>1, <2>2, CrashKeeps DEF Threads, Handlers
<1> SUFFICES ASSUME crashed' = "no" PROVE IInv'
  BY <1>0
<1> USE DEF Crash
<1>1. Base'
  <2>1. Types'
    BY DEF IInv, Base, Types, Structures, Stages, Handlers, Threads
  <2>2. Places'
    BY DEF IInv, Base, Types, Places, Handlers, Threads, ListenerAt, OwnerAt, ListAt, GuiAt,
         Accepting, Ending, Leaving
  <2>3. StructureInv'
    BY DEF IInv, Base, Types, Places, StructureInv, ThreadsInv, Structures, Handlers, Threads,
         nSeverShutDownFlag, nShutDown, GuiAt, Leaving
  <2>4. ThreadsInv'
    BY DEF IInv, Base, Types, Places, StructureInv, ThreadsInv, Structures, Handlers, Threads,
         nSeverShutDownFlag, nShutDown, GuiAt, Leaving
  <2> QED
    BY <2>1, <2>2, <2>3, <2>4 DEF Base
<1>2. ASSUME patient
      PROVE  /\ WaitsInv'
             /\ stop' # "no" => ShutDownInv'
             /\ pc'["gui"] = "run" => RunsInv'
  <2> USE <1>2 DEF IInv, Base, Places
  <2>1. WaitsInv'
    BY DEF WaitsInv, Types, Handlers, Threads, ListenerAt, OwnerAt, GuiAt, Accepting, Ending,
         Leaving, Awake, Delay, nSeverShutDownFlag, nShutDown, ThreadsInv
  <2>2. stop' # "no" => ShutDownInv'
    BY DEF ShutDownInv, StructureInv, ThreadsInv, Told, WaitsInv, Types, Structures, Handlers,
         Threads, ListenerAt, OwnerAt, ListAt, GuiAt, Accepting, Ending, Leaving, Awake, Delay,
         HasMessage, nSeverShutDownFlag, nShutDown
  <2>3. pc'["gui"] = "run" => RunsInv'
    BY DEF RunsInv, Types, Structures, StructureInv, ThreadsInv, Handlers, Threads,
         nSeverShutDownFlag, nShutDown, GuiAt, Leaving, Awake, Delay, HasMessage, ListenerAt,
         OwnerAt, Accepting, Ending, Notified
  <2> QED
    BY <2>1, <2>2, <2>3
<1>3. ASSUME Calm' PROVE LastInv' /\ AcceptInv'
  <2> USE DEF IInv, Base, Places
  <2>1. Calm /\ LastInv /\ AcceptInv
    BY <1>3 DEF Calm, nShutDown, Types, Threads
  <2>2. patient /\ WaitsInv /\ (stop # "no" => ShutDownInv) /\ (pc["gui"] = "run" => RunsInv)
    BY <2>1 DEF Calm
  <2>3. LastInv'
    BY <1>3, <2>1, <2>2 DEF LastInv, AcceptInv, WaitsInv, ShutDownInv, RunsInv, StructureInv,
         ThreadsInv, Handlers, Threads, Accepting, Ending, Leaving, ListenerAt, OwnerAt, GuiAt,
         Stages, Structures, Types, Conns, Calm, nShutDown, nSeverShutDownFlag
  <2>4. AcceptInv'
    BY <1>3, <2>1, <2>2 DEF LastInv, AcceptInv, WaitsInv, ShutDownInv, RunsInv, StructureInv,
         ThreadsInv, Handlers, Threads, Accepting, Ending, Leaving, ListenerAt, OwnerAt, GuiAt,
         Stages, Structures, Types, Conns, Calm, nShutDown, nSeverShutDownFlag
  <2> QED
    BY <2>3, <2>4
<1> QED
  BY <1>1, <1>2, <1>3 DEF IInv, Base, Calm, Resume, Fine

\* The last socket is gone by now, and the connection gets its own.
LEMMA AcceptAgainKeeps ==
  ASSUME IInv, crashed = "no", AcceptAgain
  PROVE  IInv'
<1> USE DEF AcceptAgain, At, Goto, Fine, board, sockets, messages, control
<1>1. Base'
  <2>1. Types'
    <3>1. work["listener"] \in Conns
      BY DEF IInv, Base, Places
    <3>2. stage' \in [Conns -> Stages] /\ alive' \subseteq Conns /\ hConn' \in Conns \cup {0}
      BY <3>1 DEF IInv, Base, Types, Stages
    <3>3. scc' \in Structures
      BY <3>1 DEF IInv, Base, Types, Structures
    <3> QED
      BY <3>2, <3>3 DEF IInv, Base, Types
  <2>2. Places'
    BY DEF IInv, Base, Types, Places, Handlers, Threads, ListenerAt, OwnerAt, ListAt, GuiAt,
         Accepting, Ending, Leaving
  <2>3. StructureInv'
    BY DEF IInv, Base, Types, Places, StructureInv, ThreadsInv, Structures, Handlers, Threads,
         nSeverShutDownFlag, nShutDown, GuiAt, Leaving
  <2>4. ThreadsInv'
    BY DEF IInv, Base, Types, Places, StructureInv, ThreadsInv, Structures, Handlers, Threads,
         nSeverShutDownFlag, nShutDown, GuiAt, Leaving
  <2> QED
    BY <2>1, <2>2, <2>3, <2>4 DEF Base
<1>2. ASSUME patient
      PROVE  /\ WaitsInv'
             /\ stop' # "no" => ShutDownInv'
             /\ pc'["gui"] = "run" => RunsInv'
  <2> USE <1>2 DEF IInv, Base, Places
  <2>1. WaitsInv'
    BY DEF WaitsInv, Types, Handlers, Threads, ListenerAt, OwnerAt, GuiAt, Accepting, Ending,
         Leaving, Awake, Delay, nSeverShutDownFlag, nShutDown, ThreadsInv
  <2>2. stop' # "no" => ShutDownInv'
    BY DEF ShutDownInv, StructureInv, ThreadsInv, Told, WaitsInv, Types, Structures, Handlers,
         Threads, ListenerAt, OwnerAt, ListAt, GuiAt, Accepting, Ending, Leaving, Awake, Delay,
         HasMessage, nSeverShutDownFlag, nShutDown
  <2>3. pc'["gui"] = "run" => RunsInv'
    BY DEF RunsInv, Types, Structures, StructureInv, ThreadsInv, Handlers, Threads,
         nSeverShutDownFlag, nShutDown, GuiAt, Leaving, Awake, Delay, HasMessage, ListenerAt,
         OwnerAt, Accepting, Ending, Notified
  <2> QED
    BY <2>1, <2>2, <2>3
<1>3. ASSUME Calm' PROVE LastInv' /\ AcceptInv'
  <2> USE DEF IInv, Base, Places
  <2>1. Calm /\ LastInv /\ AcceptInv
    BY <1>3 DEF Calm, nShutDown, Types, Threads
  <2>2. patient /\ WaitsInv /\ (stop # "no" => ShutDownInv) /\ (pc["gui"] = "run" => RunsInv)
    BY <2>1 DEF Calm
  <2>3. LastInv'
    <3>1. work["listener"] = made /\ stage[made] = "pending" /\ made \in Conns /\ made > 0
      BY <2>1 DEF AcceptInv, Conns
    <3>2. \A t \in Handlers : pc[t] \notin Ending
      <4>1. \A t \in Handlers : pc[t] # "closing"
        BY <2>1, <3>1 DEF LastInv
      <4>2. pc["owner"] # "unlink" /\ pc["listener"] \notin Ending
        BY <2>2 DEF Awake, Delay, Threads, Handlers, Ending
      <4>3. pc["owner"] # "waitExit"
        BY <2>1, <2>2, <3>1 DEF AcceptInv, RunsInv, Calm, nShutDown, Types
      <4> QED
        BY <4>1, <4>2, <4>3 DEF Handlers, Ending
    <3>3. scc'.pSocket = made /\ made' = made /\ handle' = handle /\ crashed' = crashed
      BY <2>1, <3>1 DEF LastInv, Types, Structures
    <3>4. \A t \in Handlers : pc'[t] \notin Ending
      BY <3>2 DEF Handlers, Threads, Ending
    <3>5. stage'[made] = "held" /\ \A c \in Conns : c # made => stage'[c] = stage[c]
      BY <3>1 DEF Types
    <3> QED
      BY <2>1, <3>1, <3>3, <3>4, <3>5 DEF LastInv, Ending, Handlers
  <2>4. AcceptInv'
    BY <1>3, <2>1, <2>2 DEF LastInv, AcceptInv, WaitsInv, ShutDownInv, RunsInv, StructureInv,
         ThreadsInv, Handlers, Threads, Accepting, Ending, Leaving, ListenerAt, OwnerAt, GuiAt,
         Stages, Structures, Types, Conns, Calm, nShutDown, nSeverShutDownFlag
  <2> QED
    BY <2>3, <2>4
<1> QED
  BY <1>1, <1>2, <1>3 DEF IInv, Base, Calm, AcceptAgain, Fine

\* It is attached to the socket made for it.
LEMMA AttachKeeps ==
  ASSUME IInv, crashed = "no", Attach
  PROVE  IInv'
<1> USE DEF Attach, At, Goto, Fine, board, sockets, messages, control
<1>0. crashed' # "no" => IInv'
  <2> SUFFICES ASSUME crashed' # "no" PROVE IInv'
    OBVIOUS
  <2>1. Crash("listener")
    BY DEF Crash
  <2>2. ASSUME Calm PROVE FALSE
    <3>1. LastInv /\ AcceptInv /\ StructureInv /\ Types
      BY <2>2 DEF IInv, Base

    <3> QED
      BY <3>1 DEF LastInv, AcceptInv, StructureInv, Conns, Types
  <2> QED
    BY <2>1, <2>2, CrashKeeps DEF Threads, Handlers
<1> SUFFICES ASSUME crashed' = "no" PROVE IInv'
  BY <1>0
<1> USE DEF Crash
<1>1. Base'
  <2>1. Types'
    BY DEF IInv, Base, Types, Structures, Stages, Handlers, Threads
  <2>2. Places'
    BY DEF IInv, Base, Types, Places, Handlers, Threads, ListenerAt, OwnerAt, ListAt, GuiAt,
         Accepting, Ending, Leaving
  <2>3. StructureInv'
    BY DEF IInv, Base, Types, Places, StructureInv, ThreadsInv, Structures, Handlers, Threads,
         nSeverShutDownFlag, nShutDown, GuiAt, Leaving
  <2>4. ThreadsInv'
    BY DEF IInv, Base, Types, Places, StructureInv, ThreadsInv, Structures, Handlers, Threads,
         nSeverShutDownFlag, nShutDown, GuiAt, Leaving
  <2> QED
    BY <2>1, <2>2, <2>3, <2>4 DEF Base
<1>2. ASSUME patient
      PROVE  /\ WaitsInv'
             /\ stop' # "no" => ShutDownInv'
             /\ pc'["gui"] = "run" => RunsInv'
  <2> USE <1>2 DEF IInv, Base, Places
  <2>1. WaitsInv'
    BY DEF WaitsInv, Types, Handlers, Threads, ListenerAt, OwnerAt, GuiAt, Accepting, Ending,
         Leaving, Awake, Delay, nSeverShutDownFlag, nShutDown, ThreadsInv
  <2>2. stop' # "no" => ShutDownInv'
    BY DEF ShutDownInv, StructureInv, ThreadsInv, Told, WaitsInv, Types, Structures, Handlers,
         Threads, ListenerAt, OwnerAt, ListAt, GuiAt, Accepting, Ending, Leaving, Awake, Delay,
         HasMessage, nSeverShutDownFlag, nShutDown
  <2>3. pc'["gui"] = "run" => RunsInv'
    BY ZenonT(40) DEF RunsInv, Types, Structures, StructureInv, ThreadsInv, Handlers, Threads,
         nSeverShutDownFlag, nShutDown, GuiAt, Leaving, Awake, Delay, HasMessage, ListenerAt,
         OwnerAt, Accepting, Ending, Notified
  <2> QED
    BY <2>1, <2>2, <2>3
<1>3. ASSUME Calm' PROVE LastInv' /\ AcceptInv'
  <2> USE DEF IInv, Base, Places
  <2>1. Calm /\ LastInv /\ AcceptInv
    BY <1>3 DEF Calm, nShutDown, Types, Threads
  <2>2. patient /\ WaitsInv /\ (stop # "no" => ShutDownInv) /\ (pc["gui"] = "run" => RunsInv)
    BY <2>1 DEF Calm
  <2>3. LastInv'
    BY <1>3, <2>1, <2>2 DEF LastInv, AcceptInv, WaitsInv, ShutDownInv, RunsInv, StructureInv,
         ThreadsInv, Handlers, Threads, Accepting, Ending, Leaving, ListenerAt, OwnerAt, GuiAt,
         Stages, Structures, Types, Conns, Calm, nShutDown, nSeverShutDownFlag
  <2>4. AcceptInv'
    BY <1>3, <2>1, <2>2 DEF LastInv, AcceptInv, WaitsInv, ShutDownInv, RunsInv, StructureInv,
         ThreadsInv, Handlers, Threads, Accepting, Ending, Leaving, ListenerAt, OwnerAt, GuiAt,
         Stages, Structures, Types, Conns, Calm, nShutDown, nSeverShutDownFlag
  <2> QED
    BY <2>3, <2>4
<1> QED
  BY <1>1, <1>2, <1>3 DEF IInv, Base, Calm, Attach, Fine

\* A refused connection leaves nothing behind.
LEMMA AcceptRefusedKeeps ==
  ASSUME IInv, crashed = "no", AcceptRefused
  PROVE  IInv'
<1> USE DEF AcceptRefused, At, Goto, Fine, board, sockets, messages, control
<1>1. Base'
  <2>1. Types'
    BY ZenonT(40) DEF IInv, Base, Types, Structures, Stages, Handlers, Threads
  <2>2. Places'
    BY DEF IInv, Base, Types, Places, Handlers, Threads, ListenerAt, OwnerAt, ListAt, GuiAt,
         Accepting, Ending, Leaving
  <2>3. StructureInv'
    BY DEF IInv, Base, Types, Places, StructureInv, ThreadsInv, Structures, Handlers, Threads,
         nSeverShutDownFlag, nShutDown, GuiAt, Leaving
  <2>4. ThreadsInv'
    BY DEF IInv, Base, Types, Places, StructureInv, ThreadsInv, Structures, Handlers, Threads,
         nSeverShutDownFlag, nShutDown, GuiAt, Leaving
  <2> QED
    BY <2>1, <2>2, <2>3, <2>4 DEF Base
<1>2. ASSUME patient
      PROVE  /\ WaitsInv'
             /\ stop' # "no" => ShutDownInv'
             /\ pc'["gui"] = "run" => RunsInv'
  <2> USE <1>2 DEF IInv, Base, Places
  <2>1. WaitsInv'
    BY DEF WaitsInv, Types, Handlers, Threads, ListenerAt, OwnerAt, GuiAt, Accepting, Ending,
         Leaving, Awake, Delay, nSeverShutDownFlag, nShutDown, ThreadsInv
  <2>2. stop' # "no" => ShutDownInv'
    BY DEF ShutDownInv, StructureInv, ThreadsInv, Told, WaitsInv, Types, Structures, Handlers,
         Threads, ListenerAt, OwnerAt, ListAt, GuiAt, Accepting, Ending, Leaving, Awake, Delay,
         HasMessage, nSeverShutDownFlag, nShutDown
  <2>3. pc'["gui"] = "run" => RunsInv'
    BY DEF RunsInv, Types, Structures, StructureInv, ThreadsInv, Handlers, Threads,
         nSeverShutDownFlag, nShutDown, GuiAt, Leaving, Awake, Delay, HasMessage, ListenerAt,
         OwnerAt, Accepting, Ending, Notified
  <2> QED
    BY <2>1, <2>2, <2>3
<1>3. ASSUME Calm' PROVE LastInv' /\ AcceptInv'
  <2> USE DEF IInv, Base, Places
  <2>1. Calm /\ LastInv /\ AcceptInv
    BY <1>3 DEF Calm, nShutDown, Types, Threads
  <2>2. patient /\ WaitsInv /\ (stop # "no" => ShutDownInv) /\ (pc["gui"] = "run" => RunsInv)
    BY <2>1 DEF Calm
  <2>3. LastInv'
    BY <1>3, <2>1, <2>2 DEF LastInv, AcceptInv, WaitsInv, ShutDownInv, RunsInv, StructureInv,
         ThreadsInv, Handlers, Threads, Accepting, Ending, Leaving, ListenerAt, OwnerAt, GuiAt,
         Stages, Structures, Types, Conns, Calm, nShutDown, nSeverShutDownFlag
  <2>4. AcceptInv'
    BY <1>3, <2>1, <2>2 DEF LastInv, AcceptInv, WaitsInv, ShutDownInv, RunsInv, StructureInv,
         ThreadsInv, Handlers, Threads, Accepting, Ending, Leaving, ListenerAt, OwnerAt, GuiAt,
         Stages, Structures, Types, Conns, Calm, nShutDown, nSeverShutDownFlag
  <2> QED
    BY <2>3, <2>4
<1> QED
  BY <1>1, <1>2, <1>3 DEF IInv, Base, Calm, AcceptRefused, Fine

\* By the end of OnAccept the owner thread has started.
LEMMA AcceptedKeeps ==
  ASSUME IInv, crashed = "no", Accepted
  PROVE  IInv'
<1> USE DEF Accepted, At, Goto, Fine, board, sockets, messages, control
<1>1. Base'
  <2>1. Types'
    BY DEF IInv, Base, Types, Structures, Stages, Handlers, Threads
  <2>2. Places'
    BY DEF IInv, Base, Types, Places, Handlers, Threads, ListenerAt, OwnerAt, ListAt, GuiAt,
         Accepting, Ending, Leaving
  <2>3. StructureInv'
    BY DEF IInv, Base, Types, Places, StructureInv, ThreadsInv, Structures, Handlers, Threads,
         nSeverShutDownFlag, nShutDown, GuiAt, Leaving
  <2>4. ThreadsInv'
    BY DEF IInv, Base, Types, Places, StructureInv, ThreadsInv, Structures, Handlers, Threads,
         nSeverShutDownFlag, nShutDown, GuiAt, Leaving
  <2> QED
    BY <2>1, <2>2, <2>3, <2>4 DEF Base
<1>2. ASSUME patient
      PROVE  /\ WaitsInv'
             /\ stop' # "no" => ShutDownInv'
             /\ pc'["gui"] = "run" => RunsInv'
  <2> USE <1>2 DEF IInv, Base, Places
  <2>1. WaitsInv'
    BY DEF WaitsInv, Types, Handlers, Threads, ListenerAt, OwnerAt, GuiAt, Accepting, Ending,
         Leaving, Awake, Delay, nSeverShutDownFlag, nShutDown, ThreadsInv
  <2>2. stop' # "no" => ShutDownInv'
    BY DEF ShutDownInv, StructureInv, ThreadsInv, Told, WaitsInv, Types, Structures, Handlers,
         Threads, ListenerAt, OwnerAt, ListAt, GuiAt, Accepting, Ending, Leaving, Awake, Delay,
         HasMessage, nSeverShutDownFlag, nShutDown
  <2>3. pc'["gui"] = "run" => RunsInv'
    BY DEF RunsInv, Types, Structures, StructureInv, ThreadsInv, Handlers, Threads,
         nSeverShutDownFlag, nShutDown, GuiAt, Leaving, Awake, Delay, HasMessage, ListenerAt,
         OwnerAt, Accepting, Ending, Notified
  <2> QED
    BY <2>1, <2>2, <2>3
<1>3. ASSUME Calm' PROVE LastInv' /\ AcceptInv'
  <2> USE DEF IInv, Base, Places
  <2>1. Calm /\ LastInv /\ AcceptInv
    BY <1>3 DEF Calm, nShutDown, Types, Threads
  <2>2. patient /\ WaitsInv /\ (stop # "no" => ShutDownInv) /\ (pc["gui"] = "run" => RunsInv)
    BY <2>1 DEF Calm
  <2>3. LastInv'
    BY <1>3, <2>1, <2>2 DEF LastInv, AcceptInv, WaitsInv, ShutDownInv, RunsInv, StructureInv,
         ThreadsInv, Handlers, Threads, Accepting, Ending, Leaving, ListenerAt, OwnerAt, GuiAt,
         Stages, Structures, Types, Conns, Calm, nShutDown, nSeverShutDownFlag
  <2>4. AcceptInv'
    BY <1>3, <2>1, <2>2 DEF LastInv, AcceptInv, WaitsInv, ShutDownInv, RunsInv, StructureInv,
         ThreadsInv, Handlers, Threads, Accepting, Ending, Leaving, ListenerAt, OwnerAt, GuiAt,
         Stages, Structures, Types, Conns, Calm, nShutDown, nSeverShutDownFlag
  <2> QED
    BY <2>3, <2>4
<1> QED
  BY <1>1, <1>2, <1>3 DEF IInv, Base, Calm, Accepted, Fine

-----------------------------------------------------------------------------
(* A socket's end, and its packets.                                        *)

\* The notification comes to the socket of the last connection.
LEMMA OnCloseKeeps ==
  ASSUME IInv, crashed = "no", NEW t \in Handlers, OnClose(t)
  PROVE  IInv'
<1> USE DEF OnClose, At, Goto, Fine, board, sockets, messages, control, CloseHandles
<1>0. crashed' # "no" => IInv'
  <2> SUFFICES ASSUME crashed' # "no" PROVE IInv'
    OBVIOUS
  <2>1. Crash(t)
    BY DEF Crash
  <2>2. ASSUME Calm PROVE FALSE
    <3>1. patient /\ LastInv /\ AcceptInv /\ StructureInv /\ ThreadsInv /\ Types
      BY <2>2 DEF IInv, Base, Calm

    <3>2. PICK c \in left : stage[c] = t /\ object[c] \notin alive
      OBVIOUS
    <3>3. c \in Conns /\ c = made /\ c > 0
      BY <3>1, <3>2 DEF LastInv, Types, Conns, Handlers
    <3> QED
      BY <3>1, <3>2, <3>3 DEF LastInv, StructureInv, Handlers
  <2> QED
    BY <2>1, <2>2, CrashKeeps DEF Threads, Handlers
<1> SUFFICES ASSUME crashed' = "no" PROVE IInv'
  BY <1>0
<1> USE DEF Crash
<1>1. Base'
  <2>1. Types'
    <3>1. \A c \in left : object[c] \in Conns \cup {0}
      <4>1. left \subseteq Conns
        BY DEF IInv, Base, Types, Conns
      <4> QED
        BY <4>1 DEF IInv, Base, Types
    <3>2. stage' \in [Conns -> Stages] /\ handle' \in [Conns -> Conns \cup {0}]
      BY DEF IInv, Base, Types, Stages
    <3>3. work' \in [Handlers -> Conns \cup {0}]
      BY <3>1 DEF IInv, Base, Types
    <3> QED
      BY <3>2, <3>3 DEF IInv, Base, Types
  <2>2. Places'
    BY DEF IInv, Base, Types, Places, Handlers, Threads, ListenerAt, OwnerAt, ListAt, GuiAt,
         Accepting, Ending, Leaving
  <2>3. StructureInv'
    BY DEF IInv, Base, Types, Places, StructureInv, ThreadsInv, Structures, Handlers, Threads,
         nSeverShutDownFlag, nShutDown, GuiAt, Leaving
  <2>4. ThreadsInv'
    BY DEF IInv, Base, Types, Places, StructureInv, ThreadsInv, Structures, Handlers, Threads,
         nSeverShutDownFlag, nShutDown, GuiAt, Leaving
  <2> QED
    BY <2>1, <2>2, <2>3, <2>4 DEF Base
<1>2. ASSUME patient
      PROVE  /\ WaitsInv'
             /\ stop' # "no" => ShutDownInv'
             /\ pc'["gui"] = "run" => RunsInv'
  <2> USE <1>2 DEF IInv, Base, Places
  <2>1. WaitsInv'
    BY DEF WaitsInv, Types, Handlers, Threads, ListenerAt, OwnerAt, GuiAt, Accepting, Ending,
         Leaving, Awake, Delay, nSeverShutDownFlag, nShutDown, ThreadsInv
  <2>2. stop' # "no" => ShutDownInv'
    <3>1. /\ pc[t] = "idle" /\ pc'[t] = "closing" /\ \A u \in Threads : u # t => pc'[u] = pc[u]
          /\ UNCHANGED <<made, scc, kill, stop, packets, quit, exiting>>
      BY DEF Handlers, Threads

    <3>2. SUFFICES ASSUME ShutDownInv PROVE ShutDownInv'
      BY <1>2, <3>1
    <3>3. pc'["gui"] = pc["gui"] /\ pc'["list"] = pc["list"]
      BY <3>1 DEF Handlers, Threads
    <3>4. CASE t = "owner"
      BY <3>1, <3>2, <3>3, <3>4 DEF ShutDownInv, Told
    <3>5. CASE t = "listener"
      <4>1. pc'["owner"] = pc["owner"]
        BY <3>1, <3>5 DEF Handlers, Threads
      <4> QED
        BY <3>1, <3>2, <3>3, <4>1 DEF ShutDownInv, Told
    <3> QED
      BY <3>4, <3>5 DEF Handlers
  <2>3. pc'["gui"] = "run" => RunsInv'
    <3>1. /\ pc[t] = "idle" /\ pc'[t] = "closing" /\ \A u \in Threads : u # t => pc'[u] = pc[u]
          /\ UNCHANGED <<made, scc, kill, stop, packets, quit, exiting>>
      BY DEF Handlers, Threads

    <3>2. SUFFICES ASSUME RunsInv PROVE RunsInv'
      BY <1>2, <3>1 DEF Handlers, Threads
    <3>3. scc.there # "no"
      <4> SUFFICES ASSUME scc.there = "no" PROVE FALSE
        OBVIOUS
      <4>1. PICK c \in left : stage[c] = t
        OBVIOUS
      <4>2. c \in 1 .. made /\ (made = 0 \/ (made = 1 /\ stage[1] = "pending"))
        BY <3>2 DEF RunsInv, Types
      <4> QED
        BY <4>1, <4>2 DEF Handlers
    <3>4. /\ pc'["owner"] \in {pc["owner"], "closing"}
          /\ pc'["listener"] \in {pc["listener"], "closing"}
      BY <3>1 DEF Threads, Handlers
    <3> QED
      BY <3>1, <3>2, <3>3, <3>4 DEF RunsInv
  <2> QED
    BY <2>1, <2>2, <2>3
<1>3. ASSUME Calm' PROVE LastInv' /\ AcceptInv'
  <2> USE DEF IInv, Base, Places
  <2>1. Calm /\ LastInv /\ AcceptInv
    BY <1>3 DEF Calm, nShutDown, Types, Threads
  <2>2. patient /\ WaitsInv /\ (stop # "no" => ShutDownInv) /\ (pc["gui"] = "run" => RunsInv)
    BY <2>1 DEF Calm
  <2>3. LastInv'
    BY <1>3, <2>1, <2>2 DEF LastInv, AcceptInv, WaitsInv, ShutDownInv, RunsInv, StructureInv,
         ThreadsInv, Handlers, Threads, Accepting, Ending, Leaving, ListenerAt, OwnerAt, GuiAt,
         Stages, Structures, Types, Conns, Calm, nShutDown, nSeverShutDownFlag
  <2>4. AcceptInv'
    BY <1>3, <2>1, <2>2 DEF LastInv, AcceptInv, WaitsInv, ShutDownInv, RunsInv, StructureInv,
         ThreadsInv, Handlers, Threads, Accepting, Ending, Leaving, ListenerAt, OwnerAt, GuiAt,
         Stages, Structures, Types, Conns, Calm, nShutDown, nSeverShutDownFlag
  <2> QED
    BY <2>3, <2>4
<1> QED
  BY <1>1, <1>2, <1>3 DEF IInv, Base, Calm, OnClose, Fine

\* One thread at a time deletes the socket, which is the last connection's.
LEMMA DestroyKeeps ==
  ASSUME IInv, crashed = "no", NEW t \in Handlers, Destroy(t)
  PROVE  IInv'
<1> USE DEF Destroy, At, Goto, Fine, board, sockets, messages, control, CloseHandles
<1>0. crashed' # "no" => IInv'
  <2> SUFFICES ASSUME crashed' # "no" PROVE IInv'
    OBVIOUS
  <2>1. Crash(t)
    BY DEF Crash
  <2>2. ASSUME Calm PROVE FALSE
    <3>1. patient /\ LastInv /\ AcceptInv /\ StructureInv /\ ThreadsInv /\ Types
      BY <2>2 DEF IInv, Base, Calm

    <3>2. pc[t] = "closing"
      OBVIOUS
    <3>3. made > 0 /\ made \in Conns /\ scc.there = "yes"
      BY <2>2, <3>2, ClosingMade, EndingThere DEF Ending
    <3>4. work[t] = made /\ scc.pSocket = made
      BY <3>1, <3>2 DEF LastInv
    <3>5. made # 0 /\ made \in alive
      BY <3>1, <3>3, <3>4 DEF StructureInv
    <3>6. scc.pOwner
      BY <3>1, <3>3, <3>4, <3>5 DEF AcceptInv, StructureInv
    <3> QED
      BY <3>3, <3>4, <3>5, <3>6
  <2> QED
    BY <2>1, <2>2, CrashKeeps DEF Threads, Handlers
<1> SUFFICES ASSUME crashed' = "no" PROVE IInv'
  BY <1>0
<1> USE DEF Crash
<1>1. Base'
  <2>1. Types'
    <3>1. stage' \in [Conns -> Stages] /\ handle' \in [Conns -> Conns \cup {0}]
      BY DEF IInv, Base, Types, Stages
    <3>2. scc' \in Structures
      BY DEF IInv, Base, Types, Structures
    <3>3. quit' \subseteq {"listener", "owner", "list"} /\ alive' \subseteq Conns
      BY DEF IInv, Base, Types, Handlers
    <3> QED
      BY <3>1, <3>2, <3>3 DEF IInv, Base, Types
  <2>2. Places'
    BY DEF IInv, Base, Types, Places, Handlers, Threads, ListenerAt, OwnerAt, ListAt, GuiAt,
         Accepting, Ending, Leaving
  <2>3. StructureInv'
    BY ZenonT(40) DEF IInv, Base, Types, Places, StructureInv, ThreadsInv, Structures, Handlers, Threads,
         nSeverShutDownFlag, nShutDown, GuiAt, Leaving
  <2>4. ThreadsInv'
    BY DEF IInv, Base, Types, Places, StructureInv, ThreadsInv, Structures, Handlers, Threads,
         nSeverShutDownFlag, nShutDown, GuiAt, Leaving
  <2> QED
    BY <2>1, <2>2, <2>3, <2>4 DEF Base
<1>2. ASSUME patient
      PROVE  /\ WaitsInv'
             /\ stop' # "no" => ShutDownInv'
             /\ pc'["gui"] = "run" => RunsInv'
  <2> USE <1>2 DEF IInv, Base, Places
  <2>1. WaitsInv'
    BY ZenonT(40) DEF WaitsInv, Types, Handlers, Threads, ListenerAt, OwnerAt, GuiAt, Accepting, Ending,
         Leaving, Awake, Delay, nSeverShutDownFlag, nShutDown, ThreadsInv
  <2>2. stop' # "no" => ShutDownInv'
    <3> SUFFICES ASSUME stop # "no", ShutDownInv PROVE ShutDownInv'
      BY <1>2
    <3>1. nShutDown
      BY DEF ThreadsInv, nShutDown
    <3>2. /\ pc[t] = "closing" /\ pc'[t] = "waitExit"
          /\ \A u \in Threads : u # t => pc'[u] = pc[u]
          /\ scc.there = "yes" /\ scc.pOwner
          /\ quit' = quit \cup {t} /\ UNCHANGED <<kill, stop>>
      BY <3>1 DEF Threads, Handlers
    <3>3. scc'.there = scc.there /\ scc'.pOwner = scc.pOwner /\ scc'.pList = scc.pList
      BY DEF Types, Structures
    <3>4. pc'["gui"] = pc["gui"] /\ pc'["list"] = pc["list"]
      BY <3>2 DEF Handlers, Threads
    <3>5. Told => Told'
      <4>1. CASE t = "owner"
        BY <3>2, <4>1 DEF Told
      <4>2. CASE t = "listener"
        <5>1. pc'["owner"] = pc["owner"]
          BY <3>2, <4>2 DEF Handlers, Threads
        <5> QED
          BY <3>2, <4>2, <5>1 DEF Told
      <4> QED
        BY <4>1, <4>2 DEF Handlers
    <3> QED
      BY <3>2, <3>3, <3>4, <3>5 DEF ShutDownInv
  <2>3. pc'["gui"] = "run" => RunsInv'
    BY ZenonT(40) DEF RunsInv, Types, Structures, StructureInv, ThreadsInv, Handlers, Threads,
         nSeverShutDownFlag, nShutDown, GuiAt, Leaving, Awake, Delay, HasMessage, ListenerAt,
         OwnerAt, Accepting, Ending, Notified
  <2> QED
    BY <2>1, <2>2, <2>3
<1>3. ASSUME Calm' PROVE LastInv' /\ AcceptInv'
  <2> USE DEF IInv, Base, Places
  <2>1. Calm /\ LastInv /\ AcceptInv
    BY <1>3 DEF Calm, nShutDown, Types, Threads
  <2>2. patient /\ WaitsInv /\ (stop # "no" => ShutDownInv) /\ (pc["gui"] = "run" => RunsInv)
    BY <2>1 DEF Calm
  <2>3. LastInv'
    <3>1. pc[t] = "closing" /\ made \in Conns /\ made > 0
      BY <2>1, ClosingMade
    <3>2. scc.pSocket = made /\ stage[made] = "closed" /\ handle[made] \in {0, made}
      BY <2>1, <3>1 DEF LastInv
    <3>3. \A u \in Handlers : u # t => pc[u] # "closing"
      BY <2>1, <3>1 DEF LastInv, Handlers
    <3>4. \A u \in Handlers : pc'[u] # "closing"
      BY <3>1, <3>3 DEF Handlers, Threads
    <3>5. \A c \in Conns : stage'[c] = stage[c] /\ handle'[c] \in {0, handle[c]}
      <4>1. CASE nShutDown
        BY <4>1
      <4>2. CASE ~nShutDown
        <5>1. CloseHandles(made, {})
          BY <3>2, <4>2 DEF Handlers
        <5> QED
          BY <3>1, <3>2, <5>1 DEF Types, Conns
      <4> QED
        BY <4>1, <4>2
    <3>6. scc'.pSocket = 0 /\ made' = made /\ crashed' = crashed
      BY DEF Types, Structures, Handlers
    <3>7. \A c \in Conns : handle'[c] \in {0, c}
      BY <2>1, <3>5 DEF LastInv
    <3>8. \A c \in Conns : (c < made => stage'[c] = "closed") /\ (c > made => stage'[c] = "none")
      BY <2>1, <3>5 DEF LastInv
    <3>9. stage'[made] = "closed"
      BY <3>1, <3>2, <3>5
    <3> QED
      BY <2>1, <3>4, <3>6, <3>7, <3>8, <3>9 DEF LastInv, Handlers
  <2>4. AcceptInv'
    <3>1. pc[t] = "closing" /\ made \in Conns /\ made > 0
      BY <2>1, ClosingMade
    <3>2. scc.pSocket = made /\ stage[made] = "closed" /\ handle[made] \in {0, made}
      BY <2>1, <3>1 DEF LastInv
    <3>3. \A c \in Conns : stage'[c] = stage[c]
      <4>1. CASE nShutDown
        BY <4>1
      <4>2. CASE ~nShutDown
        <5>1. CloseHandles(made, {})
          BY <3>2, <4>2 DEF Handlers
        <5> QED
          BY <3>1, <3>2, <5>1 DEF Types, Conns
      <4> QED
        BY <4>1, <4>2
    <3>4. /\ scc'.pSocket = 0 /\ scc'.there = scc.there /\ made' = made
          /\ UNCHANGED <<stop, hConn, work>> /\ pc'["gui"] = pc["gui"]
      BY DEF Types, Structures, Threads, Handlers
    <3>5. /\ pc'["owner"] \in {pc["owner"], "unlink", "waitExit"}
          /\ pc'["listener"] \in {pc["listener"], "unlink", "waitExit"}
          /\ pc'["listener"] # pc["listener"] => t = "listener"
      BY DEF Threads, Handlers
    <3>6. t = "listener" => made > 1 /\ scc.there = "yes" /\ ~nShutDown
      BY <2>1, <3>1 DEF AcceptInv, Ending, Calm, Types
    <3>7. "listener" \in quit' => "listener" \in quit
      BY <3>6 DEF Handlers
    <3>8. stage'[made] = "closed" /\ stage'[1] = stage[1]
      BY <3>1, <3>2, <3>3 DEF Conns
    <3>9. pc["listener"] \notin {"accept", "resume", "attach"} /\ pc["owner"] # "starting"
      BY <2>1, <3>2 DEF AcceptInv
    <3>10. pc'["listener"] \in Ending => made > 1 /\ scc.there = "yes"
      BY <2>1, <3>5, <3>6 DEF AcceptInv, Ending
    <3> QED
      BY <2>1, <3>4, <3>5, <3>7, <3>8, <3>9, <3>10 DEF AcceptInv
  <2> QED
    BY <2>3, <2>4
<1> QED
  BY <1>1, <1>2, <1>3 DEF IInv, Base, Calm, Destroy, Fine

\* The structure has lost the socket already.
LEMMA UnlinkKeeps ==
  ASSUME IInv, crashed = "no", NEW t \in Handlers, Unlink(t)
  PROVE  IInv'
<1> USE DEF Unlink, At, Goto, Fine, board, sockets, messages, control
<1>0. crashed' # "no" => IInv'
  <2> SUFFICES ASSUME crashed' # "no" PROVE IInv'
    OBVIOUS
  <2>1. Crash(t)
    BY DEF Crash
  <2>2. ASSUME Calm PROVE FALSE
    <3>1. pc[t] \in Ending
      BY DEF Ending
    <3> QED
      BY <2>2, <3>1, EndingThere
  <2> QED
    BY <2>1, <2>2, CrashKeeps DEF Threads, Handlers
<1> SUFFICES ASSUME crashed' = "no" PROVE IInv'
  BY <1>0
<1> USE DEF Crash
<1>1. Base'
  <2>1. Types'
    BY DEF IInv, Base, Types, Structures, Stages, Handlers, Threads
  <2>2. Places'
    BY DEF IInv, Base, Types, Places, Handlers, Threads, ListenerAt, OwnerAt, ListAt, GuiAt,
         Accepting, Ending, Leaving
  <2>3. StructureInv'
    BY DEF IInv, Base, Types, Places, StructureInv, ThreadsInv, Structures, Handlers, Threads,
         nSeverShutDownFlag, nShutDown, GuiAt, Leaving
  <2>4. ThreadsInv'
    BY DEF IInv, Base, Types, Places, StructureInv, ThreadsInv, Structures, Handlers, Threads,
         nSeverShutDownFlag, nShutDown, GuiAt, Leaving
  <2> QED
    BY <2>1, <2>2, <2>3, <2>4 DEF Base
<1>2. ASSUME patient
      PROVE  /\ WaitsInv'
             /\ stop' # "no" => ShutDownInv'
             /\ pc'["gui"] = "run" => RunsInv'
  <2> USE <1>2 DEF IInv, Base, Places
  <2>1. WaitsInv'
    BY DEF WaitsInv, Types, Handlers, Threads, ListenerAt, OwnerAt, GuiAt, Accepting, Ending,
         Leaving, Awake, Delay, nSeverShutDownFlag, nShutDown, ThreadsInv
  <2>2. stop' # "no" => ShutDownInv'
    <3> SUFFICES ASSUME stop # "no", ShutDownInv PROVE ShutDownInv'
      BY <1>2
    <3>1. /\ pc[t] \in Ending /\ pc[t] # "closing" /\ pc'[t] \in {"exit", "idle"}
          /\ \A u \in Threads : u # t => pc'[u] = pc[u]
          /\ UNCHANGED <<kill, stop, quit>>
      BY DEF Threads, Handlers, Ending
    <3>2. scc'.there = scc.there /\ scc'.pOwner = scc.pOwner /\ scc'.pList = scc.pList
      BY DEF Types, Structures
    <3>3. pc'["gui"] = pc["gui"] /\ pc'["list"] = pc["list"]
      BY <3>1 DEF Handlers, Threads
    <3>4. CASE t = "owner"
      BY <3>1, <3>2, <3>3, <3>4 DEF ShutDownInv, Told, Ending
    <3>5. CASE t = "listener"
      <4>1. pc'["owner"] = pc["owner"]
        BY <3>1, <3>5 DEF Handlers, Threads
      <4> QED
        BY <3>1, <3>2, <3>3, <4>1 DEF ShutDownInv, Told
    <3> QED
      BY <3>4, <3>5 DEF Handlers
  <2>3. pc'["gui"] = "run" => RunsInv'
    BY ZenonT(40) DEF RunsInv, Types, Structures, StructureInv, ThreadsInv, Handlers, Threads,
         nSeverShutDownFlag, nShutDown, GuiAt, Leaving, Awake, Delay, HasMessage, ListenerAt,
         OwnerAt, Accepting, Ending, Notified
  <2> QED
    BY <2>1, <2>2, <2>3
<1>3. ASSUME Calm' PROVE LastInv' /\ AcceptInv'
  <2> USE DEF IInv, Base, Places
  <2>1. Calm /\ LastInv /\ AcceptInv
    BY <1>3 DEF Calm, nShutDown, Types, Threads
  <2>2. patient /\ WaitsInv /\ (stop # "no" => ShutDownInv) /\ (pc["gui"] = "run" => RunsInv)
    BY <2>1 DEF Calm
  <2>3. LastInv'
    <3>1. scc.pSocket = 0
      BY <2>1 DEF LastInv
    <3>2. scc'.pSocket = scc.pSocket /\ UNCHANGED <<made, stage, handle, object, work, crashed>>
      BY <3>1 DEF Types, Structures
    <3>3. \A u \in Handlers : pc'[u] \in {pc[u], "exit", "idle"}
      BY DEF Handlers, Threads
    <3>4. \A u \in Handlers : pc'[u] = "closing" => pc[u] = "closing"
      BY <3>3
    <3> QED
      BY <2>1, <3>1, <3>2, <3>4 DEF LastInv, Handlers
  <2>4. AcceptInv'
    BY <1>3, <2>1, <2>2 DEF LastInv, AcceptInv, WaitsInv, ShutDownInv, RunsInv, StructureInv,
         ThreadsInv, Handlers, Threads, Accepting, Ending, Leaving, ListenerAt, OwnerAt, GuiAt,
         Stages, Structures, Types, Conns, Calm, nShutDown, nSeverShutDownFlag
  <2> QED
    BY <2>3, <2>4
<1> QED
  BY <1>1, <1>2, <1>3 DEF IInv, Base, Calm, Unlink, Fine

\* While there is a structure to serve, the list thread is there.
LEMMA OnReceiveKeeps ==
  ASSUME IInv, crashed = "no", NEW t \in Handlers, OnReceive(t)
  PROVE  IInv'
<1> USE DEF OnReceive, At, Goto, Fine, board, sockets, messages, control
<1>0. crashed' # "no" => IInv'
  <2> SUFFICES ASSUME crashed' # "no" PROVE IInv'
    OBVIOUS
  <2>1. Crash(t)
    BY DEF Crash
  <2>2. ASSUME Calm PROVE FALSE
    <3>1. patient /\ LastInv /\ AcceptInv /\ StructureInv /\ ThreadsInv /\ Types
      BY <2>2 DEF IInv, Base, Calm

    <3>2. PICK c \in Conns \ left :
            stage[c] = t /\ (object[c] \notin alive \/ scc.there # "yes" \/ ~scc.pList)
      OBVIOUS
    <3>3. c = made /\ made > 0
      BY <3>1, <3>2 DEF LastInv, Types, Conns, Handlers
    <3>4. /\ scc.pSocket = made /\ object[made] = made /\ made \in alive /\ scc.there = "yes"
      BY <3>1, <3>2, <3>3 DEF LastInv, StructureInv, Handlers
    <3>5. ~scc.pList
      BY <3>2, <3>3, <3>4
    <3>6. pc["list"] # "gone"
      BY <3>1 DEF ThreadsInv, nSeverShutDownFlag
    <3>7. pc["owner"] \in {"none", "suspended", "starting"}
      BY <3>1, <3>4, <3>5, <3>6 DEF StructureInv, ThreadsInv
    <3>8. pc[t] = "idle" /\ WaitsInv
      BY <3>1 DEF IInv
    <3> QED
      BY <3>1, <3>4, <3>7, <3>8 DEF StructureInv, ThreadsInv, WaitsInv, Handlers
  <2> QED
    BY <2>1, <2>2, CrashKeeps DEF Threads, Handlers
<1> SUFFICES ASSUME crashed' = "no" PROVE IInv'
  BY <1>0
<1> USE DEF Crash
<1>1. Base'
  <2>1. Types'
    <3>1. packets' = (pc["list"] \in {"idle", "busy"})
      BY DEF Handlers
    <3>2. packets' \in BOOLEAN
      BY <3>1
    <3> QED
      BY <3>2 DEF IInv, Base, Types
  <2>2. Places'
    BY DEF IInv, Base, Types, Places, Handlers, Threads, ListenerAt, OwnerAt, ListAt, GuiAt,
         Accepting, Ending, Leaving
  <2>3. StructureInv'
    BY DEF IInv, Base, Types, Places, StructureInv, ThreadsInv, Structures, Handlers, Threads,
         nSeverShutDownFlag, nShutDown, GuiAt, Leaving
  <2>4. ThreadsInv'
    BY DEF IInv, Base, Types, Places, StructureInv, ThreadsInv, Structures, Handlers, Threads,
         nSeverShutDownFlag, nShutDown, GuiAt, Leaving
  <2> QED
    BY <2>1, <2>2, <2>3, <2>4 DEF Base
<1>2. ASSUME patient
      PROVE  /\ WaitsInv'
             /\ stop' # "no" => ShutDownInv'
             /\ pc'["gui"] = "run" => RunsInv'
  <2> USE <1>2 DEF IInv, Base, Places
  <2>1. WaitsInv'
    BY DEF WaitsInv, Types, Handlers, Threads, ListenerAt, OwnerAt, GuiAt, Accepting, Ending,
         Leaving, Awake, Delay, nSeverShutDownFlag, nShutDown, ThreadsInv
  <2>2. stop' # "no" => ShutDownInv'
    BY DEF ShutDownInv, StructureInv, ThreadsInv, Told, WaitsInv, Types, Structures, Handlers,
         Threads, ListenerAt, OwnerAt, ListAt, GuiAt, Accepting, Ending, Leaving, Awake, Delay,
         HasMessage, nSeverShutDownFlag, nShutDown
  <2>3. pc'["gui"] = "run" => RunsInv'
    BY DEF RunsInv, Types, Structures, StructureInv, ThreadsInv, Handlers, Threads,
         nSeverShutDownFlag, nShutDown, GuiAt, Leaving, Awake, Delay, HasMessage, ListenerAt,
         OwnerAt, Accepting, Ending, Notified
  <2> QED
    BY <2>1, <2>2, <2>3
<1>3. ASSUME Calm' PROVE LastInv' /\ AcceptInv'
  <2> USE DEF IInv, Base, Places
  <2>1. Calm /\ LastInv /\ AcceptInv
    BY <1>3 DEF Calm, nShutDown, Types, Threads
  <2>2. patient /\ WaitsInv /\ (stop # "no" => ShutDownInv) /\ (pc["gui"] = "run" => RunsInv)
    BY <2>1 DEF Calm
  <2>3. LastInv'
    BY <1>3, <2>1, <2>2 DEF LastInv, AcceptInv, WaitsInv, ShutDownInv, RunsInv, StructureInv,
         ThreadsInv, Handlers, Threads, Accepting, Ending, Leaving, ListenerAt, OwnerAt, GuiAt,
         Stages, Structures, Types, Conns, Calm, nShutDown, nSeverShutDownFlag
  <2>4. AcceptInv'
    BY <1>3, <2>1, <2>2 DEF LastInv, AcceptInv, WaitsInv, ShutDownInv, RunsInv, StructureInv,
         ThreadsInv, Handlers, Threads, Accepting, Ending, Leaving, ListenerAt, OwnerAt, GuiAt,
         Stages, Structures, Types, Conns, Calm, nShutDown, nSeverShutDownFlag
  <2> QED
    BY <2>3, <2>4
<1> QED
  BY <1>1, <1>2, <1>3 DEF IInv, Base, Calm, OnReceive, Fine

-----------------------------------------------------------------------------
(* The listener thread's end.                                              *)

\* What is still pending is closed when the listener thread is told to stop.
LEMMA StopListnerThreadKeeps ==
  ASSUME IInv, crashed = "no", StopListnerThread
  PROVE  IInv'
<1> USE DEF StopListnerThread, At, Goto, Fine, board, sockets, messages, control
<1>1. Base'
  <2>1. Types'
    BY DEF IInv, Base, Types, Structures, Stages, Handlers, Threads
  <2>2. Places'
    BY DEF IInv, Base, Types, Places, Handlers, Threads, ListenerAt, OwnerAt, ListAt, GuiAt,
         Accepting, Ending, Leaving
  <2>3. StructureInv'
    BY DEF IInv, Base, Types, Places, StructureInv, ThreadsInv, Structures, Handlers, Threads,
         nSeverShutDownFlag, nShutDown, GuiAt, Leaving
  <2>4. ThreadsInv'
    BY DEF IInv, Base, Types, Places, StructureInv, ThreadsInv, Structures, Handlers, Threads,
         nSeverShutDownFlag, nShutDown, GuiAt, Leaving
  <2> QED
    BY <2>1, <2>2, <2>3, <2>4 DEF Base
<1>2. ASSUME patient
      PROVE  /\ WaitsInv'
             /\ stop' # "no" => ShutDownInv'
             /\ pc'["gui"] = "run" => RunsInv'
  <2> USE <1>2 DEF IInv, Base, Places
  <2>1. WaitsInv'
    BY DEF WaitsInv, Types, Handlers, Threads, ListenerAt, OwnerAt, GuiAt, Accepting, Ending,
         Leaving, Awake, Delay, nSeverShutDownFlag, nShutDown, ThreadsInv
  <2>2. stop' # "no" => ShutDownInv'
    BY DEF ShutDownInv, StructureInv, ThreadsInv, Told, WaitsInv, Types, Structures, Handlers,
         Threads, ListenerAt, OwnerAt, ListAt, GuiAt, Accepting, Ending, Leaving, Awake, Delay,
         HasMessage, nSeverShutDownFlag, nShutDown
  <2>3. pc'["gui"] = "run" => RunsInv'
    BY DEF RunsInv, Types, Structures, StructureInv, ThreadsInv, Handlers, Threads,
         nSeverShutDownFlag, nShutDown, GuiAt, Leaving, Awake, Delay, HasMessage, ListenerAt,
         OwnerAt, Accepting, Ending, Notified
  <2> QED
    BY <2>1, <2>2, <2>3
<1>3. ASSUME Calm' PROVE LastInv' /\ AcceptInv'
  <2> USE DEF IInv, Base, Places
  <2>1. Calm /\ LastInv /\ AcceptInv
    BY <1>3 DEF Calm, nShutDown, Types, Threads
  <2>2. patient /\ WaitsInv /\ (stop # "no" => ShutDownInv) /\ (pc["gui"] = "run" => RunsInv)
    BY <2>1 DEF Calm
  <2>3. LastInv'
    BY <1>3, <2>1, <2>2 DEF LastInv, AcceptInv, WaitsInv, ShutDownInv, RunsInv, StructureInv,
         ThreadsInv, Handlers, Threads, Accepting, Ending, Leaving, ListenerAt, OwnerAt, GuiAt,
         Stages, Structures, Types, Conns, Calm, nShutDown, nSeverShutDownFlag
  <2>4. AcceptInv'
    BY <1>3, <2>1, <2>2 DEF LastInv, AcceptInv, WaitsInv, ShutDownInv, RunsInv, StructureInv,
         ThreadsInv, Handlers, Threads, Accepting, Ending, Leaving, ListenerAt, OwnerAt, GuiAt,
         Stages, Structures, Types, Conns, Calm, nShutDown, nSeverShutDownFlag
  <2> QED
    BY <2>3, <2>4
<1> QED
  BY <1>1, <1>2, <1>3 DEF IInv, Base, Calm, StopListnerThread, Fine

\* It goes when it has been told to.
LEMMA ListenerExitKeeps ==
  ASSUME IInv, crashed = "no", ListenerExit
  PROVE  IInv'
<1> USE DEF ListenerExit, At, Goto, Fine, board, sockets, messages, control, Notified
<1>1. Base'
  <2>1. Types'
    BY DEF IInv, Base, Types, Structures, Stages, Handlers, Threads
  <2>2. Places'
    BY DEF IInv, Base, Types, Places, Handlers, Threads, ListenerAt, OwnerAt, ListAt, GuiAt,
         Accepting, Ending, Leaving
  <2>3. StructureInv'
    BY DEF IInv, Base, Types, Places, StructureInv, ThreadsInv, Structures, Handlers, Threads,
         nSeverShutDownFlag, nShutDown, GuiAt, Leaving
  <2>4. ThreadsInv'
    BY DEF IInv, Base, Types, Places, StructureInv, ThreadsInv, Structures, Handlers, Threads,
         nSeverShutDownFlag, nShutDown, GuiAt, Leaving
  <2> QED
    BY <2>1, <2>2, <2>3, <2>4 DEF Base
<1>2. ASSUME patient
      PROVE  /\ WaitsInv'
             /\ stop' # "no" => ShutDownInv'
             /\ pc'["gui"] = "run" => RunsInv'
  <2> USE <1>2 DEF IInv, Base, Places
  <2>1. WaitsInv'
    BY DEF WaitsInv, Types, Handlers, Threads, ListenerAt, OwnerAt, GuiAt, Accepting, Ending,
         Leaving, Awake, Delay, nSeverShutDownFlag, nShutDown, ThreadsInv
  <2>2. stop' # "no" => ShutDownInv'
    BY DEF ShutDownInv, StructureInv, ThreadsInv, Told, WaitsInv, Types, Structures, Handlers,
         Threads, ListenerAt, OwnerAt, ListAt, GuiAt, Accepting, Ending, Leaving, Awake, Delay,
         HasMessage, nSeverShutDownFlag, nShutDown
  <2>3. pc'["gui"] = "run" => RunsInv'
    BY DEF RunsInv, Types, Structures, StructureInv, ThreadsInv, Handlers, Threads,
         nSeverShutDownFlag, nShutDown, GuiAt, Leaving, Awake, Delay, HasMessage, ListenerAt,
         OwnerAt, Accepting, Ending, Notified
  <2> QED
    BY <2>1, <2>2, <2>3
<1>3. ASSUME Calm' PROVE LastInv' /\ AcceptInv'
  <2> USE DEF IInv, Base, Places
  <2>1. Calm /\ LastInv /\ AcceptInv
    BY <1>3 DEF Calm, nShutDown, Types, Threads
  <2>2. patient /\ WaitsInv /\ (stop # "no" => ShutDownInv) /\ (pc["gui"] = "run" => RunsInv)
    BY <2>1 DEF Calm
  <2>3. LastInv'
    BY <1>3, <2>1, <2>2 DEF LastInv, AcceptInv, WaitsInv, ShutDownInv, RunsInv, StructureInv,
         ThreadsInv, Handlers, Threads, Accepting, Ending, Leaving, ListenerAt, OwnerAt, GuiAt,
         Stages, Structures, Types, Conns, Calm, nShutDown, nSeverShutDownFlag
  <2>4. AcceptInv'
    BY <1>3, <2>1, <2>2 DEF LastInv, AcceptInv, WaitsInv, ShutDownInv, RunsInv, StructureInv,
         ThreadsInv, Handlers, Threads, Accepting, Ending, Leaving, ListenerAt, OwnerAt, GuiAt,
         Stages, Structures, Types, Conns, Calm, nShutDown, nSeverShutDownFlag
  <2> QED
    BY <2>3, <2>4
<1> QED
  BY <1>1, <1>2, <1>3 DEF IInv, Base, Calm, ListenerExit, Fine

-----------------------------------------------------------------------------
(* The owner thread.                                                       *)

\* The owner thread attaches the first connection to its socket.
LEMMA InitInstanceKeeps ==
  ASSUME IInv, crashed = "no", InitInstance
  PROVE  IInv'
<1> USE DEF InitInstance, At, Goto, Fine, board, sockets, messages, control
<1>0. crashed' # "no" => IInv'
  <2> SUFFICES ASSUME crashed' # "no" PROVE IInv'
    OBVIOUS
  <2>1. Crash("owner")
    BY DEF Crash
  <2>2. ASSUME Calm PROVE FALSE
    <3>1. LastInv /\ AcceptInv /\ StructureInv /\ Types
      BY <2>2 DEF IInv, Base

    <3> QED
      BY <3>1 DEF LastInv, AcceptInv, StructureInv, Conns, Types
  <2> QED
    BY <2>1, <2>2, CrashKeeps DEF Threads, Handlers
<1> SUFFICES ASSUME crashed' = "no" PROVE IInv'
  BY <1>0
<1> USE DEF Crash
<1>1. Base'
  <2>1. Types'
    <3>1. scc.pSocket \in Conns
      BY DEF IInv, Base, Types, Structures
    <3>2. stage' \in [Conns -> Stages]
      <4>1. stage \in [Conns -> Stages]
        BY DEF IInv, Base, Types
      <4> QED
        BY <4>1 DEF Stages
    <3>3. object' \in [Conns -> Conns \cup {0}] /\ handle' \in [Conns -> Conns \cup {0}]
      BY <3>1 DEF IInv, Base, Types
    <3>4. scc' \in Structures
      BY DEF IInv, Base, Types, Structures
    <3> QED
      BY <3>2, <3>3, <3>4 DEF IInv, Base, Types
  <2>2. Places'
    BY DEF IInv, Base, Types, Places, Handlers, Threads, ListenerAt, OwnerAt, ListAt, GuiAt,
         Accepting, Ending, Leaving
  <2>3. StructureInv'
    BY DEF IInv, Base, Types, Places, StructureInv, ThreadsInv, Structures, Handlers, Threads,
         nSeverShutDownFlag, nShutDown, GuiAt, Leaving
  <2>4. ThreadsInv'
    BY DEF IInv, Base, Types, Places, StructureInv, ThreadsInv, Structures, Handlers, Threads,
         nSeverShutDownFlag, nShutDown, GuiAt, Leaving
  <2> QED
    BY <2>1, <2>2, <2>3, <2>4 DEF Base
<1>2. ASSUME patient
      PROVE  /\ WaitsInv'
             /\ stop' # "no" => ShutDownInv'
             /\ pc'["gui"] = "run" => RunsInv'
  <2> USE <1>2 DEF IInv, Base, Places
  <2>1. WaitsInv'
    BY DEF WaitsInv, Types, Handlers, Threads, ListenerAt, OwnerAt, GuiAt, Accepting, Ending,
         Leaving, Awake, Delay, nSeverShutDownFlag, nShutDown, ThreadsInv
  <2>2. stop' # "no" => ShutDownInv'
    BY DEF ShutDownInv, StructureInv, ThreadsInv, Told, WaitsInv, Types, Structures, Handlers,
         Threads, ListenerAt, OwnerAt, ListAt, GuiAt, Accepting, Ending, Leaving, Awake, Delay,
         HasMessage, nSeverShutDownFlag, nShutDown
  <2>3. pc'["gui"] = "run" => RunsInv'
    BY DEF RunsInv, Types, Structures, StructureInv, ThreadsInv, Handlers, Threads,
         nSeverShutDownFlag, nShutDown, GuiAt, Leaving, Awake, Delay, HasMessage, ListenerAt,
         OwnerAt, Accepting, Ending, Notified
  <2> QED
    BY <2>1, <2>2, <2>3
<1>3. ASSUME Calm' PROVE LastInv' /\ AcceptInv'
  <2> USE DEF IInv, Base, Places
  <2>1. Calm /\ LastInv /\ AcceptInv
    BY <1>3 DEF Calm, nShutDown, Types, Threads
  <2>2. patient /\ WaitsInv /\ (stop # "no" => ShutDownInv) /\ (pc["gui"] = "run" => RunsInv)
    BY <2>1 DEF Calm
  <2>3. LastInv'
    <3>1. made = 1 /\ stage[made] = "held" /\ hConn = made /\ scc.pSocket = made /\ made \in Conns
      BY <2>1 DEF AcceptInv, LastInv, Conns, Types
    <3>2. /\ stage' = [stage EXCEPT ![made] = "owner"] /\ object' = [object EXCEPT ![made] = made]
          /\ handle' = [handle EXCEPT ![made] = made]
      BY <3>1
    <3>3. /\ stage'[made] = "owner" /\ object'[made] = made /\ handle'[made] = made
          /\ \A c \in Conns : c # made => stage'[c] = stage[c] /\ handle'[c] = handle[c]
      BY <3>1, <3>2 DEF Types
    <3>4. scc'.pSocket = made /\ made' = made
      BY <3>1 DEF Types, Structures
    <3>5. \A t \in Handlers : pc'[t] \notin Ending
      <4>1. pc'["owner"] = "startList" /\ pc'["listener"] = pc["listener"]
        BY DEF Threads, Handlers
      <4>2. pc["listener"] \notin Ending
        BY <2>1, <3>1 DEF AcceptInv
      <4> QED
        BY <4>1, <4>2 DEF Handlers, Ending
    <3> QED
      BY <2>1, <3>1, <3>3, <3>4, <3>5 DEF LastInv, Handlers, Ending
  <2>4. AcceptInv'
    <3>1. made = 1 /\ stage[made] = "held" /\ hConn = made /\ made \in Conns
      BY <2>1 DEF AcceptInv, Conns, Types
    <3>2. stage'[1] = "owner" /\ made' = 1
      BY <3>1 DEF Types
    <3>3. /\ pc'["owner"] = "startList" /\ pc'["listener"] = pc["listener"]
          /\ pc'["gui"] = pc["gui"] /\ scc'.there = "yes" /\ quit' = quit /\ stop' = stop
      BY DEF Threads, Handlers, Types, Structures
    <3>4. pc["listener"] = "accepted"
      BY <2>2 DEF WaitsInv
    <3> QED
      BY <2>1, <3>1, <3>2, <3>3, <3>4 DEF AcceptInv, Ending
  <2> QED
    BY <2>3, <2>4
<1> QED
  BY <1>1, <1>2, <1>3 DEF IInv, Base, Calm, InitInstance, Fine

\* The list thread starts when the owner thread has made it.
LEMMA StartListKeeps ==
  ASSUME IInv, crashed = "no", StartList
  PROVE  IInv'
<1> USE DEF StartList, At, Goto, Fine, board, sockets, messages, control
<1>1. Base'
  <2>1. Types'
    BY DEF IInv, Base, Types, Structures, Stages, Handlers, Threads
  <2>2. Places'
    BY DEF IInv, Base, Types, Places, Handlers, Threads, ListenerAt, OwnerAt, ListAt, GuiAt,
         Accepting, Ending, Leaving
  <2>3. StructureInv'
    BY DEF IInv, Base, Types, Places, StructureInv, ThreadsInv, Structures, Handlers, Threads,
         nSeverShutDownFlag, nShutDown, GuiAt, Leaving
  <2>4. ThreadsInv'
    BY DEF IInv, Base, Types, Places, StructureInv, ThreadsInv, Structures, Handlers, Threads,
         nSeverShutDownFlag, nShutDown, GuiAt, Leaving
  <2> QED
    BY <2>1, <2>2, <2>3, <2>4 DEF Base
<1>2. ASSUME patient
      PROVE  /\ WaitsInv'
             /\ stop' # "no" => ShutDownInv'
             /\ pc'["gui"] = "run" => RunsInv'
  <2> USE <1>2 DEF IInv, Base, Places
  <2>1. WaitsInv'
    BY DEF WaitsInv, Types, Handlers, Threads, ListenerAt, OwnerAt, GuiAt, Accepting, Ending,
         Leaving, Awake, Delay, nSeverShutDownFlag, nShutDown, ThreadsInv
  <2>2. stop' # "no" => ShutDownInv'
    BY DEF ShutDownInv, StructureInv, ThreadsInv, Told, WaitsInv, Types, Structures, Handlers,
         Threads, ListenerAt, OwnerAt, ListAt, GuiAt, Accepting, Ending, Leaving, Awake, Delay,
         HasMessage, nSeverShutDownFlag, nShutDown
  <2>3. pc'["gui"] = "run" => RunsInv'
    BY DEF RunsInv, Types, Structures, StructureInv, ThreadsInv, Handlers, Threads,
         nSeverShutDownFlag, nShutDown, GuiAt, Leaving, Awake, Delay, HasMessage, ListenerAt,
         OwnerAt, Accepting, Ending, Notified
  <2> QED
    BY <2>1, <2>2, <2>3
<1>3. ASSUME Calm' PROVE LastInv' /\ AcceptInv'
  <2> USE DEF IInv, Base, Places
  <2>1. Calm /\ LastInv /\ AcceptInv
    BY <1>3 DEF Calm, nShutDown, Types, Threads
  <2>2. patient /\ WaitsInv /\ (stop # "no" => ShutDownInv) /\ (pc["gui"] = "run" => RunsInv)
    BY <2>1 DEF Calm
  <2>3. LastInv'
    BY <1>3, <2>1, <2>2 DEF LastInv, AcceptInv, WaitsInv, ShutDownInv, RunsInv, StructureInv,
         ThreadsInv, Handlers, Threads, Accepting, Ending, Leaving, ListenerAt, OwnerAt, GuiAt,
         Stages, Structures, Types, Conns, Calm, nShutDown, nSeverShutDownFlag
  <2>4. AcceptInv'
    BY ZenonT(40), <1>3, <2>1, <2>2 DEF LastInv, AcceptInv, WaitsInv, ShutDownInv, RunsInv, StructureInv,
         ThreadsInv, Handlers, Threads, Accepting, Ending, Leaving, ListenerAt, OwnerAt, GuiAt,
         Stages, Structures, Types, Conns, Calm, nShutDown, nSeverShutDownFlag
  <2> QED
    BY <2>3, <2>4
<1> QED
  BY <1>1, <1>2, <1>3 DEF IInv, Base, Calm, StartList, Fine

\* The owner thread is told to go only while its structure is there.
LEMMA KillServerSocketKeeps ==
  ASSUME IInv, crashed = "no", KillServerSocket
  PROVE  IInv'
<1> USE DEF KillServerSocket, At, Goto, Fine, board, sockets, messages, control, CloseHandles
<1>0. crashed' # "no" => IInv'
  <2> SUFFICES ASSUME crashed' # "no" PROVE IInv'
    OBVIOUS
  <2>1. Crash("owner")
    BY DEF Crash
  <2>2. ASSUME Calm PROVE FALSE
    <3>1. patient /\ StructureInv /\ AcceptInv
      BY <2>2 DEF IInv, Base, Calm
    <3>2. kill /\ pc["owner"] = "idle" /\ scc.there # "yes"
      OBVIOUS
    <3>3. pc["gui"] # "run"
      BY <3>1, <3>2 DEF IInv, RunsInv
    <3>4. scc.there = "deleted"
      BY <3>1, <3>2 DEF StructureInv, IInv, Base, Types, Structures
    <3>5. pc["gui"] \in {"delete", "done"}
      BY <3>1, <3>4 DEF StructureInv
    <3>6. ShutDownInv
      BY <3>1, <3>5 DEF IInv, AcceptInv
    <3> QED
      BY <3>2, <3>4, <3>5, <3>6 DEF ShutDownInv
  <2> QED
    BY <2>1, <2>2, CrashKeeps DEF Threads, Handlers
<1> SUFFICES ASSUME crashed' = "no" PROVE IInv'
  BY <1>0
<1> USE DEF Crash
<1>1. Base'
  <2>1. Types'
    <3>1. stage' \in [Conns -> Stages] /\ handle' \in [Conns -> Conns \cup {0}]
      BY DEF IInv, Base, Types, Stages
    <3>2. work' \in [Handlers -> Conns \cup {0}]
      BY DEF IInv, Base, Types, Structures, Handlers
    <3> QED
      BY <3>1, <3>2 DEF IInv, Base, Types
  <2>2. Places'
    BY DEF IInv, Base, Types, Places, Handlers, Threads, ListenerAt, OwnerAt, ListAt, GuiAt,
         Accepting, Ending, Leaving
  <2>3. StructureInv'
    BY DEF IInv, Base, Types, Places, StructureInv, ThreadsInv, Structures, Handlers, Threads,
         nSeverShutDownFlag, nShutDown, GuiAt, Leaving
  <2>4. ThreadsInv'
    BY DEF IInv, Base, Types, Places, StructureInv, ThreadsInv, Structures, Handlers, Threads,
         nSeverShutDownFlag, nShutDown, GuiAt, Leaving
  <2> QED
    BY <2>1, <2>2, <2>3, <2>4 DEF Base
<1>2. ASSUME patient
      PROVE  /\ WaitsInv'
             /\ stop' # "no" => ShutDownInv'
             /\ pc'["gui"] = "run" => RunsInv'
  <2> USE <1>2 DEF IInv, Base, Places
  <2>1. WaitsInv'
    BY DEF WaitsInv, Types, Handlers, Threads, ListenerAt, OwnerAt, GuiAt, Accepting, Ending,
         Leaving, Awake, Delay, nSeverShutDownFlag, nShutDown, ThreadsInv
  <2>2. stop' # "no" => ShutDownInv'
    BY DEF ShutDownInv, StructureInv, ThreadsInv, Told, WaitsInv, Types, Structures, Handlers,
         Threads, ListenerAt, OwnerAt, ListAt, GuiAt, Accepting, Ending, Leaving, Awake, Delay,
         HasMessage, nSeverShutDownFlag, nShutDown
  <2>3. pc'["gui"] = "run" => RunsInv'
    BY DEF RunsInv, Types, Structures, StructureInv, ThreadsInv, Handlers, Threads,
         nSeverShutDownFlag, nShutDown, GuiAt, Leaving, Awake, Delay, HasMessage, ListenerAt,
         OwnerAt, Accepting, Ending, Notified
  <2> QED
    BY <2>1, <2>2, <2>3
<1>3. ASSUME Calm' PROVE LastInv' /\ AcceptInv'
  <2> USE DEF IInv, Base, Places
  <2>1. Calm /\ LastInv /\ AcceptInv
    BY <1>3 DEF Calm, nShutDown, Types, Threads
  <2>2. patient /\ WaitsInv /\ (stop # "no" => ShutDownInv) /\ (pc["gui"] = "run" => RunsInv)
    BY <2>1 DEF Calm
  <2>3. LastInv'
    BY <1>3, <2>1, <2>2 DEF LastInv, AcceptInv, WaitsInv, ShutDownInv, RunsInv, StructureInv,
         ThreadsInv, Handlers, Threads, Accepting, Ending, Leaving, ListenerAt, OwnerAt, GuiAt,
         Stages, Structures, Types, Conns, Calm, nShutDown, nSeverShutDownFlag
  <2>4. AcceptInv'
    BY <1>3, <2>1, <2>2 DEF LastInv, AcceptInv, WaitsInv, ShutDownInv, RunsInv, StructureInv,
         ThreadsInv, Handlers, Threads, Accepting, Ending, Leaving, ListenerAt, OwnerAt, GuiAt,
         Stages, Structures, Types, Conns, Calm, nShutDown, nSeverShutDownFlag
  <2> QED
    BY <2>3, <2>4
<1> QED
  BY <1>1, <1>2, <1>3 DEF IInv, Base, Calm, KillServerSocket, Fine

\* Without a socket it tells itself to quit.
LEMMA KillServerSocketOwnerKeeps ==
  ASSUME IInv, crashed = "no", KillServerSocketOwner
  PROVE  IInv'
<1> USE DEF KillServerSocketOwner, At, Goto, Fine, board, sockets, messages, control
<1>1. Base'
  <2>1. Types'
    BY DEF IInv, Base, Types, Structures, Stages, Handlers, Threads
  <2>2. Places'
    BY DEF IInv, Base, Types, Places, Handlers, Threads, ListenerAt, OwnerAt, ListAt, GuiAt,
         Accepting, Ending, Leaving
  <2>3. StructureInv'
    BY DEF IInv, Base, Types, Places, StructureInv, ThreadsInv, Structures, Handlers, Threads,
         nSeverShutDownFlag, nShutDown, GuiAt, Leaving
  <2>4. ThreadsInv'
    BY DEF IInv, Base, Types, Places, StructureInv, ThreadsInv, Structures, Handlers, Threads,
         nSeverShutDownFlag, nShutDown, GuiAt, Leaving
  <2> QED
    BY <2>1, <2>2, <2>3, <2>4 DEF Base
<1>2. ASSUME patient
      PROVE  /\ WaitsInv'
             /\ stop' # "no" => ShutDownInv'
             /\ pc'["gui"] = "run" => RunsInv'
  <2> USE <1>2 DEF IInv, Base, Places
  <2>1. WaitsInv'
    BY DEF WaitsInv, Types, Handlers, Threads, ListenerAt, OwnerAt, GuiAt, Accepting, Ending,
         Leaving, Awake, Delay, nSeverShutDownFlag, nShutDown, ThreadsInv
  <2>2. stop' # "no" => ShutDownInv'
    BY DEF ShutDownInv, StructureInv, ThreadsInv, Told, WaitsInv, Types, Structures, Handlers,
         Threads, ListenerAt, OwnerAt, ListAt, GuiAt, Accepting, Ending, Leaving, Awake, Delay,
         HasMessage, nSeverShutDownFlag, nShutDown
  <2>3. pc'["gui"] = "run" => RunsInv'
    BY DEF RunsInv, Types, Structures, StructureInv, ThreadsInv, Handlers, Threads,
         nSeverShutDownFlag, nShutDown, GuiAt, Leaving, Awake, Delay, HasMessage, ListenerAt,
         OwnerAt, Accepting, Ending, Notified
  <2> QED
    BY <2>1, <2>2, <2>3
<1>3. ASSUME Calm' PROVE LastInv' /\ AcceptInv'
  <2> USE DEF IInv, Base, Places
  <2>1. Calm /\ LastInv /\ AcceptInv
    BY <1>3 DEF Calm, nShutDown, Types, Threads
  <2>2. patient /\ WaitsInv /\ (stop # "no" => ShutDownInv) /\ (pc["gui"] = "run" => RunsInv)
    BY <2>1 DEF Calm
  <2>3. LastInv'
    BY <1>3, <2>1, <2>2 DEF LastInv, AcceptInv, WaitsInv, ShutDownInv, RunsInv, StructureInv,
         ThreadsInv, Handlers, Threads, Accepting, Ending, Leaving, ListenerAt, OwnerAt, GuiAt,
         Stages, Structures, Types, Conns, Calm, nShutDown, nSeverShutDownFlag
  <2>4. AcceptInv'
    BY <1>3, <2>1, <2>2 DEF LastInv, AcceptInv, WaitsInv, ShutDownInv, RunsInv, StructureInv,
         ThreadsInv, Handlers, Threads, Accepting, Ending, Leaving, ListenerAt, OwnerAt, GuiAt,
         Stages, Structures, Types, Conns, Calm, nShutDown, nSeverShutDownFlag
  <2> QED
    BY <2>3, <2>4
<1> QED
  BY <1>1, <1>2, <1>3 DEF IInv, Base, Calm, KillServerSocketOwner, Fine

\* It leaves its loop when told to quit.
LEMMA OwnerQuitsKeeps ==
  ASSUME IInv, crashed = "no", OwnerQuits
  PROVE  IInv'
<1> USE DEF OwnerQuits, At, Goto, Fine, board, sockets, messages, control, Notified
<1>1. Base'
  <2>1. Types'
    BY DEF IInv, Base, Types, Structures, Stages, Handlers, Threads
  <2>2. Places'
    BY DEF IInv, Base, Types, Places, Handlers, Threads, ListenerAt, OwnerAt, ListAt, GuiAt,
         Accepting, Ending, Leaving
  <2>3. StructureInv'
    BY DEF IInv, Base, Types, Places, StructureInv, ThreadsInv, Structures, Handlers, Threads,
         nSeverShutDownFlag, nShutDown, GuiAt, Leaving
  <2>4. ThreadsInv'
    BY DEF IInv, Base, Types, Places, StructureInv, ThreadsInv, Structures, Handlers, Threads,
         nSeverShutDownFlag, nShutDown, GuiAt, Leaving
  <2> QED
    BY <2>1, <2>2, <2>3, <2>4 DEF Base
<1>2. ASSUME patient
      PROVE  /\ WaitsInv'
             /\ stop' # "no" => ShutDownInv'
             /\ pc'["gui"] = "run" => RunsInv'
  <2> USE <1>2 DEF IInv, Base, Places
  <2>1. WaitsInv'
    BY DEF WaitsInv, Types, Handlers, Threads, ListenerAt, OwnerAt, GuiAt, Accepting, Ending,
         Leaving, Awake, Delay, nSeverShutDownFlag, nShutDown, ThreadsInv
  <2>2. stop' # "no" => ShutDownInv'
    BY DEF ShutDownInv, StructureInv, ThreadsInv, Told, WaitsInv, Types, Structures, Handlers,
         Threads, ListenerAt, OwnerAt, ListAt, GuiAt, Accepting, Ending, Leaving, Awake, Delay,
         HasMessage, nSeverShutDownFlag, nShutDown
  <2>3. pc'["gui"] = "run" => RunsInv'
    BY DEF RunsInv, Types, Structures, StructureInv, ThreadsInv, Handlers, Threads,
         nSeverShutDownFlag, nShutDown, GuiAt, Leaving, Awake, Delay, HasMessage, ListenerAt,
         OwnerAt, Accepting, Ending, Notified
  <2> QED
    BY <2>1, <2>2, <2>3
<1>3. ASSUME Calm' PROVE LastInv' /\ AcceptInv'
  <2> USE DEF IInv, Base, Places
  <2>1. Calm /\ LastInv /\ AcceptInv
    BY <1>3 DEF Calm, nShutDown, Types, Threads
  <2>2. patient /\ WaitsInv /\ (stop # "no" => ShutDownInv) /\ (pc["gui"] = "run" => RunsInv)
    BY <2>1 DEF Calm
  <2>3. LastInv'
    BY <1>3, <2>1, <2>2 DEF LastInv, AcceptInv, WaitsInv, ShutDownInv, RunsInv, StructureInv,
         ThreadsInv, Handlers, Threads, Accepting, Ending, Leaving, ListenerAt, OwnerAt, GuiAt,
         Stages, Structures, Types, Conns, Calm, nShutDown, nSeverShutDownFlag
  <2>4. AcceptInv'
    BY <1>3, <2>1, <2>2 DEF LastInv, AcceptInv, WaitsInv, ShutDownInv, RunsInv, StructureInv,
         ThreadsInv, Handlers, Threads, Accepting, Ending, Leaving, ListenerAt, OwnerAt, GuiAt,
         Stages, Structures, Types, Conns, Calm, nShutDown, nSeverShutDownFlag
  <2> QED
    BY <2>3, <2>4
<1> QED
  BY <1>1, <1>2, <1>3 DEF IInv, Base, Calm, OwnerQuits, Fine

\* It goes only without a socket.
LEMMA ExitInstanceKeeps ==
  ASSUME IInv, crashed = "no", ExitInstance
  PROVE  IInv'
<1> USE DEF ExitInstance, At, Goto, Fine, board, sockets, messages, control, CloseHandles
<1>1. Base'
  <2>1. Types'
    <3>1. stage' \in [Conns -> Stages] /\ handle' \in [Conns -> Conns \cup {0}]
      BY DEF IInv, Base, Types, Stages
    <3>2. scc' \in Structures
      BY ZenonT(40) DEF IInv, Base, Types, Structures
    <3>3. work' \in [Handlers -> Conns \cup {0}]
      BY DEF IInv, Base, Types, Structures, Handlers
    <3> QED
      BY <3>1, <3>2, <3>3 DEF IInv, Base, Types
  <2>2. Places'
    BY DEF IInv, Base, Types, Places, Handlers, Threads, ListenerAt, OwnerAt, ListAt, GuiAt,
         Accepting, Ending, Leaving
  <2>3. StructureInv'
    <3>1. CASE scc.there = "yes" /\ scc.pSocket # 0
      BY <3>1 DEF IInv, Base, Types, Places, StructureInv, ThreadsInv, Structures, Handlers,
         Threads, nSeverShutDownFlag, nShutDown, GuiAt, Leaving
    <3>2. CASE scc.there = "yes" /\ scc.pSocket = 0
      <4>1. /\ scc'.there = "yes" /\ scc'.pSocket = 0 /\ scc'.pList = scc.pList
            /\ scc'.pOwner = FALSE /\ pc'["owner"] = "gone" /\ pc'["list"] = pc["list"]
        BY <3>2 DEF IInv, Base, Types, Structures, Places, Threads, Handlers
      <4>2. scc.pList <=> pc["list"] \notin {"none", "gone"}
        BY <3>2 DEF IInv, Base, StructureInv
      <4> QED
        BY <4>1, <4>2 DEF StructureInv
    <3>3. CASE scc.there # "yes"
      <4>1. /\ scc'.there = scc.there /\ scc'.pSocket = scc.pSocket
            /\ pc'["gui"] = pc["gui"]
        BY <3>3 DEF IInv, Base, Types, Structures, Places, Threads, Handlers
      <4> QED
        BY <3>3, <4>1 DEF IInv, Base, StructureInv
    <3> QED
      BY <3>1, <3>2, <3>3
  <2>4. ThreadsInv'
    BY DEF IInv, Base, Types, Places, StructureInv, ThreadsInv, Structures, Handlers, Threads,
         nSeverShutDownFlag, nShutDown, GuiAt, Leaving
  <2> QED
    BY <2>1, <2>2, <2>3, <2>4 DEF Base
<1>2. ASSUME patient
      PROVE  /\ WaitsInv'
             /\ stop' # "no" => ShutDownInv'
             /\ pc'["gui"] = "run" => RunsInv'
  <2> USE <1>2 DEF IInv, Base, Places
  <2>1. WaitsInv'
    BY DEF WaitsInv, Types, Handlers, Threads, ListenerAt, OwnerAt, GuiAt, Accepting, Ending,
         Leaving, Awake, Delay, nSeverShutDownFlag, nShutDown, ThreadsInv
  <2>2. stop' # "no" => ShutDownInv'
    BY DEF ShutDownInv, StructureInv, ThreadsInv, Told, WaitsInv, Types, Structures, Handlers,
         Threads, ListenerAt, OwnerAt, ListAt, GuiAt, Accepting, Ending, Leaving, Awake, Delay,
         HasMessage, nSeverShutDownFlag, nShutDown
  <2>3. pc'["gui"] = "run" => RunsInv'
    BY DEF RunsInv, Types, Structures, StructureInv, ThreadsInv, Handlers, Threads,
         nSeverShutDownFlag, nShutDown, GuiAt, Leaving, Awake, Delay, HasMessage, ListenerAt,
         OwnerAt, Accepting, Ending, Notified
  <2> QED
    BY <2>1, <2>2, <2>3
<1>3. ASSUME Calm' PROVE LastInv' /\ AcceptInv'
  <2> USE DEF IInv, Base, Places
  <2>1. Calm /\ LastInv /\ AcceptInv
    BY <1>3 DEF Calm, nShutDown, Types, Threads
  <2>2. patient /\ WaitsInv /\ (stop # "no" => ShutDownInv) /\ (pc["gui"] = "run" => RunsInv)
    BY <2>1 DEF Calm
  <2>3. LastInv'
    BY <1>3, <2>1, <2>2 DEF LastInv, AcceptInv, WaitsInv, ShutDownInv, RunsInv, StructureInv,
         ThreadsInv, Handlers, Threads, Accepting, Ending, Leaving, ListenerAt, OwnerAt, GuiAt,
         Stages, Structures, Types, Conns, Calm, nShutDown, nSeverShutDownFlag
  <2>4. AcceptInv'
    BY <1>3, <2>1, <2>2 DEF LastInv, AcceptInv, WaitsInv, ShutDownInv, RunsInv, StructureInv,
         ThreadsInv, Handlers, Threads, Accepting, Ending, Leaving, ListenerAt, OwnerAt, GuiAt,
         Stages, Structures, Types, Conns, Calm, nShutDown, nSeverShutDownFlag
  <2> QED
    BY <2>3, <2>4
<1> QED
  BY <1>1, <1>2, <1>3 DEF IInv, Base, Calm, ExitInstance, Fine

-----------------------------------------------------------------------------
(* The list thread.                                                        *)

\* The list thread takes packets.
LEMMA ProcessRcvListKeeps ==
  ASSUME IInv, crashed = "no", ProcessRcvList
  PROVE  IInv'
<1> USE DEF ProcessRcvList, At, Goto, Fine, board, sockets, messages, control
<1>0. crashed' # "no" => IInv'
  <2> SUFFICES ASSUME crashed' # "no" PROVE IInv'
    OBVIOUS
  <2>1. Crash("list")
    BY DEF Crash
  <2> QED
    BY <2>1, CrashKeeps DEF Threads, Handlers
<1> SUFFICES ASSUME crashed' = "no" PROVE IInv'
  BY <1>0
<1> USE DEF Crash
<1>1. Base'
  <2>1. Types'
    BY DEF IInv, Base, Types, Structures, Stages, Handlers, Threads
  <2>2. Places'
    BY DEF IInv, Base, Types, Places, Handlers, Threads, ListenerAt, OwnerAt, ListAt, GuiAt,
         Accepting, Ending, Leaving
  <2>3. StructureInv'
    BY DEF IInv, Base, Types, Places, StructureInv, ThreadsInv, Structures, Handlers, Threads,
         nSeverShutDownFlag, nShutDown, GuiAt, Leaving
  <2>4. ThreadsInv'
    BY DEF IInv, Base, Types, Places, StructureInv, ThreadsInv, Structures, Handlers, Threads,
         nSeverShutDownFlag, nShutDown, GuiAt, Leaving
  <2> QED
    BY <2>1, <2>2, <2>3, <2>4 DEF Base
<1>2. ASSUME patient
      PROVE  /\ WaitsInv'
             /\ stop' # "no" => ShutDownInv'
             /\ pc'["gui"] = "run" => RunsInv'
  <2> USE <1>2 DEF IInv, Base, Places
  <2>1. WaitsInv'
    BY DEF WaitsInv, Types, Handlers, Threads, ListenerAt, OwnerAt, GuiAt, Accepting, Ending,
         Leaving, Awake, Delay, nSeverShutDownFlag, nShutDown, ThreadsInv
  <2>2. stop' # "no" => ShutDownInv'
    BY DEF ShutDownInv, StructureInv, ThreadsInv, Told, WaitsInv, Types, Structures, Handlers,
         Threads, ListenerAt, OwnerAt, ListAt, GuiAt, Accepting, Ending, Leaving, Awake, Delay,
         HasMessage, nSeverShutDownFlag, nShutDown
  <2>3. pc'["gui"] = "run" => RunsInv'
    BY DEF RunsInv, Types, Structures, StructureInv, ThreadsInv, Handlers, Threads,
         nSeverShutDownFlag, nShutDown, GuiAt, Leaving, Awake, Delay, HasMessage, ListenerAt,
         OwnerAt, Accepting, Ending, Notified
  <2> QED
    BY <2>1, <2>2, <2>3
<1>3. ASSUME Calm' PROVE LastInv' /\ AcceptInv'
  <2> USE DEF IInv, Base, Places
  <2>1. Calm /\ LastInv /\ AcceptInv
    BY <1>3 DEF Calm, nShutDown, Types, Threads
  <2>2. patient /\ WaitsInv /\ (stop # "no" => ShutDownInv) /\ (pc["gui"] = "run" => RunsInv)
    BY <2>1 DEF Calm
  <2>3. LastInv'
    BY <1>3, <2>1, <2>2 DEF LastInv, AcceptInv, WaitsInv, ShutDownInv, RunsInv, StructureInv,
         ThreadsInv, Handlers, Threads, Accepting, Ending, Leaving, ListenerAt, OwnerAt, GuiAt,
         Stages, Structures, Types, Conns, Calm, nShutDown, nSeverShutDownFlag
  <2>4. AcceptInv'
    BY <1>3, <2>1, <2>2 DEF LastInv, AcceptInv, WaitsInv, ShutDownInv, RunsInv, StructureInv,
         ThreadsInv, Handlers, Threads, Accepting, Ending, Leaving, ListenerAt, OwnerAt, GuiAt,
         Stages, Structures, Types, Conns, Calm, nShutDown, nSeverShutDownFlag
  <2> QED
    BY <2>3, <2>4
<1> QED
  BY <1>1, <1>2, <1>3 DEF IInv, Base, Calm, ProcessRcvList, Fine

\* It goes on to use the socket it tested before.
LEMMA ProcessedKeeps ==
  ASSUME IInv, crashed = "no", Processed
  PROVE  IInv'
<1> USE DEF Processed, At, Goto, Fine, board, sockets, messages, control
<1>0. crashed' # "no" => IInv'
  <2> SUFFICES ASSUME crashed' # "no" PROVE IInv'
    OBVIOUS
  <2>1. Crash("list")
    BY DEF Crash
  <2> QED
    BY <2>1, CrashKeeps DEF Threads, Handlers
<1> SUFFICES ASSUME crashed' = "no" PROVE IInv'
  BY <1>0
<1> USE DEF Crash
<1>1. Base'
  <2>1. Types'
    BY DEF IInv, Base, Types, Structures, Stages, Handlers, Threads
  <2>2. Places'
    BY DEF IInv, Base, Types, Places, Handlers, Threads, ListenerAt, OwnerAt, ListAt, GuiAt,
         Accepting, Ending, Leaving
  <2>3. StructureInv'
    BY DEF IInv, Base, Types, Places, StructureInv, ThreadsInv, Structures, Handlers, Threads,
         nSeverShutDownFlag, nShutDown, GuiAt, Leaving
  <2>4. ThreadsInv'
    BY DEF IInv, Base, Types, Places, StructureInv, ThreadsInv, Structures, Handlers, Threads,
         nSeverShutDownFlag, nShutDown, GuiAt, Leaving
  <2> QED
    BY <2>1, <2>2, <2>3, <2>4 DEF Base
<1>2. ASSUME patient
      PROVE  /\ WaitsInv'
             /\ stop' # "no" => ShutDownInv'
             /\ pc'["gui"] = "run" => RunsInv'
  <2> USE <1>2 DEF IInv, Base, Places
  <2>1. WaitsInv'
    BY DEF WaitsInv, Types, Handlers, Threads, ListenerAt, OwnerAt, GuiAt, Accepting, Ending,
         Leaving, Awake, Delay, nSeverShutDownFlag, nShutDown, ThreadsInv
  <2>2. stop' # "no" => ShutDownInv'
    BY DEF ShutDownInv, StructureInv, ThreadsInv, Told, WaitsInv, Types, Structures, Handlers,
         Threads, ListenerAt, OwnerAt, ListAt, GuiAt, Accepting, Ending, Leaving, Awake, Delay,
         HasMessage, nSeverShutDownFlag, nShutDown
  <2>3. pc'["gui"] = "run" => RunsInv'
    BY ZenonT(40) DEF RunsInv, Types, Structures, StructureInv, ThreadsInv, Handlers, Threads,
         nSeverShutDownFlag, nShutDown, GuiAt, Leaving, Awake, Delay, HasMessage, ListenerAt,
         OwnerAt, Accepting, Ending, Notified
  <2> QED
    BY <2>1, <2>2, <2>3
<1>3. ASSUME Calm' PROVE LastInv' /\ AcceptInv'
  <2> USE DEF IInv, Base, Places
  <2>1. Calm /\ LastInv /\ AcceptInv
    BY <1>3 DEF Calm, nShutDown, Types, Threads
  <2>2. patient /\ WaitsInv /\ (stop # "no" => ShutDownInv) /\ (pc["gui"] = "run" => RunsInv)
    BY <2>1 DEF Calm
  <2>3. LastInv'
    BY <1>3, <2>1, <2>2 DEF LastInv, AcceptInv, WaitsInv, ShutDownInv, RunsInv, StructureInv,
         ThreadsInv, Handlers, Threads, Accepting, Ending, Leaving, ListenerAt, OwnerAt, GuiAt,
         Stages, Structures, Types, Conns, Calm, nShutDown, nSeverShutDownFlag
  <2>4. AcceptInv'
    BY <1>3, <2>1, <2>2 DEF LastInv, AcceptInv, WaitsInv, ShutDownInv, RunsInv, StructureInv,
         ThreadsInv, Handlers, Threads, Accepting, Ending, Leaving, ListenerAt, OwnerAt, GuiAt,
         Stages, Structures, Types, Conns, Calm, nShutDown, nSeverShutDownFlag
  <2> QED
    BY <2>3, <2>4
<1> QED
  BY <1>1, <1>2, <1>3 DEF IInv, Base, Calm, Processed, Fine

\* It goes when it has been told to.
LEMMA ListExitKeeps ==
  ASSUME IInv, crashed = "no", ListExit
  PROVE  IInv'
<1> USE DEF ListExit, At, Goto, Fine, board, sockets, messages, control
<1>0. crashed' # "no" => IInv'
  <2> SUFFICES ASSUME crashed' # "no" PROVE IInv'
    OBVIOUS
  <2>1. Crash("list")
    BY DEF Crash
  <2> QED
    BY <2>1, CrashKeeps DEF Threads, Handlers
<1> SUFFICES ASSUME crashed' = "no" PROVE IInv'
  BY <1>0
<1> USE DEF Crash
<1>1. Base'
  <2>1. Types'
    <3>1. scc' \in Structures
      BY DEF IInv, Base, Types, Structures
    <3> QED
      BY <3>1 DEF IInv, Base, Types
  <2>2. Places'
    BY DEF IInv, Base, Types, Places, Handlers, Threads, ListenerAt, OwnerAt, ListAt, GuiAt,
         Accepting, Ending, Leaving
  <2>3. StructureInv'
    BY DEF IInv, Base, Types, Places, StructureInv, ThreadsInv, Structures, Handlers, Threads,
         nSeverShutDownFlag, nShutDown, GuiAt, Leaving
  <2>4. ThreadsInv'
    BY DEF IInv, Base, Types, Places, StructureInv, ThreadsInv, Structures, Handlers, Threads,
         nSeverShutDownFlag, nShutDown, GuiAt, Leaving
  <2> QED
    BY <2>1, <2>2, <2>3, <2>4 DEF Base
<1>2. ASSUME patient
      PROVE  /\ WaitsInv'
             /\ stop' # "no" => ShutDownInv'
             /\ pc'["gui"] = "run" => RunsInv'
  <2> USE <1>2 DEF IInv, Base, Places
  <2>1. WaitsInv'
    BY DEF WaitsInv, Types, Handlers, Threads, ListenerAt, OwnerAt, GuiAt, Accepting, Ending,
         Leaving, Awake, Delay, nSeverShutDownFlag, nShutDown, ThreadsInv
  <2>2. stop' # "no" => ShutDownInv'
    BY DEF ShutDownInv, StructureInv, ThreadsInv, Told, WaitsInv, Types, Structures, Handlers,
         Threads, ListenerAt, OwnerAt, ListAt, GuiAt, Accepting, Ending, Leaving, Awake, Delay,
         HasMessage, nSeverShutDownFlag, nShutDown
  <2>3. pc'["gui"] = "run" => RunsInv'
    BY DEF RunsInv, Types, Structures, StructureInv, ThreadsInv, Handlers, Threads,
         nSeverShutDownFlag, nShutDown, GuiAt, Leaving, Awake, Delay, HasMessage, ListenerAt,
         OwnerAt, Accepting, Ending, Notified
  <2> QED
    BY <2>1, <2>2, <2>3
<1>3. ASSUME Calm' PROVE LastInv' /\ AcceptInv'
  <2> USE DEF IInv, Base, Places
  <2>1. Calm /\ LastInv /\ AcceptInv
    BY <1>3 DEF Calm, nShutDown, Types, Threads
  <2>2. patient /\ WaitsInv /\ (stop # "no" => ShutDownInv) /\ (pc["gui"] = "run" => RunsInv)
    BY <2>1 DEF Calm
  <2>3. LastInv'
    BY <1>3, <2>1, <2>2 DEF LastInv, AcceptInv, WaitsInv, ShutDownInv, RunsInv, StructureInv,
         ThreadsInv, Handlers, Threads, Accepting, Ending, Leaving, ListenerAt, OwnerAt, GuiAt,
         Stages, Structures, Types, Conns, Calm, nShutDown, nSeverShutDownFlag
  <2>4. AcceptInv'
    BY <1>3, <2>1, <2>2 DEF LastInv, AcceptInv, WaitsInv, ShutDownInv, RunsInv, StructureInv,
         ThreadsInv, Handlers, Threads, Accepting, Ending, Leaving, ListenerAt, OwnerAt, GuiAt,
         Stages, Structures, Types, Conns, Calm, nShutDown, nSeverShutDownFlag
  <2> QED
    BY <2>3, <2>4
<1> QED
  BY <1>1, <1>2, <1>3 DEF IInv, Base, Calm, ListExit, Fine

-----------------------------------------------------------------------------
(* The GUI thread.                                                         *)

\* The shut-down starts.
LEMMA PressShutdownKeeps ==
  ASSUME IInv, crashed = "no", PressShutdown
  PROVE  IInv'
<1> USE DEF PressShutdown, At, Goto, Fine, board, sockets, messages, control, Gui
<1>1. Base'
  <2>1. Types'
    BY DEF IInv, Base, Types, Structures, Stages, Handlers, Threads
  <2>2. Places'
    BY DEF IInv, Base, Types, Places, Handlers, Threads, ListenerAt, OwnerAt, ListAt, GuiAt,
         Accepting, Ending, Leaving
  <2>3. StructureInv'
    BY DEF IInv, Base, Types, Places, StructureInv, ThreadsInv, Structures, Handlers, Threads,
         nSeverShutDownFlag, nShutDown, GuiAt, Leaving
  <2>4. ThreadsInv'
    BY DEF IInv, Base, Types, Places, StructureInv, ThreadsInv, Structures, Handlers, Threads,
         nSeverShutDownFlag, nShutDown, GuiAt, Leaving
  <2> QED
    BY <2>1, <2>2, <2>3, <2>4 DEF Base
<1>2. ASSUME patient
      PROVE  /\ WaitsInv'
             /\ stop' # "no" => ShutDownInv'
             /\ pc'["gui"] = "run" => RunsInv'
  <2> USE <1>2 DEF IInv, Base, Places
  <2>1. WaitsInv'
    BY DEF WaitsInv, Types, Handlers, Threads, ListenerAt, OwnerAt, GuiAt, Accepting, Ending,
         Leaving, Awake, Delay, nSeverShutDownFlag, nShutDown, ThreadsInv
  <2>2. stop' # "no" => ShutDownInv'
    BY DEF ShutDownInv, StructureInv, ThreadsInv, Told, WaitsInv, Types, Structures, Handlers,
         Threads, ListenerAt, OwnerAt, ListAt, GuiAt, Accepting, Ending, Leaving, Awake, Delay,
         HasMessage, nSeverShutDownFlag, nShutDown
  <2>3. pc'["gui"] = "run" => RunsInv'
    BY DEF RunsInv, Types, Structures, StructureInv, ThreadsInv, Handlers, Threads,
         nSeverShutDownFlag, nShutDown, GuiAt, Leaving, Awake, Delay, HasMessage, ListenerAt,
         OwnerAt, Accepting, Ending, Notified
  <2> QED
    BY <2>1, <2>2, <2>3
<1>3. ASSUME Calm' PROVE LastInv' /\ AcceptInv'
  <2> USE DEF IInv, Base, Places
  <2>1. Calm /\ LastInv /\ AcceptInv
    BY <1>3 DEF Calm, nShutDown, Types, Threads
  <2>2. patient /\ WaitsInv /\ (stop # "no" => ShutDownInv) /\ (pc["gui"] = "run" => RunsInv)
    BY <2>1 DEF Calm
  <2>3. LastInv'
    BY <1>3, <2>1, <2>2 DEF LastInv, AcceptInv, WaitsInv, ShutDownInv, RunsInv, StructureInv,
         ThreadsInv, Handlers, Threads, Accepting, Ending, Leaving, ListenerAt, OwnerAt, GuiAt,
         Stages, Structures, Types, Conns, Calm, nShutDown, nSeverShutDownFlag
  <2>4. AcceptInv'
    BY <1>3, <2>1, <2>2 DEF LastInv, AcceptInv, WaitsInv, ShutDownInv, RunsInv, StructureInv,
         ThreadsInv, Handlers, Threads, Accepting, Ending, Leaving, ListenerAt, OwnerAt, GuiAt,
         Stages, Structures, Types, Conns, Calm, nShutDown, nSeverShutDownFlag
  <2> QED
    BY <2>3, <2>4
<1> QED
  BY <1>1, <1>2, <1>3 DEF IInv, Base, Calm, PressShutdown, Fine, Gui

\* In a calm run there is a listener thread to stop.
LEMMA ServerShutDownKeeps ==
  ASSUME IInv, crashed = "no", ServerShutDown
  PROVE  IInv'
<1> USE DEF ServerShutDown, At, Goto, Fine, board, sockets, messages, control, Gui
<1>1. Base'
  <2>1. Types'
    BY DEF IInv, Base, Types, Structures, Stages, Handlers, Threads
  <2>2. Places'
    BY DEF IInv, Base, Types, Places, Handlers, Threads, ListenerAt, OwnerAt, ListAt, GuiAt,
         Accepting, Ending, Leaving
  <2>3. StructureInv'
    BY DEF IInv, Base, Types, Places, StructureInv, ThreadsInv, Structures, Handlers, Threads,
         nSeverShutDownFlag, nShutDown, GuiAt, Leaving
  <2>4. ThreadsInv'
    BY DEF IInv, Base, Types, Places, StructureInv, ThreadsInv, Structures, Handlers, Threads,
         nSeverShutDownFlag, nShutDown, GuiAt, Leaving
  <2> QED
    BY <2>1, <2>2, <2>3, <2>4 DEF Base
<1>2. ASSUME patient
      PROVE  /\ WaitsInv'
             /\ stop' # "no" => ShutDownInv'
             /\ pc'["gui"] = "run" => RunsInv'
  <2> USE <1>2 DEF IInv, Base, Places
  <2>1. WaitsInv'
    BY DEF WaitsInv, Types, Handlers, Threads, ListenerAt, OwnerAt, GuiAt, Accepting, Ending,
         Leaving, Awake, Delay, nSeverShutDownFlag, nShutDown, ThreadsInv
  <2>2. stop' # "no" => ShutDownInv'
    BY ZenonT(40) DEF ShutDownInv, StructureInv, ThreadsInv, Told, WaitsInv, Types, Structures, Handlers,
         Threads, ListenerAt, OwnerAt, ListAt, GuiAt, Accepting, Ending, Leaving, Awake, Delay,
         HasMessage, nSeverShutDownFlag, nShutDown
  <2>3. pc'["gui"] = "run" => RunsInv'
    BY DEF RunsInv, Types, Structures, StructureInv, ThreadsInv, Handlers, Threads,
         nSeverShutDownFlag, nShutDown, GuiAt, Leaving, Awake, Delay, HasMessage, ListenerAt,
         OwnerAt, Accepting, Ending, Notified
  <2> QED
    BY <2>1, <2>2, <2>3
<1>3. ASSUME Calm' PROVE LastInv' /\ AcceptInv'
  <2> USE DEF IInv, Base, Places
  <2>1. Calm /\ LastInv /\ AcceptInv
    BY <1>3 DEF Calm, nShutDown, Types, Threads
  <2>2. patient /\ WaitsInv /\ (stop # "no" => ShutDownInv) /\ (pc["gui"] = "run" => RunsInv)
    BY <2>1 DEF Calm
  <2>3. LastInv'
    BY <1>3, <2>1, <2>2 DEF LastInv, AcceptInv, WaitsInv, ShutDownInv, RunsInv, StructureInv,
         ThreadsInv, Handlers, Threads, Accepting, Ending, Leaving, ListenerAt, OwnerAt, GuiAt,
         Stages, Structures, Types, Conns, Calm, nShutDown, nSeverShutDownFlag
  <2>4. AcceptInv'
    BY <1>3, <2>1, <2>2 DEF LastInv, AcceptInv, WaitsInv, ShutDownInv, RunsInv, StructureInv,
         ThreadsInv, Handlers, Threads, Accepting, Ending, Leaving, ListenerAt, OwnerAt, GuiAt,
         Stages, Structures, Types, Conns, Calm, nShutDown, nSeverShutDownFlag
  <2> QED
    BY <2>3, <2>4
<1> QED
  BY <1>1, <1>2, <1>3 DEF IInv, Base, Calm, ServerShutDown, Fine, Gui

\* The listener thread is past its accept now, so the owner thread runs and gets its message.
LEMMA GuiKillServerSocketKeeps ==
  ASSUME IInv, crashed = "no", GuiKillServerSocket
  PROVE  IInv'
<1> USE DEF GuiKillServerSocket, At, Goto, Fine, board, sockets, messages, control, Gui
<1>0. /\ pc["gui"] = "waitListener" /\ pc'["gui"] \in {"delete", "sleep", "waitSocket"}
      /\ pc' = [pc EXCEPT !["gui"] = pc'["gui"]]
      /\ \A t \in Threads \ {"gui"} : pc'[t] = pc[t]
      /\ UNCHANGED <<patient, crashed, made, left, stage, object, alive, handle, hConn, scc,
                     work, exiting, stop, packets, quit>>
      /\ pc'["gui"] = "delete" => scc.there = "no"
      /\ pc'["gui"] = "sleep" => scc.there = "yes" /\ ~scc.pOwner
      /\ pc'["gui"] = "waitSocket" => scc.there = "yes" /\ scc.pOwner
      /\ kill' \in BOOLEAN
      /\ pc'["gui"] = "waitSocket" /\ pc["owner"] \notin {"suspended", "starting"} => kill'
  <2>1. pc \in [Threads -> ListenerAt \cup OwnerAt \cup ListAt \cup GuiAt] /\ kill \in BOOLEAN
    BY DEF IInv, Base, Places, Types
  <2>2. CASE scc.there = "no" /\ Gui("waitListener", "delete") /\ UNCHANGED messages
    BY <2>1, <2>2 DEF Threads
  <2>3. CASE scc.there = "yes" /\ ~scc.pOwner /\ Gui("waitListener", "sleep") /\ UNCHANGED messages
    BY <2>1, <2>3 DEF Threads
  <2>4. CASE /\ scc.there = "yes" /\ scc.pOwner /\ Gui("waitListener", "waitSocket")
             /\ kill' \in IF pc["owner"] \in {"suspended", "starting"} THEN BOOLEAN ELSE {TRUE}
             /\ UNCHANGED <<stop, packets, quit>>
    <3>1. kill' \in BOOLEAN /\ (pc["owner"] \notin {"suspended", "starting"} => kill')
      BY <2>4
    <3> QED
      BY <2>1, <2>4, <3>1 DEF Threads
  <2> QED
    BY <2>2, <2>3, <2>4
<1>9. patient => pc["listener"] \notin Accepting
  <2> SUFFICES ASSUME patient, pc["listener"] # "gone" PROVE pc["listener"] \notin Accepting
    BY DEF Accepting
  <2>1. Delay("gui") = 2
    BY <1>0 DEF Delay
  <2>2. Delay("listener") >= 2
    BY <2>1 DEF Awake, Threads, Handlers
  <2> QED
    BY <2>2 DEF Delay, Accepting
<1> HIDE DEF GuiKillServerSocket
<1>1. Base'
  <2>1. Types'
    BY <1>0 DEF IInv, Base, Types
  <2>2. Places'
    BY <1>0 DEF IInv, Base, Places, Threads, Handlers, GuiAt, Leaving
  <2>3. StructureInv'
    <3>1. StructureInv
      BY DEF IInv, Base
    <3> QED
      BY <1>0, <3>1 DEF StructureInv, Threads, Handlers
  <2>4. ThreadsInv'
    <3>1. ThreadsInv
      BY DEF IInv, Base
    <3> QED
      BY <1>0, <3>1 DEF ThreadsInv, Threads, Handlers
  <2> QED
    BY <2>1, <2>2, <2>3, <2>4 DEF Base
<1>2. ASSUME patient
      PROVE  /\ WaitsInv'
             /\ stop' # "no" => ShutDownInv'
             /\ pc'["gui"] = "run" => RunsInv'
  <2> USE <1>2 DEF IInv, Base, Places
  <2>1. WaitsInv'
    BY <1>0, <1>9 DEF WaitsInv, Threads, Handlers
  <2>2. stop' # "no" => ShutDownInv'
    <3>1. pc["owner"] \notin {"suspended", "starting"}
      BY <1>9 DEF ThreadsInv, WaitsInv, Accepting
    <3>2. pc'["gui"] \in {"sleep", "waitSocket"} => scc.pList
      <4>1. pc["list"] # "gone"
        BY <1>0 DEF ThreadsInv
      <4> QED
        BY <1>0, <3>1, <4>1 DEF StructureInv, ThreadsInv
    <3> QED
      BY <1>0, <3>1, <3>2 DEF ShutDownInv, Leaving, Told
  <2>3. pc'["gui"] = "run" => RunsInv'
    BY <1>0
  <2> QED
    BY <2>1, <2>2, <2>3
<1>3. ASSUME Calm' PROVE LastInv' /\ AcceptInv'
  <2> USE DEF IInv, Base, Places
  <2>1. Calm /\ LastInv /\ AcceptInv
    BY <1>0, <1>3 DEF Calm, nShutDown
  <2>2. patient /\ WaitsInv /\ (stop # "no" => ShutDownInv) /\ (pc["gui"] = "run" => RunsInv)
    BY <2>1 DEF Calm
  <2>3. LastInv'
    BY <1>0, <2>1 DEF LastInv, Threads, Handlers
  <2>4. AcceptInv'
    BY <1>0, <2>1 DEF AcceptInv, Threads, Handlers, ThreadsInv
  <2> QED
    BY <2>3, <2>4
<1> QED
  BY <1>0, <1>1, <1>2, <1>3 DEF IInv, Base, Calm

\* The wait for the structure to go does nothing.
LEMMA SocketWaitedKeeps ==
  ASSUME IInv, crashed = "no", SocketWaited
  PROVE  IInv'
<1> USE DEF SocketWaited, At, Goto, Fine, board, sockets, messages, control, Gui
<1>1. Base'
  <2>1. Types'
    BY DEF IInv, Base, Types, Structures, Stages, Handlers, Threads
  <2>2. Places'
    BY DEF IInv, Base, Types, Places, Handlers, Threads, ListenerAt, OwnerAt, ListAt, GuiAt,
         Accepting, Ending, Leaving
  <2>3. StructureInv'
    BY DEF IInv, Base, Types, Places, StructureInv, ThreadsInv, Structures, Handlers, Threads,
         nSeverShutDownFlag, nShutDown, GuiAt, Leaving
  <2>4. ThreadsInv'
    BY DEF IInv, Base, Types, Places, StructureInv, ThreadsInv, Structures, Handlers, Threads,
         nSeverShutDownFlag, nShutDown, GuiAt, Leaving
  <2> QED
    BY <2>1, <2>2, <2>3, <2>4 DEF Base
<1>2. ASSUME patient
      PROVE  /\ WaitsInv'
             /\ stop' # "no" => ShutDownInv'
             /\ pc'["gui"] = "run" => RunsInv'
  <2> USE <1>2 DEF IInv, Base, Places
  <2>1. WaitsInv'
    BY DEF WaitsInv, Types, Handlers, Threads, ListenerAt, OwnerAt, GuiAt, Accepting, Ending,
         Leaving, Awake, Delay, nSeverShutDownFlag, nShutDown, ThreadsInv
  <2>2. stop' # "no" => ShutDownInv'
    BY DEF ShutDownInv, StructureInv, ThreadsInv, Told, WaitsInv, Types, Structures, Handlers,
         Threads, ListenerAt, OwnerAt, ListAt, GuiAt, Accepting, Ending, Leaving, Awake, Delay,
         HasMessage, nSeverShutDownFlag, nShutDown
  <2>3. pc'["gui"] = "run" => RunsInv'
    BY DEF RunsInv, Types, Structures, StructureInv, ThreadsInv, Handlers, Threads,
         nSeverShutDownFlag, nShutDown, GuiAt, Leaving, Awake, Delay, HasMessage, ListenerAt,
         OwnerAt, Accepting, Ending, Notified
  <2> QED
    BY <2>1, <2>2, <2>3
<1>3. ASSUME Calm' PROVE LastInv' /\ AcceptInv'
  <2> USE DEF IInv, Base, Places
  <2>1. Calm /\ LastInv /\ AcceptInv
    BY <1>3 DEF Calm, nShutDown, Types, Threads
  <2>2. patient /\ WaitsInv /\ (stop # "no" => ShutDownInv) /\ (pc["gui"] = "run" => RunsInv)
    BY <2>1 DEF Calm
  <2>3. LastInv'
    BY <1>3, <2>1, <2>2 DEF LastInv, AcceptInv, WaitsInv, ShutDownInv, RunsInv, StructureInv,
         ThreadsInv, Handlers, Threads, Accepting, Ending, Leaving, ListenerAt, OwnerAt, GuiAt,
         Stages, Structures, Types, Conns, Calm, nShutDown, nSeverShutDownFlag
  <2>4. AcceptInv'
    BY <1>3, <2>1, <2>2 DEF LastInv, AcceptInv, WaitsInv, ShutDownInv, RunsInv, StructureInv,
         ThreadsInv, Handlers, Threads, Accepting, Ending, Leaving, ListenerAt, OwnerAt, GuiAt,
         Stages, Structures, Types, Conns, Calm, nShutDown, nSeverShutDownFlag
  <2> QED
    BY <2>3, <2>4
<1> QED
  BY <1>1, <1>2, <1>3 DEF IInv, Base, Calm, SocketWaited, Fine, Gui

\* There is a list thread to wait for.
LEMMA KillServerRcvListThreadKeeps ==
  ASSUME IInv, crashed = "no", KillServerRcvListThread
  PROVE  IInv'
<1> USE DEF KillServerRcvListThread, At, Goto, Fine, board, sockets, messages, control, Gui
<1>1. Base'
  <2>1. Types'
    BY DEF IInv, Base, Types, Structures, Stages, Handlers, Threads
  <2>2. Places'
    BY DEF IInv, Base, Types, Places, Handlers, Threads, ListenerAt, OwnerAt, ListAt, GuiAt,
         Accepting, Ending, Leaving
  <2>3. StructureInv'
    BY DEF IInv, Base, Types, Places, StructureInv, ThreadsInv, Structures, Handlers, Threads,
         nSeverShutDownFlag, nShutDown, GuiAt, Leaving
  <2>4. ThreadsInv'
    BY DEF IInv, Base, Types, Places, StructureInv, ThreadsInv, Structures, Handlers, Threads,
         nSeverShutDownFlag, nShutDown, GuiAt, Leaving
  <2> QED
    BY <2>1, <2>2, <2>3, <2>4 DEF Base
<1>2. ASSUME patient
      PROVE  /\ WaitsInv'
             /\ stop' # "no" => ShutDownInv'
             /\ pc'["gui"] = "run" => RunsInv'
  <2> USE <1>2 DEF IInv, Base, Places
  <2>1. WaitsInv'
    BY DEF WaitsInv, Types, Handlers, Threads, ListenerAt, OwnerAt, GuiAt, Accepting, Ending,
         Leaving, Awake, Delay, nSeverShutDownFlag, nShutDown, ThreadsInv
  <2>2. stop' # "no" => ShutDownInv'
    BY DEF ShutDownInv, StructureInv, ThreadsInv, Told, WaitsInv, Types, Structures, Handlers,
         Threads, ListenerAt, OwnerAt, ListAt, GuiAt, Accepting, Ending, Leaving, Awake, Delay,
         HasMessage, nSeverShutDownFlag, nShutDown
  <2>3. pc'["gui"] = "run" => RunsInv'
    BY DEF RunsInv, Types, Structures, StructureInv, ThreadsInv, Handlers, Threads,
         nSeverShutDownFlag, nShutDown, GuiAt, Leaving, Awake, Delay, HasMessage, ListenerAt,
         OwnerAt, Accepting, Ending, Notified
  <2> QED
    BY <2>1, <2>2, <2>3
<1>3. ASSUME Calm' PROVE LastInv' /\ AcceptInv'
  <2> USE DEF IInv, Base, Places
  <2>1. Calm /\ LastInv /\ AcceptInv
    BY <1>3 DEF Calm, nShutDown, Types, Threads
  <2>2. patient /\ WaitsInv /\ (stop # "no" => ShutDownInv) /\ (pc["gui"] = "run" => RunsInv)
    BY <2>1 DEF Calm
  <2>3. LastInv'
    BY <1>3, <2>1, <2>2 DEF LastInv, AcceptInv, WaitsInv, ShutDownInv, RunsInv, StructureInv,
         ThreadsInv, Handlers, Threads, Accepting, Ending, Leaving, ListenerAt, OwnerAt, GuiAt,
         Stages, Structures, Types, Conns, Calm, nShutDown, nSeverShutDownFlag
  <2>4. AcceptInv'
    BY <1>3, <2>1, <2>2 DEF LastInv, AcceptInv, WaitsInv, ShutDownInv, RunsInv, StructureInv,
         ThreadsInv, Handlers, Threads, Accepting, Ending, Leaving, ListenerAt, OwnerAt, GuiAt,
         Stages, Structures, Types, Conns, Calm, nShutDown, nSeverShutDownFlag
  <2> QED
    BY <2>3, <2>4
<1> QED
  BY <1>1, <1>2, <1>3 DEF IInv, Base, Calm, KillServerRcvListThread, Fine, Gui

\* The owner thread is gone: the list thread is told to quit.
LEMMA OwnerWaitedKeeps ==
  ASSUME IInv, crashed = "no", OwnerWaited
  PROVE  IInv'
<1> USE DEF OwnerWaited, At, Goto, Fine, board, sockets, messages, control, Gui
<1>1. Base'
  <2>1. Types'
    BY DEF IInv, Base, Types, Structures, Stages, Handlers, Threads
  <2>2. Places'
    BY DEF IInv, Base, Types, Places, Handlers, Threads, ListenerAt, OwnerAt, ListAt, GuiAt,
         Accepting, Ending, Leaving
  <2>3. StructureInv'
    BY DEF IInv, Base, Types, Places, StructureInv, ThreadsInv, Structures, Handlers, Threads,
         nSeverShutDownFlag, nShutDown, GuiAt, Leaving
  <2>4. ThreadsInv'
    BY DEF IInv, Base, Types, Places, StructureInv, ThreadsInv, Structures, Handlers, Threads,
         nSeverShutDownFlag, nShutDown, GuiAt, Leaving
  <2> QED
    BY <2>1, <2>2, <2>3, <2>4 DEF Base
<1>2. ASSUME patient
      PROVE  /\ WaitsInv'
             /\ stop' # "no" => ShutDownInv'
             /\ pc'["gui"] = "run" => RunsInv'
  <2> USE <1>2 DEF IInv, Base, Places
  <2>1. WaitsInv'
    BY DEF WaitsInv, Types, Handlers, Threads, ListenerAt, OwnerAt, GuiAt, Accepting, Ending,
         Leaving, Awake, Delay, nSeverShutDownFlag, nShutDown, ThreadsInv
  <2>2. stop' # "no" => ShutDownInv'
    BY DEF ShutDownInv, StructureInv, ThreadsInv, Told, WaitsInv, Types, Structures, Handlers,
         Threads, ListenerAt, OwnerAt, ListAt, GuiAt, Accepting, Ending, Leaving, Awake, Delay,
         HasMessage, nSeverShutDownFlag, nShutDown
  <2>3. pc'["gui"] = "run" => RunsInv'
    BY DEF RunsInv, Types, Structures, StructureInv, ThreadsInv, Handlers, Threads,
         nSeverShutDownFlag, nShutDown, GuiAt, Leaving, Awake, Delay, HasMessage, ListenerAt,
         OwnerAt, Accepting, Ending, Notified
  <2> QED
    BY <2>1, <2>2, <2>3
<1>3. ASSUME Calm' PROVE LastInv' /\ AcceptInv'
  <2> USE DEF IInv, Base, Places
  <2>1. Calm /\ LastInv /\ AcceptInv
    BY <1>3 DEF Calm, nShutDown, Types, Threads
  <2>2. patient /\ WaitsInv /\ (stop # "no" => ShutDownInv) /\ (pc["gui"] = "run" => RunsInv)
    BY <2>1 DEF Calm
  <2>3. LastInv'
    BY <1>3, <2>1, <2>2 DEF LastInv, AcceptInv, WaitsInv, ShutDownInv, RunsInv, StructureInv,
         ThreadsInv, Handlers, Threads, Accepting, Ending, Leaving, ListenerAt, OwnerAt, GuiAt,
         Stages, Structures, Types, Conns, Calm, nShutDown, nSeverShutDownFlag
  <2>4. AcceptInv'
    BY <1>3, <2>1, <2>2 DEF LastInv, AcceptInv, WaitsInv, ShutDownInv, RunsInv, StructureInv,
         ThreadsInv, Handlers, Threads, Accepting, Ending, Leaving, ListenerAt, OwnerAt, GuiAt,
         Stages, Structures, Types, Conns, Calm, nShutDown, nSeverShutDownFlag
  <2> QED
    BY <2>3, <2>4
<1> QED
  BY <1>1, <1>2, <1>3 DEF IInv, Base, Calm, OwnerWaited, Fine, Gui

\* The list thread is gone too.
LEMMA ListWaitedKeeps ==
  ASSUME IInv, crashed = "no", ListWaited
  PROVE  IInv'
<1> USE DEF ListWaited, At, Goto, Fine, board, sockets, messages, control, Gui
<1>1. Base'
  <2>1. Types'
    BY DEF IInv, Base, Types, Structures, Stages, Handlers, Threads
  <2>2. Places'
    BY DEF IInv, Base, Types, Places, Handlers, Threads, ListenerAt, OwnerAt, ListAt, GuiAt,
         Accepting, Ending, Leaving
  <2>3. StructureInv'
    BY DEF IInv, Base, Types, Places, StructureInv, ThreadsInv, Structures, Handlers, Threads,
         nSeverShutDownFlag, nShutDown, GuiAt, Leaving
  <2>4. ThreadsInv'
    BY DEF IInv, Base, Types, Places, StructureInv, ThreadsInv, Structures, Handlers, Threads,
         nSeverShutDownFlag, nShutDown, GuiAt, Leaving
  <2> QED
    BY <2>1, <2>2, <2>3, <2>4 DEF Base
<1>2. ASSUME patient
      PROVE  /\ WaitsInv'
             /\ stop' # "no" => ShutDownInv'
             /\ pc'["gui"] = "run" => RunsInv'
  <2> USE <1>2 DEF IInv, Base, Places
  <2>1. WaitsInv'
    BY DEF WaitsInv, Types, Handlers, Threads, ListenerAt, OwnerAt, GuiAt, Accepting, Ending,
         Leaving, Awake, Delay, nSeverShutDownFlag, nShutDown, ThreadsInv
  <2>2. stop' # "no" => ShutDownInv'
    BY DEF ShutDownInv, StructureInv, ThreadsInv, Told, WaitsInv, Types, Structures, Handlers,
         Threads, ListenerAt, OwnerAt, ListAt, GuiAt, Accepting, Ending, Leaving, Awake, Delay,
         HasMessage, nSeverShutDownFlag, nShutDown
  <2>3. pc'["gui"] = "run" => RunsInv'
    BY DEF RunsInv, Types, Structures, StructureInv, ThreadsInv, Handlers, Threads,
         nSeverShutDownFlag, nShutDown, GuiAt, Leaving, Awake, Delay, HasMessage, ListenerAt,
         OwnerAt, Accepting, Ending, Notified
  <2> QED
    BY <2>1, <2>2, <2>3
<1>3. ASSUME Calm' PROVE LastInv' /\ AcceptInv'
  <2> USE DEF IInv, Base, Places
  <2>1. Calm /\ LastInv /\ AcceptInv
    BY <1>3 DEF Calm, nShutDown, Types, Threads
  <2>2. patient /\ WaitsInv /\ (stop # "no" => ShutDownInv) /\ (pc["gui"] = "run" => RunsInv)
    BY <2>1 DEF Calm
  <2>3. LastInv'
    BY <1>3, <2>1, <2>2 DEF LastInv, AcceptInv, WaitsInv, ShutDownInv, RunsInv, StructureInv,
         ThreadsInv, Handlers, Threads, Accepting, Ending, Leaving, ListenerAt, OwnerAt, GuiAt,
         Stages, Structures, Types, Conns, Calm, nShutDown, nSeverShutDownFlag
  <2>4. AcceptInv'
    BY <1>3, <2>1, <2>2 DEF LastInv, AcceptInv, WaitsInv, ShutDownInv, RunsInv, StructureInv,
         ThreadsInv, Handlers, Threads, Accepting, Ending, Leaving, ListenerAt, OwnerAt, GuiAt,
         Stages, Structures, Types, Conns, Calm, nShutDown, nSeverShutDownFlag
  <2> QED
    BY <2>3, <2>4
<1> QED
  BY <1>1, <1>2, <1>3 DEF IInv, Base, Calm, ListWaited, Fine, Gui

\* Nobody is left to use the structure.
LEMMA KillClientConnectionKeeps ==
  ASSUME IInv, crashed = "no", KillClientConnection
  PROVE  IInv'
<1> USE DEF KillClientConnection, At, Goto, Fine, board, sockets, messages, control, Gui, Freed
<1>1. Base'
  <2>1. Types'
    BY DEF IInv, Base, Types, Structures, Stages, Handlers, Threads
  <2>2. Places'
    BY DEF IInv, Base, Types, Places, Handlers, Threads, ListenerAt, OwnerAt, ListAt, GuiAt,
         Accepting, Ending, Leaving
  <2>3. StructureInv'
    BY DEF IInv, Base, Types, Places, StructureInv, ThreadsInv, Structures, Handlers, Threads,
         nSeverShutDownFlag, nShutDown, GuiAt, Leaving
  <2>4. ThreadsInv'
    BY DEF IInv, Base, Types, Places, StructureInv, ThreadsInv, Structures, Handlers, Threads,
         nSeverShutDownFlag, nShutDown, GuiAt, Leaving
  <2> QED
    BY <2>1, <2>2, <2>3, <2>4 DEF Base
<1>2. ASSUME patient
      PROVE  /\ WaitsInv'
             /\ stop' # "no" => ShutDownInv'
             /\ pc'["gui"] = "run" => RunsInv'
  <2> USE <1>2 DEF IInv, Base, Places
  <2>1. WaitsInv'
    BY DEF WaitsInv, Types, Handlers, Threads, ListenerAt, OwnerAt, GuiAt, Accepting, Ending,
         Leaving, Awake, Delay, nSeverShutDownFlag, nShutDown, ThreadsInv
  <2>2. stop' # "no" => ShutDownInv'
    BY DEF ShutDownInv, StructureInv, ThreadsInv, Told, WaitsInv, Types, Structures, Handlers,
         Threads, ListenerAt, OwnerAt, ListAt, GuiAt, Accepting, Ending, Leaving, Awake, Delay,
         HasMessage, nSeverShutDownFlag, nShutDown
  <2>3. pc'["gui"] = "run" => RunsInv'
    BY DEF RunsInv, Types, Structures, StructureInv, ThreadsInv, Handlers, Threads,
         nSeverShutDownFlag, nShutDown, GuiAt, Leaving, Awake, Delay, HasMessage, ListenerAt,
         OwnerAt, Accepting, Ending, Notified
  <2> QED
    BY <2>1, <2>2, <2>3
<1>3. ASSUME Calm' PROVE LastInv' /\ AcceptInv'
  <2> USE DEF IInv, Base, Places
  <2>1. Calm /\ LastInv /\ AcceptInv
    BY <1>3 DEF Calm, nShutDown, Types, Threads
  <2>2. patient /\ WaitsInv /\ (stop # "no" => ShutDownInv) /\ (pc["gui"] = "run" => RunsInv)
    BY <2>1 DEF Calm
  <2>3. LastInv'
    BY <1>3, <2>1, <2>2 DEF LastInv, AcceptInv, WaitsInv, ShutDownInv, RunsInv, StructureInv,
         ThreadsInv, Handlers, Threads, Accepting, Ending, Leaving, ListenerAt, OwnerAt, GuiAt,
         Stages, Structures, Types, Conns, Calm, nShutDown, nSeverShutDownFlag
  <2>4. AcceptInv'
    BY <1>3, <2>1, <2>2 DEF LastInv, AcceptInv, WaitsInv, ShutDownInv, RunsInv, StructureInv,
         ThreadsInv, Handlers, Threads, Accepting, Ending, Leaving, ListenerAt, OwnerAt, GuiAt,
         Stages, Structures, Types, Conns, Calm, nShutDown, nSeverShutDownFlag
  <2> QED
    BY <2>3, <2>4
<1> QED
  BY <1>1, <1>2, <1>3 DEF IInv, Base, Calm, KillClientConnection, Fine, Gui

\* Nor is it there any more when the manager goes.
LEMMA DeleteSCMKeeps ==
  ASSUME IInv, crashed = "no", DeleteSCM
  PROVE  IInv'
<1> USE DEF DeleteSCM, At, Goto, Fine, board, sockets, messages, control, Gui, Freed
<1>1. Base'
  <2>1. Types'
    BY DEF IInv, Base, Types, Structures, Stages, Handlers, Threads
  <2>2. Places'
    BY DEF IInv, Base, Types, Places, Handlers, Threads, ListenerAt, OwnerAt, ListAt, GuiAt,
         Accepting, Ending, Leaving
  <2>3. StructureInv'
    BY DEF IInv, Base, Types, Places, StructureInv, ThreadsInv, Structures, Handlers, Threads,
         nSeverShutDownFlag, nShutDown, GuiAt, Leaving
  <2>4. ThreadsInv'
    BY DEF IInv, Base, Types, Places, StructureInv, ThreadsInv, Structures, Handlers, Threads,
         nSeverShutDownFlag, nShutDown, GuiAt, Leaving
  <2> QED
    BY <2>1, <2>2, <2>3, <2>4 DEF Base
<1>2. ASSUME patient
      PROVE  /\ WaitsInv'
             /\ stop' # "no" => ShutDownInv'
             /\ pc'["gui"] = "run" => RunsInv'
  <2> USE <1>2 DEF IInv, Base, Places
  <2>1. WaitsInv'
    BY DEF WaitsInv, Types, Handlers, Threads, ListenerAt, OwnerAt, GuiAt, Accepting, Ending,
         Leaving, Awake, Delay, nSeverShutDownFlag, nShutDown, ThreadsInv
  <2>2. stop' # "no" => ShutDownInv'
    BY DEF ShutDownInv, StructureInv, ThreadsInv, Told, WaitsInv, Types, Structures, Handlers,
         Threads, ListenerAt, OwnerAt, ListAt, GuiAt, Accepting, Ending, Leaving, Awake, Delay,
         HasMessage, nSeverShutDownFlag, nShutDown
  <2>3. pc'["gui"] = "run" => RunsInv'
    BY DEF RunsInv, Types, Structures, StructureInv, ThreadsInv, Handlers, Threads,
         nSeverShutDownFlag, nShutDown, GuiAt, Leaving, Awake, Delay, HasMessage, ListenerAt,
         OwnerAt, Accepting, Ending, Notified
  <2> QED
    BY <2>1, <2>2, <2>3
<1>3. ASSUME Calm' PROVE LastInv' /\ AcceptInv'
  <2> USE DEF IInv, Base, Places
  <2>1. Calm /\ LastInv /\ AcceptInv
    BY <1>3 DEF Calm, nShutDown, Types, Threads
  <2>2. patient /\ WaitsInv /\ (stop # "no" => ShutDownInv) /\ (pc["gui"] = "run" => RunsInv)
    BY <2>1 DEF Calm
  <2>3. LastInv'
    BY <1>3, <2>1, <2>2 DEF LastInv, AcceptInv, WaitsInv, ShutDownInv, RunsInv, StructureInv,
         ThreadsInv, Handlers, Threads, Accepting, Ending, Leaving, ListenerAt, OwnerAt, GuiAt,
         Stages, Structures, Types, Conns, Calm, nShutDown, nSeverShutDownFlag
  <2>4. AcceptInv'
    BY <1>3, <2>1, <2>2 DEF LastInv, AcceptInv, WaitsInv, ShutDownInv, RunsInv, StructureInv,
         ThreadsInv, Handlers, Threads, Accepting, Ending, Leaving, ListenerAt, OwnerAt, GuiAt,
         Stages, Structures, Types, Conns, Calm, nShutDown, nSeverShutDownFlag
  <2> QED
    BY <2>3, <2>4
<1> QED
  BY <1>1, <1>2, <1>3 DEF IInv, Base, Calm, DeleteSCM, Fine, Gui

-----------------------------------------------------------------------------
(* The theorems.                                                          *)

\* Nothing is there when the server starts.
LEMMA InitIInv == Init => IInv
<1> SUFFICES ASSUME Init PROVE IInv
  OBVIOUS
<1> USE DEF Init
<1>1. Types
  <2>1. scc \in Structures
    BY DEF Structures
  <2>2. stage \in [Conns -> Stages] /\ object \in [Conns -> Conns \cup {0}]
        /\ handle \in [Conns -> Conns \cup {0}] /\ work \in [Handlers -> Conns \cup {0}]
    BY DEF Stages
  <2>3. made \in 0 .. MaxConns /\ left \subseteq 1 .. made /\ crashed \in Threads \cup {"no"}
    OBVIOUS
  <2>4. quit \subseteq {"listener", "owner", "list"} /\ alive \subseteq Conns /\ hConn \in Conns \cup {0}
    OBVIOUS
  <2> QED
    BY <2>1, <2>2, <2>3, <2>4 DEF Types
<1>2. pc["listener"] = "idle" /\ pc["owner"] = "none" /\ pc["list"] = "none" /\ pc["gui"] = "run"
  BY DEF Threads, Handlers
<1>3. Places
  BY <1>2 DEF Places, Threads, Handlers, ListenerAt, OwnerAt, ListAt, GuiAt, Accepting, Ending
<1>4. StructureInv /\ ThreadsInv
  BY <1>2 DEF StructureInv, ThreadsInv
<1>5. WaitsInv /\ RunsInv
  BY <1>2 DEF WaitsInv, RunsInv, Accepting
<1>6. LastInv
  BY <1>2 DEF LastInv, Conns, Handlers
<1>7. AcceptInv
  BY <1>2 DEF AcceptInv, Ending
<1> QED
  BY <1>1, <1>3, <1>4, <1>5, <1>6, <1>7 DEF IInv, Base

\* No step breaks the invariant.
LEMMA NextIInv == IInv /\ [Next]_vars => IInv'
<1> SUFFICES ASSUME IInv, [Next]_vars PROVE IInv'
  OBVIOUS
<1>1. CASE UNCHANGED vars
  <2> USE <1>1 DEF vars, board, sockets, messages, control
  <2>1. Base'
    <3>1. Types' /\ Places'
      BY DEF IInv, Base, Types, Places
    <3>2. StructureInv' /\ ThreadsInv'
      BY DEF IInv, Base, StructureInv, ThreadsInv
    <3> QED
      BY <3>1, <3>2 DEF Base
  <2>2. (patient' => WaitsInv') /\ (patient' /\ pc'["gui"] = "run" => RunsInv')
    BY DEF IInv, WaitsInv, RunsInv
  <2>3. patient' /\ stop' # "no" => ShutDownInv'
    BY DEF IInv, ShutDownInv, Told
  <2>4. Calm' => Calm
    BY DEF Calm, nShutDown
  <2>5. Calm' => LastInv'
    BY <2>4 DEF IInv, LastInv
  <2>6. Calm' => AcceptInv'
    BY <2>4 DEF IInv, AcceptInv
  <2> QED
    BY <2>1, <2>2, <2>3, <2>5, <2>6 DEF IInv
<1>2. CASE Next
  <2> USE <1>2
  <2>1. crashed = "no"
    BY DEF Next
  <2>2. CASE Connect \/ Disconnect \/ PressShutdown
    BY <2>1, <2>2, ConnectKeeps, DisconnectKeeps, PressShutdownKeeps
  <2>3. CASE OnAccept
    BY <2>1, <2>3, OnAcceptPrepKeeps, AcceptFirstKeeps, ResumeKeeps, AcceptAgainKeeps,
       AttachKeeps, AcceptRefusedKeeps, AcceptedKeeps DEF OnAccept
  <2>4. ASSUME NEW t \in Handlers, OnClose(t) \/ Destroy(t) \/ Unlink(t) \/ OnReceive(t)
        PROVE  IInv'
    BY <2>1, <2>4, OnCloseKeeps, DestroyKeeps, UnlinkKeeps, OnReceiveKeeps
  <2>5. CASE Listener
    BY <2>1, <2>3, <2>4, <2>5, StopListnerThreadKeeps, ListenerExitKeeps DEF Listener, Handlers
  <2>6. CASE Owner
    BY <2>1, <2>4, <2>6, InitInstanceKeeps, StartListKeeps, KillServerSocketKeeps,
       KillServerSocketOwnerKeeps, OwnerQuitsKeeps, ExitInstanceKeeps DEF Owner, Handlers
  <2>7. CASE ListThread
    BY <2>1, <2>7, ProcessRcvListKeeps, ProcessedKeeps, ListExitKeeps DEF ListThread
  <2>8. CASE GuiThread
    BY <2>1, <2>8, ServerShutDownKeeps, GuiKillServerSocketKeeps, SocketWaitedKeeps,
       KillServerRcvListThreadKeeps, OwnerWaitedKeeps, ListWaitedKeeps,
       KillClientConnectionKeeps, DeleteSCMKeeps DEF GuiThread
  <2> QED
    BY <2>2, <2>4, <2>5, <2>6, <2>7, <2>8 DEF Next
<1> QED
  BY <1>1, <1>2

\* The life of a connection: what each thread may find, at every step of every run.
THEOREM ConnectionInvariant == Spec => []IInv
<1>1. Init => IInv
  BY InitIInv
<1>2. IInv /\ [Next]_vars => IInv'
  BY NextIInv
<1> QED
  BY <1>1, <1>2, PTL DEF Spec

\* The type invariant, and that a shut-down deletes in order: if its waits are long enough,
\* the structure goes only when the owner thread and the list thread are gone, whatever
\* the board does and however often it connects (KillClientConnection).
THEOREM ShutDownDeletesLast == Spec => []Inv
<1>1. IInv => TypeOK
  <2> SUFFICES ASSUME IInv PROVE TypeOK
    OBVIOUS
  <2>1. Types /\ Places /\ StructureInv
    BY DEF IInv, Base
  <2>2. scc \in [there : {"no", "yes", "deleted"}, pSocket : alive \cup {0}, pOwner : BOOLEAN,
                 pList : BOOLEAN, lists : BOOLEAN]
    BY <2>1 DEF Types, Structures, StructureInv
  <2>3. pc \in [Threads -> {"none", "suspended", "starting", "idle", "accept", "resume", "attach",
                            "accepted", "closing", "unlink", "waitExit", "startList", "quitting",
                            "exit", "busy", "run", "destroyCCM", "waitListener", "waitSocket",
                            "sleep", "waitOwner", "waitList", "killConnection", "delete", "done",
                            "gone"}]
    BY <2>1 DEF Places, ListenerAt, OwnerAt, ListAt, GuiAt, Accepting, Ending, Leaving
  <2> QED
    BY <2>1, <2>2, <2>3 DEF TypeOK, Types, Stages
<1>2. IInv => DeletedLast
  <2> SUFFICES ASSUME IInv, patient, stop # "no", scc.there = "deleted"
               PROVE  Gone("owner") /\ Gone("list")
    BY DEF DeletedLast
  <2>1. pc["gui"] \in {"delete", "done"}
    BY DEF IInv, Base, StructureInv
  <2>2. ShutDownInv
    BY DEF IInv
  <2> QED
    BY <2>1, <2>2 DEF ShutDownInv, Gone
<1> QED
  BY <1>1, <1>2, ConnectionInvariant, PTL DEF Inv

\* While the server runs, or if the board connected only once, nobody but the list thread,
\* which tests pSocket once for many packets, accesses a socket, list or structure that
\* is gone, for every number of times the board connects.
THEOREM NobodyElseUsesStale == Spec => []NoStaleUse
<1>1. IInv => NoStaleUse
  BY DEF IInv, NoStaleUse, Calm, LastInv
<1> QED
  BY <1>1, ConnectionInvariant, PTL
=============================================================================
