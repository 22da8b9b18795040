---------------------------- MODULE CommandPath ----------------------------
(***************************************************************************)
(* The way of a command through the PAP.  CCCM_PAG::ProcessReceivedMessage,*)
(* on the command thread, takes the commands of the PAG off                *)
(* pRcvPktPacketList, carries out or refuses some and puts the others on   *)
(* the send list of one server connection: server 0 for the ADC boards,    *)
(* server 1 for the pulser.  TransmitPackets, on that connection's         *)
(* CServerSocketOwnerThread, sends what is on the list when a message is   *)
(* posted to the thread.  CTestThread looks every 100 ms for lists that    *)
(* were left behind.                                                       *)
(*                                                                         *)
(* The socket of a connection comes and goes.  Its handlers run on the     *)
(* owner thread until the board has reconnected, then on the listener      *)
(* thread, where OnAccept attached the new handle.  A connection structure *)
(* stays once it is made.                                                  *)
(***************************************************************************)
EXTENDS CommandIds, Sequences, Functions, FiniteSetsExt

CONSTANTS
  Boards,      \* the board numbers in use on each server
  Kinds,       \* the commands the PAG sends: [id, board, size]
  MaxTries,    \* how often TransmitPackets tries to send one command
  MayFail,     \* whether a send may fail
  Steady,      \* whether the boards are connected to start with and stay so
  MaxCommands, \* bound: commands sent by the PAG
  MaxAccepts,  \* bound: times one board connects
  MaxPosts,    \* bound: messages waiting at an owner thread
  MaxPieces    \* bound: sends that take part of a command

MaxWord == 65535
Words == 0 .. MaxWord
Servers == {0, 1}
Conns == Servers \X Boards

ASSUME CommandAssumption ==
  /\ Boards \subseteq 0 .. 7
  /\ Kinds \subseteq [id : Words, board : Boards, size : Words]
  /\ MaxTries \in Nat \ {0, 1} /\ MayFail \in BOOLEAN /\ Steady \in BOOLEAN
  /\ MaxCommands \in Nat /\ MaxAccepts \in Nat /\ MaxPosts \in Nat \ {0} /\ MaxPieces \in Nat

VARIABLES
  commands,  \* the commands the PAG has sent, in order
  taken,     \* how many of them the command thread has taken off its list
  routing,   \* the command thread: "take", "queue" or "post"
  conn,      \* of each connection: "none", "down" (no socket) or "up"
  handlers,  \* the thread that runs the socket's handlers
  accepts,   \* how often its board has connected
  sendList,  \* pSendPktList of each connection
  posts,     \* messages posted to the owner thread
  owner,     \* the owner thread: "starting", "idle", "loop", "try" or "crashed"
  cmd,       \* the command it is sending
  tries,     \* how often it has tried
  sent,      \* what it has sent, commands and pieces of some size
  unsent     \* uUnsentPackets

pag == <<commands>>
router == <<taken, routing>>
socket == <<conn, handlers, accepts>>
lists == <<sendList, posts>>
sender == <<owner, cmd, tries, sent, unsent>>
vars == <<pag, router, socket, lists, sender>>

NoCommand == [n |-> 0, id |-> 0, board |-> 0, size |-> 0]

Init ==
  /\ commands = << >> /\ taken = 0 /\ routing = "take"
  /\ conn = [c \in Conns |-> IF Steady THEN "up" ELSE "none"]
  /\ handlers = [c \in Conns |-> "owner"] /\ accepts = [c \in Conns |-> 0]
  /\ sendList = [c \in Conns |-> << >>] /\ posts = [c \in Conns |-> 0]
  /\ owner = [c \in Conns |-> IF Steady THEN "idle" ELSE "starting"]
  /\ cmd = [c \in Conns |-> NoCommand]
  /\ tries = [c \in Conns |-> 0] /\ sent = [c \in Conns |-> << >>]
  /\ unsent = [c \in Conns |-> 0]

-----------------------------------------------------------------------------
\* The PAG and the boards.

SendCommand ==
  /\ Len(commands) < MaxCommands
  /\ \E k \in Kinds :
       commands' = Append(commands,
         [n |-> Len(commands) + 1, id |-> k.id, board |-> k.board, size |-> k.size])
  /\ UNCHANGED <<router, socket, lists, sender>>

\* OnAccept: the first time the connection is made and its socket given to the
\* owner thread; later the listener thread attaches the new handle.
Accept(c) ==
  /\ accepts[c] < MaxAccepts /\ conn[c] # "up"
  /\ accepts' = [accepts EXCEPT ![c] = @ + 1]
  /\ conn' = [conn EXCEPT ![c] = "up"]
  /\ handlers' = [handlers EXCEPT ![c] = IF conn[c] = "none" THEN "owner" ELSE "listener"]
  /\ UNCHANGED <<pag, router, lists, sender>>

\* Variant: the owner thread does not run the handlers between two messages.
OnCloseAnyTime(c) ==
  /\ conn[c] = "up" /\ ~Steady
  /\ conn' = [conn EXCEPT ![c] = "down"]
  /\ UNCHANGED <<pag, router, handlers, accepts, lists, sender>>

\* OnClose deletes the socket.  On the owner thread it waits for
\* TransmitPackets to return.
OnClose(c) ==
  /\ conn[c] = "up" /\ ~Steady
  /\ handlers[c] = "owner" => owner[c] = "idle"
  /\ conn' = [conn EXCEPT ![c] = "down"]
  /\ UNCHANGED <<pag, router, handlers, accepts, lists, sender>>

-----------------------------------------------------------------------------
\* CCCM_PAG::ProcessReceivedMessage.

Current == commands[taken]

\* RemoveHead, and the command is carried out or deleted: the socket and the
\* thread are looked at before the id of an ADC command is.
Consume ==
  /\ routing = "take" /\ taken < Len(commands)
  /\ LET k == commands[taken + 1] IN conn[ConnOf(k)] # "up" \/ ~Forwarded(k)
  /\ taken' = taken + 1
  /\ UNCHANGED <<pag, routing, socket, lists, sender>>

Route ==
  /\ routing = "take" /\ taken < Len(commands)
  /\ LET k == commands[taken + 1] IN conn[ConnOf(k)] = "up" /\ Forwarded(k)
  /\ taken' = taken + 1
  /\ routing' = "queue"
  /\ UNCHANGED <<pag, socket, lists, sender>>

\* AddTailSendPkt, through the socket pointer read by Route.  When the socket
\* has been deleted since then, its m_pSCC is read from freed memory: it is
\* what it was, or the command is lost.
Queue ==
  /\ routing = "queue"
  /\ LET c == ConnOf(Current) IN
       \/ sendList' = [sendList EXCEPT ![c] = Append(@, Current)]
       \/ conn[c] # "up" /\ UNCHANGED sendList
  /\ routing' = "post"
  /\ UNCHANGED <<pag, taken, socket, posts, sender>>

\* PostThreadMessage fails as long as the owner thread has no message queue.
Post ==
  /\ routing = "post" /\ posts[ConnOf(Current)] < MaxPosts
  /\ posts' = [posts EXCEPT ![ConnOf(Current)] =
                 IF owner[ConnOf(Current)] = "starting" THEN @ ELSE @ + 1]
  /\ routing' = "take"
  /\ UNCHANGED <<pag, taken, socket, sendList, sender>>

ProcessReceivedMessage == Consume \/ Route \/ Queue \/ Post

-----------------------------------------------------------------------------
\* CServerSocketOwnerThread::TransmitPackets.

\* InitInstance has run on the owner thread.
StartOwner(c) ==
  /\ owner[c] = "starting" /\ conn[c] # "none"
  /\ owner' = [owner EXCEPT ![c] = "idle"]
  /\ UNCHANGED <<pag, router, socket, lists, cmd, tries, sent, unsent>>

\* Without a socket it returns and leaves the list.
TakeMessage(c) ==
  /\ owner[c] = "idle" /\ posts[c] > 0
  /\ posts' = [posts EXCEPT ![c] = @ - 1]
  /\ owner' = [owner EXCEPT ![c] = IF conn[c] = "up" THEN "loop" ELSE "idle"]
  /\ UNCHANGED <<pag, router, socket, sendList, cmd, tries, sent, unsent>>

\* The command at the head, taken through the socket's lock: a command it does
\* not know is deleted.  Without a socket the lock is at address 0, which ends
\* the program: what the model does after that has no meaning.
TakeCommand(c) ==
  /\ owner[c] = "loop" /\ sendList[c] # << >> /\ conn[c] = "up"
  /\ sendList' = [sendList EXCEPT ![c] = Tail(@)]
  /\ IF Sendable(Head(sendList[c]))
     THEN /\ cmd' = [cmd EXCEPT ![c] = Head(sendList[c])]
          /\ tries' = [tries EXCEPT ![c] = 0]
          /\ owner' = [owner EXCEPT ![c] = "try"]
     ELSE UNCHANGED <<cmd, tries, owner>>
  /\ UNCHANGED <<pag, router, socket, posts, sent, unsent>>

NoSocketToLock(c) ==
  /\ owner[c] = "loop" /\ sendList[c] # << >> /\ conn[c] # "up"
  /\ owner' = [owner EXCEPT ![c] = "crashed"]
  /\ UNCHANGED <<pag, router, socket, lists, cmd, tries, sent, unsent>>

ListEmpty(c) ==
  /\ owner[c] = "loop" /\ sendList[c] = << >>
  /\ owner' = [owner EXCEPT ![c] = "idle"]
  /\ UNCHANGED <<pag, router, socket, lists, cmd, tries, sent, unsent>>

\* Variant: the command is not deleted.
DoneKeeps(c) ==
  /\ owner' = [owner EXCEPT ![c] = "loop"]
  /\ tries' = [tries EXCEPT ![c] = 0]
  /\ UNCHANGED cmd

\* The try loop is over: the command is deleted.
Done(c) ==
  /\ owner' = [owner EXCEPT ![c] = "loop"]
  /\ cmd' = [cmd EXCEPT ![c] = NoCommand]
  /\ tries' = [tries EXCEPT ![c] = 0]

\* Variant: sent again although it was sent.
SendTwice(c) ==
  /\ owner[c] = "try" /\ conn[c] = "up"
  /\ sent' = [sent EXCEPT ![c] = Append(@, cmd[c])]
  /\ UNCHANGED <<pag, router, socket, lists, owner, cmd, tries, unsent>>

Send(c) ==
  /\ owner[c] = "try" /\ conn[c] = "up"
  /\ sent' = [sent EXCEPT ![c] = Append(@, cmd[c])]
  /\ Done(c)
  /\ UNCHANGED <<pag, router, socket, lists, unsent>>

\* WSAEWOULDBLOCK: try again; after the last try the command counts as unsent.
TryAgain(c) ==
  IF tries[c] + 1 < MaxTries
  THEN tries' = [tries EXCEPT ![c] = @ + 1] /\ UNCHANGED <<owner, cmd, unsent>>
  ELSE Done(c) /\ unsent' = [unsent EXCEPT ![c] = @ + 1]

WouldBlock(c) ==
  /\ owner[c] = "try" /\ conn[c] = "up" /\ MayFail
  /\ TryAgain(c)
  /\ UNCHANGED <<pag, router, socket, lists, sent>>

\* Any other error: i = nError ends the loop, and i is not 7.
SendError(c) ==
  /\ owner[c] = "try" /\ conn[c] = "up" /\ MayFail
  /\ Done(c)
  /\ UNCHANGED <<pag, router, socket, lists, sent, unsent>>

Piece == 1
IsPiece(k) == k.size < commands[k.n].size
Pieces == MapThenSumSet(LAMBDA c : Len(SelectSeq(sent[c], IsPiece)), Conns)

\* Send takes part of the command, and what GetLastError returns is of an earlier call:
\* WSAEWOULDBLOCK, an error that ends the loop, or 0, with which it starts over.
ShortSend(c) ==
  /\ owner[c] = "try" /\ conn[c] = "up" /\ MayFail
  /\ Piece < cmd[c].size /\ Pieces < MaxPieces
  /\ sent' = [sent EXCEPT ![c] = Append(@, [cmd[c] EXCEPT !.size = Piece])]
  /\ \/ TryAgain(c)
     \/ Done(c) /\ UNCHANGED unsent
     \/ tries' = [tries EXCEPT ![c] = 1] /\ UNCHANGED <<owner, cmd, unsent>>
  /\ UNCHANGED <<pag, router, socket, lists>>

\* The socket is gone: break.
SocketGone(c) ==
  /\ owner[c] = "try" /\ conn[c] # "up"
  /\ Done(c)
  /\ UNCHANGED <<pag, router, socket, lists, sent, unsent>>

TransmitPackets(c) ==
  \/ StartOwner(c) \/ TakeMessage(c) \/ TakeCommand(c) \/ NoSocketToLock(c) \/ ListEmpty(c)
  \/ Send(c) \/ WouldBlock(c) \/ SendError(c) \/ ShortSend(c)
  \/ SocketGone(c)

-----------------------------------------------------------------------------
\* CTestThread::ThreadHelloWorld, every 100 ms: wake the owner thread of every
\* list that is not empty, but stop scanning a server's connections at the
\* first one with a list and no socket.

Waiting(c) == conn[c] # "none" /\ sendList[c] # << >>

\* Variant: without the scan.
WokenNone == {}

Woken ==
  {c \in Conns : /\ Waiting(c) /\ conn[c] = "up"
                 /\ \A b \in Boards : b < c[2] /\ Waiting(<<c[1], b>>) => conn[<<c[1], b>>] = "up"}

Tick ==
  /\ \E c \in Woken : owner[c] # "starting"
  /\ \A c \in Woken : posts[c] < MaxPosts
  /\ posts' = [c \in Conns |->
                IF c \in Woken /\ owner[c] # "starting" THEN posts[c] + 1 ELSE posts[c]]
  /\ UNCHANGED <<pag, router, socket, sendList, sender>>

-----------------------------------------------------------------------------
Next ==
  \/ SendCommand \/ ProcessReceivedMessage \/ Tick
  \/ \E c \in Conns : Accept(c) \/ OnClose(c) \/ TransmitPackets(c)

Spec == Init /\ [][Next]_vars

\* The command thread and the owner threads pump their messages and the test
\* thread keeps its 100 ms; the PAG and the boards do as they like.
FairSpec ==
  /\ Spec
  /\ WF_vars(ProcessReceivedMessage)
  /\ WF_vars(Tick)
  /\ \A c \in Conns : WF_vars(TransmitPackets(c))

-----------------------------------------------------------------------------
TypeOK ==
  /\ commands \in Seq([n : 1 .. MaxCommands, id : Words, board : Boards, size : Words])
  /\ taken \in 0 .. Len(commands) /\ routing \in {"take", "queue", "post"}
  /\ routing # "take" => taken > 0
  /\ conn \in [Conns -> {"none", "down", "up"}]
  /\ handlers \in [Conns -> {"owner", "listener"}] /\ accepts \in [Conns -> 0 .. MaxAccepts]
  /\ posts \in [Conns -> 0 .. MaxPosts]
  /\ owner \in [Conns -> {"starting", "idle", "loop", "try", "crashed"}]
  /\ tries \in [Conns -> 0 .. MaxTries - 1]
  /\ \A c \in Conns :
       /\ sendList[c] \in Seq(Range(commands))
       /\ \A i \in DOMAIN sent[c] :
            sent[c][i] \in Range(commands) \/ [commands[sent[c][i].n] EXCEPT !.size = Piece] = sent[c][i]
       /\ cmd[c] \in Range(commands) \cup {NoCommand}
       /\ owner[c] = "try" <=> cmd[c] # NoCommand
       /\ unsent[c] \in 0 .. MaxCommands

\* The commands of a connection that have not been deleted, from the first
\* sent to the last put on its list.
Line(c) ==
  sent[c] \o (IF cmd[c] = NoCommand THEN << >> ELSE <<cmd[c]>>) \o sendList[c]

\* Whatever a lost connection, a failed or short send or the late wake-up of the test
\* thread does to the lists, a board gets commands that are for it, none twice
\* and in the order in which the PAG sent them.  A piece is of the command that is tried
\* again, or of one that is given up: never of one that was sent.
DeliveredInOrder ==
  \A c \in Conns : \A i \in DOMAIN Line(c) :
    /\ ConnOf(Line(c)[i]) = c
    /\ i > 1 =>
         \/ Line(c)[i - 1].n < Line(c)[i].n
         \/ Line(c)[i - 1].n = Line(c)[i].n /\ IsPiece(Line(c)[i - 1])

\* As long as the owner thread runs the handlers of the socket itself,
\* TransmitPackets finds the socket it locks the list through; once the board
\* has reconnected it may not.
SocketWhileSending ==
  \A c \in Conns : owner[c] = "loop" /\ handlers[c] = "owner" => conn[c] = "up"

\* The type invariant, and the socket that is there while commands are sent.
Inv == TypeOK /\ SocketWhileSending

Crashed == \E c \in Conns : owner[c] = "crashed"

\* TestThread.cpp:134-136, "Sometimes messages stagnate in linked lists. Check
\* linked list for stored messages and post messages to thread with waiting
\* linked lists": with a socket to send on, a list does not wait forever.
NoStagnation ==
  \A c \in Conns :
    (conn[c] = "up" /\ sendList[c] # << >>) ~> (conn[c] # "up" \/ sendList[c] = << >> \/ Crashed)

\* When the boards stay connected and no send fails for good, every command the
\* PAP forwards gets to its board, in order and without another in between.
For(c) == SelectSeq(commands, LAMBDA k : ConnOf(k) = c)

EveryCommandArrives ==
  \A c \in Conns, n \in 1 .. MaxCommands :
    Len(For(c)) >= n ~>
      Len(For(c)) >= n /\ Len(sent[c]) >= n /\ SubSeq(sent[c], 1, n) = SubSeq(For(c), 1, n)
=============================================================================
