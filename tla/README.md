# TLA+ project for PhasedArrayProcessor

The repository holds `PA2Win`, a C++/MFC Windows program built in one of two
ways: as the **PAP** (phased array processor, `I_AM_PAP`), which sits between the
instrument boards and the display, or as the **PAG** (phased array GUI,
`I_AM_PAG`). This directory models the current copy, `src/PA2Win2019`;
`src/PA2Win` is an earlier copy, most of whose files are the same line for line.
All line numbers below are those of `src/PA2Win2019`.

## 1. The system

### How the parts interact

```
 ADC/gate board (7502) --> CServerSocket::OnReceive --> RcvPktList --> CServerRcvListThread
 pulser board   (7602)        CCmdFifo                                   | vChannel filters
                                                                         v
 PAG  <-- TransmitPackets <-- client SendPktList <-- SendIdataToPag <-- IdataPacket
  |       (CClientCommunicationThread, connection 0: Nc/Nx, 1: all wall)
  |-- data: CServerSocket of the PAG --> CServerRcvListThread --> display, record file
  v
 PAG dialog CNcNx --> SendMsgToPAP (map of PAP numbers) --> TransmitPackets of the PAG
       --> CClientSocket/CCM::OnReceive of the PAP --> list --> CCmdProcessThread
       --> CCCM_PAG::ProcessReceivedMessage --> server SendPktList
       --> ServerSocketOwnerThread::TransmitPackets --> board
```

Threads: the GUI; a test thread with a 100 ms tick; per server a listener thread;
per board connection an owner thread (it owns the socket) and a receive-list
thread; per client connection a receive thread (it owns the socket), a send
thread and a command thread. They share linked lists under critical sections,
socket pointers and flags under none, and wake each other with posted thread
messages, which Windows drops when the target has no message queue yet.

### Components

| Component | State | Operations | What makes it correct | Module |
|---|---|---|---|---|
| Byte FIFO `CCmdFifo.cpp` | `m_Mem`, in/out index, packet size | receive into, take a packet, move to front, flush | what is unread is what came last, in order and in bounds | `CmdFifo` |
| Server receive `ServerSocket.cpp` 1195-1440, `ServerRcvListThread.cpp` 200-240 | FIFO, receive list, posts | `OnReceive`, `ProcessRcvList` | packets leave whole, once, in order; none is forgotten | `ServerReceive`, `PacketChannel` |
| Client receive `ClientConnectionManagement.cpp`, `CmdProcessThread.cpp` | FIFO, command list | `OnReceive`, command thread | the same | `ClientReceive`, `PacketChannel` |
| Command router `CCM_PAG.cpp` | command queue | `ProcessReceivedMessage` | a command reaches the list of its board | `CommandPath`, `CommandIds` |
| Command sender `ServerSocketOwnerThread.cpp` | send list, socket, losses | `TransmitPackets` | in order, at most once, no list forgotten | `CommandPath` |
| Test thread `TestThread.cpp` | ring of small commands, ticks | put, get, scan of the lists, timer posts | no command lost unseen, no list stagnates | `SmallCmdFifo`, `CommandPath`, `PagLink` |
| Instrument data assembly `ServerRcvListThread.cpp` | packet in work, sequence | `ProcessInstrumentData` | each packet has each channel of one round | `IdataAssembly` |
| Wall filter `vChannel.cpp` | ring of Nx readings, sum, peaks | `WFifoInit`, `InputWFifo` | sum of the last Nx, peaks of the interval | `WallFilter` |
| Flaw filter `vChannel.cpp` | ring of bMod readings, peak | `FifoInit`, `InputFifo` | a flaw is Nc of the last bMod | `NcFilter` |
| Link to the PAG `ClientCommunicationThread.cpp`, `ClientSocket.cpp`, `PA2WinDlg.cpp` 2263-2423 | socket, `bConnected`, send list, losses, three threads | connect, close, timer, send; shut down | in order, once, counted; reconnects; the object goes after its threads | `PagLink`, `ClientShutdown` |
| Server connection lifecycle `ServerSocket.cpp` 378-1197, 111-370, `ServerConnectionManagement.cpp` 182-552, `ServerListenThread.cpp` | structure of a connection, its socket, lists and threads | accept, reattach, close, shut down | accepted is served; deleted last; nothing used after delete | `ServerConnection` |
| Start-up of the servers `PA2WinDlg.cpp` 1374-1510, 2425-2443, `ServerListenThread.cpp` | `pSCM`, listener thread and socket | make, wait for, give up, stop | what can listen does; no listener outlives its object | `StartUp` |
| Sequence counters `ServerSocket.cpp` 1318-1351, `ClientConnectionManagement.cpp` 615-650 | last number seen, losses | compare, add | lost packets counted | `SeqCount` |
| PAP number map `PA2WinDlg.cpp` 480-670, 2845-2984, `ServerSocket.cpp`, `ServerSocketOwnerThread.cpp` | number of a PAP; connection per PAP number | read, drop old numbers; accept, learn, send | commands reach the right PAP; the stick prevails | `PapNumber`, `PapMap` |
| PAG command source `NcNx.cpp`, `PA2WinDlg.cpp` | six fields, kind of command | click, type, choose, blast, `SendMsg` | what is shown is sent, and arrives | `PagCommands`, `CommandIds` |
| PAG data processing `ServerRcvListThread.cpp` 242-271, 1211-1342, `NcNx.cpp` | dialog, record file | record, write, save | the record has every packet once | `Recording` |
| Configuration `Inifile.cpp`, `TuboIni.cpp`, `PA2WinDlg.cpp` | text file, sections of keys | load, read, write, save | what people set is used and kept | `IniFile` |
| Windows, drawing, printers of structure sizes, debug logs, the display of data | | | | not modelled |

What is hard here: the cut of the TCP stream, posts that do not arrive or find
nothing to do, sockets that one thread deletes and another uses, threads told apart
by Sleeps, flags read and then written without a lock, retries that must neither
repeat nor reorder, numbers that wrap, indices at the end of a buffer, sums kept by
differences, connections that return in another order. `PROJECT.json` lists these
hazards at their lines.

## 2. Modules

**`SmallCmdFifo`** - the ring of small commands in `TestThread.cpp`, a copy of the one on
the ADC board. `Input` and `Output` are `GetSmallCmdFifoInputPtr` and
`GetSmallCmdFifoOutputPtr`, each with the copy of the command that follows it, with
`bIn`, `bOut`, `bCnt` and `wLost` as in the code; they may come in any order. `InputOverflow`
is the branch in which both indices are derived from `bOut`. The initial state,
next-state relation and specification are `InitRing`, `RingNext` and `RingSpec`.

**`CmdFifo`** - operators over a record that stands for `CCmdFifo`: memory, the two indices,
the number of unread bytes. A byte is its position in the stream of the connection, so a
wrong byte at any place is visible; a packet of the stream is its position, its length
and whether it has SYNC. `Shift`, `GetInLoc`, `AddBytes` (`AddBytesToFifo`) and `NextPacket`
(`GetNextPacket`) are one operator each, `LosesSync` and `WrongSize` the two ways in which
`GetPacketSize` refuses a header. Sizes and margins are constants.

**`PacketChannel`** - the abstract promise: a sequence sent, a sequence processed
which is a prefix of what was sent, one packet at a time. It has no code; the two
receive paths implement it.

**`ServerReceive`** - the instrument's stream, which TCP cuts anywhere, `OnReceive` with its
Receive into the FIFO and the loop that takes packets, one disjunct for each way in
which `GetPacketSize` and `GetNextPacket` answer, the post, and `ProcessRcvList` on the list
thread. `SyncKinds`, `Sizes` and `MayVanish` say how faulty the instrument is. Left
out: the guards for a server shutting down (1226-1235), which belong to
`ServerConnection`; the counters (1318-1351) are in `SeqCount`.

**`ClientReceive`** - the same for the client side, where `OnReceive` pushes what it
got into the FIFO and the command thread drains the list.

**`CommandIds`** - the three ranges of command ids of `Cmds.h`, which of them the PAP
accepts, forwards and can send, and to which server. `CommandPath` and `PagCommands`
use it, so that what the PAG makes and what the PAP forwards are held against one
table.

**`CommandPath`** - commands from `ProcessReceivedMessage` to the boards: one send list
per connection, `WM_USER_SEND_TCPIP_PACKET` posts which may be lost while the owner
thread has not started, `TransmitPackets` step by step (take, try up to eight times,
give up; a Send may take part of a command, and then the whole of it is sent again),
`OnClose`, a later reconnection, and the scan of the test thread. `MCCommandPath`
gives the commands and boards of the runs.

**`PagCommands`** - the dialog of the PAG that makes commands, `CNcNx`. What an edit box
shows (`text`), where its arrows are (`position`) and the member commands are made from
(`kept`) are three things, as in the code: the message map has handlers for typed texts
in four of the six fields. One action per kind of entry of the list of commands makes
the commands of that entry, blasts included, and `SendMsg` and `SendMsgToPAP` decide
what is sent on. Commands are records with id, PAP, board, sequence, channel, gate,
value and size. Left out: counters shown, window positions, members that nothing calls.

**`PapMap`** - how the PAG finds the connection of a PAP: `OnAccept` gives each address an
entry, the owner thread attaches connections, `OnReceive` learns from every packet which
PAP is behind the entry (`bActualClientConnection`), `SendMsgToPAP` and `SendPacketToPAP`
use the map, and `OnClose` takes an entry down. Leases of DHCP may last (`steady`) or
move. Sockets are numbered as in `ServerConnection`.

**`PapNumber`** - the number of a PAP: `ReadPAPnumber` looks for a file `n.wall` on memory
sticks and on C, `DeleteOldPapNumbers` clears the folder `MyID`. Between two starts
people put in and take out sticks and files.

**`SeqCount`** - the numbers that senders give their packets and the two counts of lost
ones, with the widths of their types (`Word`, `UInt`, `Byte`) as constants. History
variables (`missing`, `lost`, `again`, `due`, `crossed`, `hidden`) hold what really
happened.

**`IniFile`** - the configuration file, line by line, the sorted sections that `CIniFileW`
keeps of it, what the dialog reads into `settings` and writes back, changes by hand
while the program does not run, and a program killed while it writes (a prefix of the
new file stays). A name stands for all its spellings in upper and lower case. `Load`
and `Save` are stated by what they do to a whole file: of the lines for a name in the
section that is open the last counts, and the names that are there are written in
the order of `Layout`.

**`IdataAssembly`** - `ProcessInstrumentData` for one board: sequences, the interval of
16 readings per channel, `AddToIdataPacket` and the packet that is sent when the count
equals what makes it full; faults are a lost packet, a glitch bit, a change of
sequence length, `WFifoInit` on a channel.

**`WallFilter`**, **`NcFilter`** - the two filters of `CvChannel`, reading by reading, on
rings of `Depth` cells. `InputWFifo` is split where the command thread's
`WFifoInit` can come in between: it does at run time
(`SET_WALL_NX_CMD_ID`, `CCM_PAG.cpp:347-357`). The history variable `undisturbed` tells whether
the last `WFifoInit` met a reading in work; what holds of the sums is stated for the
case that it did not. `FifoInit` is called live only by the constructor
(`SetChannelInfo`'s only call, `CCM_PAG.cpp:308`, is compiled out), so `NcFilter` has no
race. A `SET_WALL_NX_CMD_ID` that arrives before the first instrument data finds `gnSeqModulo` 0
and configures no channel.

**`PagLink`** - one client connection of the PAP: `SendIdataToPag` on the receive-list
thread, the receive thread's handlers (`InitTcpThread`, `StartTCPCommunication`,
`OnConnect`, `OnClose`, `OnTimer`), the send thread's `TransmitPackets`, and the
message queues of both threads. Each access to `bConnected`, `pSocket` and the list that
another thread can separate from the next is a step of its own. The second client
connection is only its connected flag (`otherUp`): the all-wall connection is ticked
only while it is set, and here any connection is. The network and the PAG are external
actions. Half-open connections are not modelled; a Connect on a pending socket fails with either of two codes. The long tail
of `StartTCPCommunication` after `nOnConnectError` is never reached: nothing sets the
error it asks for on a socket that survives.

**`ClientShutdown`** - how that connection is taken down: `DestroyCCM` on the GUI thread
tells the receive, send and command threads one after the other to end, waits for each
for a limited time, and deletes lists and object; `KillSocket`, `KillReceiveThread`,
`ExitInstance` and the destructors are actions of their threads. A receive-list thread
of the servers (`SendIdataToPag`, `Queue`) and the test thread go on meanwhile.

**`ServerConnection`** - one entry `pClientConnection[i]` of a server of the PAP from the
first `OnAccept` to `ServerShutDown`: the listener thread (`OnAccept`, with its two ways of
handing a connection to a socket), the owner thread (`InitInstance`, `KillServerSocket`,
`KillServerSocketOwner`, `ExitInstance`), the list thread, and the GUI thread's shut-down.
A socket's `OnClose` and destructor are actions of the thread that gets the
notifications of its connection: the owner thread for the first one, the listener thread
for one attached by `OnAccept`. A connection and the `CServerSocket` made for it have the same
number; `stage` follows the connection, `object` is the handle map of MFC, which may still
name a socket that was given another connection or deleted. Left out: the other slots of
a server, boards whose address is out of range, socket options, `bConnected` and what the
dialog shows, the few instructions between making a socket and setting its `m_pSCC`, an
allocation that fails, and the PAG's variant of `OnAccept` (which is in `PapMap`).

**`StartUp`** - `InitializeServerConnectionManagement` of the PAP: the GUI thread makes
the object of each server and its listener thread, waits four seconds for server 0 to
listen and gives it up after that; `InitListnerThread`, `StopListnerThread` and
`ExitInstance` on the listener threads; `DestroySCM`. Addresses may be wrong in the INI
file or taken by another program.

**`Recording`** - `ProcessPAP_Data` of the PAG for all-wall data: a receive-list thread for
every PAP follows `gDlg.pNcNx` to the dialog, tests `m_nRecordState` and writes to its
file, three steps between which the GUI thread may open or close dialog and file.

*Time.* In `ServerConnection`, `ClientShutdown` and `StartUp` threads are told apart by
nothing but Sleeps of 10 to 500 ms and waits that give up after one to four seconds.
`patient` says whether they are long enough: a wait then ends only when no other
thread is ready or has a shorter one (`Delay` ranks them). Without `patient` every wait
may end at any time. An access to something deleted makes a model stop (`crashed` names
the thread).

Composition: `ServerReceive` and `ClientReceive` are instances of `PacketChannel` and
both use `CmdFifo`. `PagCommands` makes the commands that `PapMap` brings to a PAP;
`CommandPath` begins where `ClientReceive` ends (whole packets in the command list);
`IdataAssembly` begins where `ServerReceive` ends; its input is one packet at a time in
order, which is what `PacketChannel` promises. `WallFilter` and `NcFilter` are the
channels of `IdataAssembly`, `PagLink` takes its packets, `SeqCount` counts them.
`StartUp` makes the listener that `ServerConnection` begins with; that is the life of
the thread and socket that `ServerReceive` and `CommandPath` use; it sees a packet only
as something the list thread has to do.

**MC modules.** `MCCommandPath` names sets of commands. `MCServerReceive`,
`MCClientReceive` and `MCCommandPathLive` run a module with several sets of constants at
once: a variable that never changes chooses at the start, so that a behaviour belongs
to one of them, and a property that is about one of them has that variable as its
premise. `MCParts` does the same with the smaller parts, which share nothing their
properties are about: `part` chooses one, the others stay as they were constructed.

## 3. Runs

Passing runs:

| Run | Shows | Bounds |
|---|---|---|
| `parts` | the smaller parts, one at a time; see the next table | about 1.2 million states in all |
| `server_receive` | a well-behaved instrument: in sync, implements `PacketChannel`; a faulty one (no SYNC, too long, vanishing): the FIFO in bounds and with the latest bytes, only whole packets queued | 20 bytes of memory, pieces of up to 6, packets of 4 to 8 bytes, 4 of them: both ways of moving to the front happen, with partial packets too |
| `client_receive` | a PAG whose headers are cut, that sends commands too long for `GetNextPacket` and may go away: only whole commands (`Inv`), and what a call has queued is announced and processed unless the call ends at a command that is too long; a PAG that sends lengths `GetPacketSize` dislikes: only such a command blocks the FIFO, and then all that came since is behind it (`NeverStuck`); commands that arrive whole implement `PacketChannel` | 14 bytes; 3 commands in pieces of up to 7, so that a command and one too long come in the same call; 2 commands of lengths 3, 5, 7, which fill the 14 bytes; 5 whole ones |
| `command_path` | boards get their commands in order, none twice, whole or cut; the owner finds its socket while it runs the handlers (`Inv`) | a board that connects twice, 3 commands of four kinds, 2 tries, 2 partial sends |
| `command_live` | lists move; to boards that stay every forwarded command goes | 2 commands, 3 for boards that stay; fair threads |
| `server_connection` | every accepted connection that lasts comes to be served; nothing but the list thread meets what was deleted while the program serves; the shut-down ends, with the structure deleted after the threads | a board that connects twice: the first connection and a reattached one differ, a third is like the second; packets one at a time |
| `client_shutdown` | taken down at any moment with waits that are long enough, the object goes after its threads and nobody but `ExitInstance` meets what is gone, nobody at all when the PAP is idle; the shut-down ends | 1 packet in each list, 1 other message at the receive thread; 392 thousand states |
| `pap_map` | as long as leases last a command reaches its PAP; the map comes to lead to every PAP that stays | 2 PAPs, 3 addresses, 2 entries; 4 connections if leases last, 3 if they move |
| `pag_link` | in order, once, losses counted (`Inv`); connected means open; the list is emptied again and again, the socket is opened | 2 packets, 2 tries, a close, 2 messages a queue |

The parts of run `parts`:

| Property | Shows | Bounds |
|---|---|---|
| `WallIsRight` | the sum kept by differences is that of the last Nx readings, the index stays in range for any Nx, the peaks are those of the interval as long as its sums fit a WORD | rings of 3, Nx 0, 2 and 3 (limited to 2), intervals of 2, readings rejected and taken |
| `FlawsAreRight` | a flaw is called exactly when Nc of the last bMod reach the threshold, and the peak tells whether one was | rings of 4, amplitudes below, at and above the threshold and at 80 % of it, parameters that `FifoInit` corrects |
| `SteadyWhole`, `NeverOverfull` | steady: a packet sent holds all channels of one round; with every fault at any time: the count never steps over full | the true sizes (3 sequences, 8 channels, 16 readings) and every modulus; small sizes with 3 faults |
| `Accounted`, `QueueUntilOverflow` | puts = gets + waiting + lost; a queue up to the first overflow | modulus 4, 10 puts: more than two overflows and two turns of the ring |
| `CountsLosses` | the two counts of lost packets are right, up to what a wrap or a new socket hides, which is said exactly | words of 4 numbers, UINT of 8, BYTE of 4, gaps of up to 5: each wraps several times |
| `StickWins` | a PAP that starts with one memory stick has its number, and no file of another number is left in `MyID`; no PAP starts under a number below the highest that no drive holds | 3 drives, 4 numbers, of which 2 are looked for on sticks, 2 files |
| `ConfigurationKept` | what the file holds is what the program keeps, and what people set is used and kept over starts, ends and saves; only what a killed program had yet to write is lost | 2 servers, values 1 and 2, one edit, one crash |
| `ShownIsSent`, `OffersArrive` | a command carries what the dialog shows; what the dialog offers is forwarded by the PAP, with the exceptions named below | 2 PAPs, 2 boards, 3 sequences, parameters 40 and 41, 2 changes of fields; blasts with loops of 1, 11, 1 and 1 |
| `StartsAndStops` | a server whose address is free listens whatever becomes of the other; the program ends without a listener thread, and none outlives its object, but that of server 0 if its port was taken | both servers, addresses free, taken or wrong, waits long enough or not |
| `RecordIsWhole` | a record has the packets of each PAP in order and without a gap, and "End" only if it has no packets, but for what a press overtakes; nothing but such a press ends the program | 2 PAPs, 3 packets (with 2 a gap after a stray packet does not show), 4 presses |

The bounds are small, but each lets the case the property is about happen: every
action fires in some passing run, and for each property of each passing run
`PROJECT.json` names a plausible bug (a *mutant*, an operator marked *Variant* in the
modules) that makes TLC find it violated. Bounds cap inputs (packets, commands, closes,
faults, presses) and queues; none of them caps a counter the code compares.

Runs that show a disagreement between what the source says and what it does
(`findings`):

* `client_partial`: a header that arrives in two pieces is flushed
  (`ClientConnectionManagement.cpp:600`).
* `command_stagnate`: the scan for stagnating lists stops at a connection without a socket
  (`TestThread.cpp:154`).
* `pag_link_reconnect`: a lost update leaves `bConnected` 0 on an open socket
  (`ClientCommunicationThread.cpp:1110`, also `ServerRcvListThread.cpp:589`).

### Deviations without a run of their own

They are in the models as they are in the code, and the properties say where they
are excepted.

Boards and their connections:

* Packets queued by an `OnReceive` that then returns early are not announced to the list
  thread (`ServerSocket.cpp:1298`). They wait for the next call that ends on a packet
  boundary, for ever if the instrument goes away. The client has the same at a command too
  long for `GetNextPacket` (`ClientConnectionManagement.cpp:626`): commands queued by that
  call wait for the next call that queues one. `QueuedIsProcessed` excepts exactly that
  return.
* The list thread tests `pSocket` once and then goes on using it and the receive list
  (`ServerRcvListThread.cpp:213-235`), which `OnClose` or a shut-down may delete meanwhile.
  `NoStaleUse` allows exactly this thread to meet it.
* Once a board has reconnected, its socket's destructor runs on the listener thread. In a
  shut-down its `KillServerSocketOwner` then ends the listener instead of the owner thread
  (`ServerSocket.cpp:343`, `ServerSocketOwnerThread.cpp:571`), and if `ServerShutDown` comes
  later it returns at once (`ServerConnectionManagement.cpp:395`): the destructor deletes the
  structure while the owner and list threads still use it. Hence the premise `stop # "no"` of
  the order of deletion in `Inv` and of the end of `ShutDownEnds`, and `made <= 1` in
  `NoStaleUse`.
* A board that reconnects while its old connection shuts down has its new socket deleted,
  or meets a null owner thread or `pSocket` (`ServerSocket.cpp:1176-1178`). If the old
  `OnClose` has not run, it closes the new connection (`ServerSocket.cpp:1178`, `1501`).
* If the address of server 0 is taken by another program, or its listener needs more than
  four seconds, `PA2WinDlg.cpp:1427-1434` deletes the manager while the listener thread and
  its socket still use it (the socket's destructor reads `m_pSCM`, `ServerSocket.cpp:133-163`;
  a comment at 138 reports that the debugger found it invalid). The server is never tried
  again. `StartsAndStops` excepts exactly "address 0 taken". `Listen` is called even on a
  socket that could not be created (`ServerListenThread.cpp:105-220`).

Commands:

* The second overflow of the small command ring in a row loses the newest command, not the
  oldest (`TestThread.cpp:346-356`).
* A byte count below 24, or above 1460 and up to 8192, is refused by `GetPacketSize` and not
  flushed (`CCmdFifo.cpp:241`), and `OnReceive` leaves its loop: the FIFO is blocked for
  good, and what is received later piles up behind it. `NeverStuck` excepts exactly such a
  command (`Blocked`).
* A command given up for an error other than `WSAEWOULDBLOCK`, or for a socket that
  went away, is not counted as lost (`ServerSocketOwnerThread.cpp:811`). A Send that takes a
  piece of a command is followed by the whole command, and when `GetLastError` gives 0 then
  the loop of tries starts over, for ever if every Send is short.
* `ProcNull` has id 0 and is refused by `SendMsgToPAP`. The pulser's reset, 0x309, is refused
  by the first range check though the second lets it through (`CCM_PAG.cpp:158`, `201`).
* The parameter of 0x205 is overwritten in `SendMsg`, although the comment at `NcNx.cpp:1516`
  has it put into all words of the large command. Entries 14 to 26, 31 and 32 of the list
  of commands send nothing, although `NcNx.cpp:448` says that selecting one sends it. A
  PAP or board number that is typed is not taken over (`NcNx.cpp:86-109`). One entry
  masks the parameter of later commands (`NcNx.cpp:573`).
* PAPs whose leases move: a command may reach the PAP that now has the address.
* `SendMsgToPAP` and `SendPacketToPAP` may find the socket gone between check and use, and
  the first then deletes the message twice (`PA2WinDlg.cpp:2952`).
* A lost `WM_USER_ATTACH_SERVER_SOCKET` post loses a connection (`ServerSocket.cpp:680`).
  `m_nClientIndex` of a socket made to be attached is not initialised.

Data:

* A lost instrument packet mixes rounds in the packet in work; the check for it is
  compiled out (`ServerRcvListThread.cpp:771-786`). A channel reconfigured while data come
  in can be in a packet twice (`vChannel.cpp:203`).
* The sum of a channel stays wrong after a `WFifoInit` that met a reading
  (`vChannel.cpp:193`); an interval with fewer than Nx good readings reports no smallest
  sum (79, 267); the drop-out bit is cleared without having been copied (237,
  `ServerRcvListThread.cpp:495`); a sum wider than a WORD is truncated (262); 80 % of a
  threshold below 11 is again 1 or 2 below it (145).
* The send thread may call `Send` through a deleted socket
  (`ClientCommunicationThread.cpp:1229-1238`), the owner thread lock a list through one
  once its board has reconnected (`ServerSocketOwnerThread.cpp:602`). The models call
  this state `crashed` and go no further.
* The message meant for the send thread is posted to the poster (`ServerRcvListThread.cpp:612`,
  `666`), so data wait for a tick.
* The client counts packet 0 after 65535 as a loss (`ClientConnectionManagement.cpp:629`). The
  server's count is off by multiples of 65536 across a wrap (`ServerSocket.cpp:1326`), and by
  what was lost before a new socket saw its first packet.
* When the PAP takes down its connection to the PAG while packets wait, the receive thread's
  `ExitInstance` empties the send list by way of the debug list it has just deleted
  (`ClientCommunicationThread.cpp:257-261`). With waits that end too early several threads
  meet what is gone: `DestroyCCM` follows `pSocket` while it waits (`PA2WinDlg.cpp:2301`),
  lists are deleted under their threads (`ClientCommunicationThread.cpp:221`).
* A record is written and closed without a lock: a press that overtakes a thread makes
  it write to a closed file, which ends the program (`ServerRcvListThread.cpp:1299-1301`),
  or put one packet into the file of the next record before `m_nRecordState` is set; those
  that follow until then are dropped. `RecordIsWhole` allows this gap and no other: the
  history variable `early` counts the packets that are in the file before the state is set.
  `m_nRecordState` has no value between `new` and `OnInitDialog`. A packet written between the
  test of the length and "End" leaves "End" after data (`NcNx.cpp:1731`). A dialog closed
  while it records leaves a file without "End".

Configuration:

* A PAP that starts without a stick loses its number: `GetPAPFromCDrive` reads another
  drive than the one written (`PA2WinDlg.cpp:636`), and the file in `MyID` is never made, since
  its `Open` does not create files. Sticks are not searched for numbers 6 to 8
  (`PA2WinDlg.cpp:533`), though comments say 1 to 8.
* Hand edits while the program runs are overwritten by its next save. A cut file makes
  the defaults permanent, in which both servers have port 7502. Lines without "=" are
  dropped at the next save; a value that is no number ends the program; `gnMaxServers`
  is not limited to `MAX_SERVERS`; the descriptions of servers 0 and 1 are overwritten by
  constants; the settings of the client connections are written to MFC's profile, which
  nothing reads. "File must be created manually the first time" (`TuboIni.cpp:32`), but
  `Save` creates it.

Seen in the code and in no model: a byte count cut to a WORD (`ServerSocket.cpp:1277`); an
index of `pvChannel` taken from a packet (`ServerRcvListThread.cpp:835`); one `gnSeqModulo` for
all boards (803), of which `SET_WALL_NX_CMD_ID` reaches only the sequences below
(`CCM_PAG.cpp:347`); packets deleted while there is no connection are not counted
(`ClientCommunicationThread.cpp:1119`); `m_bNiosGlitchCnt` is updated only with a partial
packet (`ServerRcvListThread.cpp:751`); data are copied from a packet after the sender got
it (979); a read-back of 0x205 is taken from another offset (1032) and the tables of read-backs are
shared by the threads of all boards and may be overrun (1012, 1272).

### Deadlock

No passing run checks for deadlock. Each has states in which the modelled system really
stops: its bounded input is used up and worked off (packets, puts, faults, presses,
connections, commands), a server or client has ended with its shut-down, or the
modelled program has crashed. That threads do not stop earlier, waiting for each other,
is what the liveness properties say.

### Fairness

Weak fairness of each thread's steps stands for a scheduler that runs every thread,
and of the 100 ms tick for a timer that keeps ticking. Beyond this:

* `PagLink`: the tick and the completion of a connection attempt are strongly fair: both
  recur in the code's environment, and each can be disabled for a moment (a full queue
  of the model, an attempt aborted by the next one). The properties have the premise
  `Ticked`, that the other connection is up again and again: without it the all-wall
  connection gets no tick.
* `ServerConnection`: the listener, owner and GUI threads are strongly fair: a patient
  Sleep is put off while a packet is being processed, again and again as packets arrive,
  but it is 10 ms to two seconds long and each packet takes far less.
* `ClientShutdown`: `RcvQuits` is strongly fair, since the receive thread has a moment
  without other messages again and again, and so is `DestroyCCM`, since a patient Sleep ends
  although other threads come and go.
* `PapMap`: weak fairness of listener and owner threads, and of `OnReceive`, since a PAP
  that is connected goes on sending. Nothing is assumed of PAPs that connect or close.

No fairness is assumed of boards, of the PAG, of sends that succeed, or of commands being
issued; where a liveness property needs a peer that stays, the property says so:
`StayingBoardsGetEverything`, `Reopens`, `MapSettles`.

`SocketWhileSending` of `CommandPath` is stated for handlers on the owner thread. After a
board reconnects the handlers of the new socket run on the listener thread, and the
socket can go while the owner thread sends.

## 4. Proofs

A `_proofs` module extends the modules it is about: `Inspection_proofs` goes with the
inspection data, through `ServerReceive` and the two filters; `Pag_proofs` has
`ClientReceive`, the record, the number of a PAP, the dialog and the configuration; `Parts_proofs` has the
other parts of the run `parts` and `ClientShutdown`. The theorems hold for every value of
the constants that satisfies the `ASSUME`s of these modules, each of which some run
evaluates: they say that sizes are naturals, that a margin of the FIFO is not below the
piece it is for, that boards have the numbers of the code, or the like. Bounds
(`MaxPackets`, `MaxConns`, `MaxPuts`, ...) are any natural number, so that what is proved
holds for runs of any length.

| Theorem | Says | Needs |
|---|---|---|
| `ReceiveTypeOK`, `ReceiveInBounds`, `ReceiveHoldsLatestBytes`, `ReceiveOnlyWholePackets` (`Inspection_proofs`) | whatever an instrument leaves out, sends too much of or breaks off: Receive stays in `m_Mem`, the FIFO has the bytes received last, and only whole packets are queued, in order and once | `NoWrongSize` |
| `ReceiveStaysInSync`, `ReceiveImplementsChannel` | the socket of a well-behaved instrument is not closed, and the path is a `PacketChannel` | `WellBehaved` |
| `WallStaysRight`, `PartsWallIsRight` | types, `SumIsRight` and `ReportsPeaks` of `WallFilter`; `WallIsRight` | - |
| `FlawsStayRight`, `PartsFlawsAreRight` | types and `FlawsAreRight`, of `NcFilter` and of the run `parts` | - |
| `CommandsArriveWhole`, `ClientNeverStuck` (`Pag_proofs`) | `Inv` and `NeverStuck` of the client's path, wherever the stream is cut, and that no command ever blocks the FIFO (`~Blocked`) | `NoWrongSize` |
| `ClientImplementsChannel` | commands that arrive whole pass as through a `PacketChannel` | `ArriveWhole` |
| `RecordStaysWhole`, `PartsRecordIsWhole` | `RecordIsWhole`, of `Recording` and of the run `parts`, for any PAPs, packets and presses | - |
| `StickPrevails`, `PartsStickWins` | `StickWins`, of `PapNumber` and of the run `parts`, for any drives, the last of which is C, any numbers and any files | - |
| `DialogTellsTrue`, `PartsOffersArrive`, `PartsShownIsSent` | `OffersArrive` and `ShownIsSent`, of `PagCommands` and of the run `parts`, for any PAPs, boards, texts, up to 32 sequences and blasts of any length | - |
| `ConfigurationStays`, `PartsConfigurationKept` | types and `ConfigurationKept`, of `IniFile` and of the run `parts`, for any number of servers, starts, ends and saves, changes by hand and kills while the file is written | - |
| `CommandOwnerHasSocket`, `CommandsInOrder` (`CommandPath_proofs`) | `Inv`; every board gets its commands in order, none twice | - |
| `LinkKeepsOrder`, `LinkConnectedMeansOpen` (`PagLink_proofs`) | `Inv`: order, losses counted; `bConnected` means open when nothing waits | - |
| `CommandsFindTheirPap`, `FirstCloseIsSafe` (`PapMap_proofs`) | `SteadyRightPap`; `Inv` | - |
| `ShutDownDeletesLast`, `NobodyElseUsesStale` (`ServerConnection_proofs`) | `Inv`; `NoStaleUse` | - |
| `RingAccounted`, `RingIsQueue` (`Parts_proofs`) | `Accounted`; `QueueUntilOverflow` | - |
| `PacketNeverOverfull` | `NeverOverfull`, with every fault | - |
| `SteadyPacketsWhole`, `PartsSteadyWhole` | every packet for the PAG holds all channels of one round, of `IdataAssembly` and of the run `parts` (`SteadyWhole`) | `Faults = {}` |
| `ServersStartAndStop`, `PartsStartAndStop` | `StartsAndStops`, of `StartUp` and of the run `parts` | - |
| `LossesAreCounted`, `PartsCountLosses` | `CountsLosses`, of `SeqCount` and of the run `parts`, for numbers and counts of any width | - |
| `ConnectionGoesDown` | `Inv` of `ClientShutdown` | - |

The hypotheses are about the peer. `NoWrongSize`: no packet has a length that
`GetPacketSize` dislikes without a flush. Such a packet is neither taken nor
flushed and blocks the FIFO for good (`CCmdFifo.cpp:241`, listed above; in run
`client_receive` it does); the
structures of `Include/Cmds.h` and `PA2Struct.h` that boards and PAG send have 32 to 1460
bytes and so none of these lengths. `WellBehaved` and
`ArriveWhole` say that every packet has SYNC and a length that both accept, which is what
the boards send, and for the client that no command is cut. Without the last the client
does lose commands: run `client_partial`. `Faults = {}` is the board that loses nothing and
whose channels are left alone; with faults packets do mix rounds (section 3). In the
other modules failure, closing, overtaking and impatience are actions or free choices of the model, and nothing is
assumed of them.

None of the invariants the runs check is inductive alone. What had to be added:

* *Receive paths.* `PathInv` relates the stream, what has been received of it and the
  FIFO: what is unread is the last bytes received (`Holds`), and what left the FIFO are
  packets that end before it. For a peer that behaves, `IInv` adds that what is unread
  begins with a packet, so that no peek at a header is refused. What each operator of
  `CmdFifo` does to the bytes is stated once in `CmdFifo_proofs` for both sides.
* *Commands.* The *line* of a connection is what was sent to its board, then the command
  being sent, then its list. `LineOK` says that it is in order and below the command that is
  still to be put on a list; a command of which Send took a piece stands twice in it, piece
  first.
* *Link to the PAG.* `ListInv` places the packets on the list between the one taken last
  and the one made last; `SentInv` places those sent, and their numbers, before the
  former and keeps the account of tries and losses, which is exact as long as nothing was
  closed; `ConnectionInv` has what flag and waiting notifications say of the socket.
* *Map of PAPs.* All that leads to an entry (sockets, handles, the map, commands on their
  way) belongs to the address of the entry, and an address has one entry (`AddressInv`,
  `EntryInv`); with leases that last this gives `MapInv`. That first closes are safe needs the
  order in which the connections of one entry follow each other (`FirstCloseInv`).
* *Server connection.* `Base` (types, places of the threads, what the structure has) holds
  in every run. `WaitsInv` and, once a shut-down has begun, `ShutDownInv` say how far the
  threads are at each wait of the GUI thread when waits are long enough; `RunsInv` says that
  none ends before. `LastInv` and `AcceptInv` say of the runs that `NoStaleUse` is about that
  there is one connection at a time, the last one made, and how far it has come.
* *Start-up.* Each server is in one of a few states (still to come, opening, listening,
  given up, asked to stop, ended), and which of them it can be follows from how far the GUI
  thread is. Types hold for all runs, the rest for patient ones.
* *Shut-down of the link.* `BaseInv` holds for all runs. For patient ones `ReceiveInv` and
  `WorkerInv` say where receive, send and command thread are, and what waits for them, at
  each place of the GUI thread; `SocketInv` that the receive thread deletes the socket
  only when the others have done what was to be done (`Settled`); `CalmInv` that
  in an idle PAP nobody begins to talk.
* *Counts of losses.* The receiver knows which number follows the last one it got, unless
  the sender has started anew. All sums are then compared by division with remainder:
  `Divides` and `Remainder` stand in for what the prover does not know of `%`.
* *Ring and assembly.* The number waiting is the distance of the two indices modulo the
  size of the ring, and what waits goes on, slot by slot, from what was handed out. A
  packet is sent by an equality of a count with a limit: the count is below the limit
  between any two readings, since a change of the limit deletes the packet.

* *A steady board.* `SteadyInv` says that the board, the packet and the thread agree on where
  in a round they are (`Undisturbed`), and, in the k-th round of an interval, how many readings
  each channel has had and which slots of the packet in work are filled (`InRound`): those of
  the channels that come earlier in the last round, and no others. A packet is sent when
  the last one comes in, since there are as many as make it full.
* *Wall filter.* `WallSettled` says, for each place in `InputWFifo`, that the cells hold the
  last Nx good readings in turn (`HoldsLast`), that the total of the cells is that of those
  readings (`Window`), and that the sum kept is both but for the difference still to be
  added; `PeakInv` that the peaks are the extremes of the sums so far. That a window moves
  on by what comes in less what goes out, and that a total changes by as much as one cell
  does, are lemmas about the recursive function of `Total`, proved from the smallest number
  at which they would fail (`Upwards`).
* *Flaw filter.* `FlawInv` has the cells in use hold the last `bMod` readings in turn. A
  bijection between cells and readings makes the number of cells at the threshold that of
  readings at the threshold, and so what `Judged` counts is what a flaw is defined by.
* *Record.* `PacketInv` relates the packets in the file, the last packet of each PAP, and
  what its thread does: while a record is open every packet since the first one of a PAP
  is in it up to the last one its thread has done with (`Complete`). `NotOvertaken` says what
  a thread that no press overtook can rely upon, `ScreenInv` what the places of the GUI
  thread say of dialog, file and state.
* *Number of a PAP.* Files are only in drives that are searched, and C is the last of these:
  so the first drive with a number that is tried is the one with the stick, and the scan
  stops there (`DriveWins`); without such a drive there is no
  stick, and what `GetPAPFromCDrive` finds is on a drive (`NoDriveWins`).
* *Dialog of the PAG.* `FieldsInv` says that the member commands are made from is what is
  shown, in all fields but those the history variable `unsure` names, and that PAP and board
  are those last clicked. Every command of every entry is `Addressed`: of an id and a size
  that `SendMsg`, the router of the PAP and the sender of a board take, and for the PAP and the
  board of the dialog. That is proved entry by entry, and for each turn of each loop of the blasts.

* *Configuration.* A file is always `Sorted`: no section and no key is in it twice, and each key
  stands in its section. That holds of every file `Save` writes, which has its lines in the
  order of `Layout`, of any beginning of it with a piece of a line behind it, and of what people
  make of it; and it makes `Load` read for a key what its only line says, and so everything
  that was saved. What is in work (`Loaded`) has the section of each of its keys, so that
  nothing it holds is left out by `Save`. With `KeptOn` for the file and `KeptIn` for what the program
  holds, in both of which what people have set is found unless a killed program had yet to
  write it, the two say what a start finds and what an end leaves. How many servers are
  in use is read from the file too: the settings of those beyond are not read, but kept.
  `Parameters` leaves out numbers of servers above `MAX_SERVERS`, with which the program
  overruns its arrays (section 3).

Each proof that a step keeps an invariant has one step or lemma per action. The theorems
about the two receive paths are about the modules, not about the MC modules that run
two sets of constants at once; those are checked by TLC.

Only model-checked, and why:

* liveness, of which fairness and `ENABLED` are beyond the prover;
* `MCTypeOK` as a whole: the types of each part are proved with its theorem above, but in three
  modules, of which two cannot be extended together, since the two sides of a connection give
  the same names to different things;
* the properties of the runs that find a violation.

## 5. What is left

To prove next: the theorems of the receive paths for the MC modules, which run two sets of
constants at once.

To model, where it would still tell something: log files and their locks, the tables of
read-back data, the all-wall copy of a packet, the PAG's variant of server start-up.

### Not modelled

* `src/PA2Win`, about half of all lines: an earlier copy, most files of which are the same
  line for line (72 lines of `PA2WinDlg.cpp` differ, 30 of `ServerSocket.cpp`, 11 of
  `ClientSocket.cpp`). What is said here of `PA2Win2019` was not checked against it. The map
  covers 19 % of both copies together, 38 % of the modelled one.
* Windows, drawing, the display of data, debug logs and counters that are only shown, printers
  of structure sizes, the measuring of times, the command line, the single instance: user
  interface and sequential output, which no interleaving changes.
* Code that is never reached: `#if 0` blocks, the stubs of `CCM_PAG.cpp` 415-692, the NC_NX
  command (300-322), self-tests that run once.
