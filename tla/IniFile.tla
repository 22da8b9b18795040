------------------------------- MODULE IniFile -------------------------------
(***************************************************************************)
(* The configuration: a text file that people edit while the program does  *)
(* not run, CIniFileW, which holds it as sorted sections of sorted keys,   *)
(* and what the dialog reads from it and writes back when it is            *)
(* constructed.  The file is written in place, when the Nc/Nx dialog       *)
(* closes and when the program ends, so that a program that is killed      *)
(* meanwhile leaves part of it.                                            *)
(*                                                                         *)
(* A name stands for all its spellings in upper and lower case, which      *)
(* _wcsicmp does not tell apart; "port" for what is read and written for a *)
(* server, "client" for what is only read.  A file that is missing is one  *)
(* without lines.  SaveClientConnectionManagementInfo is left out: it      *)
(* writes to the profile of MFC, which nothing reads.                      *)
(***************************************************************************)
EXTENDS Integers, Sequences, FiniteSets, FiniteSetsExt

CONSTANTS
  MaxServers,  \* MAX_SERVERS
  Values,      \* what people write
  MaxEdits,    \* bound: changes by hand
  MaxCrashes   \* bound: programs killed while they write

Servers == 0 .. MaxServers - 1

\* Texts of values: those of people, those of the program, and a piece of either.
Empty == 0
Own == 10
Part == 11
Texts == Values \cup {Empty, Own, Part}

\* A number of servers above MAX_SERVERS overruns gServerArray, and the run ends there.
Parameters ==
  /\ MaxServers \in Nat \ {0} /\ MaxEdits \in Nat /\ MaxCrashes \in Nat
  /\ MaxServers \in Values /\ Values \subseteq 1 .. Own - 1 /\ Values \subseteq 1 .. MaxServers

Clients == "ClientConnectionManagement"
Dialogs == "Dialog Locations"
Server == "ServerConnectionManagement"

Maximum == <<"! MaxServers", 0>>
MaxClients == <<"# MaxClientsPerServer", 0>>
Port(i) == <<"port", i>>
Description(i) == <<"description", i>>
Client == <<"client", 0>>
Position == <<"NC_NX_PA2", 0>>
Comment == <<";00", 0>>
NoKey == <<"", 0>>

\* Sections, each with its keys, in the order of _wcsicmp.  There are two places per server.
Layout ==
  [p \in 1 .. 2 * MaxServers + 8 |->
     IF p <= 7
     THEN <<<<Clients, NoKey>>, <<Clients, Client>>, <<Dialogs, NoKey>>, <<Dialogs, Position>>,
            <<Server, NoKey>>, <<Server, Maximum>>, <<Server, MaxClients>>>>[p]
     ELSE <<Server, IF p = 2 * MaxServers + 8 THEN Comment
                    ELSE IF p % 2 = 0 THEN Description(p \div 2 - 4) ELSE Port(p \div 2 - 4)>>]

SectionOf(k) == IF k = Client THEN Clients ELSE IF k = Position THEN Dialogs ELSE Server

Entry(k) == <<SectionOf(k), k>>

\* What people set, and the program only reads or writes as it was.
Tracked == {Maximum, MaxClients, Comment, Client} \cup {Port(i) : i \in Servers}

VARIABLES
  file,        \* lines of the file
  m_sections,  \* values of sections (Empty) and keys; after the end of the program as it was then
  running,
  settings,    \* what the dialog has read
  edits, crashes,
  \* history
  clean,       \* the file is m_sections, written to the end
  wanted,      \* what people have set, by key; Empty if nothing
  damaged      \* keys that were to be written when a program was killed

vars == <<file, m_sections, running, settings, edits, crashes, clean, wanted, damaged>>

-----------------------------------------------------------------------------
\* Lines: how they begin, whether they end in "]", whether they have a "=".

SectionLine(s) ==
  [first |-> "[", closed |-> TRUE, equals |-> FALSE, section |-> s, key |-> NoKey,
   value |-> Empty]
KeyLine(k, v) ==
  [first |-> IF k = MaxClients THEN "#" ELSE "", closed |-> FALSE, equals |-> TRUE,
   section |-> "", key |-> k, value |-> v]
TextLine(f) ==
  [first |-> f, closed |-> FALSE, equals |-> FALSE, section |-> "", key |-> NoKey,
   value |-> Empty]

\* What a line may be when the last that was written is a piece of it.  The numbers of servers
\* and clients have one digit.
Torn(l) ==
  {TextLine(l.first)}
    \cup IF l.equals
         THEN {KeyLine(l.key, v) : v \in {Empty} \cup
                                          IF l.key \in {Maximum, MaxClients} THEN {} ELSE {Part}}
         ELSE {}

\* Variant: comments first.
TypeCommentFirst(l) ==
  IF l.first = "#" THEN "COMMENT"
  ELSE IF l.first = "[" /\ l.closed THEN "SECTION"
  ELSE IF l.equals THEN "KEY" ELSE "OTHER"

Type(l) ==
  IF l.first = "[" /\ l.closed THEN "SECTION"
  ELSE IF l.equals THEN "KEY"
  ELSE IF l.first = "#" THEN "COMMENT" ELSE "OTHER"

-----------------------------------------------------------------------------
\* CIniFileW and CTuboIni.

Nothing == [e \in {} |-> Empty]

\* The sections that begin up to line n.
Headers(lines, n) == {j \in 1 .. n : Type(lines[j]) = "SECTION"}

\* The lines that are taken in: keys before the first section are dropped.
Taken(lines) ==
  {n \in DOMAIN lines : Type(lines[n]) \in {"SECTION", "KEY"} /\ Headers(lines, n) # {}}

\* AddSection, or AddKey in the section that is open.
Names(lines, n) == <<lines[Max(Headers(lines, n))].section, lines[n].key>>

\* A later line for a key replaces the value of an earlier one.
Load(lines) ==
  LET taken == Taken(lines)
  IN  [e \in {Names(lines, n) : n \in taken} |->
         lines[Max({n \in taken : Names(lines, n) = e})].value]

\* The places that are filled, the n-th of them, and its line.
Present(m) == {p \in DOMAIN Layout : Layout[p] \in DOMAIN m}
Nth(S, n) == CHOOSE p \in S : Cardinality({q \in S : q < p}) = n - 1
Line(e, v) == IF e[2] = NoKey THEN SectionLine(e[1]) ELSE KeyLine(e[2], v)

Save(m) ==
  LET places == Present(m)
  IN  [n \in 1 .. Cardinality(places) |->
         LET e == Layout[Nth(places, n)] IN Line(e, m[e])]

GetProfileString(m, k, default) ==
  IF Entry(k) \in DOMAIN m /\ m[Entry(k)] # Empty THEN m[Entry(k)] ELSE default

\* WriteProfileString for each of the keys v has values for.
Written(m, v) ==
  [e \in DOMAIN m \cup {Entry(k) : k \in DOMAIN v} \cup {<<SectionOf(k), NoKey>> : k \in DOMAIN v} |->
     IF e[2] \in DOMAIN v /\ e = Entry(e[2]) THEN v[e[2]] ELSE IF e \in DOMAIN m THEN m[e] ELSE Empty]

-----------------------------------------------------------------------------
\* The dialogs.

Default(k) == IF k = Maximum THEN MaxServers ELSE Own

Get(m, ks) == [k \in ks |-> GetProfileString(m, k, Default(k))]

\* gnMaxServers
Number(m) == GetProfileString(m, Maximum, Default(Maximum))

GetServerConnectionManagementInfo(m) ==
  Get(m, {Maximum, MaxClients} \cup {Port(i) : i \in 0 .. Number(m) - 1})

\* What was read is written, and the descriptions of servers 0 and 1 are the program's own.
SaveServerConnectionManagementInfo(m, g) ==
  LET descriptions == {Description(i) : i \in (0 .. g[Maximum] - 1) \cap {0, 1}}
  IN  Written(m, [k \in DOMAIN g \cup descriptions |-> IF k \in DOMAIN g THEN g[k] ELSE Own])

SaveWindowLastPosition(m) == Written(m, [k \in {Position} |-> Own])

Started(m) == SaveServerConnectionManagementInfo(m, GetServerConnectionManagementInfo(m))

-----------------------------------------------------------------------------
Shipped ==
  Save([e \in {<<Clients, NoKey>>, <<Server, NoKey>>} \cup {Entry(k) : k \in Tracked} |->
          IF e[2] = NoKey THEN Empty ELSE MaxServers])

Init ==
  /\ file \in {Shipped, <<>>}
  /\ m_sections = Nothing /\ settings = Nothing
  /\ running = FALSE /\ clean = FALSE
  /\ edits = 0 /\ crashes = 0
  /\ wanted = [k \in Tracked |-> IF file = <<>> THEN Empty ELSE MaxServers]
  /\ damaged = {}

\* A person changes or removes a line, or writes one that is not a key.
Edit ==
  /\ ~running /\ edits < MaxEdits
  /\ edits' = edits + 1
  /\ \/ \E n \in DOMAIN file, v \in Values :
          /\ file[n].equals /\ file[n].key \in Tracked
          /\ file' = [file EXCEPT ![n] = KeyLine(@.key, v)]
          /\ wanted' = [wanted EXCEPT ![file[n].key] = v]
          /\ damaged' = damaged \ {file[n].key}
     \/ \E n \in DOMAIN file :
          /\ file[n].equals /\ file[n].key \in Tracked
          /\ file' = [x \in 1 .. Len(file) - 1 |-> file[IF x < n THEN x ELSE x + 1]]
          /\ wanted' = [wanted EXCEPT ![file[n].key] = Empty]
          /\ damaged' = damaged \ {file[n].key}
     \/ \E n \in 1 .. Len(file) + 1, f \in {"#", ""} :
          /\ file' = [x \in 1 .. Len(file) + 1 |->
                       IF x = n THEN TextLine(f) ELSE file[IF x < n THEN x ELSE x - 1]]
          /\ UNCHANGED <<wanted, damaged>>
  /\ clean' = FALSE
  /\ UNCHANGED <<m_sections, running, settings, crashes>>

Start ==
  /\ ~running
  /\ LET m == Load(file) IN
       /\ m_sections' = Started(m)
       /\ settings' = Get(m, DOMAIN GetServerConnectionManagementInfo(m) \cup {Client})
  /\ running' = TRUE /\ clean' = FALSE
  /\ UNCHANGED <<file, edits, crashes, wanted, damaged>>

SaveIniFile(m) ==
  /\ m_sections' = m
  /\ file' = Save(m) /\ clean' = TRUE
  /\ UNCHANGED <<settings, edits, crashes, wanted, damaged>>

\* CNcNx::Save_Pos
Save_Pos ==
  running /\ SaveIniFile(SaveWindowLastPosition(m_sections)) /\ UNCHANGED running

\* The destructor of CTuboIni.
Exit ==
  running /\ SaveIniFile(m_sections) /\ running' = FALSE

\* The program is killed while it writes m: lines from the n-th on are lost, or part of one is left.
CutShort(m) ==
  LET lines == Save(m) IN
  \E n \in DOMAIN lines :
    /\ \/ file' = SubSeq(lines, 1, n - 1)
       \/ \E l \in Torn(lines[n]) : file' = Append(SubSeq(lines, 1, n - 1), l)
    /\ damaged' = damaged \cup {lines[i].key : i \in n .. Len(lines)}

Crash ==
  /\ running /\ crashes < MaxCrashes
  /\ \E m \in {m_sections, SaveWindowLastPosition(m_sections)} : CutShort(m) /\ m_sections' = m
  /\ crashes' = crashes + 1
  /\ running' = FALSE /\ clean' = FALSE
  /\ UNCHANGED <<settings, edits, wanted>>

\* It is killed while it does not write.
Kill ==
  /\ running /\ running' = FALSE
  /\ clean' = FALSE
  /\ UNCHANGED <<file, m_sections, settings, edits, crashes, wanted, damaged>>

Next == Edit \/ Start \/ Save_Pos \/ Exit \/ Crash \/ Kill

Spec == Init /\ [][Next]_vars

-----------------------------------------------------------------------------
TypeOK ==
  /\ running \in BOOLEAN /\ clean \in BOOLEAN
  /\ edits \in 0 .. MaxEdits /\ crashes \in 0 .. MaxCrashes
  /\ DOMAIN m_sections \subseteq {Layout[p] : p \in DOMAIN Layout}
  /\ \A e \in DOMAIN m_sections :
       /\ <<e[1], NoKey>> \in DOMAIN m_sections
       /\ m_sections[e] \in Texts
       /\ e[2] = NoKey => m_sections[e] = Empty
  /\ DOMAIN settings \subseteq Tracked
  /\ wanted \in [Tracked -> Values \cup {Empty}]
  /\ damaged \subseteq {Layout[p][2] : p \in DOMAIN Layout}

\* A file written to the end is read as what was written, the keys that begin like a comment
\* and the comments that are keys included.
FileHoldsMemory == clean => Load(file) = m_sections

\* TuboIni.cpp:42, 48.  Whatever people set is used after any number of starts, ends and
\* saves, a text that is no key anywhere in the file notwithstanding; what is set of servers
\* beyond the number in use, and comments that are keys, are kept for later.  Only what a
\* killed program had yet to write is lost.
SettingsKept ==
  running => \A k \in Tracked \ damaged :
    /\ k \in DOMAIN settings => settings[k] = IF wanted[k] = Empty THEN Default(k) ELSE wanted[k]
    /\ wanted[k] # Empty => Entry(k) \in DOMAIN m_sections /\ m_sections[Entry(k)] = wanted[k]

ConfigurationKept == FileHoldsMemory /\ SettingsKept
=============================================================================
