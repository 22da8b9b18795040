------------------------------ MODULE PapNumber ------------------------------
(***************************************************************************)
(* The number of a PAP, which every packet it sends carries.  When the     *)
(* program starts, ReadPAPnumber looks for a file n.wall in the roots of   *)
(* the drives on which memory sticks appear, and of C.  Sticks, and the    *)
(* files of the folder MyID, come and go while the program does not look.  *)
(***************************************************************************)
EXTENDS Integers, Sequences, FiniteSets, FiniteSetsExt

CONSTANTS
  Drives,    \* those searched, in order: G, F, E, D, C
  Highest,   \* 8: numbers in file names are 1 to 8
  Tried,     \* 5: those looked for in the drives
  MaxFiles   \* bound: files in all roots

None == 0       \* the program does not run
Numbers == 1 .. Highest
Places == {Drives[i] : i \in DOMAIN Drives} \X Numbers

Parameters ==
  /\ Highest \in Nat /\ Tried \in 1 .. Highest - 1 /\ MaxFiles \in Nat
  /\ Drives \in Seq(STRING) /\ "D" \in {Drives[i] : i \in DOMAIN Drives}
  /\ Drives # << >> /\ \A i \in DOMAIN Drives : Drives[i] = "C" <=> i = Len(Drives)

VARIABLES
  roots,                \* the files in the roots, each a drive and a number
  myID,                 \* the numbers of the files in C:\LocalAppExes\MyID
  gbAssignedPAPNumber

vars == <<roots, myID, gbAssignedPAPNumber>>

Init ==
  /\ roots \in {fs \in SUBSET Places : Cardinality(fs) <= 1}
  /\ myID \in {ns \in SUBSET Numbers : Cardinality(ns) <= 1}
  /\ gbAssignedPAPNumber = None

-----------------------------------------------------------------------------
\* People.

Insert ==
  /\ Cardinality(roots) < MaxFiles
  /\ \E f \in Places \ roots : roots' = roots \cup {f}
  /\ UNCHANGED <<myID, gbAssignedPAPNumber>>

Remove ==
  /\ \E f \in roots : roots' = roots \ {f}
  /\ UNCHANGED <<myID, gbAssignedPAPNumber>>

Install ==
  /\ \E n \in Numbers \ myID : myID' = myID \cup {n}
  /\ UNCHANGED <<roots, gbAssignedPAPNumber>>

Stop ==
  /\ gbAssignedPAPNumber # None
  /\ gbAssignedPAPNumber' = None
  /\ UNCHANGED <<roots, myID>>

-----------------------------------------------------------------------------
\* The program starts.

In(d, ns) == {n \in ns : <<d, n>> \in roots}

\* The drives that have a number that is tried.
With == {i \in DOMAIN Drives : In(Drives[i], 1 .. Tried) # {}}

\* Variant: the last number is not scanned.
DeleteOldPapNumbersButLast(n) == myID \ (1 .. Highest - 1 \ {n})

DeleteOldPapNumbers(n) == myID \cap {n}

\* Found on a stick.  (The file that is opened in MyID is not created.)
FromDrive ==
  /\ With # {}
  /\ LET d == Drives[Min(With)]
         n == Min(In(d, 1 .. Tried))
     IN  /\ gbAssignedPAPNumber' = n
         /\ myID' = IF d = "C" THEN myID ELSE DeleteOldPapNumbers(n)

\* Where GetPAPFromCDrive looks, with SIMULATOR defined.
Stored == In("D", Numbers)

\* Nothing found: GetPAPFromCDrive, the highest number being invalid.
GetPAPFromCDrive ==
  /\ With = {}
  /\ gbAssignedPAPNumber' = IF Stored = {} THEN Highest ELSE Min(Stored)
  /\ UNCHANGED myID

ReadPAPnumber ==
  /\ gbAssignedPAPNumber = None
  /\ FromDrive \/ GetPAPFromCDrive
  /\ UNCHANGED roots

Next == Insert \/ Remove \/ Install \/ Stop \/ ReadPAPnumber

Spec == Init /\ [][Next]_vars

-----------------------------------------------------------------------------
TypeOK ==
  /\ roots \subseteq Places /\ Cardinality(roots) <= MaxFiles
  /\ myID \subseteq Numbers
  /\ gbAssignedPAPNumber \in Numbers \cup {None}

Sticks == {f \in roots : f[1] # "C" /\ f[2] <= Tried}

\* PA2WinDlg.cpp:484, "the old number file must be deleted".  A PAP that starts with
\* one memory stick has its number and leaves no file of another number in MyID, so that
\* the stick prevails over what earlier starts have left; and no PAP starts
\* under a valid number that is in none of the roots.
StickWins ==
  gbAssignedPAPNumber = None /\ gbAssignedPAPNumber' # None =>
    /\ \A d \in {f[1] : f \in roots}, n \in Numbers :
         Sticks = {<<d, n>>} => gbAssignedPAPNumber' = n /\ myID' \subseteq {n}
    /\ gbAssignedPAPNumber' # Highest => \E f \in roots : f[2] = gbAssignedPAPNumber'
=============================================================================
