--------------------------- MODULE MCCommandPath ---------------------------
(***************************************************************************)
(* The commands that the PAG sends in the runs of CommandPath.             *)
(***************************************************************************)
EXTENDS CommandPath

\* An ADC command that is forwarded, one that the PAP carries out itself, and a pulser
\* command that is too big for the sender.
FewKinds ==
  {[id |-> 5, board |-> 0, size |-> 32], [id |-> 28, board |-> 0, size |-> 32],
   [id |-> 768, board |-> 0, size |-> 1056]}

\* Commands that reach a board when nothing goes wrong.
GoodKinds ==
  {[id |-> 5, board |-> 0, size |-> 32], [id |-> 516, board |-> 0, size |-> 1056],
   [id |-> 768, board |-> 0, size |-> 32]}

\* One ADC command for each of two boards.
TwoBoards ==
  {[id |-> 5, board |-> 0, size |-> 32], [id |-> 5, board |-> 1, size |-> 32]}
=============================================================================
