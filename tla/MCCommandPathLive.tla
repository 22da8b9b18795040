------------------------- MODULE MCCommandPathLive -------------------------
(***************************************************************************)
(* CommandPath under fairness, for behaviours of two kinds: boards that    *)
(* come and go, with sends that fail, and boards that stay.                *)
(***************************************************************************)
EXTENDS MCCommandPath

VARIABLE boards  \* whether they come and go, or stay

mcVars == <<vars, boards>>

Staying == INSTANCE CommandPath WITH Steady <- TRUE, MayFail <- FALSE, MaxCommands <- 3

MCInit ==
  \/ boards = "coming and going" /\ Init
  \/ boards = "staying" /\ Staying!Init

MCNext ==
  \/ boards = "coming and going" /\ Next /\ UNCHANGED boards
  \/ boards = "staying" /\ Staying!Next /\ UNCHANGED boards

\* FairSpec's fairness: the steps of the threads are the same in both kinds.
MCFairSpec ==
  /\ MCInit /\ [][MCNext]_mcVars
  /\ WF_mcVars(ProcessReceivedMessage /\ UNCHANGED boards)
  /\ WF_mcVars(Tick /\ UNCHANGED boards)
  /\ \A c \in Conns : WF_mcVars(TransmitPackets(c) /\ UNCHANGED boards)

\* Boards that stay get every command the PAP forwards.
StayingBoardsGetEverything ==
  boards = "staying" => Staying!EveryCommandArrives
=============================================================================
