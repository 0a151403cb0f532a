---------------------------- MODULE MCQuestLoop ----------------------------
(***************************************************************************)
(* A small instance of QuestLoop for TLC: the quests belong to user u1.    *)
(***************************************************************************)
EXTENDS QuestLoop, TLC

CONSTANT u1

OwnerOf == [q \in Quests |-> u1]

=============================================================================
