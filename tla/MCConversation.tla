--------------------------- MODULE MCConversation ---------------------------
(***************************************************************************)
(* Instances of Conversation for TLC.                                      *)
(***************************************************************************)
EXTENDS Conversation

CONSTANTS m1, m2, a, b

MCTs         == [m \in Msgs |-> IF m = m1 THEN 1 ELSE 2]
MCChatOfA    == [m \in Msgs |-> a]
MCBody       == [m \in Msgs |-> "hi"]
MCSecondMine == [m \in Msgs |-> m = m2]
MCAllText    == [m \in Msgs |-> "text"]
=============================================================================
