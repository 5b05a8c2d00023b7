----------------------------- MODULE MCChatList ------------------------------
(***************************************************************************)
(* Instances of ChatList for TLC.                                          *)
(***************************************************************************)
EXTENDS ChatList

CONSTANTS m1, m2, a

MCTs       == [m \in Msgs |-> IF m = m1 THEN 1 ELSE 2]
MCChatOfA  == [m \in Msgs |-> a]
MCBody     == [m \in Msgs |-> "hi"]
MCIncoming == [m \in Msgs |-> FALSE]
MCAllText  == [m \in Msgs |-> "text"]
=============================================================================
