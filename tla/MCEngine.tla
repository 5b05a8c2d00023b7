------------------------------ MODULE MCEngine ------------------------------
(***************************************************************************)
(* Instances of Engine for TLC.  A message's attributes are fixed by which *)
(* of the definitions below is chosen; m1 is the oldest.                   *)
(***************************************************************************)
EXTENDS Engine

CONSTANTS m1, m2, a

MCTs       == [m \in Msgs |-> IF m = m1 THEN 1 ELSE 2]
MCChatOfA  == [m \in Msgs |-> a]
MCBody     == [m \in Msgs |-> "hi"]

\* m2 was written by this account.
MCSecondMine  == [m \in Msgs |-> m = m2]
MCAllText     == [m \in Msgs |-> "text"]
MCFirstImage  == [m \in Msgs |-> IF m = m1 THEN "image" ELSE "text"]
=============================================================================
