------------------------------ MODULE GuiLink -------------------------------
(***************************************************************************)
(* One GUI process connected to the daemon of Engine: what                 *)
(* gui/src/ipcclient.cpp and the loop of Server.handleConn put between the *)
(* models of the GUI and the engine.                                       *)
(*                                                                         *)
(* Commands travel in order, and handleConn takes the next one when it has *)
(* written the response to the one before.  The GUI handles one frame or   *)
(* one act of its user at a time.  A module that EXTENDS this one says     *)
(* what the GUI does with the frames.                                      *)
(***************************************************************************)
EXTENDS Engine

CONSTANTS
    Gui,         \* the GUI process
    MaxActs,     \* bound on what the user and the network do
    MaxReqs,     \* bound on the commands on their way
    MaxRestarts  \* bound on the daemon's restarts

ASSUME LinkAssumption ==
    /\ Clients = {Gui} /\ MaxActs \in Nat /\ MaxReqs \in Nat
    /\ MaxRestarts \in Nat

VARIABLES
    up,        \* m_socket is connected
    reqs,      \* commands the GUI has written and handleConn has not read
    query,     \* the list command that dispatch executes, and its rows
    acts, restarts

linkVars == <<up, reqs, query, acts, restarts>>

NoQuery == [pc |-> "none"]

LinkInit == up = TRUE /\ reqs = <<>> /\ query = NoQuery /\ acts = 0 /\ restarts = 0

-----------------------------------------------------------------------------
(* The GUI's side.                                                         *)

\* IpcClient::send drops the command while there is no connection.
Sent(cmds) == IF up THEN reqs \o cmds ELSE reqs

\* The user, or the network, does something.
Act == acts < MaxActs /\ acts' = acts + 1

\* The next frame, taken from the socket.
Reading(f) ==
    /\ up /\ sock[Gui] # <<>> /\ f = Head(sock[Gui])
    /\ Len(reqs) < MaxReqs
    /\ sock' = [sock EXCEPT ![Gui] = Tail(@)]

-----------------------------------------------------------------------------
(* The daemon's side.                                                      *)

HandlerFree == CmdFree(Gui) /\ query = NoQuery

\* handleConn reads the next command, if it is one of the method.
Takes(method) ==
    /\ HandlerFree /\ reqs # <<>> /\ Head(reqs).method = method
    /\ reqs' = Tail(reqs)

\* The response of a list command is written like every other.
Respond(frame) ==
    /\ Len(sock[Gui]) < SockCap
    /\ sock' = [sock EXCEPT ![Gui] = Append(@, frame)]
    /\ query' = NoQuery

-----------------------------------------------------------------------------
(* The connection.                                                         *)

\* The daemon stops and starts again: what was on the way is lost.
LinkLost ==
    /\ restarts < MaxRestarts /\ restarts' = restarts + 1
    /\ Restart
    /\ up' = FALSE /\ reqs' = <<>> /\ query' = NoQuery
    /\ UNCHANGED acts

\* Without a connection a frame reaches nobody.
FrameLost ==
    /\ ~up /\ ClientRead(Gui)
    /\ UNCHANGED linkVars

Reconnected ==
    /\ ~up /\ sock[Gui] = <<>>
    /\ up' = TRUE
    /\ UNCHANGED <<query, acts, restarts>>
=============================================================================
