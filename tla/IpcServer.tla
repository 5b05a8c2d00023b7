----------------------------- MODULE IpcServer ------------------------------
(***************************************************************************)
(* The daemon's IPC server (daemon/internal/ipc/server.go): the connected  *)
(* clients, the read-write lock that guards them, the broadcasts under way *)
(* and the goroutine that serves each connection.                          *)
(*                                                                         *)
(* This module defines the server's own steps; a module that EXTENDS it    *)
(* says what its backend answers and who emits.                            *)
(***************************************************************************)
EXTENDS Naturals, Sequences

CONSTANTS
    Conns,      \* GUI processes; each has at most one connection
    Emitters,   \* goroutines that push events
    SockCap     \* frames that fit in a client's socket buffer

ASSUME ServerAssumption == SockCap \in Nat \ {0}

VARIABLES
    open,       \* open[c]: the GUI holds its end of c's connection open
    clients,    \* Server.clients
    handler,    \* handler[c]: handleConn; out is what it has decided to write
    cast,       \* cast[g]: the Broadcast of g, its event and the clients left
    sock        \* sock[c]: frames written to c and not read yet

serverVars == <<open, clients, handler, cast, sock>>

NoHandler == [pc |-> "none", out |-> <<>>]

\* The server before any connection; idle is the event of no broadcast.
ServerInit(idle) ==
    /\ open = [c \in Conns |-> FALSE]
    /\ clients = {}
    /\ handler = [c \in Conns |-> NoHandler]
    /\ cast = [g \in Emitters |-> [frame |-> idle, todo |-> {}]]
    /\ sock = [c \in Conns |-> <<>>]

-----------------------------------------------------------------------------
(* Server.mu.  A Broadcast holds it for reading until its last write; a    *)
(* pending Lock keeps new readers out (sync.RWMutex).                      *)

Casting(g)  == cast[g].todo # {}
ReadLocked  == \E g \in Emitters : Casting(g)
LockPending == \E c \in Conns : handler[c].pc \in {"register", "leave"}

\* Mutant of Broadcast: TryRLock; the event is dropped when it fails.
BroadcastTryLock(g, frame) ==
    /\ ~Casting(g)
    /\ cast' = IF LockPending THEN cast
               ELSE [cast EXCEPT ![g] = [frame |-> frame, todo |-> clients]]

\* Engine.emit: the first step of Broadcast takes the read lock.
Broadcast(g, frame) ==
    /\ ~Casting(g) /\ ~LockPending
    /\ cast' = [cast EXCEPT ![g] = [frame |-> frame, todo |-> clients]]

\* Mutant of Write: a write to a closed connection never returns.
WriteBlocksForEver(c, frame) ==
    /\ open[c] /\ Len(sock[c]) < SockCap
    /\ sock' = [sock EXCEPT ![c] = Append(sock[c], frame)]

\* client.write: it blocks while the buffer is full; on a connection that the
\* GUI has closed the error is ignored.
Write(c, frame) ==
    \/ /\ open[c] /\ Len(sock[c]) < SockCap
       /\ sock' = [sock EXCEPT ![c] = Append(sock[c], frame)]
    \/ ~open[c] /\ UNCHANGED sock

\* The next write of a Broadcast; a Go map is ranged over in any order.
CastWrite(g) ==
    \E c \in cast[g].todo :
        /\ Write(c, cast[g].frame)
        /\ cast' = [cast EXCEPT ![g].todo = @ \ {c}]
        /\ UNCHANGED <<open, clients, handler>>

-----------------------------------------------------------------------------
(* Connections.                                                            *)

\* The GUI connects and Serve accepts.
Accept(c) ==
    /\ ~open[c] /\ handler[c].pc = "none"
    /\ open' = [open EXCEPT ![c] = TRUE]
    /\ handler' = [handler EXCEPT ![c].pc = "register"]
    /\ UNCHANGED <<clients, cast, sock>>

\* handleConn adds the client under the write lock, before the snapshot.
Register(c) ==
    /\ handler[c].pc = "register" /\ ~ReadLocked
    /\ clients' = clients \cup {c}
    /\ handler' = [handler EXCEPT ![c].pc = "snapshot"]
    /\ UNCHANGED <<open, cast, sock>>

HandlerWrite(c) ==
    /\ handler[c].pc = "serve" /\ handler[c].out # <<>>
    /\ Write(c, Head(handler[c].out))
    /\ handler' = [handler EXCEPT ![c].out = Tail(@)]
    /\ UNCHANGED <<open, clients, cast>>

\* The GUI quits or loses the connection.
Close(c) ==
    /\ open[c]
    /\ open' = [open EXCEPT ![c] = FALSE]
    /\ sock' = [sock EXCEPT ![c] = <<>>]
    /\ UNCHANGED <<clients, handler, cast>>

\* The scanner of handleConn sees the end of the stream.
EndOfStream(c) ==
    /\ handler[c] = [pc |-> "serve", out |-> <<>>] /\ ~open[c]
    /\ handler' = [handler EXCEPT ![c].pc = "leave"]
    /\ UNCHANGED <<open, clients, cast, sock>>

Unregister(c) ==
    /\ handler[c].pc = "leave" /\ ~ReadLocked
    /\ clients' = clients \ {c}
    /\ handler' = [handler EXCEPT ![c] = NoHandler]
    /\ UNCHANGED <<open, cast, sock>>

HandlerStep(c) ==
    Register(c) \/ HandlerWrite(c) \/ EndOfStream(c) \/ Unregister(c)
=============================================================================
