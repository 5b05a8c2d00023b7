--------------------------- MODULE DaemonLifecycle ---------------------------
(***************************************************************************)
(* Daemon processes from start to end (daemon/cmd/yaawp-daemon/main.go and *)
(* Serve in ipc/server.go), what they share in the file system, and the    *)
(* GUI that starts them and connects to them (gui/src/ipcclient.cpp).      *)
(*                                                                         *)
(*   main[p]    the main goroutine                                         *)
(*   serve[p]   the goroutine of Serve                                     *)
(*   closer[p]  the goroutine that Serve starts to close the listener      *)
(*                                                                         *)
(* The kernel is external: it gives the lock back and ends the connections *)
(* of a process that ends, and leaves its socket file behind.              *)
(***************************************************************************)
EXTENDS Naturals

CONSTANTS
    Procs,      \* bound on the daemon processes at one time
    NoProc,     \* no process
    Stale,      \* a socket file whose listener is gone
    Broken,     \* a connection whose other end is gone
    MaxStops,   \* bound on signals and crashes
    MaxStarts   \* bound on starts by the service manager

ASSUME LifecycleAssumption ==
    /\ NoProc \notin Procs /\ Stale \notin Procs /\ Broken \notin Procs
    /\ NoProc # Stale /\ NoProc # Broken
    /\ MaxStops \in Nat /\ MaxStarts \in Nat

VARIABLES
    main, serve, closer,
    ctx,        \* ctx[p]: the context of p is cancelled
    lock,       \* the process that holds the lock file
    path,       \* the process whose listener the socket file leads to
    engines,    \* processes whose engine is between New and Disconnect: it has
                \* the application store open and uses the WhatsApp session
    peer,       \* the process the GUI is connected to
    accepted,   \* whether that process has accepted the connection
    timer,      \* connectToDaemon is due
    cooldown,   \* the GUI has spawned a daemon less than five seconds ago
    stops, starts

procVars == <<main, serve, closer, ctx, lock, path, engines>>
guiVars  == <<peer, accepted, timer, cooldown>>
vars     == <<procVars, guiVars, stops, starts>>

TypeOK ==
    /\ main \in [Procs -> {"none", "lock", "open", "run", "unlink", "release",
                           "exit"}]
    /\ serve \in [Procs -> {"none", "clear", "listen", "accept"}]
    /\ closer \in [Procs -> {"none", "wait", "unlink"}]
    /\ ctx \in [Procs -> BOOLEAN]
    /\ lock \in Procs \cup {NoProc}
    /\ path \in Procs \cup {NoProc, Stale}
    /\ engines \in SUBSET Procs
    /\ peer \in Procs \cup {NoProc, Broken}
    /\ accepted \in BOOLEAN /\ timer \in BOOLEAN /\ cooldown \in BOOLEAN
    /\ stops \in 0..MaxStops /\ starts \in 0..MaxStarts

\* main() of the GUI ends with connectToDaemon.
Init ==
    /\ main = [p \in Procs |-> "none"]
    /\ serve = [p \in Procs |-> "none"]
    /\ closer = [p \in Procs |-> "none"]
    /\ ctx = [p \in Procs |-> FALSE]
    /\ lock = NoProc /\ path = NoProc /\ engines = {}
    /\ peer = NoProc /\ accepted = FALSE
    /\ timer = TRUE /\ cooldown = FALSE
    /\ stops = 0 /\ starts = 0

-----------------------------------------------------------------------------
(* The main goroutine.                                                     *)

\* A process starts: it comes to acquireLock.
StartProcess(p) == main[p] = "none" /\ main' = [main EXCEPT ![p] = "lock"]

\* A process ends, with all its goroutines.
EndProcess(p) ==
    /\ main' = [main EXCEPT ![p] = "none"]
    /\ serve' = [serve EXCEPT ![p] = "none"]
    /\ closer' = [closer EXCEPT ![p] = "none"]
    /\ ctx' = [ctx EXCEPT ![p] = FALSE]
    /\ lock' = IF lock = p THEN NoProc ELSE lock
    /\ path' = IF path = p THEN Stale ELSE path
    /\ engines' = engines \ {p}
    /\ peer' = IF peer = p THEN Broken ELSE peer
    /\ UNCHANGED <<accepted, timer, cooldown>>

\* Mutant of AcquireLock: the process goes on without the lock.
AcquireLockIgnored(p) ==
    /\ main[p] = "lock"
    /\ main' = [main EXCEPT ![p] = "open"]
    /\ lock' = IF lock = NoProc THEN p ELSE lock
    /\ UNCHANGED <<serve, closer, ctx, path, engines, guiVars, stops, starts>>

\* acquireLock does not wait: a process that does not get the lock ends.
AcquireLock(p) ==
    /\ main[p] = "lock"
    /\ \/ lock = NoProc /\ lock' = p /\ main' = [main EXCEPT ![p] = "open"]
       \/ /\ lock # NoProc /\ UNCHANGED lock
          /\ main' = [main EXCEPT ![p] = "none"]
    /\ UNCHANGED <<serve, closer, ctx, path, engines, guiVars, stops, starts>>

\* engine.New opens the stores, and Serve gets a goroutine.
NewEngine(p) ==
    /\ main[p] = "open"
    /\ main' = [main EXCEPT ![p] = "run"]
    /\ engines' = engines \cup {p}
    /\ serve' = [serve EXCEPT ![p] = "clear"]
    /\ UNCHANGED <<closer, ctx, lock, path, guiVars, stops, starts>>

\* engine.New is given the context: once it is cancelled it may fail, which is
\* fatal.
NewFails(p) ==
    /\ main[p] = "open" /\ ctx[p]
    /\ EndProcess(p)
    /\ UNCHANGED <<stops, starts>>

\* Mutant of Disconnect: the lock is given back before the store is closed.
DisconnectLast(p) ==
    /\ main[p] = "run" /\ ctx[p]
    /\ main' = [main EXCEPT ![p] = "unlink"]
    /\ lock' = IF lock = p THEN NoProc ELSE lock
    /\ UNCHANGED <<serve, closer, ctx, path, engines, guiVars, stops, starts>>

\* main is past Start, and <-ctx.Done() returns: Engine.Disconnect.
Disconnect(p) ==
    /\ main[p] = "run" /\ ctx[p]
    /\ main' = [main EXCEPT ![p] = "unlink"]
    /\ engines' = engines \ {p}
    /\ UNCHANGED <<serve, closer, ctx, lock, path, guiVars, stops, starts>>

\* os.Remove at the end of main.
RemoveSocket(p) ==
    /\ main[p] = "unlink"
    /\ main' = [main EXCEPT ![p] = "release"]
    /\ path' = NoProc
    /\ UNCHANGED <<serve, closer, ctx, lock, engines, guiVars, stops, starts>>

\* The deferred release.
ReleaseLock(p) ==
    /\ main[p] = "release"
    /\ main' = [main EXCEPT ![p] = "exit"]
    /\ lock' = NoProc
    /\ UNCHANGED <<serve, closer, ctx, path, engines, guiVars, stops, starts>>

Exit(p) ==
    /\ main[p] = "exit"
    /\ EndProcess(p)
    /\ UNCHANGED <<stops, starts>>

-----------------------------------------------------------------------------
(* Serve.                                                                  *)

\* Mutant of ClearSocket: a stale socket file is left where it is.
ClearSocketNot(p) ==
    /\ serve[p] = "clear"
    /\ serve' = [serve EXCEPT ![p] = "listen"]
    /\ UNCHANGED <<main, closer, ctx, lock, path, engines, guiVars, stops,
                   starts>>

ClearSocket(p) ==
    /\ serve[p] = "clear"
    /\ serve' = [serve EXCEPT ![p] = "listen"]
    /\ path' = NoProc
    /\ UNCHANGED <<main, closer, ctx, lock, engines, guiVars, stops, starts>>

\* net.Listen does not take over a file that exists; its error is fatal.
Listen(p) ==
    /\ serve[p] = "listen"
    /\ \/ /\ path = NoProc /\ path' = p
          /\ serve' = [serve EXCEPT ![p] = "accept"]
          /\ closer' = [closer EXCEPT ![p] = "wait"]
          /\ UNCHANGED <<main, ctx, lock, engines, guiVars>>
       \/ path # NoProc /\ EndProcess(p)
    /\ UNCHANGED <<stops, starts>>

Accept(p) ==
    /\ serve[p] = "accept" /\ peer = p /\ ~accepted
    /\ accepted' = TRUE
    /\ UNCHANGED <<procVars, peer, timer, cooldown, stops, starts>>

\* Closing the listener unlinks its path, whoever listens there, and drops a
\* connection that is not accepted; Accept fails and Serve returns.
CloseListener(p) ==
    /\ closer[p] = "wait" /\ ctx[p]
    /\ closer' = [closer EXCEPT ![p] = "unlink"]
    /\ serve' = [serve EXCEPT ![p] = "none"]
    /\ path' = NoProc
    /\ peer' = IF peer = p /\ ~accepted THEN Broken ELSE peer
    /\ UNCHANGED <<main, ctx, lock, engines, accepted, timer, cooldown, stops,
                   starts>>

\* The os.Remove that follows.
RemoveClosed(p) ==
    /\ closer[p] = "unlink"
    /\ closer' = [closer EXCEPT ![p] = "none"]
    /\ path' = NoProc
    /\ UNCHANGED <<main, serve, ctx, lock, engines, guiVars, stops, starts>>

-----------------------------------------------------------------------------
(* The GUI: IpcClient.                                                     *)

\* ensureDaemonRunning: at most one spawn in five seconds.
Spawn ==
    \/ cooldown /\ UNCHANGED <<main, cooldown>>
    \/ ~cooldown /\ cooldown' = TRUE /\ \E p \in Procs : StartProcess(p)

\* Mutant of OnSocketError: no retry.
OnSocketErrorOnce == Spawn /\ timer' = FALSE

OnSocketError == Spawn /\ timer' = TRUE

\* connectToDaemon.
Connect ==
    /\ timer
    /\ \/ /\ peer # NoProc
          /\ timer' = FALSE
          /\ UNCHANGED <<main, peer, accepted, cooldown>>
       \/ /\ peer = NoProc /\ path \in Procs
          /\ peer' = path /\ accepted' = FALSE /\ timer' = FALSE
          /\ UNCHANGED <<main, cooldown>>
       \/ /\ peer = NoProc /\ path \notin Procs
          /\ OnSocketError
          /\ UNCHANGED <<peer, accepted>>
    /\ UNCHANGED <<serve, closer, ctx, lock, path, engines, stops, starts>>

\* The socket reports the error and then the disconnection.
ConnectionLost ==
    /\ peer = Broken
    /\ peer' = NoProc /\ accepted' = FALSE
    /\ OnSocketError
    /\ UNCHANGED <<serve, closer, ctx, lock, path, engines, stops, starts>>

CooldownOver ==
    /\ cooldown /\ cooldown' = FALSE
    /\ UNCHANGED <<procVars, peer, accepted, timer, stops, starts>>

-----------------------------------------------------------------------------
(* What happens to the daemon.                                             *)

Stop == stops < MaxStops /\ stops' = stops + 1

\* SIGINT or SIGTERM, once signal.NotifyContext handles them.
Signal(p) ==
    /\ main[p] \in {"open", "run"} /\ ~ctx[p] /\ Stop
    /\ ctx' = [ctx EXCEPT ![p] = TRUE]
    /\ UNCHANGED <<main, serve, closer, lock, path, engines, guiVars, starts>>

\* A fatal error, a panic, or a signal that is not handled.
Crash(p) ==
    /\ main[p] # "none" /\ Stop
    /\ EndProcess(p)
    /\ UNCHANGED starts

\* The service manager starts a daemon of its own.
ServiceStart(p) ==
    /\ starts < MaxStarts /\ starts' = starts + 1
    /\ StartProcess(p)
    /\ UNCHANGED <<serve, closer, ctx, lock, path, engines, guiVars, stops>>

-----------------------------------------------------------------------------
Main(p) == \/ AcquireLock(p) \/ NewEngine(p) \/ NewFails(p) \/ Disconnect(p)
           \/ RemoveSocket(p) \/ ReleaseLock(p) \/ Exit(p)

Serve(p) == ClearSocket(p) \/ Listen(p) \/ Accept(p)

Closer(p) == CloseListener(p) \/ RemoveClosed(p)

Next ==
    \/ \E p \in Procs : \/ Main(p) \/ Serve(p) \/ Closer(p)
                        \/ Signal(p) \/ Crash(p) \/ ServiceStart(p)
    \/ Connect \/ ConnectionLost \/ CooldownOver

Spec == Init /\ [][Next]_vars

\* The kernel runs every process, Go every goroutine, and the timers and socket
\* signals of the GUI are delivered by its event loop.
FairSpec ==
    /\ Spec
    /\ \A p \in Procs :
         WF_vars(Main(p)) /\ WF_vars(Serve(p)) /\ WF_vars(Closer(p))
    /\ WF_vars(Connect) /\ WF_vars(ConnectionLost) /\ WF_vars(CooldownOver)

-----------------------------------------------------------------------------
(* Properties.                                                             *)

\* A process that is between its acquireLock and its release is the one that
\* holds the lock, and only such a process has an engine: engine.New comes after
\* the lock and Disconnect before its release (main.go:28-63).
HolderInv ==
    /\ TypeOK
    /\ \A p \in Procs :
         main[p] \in {"open", "run", "unlink", "release"} => lock = p
    /\ \A p \in engines : main[p] = "run"

\* The lifecycle implements Ownership: however processes start, are stopped and
\* crash, the store passes from one engine to the next.
Owners == INSTANCE Ownership WITH owners <- engines
SingleOwner == Owners!Spec

\* The holder of the lock listens, but the socket file does not lead to it: the
\* late goroutines of its predecessor have removed the file (server.go:63-67),
\* and no other daemon can take over.
Orphaned ==
    \E p \in Procs : lock = p /\ closer[p] = "wait" /\ ~ctx[p] /\ path # p

\* A GUI without connection gets one, whatever has stopped the daemon: it spawns
\* one, retries, and a new daemon clears the stale socket file; except when a
\* daemon is orphaned (ipcclient.cpp:58-98, server.go:54-58).
Reconnects == peer = NoProc ~> peer \in Procs \/ Orphaned
=============================================================================
