--------------------------- MODULE LifecycleProofs ---------------------------
(***************************************************************************)
(* Proofs about DaemonLifecycle, for any number of processes, stops and    *)
(* starts.                                                                 *)
(***************************************************************************)
EXTENDS DaemonLifecycle, TLAPS

\* The control states in which a main goroutine has the lock.
Holding == {"open", "run", "unlink", "release"}

\* The end of a process takes it out of everything it held.
LEMMA EndProcessKeepsHolder ==
    ASSUME HolderInv, NEW p \in Procs, EndProcess(p), stops' \in 0..MaxStops,
           starts' \in 0..MaxStarts
    PROVE  HolderInv' /\ engines' = engines \ {p}
<1>1. TypeOK'
  BY DEF HolderInv, TypeOK, EndProcess
<1>2. ASSUME NEW q \in Procs, main'[q] \in {"open", "run", "unlink", "release"}
      PROVE  lock' = q
  BY <1>2 DEF HolderInv, TypeOK, EndProcess
<1>3. ASSUME NEW q \in engines'
      PROVE  main'[q] = "run"
  BY <1>3 DEF HolderInv, TypeOK, EndProcess
<1> QED
  BY <1>1, <1>2, <1>3 DEF HolderInv, EndProcess

\* What leaves main, the lock and the engines alone keeps HolderInv.
LEMMA UntouchedKeepsHolder ==
    ASSUME HolderInv, TypeOK', UNCHANGED <<main, lock, engines>>
    PROVE  HolderInv'
BY DEF HolderInv

\* The steps of the main goroutine.
LEMMA MainKeepsHolder ==
    ASSUME HolderInv, NEW p \in Procs, Main(p)
    PROVE  HolderInv'
<1>0. TypeOK
  BY DEF HolderInv
<1>1. CASE AcquireLock(p)
  <2>1. TypeOK'
    BY <1>0, <1>1 DEF TypeOK, AcquireLock, guiVars
  <2>2. ASSUME NEW q \in Procs, main'[q] \in Holding
        PROVE  lock' = q
    BY LifecycleAssumption, <1>0, <1>1, <2>2 DEF HolderInv, TypeOK, AcquireLock, Holding
  <2>3. ASSUME NEW q \in engines'
        PROVE  main'[q] = "run"
    BY <1>0, <1>1, <2>3 DEF HolderInv, TypeOK, AcquireLock
  <2> QED
    BY <2>1, <2>2, <2>3 DEF HolderInv, Holding
<1>2. CASE NewEngine(p)
  <2>1. TypeOK'
    BY <1>0, <1>2 DEF TypeOK, NewEngine, guiVars
  <2>2. ASSUME NEW q \in Procs, main'[q] \in Holding
        PROVE  lock' = q
    BY <1>0, <1>2, <2>2 DEF HolderInv, TypeOK, NewEngine, Holding
  <2>3. ASSUME NEW q \in engines'
        PROVE  main'[q] = "run"
    BY <1>0, <1>2, <2>3 DEF HolderInv, TypeOK, NewEngine
  <2> QED
    BY <2>1, <2>2, <2>3 DEF HolderInv, Holding
<1>3. CASE NewFails(p) \/ Exit(p)
  BY <1>0, <1>3, EndProcessKeepsHolder DEF NewFails, Exit, TypeOK
<1>4. CASE Disconnect(p)
  <2>1. TypeOK'
    BY <1>0, <1>4 DEF TypeOK, Disconnect, guiVars
  <2>2. ASSUME NEW q \in Procs, main'[q] \in Holding
        PROVE  lock' = q
    BY <1>0, <1>4, <2>2 DEF HolderInv, TypeOK, Disconnect, Holding
  <2>3. ASSUME NEW q \in engines'
        PROVE  main'[q] = "run"
    BY <1>0, <1>4, <2>3 DEF HolderInv, TypeOK, Disconnect
  <2> QED
    BY <2>1, <2>2, <2>3 DEF HolderInv, Holding
<1>5. CASE RemoveSocket(p)
  <2>1. TypeOK'
    BY <1>0, <1>5 DEF TypeOK, RemoveSocket, guiVars
  <2>2. ASSUME NEW q \in Procs, main'[q] \in Holding
        PROVE  lock' = q
    BY <1>0, <1>5, <2>2 DEF HolderInv, TypeOK, RemoveSocket, Holding
  <2>3. ASSUME NEW q \in engines'
        PROVE  main'[q] = "run"
    BY <1>0, <1>5, <2>3 DEF HolderInv, TypeOK, RemoveSocket
  <2> QED
    BY <2>1, <2>2, <2>3 DEF HolderInv, Holding
<1>6. CASE ReleaseLock(p)
  <2>1. TypeOK'
    BY <1>0, <1>6 DEF TypeOK, ReleaseLock, guiVars
  <2>2. lock = p
    BY <1>6 DEF HolderInv, ReleaseLock
  <2>3. \A q \in Procs : main'[q] \notin Holding
    BY <1>0, <1>6, <2>2 DEF HolderInv, TypeOK, ReleaseLock, Holding
  <2>4. ASSUME NEW q \in engines'
        PROVE  main'[q] = "run"
    BY <1>0, <1>6, <2>4 DEF HolderInv, TypeOK, ReleaseLock
  <2> QED
    BY <2>1, <2>3, <2>4 DEF HolderInv, Holding
<1> QED
  BY <1>1, <1>2, <1>3, <1>4, <1>5, <1>6 DEF Main

\* The goroutines of Serve.
LEMMA ServeKeepsHolder ==
    ASSUME HolderInv, NEW p \in Procs, Serve(p) \/ Closer(p)
    PROVE  HolderInv'
<1>0. TypeOK
  BY DEF HolderInv
<1>1. CASE ClearSocket(p) \/ Accept(p) \/ Closer(p)
  <2>1. TypeOK'
    BY <1>0, <1>1 DEF TypeOK, ClearSocket, Accept, Closer, CloseListener,
                      RemoveClosed, guiVars, procVars
  <2>2. UNCHANGED <<main, lock, engines>>
    BY <1>1 DEF ClearSocket, Accept, Closer, CloseListener, RemoveClosed, procVars
  <2> QED
    BY <2>1, <2>2, UntouchedKeepsHolder
<1>2. CASE Listen(p) /\ path = NoProc
  <2>1. UNCHANGED <<main, lock, engines>> /\ TypeOK'
    BY <1>0, <1>2 DEF TypeOK, Listen, guiVars
  <2> QED
    BY <2>1, UntouchedKeepsHolder
<1>3. CASE Listen(p) /\ path # NoProc
  BY <1>0, <1>3, EndProcessKeepsHolder DEF Listen, TypeOK
<1> QED
  BY <1>1, <1>2, <1>3 DEF Serve

\* A new process has yet to come to its acquireLock.
LEMMA StartKeepsHolder ==
    ASSUME HolderInv, NEW p \in Procs, StartProcess(p), TypeOK',
           UNCHANGED <<lock, engines>>
    PROVE  HolderInv'
<1>0. TypeOK
  BY DEF HolderInv
<1>1. ASSUME NEW q \in Procs, main'[q] \in Holding
      PROVE  lock' = q
  BY <1>0, <1>1 DEF HolderInv, TypeOK, StartProcess, Holding
<1>2. ASSUME NEW q \in engines'
      PROVE  main'[q] = "run"
  BY <1>0, <1>2 DEF HolderInv, TypeOK, StartProcess
<1> QED
  BY <1>1, <1>2 DEF HolderInv, Holding

\* The GUI, and what happens to the daemon.
LEMMA OutsideKeepsHolder ==
    ASSUME HolderInv,
           \/ Connect \/ ConnectionLost \/ CooldownOver
           \/ \E p \in Procs : Signal(p) \/ Crash(p) \/ ServiceStart(p)
    PROVE  HolderInv'
<1>0. TypeOK
  BY DEF HolderInv
<1>1. ASSUME Spawn, TypeOK', UNCHANGED <<lock, engines>>
      PROVE  HolderInv'
  BY <1>1, StartKeepsHolder, UntouchedKeepsHolder DEF Spawn
<1>2. CASE Connect
  <2>1. TypeOK' /\ UNCHANGED <<lock, engines>>
    BY <1>0, <1>2 DEF TypeOK, Connect, OnSocketError, Spawn, StartProcess
  <2>2. Spawn \/ UNCHANGED main
    BY <1>2 DEF Connect, OnSocketError
  <2> QED
    BY <1>1, <2>1, <2>2, UntouchedKeepsHolder
<1>3. CASE ConnectionLost
  <2>1. TypeOK' /\ UNCHANGED <<lock, engines>> /\ Spawn
    BY <1>0, <1>3 DEF TypeOK, ConnectionLost, OnSocketError, Spawn, StartProcess
  <2> QED
    BY <1>1, <2>1
<1>4. CASE CooldownOver
  BY <1>0, <1>4, UntouchedKeepsHolder DEF CooldownOver, TypeOK, procVars
<1>5. ASSUME NEW p \in Procs, Signal(p)
      PROVE  HolderInv'
  <2>1. TypeOK' /\ UNCHANGED <<main, lock, engines>>
    BY LifecycleAssumption, <1>0, <1>5 DEF TypeOK, Signal, Stop, guiVars
  <2> QED
    BY <2>1, UntouchedKeepsHolder
<1>6. ASSUME NEW p \in Procs, Crash(p)
      PROVE  HolderInv'
  <2>1. stops' \in 0..MaxStops /\ starts' \in 0..MaxStarts /\ EndProcess(p)
    BY LifecycleAssumption, <1>0, <1>6 DEF TypeOK, Crash, Stop
  <2> QED
    BY <2>1, EndProcessKeepsHolder
<1>7. ASSUME NEW p \in Procs, ServiceStart(p)
      PROVE  HolderInv'
  <2>1. TypeOK' /\ StartProcess(p) /\ UNCHANGED <<lock, engines>>
    BY LifecycleAssumption, <1>0, <1>7 DEF TypeOK, ServiceStart, StartProcess, guiVars
  <2> QED
    BY <2>1, StartKeepsHolder
<1> QED
  BY <1>2, <1>3, <1>4, <1>5, <1>6, <1>7

\* Only the holder of the lock is between acquireLock and release, and only it
\* has an engine, however processes start, stop and crash.
THEOREM HolderTheorem == Spec => []HolderInv
<1>1. Init => HolderInv
  <2>1. ASSUME Init PROVE TypeOK
    <3>1. stops \in 0..MaxStops /\ starts \in 0..MaxStarts
      BY <2>1, LifecycleAssumption DEF LifecycleAssumption, Init
    <3>2. accepted \in BOOLEAN /\ timer \in BOOLEAN /\ cooldown \in BOOLEAN
      BY <2>1 DEF Init
    <3>3. ctx \in [Procs -> BOOLEAN]
      BY <2>1 DEF Init
    <3> QED
      BY <2>1, <3>1, <3>2, <3>3 DEF Init, TypeOK
  <2>2. ASSUME Init PROVE (\A p \in Procs : main[p] = "none") /\ engines = {}
    BY <2>2 DEF Init
  <2> QED
    BY <2>1, <2>2 DEF HolderInv
<1>2. HolderInv /\ [Next]_vars => HolderInv'
  <2> SUFFICES ASSUME HolderInv, [Next]_vars
               PROVE  HolderInv'
    OBVIOUS
  <2>1. CASE Next
    BY <2>1, MainKeepsHolder, ServeKeepsHolder, OutsideKeepsHolder DEF Next
  <2>2. CASE UNCHANGED vars
    BY <2>2 DEF HolderInv, TypeOK, vars, procVars, guiVars
  <2> QED
    BY <2>1, <2>2
<1> QED
  BY <1>1, <1>2, PTL DEF Spec

-----------------------------------------------------------------------------
(* The refinement.                                                         *)

\* Nobody but the holder of the lock has an engine.
LEMMA OneOwner ==
    ASSUME HolderInv, NEW p \in Procs, main[p] \in Holding
    PROVE  engines \subseteq {p}
BY DEF HolderInv, TypeOK, Holding

\* When the engine of a process is gone, there is none.
LEMMA LeavingEngine ==
    ASSUME HolderInv, NEW p \in Procs, engines' = engines \ {p}
    PROVE  [Owners!Next]_engines
<1>1. CASE p \in engines
  <2>1. engines = {p}
    BY <1>1, OneOwner DEF HolderInv, Holding
  <2> QED
    BY <2>1 DEF Owners!Next, Owners!Leave
<1>2. CASE p \notin engines
  BY <1>2
<1> QED
  BY <1>1, <1>2

\* Every step is a step of Ownership or leaves the engines alone.
LEMMA StepRefines == HolderInv /\ [Next]_vars => [Owners!Next]_engines
<1> SUFFICES ASSUME HolderInv, [Next]_vars
             PROVE  [Owners!Next]_engines
  OBVIOUS
<1>1. ASSUME NEW p \in Procs, NewEngine(p)
      PROVE  [Owners!Next]_engines
  <2>1. main[p] = "open" /\ engines' = engines \cup {p}
    BY <1>1 DEF NewEngine
  <2>2. engines \subseteq {p} /\ p \notin engines
    BY <2>1, OneOwner DEF HolderInv, Holding
  <2>3. engines = {} /\ engines' = {p}
    BY <2>1, <2>2
  <2> QED
    BY <2>3 DEF Owners!Next, Owners!Take
<1>2. ASSUME NEW p \in Procs,
             NewFails(p) \/ Disconnect(p) \/ Exit(p) \/ Crash(p)
      PROVE  [Owners!Next]_engines
  BY <1>2, LeavingEngine DEF NewFails, Disconnect, Exit, Crash, EndProcess
<1>3. ASSUME NEW p \in Procs, Listen(p)
      PROVE  [Owners!Next]_engines
  <2>1. engines' = engines \/ engines' = engines \ {p}
    BY <1>3 DEF Listen, EndProcess
  <2> QED
    BY <2>1, LeavingEngine
<1>4. ASSUME NEW p \in Procs,
             \/ AcquireLock(p) \/ RemoveSocket(p) \/ ReleaseLock(p)
             \/ ClearSocket(p) \/ Accept(p) \/ Closer(p) \/ Signal(p)
             \/ ServiceStart(p)
      PROVE  UNCHANGED engines
  BY <1>4 DEF AcquireLock, RemoveSocket, ReleaseLock, ClearSocket, Accept, Closer,
              CloseListener, RemoveClosed, Signal, ServiceStart, procVars
<1>5. CASE Connect \/ ConnectionLost \/ CooldownOver \/ UNCHANGED vars
  BY <1>5 DEF Connect, ConnectionLost, CooldownOver, vars, procVars
<1> QED
  BY <1>1, <1>2, <1>3, <1>4, <1>5 DEF Next, Main, Serve

\* The daemon's lifecycle implements the single owner of the store.
THEOREM SingleOwnerTheorem == Spec => SingleOwner
<1>1. Init => Owners!Init
  BY DEF Init, Owners!Init
<1>2. HolderInv /\ [Next]_vars => [Owners!Next]_engines
  BY StepRefines
<1> QED
  BY <1>1, <1>2, HolderTheorem, PTL DEF Spec, SingleOwner, Owners!Spec
=============================================================================
