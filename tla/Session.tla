------------------------------ MODULE Session -------------------------------
(***************************************************************************)
(* The WhatsApp session as the GUIs see it: the engine's connection state  *)
(* and QR code (engine.go, events.go), the snapshot and the broadcasts     *)
(* that carry them (server.go), and what the GUI makes of them             *)
(* (ipcclient.cpp, controller.cpp).                                        *)
(*                                                                         *)
(* whatsmeow is external: it is modelled as the source of the events that  *)
(* handleEvent and the QR goroutine consume.                               *)
(***************************************************************************)
EXTENDS IpcServer

CONSTANTS
    MaxCodes,    \* QR codes are 1, 2, ..., MaxCodes, in the order issued
    MaxChanges,  \* bound on the session changes of a behaviour
    MaxOpens     \* bound on the connections a behaviour opens

ASSUME SessionAssumption ==
    /\ Emitters = {"main", "event", "qr"}
    /\ MaxCodes \in Nat /\ MaxChanges \in Nat /\ MaxOpens \in Nat

VARIABLES
    paired,     \* Store.ID # nil (external)
    online,     \* a paired device that IsConnected (external)
    linking,    \* the QR channel is open (external)
    issued,     \* QR codes issued so far (external)
    connecting, \* client.Connect has been called
    lastQR,     \* Engine.lastQR; 0 is the empty string
    emitter,    \* emitter[g]: the events goroutine g has decided to emit
    evq, qrq,   \* what whatsmeow has to hand to handleEvent, to the QR goroutine
    main,       \* main, in Engine.Start
    asked,      \* asked[c]: c's get_state is on its way
    shown, shownQR,  \* Controller's connectionState and qrCode, per GUI
    heard,      \* heard[c]: states the event stream told c since the last change
    seenQR,     \* seenQR[c]: QR codes c has received
    changes, opens

waVars      == <<paired, online, linking, issued, connecting>>
guiVars     == <<shown, shownQR, heard, seenQR>>
engineVars  == <<lastQR, emitter, evq, qrq, main>>
counterVars == <<changes, opens>>
vars == <<serverVars, waVars, engineVars, asked, guiVars, counterVars>>

States == {"logged_out", "connecting", "connected", "disconnected"}
Codes  == 1..MaxCodes

StateFrame(s) == [ev |-> "connection", state |-> s]
QRFrame(code) == [ev |-> "qr", code |-> code]
PairFrame     == [ev |-> "pair_success"]
StateReply(s) == [ev |-> "get_state", state |-> s]
Frames == [ev : {"connection", "get_state"}, state : States]
          \cup [ev : {"qr"}, code : Codes] \cup {PairFrame}

\* What the QR channel yields.
CodeItem(code) == [item |-> "code", code |-> code]
LastItem(item) == [item |-> item]
QRItems == [item : {"code"}, code : Codes] \cup [item : {"success", "timeout"}]

TypeOK ==
    /\ open \in [Conns -> BOOLEAN] /\ clients \subseteq Conns
    /\ handler \in [Conns -> [pc : {"none", "register", "snapshot", "qr",
                                    "serve", "leave"},
                              out : Seq(Frames)]]
    /\ cast \in [Emitters -> [frame : Frames, todo : SUBSET Conns]]
    /\ sock \in [Conns -> Seq(Frames)]
    /\ paired \in BOOLEAN /\ online \in BOOLEAN /\ (online => paired)
    /\ linking \in BOOLEAN /\ connecting \in BOOLEAN
    /\ main \in {"start", "connect", "done"}
    /\ issued \in 0..MaxCodes /\ lastQR \in 0..MaxCodes
    /\ emitter \in [Emitters -> Seq(Frames)]
    /\ evq \in Seq({"connected", "disconnected", "logged_out", "pair_success"})
    /\ qrq \in Seq(QRItems)
    /\ asked \in [Conns -> BOOLEAN]
    /\ shown \in [Conns -> States] /\ shownQR \in [Conns -> 0..MaxCodes]
    /\ heard \in [Conns -> SUBSET States] /\ seenQR \in [Conns -> SUBSET Codes]
    /\ changes \in 0..MaxChanges /\ opens \in 0..MaxOpens

Init ==
    /\ ServerInit(PairFrame)
    /\ paired \in BOOLEAN /\ online = FALSE /\ linking = FALSE /\ issued = 0
    /\ connecting = FALSE
    /\ lastQR = 0 /\ emitter = [g \in Emitters |-> <<>>]
    /\ evq = <<>> /\ qrq = <<>> /\ main = "start"
    /\ asked = [c \in Conns |-> FALSE]
    /\ shown = [c \in Conns |-> "connecting"]
    /\ shownQR = [c \in Conns |-> 0]
    /\ heard = [c \in Conns |-> {}] /\ seenQR = [c \in Conns |-> {}]
    /\ changes = 0 /\ opens = 0

-----------------------------------------------------------------------------
(* whatsmeow and the phone.  Every change that the engine is told of puts  *)
(* an event in the queue of its handler.                                   *)

Change == changes < MaxChanges /\ changes' = changes + 1

\* The frames that told the GUIs of the previous state no longer count.
Forget == heard' = [c \in Conns |-> {}]

Untouched == /\ UNCHANGED serverVars
             /\ UNCHANGED <<lastQR, emitter, main, asked, opens>>
             /\ UNCHANGED <<shown, shownQR, seenQR>>

IssueCode ==
    /\ linking /\ issued < MaxCodes
    /\ issued' = issued + 1
    /\ qrq' = Append(qrq, CodeItem(issued + 1))
    /\ UNCHANGED <<paired, online, linking, connecting, evq, heard, changes>>
    /\ Untouched

\* No code was scanned in time: the last item of the channel.
CodesRunOut ==
    /\ linking /\ Change
    /\ linking' = FALSE
    /\ qrq' = Append(qrq, LastItem("timeout"))
    /\ UNCHANGED <<paired, online, issued, connecting, evq, heard>>
    /\ Untouched

Pair ==
    /\ linking /\ issued > 0 /\ Change
    /\ paired' = TRUE /\ linking' = FALSE
    /\ qrq' = Append(qrq, LastItem("success")) /\ evq' = Append(evq, "pair_success")
    /\ Forget
    /\ UNCHANGED <<online, issued, connecting>>
    /\ Untouched

GoOnline ==
    /\ paired /\ connecting /\ ~online /\ Change
    /\ online' = TRUE /\ evq' = Append(evq, "connected")
    /\ Forget
    /\ UNCHANGED <<paired, linking, issued, connecting, qrq>>
    /\ Untouched

GoOffline ==
    /\ online /\ Change
    /\ online' = FALSE /\ evq' = Append(evq, "disconnected")
    /\ Forget
    /\ UNCHANGED <<paired, linking, issued, connecting, qrq>>
    /\ Untouched

\* The phone removes this device.
Unlink ==
    /\ online /\ Change
    /\ paired' = FALSE /\ online' = FALSE
    /\ evq' = Append(evq, "logged_out")
    /\ Forget
    /\ UNCHANGED <<linking, issued, connecting, qrq>>
    /\ Untouched

-----------------------------------------------------------------------------
(* The engine.                                                             *)

Busy(g) == emitter[g] # <<>> \/ Casting(g)

Emit(g) ==
    /\ emitter[g] # <<>>
    /\ Broadcast(g, Head(emitter[g]))
    /\ emitter' = [emitter EXCEPT ![g] = Tail(@)]
    /\ UNCHANGED <<open, clients, handler, sock, waVars, lastQR, evq, qrq, main,
                   asked, guiVars, counterVars>>

WillEmit(g, frame) == emitter' = [emitter EXCEPT ![g] = <<frame>>]

\* Engine.Start, up to the call of Connect.
Start ==
    /\ main = "start" /\ main' = "connect"
    /\ WillEmit("main", StateFrame(IF paired THEN "connecting" ELSE "logged_out"))
    /\ UNCHANGED <<serverVars, waVars, lastQR, evq, qrq, asked, guiVars,
                   counterVars>>

\* Connect; without a stored device GetQRChannel and the QR goroutine come with
\* it.  A failure is logged and nothing tries again.
Connect ==
    /\ main = "connect" /\ ~Busy("main") /\ main' = "done"
    /\ connecting' \in BOOLEAN
    /\ linking' = (connecting' /\ ~paired)
    /\ UNCHANGED <<serverVars, paired, online, issued, lastQR, emitter, evq, qrq,
                   asked, guiVars, counterVars>>

\* Mutant of HandleEvent: LoggedOut clears the code and is not announced.
HandleEventQuietLogout ==
    /\ evq # <<>> /\ ~Busy("event")
    /\ evq' = Tail(evq)
    /\ lastQR' = IF Head(evq) = "disconnected" THEN lastQR ELSE 0
    /\ IF Head(evq) = "logged_out" THEN UNCHANGED emitter
       ELSE WillEmit("event", IF Head(evq) = "pair_success" THEN PairFrame
                              ELSE StateFrame(Head(evq)))
    /\ UNCHANGED <<serverVars, waVars, qrq, main, asked, guiVars, counterVars>>

\* handleEvent for the events of the session.
HandleEvent ==
    /\ evq # <<>> /\ ~Busy("event")
    /\ evq' = Tail(evq)
    /\ lastQR' = IF Head(evq) = "disconnected" THEN lastQR ELSE 0
    /\ WillEmit("event", IF Head(evq) = "pair_success" THEN PairFrame
                         ELSE StateFrame(Head(evq)))
    /\ UNCHANGED <<serverVars, waVars, qrq, main, asked, guiVars, counterVars>>

\* Mutant of HandleQR: codes are emitted and not cached.
HandleQRUncached ==
    /\ qrq # <<>> /\ ~Busy("qr")
    /\ qrq' = Tail(qrq)
    /\ LET next == Head(qrq) IN
       \/ next.item = "success" /\ UNCHANGED emitter
       \/ next.item = "timeout" /\ WillEmit("qr", StateFrame("logged_out"))
       \/ next.item = "code" /\ WillEmit("qr", QRFrame(next.code))
    /\ UNCHANGED <<serverVars, waVars, lastQR, evq, main, asked, guiVars,
                   counterVars>>

\* The loop of beginQRLogin; setQR comes before emit.
HandleQR ==
    /\ qrq # <<>> /\ ~Busy("qr")
    /\ qrq' = Tail(qrq)
    /\ LET next == Head(qrq) IN
       \/ next.item = "success" /\ UNCHANGED <<lastQR, emitter>>
       \/ /\ next.item = "timeout"
          /\ lastQR' = 0 /\ WillEmit("qr", StateFrame("logged_out"))
       \/ /\ next.item = "code"
          /\ lastQR' = next.code /\ WillEmit("qr", QRFrame(next.code))
    /\ UNCHANGED <<serverVars, waVars, evq, main, asked, guiVars, counterVars>>

\* InitialEvents reads the state, then the code, and only then are the events
\* written.
SnapshotState(c) ==
    /\ handler[c].pc = "snapshot"
    /\ LET state == IF ~paired THEN "logged_out"
                    ELSE IF online THEN "connected" ELSE "connecting" IN
       handler' = [handler EXCEPT
                     ![c] = [pc |-> IF online THEN "serve" ELSE "qr",
                             out |-> <<StateFrame(state)>>]]
    /\ UNCHANGED <<open, clients, cast, sock, waVars, engineVars, asked, guiVars,
                   counterVars>>

SnapshotQR(c) ==
    /\ handler[c].pc = "qr"
    /\ handler' = [handler EXCEPT
                     ![c] = [pc |-> "serve",
                             out |-> IF lastQR = 0 THEN @.out
                                     ELSE Append(@.out, QRFrame(lastQR))]]
    /\ UNCHANGED <<open, clients, cast, sock, waVars, engineVars, asked, guiVars,
                   counterVars>>

\* Mutant of GetState: a state that the protocol does not have.
GetStateNewName(c) ==
    /\ handler[c] = [pc |-> "serve", out |-> <<>>] /\ asked[c]
    /\ asked' = [asked EXCEPT ![c] = FALSE]
    /\ LET state == IF paired THEN "paired" ELSE "logged_out" IN
       handler' = [handler EXCEPT ![c].out = <<StateReply(state)>>]
    /\ UNCHANGED <<open, clients, cast, sock, waVars, engineVars, guiVars,
                   counterVars>>

\* dispatch of get_state: GetState reads, handleConn writes later.
GetState(c) ==
    /\ handler[c] = [pc |-> "serve", out |-> <<>>] /\ asked[c]
    /\ asked' = [asked EXCEPT ![c] = FALSE]
    /\ LET state == IF ~paired THEN "logged_out"
                    ELSE IF online THEN "connected" ELSE "disconnected" IN
       handler' = [handler EXCEPT ![c].out = <<StateReply(state)>>]
    /\ UNCHANGED <<open, clients, cast, sock, waVars, engineVars, guiVars,
                   counterVars>>

ServerStep(c) ==
    /\ HandlerStep(c)
    /\ UNCHANGED <<waVars, engineVars, asked, guiVars, counterVars>>

CastStep(g) ==
    /\ CastWrite(g)
    /\ UNCHANGED <<waVars, engineVars, asked, guiVars, counterVars>>

-----------------------------------------------------------------------------
(* The GUI: IpcClient and Controller.                                      *)

\* onSocketConnected sends get_state at once.  What Controller shows is kept from
\* the previous connection.
GuiConnect(c) ==
    /\ opens < MaxOpens /\ opens' = opens + 1
    /\ Accept(c)
    /\ asked' = [asked EXCEPT ![c] = TRUE]
    /\ heard' = [heard EXCEPT ![c] = {}] /\ seenQR' = [seenQR EXCEPT ![c] = {}]
    /\ UNCHANGED <<waVars, engineVars, shown, shownQR, changes>>

GuiClose(c) ==
    /\ Close(c)
    /\ asked' = [asked EXCEPT ![c] = FALSE]
    /\ UNCHANGED <<waVars, engineVars, guiVars, counterVars>>

\* handleLine on the next frame: onConnectionStateChanged or onQrReceived.
GuiRead(c) ==
    /\ sock[c] # <<>>
    /\ sock' = [sock EXCEPT ![c] = Tail(@)]
    /\ LET f == Head(sock[c]) IN
       \/ /\ f.ev \in {"connection", "get_state"}
          /\ shown' = [shown EXCEPT ![c] = f.state]
          /\ shownQR' = [shownQR EXCEPT ![c] = IF f.state = "connected" THEN 0 ELSE @]
          /\ heard' = [heard EXCEPT
                         ![c] = IF f.ev = "connection" THEN @ \cup {f.state} ELSE @]
          /\ UNCHANGED seenQR
       \/ /\ f.ev = "qr"
          /\ shownQR' = [shownQR EXCEPT ![c] = f.code]
          /\ seenQR' = [seenQR EXCEPT ![c] = @ \cup {f.code}]
          /\ UNCHANGED <<shown, heard>>
       \/ f.ev = "pair_success" /\ UNCHANGED guiVars
    /\ UNCHANGED <<open, clients, handler, cast, waVars, engineVars, asked,
                   counterVars>>

-----------------------------------------------------------------------------
WhatsApp == \/ IssueCode \/ CodesRunOut \/ Pair \/ GoOnline \/ GoOffline
            \/ Unlink

ConnStep(c) == ServerStep(c) \/ SnapshotState(c) \/ SnapshotQR(c) \/ GetState(c)

\* The goroutines of main, of whatsmeow's event handler and of beginQRLogin.
Goroutine(g) ==
    \/ g = "main" /\ (Start \/ Connect)
    \/ g = "event" /\ HandleEvent
    \/ g = "qr" /\ HandleQR
    \/ Emit(g) \/ CastStep(g)

Next ==
    \/ WhatsApp
    \/ \E g \in Emitters : Goroutine(g)
    \/ \E c \in Conns : \/ ConnStep(c)
                        \/ GuiConnect(c) \/ GuiClose(c) \/ GuiRead(c)

Spec == Init /\ [][Next]_vars

\* Go schedules every goroutine that can run, and a lock that is free again and
\* again is taken; a GUI reads what is sent to it.  Nothing makes the session
\* change or a GUI come or go.
FairSpec ==
    /\ Spec
    /\ \A g \in Emitters : SF_vars(Goroutine(g))
    /\ \A c \in Conns : SF_vars(ConnStep(c)) /\ WF_vars(GuiRead(c))

-----------------------------------------------------------------------------
(* Properties.                                                             *)

\* Nothing that concerns c is under way in the daemon or on its connection.
Settled(c) ==
    /\ main # "start" /\ evq = <<>> /\ qrq = <<>>
    /\ \A g \in Emitters : ~Busy(g)
    /\ open[c] /\ handler[c] = [pc |-> "serve", out |-> <<>>]
    /\ ~asked[c] /\ sock[c] = <<>>

\* However a GUI's connection interleaves with a change of the session, the
\* snapshot and the broadcasts alone tell it of the state that holds in the end,
\* because handleConn registers the client before it takes the snapshot
\* (server.go:82-94).
StateHeard ==
    \A c \in Conns : Settled(c) =>
        /\ paired /\ online => "connected" \in heard[c]
        /\ ~paired => "logged_out" \in heard[c]

\* A GUI that connects at any moment of a login gets the code that can be
\* scanned now: by the broadcast, or, when it connects after it, from the cache
\* that is filled before the broadcast (engine.go:119-146, 170-173).
LatestQRReceived ==
    \A c \in Conns : Settled(c) /\ linking /\ issued > 0
        => issued \in seenQR[c]

\* Every GUI that stays connected gets served, even when another one vanishes in
\* the middle of a broadcast that holds the lock (server.go:43-51, 82-111).
ConnectedIsServed == \A c \in Conns : asked[c] ~> ~asked[c]

-----------------------------------------------------------------------------
(* What the comments of the code say and its interleavings do not keep.    *)

\* ipcclient.cpp:197-198: the response of get_state, the daemon's authoritative
\* state, corrects a stale state, so a settled GUI shows a connected session.
SettledStateShown ==
    \A c \in Conns : Settled(c) /\ paired /\ online => shown[c] = "connected"
=============================================================================
