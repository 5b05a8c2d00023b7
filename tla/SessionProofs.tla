---------------------------- MODULE SessionProofs ----------------------------
(***************************************************************************)
(* Proofs about Session, for any GUIs, any socket buffer, and any number   *)
(* of codes, of session changes and of connections.                        *)
(***************************************************************************)
EXTENDS Session, Queues

-----------------------------------------------------------------------------
(* Types.                                                                  *)

PCs    == {"none", "register", "snapshot", "qr", "serve", "leave"}
Events == {"connected", "disconnected", "logged_out", "pair_success"}

\* TypeOK in three parts: the server, the queues, and the rest.
ServerTyped ==
    /\ open \in [Conns -> BOOLEAN] /\ clients \subseteq Conns
    /\ handler \in [Conns -> [pc : PCs, out : Seq(Frames)]]
    /\ cast \in [Emitters -> [frame : Frames, todo : SUBSET Conns]]
    /\ sock \in [Conns -> Seq(Frames)]

QueuesTyped ==
    /\ emitter \in [Emitters -> Seq(Frames)]
    /\ evq \in Seq(Events) /\ qrq \in Seq(QRItems)

StateTyped ==
    /\ paired \in BOOLEAN /\ online \in BOOLEAN /\ (online => paired)
    /\ linking \in BOOLEAN /\ connecting \in BOOLEAN
    /\ main \in {"start", "connect", "done"}
    /\ issued \in 0..MaxCodes /\ lastQR \in 0..MaxCodes
    /\ changes \in 0..MaxChanges /\ opens \in 0..MaxOpens

GuisTyped ==
    /\ asked \in [Conns -> BOOLEAN]
    /\ shown \in [Conns -> States] /\ shownQR \in [Conns -> 0..MaxCodes]
    /\ heard \in [Conns -> SUBSET States] /\ seenQR \in [Conns -> SUBSET Codes]

LEMMA TypeParts ==
    TypeOK <=> ServerTyped /\ QueuesTyped /\ StateTyped /\ GuisTyped
BY DEF TypeOK, ServerTyped, QueuesTyped, StateTyped, GuisTyped, PCs, Events

LEMMA TypePartsNext ==
    TypeOK' <=> ServerTyped' /\ QueuesTyped' /\ StateTyped' /\ GuisTyped'
BY DEF TypeOK, ServerTyped, QueuesTyped, StateTyped, GuisTyped, PCs, Events

LEMMA PartsKept ==
    /\ ServerTyped /\ UNCHANGED serverVars => ServerTyped'
    /\ QueuesTyped /\ UNCHANGED <<emitter, evq, qrq>> => QueuesTyped'
    /\ StateTyped /\ UNCHANGED <<paired, online, linking, connecting, main,
                                 issued, lastQR, changes, opens>> => StateTyped'
    /\ GuisTyped /\ UNCHANGED <<asked, shown, shownQR, heard, seenQR>> => GuisTyped'
BY DEF ServerTyped, QueuesTyped, StateTyped, GuisTyped, serverVars

\* The frames that the engine and the server build are frames of the protocol.
LEMMA FramesTyped ==
    /\ PairFrame \in Frames
    /\ \A s \in States : StateFrame(s) \in Frames /\ StateReply(s) \in Frames
    /\ \A code \in Codes : QRFrame(code) \in Frames
BY DEF PairFrame, Frames, StateFrame, StateReply, QRFrame

\* What GuiRead takes from a frame.
LEMMA FrameFields ==
    ASSUME NEW f \in Frames
    PROVE  /\ f.ev \in {"connection", "get_state"} => f.state \in States
           /\ f.ev = "qr" => f.code \in Codes
BY DEF Frames, PairFrame

\* What Write leaves in the buffers.
LEMMA WriteTyped ==
    ASSUME sock \in [Conns -> Seq(Frames)], NEW c \in Conns, NEW f \in Frames,
           Write(c, f)
    PROVE  sock' \in [Conns -> Seq(Frames)]
<1>1. Append(sock[c], f) \in Seq(Frames)
  OBVIOUS
<1> QED
  BY <1>1 DEF Write

LEMMA InitTyped == Init => TypeOK
<1> SUFFICES ASSUME Init PROVE TypeOK
  OBVIOUS
<1>1. ServerTyped
  BY FramesTyped DEF Init, ServerInit, NoHandler, ServerTyped, PCs
<1>2. QueuesTyped
  BY DEF Init, QueuesTyped
<1>3. StateTyped
  <2>1. 0 \in 0..MaxCodes /\ 0 \in 0..MaxChanges /\ 0 \in 0..MaxOpens
    BY SessionAssumption
  <2> QED
    BY <2>1 DEF Init, StateTyped
<1>4. GuisTyped
  BY SessionAssumption DEF Init, GuisTyped, States
<1> QED
  BY <1>1, <1>2, <1>3, <1>4, TypeParts

LEMMA WhatsAppTyped == ASSUME TypeOK, WhatsApp PROVE TypeOK'
<1>0. ServerTyped /\ QueuesTyped /\ StateTyped /\ GuisTyped
  BY TypeParts
<1>1. ServerTyped'
  BY <1>0, PartsKept
     DEF WhatsApp, IssueCode, CodesRunOut, Pair, GoOnline, GoOffline, Unlink, Untouched
<1>2. QueuesTyped'
  <2>0. emitter' = emitter /\ emitter \in [Emitters -> Seq(Frames)]
    BY <1>0
       DEF WhatsApp, IssueCode, CodesRunOut, Pair, GoOnline, GoOffline, Unlink,
           Untouched, QueuesTyped
  <2>1. evq' = evq \/ \E e \in Events : evq' = Append(evq, e)
    BY DEF WhatsApp, IssueCode, CodesRunOut, Pair, GoOnline, GoOffline, Unlink, Events
  <2>2. CodeItem(issued + 1) \in QRItems \/ ~IssueCode
    BY <1>0, SessionAssumption DEF IssueCode, StateTyped, CodeItem, QRItems, Codes
  <2>3. LastItem("success") \in QRItems /\ LastItem("timeout") \in QRItems
    BY DEF LastItem, QRItems
  <2>4. qrq' = qrq \/ \E i \in QRItems : qrq' = Append(qrq, i)
    BY <2>2, <2>3 DEF WhatsApp, IssueCode, CodesRunOut, Pair, GoOnline, GoOffline, Unlink
  <2>5. evq' \in Seq(Events)
    BY <1>0, <2>1 DEF QueuesTyped
  <2>6. qrq' \in Seq(QRItems)
    <3>1. qrq \in Seq(QRItems)
      BY <1>0 DEF QueuesTyped
    <3>2. ASSUME NEW i \in QRItems, qrq' = Append(qrq, i)
          PROVE  qrq' \in Seq(QRItems)
      BY <3>1, <3>2
    <3> QED
      BY <2>4, <3>1, <3>2
  <2> QED
    BY <2>0, <2>5, <2>6 DEF QueuesTyped
<1>3. StateTyped'
  <2>1. lastQR' = lastQR /\ main' = main /\ opens' = opens
    BY DEF WhatsApp, IssueCode, CodesRunOut, Pair, GoOnline, GoOffline, Unlink,
           Untouched
  <2>2. issued' \in 0..MaxCodes /\ changes' \in 0..MaxChanges
    BY <1>0, SessionAssumption
       DEF WhatsApp, IssueCode, CodesRunOut, Pair, GoOnline, GoOffline, Unlink,
           Change, StateTyped
  <2>3. /\ paired' \in BOOLEAN /\ online' \in BOOLEAN /\ (online' => paired')
        /\ linking' \in BOOLEAN /\ connecting' \in BOOLEAN
    <3>1. /\ paired \in BOOLEAN /\ online \in BOOLEAN /\ (online => paired)
          /\ linking \in BOOLEAN /\ connecting \in BOOLEAN
      BY <1>0 DEF StateTyped
    <3>2. CASE IssueCode
      BY <3>1, <3>2 DEF IssueCode
    <3>6. CASE CodesRunOut
      BY <3>1, <3>6 DEF CodesRunOut
    <3>3. CASE Pair
      BY <3>1, <3>3 DEF Pair
    <3>4. CASE GoOnline \/ GoOffline
      BY <3>1, <3>4 DEF GoOnline, GoOffline
    <3>5. CASE Unlink
      BY <3>1, <3>5 DEF Unlink
    <3> QED
      BY <3>2, <3>3, <3>4, <3>5, <3>6 DEF WhatsApp
  <2> QED
    BY <1>0, <2>1, <2>2, <2>3 DEF StateTyped
<1>4. GuisTyped'
  BY <1>0
     DEF WhatsApp, IssueCode, CodesRunOut, Pair, GoOnline, GoOffline, Unlink,
         Untouched, Forget, GuisTyped
<1> QED
  BY <1>1, <1>2, <1>3, <1>4, TypePartsNext

LEMMA GoroutineTyped ==
    ASSUME TypeOK, NEW g \in Emitters, Goroutine(g)
    PROVE  TypeOK'
<1>0. ServerTyped /\ QueuesTyped /\ StateTyped /\ GuisTyped
  BY TypeParts
<1>1. GuisTyped'
  BY <1>0, PartsKept
     DEF Goroutine, Start, Connect, HandleEvent, HandleQR, Emit, CastStep, guiVars
<1>2. CASE g = "main" /\ Start
  <2>1. \E s \in States : emitter' = [emitter EXCEPT !["main"] = <<StateFrame(s)>>]
    BY <1>2 DEF Start, WillEmit, States
  <2>2. QueuesTyped'
    BY <1>0, <1>2, <2>1, FramesTyped DEF Start, QueuesTyped
  <2>3. ServerTyped' /\ StateTyped'
    BY <1>0, <1>2, PartsKept DEF Start, StateTyped, waVars, counterVars
  <2> QED
    BY <1>1, <2>2, <2>3, TypePartsNext
<1>3. CASE g = "main" /\ Connect
  <2>1. ServerTyped' /\ QueuesTyped'
    BY <1>0, <1>3, PartsKept DEF Connect
  <2>2. StateTyped'
    BY <1>0, <1>3 DEF Connect, StateTyped, counterVars
  <2> QED
    BY <1>1, <2>1, <2>2, TypePartsNext
<1>4. CASE g = "event" /\ HandleEvent
  <2>1. Head(evq) \in Events /\ Tail(evq) \in Seq(Events)
    BY <1>0, <1>4 DEF HandleEvent, QueuesTyped
  <2>2. \E f \in Frames : emitter' = [emitter EXCEPT !["event"] = <<f>>]
    BY <1>4, <2>1, FramesTyped DEF HandleEvent, WillEmit, Events, States
  <2>3. QueuesTyped'
    BY <1>0, <1>4, <2>1, <2>2 DEF HandleEvent, QueuesTyped
  <2>4. ServerTyped' /\ StateTyped'
    BY <1>0, <1>4, PartsKept, SessionAssumption
       DEF HandleEvent, StateTyped, waVars, counterVars
  <2> QED
    BY <1>1, <2>3, <2>4, TypePartsNext
<1>5. CASE g = "qr" /\ HandleQR
  <2>1. Head(qrq) \in QRItems /\ Tail(qrq) \in Seq(QRItems)
    BY <1>0, <1>5 DEF HandleQR, QueuesTyped
  <2>2. Head(qrq).item = "code" => Head(qrq).code \in Codes
    BY <2>1 DEF QRItems
  <2>3. emitter' = emitter \/ \E f \in Frames : emitter' = [emitter EXCEPT !["qr"] = <<f>>]
    BY <1>5, <2>2, FramesTyped DEF HandleQR, WillEmit, States
  <2>4. QueuesTyped'
    <3>0. emitter \in [Emitters -> Seq(Frames)]
      BY <1>0 DEF QueuesTyped
    <3>1. emitter' \in [Emitters -> Seq(Frames)]
      <4>1. ASSUME NEW f \in Frames, emitter' = [emitter EXCEPT !["qr"] = <<f>>]
            PROVE  emitter' \in [Emitters -> Seq(Frames)]
        <5>1. <<f>> \in Seq(Frames)
          OBVIOUS
        <5> QED
          BY <3>0, <4>1, <5>1
      <4> QED
        BY <2>3, <3>0, <4>1
    <3> QED
      BY <1>0, <1>5, <2>1, <3>1 DEF HandleQR, QueuesTyped
  <2>5. lastQR' \in 0..MaxCodes
    BY <1>0, <1>5, <2>2, SessionAssumption DEF HandleQR, StateTyped, Codes
  <2>6. ServerTyped' /\ StateTyped'
    BY <1>0, <1>5, <2>5, PartsKept DEF HandleQR, StateTyped, waVars, counterVars
  <2> QED
    BY <1>1, <2>4, <2>6, TypePartsNext
<1>6. CASE Emit(g)
  <2>1. Head(emitter[g]) \in Frames /\ Tail(emitter[g]) \in Seq(Frames)
    BY <1>0, <1>6 DEF Emit, QueuesTyped
  <2>2. QueuesTyped'
    BY <1>0, <1>6, <2>1 DEF Emit, QueuesTyped
  <2>3. ServerTyped'
    BY <1>0, <1>6, <2>1 DEF Emit, Broadcast, ServerTyped
  <2>4. StateTyped'
    BY <1>0, <1>6, PartsKept DEF Emit, waVars, counterVars
  <2> QED
    BY <1>1, <2>2, <2>3, <2>4, TypePartsNext
<1>7. CASE CastStep(g)
  <2>1. PICK c \in cast[g].todo :
          /\ Write(c, cast[g].frame)
          /\ cast' = [cast EXCEPT ![g].todo = @ \ {c}]
          /\ UNCHANGED <<open, clients, handler>>
    BY <1>7 DEF CastStep, CastWrite
  <2>2. sock' \in [Conns -> Seq(Frames)]
    BY <1>0, <2>1, WriteTyped DEF ServerTyped
  <2>3. ServerTyped'
    BY <1>0, <2>1, <2>2 DEF ServerTyped
  <2>4. QueuesTyped' /\ StateTyped'
    BY <1>0, <1>7, PartsKept DEF CastStep, waVars, engineVars, counterVars
  <2> QED
    BY <1>1, <2>3, <2>4, TypePartsNext
<1> QED
  BY <1>2, <1>3, <1>4, <1>5, <1>6, <1>7 DEF Goroutine

LEMMA ConnTyped ==
    ASSUME TypeOK, NEW c \in Conns, ConnStep(c)
    PROVE  TypeOK'
<1>0. ServerTyped /\ QueuesTyped /\ StateTyped /\ GuisTyped
  BY TypeParts
<1>1. QueuesTyped' /\ StateTyped' /\ GuisTyped'
  <2>1. QueuesTyped'
    BY <1>0, PartsKept
       DEF ConnStep, ServerStep, SnapshotState, SnapshotQR, GetState, engineVars
  <2>2. StateTyped'
    BY <1>0, PartsKept
       DEF ConnStep, ServerStep, SnapshotState, SnapshotQR, GetState, engineVars,
           waVars, counterVars
  <2>3. GuisTyped'
    BY <1>0
       DEF ConnStep, ServerStep, SnapshotState, SnapshotQR, GetState, guiVars,
           GuisTyped
  <2> QED
    BY <2>1, <2>2, <2>3
<1>2. CASE Register(c) \/ EndOfStream(c) \/ Unregister(c)
  <2>1. \E pc \in PCs : \/ handler' = [handler EXCEPT ![c].pc = pc]
                       \/ handler' = [handler EXCEPT ![c] = [pc |-> pc, out |-> <<>>]]
    BY <1>2 DEF Register, EndOfStream, Unregister, NoHandler, PCs
  <2>2. handler' \in [Conns -> [pc : PCs, out : Seq(Frames)]]
    <3>1. handler \in [Conns -> [pc : PCs, out : Seq(Frames)]]
      BY <1>0 DEF ServerTyped
    <3>2. PICK pc \in PCs : \/ handler' = [handler EXCEPT ![c].pc = pc]
                           \/ handler' = [handler EXCEPT ![c] = [pc |-> pc, out |-> <<>>]]
      BY <2>1
    <3>3. CASE handler' = [handler EXCEPT ![c].pc = pc]
      BY <3>1, <3>3
    <3>4. CASE handler' = [handler EXCEPT ![c] = [pc |-> pc, out |-> <<>>]]
      BY <3>1, <3>4
    <3> QED
      BY <3>2, <3>3, <3>4
  <2>3. ServerTyped'
    BY <1>0, <1>2, <2>2 DEF Register, EndOfStream, Unregister, ServerTyped
  <2> QED
    BY <1>1, <2>3, TypePartsNext
<1>3. CASE HandlerWrite(c)
  <2>1. Head(handler[c].out) \in Frames /\ Tail(handler[c].out) \in Seq(Frames)
    BY <1>0, <1>3 DEF HandlerWrite, ServerTyped
  <2>2. sock' \in [Conns -> Seq(Frames)]
    BY <1>0, <1>3, <2>1, WriteTyped DEF HandlerWrite, ServerTyped
  <2>3. ServerTyped'
    BY <1>0, <1>3, <2>1, <2>2 DEF HandlerWrite, ServerTyped
  <2> QED
    BY <1>1, <2>3, TypePartsNext
<1>4. CASE SnapshotState(c)
  <2>1. PICK s \in States, pc \in PCs :
          handler' = [handler EXCEPT ![c] = [pc |-> pc, out |-> <<StateFrame(s)>>]]
    BY <1>4 DEF SnapshotState, States, PCs
  <2>2. <<StateFrame(s)>> \in Seq(Frames)
    BY FramesTyped
  <2>3. ServerTyped'
    BY <1>0, <1>4, <2>1, <2>2 DEF SnapshotState, ServerTyped
  <2> QED
    BY <1>1, <2>3, TypePartsNext
<1>5. CASE SnapshotQR(c)
  <2>1. \E out \in Seq(Frames) :
          handler' = [handler EXCEPT ![c] = [pc |-> "serve", out |-> out]]
    <3>1. handler[c].out \in Seq(Frames)
      BY <1>0 DEF ServerTyped
    <3>2. lastQR # 0 => Append(handler[c].out, QRFrame(lastQR)) \in Seq(Frames)
      BY <1>0, <3>1, FramesTyped, SessionAssumption DEF StateTyped, Codes
    <3> QED
      BY <1>5, <3>1, <3>2 DEF SnapshotQR
  <2>2. ServerTyped'
    BY <1>0, <1>5, <2>1 DEF SnapshotQR, ServerTyped, PCs
  <2> QED
    BY <1>1, <2>2, TypePartsNext
<1>6. CASE GetState(c)
  <2>1. PICK s \in States : handler' = [handler EXCEPT ![c].out = <<StateReply(s)>>]
    BY <1>6 DEF GetState, States
  <2>2. <<StateReply(s)>> \in Seq(Frames)
    BY FramesTyped
  <2>3. ServerTyped'
    <3>1. handler' \in [Conns -> [pc : PCs, out : Seq(Frames)]]
      BY <1>0, <2>1, <2>2 DEF ServerTyped
    <3> QED
      BY <1>0, <1>6, <3>1 DEF GetState, ServerTyped
  <2> QED
    BY <1>1, <2>3, TypePartsNext
<1> QED
  BY <1>2, <1>3, <1>4, <1>5, <1>6 DEF ConnStep, ServerStep, HandlerStep

LEMMA GuiTyped ==
    ASSUME TypeOK, NEW c \in Conns, GuiConnect(c) \/ GuiClose(c) \/ GuiRead(c)
    PROVE  TypeOK'
<1>0. ServerTyped /\ QueuesTyped /\ StateTyped /\ GuisTyped
  BY TypeParts
<1>1. QueuesTyped'
  BY <1>0, PartsKept DEF GuiConnect, GuiClose, GuiRead, engineVars
<1>2. StateTyped'
  BY <1>0, SessionAssumption
     DEF GuiConnect, GuiClose, GuiRead, engineVars, waVars, counterVars, StateTyped
<1>3. CASE GuiConnect(c) \/ GuiClose(c)
  <2>1. ServerTyped'
    <3>0. ServerTyped
      BY <1>0
    <3>1. CASE GuiConnect(c)
      <4>1. handler' = [handler EXCEPT ![c].pc = "register"]
        BY <3>1 DEF GuiConnect, Accept
      <4>2. handler' \in [Conns -> [pc : PCs, out : Seq(Frames)]]
        BY <3>0, <4>1 DEF ServerTyped, PCs
      <4> QED
        BY <3>0, <3>1, <4>2 DEF GuiConnect, Accept, ServerTyped
    <3>2. CASE GuiClose(c)
      BY <3>0, <3>2 DEF GuiClose, Close, ServerTyped
    <3> QED
      BY <1>3, <3>1, <3>2
  <2>2. GuisTyped'
    BY <1>0, <1>3 DEF GuiConnect, GuiClose, guiVars, GuisTyped
  <2> QED
    BY <1>1, <1>2, <2>1, <2>2, TypePartsNext
<1>4. CASE GuiRead(c)
  <2>1. Head(sock[c]) \in Frames /\ Tail(sock[c]) \in Seq(Frames)
    BY <1>0, <1>4 DEF GuiRead, ServerTyped
  <2>2. ServerTyped'
    BY <1>0, <1>4, <2>1 DEF GuiRead, ServerTyped
  <2>3. /\ Head(sock[c]).ev \in {"connection", "get_state"}
           => Head(sock[c]).state \in States
        /\ Head(sock[c]).ev = "qr" => Head(sock[c]).code \in Codes
    BY <2>1, FrameFields
  <2>4. GuisTyped'
    <3>1. /\ shown \in [Conns -> States] /\ shownQR \in [Conns -> 0..MaxCodes]
          /\ heard \in [Conns -> SUBSET States] /\ seenQR \in [Conns -> SUBSET Codes]
      BY <1>0 DEF GuisTyped
    <3>2. shown' \in [Conns -> States] /\ heard' \in [Conns -> SUBSET States]
      <4>1. CASE Head(sock[c]).ev \in {"connection", "get_state"}
        <5>1. heard[c] \cup {Head(sock[c]).state} \in SUBSET States
          BY <2>3, <3>1, <4>1
        <5>2. \E h \in SUBSET States : heard' = [heard EXCEPT ![c] = h]
          BY <1>4, <3>1, <4>1, <5>1 DEF GuiRead
        <5>3. heard' \in [Conns -> SUBSET States]
          BY <3>1, <5>2
        <5>4. shown' \in [Conns -> States]
          BY <1>4, <2>3, <3>1, <4>1 DEF GuiRead
        <5> QED
          BY <5>3, <5>4
      <4>2. CASE Head(sock[c]).ev \notin {"connection", "get_state"}
        BY <1>4, <3>1, <4>2 DEF GuiRead, guiVars
      <4> QED
        BY <4>1, <4>2
    <3>3. seenQR' \in [Conns -> SUBSET Codes]
      <4>1. CASE Head(sock[c]).ev = "qr"
        <5>1. seenQR[c] \cup {Head(sock[c]).code} \in SUBSET Codes
          BY <2>3, <3>1, <4>1
        <5> QED
          BY <1>4, <3>1, <4>1, <5>1 DEF GuiRead, guiVars
      <4>2. CASE Head(sock[c]).ev # "qr"
        BY <1>4, <3>1, <4>2 DEF GuiRead, guiVars
      <4> QED
        BY <4>1, <4>2
    <3>4. shownQR' \in [Conns -> 0..MaxCodes]
      <4>1. Head(sock[c]).ev = "qr" => Head(sock[c]).code \in 0..MaxCodes
        BY <2>3, SessionAssumption DEF Codes
      <4>2. 0 \in 0..MaxCodes
        BY SessionAssumption
      <4> QED
        BY <1>4, <3>1, <4>1, <4>2 DEF GuiRead, guiVars
    <3> QED
      BY <1>0, <1>4, <3>2, <3>3, <3>4 DEF GuiRead, GuisTyped
  <2> QED
    BY <1>1, <1>2, <2>2, <2>4, TypePartsNext
<1> QED
  BY <1>3, <1>4

LEMMA NextTyped == ASSUME TypeOK, [Next]_vars PROVE TypeOK'
<1>1. CASE UNCHANGED vars
  BY <1>1 DEF TypeOK, vars, serverVars, waVars, engineVars, guiVars, counterVars
<1> QED
  BY <1>1, WhatsAppTyped, GoroutineTyped, ConnTyped, GuiTyped DEF Next

\* Every variable of the daemon and of the GUIs keeps its type; every frame on its
\* way is one of the protocol, and a session that is online is paired.
THEOREM TypeCorrect == Spec => []TypeOK
<1>1. Init => TypeOK
  BY InitTyped
<1>2. TypeOK /\ [Next]_vars => TypeOK'
  BY NextTyped
<1> QED
  BY <1>1, <1>2, PTL DEF Spec

-----------------------------------------------------------------------------
(* What is on its way to a GUI arrives.                                    *)

\* The clients are the connections between Register and Unregister, and the GUI
\* of a connection without handler is gone.
Members ==
    \A c \in Conns :
        /\ c \in clients <=> handler[c].pc \in {"snapshot", "qr", "serve", "leave"}
        /\ open[c] => handler[c].pc \notin {"none", "leave"}

LEMMA InitMembers == Init => Members
<1> SUFFICES ASSUME Init PROVE Members
  OBVIOUS
<1>1. \A c \in Conns : handler[c].pc = "none" /\ ~open[c] /\ c \notin clients
  BY DEF Init, ServerInit, NoHandler
<1> QED
  BY <1>1 DEF Members

LEMMA MembersKept == ASSUME TypeOK, Members, [Next]_vars PROVE Members'
<1> USE DEF Members
<1>0. ServerTyped
  BY TypeParts
<1>1. CASE UNCHANGED <<open, clients, handler>>
  BY <1>1
<1>2. ASSUME NEW c \in Conns, ConnStep(c) PROVE Members'
  <2>1. CASE Register(c)
    BY <1>0, <2>1 DEF Register, ServerTyped
  <2>2. CASE HandlerWrite(c)
    BY <1>0, <2>2 DEF HandlerWrite, ServerTyped
  <2>3. CASE EndOfStream(c)
    BY <1>0, <2>3 DEF EndOfStream, ServerTyped
  <2>4. CASE Unregister(c)
    BY <1>0, <2>4 DEF Unregister, NoHandler, ServerTyped
  <2>5. CASE SnapshotState(c)
    BY <1>0, <2>5 DEF SnapshotState, ServerTyped
  <2>6. CASE SnapshotQR(c)
    BY <1>0, <2>6 DEF SnapshotQR, ServerTyped
  <2>7. CASE GetState(c)
    BY <1>0, <2>7 DEF GetState, ServerTyped
  <2> QED
    BY <1>2, <2>1, <2>2, <2>3, <2>4, <2>5, <2>6, <2>7
       DEF ConnStep, ServerStep, HandlerStep
<1>3. ASSUME NEW c \in Conns, GuiConnect(c) PROVE Members'
  BY <1>0, <1>3 DEF GuiConnect, Accept, ServerTyped
<1>4. ASSUME NEW c \in Conns, GuiClose(c) PROVE Members'
  BY <1>0, <1>4 DEF GuiClose, Close, ServerTyped
<1>5. ASSUME NEW c \in Conns, GuiRead(c) PROVE Members'
  BY <1>1, <1>5 DEF GuiRead
<1>6. ASSUME NEW g \in Emitters, Goroutine(g) PROVE Members'
  BY <1>1, <1>6
     DEF Goroutine, Start, Connect, HandleEvent, HandleQR, Emit, CastStep, CastWrite,
         serverVars
<1>7. ASSUME WhatsApp PROVE Members'
  BY <1>1, <1>7
     DEF WhatsApp, IssueCode, CodesRunOut, Pair, GoOnline, GoOffline, Unlink,
         Untouched, serverVars
<1>8. ASSUME UNCHANGED vars PROVE Members'
  BY <1>1, <1>8 DEF vars, serverVars
<1> QED
  BY <1>2, <1>3, <1>4, <1>5, <1>6, <1>7, <1>8 DEF Next

\* The frame f, which goroutine g broadcasts or c's handler writes, will reach c.
Coming(c, f, g) ==
    \/ Has(handler[c].out, {f}) \/ Has(sock[c], {f})
    \/ cast[g].frame = f /\ c \in cast[g].todo
    \/ c \in clients /\ Has(emitter[g], {f})

\* The steps that move frames.
Moves ==
    \/ \E h \in Emitters : Emit(h) \/ CastStep(h)
    \/ \E d \in Conns : ServerStep(d)

\* Write to d: what c's buffer held it holds, and d's holds the frame too.
LEMMA Written ==
    ASSUME TypeOK, NEW d \in Conns, NEW e \in Frames, Write(d, e),
           NEW c \in Conns, NEW f \in Frames
    PROVE  /\ Has(sock[c], {f}) => Has(sock'[c], {f})
           /\ open[d] => Has(sock'[d], {e})
<1>1. sock \in [Conns -> Seq(Frames)]
  BY TypeParts DEF ServerTyped
<1>2. CASE sock' = [sock EXCEPT ![d] = Append(sock[d], e)]
  <2>1. sock'[d] = Append(sock[d], e) /\ (c # d => sock'[c] = sock[c])
    BY <1>1, <1>2
  <2>2. Has(Append(sock[d], e), {e})
    BY <1>1, HasAppended
  <2>3. Has(sock[d], {f}) => Has(Append(sock[d], e), {f})
    BY <1>1, HasAppended
  <2> QED
    BY <2>1, <2>2, <2>3
<1>3. CASE ~open[d] /\ UNCHANGED sock
  BY <1>3
<1> QED
  BY <1>2, <1>3 DEF Write

LEMMA MovesCarry ==
    ASSUME TypeOK, Members, Moves, NEW c \in Conns, open[c], NEW f \in Frames,
           NEW g \in Emitters, Coming(c, f, g)
    PROVE  Coming(c, f, g)'
<1>0. ServerTyped /\ QueuesTyped
  BY TypeParts
<1>1. ASSUME NEW h \in Emitters, Emit(h) PROVE Coming(c, f, g)'
  <2>1. UNCHANGED <<clients, handler, sock>>
    BY <1>1 DEF Emit
  <2>2. CASE h # g
    <3>1. cast'[g] = cast[g] /\ emitter'[g] = emitter[g]
      BY <1>0, <1>1, <2>2 DEF Emit, Broadcast, ServerTyped, QueuesTyped
    <3> QED
      BY <2>1, <3>1 DEF Coming
  <2>3. CASE h = g
    <3>1. /\ cast'[g] = [frame |-> Head(emitter[g]), todo |-> clients]
          /\ emitter'[g] = Tail(emitter[g]) /\ emitter[g] # <<>> /\ cast[g].todo = {}
      BY <1>0, <1>1, <2>3 DEF Emit, Broadcast, Casting, ServerTyped, QueuesTyped
    <3>2. Has(emitter[g], {f}) => Head(emitter[g]) = f \/ Has(Tail(emitter[g]), {f})
      BY <1>0, <3>1, HasTaken DEF QueuesTyped
    <3> QED
      BY <2>1, <3>1, <3>2 DEF Coming
  <2> QED
    BY <2>2, <2>3
<1>2. ASSUME NEW h \in Emitters, CastStep(h) PROVE Coming(c, f, g)'
  <2>1. UNCHANGED <<clients, handler, emitter>>
    BY <1>2 DEF CastStep, CastWrite, engineVars
  <2>2. PICK d \in cast[h].todo :
          Write(d, cast[h].frame) /\ cast' = [cast EXCEPT ![h].todo = @ \ {d}]
    BY <1>2 DEF CastStep, CastWrite
  <2>3. d \in Conns /\ cast[h].frame \in Frames
    BY <1>0, <2>2 DEF ServerTyped
  <2>4. /\ Has(sock[c], {f}) => Has(sock'[c], {f})
        /\ c = d => Has(sock'[c], {cast[h].frame})
    BY <2>2, <2>3, Written
  <2>5. \/ cast'[g] = cast[g]
        \/ h = g /\ cast'[g].frame = cast[g].frame /\ cast'[g].todo = cast[g].todo \ {d}
    BY <1>0, <2>2 DEF ServerTyped
  <2>6. CASE h = g /\ c = d /\ cast[g].frame = f
    BY <2>4, <2>6 DEF Coming
  <2>7. CASE ~(h = g /\ c = d /\ cast[g].frame = f)
    <3>1. cast[g].frame = f /\ c \in cast[g].todo
          => cast'[g].frame = f /\ c \in cast'[g].todo
      BY <2>5, <2>7
    <3> QED
      BY <2>1, <2>4, <3>1 DEF Coming
  <2> QED
    BY <2>6, <2>7
<1>3. ASSUME NEW d \in Conns, ServerStep(d) PROVE Coming(c, f, g)'
  <2>1. UNCHANGED <<cast, emitter>>
    BY <1>3
       DEF ServerStep, HandlerStep, Register, HandlerWrite, EndOfStream, Unregister,
           engineVars
  <2>2. CASE Register(d)
    <3>1. handler'[c].out = handler[c].out /\ sock' = sock /\ (c \in clients => c \in clients')
      BY <1>0, <2>2 DEF Register, ServerTyped
    <3> QED
      BY <2>1, <3>1 DEF Coming
  <2>3. CASE HandlerWrite(d)
    <3>0. handler[d].out \in Seq(Frames) /\ handler[d].out # <<>> /\ clients' = clients
      BY <1>0, <2>3 DEF HandlerWrite, ServerTyped
    <3>1. Write(d, Head(handler[d].out)) /\ Head(handler[d].out) \in Frames
      BY <2>3, <3>0 DEF HandlerWrite
    <3>2. /\ Has(sock[c], {f}) => Has(sock'[c], {f})
          /\ open[d] => Has(sock'[d], {Head(handler[d].out)})
      BY <3>1, Written
    <3>3. CASE c # d
      <4>1. handler'[c] = handler[c]
        BY <1>0, <2>3, <3>3 DEF HandlerWrite, ServerTyped
      <4> QED
        BY <2>1, <3>0, <3>2, <4>1 DEF Coming
    <3>4. CASE c = d
      <4>1. handler'[c].out = Tail(handler[c].out)
        BY <1>0, <2>3, <3>4 DEF HandlerWrite, ServerTyped
      <4>2. Has(handler[c].out, {f})
            => Head(handler[c].out) = f \/ Has(Tail(handler[c].out), {f})
        BY <3>0, <3>4, HasTaken
      <4> QED
        BY <2>1, <3>0, <3>2, <3>4, <4>1, <4>2 DEF Coming
    <3> QED
      BY <3>3, <3>4
  <2>4. CASE EndOfStream(d)
    <3>1. handler'[c].out = handler[c].out /\ UNCHANGED <<sock, clients>>
      BY <1>0, <2>4 DEF EndOfStream, ServerTyped
    <3> QED
      BY <2>1, <3>1 DEF Coming
  <2>5. CASE Unregister(d)
    <3>1. c # d
      BY <2>5 DEF Unregister, Members
    <3>2. handler'[c] = handler[c] /\ sock' = sock /\ (c \in clients => c \in clients')
      BY <1>0, <2>5, <3>1 DEF Unregister, ServerTyped
    <3> QED
      BY <2>1, <3>2 DEF Coming
  <2> QED
    BY <1>3, <2>2, <2>3, <2>4, <2>5 DEF ServerStep, HandlerStep
<1> QED
  BY <1>1, <1>2, <1>3 DEF Moves

\* A GUI that reads takes the frame or leaves it.
LEMMA ReadCarries ==
    ASSUME TypeOK, NEW d \in Conns, GuiRead(d), NEW c \in Conns, NEW f \in Frames,
           NEW g \in Emitters, Coming(c, f, g)
    PROVE  Coming(c, f, g)' \/ (c = d /\ Head(sock[c]) = f)
<1>0. ServerTyped
  BY TypeParts
<1>1. UNCHANGED <<clients, handler, cast, emitter>>
  BY DEF GuiRead, engineVars
<1>2. CASE c # d
  <2>1. sock'[c] = sock[c]
    BY <1>0, <1>2 DEF GuiRead, ServerTyped
  <2> QED
    BY <1>1, <2>1 DEF Coming
<1>3. CASE c = d
  <2>1. sock[c] \in Seq(Frames) /\ sock[c] # <<>> /\ sock'[c] = Tail(sock[c])
    BY <1>0, <1>3 DEF GuiRead, ServerTyped
  <2>2. Has(sock[c], {f}) => Head(sock[c]) = f \/ Has(Tail(sock[c]), {f})
    BY <2>1, HasTaken
  <2> QED
    BY <1>1, <1>3, <2>1, <2>2 DEF Coming
<1> QED
  BY <1>2, <1>3

\* The event and QR goroutines decide on an event when the last one is out.
LEMMA DecisionsCarry ==
    ASSUME TypeOK, Start \/ HandleEvent \/ HandleQR, NEW c \in Conns,
           NEW f \in Frames, NEW g \in {"event", "qr"}, Coming(c, f, g)
    PROVE  Coming(c, f, g)'
<1>0. emitter \in [Emitters -> Seq(Frames)] /\ g \in Emitters
  BY TypeParts, SessionAssumption DEF QueuesTyped
<1>1. UNCHANGED <<clients, handler, sock, cast>>
  BY DEF Start, HandleEvent, HandleQR, serverVars
<1>2. emitter'[g] = emitter[g] \/ emitter[g] = <<>>
  BY <1>0 DEF Start, HandleEvent, HandleQR, WillEmit, Busy
<1> QED
  BY <1>1, <1>2, HasNothing DEF Coming

\* The snapshot comes first in what the handler writes, and get_state is
\* answered when all of it is written.
LEMMA RepliesCarry ==
    ASSUME TypeOK, NEW d \in Conns, SnapshotState(d) \/ SnapshotQR(d) \/ GetState(d),
           NEW c \in Conns, handler[c].pc # "snapshot", NEW f \in Frames,
           NEW g \in Emitters, Coming(c, f, g)
    PROVE  Coming(c, f, g)'
<1>0. ServerTyped /\ StateTyped
  BY TypeParts
<1>1. UNCHANGED <<clients, sock, cast, emitter>>
  BY DEF SnapshotState, SnapshotQR, GetState, engineVars
<1>2. CASE c # d
  <2>1. handler'[c] = handler[c]
    BY <1>0, <1>2 DEF SnapshotState, SnapshotQR, GetState, ServerTyped
  <2> QED
    BY <1>1, <2>1 DEF Coming
<1>3. CASE c = d /\ SnapshotState(d)
  BY <1>3 DEF SnapshotState
<1>4. CASE c = d /\ SnapshotQR(d)
  <2>1. handler[c].out \in Seq(Frames)
    BY <1>0 DEF ServerTyped
  <2>2. handler'[c].out = IF lastQR = 0 THEN handler[c].out
                          ELSE Append(handler[c].out, QRFrame(lastQR))
    BY <1>0, <1>4 DEF SnapshotQR, ServerTyped
  <2>3. lastQR # 0 => QRFrame(lastQR) \in Frames
    BY <1>0, FramesTyped, SessionAssumption DEF StateTyped, Codes
  <2>4. Has(handler[c].out, {f}) => Has(handler'[c].out, {f})
    BY <2>1, <2>2, <2>3, HasAppended
  <2> QED
    BY <1>1, <2>4 DEF Coming
<1>5. CASE c = d /\ GetState(d)
  <2>1. ~Has(handler[c].out, {f})
    BY <1>5, HasNothing DEF GetState
  <2> QED
    BY <1>1, <2>1 DEF Coming
<1> QED
  BY <1>2, <1>3, <1>4, <1>5

-----------------------------------------------------------------------------
(* The login.                                                              *)

\* Nothing happens to the session before main is done; the QR channel is open only
\* while the device is unpaired and handleEvent has nothing to do; and its last
\* item, or else the cache, is the last code issued.
LoginInv ==
    /\ main # "done" => /\ ~linking /\ ~connecting /\ ~online
                        /\ evq = <<>> /\ qrq = <<>> /\ issued = 0 /\ lastQR = 0
    /\ linking => /\ ~paired /\ evq = <<>>
                  /\ qrq = <<>> => lastQR = issued
                  /\ qrq # <<>> => qrq[Len(qrq)] = CodeItem(issued)

LEMMA InitLogin == Init => LoginInv
BY DEF Init, LoginInv

LEMMA LastOfTail ==
    ASSUME NEW S, NEW q \in Seq(S), q # <<>>
    PROVE  /\ Tail(q) # <<>> => Tail(q)[Len(Tail(q))] = q[Len(q)]
           /\ Tail(q) = <<>> => Head(q) = q[Len(q)]
<1>1. /\ Len(q) \in Nat /\ Len(q) > 0 /\ Len(Tail(q)) = Len(q) - 1
      /\ \A i \in 1..Len(Tail(q)) : Tail(q)[i] = q[i + 1]
      /\ Head(q) = q[1]
  OBVIOUS
<1>2. Tail(q) \in Seq(S)
  OBVIOUS
<1>3. ASSUME Tail(q) # <<>> PROVE Tail(q)[Len(Tail(q))] = q[Len(q)]
  <2>1. Len(Tail(q)) \in 1..Len(Tail(q))
    BY <1>1, <1>2, <1>3
  <2> QED
    BY <1>1, <2>1
<1>4. ASSUME Tail(q) = <<>> PROVE Head(q) = q[Len(q)]
  <2>1. Len(q) = 1
    BY <1>1, <1>4
  <2> QED
    BY <1>1, <2>1
<1> QED
  BY <1>3, <1>4

LEMMA LoginKept == ASSUME TypeOK, LoginInv, [Next]_vars PROVE LoginInv'
<1>0. QueuesTyped /\ StateTyped
  BY TypeParts
<1>1. CASE UNCHANGED <<paired, online, linking, connecting, main, issued, lastQR, evq, qrq>>
  BY <1>1 DEF LoginInv
<1>2. ASSUME IssueCode PROVE LoginInv'
  <2>1. main = "done" /\ main' = main /\ ~paired /\ evq = <<>>
    BY <1>2 DEF IssueCode, LoginInv, Untouched
  <2>2. qrq' = Append(qrq, CodeItem(issued')) /\ UNCHANGED <<paired, evq>>
    BY <1>2 DEF IssueCode
  <2>3. qrq \in Seq(QRItems) /\ CodeItem(issued') \in QRItems
    BY <1>0, <1>2, SessionAssumption
       DEF QueuesTyped, StateTyped, IssueCode, CodeItem, QRItems, Codes
  <2>4. qrq' # <<>> /\ qrq'[Len(qrq')] = CodeItem(issued')
    BY <2>2, <2>3
  <2> QED
    BY <2>1, <2>2, <2>4 DEF LoginInv
<1>3. ASSUME CodesRunOut \/ Pair PROVE LoginInv'
  <2>1. main = "done" /\ main' = main /\ ~linking'
    BY <1>3 DEF CodesRunOut, Pair, LoginInv, Untouched
  <2> QED
    BY <2>1 DEF LoginInv
<1>4. ASSUME GoOnline \/ GoOffline \/ Unlink PROVE LoginInv'
  <2>1. main = "done" /\ main' = main /\ ~linking /\ linking' = linking
    BY <1>0, <1>4 DEF GoOnline, GoOffline, Unlink, LoginInv, StateTyped, Untouched
  <2> QED
    BY <2>1 DEF LoginInv
<1>5. ASSUME Start PROVE LoginInv'
  BY <1>5 DEF Start, LoginInv, waVars
<1>6. ASSUME Connect PROVE LoginInv'
  BY <1>6 DEF Connect, LoginInv
<1>7. ASSUME HandleEvent PROVE LoginInv'
  <2>1. main = "done" /\ main' = main /\ ~linking /\ linking' = linking
    BY <1>7 DEF HandleEvent, LoginInv, waVars
  <2> QED
    BY <2>1 DEF LoginInv
<1>8. ASSUME HandleQR PROVE LoginInv'
  <2>1. main = "done" /\ UNCHANGED <<main, linking, paired, evq, issued>>
    BY <1>8 DEF HandleQR, LoginInv, waVars
  <2>2. qrq \in Seq(QRItems) /\ qrq # <<>> /\ qrq' = Tail(qrq)
    BY <1>0, <1>8 DEF HandleQR, QueuesTyped
  <2>3. CASE ~linking
    BY <2>1, <2>3 DEF LoginInv
  <2>4. CASE linking
    <3>1. ~paired /\ evq = <<>> /\ qrq[Len(qrq)] = CodeItem(issued)
      BY <2>2, <2>4 DEF LoginInv
    <3>2. qrq' # <<>> => qrq'[Len(qrq')] = CodeItem(issued)
      BY <2>2, <3>1, LastOfTail
    <3>3. qrq' = <<>> => Head(qrq) = CodeItem(issued)
      BY <2>2, <3>1, LastOfTail
    <3>4. qrq' = <<>> => lastQR' = issued
      BY <1>8, <3>3 DEF HandleQR, CodeItem
    <3> QED
      BY <2>1, <3>1, <3>2, <3>4 DEF LoginInv
  <2> QED
    BY <2>3, <2>4
<1>9. ASSUME NEW g \in Emitters, Emit(g) \/ CastStep(g) PROVE LoginInv'
  BY <1>1, <1>9 DEF Emit, CastStep, waVars, engineVars
<1>10. ASSUME NEW c \in Conns, ConnStep(c) PROVE LoginInv'
  BY <1>1, <1>10
     DEF ConnStep, ServerStep, SnapshotState, SnapshotQR, GetState, waVars, engineVars
<1>11. ASSUME NEW c \in Conns, GuiConnect(c) \/ GuiClose(c) \/ GuiRead(c) PROVE LoginInv'
  BY <1>1, <1>11 DEF GuiConnect, GuiClose, GuiRead, waVars, engineVars
<1>12. ASSUME UNCHANGED vars PROVE LoginInv'
  BY <1>1, <1>12 DEF vars, waVars, engineVars
<1> QED
  BY <1>2, <1>3, <1>4, <1>5, <1>6, <1>7, <1>8, <1>9, <1>10, <1>11, <1>12
     DEF Next, WhatsApp, Goroutine

-----------------------------------------------------------------------------
(* Every GUI is told of the state that holds.                              *)

Told == {"connected", "logged_out"}

Current(s) == IF s = "connected" THEN online ELSE ~paired

\* The state that holds was told to c, or it is on its way: c's snapshot is still
\* to be taken, or the frame or the event that will bring it is in a queue.
StateComes(c, s) ==
    \/ s \in heard[c] \/ handler[c].pc \in {"register", "snapshot"}
    \/ Coming(c, StateFrame(s), "event") \/ Has(evq, {s})

StateInv ==
    \A c \in Conns, s \in Told : open[c] /\ Current(s) => StateComes(c, s)

LEMMA InitState == Init => StateInv
BY DEF Init, ServerInit, StateInv

LEMMA ToldFrames ==
    /\ "event" \in Emitters /\ "qr" \in Emitters
    /\ \A s \in Told : StateFrame(s) \in Frames
BY FramesTyped, SessionAssumption DEF Told, States

LEMMA WhatsAppKeepsState ==
    ASSUME TypeOK, LoginInv, StateInv, WhatsApp
    PROVE  StateInv'
<1>0. QueuesTyped /\ StateTyped
  BY TypeParts
<1>1. SUFFICES ASSUME NEW c \in Conns, NEW s \in Told, open'[c], Current(s)'
               PROVE  StateComes(c, s)'
  BY DEF StateInv
<1>2. UNCHANGED <<open, clients, handler, cast, sock, emitter>>
  BY DEF WhatsApp, IssueCode, CodesRunOut, Pair, GoOnline, GoOffline, Unlink,
         Untouched, serverVars
<1>3. CASE IssueCode \/ CodesRunOut
  <2>1. UNCHANGED <<paired, online, heard, evq>>
    BY <1>3 DEF IssueCode, CodesRunOut
  <2> QED
    BY <1>1, <1>2, <2>1 DEF StateInv, StateComes, Coming, Current
<1>4. CASE Pair
  <2>1. paired' /\ ~online'
    BY <1>0, <1>4 DEF Pair, LoginInv, StateTyped
  <2> QED
    BY <1>1, <2>1 DEF Current
<1>5. CASE GoOffline
  <2>1. paired' /\ ~online'
    BY <1>0, <1>5 DEF GoOffline, StateTyped
  <2> QED
    BY <1>1, <2>1 DEF Current
<1>6. CASE GoOnline
  <2>1. paired' /\ evq' = Append(evq, "connected")
    BY <1>6 DEF GoOnline
  <2>2. s = "connected"
    BY <1>1, <2>1 DEF Current, Told
  <2>3. Has(evq', {"connected"})
    BY <1>0, <2>1, HasAppended DEF QueuesTyped, Events
  <2> QED
    BY <2>2, <2>3 DEF StateComes
<1>7. CASE Unlink
  <2>1. ~online' /\ evq' = Append(evq, "logged_out")
    BY <1>7 DEF Unlink
  <2>2. s = "logged_out"
    BY <1>1, <2>1 DEF Current, Told
  <2>3. Has(evq', {"logged_out"})
    BY <1>0, <2>1, HasAppended DEF QueuesTyped, Events
  <2> QED
    BY <2>2, <2>3 DEF StateComes
<1> QED
  BY <1>3, <1>4, <1>5, <1>6, <1>7 DEF WhatsApp

LEMMA GoroutineKeepsState ==
    ASSUME TypeOK, Members, StateInv, NEW g \in Emitters, Goroutine(g)
    PROVE  StateInv'
<1>0. QueuesTyped
  BY TypeParts
<1>1. SUFFICES ASSUME NEW c \in Conns, NEW s \in Told, open'[c], Current(s)'
               PROVE  StateComes(c, s)'
  BY DEF StateInv
<1>2. UNCHANGED <<open, handler, paired, online, heard>>
  BY DEF Goroutine, Start, Connect, HandleEvent, HandleQR, Emit, CastStep, CastWrite,
         serverVars, waVars, guiVars
<1>3. open[c] /\ StateComes(c, s)
  BY <1>1, <1>2 DEF StateInv, Current
<1>4. CASE s \in heard[c] \/ handler[c].pc \in {"register", "snapshot"}
  BY <1>2, <1>4 DEF StateComes
<1>5. CASE Coming(c, StateFrame(s), "event")
  <2>1. CASE Start \/ HandleEvent \/ HandleQR
    BY <1>5, <2>1, ToldFrames, DecisionsCarry DEF StateComes
  <2>2. CASE Connect
    BY <1>5, <2>2 DEF Connect, serverVars, StateComes, Coming
  <2>3. CASE Emit(g) \/ CastStep(g)
    BY <1>3, <1>5, <2>3, ToldFrames, MovesCarry DEF Moves, StateComes
  <2> QED
    BY <2>1, <2>2, <2>3 DEF Goroutine
<1>6. CASE Has(evq, {s})
  <2>1. CASE HandleEvent
    <3>1. evq # <<>> /\ evq' = Tail(evq)
      BY <2>1 DEF HandleEvent
    <3>2. Head(evq) = s \/ Has(evq', {s})
      BY <1>0, <1>6, <3>1, HasTaken DEF QueuesTyped
    <3>3. CASE Head(evq) = s
      <4>1. emitter'["event"] = <<StateFrame(s)>>
        BY <1>0, <2>1, <3>3, ToldFrames DEF HandleEvent, WillEmit, QueuesTyped, Told
      <4>2. Has(<<StateFrame(s)>>, {StateFrame(s)})
        BY DEF Has
      <4>3. c \in clients' \/ handler'[c].pc = "register"
        <5>1. handler[c].pc \in PCs
          BY TypeParts DEF ServerTyped
        <5> QED
          BY <1>2, <1>3, <2>1, <5>1 DEF Members, PCs, HandleEvent, serverVars
      <4> QED
        BY <4>1, <4>2, <4>3 DEF StateComes, Coming
    <3> QED
      BY <3>2, <3>3 DEF StateComes
  <2>2. CASE ~HandleEvent
    <3>1. evq' = evq
      BY <2>2 DEF Goroutine, Start, Connect, HandleQR, Emit, CastStep, engineVars
    <3> QED
      BY <1>6, <3>1 DEF StateComes
  <2> QED
    BY <2>1, <2>2
<1> QED
  BY <1>3, <1>4, <1>5, <1>6 DEF StateComes

LEMMA ConnKeepsState ==
    ASSUME TypeOK, Members, StateInv, NEW d \in Conns, ConnStep(d)
    PROVE  StateInv'
<1>0. ServerTyped /\ StateTyped
  BY TypeParts
<1>1. SUFFICES ASSUME NEW c \in Conns, NEW s \in Told, open'[c], Current(s)'
               PROVE  StateComes(c, s)'
  BY DEF StateInv
<1>2. UNCHANGED <<open, paired, online, heard, evq>>
  BY DEF ConnStep, ServerStep, HandlerStep, Register, HandlerWrite, EndOfStream,
         Unregister, SnapshotState, SnapshotQR, GetState, waVars, guiVars, engineVars
<1>3. open[c] /\ StateComes(c, s)
  BY <1>1, <1>2 DEF StateInv, Current
<1>4. CASE s \in heard[c] \/ Has(evq, {s})
  BY <1>2, <1>4 DEF StateComes
<1>5. CASE handler[c].pc \in {"register", "snapshot"}
  <2>1. CASE c = d /\ SnapshotState(d)
    <3>1. handler'[c].out = <<StateFrame(s)>>
      BY <1>0, <1>1, <1>2, <2>1 DEF SnapshotState, ServerTyped, StateTyped, Current, Told
    <3>2. Has(<<StateFrame(s)>>, {StateFrame(s)})
      BY DEF Has
    <3> QED
      BY <3>1, <3>2 DEF StateComes, Coming
  <2>2. CASE c # d \/ ~SnapshotState(d)
    <3>1. handler'[c].pc \in {"register", "snapshot"}
      BY <1>0, <1>5, <2>2
         DEF ConnStep, ServerStep, HandlerStep, Register, HandlerWrite, EndOfStream,
             Unregister, SnapshotState, SnapshotQR, GetState, ServerTyped
    <3> QED
      BY <3>1 DEF StateComes
  <2> QED
    BY <2>1, <2>2
<1>6. CASE handler[c].pc \notin {"register", "snapshot"} /\ Coming(c, StateFrame(s), "event")
  <2>1. CASE ServerStep(d)
    BY <1>3, <1>6, <2>1, ToldFrames, MovesCarry DEF Moves, StateComes
  <2>2. CASE SnapshotState(d) \/ SnapshotQR(d) \/ GetState(d)
    BY <1>6, <2>2, ToldFrames, RepliesCarry DEF StateComes
  <2> QED
    BY <2>1, <2>2 DEF ConnStep
<1> QED
  BY <1>3, <1>4, <1>5, <1>6 DEF StateComes

LEMMA GuiKeepsState ==
    ASSUME TypeOK, StateInv, NEW d \in Conns,
           GuiConnect(d) \/ GuiClose(d) \/ GuiRead(d)
    PROVE  StateInv'
<1>0. ServerTyped /\ GuisTyped
  BY TypeParts
<1>1. SUFFICES ASSUME NEW c \in Conns, NEW s \in Told, open'[c], Current(s)'
               PROVE  StateComes(c, s)'
  BY DEF StateInv
<1>2. UNCHANGED <<paired, online, evq, emitter, clients, cast>>
  BY DEF GuiConnect, GuiClose, GuiRead, Accept, Close, waVars, engineVars
<1>3. CASE GuiConnect(d)
  <2>1. CASE c = d
    <3>1. handler'[c].pc = "register"
      BY <1>0, <1>3, <2>1 DEF GuiConnect, Accept, ServerTyped
    <3> QED
      BY <3>1 DEF StateComes
  <2>2. CASE c # d
    <3>1. /\ open'[c] = open[c] /\ handler'[c] = handler[c] /\ sock'[c] = sock[c]
          /\ heard'[c] = heard[c]
      BY <1>0, <1>3, <2>2 DEF GuiConnect, Accept, ServerTyped, GuisTyped
    <3> QED
      BY <1>1, <1>2, <3>1 DEF StateInv, StateComes, Coming, Current
  <2> QED
    BY <2>1, <2>2
<1>4. CASE GuiClose(d)
  <2>1. c # d
    BY <1>0, <1>1, <1>4 DEF GuiClose, Close, ServerTyped
  <2>2. /\ open'[c] = open[c] /\ handler'[c] = handler[c] /\ sock'[c] = sock[c]
        /\ heard'[c] = heard[c]
    BY <1>0, <1>4, <2>1 DEF GuiClose, Close, ServerTyped, guiVars
  <2> QED
    BY <1>1, <1>2, <2>2 DEF StateInv, StateComes, Coming, Current
<1>5. CASE GuiRead(d)
  <2>1. open[c] /\ handler' = handler /\ StateComes(c, s)
    BY <1>1, <1>2, <1>5 DEF GuiRead, StateInv, Current
  <2>2. s \in heard[c] => s \in heard'[c]
    BY <1>0, <1>5 DEF GuiRead, GuisTyped, guiVars
  <2>3. Coming(c, StateFrame(s), "event")
        => Coming(c, StateFrame(s), "event")' \/ (c = d /\ Head(sock[c]) = StateFrame(s))
    BY <1>5, ToldFrames, ReadCarries
  <2>4. c = d /\ Head(sock[c]) = StateFrame(s) => s \in heard'[c]
    BY <1>0, <1>5 DEF GuiRead, StateFrame, GuisTyped
  <2> QED
    BY <1>2, <2>1, <2>2, <2>3, <2>4 DEF StateComes
<1> QED
  BY <1>3, <1>4, <1>5

LEMMA StateKept ==
    ASSUME TypeOK, Members, LoginInv, StateInv, [Next]_vars
    PROVE  StateInv'
<1>1. ASSUME UNCHANGED vars PROVE StateInv'
  BY <1>1
     DEF vars, serverVars, waVars, engineVars, guiVars, StateInv, StateComes, Coming,
         Current
<1> QED
  BY <1>1, WhatsAppKeepsState, GoroutineKeepsState, ConnKeepsState, GuiKeepsState
     DEF Next

\* Nothing is on its way to a settled GUI.
LEMMA NothingComes ==
    ASSUME NEW c \in Conns, Settled(c), NEW f, NEW g \in Emitters
    PROVE  ~Coming(c, f, g)
BY HasNothing DEF Settled, Busy, Casting, Coming

\* A GUI for which nothing is under way has been told of the session as it is, for
\* any number of GUIs that come and go and of changes of the session.
THEOREM StateHeardTheorem == Spec => []StateHeard
<1>1. Init => TypeOK /\ Members /\ LoginInv /\ StateInv
  BY InitTyped, InitMembers, InitLogin, InitState
<1>2. TypeOK /\ Members /\ LoginInv /\ StateInv /\ [Next]_vars
      => (TypeOK /\ Members /\ LoginInv /\ StateInv)'
  BY NextTyped, MembersKept, LoginKept, StateKept
<1>3. StateInv => StateHeard
  <2> SUFFICES ASSUME StateInv, NEW c \in Conns, Settled(c), NEW s \in Told, Current(s)
               PROVE  s \in heard[c]
    BY DEF StateHeard, Told, Current
  <2>1. StateComes(c, s)
    BY DEF StateInv, Settled
  <2>2. ~Coming(c, StateFrame(s), "event")
    BY NothingComes, ToldFrames
  <2>3. handler[c].pc = "serve" /\ ~Has(evq, {s})
    BY HasNothing DEF Settled
  <2> QED
    BY <2>1, <2>2, <2>3 DEF StateComes
<1> QED
  BY <1>1, <1>2, <1>3, PTL DEF Spec

-----------------------------------------------------------------------------
(* Every GUI gets the code that can be scanned.                            *)

\* The last code issued was received by c, or it is on its way: the QR goroutine
\* is still to handle it, c's handler is still to read the cache, or the frame
\* is in a queue.
CodeComes(c) ==
    \/ issued \in seenQR[c] \/ handler[c].pc \in {"register", "snapshot", "qr"}
    \/ Coming(c, QRFrame(issued), "qr") \/ qrq # <<>>

CodeInv ==
    \A c \in Conns : open[c] /\ linking /\ issued > 0 => CodeComes(c)

LEMMA InitCode == Init => CodeInv
BY DEF Init, CodeInv

LEMMA IssuedFrame == TypeOK /\ issued > 0 => QRFrame(issued) \in Frames
BY TypeParts, FramesTyped, SessionAssumption DEF StateTyped, Codes

LEMMA WhatsAppKeepsCode ==
    ASSUME TypeOK, LoginInv, CodeInv, WhatsApp
    PROVE  CodeInv'
<1>0. QueuesTyped /\ StateTyped
  BY TypeParts
<1>1. CASE IssueCode
  <2>1. CodeItem(issued + 1) \in QRItems
    BY <1>0, <1>1, SessionAssumption DEF IssueCode, StateTyped, CodeItem, QRItems, Codes
  <2>2. qrq' # <<>>
    BY <1>0, <1>1, <2>1 DEF IssueCode, QueuesTyped
  <2> QED
    BY <2>2 DEF CodeInv, CodeComes
<1>2. CASE CodesRunOut \/ Pair
  BY <1>2 DEF CodesRunOut, Pair, CodeInv
<1>3. CASE GoOnline \/ GoOffline \/ Unlink
  <2>1. ~linking'
    BY <1>0, <1>3 DEF GoOnline, GoOffline, Unlink, LoginInv, StateTyped
  <2> QED
    BY <2>1 DEF CodeInv
<1> QED
  BY <1>1, <1>2, <1>3 DEF WhatsApp

LEMMA GoroutineKeepsCode ==
    ASSUME TypeOK, Members, LoginInv, CodeInv, NEW g \in Emitters, Goroutine(g)
    PROVE  CodeInv'
<1>0. QueuesTyped /\ StateTyped
  BY TypeParts
<1>1. CASE Connect
  BY <1>1 DEF Connect, LoginInv, CodeInv
<1>2. CASE ~Connect
  <2>1. SUFFICES ASSUME NEW c \in Conns, open'[c], linking', issued' > 0
                 PROVE  CodeComes(c)'
    BY DEF CodeInv
  <2>2. UNCHANGED <<open, handler, linking, issued, seenQR>>
    BY <1>2
       DEF Goroutine, Start, HandleEvent, HandleQR, Emit, CastStep, CastWrite,
           serverVars, waVars, guiVars
  <2>3. open[c] /\ linking /\ issued > 0 /\ CodeComes(c) /\ QRFrame(issued) \in Frames
    BY <2>1, <2>2, IssuedFrame DEF CodeInv
  <2>4. CASE issued \in seenQR[c] \/ handler[c].pc \in {"register", "snapshot", "qr"}
    BY <2>2, <2>4 DEF CodeComes
  <2>5. CASE Coming(c, QRFrame(issued), "qr")
    <3>1. CASE Start \/ HandleEvent \/ HandleQR
      <4>1. \A e \in Frames : Coming(c, e, "qr") => Coming(c, e, "qr")'
        BY <3>1, DecisionsCarry
      <4>2. Coming(c, QRFrame(issued), "qr")'
        BY <2>2, <2>3, <2>5, <4>1 DEF Coming, QRFrame
      <4> QED
        BY <4>2 DEF CodeComes
    <3>2. CASE Emit(g) \/ CastStep(g)
      <4>1. \A e \in Frames : Coming(c, e, "qr") => Coming(c, e, "qr")'
        BY <2>3, <3>2, ToldFrames, MovesCarry DEF Moves
      <4>2. Coming(c, QRFrame(issued), "qr")'
        BY <2>2, <2>3, <2>5, <4>1 DEF Coming, QRFrame
      <4> QED
        BY <4>2 DEF CodeComes
    <3> QED
      BY <1>2, <3>1, <3>2 DEF Goroutine
  <2>6. CASE qrq # <<>>
    <3>1. CASE HandleQR
      <4>1. CASE qrq' # <<>>
        BY <4>1 DEF CodeComes
      <4>2. CASE qrq' = <<>>
        <5>1. Head(qrq) = CodeItem(issued)
          BY <1>0, <2>3, <2>6, <3>1, <4>2, LastOfTail DEF HandleQR, LoginInv, QueuesTyped
        <5>2. emitter'["qr"] = <<QRFrame(issued)>>
          BY <1>0, <3>1, <5>1, ToldFrames DEF HandleQR, WillEmit, CodeItem, QueuesTyped
        <5>3. Has(<<QRFrame(issued)>>, {QRFrame(issued)})
          BY DEF Has
        <5>4. c \in clients' \/ handler'[c].pc = "register"
          <6>1. handler[c].pc \in PCs
            BY TypeParts DEF ServerTyped
          <6> QED
            BY <2>2, <2>3, <3>1, <6>1 DEF Members, PCs, HandleQR, serverVars
        <5>5. Has(emitter'["qr"], {QRFrame(issued')})
          BY <2>2, <5>2, <5>3
        <5> QED
          BY <5>4, <5>5 DEF CodeComes, Coming, QRFrame
      <4> QED
        BY <4>1, <4>2
    <3>2. CASE ~HandleQR
      <4>1. qrq' = qrq
        BY <1>2, <3>2 DEF Goroutine, Start, HandleEvent, Emit, CastStep, engineVars
      <4> QED
        BY <2>6, <4>1 DEF CodeComes
    <3> QED
      BY <3>1, <3>2
  <2> QED
    BY <2>3, <2>4, <2>5, <2>6 DEF CodeComes
<1> QED
  BY <1>1, <1>2

LEMMA ConnKeepsCode ==
    ASSUME TypeOK, Members, LoginInv, CodeInv, NEW d \in Conns, ConnStep(d)
    PROVE  CodeInv'
<1>0. ServerTyped /\ StateTyped
  BY TypeParts
<1>1. SUFFICES ASSUME NEW c \in Conns, open'[c], linking', issued' > 0
               PROVE  CodeComes(c)'
  BY DEF CodeInv
<1>2. UNCHANGED <<open, linking, issued, seenQR, qrq, lastQR>>
  BY DEF ConnStep, ServerStep, HandlerStep, Register, HandlerWrite, EndOfStream,
         Unregister, SnapshotState, SnapshotQR, GetState, waVars, guiVars, engineVars
<1>3. open[c] /\ linking /\ issued > 0 /\ CodeComes(c) /\ QRFrame(issued) \in Frames
  BY <1>1, <1>2, IssuedFrame DEF CodeInv
<1>4. CASE issued \in seenQR[c] \/ qrq # <<>>
  BY <1>2, <1>4 DEF CodeComes
<1>5. CASE qrq = <<>> /\ handler[c].pc \in {"register", "snapshot", "qr"}
  <2>1. CASE c = d /\ SnapshotQR(d)
    <3>1. lastQR = issued /\ lastQR # 0
      BY <1>0, <1>3, <1>5, SessionAssumption DEF LoginInv, StateTyped
    <3>2. handler[c].out \in Seq(Frames)
      BY <1>0 DEF ServerTyped
    <3>3. handler'[c].out = Append(handler[c].out, QRFrame(issued))
      BY <1>0, <2>1, <3>1 DEF SnapshotQR, ServerTyped
    <3>4. Has(handler'[c].out, {QRFrame(issued)})
      BY <1>3, <3>2, <3>3, HasAppended
    <3> QED
      BY <1>2, <3>4 DEF CodeComes, Coming, QRFrame
  <2>2. CASE c # d \/ ~SnapshotQR(d)
    <3>1. ~online
      BY <1>0, <1>3 DEF LoginInv, StateTyped
    <3>2. handler'[c].pc \in {"register", "snapshot", "qr"}
      <4>1. CASE c = d
        BY <1>0, <1>5, <2>2, <3>1, <4>1
           DEF ConnStep, ServerStep, HandlerStep, Register, HandlerWrite, EndOfStream,
               Unregister, SnapshotState, GetState, ServerTyped
      <4>2. CASE c # d
        <5>1. handler'[c] = handler[c]
          BY <1>0, <4>2
             DEF ConnStep, ServerStep, HandlerStep, Register, HandlerWrite, EndOfStream,
                 Unregister, SnapshotState, SnapshotQR, GetState, ServerTyped
        <5> QED
          BY <1>5, <5>1
      <4> QED
        BY <4>1, <4>2
    <3> QED
      BY <3>2 DEF CodeComes
  <2> QED
    BY <2>1, <2>2
<1>6. CASE /\ handler[c].pc \notin {"register", "snapshot", "qr"}
           /\ Coming(c, QRFrame(issued), "qr")
  <2>1. CASE ServerStep(d)
    <3>1. \A e \in Frames : Coming(c, e, "qr") => Coming(c, e, "qr")'
      BY <1>3, <2>1, ToldFrames, MovesCarry DEF Moves
    <3> QED
      BY <1>2, <1>3, <1>6, <3>1 DEF CodeComes, Coming, QRFrame
  <2>2. CASE SnapshotState(d) \/ SnapshotQR(d) \/ GetState(d)
    <3>1. \A e \in Frames : Coming(c, e, "qr") => Coming(c, e, "qr")'
      BY <1>6, <2>2, ToldFrames, RepliesCarry
    <3> QED
      BY <1>2, <1>3, <1>6, <3>1 DEF CodeComes, Coming, QRFrame
  <2> QED
    BY <2>1, <2>2 DEF ConnStep
<1> QED
  BY <1>3, <1>4, <1>5, <1>6 DEF CodeComes

LEMMA GuiKeepsCode ==
    ASSUME TypeOK, CodeInv, NEW d \in Conns,
           GuiConnect(d) \/ GuiClose(d) \/ GuiRead(d)
    PROVE  CodeInv'
<1>0. ServerTyped /\ GuisTyped
  BY TypeParts
<1>1. SUFFICES ASSUME NEW c \in Conns, open'[c], linking', issued' > 0
               PROVE  CodeComes(c)'
  BY DEF CodeInv
<1>2. UNCHANGED <<linking, issued, qrq, emitter, clients, cast>>
  BY DEF GuiConnect, GuiClose, GuiRead, Accept, Close, waVars, engineVars
<1>3. CASE GuiConnect(d) /\ c = d
  <2>1. handler'[c].pc = "register"
    BY <1>0, <1>3 DEF GuiConnect, Accept, ServerTyped
  <2> QED
    BY <2>1 DEF CodeComes
<1>4. CASE c # d /\ (GuiConnect(d) \/ GuiClose(d))
  <2>1. /\ open'[c] = open[c] /\ handler'[c] = handler[c] /\ sock'[c] = sock[c]
        /\ seenQR'[c] = seenQR[c]
    BY <1>0, <1>4 DEF GuiConnect, GuiClose, Accept, Close, ServerTyped, GuisTyped, guiVars
  <2> QED
    BY <1>1, <1>2, <2>1 DEF CodeInv, CodeComes, Coming
<1>5. CASE GuiClose(d) /\ c = d
  BY <1>0, <1>1, <1>5 DEF GuiClose, Close, ServerTyped
<1>6. CASE GuiRead(d)
  <2>1. open[c] /\ handler' = handler /\ CodeComes(c) /\ QRFrame(issued) \in Frames
    BY <1>1, <1>2, <1>6, IssuedFrame DEF GuiRead, CodeInv
  <2>2. issued \in seenQR[c] => issued \in seenQR'[c]
    BY <1>0, <1>6 DEF GuiRead, GuisTyped, guiVars
  <2>3. \A e \in Frames : Coming(c, e, "qr")
        => Coming(c, e, "qr")' \/ (c = d /\ Head(sock[c]) = e)
    BY <1>6, ToldFrames, ReadCarries
  <2>4. c = d /\ Head(sock[c]) = QRFrame(issued) => issued \in seenQR'[c]
    BY <1>0, <1>6 DEF GuiRead, QRFrame, GuisTyped
  <2>5. Coming(c, QRFrame(issued), "qr")
        => (\A e \in Frames : e = QRFrame(issued') => Coming(c, e, "qr")')
           \/ issued \in seenQR'[c]
    BY <1>2, <2>1, <2>3, <2>4
  <2> QED
    BY <1>2, <2>1, <2>2, <2>5 DEF CodeComes, Coming, QRFrame
<1> QED
  BY <1>3, <1>4, <1>5, <1>6

LEMMA CodeKept ==
    ASSUME TypeOK, Members, LoginInv, CodeInv, [Next]_vars
    PROVE  CodeInv'
<1>1. ASSUME UNCHANGED vars PROVE CodeInv'
  BY <1>1
     DEF vars, serverVars, waVars, engineVars, guiVars, CodeInv, CodeComes, Coming
<1> QED
  BY <1>1, WhatsAppKeepsCode, GoroutineKeepsCode, ConnKeepsCode, GuiKeepsCode DEF Next

\* While a login is open, a GUI for which nothing is under way has received the
\* code that can be scanned, for any number of codes and of GUIs that come and go.
THEOREM LatestQRTheorem == Spec => []LatestQRReceived
<1>1. Init => TypeOK /\ Members /\ LoginInv /\ CodeInv
  BY InitTyped, InitMembers, InitLogin, InitCode
<1>2. TypeOK /\ Members /\ LoginInv /\ CodeInv /\ [Next]_vars
      => (TypeOK /\ Members /\ LoginInv /\ CodeInv)'
  BY NextTyped, MembersKept, LoginKept, CodeKept
<1>3. CodeInv => LatestQRReceived
  <2> SUFFICES ASSUME CodeInv, NEW c \in Conns, Settled(c), linking, issued > 0
               PROVE  issued \in seenQR[c]
    BY DEF LatestQRReceived
  <2>1. CodeComes(c)
    BY DEF CodeInv, Settled
  <2>2. ~Coming(c, QRFrame(issued), "qr")
    BY NothingComes, ToldFrames
  <2>3. handler[c].pc = "serve" /\ qrq = <<>>
    BY DEF Settled
  <2> QED
    BY <2>1, <2>2, <2>3 DEF CodeComes
<1> QED
  BY <1>1, <1>2, <1>3, PTL DEF Spec
=============================================================================
