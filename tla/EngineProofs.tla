---------------------------- MODULE EngineProofs ----------------------------
(***************************************************************************)
(* Proofs about Engine, for any messages, chats, clients and downloads.    *)
(***************************************************************************)
EXTENDS Engine, TLAPS

-----------------------------------------------------------------------------
(* The store's statements keep the shape of their tables.                  *)

\* The rows the engine hands to the store are message rows.
LEMMA NewRowsTyped ==
    ASSUME NEW m \in Msgs
    PROVE  ReceivedRow(m) \in MessageRow /\ SentRow(m) \in MessageRow
BY StoreAssumption
   DEF ReceivedRow, SentRow, MessageRow, Kinds, Statuses, Paths

\* INSERT ... ON CONFLICT leaves a row for m and the other rows alone.
LEMMA InsertTyped ==
    ASSUME NEW t \in MessagesTable, NEW m \in Msgs, NEW row \in MessageRow
    PROVE  InsertMessage(t, m, row) \in MessagesTable
BY StoreAssumption
   DEF InsertMessage, OnConflict, MessagesTable, MessageRow

LEMMA InsertBatchTyped ==
    ASSUME NEW t \in MessagesTable, NEW batch
    PROVE  InsertBatch(t, batch) \in MessagesTable
<1>1. ASSUME NEW m \in Msgs
      PROVE  OnConflict(t[m], ReceivedRow(m)) \in MessageRow \cup {NoRow}
  <2>1. ReceivedRow(m) \in MessageRow
    BY NewRowsTyped
  <2>2. t[m] \in MessageRow \cup {NoRow}
    BY DEF MessagesTable
  <2> QED
    BY <2>1, <2>2 DEF OnConflict, MessageRow
<1> QED
  BY <1>1 DEF InsertBatch, MessagesTable

\* Every UPDATE of a message writes a message row, if it writes at all.
LEMMA UpdatesTyped ==
    ASSUME NEW t \in MessagesTable, NEW m \in Msgs
    PROVE  /\ \A status \in Statuses : UpdateStatus(t, m, status) \in MessagesTable
           /\ MarkRevoked(t, m) \in MessagesTable
           /\ \A text \in Texts : UpdateText(t, m, text) \in MessagesTable
           /\ \A p \in Paths : UpdateMediaPath(t, m, p) \in MessagesTable
           /\ \A b \in BOOLEAN : SetStarred(t, m, b) \in MessagesTable
<1>1. t[m] # NoRow => t[m] \in MessageRow
  BY DEF MessagesTable
<1>2. \A status \in Statuses : UpdateStatus(t, m, status) \in MessagesTable
  BY <1>1 DEF UpdateStatus, MessagesTable, MessageRow
<1>3. MarkRevoked(t, m) \in MessagesTable
  BY <1>1, StoreAssumption
     DEF MarkRevoked, UpdateRow, MessagesTable, MessageRow, Paths
<1>4. \A text \in Texts : UpdateText(t, m, text) \in MessagesTable
  BY <1>1 DEF UpdateText, UpdateRow, MessagesTable, MessageRow
<1>5. \A p \in Paths : UpdateMediaPath(t, m, p) \in MessagesTable
  BY <1>1 DEF UpdateMediaPath, UpdateRow, MessagesTable, MessageRow
<1>6. \A b \in BOOLEAN : SetStarred(t, m, b) \in MessagesTable
  BY <1>1 DEF SetStarred, UpdateRow, MessagesTable, MessageRow
<1> QED
  BY <1>2, <1>3, <1>4, <1>5, <1>6

\* So does every statement on a chat.
LEMMA ChatUpdatesTyped ==
    ASSUME NEW t \in ChatsTable, NEW j \in Chats
    PROVE  /\ \A ts \in Nat, text \in Texts : UpdateChat(t, j, ts, text) \in ChatsTable
           /\ SetChatName(t, j) \in ChatsTable
           /\ IncrementUnread(t, j) \in ChatsTable
           /\ ResetUnread(t, j) \in ChatsTable
           /\ \A b \in BOOLEAN : SetPinned(t, j, b) \in ChatsTable
           /\ \A b \in BOOLEAN : SetMuted(t, j, b) \in ChatsTable
<1>1. t[j] # NoRow => t[j] \in ChatRow
  BY DEF ChatsTable
<1>2. ChatRowOf(t, j) \in ChatRow
  BY <1>1, StoreAssumption DEF ChatRowOf, FreshChat, ChatRow
<1>3. \A ts \in Nat, text \in Texts : UpdateChat(t, j, ts, text) \in ChatsTable
  BY <1>2 DEF UpdateChat, ChatsTable, ChatRow
<1>4. SetChatName(t, j) \in ChatsTable
  BY <1>2 DEF SetChatName, ChatsTable, ChatRow
<1>5. IncrementUnread(t, j) \in ChatsTable
  BY <1>1 DEF IncrementUnread, UpdateChatRow, ChatsTable, ChatRow
<1>6. ResetUnread(t, j) \in ChatsTable
  BY <1>1 DEF ResetUnread, UpdateChatRow, ChatsTable, ChatRow
<1>7. \A b \in BOOLEAN : SetPinned(t, j, b) \in ChatsTable
  BY <1>1 DEF SetPinned, UpdateChatRow, ChatsTable, ChatRow
<1>8. \A b \in BOOLEAN : SetMuted(t, j, b) \in ChatsTable
  BY <1>1 DEF SetMuted, UpdateChatRow, ChatsTable, ChatRow
<1> QED
  BY <1>3, <1>4, <1>5, <1>6, <1>7, <1>8

-----------------------------------------------------------------------------
(* Frames and control states are well formed.                              *)

\* Whatever is pushed is a frame of the protocol.
LEMMA FramesTyped ==
    ASSUME NEW m \in Msgs
    PROVE  /\ MessageFrame(m) \in Frames /\ RevokedFrame(m) \in Frames
           /\ MediaFrame(m) \in Frames /\ ReceiptFrame(m) \in Frames
           /\ \A text \in Texts : EditedFrame(m, text) \in Frames
           /\ \A s \in Senders, e \in Emojis \cup {""} :
                  ReactionFrame(m, s, e) \in Frames
           /\ \A status \in Statuses : StatusFrame(m, status) \in Frames
           /\ \A j \in Chats, n \in Nat : UnreadFrame(j, n) \in Frames
           /\ HistoryFrame \in Frames
           /\ \A ok \in BOOLEAN : ResponseFrame(ok) \in Frames
BY DEF Frames, MessageFrame, RevokedFrame, MediaFrame, ReceiptFrame, EditedFrame,
       ReactionFrame, StatusFrame, UnreadFrame, HistoryFrame, ResponseFrame

LEMMA OtherFramesTyped ==
    /\ \A j \in Chats, n \in Nat : UnreadFrame(j, n) \in Frames
    /\ HistoryFrame \in Frames
    /\ \A ok \in BOOLEAN : ResponseFrame(ok) \in Frames
BY DEF Frames, UnreadFrame, HistoryFrame, ResponseFrame

\* TypeOK without the sockets, to which other modules' frames are written too.
DaemonTyped ==
    /\ messages \in MessagesTable /\ chats \in ChatsTable
    /\ reactions \in ReactionsTable /\ activeChat \in Chats \cup {NoChat}
    /\ ev \in EvState /\ hist \in HistState
    /\ cmd \in [Clients -> CmdState] /\ dl \in [Slots -> DlState]
    /\ file \in [Msgs -> FileStates] /\ onServer \in SUBSET Msgs

SocketsOf(F) == sock \in [Clients -> Seq(F)]

LEMMA TypeParts ==
    /\ TypeOK <=> DaemonTyped /\ SocketsOf(Frames)
    /\ TypeOK' <=> DaemonTyped' /\ SocketsOf(Frames)'
BY DEF TypeOK, DaemonTyped, SocketsOf

\* The empty queue is a queue of frames.
LEMMA NothingToPush == <<>> \in Seq(Frames)
OBVIOUS

\* The idle states.
LEMMA IdleTyped ==
    /\ EvIdle \in EvState /\ HistIdle \in HistState /\ DlIdle \in DlState
    /\ CmdIdle \in CmdState
    /\ \A ok \in BOOLEAN : Reply(ok) \in CmdState
<1>1. EvIdle \in EvState
  BY NothingToPush DEF EvIdle, EvState
<1>2. HistIdle \in HistState
  BY NothingToPush DEF HistIdle, HistState
<1>3. DlIdle \in DlState
  BY DEF DlIdle, DlState
<1>4. CmdIdle \in CmdState
  BY NothingToPush, StoreAssumption DEF CmdIdle, CmdState
<1>5. ASSUME NEW ok \in BOOLEAN PROVE Reply(ok) \in CmdState
  BY NothingToPush, StoreAssumption DEF Reply, CmdIdle, CmdState
<1> QED
  BY <1>1, <1>2, <1>3, <1>4, <1>5

\* One or two frames make a queue.
LEMMA QueueTyped ==
    ASSUME NEW f \in Frames
    PROVE  <<f>> \in Seq(Frames) /\ \A g \in Frames : <<f, g>> \in Seq(Frames)
OBVIOUS

\* An idle event goroutine with one or two frames to push.
LEMMA EvOutTyped ==
    ASSUME NEW f \in Frames
    PROVE  /\ [EvIdle EXCEPT !.out = <<f>>] \in EvState
           /\ \A g \in Frames : [EvIdle EXCEPT !.out = <<f, g>>] \in EvState
BY QueueTyped DEF EvIdle, EvState

\* A command with a response, and a frame, left to push.
LEMMA ReplyOutTyped ==
    ASSUME NEW ok \in BOOLEAN, NEW f \in Frames
    PROVE  [Reply(ok) EXCEPT !.out = <<f>>] \in CmdState
BY QueueTyped, StoreAssumption DEF Reply, CmdIdle, CmdState

LEMMA BeginTyped ==
    ASSUME DaemonTyped, NEW c \in Clients, NEW rec \in CmdState, Begin(c, rec)
    PROVE  cmd' \in [Clients -> CmdState]
BY DEF DaemonTyped, Begin

\* A statement that may fail keeps the shape of its table if it does when it is
\* executed.
LEMMA AttemptTyped ==
    ASSUME NEW S, NEW old \in S, NEW new \in S
    PROVE  Attempt(old, new) \subseteq S
BY DEF Attempt

\* A queue of the frames still to push.
LEMMA HeadTailTyped ==
    ASSUME NEW q \in Seq(Frames), q # <<>>
    PROVE  Head(q) \in Frames /\ Tail(q) \in Seq(Frames)
OBVIOUS

\* A message that is stored keeps the tables' shape.
LEMMA PutTyped ==
    ASSUME NEW t \in MessagesTable, NEW u \in ChatsTable, NEW m \in Msgs,
           NEW row \in MessageRow
    PROVE  /\ InsertMessage(t, m, row) \in MessagesTable
           /\ UpdateChat(u, ChatOf[m], Ts[m], Body[m]) \in ChatsTable
<1>1. Ts[m] \in Nat /\ Body[m] \in Texts /\ ChatOf[m] \in Chats
  BY StoreAssumption
<1> QED
  BY <1>1, InsertTyped, ChatUpdatesTyped

-----------------------------------------------------------------------------
(* Type correctness, goroutine by goroutine.                               *)

\* An event is handled up to the first frame it pushes.
LEMMA EventArrivesTyped == DaemonTyped /\ EventArrives => DaemonTyped'
<1> SUFFICES ASSUME DaemonTyped, NEW m \in Msgs,
                    \/ EventMessage(m)
                    \/ EventRevoke(m)
                    \/ \E text \in Texts \ {""} : EventEdit(m, text)
                    \/ \E s \in Senders, emoji \in Emojis \cup {""} :
                          EventReaction(m, s, emoji)
                    \/ \E status \in Statuses : EventReceipt(m, status)
             PROVE  DaemonTyped'
  BY DEF EventArrives
<1>0. messages \in MessagesTable /\ chats \in ChatsTable
  BY DEF DaemonTyped
<1>1. CASE EventMessage(m)
  <2>1. ReceivedRow(m) \in MessageRow
    BY NewRowsTyped
  <2>2. /\ InsertMessage(messages, m, ReceivedRow(m)) \in MessagesTable
        /\ UpdateChat(chats, ChatOf[m], Ts[m], Body[m]) \in ChatsTable
    BY <1>0, <2>1, PutTyped
  <2>3. messages' \in MessagesTable /\ chats' \in ChatsTable
    BY <1>0, <1>1, <2>2 DEF EventMessage
  <2>4. MessageFrame(m) \in Frames
    BY FramesTyped
  <2>5. <<MessageFrame(m)>> \in Seq(Frames)
    BY <2>4, QueueTyped
  <2>6. ev' = [pc |-> "announced", m |-> m, out |-> <<MessageFrame(m)>>]
    BY <1>1 DEF EventMessage
  <2>7. ev' \in EvState
    BY <2>5, <2>6 DEF EvState
  <2> QED
    BY <1>1, <2>3, <2>7 DEF EventMessage, DaemonTyped
<1>2. CASE EventRevoke(m)
  <2>1. messages' \in MessagesTable
    BY <1>0, <1>2, UpdatesTyped, AttemptTyped DEF EventRevoke
  <2>2. RevokedFrame(m) \in Frames
    BY FramesTyped
  <2>3. ev' \in EvState
    BY <1>2, <2>2, EvOutTyped DEF EventRevoke
  <2> QED
    BY <1>2, <2>1, <2>3 DEF EventRevoke, DaemonTyped
<1>3. ASSUME NEW text \in Texts \ {""}, EventEdit(m, text)
      PROVE  DaemonTyped'
  <2>1. messages' \in MessagesTable
    BY <1>0, <1>3, UpdatesTyped, AttemptTyped DEF EventEdit
  <2>2. EditedFrame(m, text) \in Frames
    BY FramesTyped
  <2>3. ev' \in EvState
    BY <1>3, <2>2, EvOutTyped DEF EventEdit
  <2> QED
    BY <1>3, <2>1, <2>3 DEF EventEdit, DaemonTyped
<1>4. ASSUME NEW s \in Senders, NEW emoji \in Emojis \cup {""},
             EventReaction(m, s, emoji)
      PROVE  DaemonTyped'
  <2>1. PutReaction(reactions, m, s, emoji) \in ReactionsTable
    BY DEF PutReaction, DaemonTyped, ReactionsTable
  <2>2. reactions' \in ReactionsTable
    BY <1>4, <2>1 DEF EventReaction, Attempt, DaemonTyped
  <2>3. ReactionFrame(m, s, emoji) \in Frames
    BY FramesTyped
  <2>4. ev' \in EvState
    BY <1>4, <2>3, EvOutTyped DEF EventReaction
  <2> QED
    BY <1>4, <2>2, <2>4 DEF EventReaction, DaemonTyped
<1>5. ASSUME NEW status \in Statuses, EventReceipt(m, status)
      PROVE  DaemonTyped'
  <2>1. messages' \in MessagesTable
    BY <1>0, <1>5, UpdatesTyped, AttemptTyped DEF EventReceipt
  <2>2. StatusFrame(m, status) \in Frames /\ ReceiptFrame(m) \in Frames
    BY FramesTyped
  <2>3. ev' \in EvState
    BY <1>5, <2>2, EvOutTyped DEF EventReceipt
  <2> QED
    BY <1>5, <2>1, <2>3 DEF EventReceipt, DaemonTyped
<1> QED
  BY <1>1, <1>2, <1>3, <1>4, <1>5

\* A download that starts has a message to fetch.
LEMMA StartDownloadTyped ==
    ASSUME DaemonTyped, NEW m \in Msgs, StartDownload(m)
    PROVE  dl' \in [Slots -> DlState]
BY DEF DaemonTyped, StartDownload, DlState

\* What remains of an event once its first frame is pushed.
LEMMA EventStepTyped == DaemonTyped /\ EventStep => DaemonTyped'
<1> SUFFICES ASSUME DaemonTyped, EventStep PROVE DaemonTyped'
  OBVIOUS
<1>0. ev \in EvState /\ EvIdle \in EvState /\ chats \in ChatsTable
  BY IdleTyped DEF DaemonTyped
<1>1. CASE EventAnnounced
  <2>1. ev.m \in Msgs
    BY <1>0, <1>1 DEF EventAnnounced, EvState
  <2>2. dl' \in [Slots -> DlState]
    BY <1>1, <2>1, StartDownloadTyped DEF EventAnnounced, DaemonTyped
  <2>3. [ev EXCEPT !.pc = "increment"] \in EvState
    BY <1>0, <2>1 DEF EvState
  <2>4. ev' \in EvState
    BY <1>0, <1>1, <2>3 DEF EventAnnounced
  <2> QED
    BY <1>1, <2>2, <2>4 DEF EventAnnounced, DaemonTyped, store
<1>2. CASE EventIncrement
  <2>1. ev.m \in Msgs
    BY <1>0, <1>2 DEF EventIncrement, EvState
  <2>2. ChatOf[ev.m] \in Chats
    BY <2>1, StoreAssumption
  <2>3. chats' \in ChatsTable
    BY <1>0, <1>2, <2>2, ChatUpdatesTyped DEF EventIncrement
  <2>4. [ev EXCEPT !.pc = "select"] \in EvState
    BY <1>0, <2>1 DEF EvState
  <2>5. ev' \in EvState
    BY <1>0, <1>2, <2>4 DEF EventIncrement
  <2> QED
    BY <1>2, <2>3, <2>5 DEF EventIncrement, DaemonTyped
<1>3. CASE EventSelect
  <2> DEFINE j == ChatOf[ev.m]
             f == UnreadFrame(j, chats[j].unread)
  <2>1. j \in Chats
    BY <1>0, <1>3, StoreAssumption DEF EventSelect, EvState
  <2>2. ASSUME chats[j] # NoRow PROVE f \in Frames
    <3>1. chats[j].unread \in Nat
      BY <1>0, <2>1, <2>2 DEF ChatsTable, ChatRow
    <3> QED
      BY <2>1, <3>1, OtherFramesTyped
  <2>3. \/ chats[j] # NoRow /\ ev' = [EvIdle EXCEPT !.out = <<f>>]
        \/ ev' = EvIdle
    BY <1>3 DEF EventSelect
  <2> HIDE DEF j, f
  <2>4. ev' \in EvState
    BY <1>0, <2>2, <2>3, EvOutTyped
  <2> QED
    BY <1>3, <2>4 DEF EventSelect, DaemonTyped, store
<1>4. CASE EventEmit
  <2>1. ev.out \in Seq(Frames) /\ ev.out # <<>>
    BY <1>0, <1>4 DEF EventEmit, EvState
  <2>2. Head(ev.out) \in Frames /\ Tail(ev.out) \in Seq(Frames)
    BY <2>1, HeadTailTyped
  <2>3. ev' \in EvState
    BY <1>0, <1>4, <2>2 DEF EventEmit, EvState
  <2> QED
    BY <1>4, <2>3 DEF EventEmit, DaemonTyped, store
<1> QED
  BY <1>1, <1>2, <1>3, <1>4 DEF EventStep

\* A history payload, conversation by conversation.
LEMMA HistoryTyped == DaemonTyped /\ (HistoryArrives \/ HistoryStep) => DaemonTyped'
<1> SUFFICES ASSUME DaemonTyped, HistoryArrives \/ HistoryStep PROVE DaemonTyped'
  OBVIOUS
<1>0. /\ hist \in HistState /\ HistIdle \in HistState
      /\ messages \in MessagesTable /\ chats \in ChatsTable
  BY IdleTyped DEF DaemonTyped
<1>1. ASSUME NEW j \in Chats, NEW batch \in SUBSET Msgs, NEW named \in BOOLEAN,
             HistoryConversation(j, batch, named)
      PROVE  DaemonTyped'
  <2>1. chats' \in ChatsTable
    BY <1>0, <1>1, ChatUpdatesTyped, AttemptTyped DEF HistoryConversation
  <2>2. \A m \in batch : ChatOf[m] = j
    BY <1>1 DEF HistoryConversation
  <2>3. hist' = [pc |-> "put", chat |-> j, batch |-> batch, out |-> <<>>]
    BY <1>1 DEF HistoryConversation
  <2>4. hist' \in HistState
    BY <2>2, <2>3, NothingToPush DEF HistState
  <2> QED
    BY <1>1, <2>1, <2>4 DEF HistoryConversation, DaemonTyped
<1>2. CASE HistoryPut
  <2>1. messages' \in MessagesTable
    BY <1>0, <1>2, InsertBatchTyped DEF HistoryPut
  <2>2. hist.chat \in Chats /\ hist.batch \subseteq Msgs
    BY <1>0, <1>2 DEF HistoryPut, HistState
  <2>3. \A last \in NewestOf(hist.batch) :
           UpdateChat(chats, hist.chat, Ts[last], Body[last]) \in ChatsTable
    <3> TAKE last \in NewestOf(hist.batch)
    <3>1. Ts[last] \in Nat /\ Body[last] \in Texts
      BY <2>2, StoreAssumption DEF NewestOf
    <3> QED
      BY <1>0, <2>2, <3>1, ChatUpdatesTyped
  <2>4. chats' \in ChatsTable
    BY <1>0, <1>2, <2>3 DEF HistoryPut
  <2>5. hist' \in HistState
    BY <1>0, <1>2 DEF HistoryPut, HistIdle, HistState
  <2> QED
    BY <1>2, <2>1, <2>4, <2>5 DEF HistoryPut, DaemonTyped
<1>3. CASE HistoryDone
  <2>1. <<HistoryFrame>> \in Seq(Frames)
    BY OtherFramesTyped, QueueTyped
  <2>2. hist' \in HistState
    BY <1>0, <1>3, <2>1 DEF HistoryDone, HistIdle, HistState
  <2> QED
    BY <1>3, <2>2 DEF HistoryDone, DaemonTyped, store
<1>4. CASE HistoryEmit
  <2>1. hist.out \in Seq(Frames) /\ hist.out # <<>>
    BY <1>0, <1>4 DEF HistoryEmit, HistState
  <2>2. Head(hist.out) \in Frames /\ Tail(hist.out) \in Seq(Frames)
    BY <2>1, HeadTailTyped
  <2>3. hist' \in HistState
    BY <1>0, <1>4, <2>2 DEF HistoryEmit, HistState
  <2> QED
    BY <1>4, <2>3 DEF HistoryEmit, DaemonTyped, store
<1> QED
  BY <1>1, <1>2, <1>3, <1>4 DEF HistoryArrives, HistoryStep

\* The commands about a chat: opening it, marking it as read, its flags.
LEMMA ChatCommandsTyped ==
    ASSUME DaemonTyped, NEW c \in Clients
    PROVE  /\ \A j \in Chats \cup {NoChat} : SetActiveChat(c, j) => DaemonTyped'
           /\ \A j \in Chats, ok \in BOOLEAN : MarkRead(c, j, ok) => DaemonTyped'
           /\ \A j \in Chats, b \in BOOLEAN :
                 \/ SetChatFlag(c, SetPinned(chats, j, b))
                 \/ SetChatFlag(c, SetMuted(chats, j, b))
                 => DaemonTyped'
<1>0. /\ chats \in ChatsTable /\ \A ok \in BOOLEAN : Reply(ok) \in CmdState
  BY IdleTyped DEF DaemonTyped
<1>1. ASSUME NEW j \in Chats \cup {NoChat}, SetActiveChat(c, j) PROVE DaemonTyped'
  <2>1. j # NoChat => [CmdIdle EXCEPT !.pc = "clear", !.chat = j] \in CmdState
    BY NothingToPush, StoreAssumption DEF CmdIdle, CmdState
  <2>2. cmd' \in [Clients -> CmdState]
    BY <1>0, <1>1, <2>1, BeginTyped DEF SetActiveChat
  <2> QED
    BY <1>1, <2>2 DEF SetActiveChat, DaemonTyped, store
<1>2. ASSUME NEW j \in Chats, NEW ok \in BOOLEAN, MarkRead(c, j, ok) PROVE DaemonTyped'
  <2>1. [CmdIdle EXCEPT !.pc = "clear", !.chat = j, !.ok = ok] \in CmdState
    BY NothingToPush, StoreAssumption DEF CmdIdle, CmdState
  <2>2. cmd' \in [Clients -> CmdState]
    BY <1>2, <2>1, BeginTyped DEF MarkRead
  <2> QED
    BY <1>2, <2>2 DEF MarkRead, DaemonTyped, store
<1>3. ASSUME NEW new \in ChatsTable, SetChatFlag(c, new) PROVE DaemonTyped'
  <2>1. cmd' \in [Clients -> CmdState]
    BY <1>0, <1>3, BeginTyped DEF SetChatFlag
  <2>2. chats' \in ChatsTable
    BY <1>0, <1>3 DEF SetChatFlag
  <2> QED
    BY <1>3, <2>1, <2>2 DEF SetChatFlag, DaemonTyped
<1>4. ASSUME NEW j \in Chats, NEW b \in BOOLEAN,
             \/ SetChatFlag(c, SetPinned(chats, j, b))
             \/ SetChatFlag(c, SetMuted(chats, j, b))
      PROVE DaemonTyped'
  <2>1. SetPinned(chats, j, b) \in ChatsTable /\ SetMuted(chats, j, b) \in ChatsTable
    BY <1>0, ChatUpdatesTyped
  <2> QED
    BY <1>3, <1>4, <2>1
<1> QED
  BY <1>1, <1>2, <1>4

\* The commands about a message that the server is asked to carry or to change.
LEMMA MessageCommandsTyped ==
    ASSUME DaemonTyped, NEW c \in Clients, NEW m \in Msgs
    PROVE  /\ Send(c, m) => DaemonTyped'
           /\ DeleteMessage(c, m) => DaemonTyped'
           /\ \A text \in Texts : EditMessage(c, m, text) => DaemonTyped'
           /\ \A emoji \in Emojis \cup {""} : SendReaction(c, m, emoji) => DaemonTyped'
<1>0. \A ok \in BOOLEAN : Reply(ok) \in CmdState
  BY IdleTyped
<1>1. ASSUME Send(c, m) PROVE DaemonTyped'
  <2>1. [CmdIdle EXCEPT !.pc = "put", !.m = m] \in CmdState
    BY NothingToPush, StoreAssumption DEF CmdIdle, CmdState
  <2>2. cmd' \in [Clients -> CmdState]
    BY <1>0, <1>1, <2>1, BeginTyped DEF Send
  <2> QED
    BY <1>1, <2>2 DEF Send, DaemonTyped, store
<1>2. ASSUME NEW pc \in {"revoke", "edit", "react"},
             NEW val \in Texts \cup Emojis, SendUpdate(c, pc, m, val),
             pc = "edit" => val \in Texts,
             pc = "react" => val \in Emojis \cup {""}
      PROVE  DaemonTyped'
  <2>1. [CmdIdle EXCEPT !.pc = pc, !.m = m, !.val = val] \in CmdState
    BY <1>2, NothingToPush, StoreAssumption DEF CmdIdle, CmdState
  <2>2. cmd' \in [Clients -> CmdState]
    BY <1>0, <1>2, <2>1, BeginTyped DEF SendUpdate
  <2> QED
    BY <1>2, <2>2 DEF SendUpdate, DaemonTyped, store
<1>3. ASSUME DeleteMessage(c, m) PROVE DaemonTyped'
  BY <1>2, <1>3, StoreAssumption DEF DeleteMessage
<1>4. ASSUME NEW text \in Texts, EditMessage(c, m, text) PROVE DaemonTyped'
  BY <1>2, <1>4 DEF EditMessage
<1>5. ASSUME NEW emoji \in Emojis \cup {""}, SendReaction(c, m, emoji) PROVE DaemonTyped'
  BY <1>2, <1>5, StoreAssumption DEF SendReaction
<1> QED
  BY <1>1, <1>3, <1>4, <1>5

\* A command, up to its first access to what the goroutines share.
LEMMA CommandArrivesTyped ==
    ASSUME DaemonTyped, NEW c \in Clients, CommandArrives(c)
    PROVE  DaemonTyped'
<1>0. /\ messages \in MessagesTable
      /\ \A ok \in BOOLEAN : Reply(ok) \in CmdState
  BY IdleTyped DEF DaemonTyped
<1>1. ASSUME NEW m \in Msgs, DownloadMedia(c, m) PROVE DaemonTyped'
  <2>1. dl' \in [Slots -> DlState]
    BY <1>1, StartDownloadTyped DEF DownloadMedia, DaemonTyped
  <2>2. cmd' \in [Clients -> CmdState]
    BY <1>0, <1>1, BeginTyped DEF DownloadMedia
  <2> QED
    BY <1>1, <2>1, <2>2 DEF DownloadMedia, DaemonTyped, store
<1>2. ASSUME NEW m \in Msgs, NEW b \in BOOLEAN, StarMessage(c, m, b) PROVE DaemonTyped'
  <2>1. messages' \in MessagesTable
    BY <1>0, <1>2, UpdatesTyped DEF StarMessage
  <2>2. cmd' \in [Clients -> CmdState]
    BY <1>0, <1>2, BeginTyped DEF StarMessage
  <2> QED
    BY <1>2, <2>1, <2>2 DEF StarMessage, DaemonTyped
<1> QED
  BY <1>1, <1>2, MessageCommandsTyped, ChatCommandsTyped DEF CommandArrives

\* What remains of a command, its response included.
LEMMA CommandStepTyped ==
    ASSUME DaemonTyped, NEW c \in Clients, CommandStep(c)
    PROVE  DaemonTyped'
<1> DEFINE r == cmd[c]
<1>0. /\ r \in CmdState /\ messages \in MessagesTable /\ chats \in ChatsTable
      /\ CmdIdle \in CmdState /\ \A ok \in BOOLEAN : Reply(ok) \in CmdState
  BY IdleTyped DEF DaemonTyped
<1>1. CASE StoreSent(c)
  <2>1. r.m \in Msgs
    BY <1>0, <1>1 DEF StoreSent, CmdState
  <2>2. SentRow(r.m) \in MessageRow /\ MessageFrame(r.m) \in Frames
    BY <2>1, NewRowsTyped, FramesTyped
  <2>3. /\ InsertMessage(messages, r.m, SentRow(r.m)) \in MessagesTable
        /\ UpdateChat(chats, ChatOf[r.m], Ts[r.m], Body[r.m]) \in ChatsTable
    BY <1>0, <2>1, <2>2, PutTyped
  <2>4. messages' \in MessagesTable /\ chats' \in ChatsTable
    BY <1>0, <1>1, <2>3 DEF StoreSent
  <2>5. [Reply(TRUE) EXCEPT !.out = <<MessageFrame(r.m)>>] \in CmdState
    BY <2>2, ReplyOutTyped
  <2>6. cmd' \in [Clients -> CmdState]
    BY <1>1, <2>5, BeginTyped DEF StoreSent
  <2> QED
    BY <1>1, <2>4, <2>6 DEF StoreSent, DaemonTyped
<1>2. CASE ClearUnread(c)
  <2>1. r.chat \in Chats /\ r.ok \in BOOLEAN
    BY <1>0, <1>2 DEF ClearUnread, CmdState
  <2>2. ResetUnread(chats, r.chat) \in ChatsTable /\ UnreadFrame(r.chat, 0) \in Frames
    BY <1>0, <2>1, ChatUpdatesTyped, OtherFramesTyped
  <2>3. chats' \in ChatsTable
    BY <1>0, <1>2, <2>2 DEF ClearUnread
  <2>4. /\ [Reply(r.ok) EXCEPT !.out = <<UnreadFrame(r.chat, 0)>>] \in CmdState
        /\ Reply(r.ok) \in CmdState
    BY <1>0, <2>1, <2>2, ReplyOutTyped
  <2>5. cmd' \in [Clients -> CmdState]
    BY <1>2, <2>4, BeginTyped DEF ClearUnread
  <2> QED
    BY <1>2, <2>3, <2>5 DEF ClearUnread, DaemonTyped
<1>3. CASE StoreDeleted(c)
  <2>1. r.m \in Msgs
    BY <1>0, <1>3 DEF StoreDeleted, CmdState
  <2>2. messages' \in MessagesTable
    BY <1>0, <1>3, <2>1, UpdatesTyped, AttemptTyped DEF StoreDeleted
  <2>3. [Reply(TRUE) EXCEPT !.out = <<RevokedFrame(r.m)>>] \in CmdState
    BY <2>1, FramesTyped, ReplyOutTyped
  <2>4. cmd' \in [Clients -> CmdState]
    BY <1>3, <2>3, BeginTyped DEF StoreDeleted
  <2> QED
    BY <1>3, <2>2, <2>4 DEF StoreDeleted, DaemonTyped
<1>4. CASE StoreEdited(c)
  <2>1. r.m \in Msgs /\ r.val \in Texts
    BY <1>0, <1>4 DEF StoreEdited, CmdState
  <2>2. messages' \in MessagesTable
    BY <1>0, <1>4, <2>1, UpdatesTyped, AttemptTyped DEF StoreEdited
  <2>3. EditedFrame(r.m, r.val) \in Frames
    BY <2>1, FramesTyped
  <2>4. [Reply(TRUE) EXCEPT !.out = <<EditedFrame(r.m, r.val)>>] \in CmdState
    BY <2>3, ReplyOutTyped
  <2>5. cmd' \in [Clients -> CmdState]
    BY <1>4, <2>4, BeginTyped DEF StoreEdited
  <2> QED
    BY <1>4, <2>2, <2>5 DEF StoreEdited, DaemonTyped
<1>5. CASE StoreReaction(c)
  <2>1. r.m \in Msgs /\ r.val \in Emojis \cup {""} /\ Me \in Senders
    BY <1>0, <1>5, EngineAssumption DEF StoreReaction, CmdState
  <2>2. PutReaction(reactions, r.m, Me, r.val) \in ReactionsTable
    BY <2>1 DEF PutReaction, DaemonTyped, ReactionsTable
  <2>3. reactions' \in ReactionsTable
    BY <1>5, <2>2 DEF StoreReaction, Attempt, DaemonTyped
  <2>4. ReactionFrame(r.m, Me, r.val) \in Frames
    BY <2>1, FramesTyped
  <2>5. [Reply(TRUE) EXCEPT !.out = <<ReactionFrame(r.m, Me, r.val)>>] \in CmdState
    BY <2>4, ReplyOutTyped
  <2>6. cmd' \in [Clients -> CmdState]
    BY <1>5, <2>5, BeginTyped DEF StoreReaction
  <2> QED
    BY <1>5, <2>3, <2>6 DEF StoreReaction, DaemonTyped
<1>6. CASE CommandEmit(c)
  <2>1. r.out \in Seq(Frames) /\ r.out # <<>>
    BY <1>0, <1>6 DEF CommandEmit, CmdState
  <2>2. Head(r.out) \in Frames /\ Tail(r.out) \in Seq(Frames)
    BY <2>1, HeadTailTyped
  <2>3. [r EXCEPT !.out = Tail(r.out)] \in CmdState
    BY <1>0, <2>2 DEF CmdState
  <2>4. cmd' = [cmd EXCEPT ![c] = [r EXCEPT !.out = Tail(r.out)]]
    BY <1>6 DEF CommandEmit
  <2>5. cmd' \in [Clients -> CmdState]
    BY <2>3, <2>4 DEF DaemonTyped
  <2> QED
    BY <1>6, <2>5 DEF CommandEmit, DaemonTyped, store
<1>7. CASE CommandReply(c)
  <2>1. cmd' \in [Clients -> CmdState]
    BY <1>0, <1>7, BeginTyped DEF CommandReply
  <2> QED
    BY <1>7, <2>1 DEF CommandReply, DaemonTyped, store
<1> QED
  BY <1>1, <1>2, <1>3, <1>4, <1>5, <1>6, <1>7 DEF CommandStep

\* A download, from the network to the clients.
LEMMA DownloadStepTyped ==
    ASSUME DaemonTyped, NEW s \in Slots, DownloadStep(s)
    PROVE  DaemonTyped'
<1>0. /\ dl[s] \in DlState /\ dl \in [Slots -> DlState] /\ DlIdle \in DlState
      /\ messages \in MessagesTable /\ file \in [Msgs -> FileStates]
  BY IdleTyped DEF DaemonTyped
<1>1. dl[s].pc # "idle" => dl[s].m \in Msgs
  BY <1>0 DEF DlState
<1>2. \A pc \in {"write", "record", "publish"} :
         dl[s].m \in Msgs => [dl[s] EXCEPT !.pc = pc] \in DlState
  BY <1>0 DEF DlState
<1>3. CASE DownloadFetch(s)
  <2>1. dl' \in [Slots -> DlState]
    BY <1>0, <1>1, <1>2, <1>3 DEF DownloadFetch
  <2>2. file' \in [Msgs -> FileStates]
    BY <1>0, <1>3 DEF DownloadFetch, FileStates
  <2> QED
    BY <1>3, <2>1, <2>2 DEF DownloadFetch, DaemonTyped, store
<1>4. CASE DownloadWrite(s)
  <2>1. dl' \in [Slots -> DlState]
    BY <1>0, <1>1, <1>2, <1>4 DEF DownloadWrite
  <2>2. file' \in [Msgs -> FileStates]
    BY <1>0, <1>4 DEF DownloadWrite, FileStates
  <2> QED
    BY <1>4, <2>1, <2>2 DEF DownloadWrite, DaemonTyped, store
<1>5. CASE DownloadRecord(s)
  <2>1. dl[s].m \in Msgs /\ "cache" \in Paths
    BY <1>1, <1>5 DEF DownloadRecord, Paths
  <2>2. messages' \in MessagesTable
    BY <1>0, <1>5, <2>1, UpdatesTyped, AttemptTyped DEF DownloadRecord
  <2>3. dl' \in [Slots -> DlState]
    BY <1>0, <1>2, <1>5, <2>1 DEF DownloadRecord
  <2> QED
    BY <1>5, <2>2, <2>3 DEF DownloadRecord, DaemonTyped
<1>6. CASE DownloadPublish(s)
  <2>1. dl' \in [Slots -> DlState]
    BY <1>0, <1>6 DEF DownloadPublish
  <2> QED
    BY <1>6, <2>1 DEF DownloadPublish, DaemonTyped, store
<1> QED
  BY <1>3, <1>4, <1>5, <1>6 DEF DownloadStep

LEMMA EnvironmentTyped ==
    ASSUME DaemonTyped, (\E c \in Clients : ClientRead(c)) \/ Restart
    PROVE  DaemonTyped'
<1>1. ASSUME NEW c \in Clients, ClientRead(c) PROVE DaemonTyped'
  BY <1>1 DEF ClientRead, DaemonTyped, store
<1>2. CASE Restart
  <2>1. /\ ev' \in EvState /\ hist' \in HistState
        /\ cmd' \in [Clients -> CmdState] /\ dl' \in [Slots -> DlState]
    BY <1>2, IdleTyped DEF Restart
  <2>2. file' \in [Msgs -> FileStates]
    BY <1>2 DEF Restart, DaemonTyped, FileStates
  <2> QED
    BY <1>2, <2>1, <2>2 DEF Restart, DaemonTyped, store
<1> QED
  BY <1>1, <1>2

\* What the engine writes are its frames, to sockets that hold frames of F.
LEMMA BroadcastTyped ==
    ASSUME NEW F, SocketsOf(F), NEW f \in F, Broadcast(f)
    PROVE  SocketsOf(F)'
BY DEF SocketsOf, Broadcast

LEMMA SocketsTyped ==
    ASSUME DaemonTyped, NEW F, Frames \subseteq F, SocketsOf(F), [Next]_vars
    PROVE  SocketsOf(F)'
<1>1. CASE UNCHANGED sock
  BY <1>1 DEF SocketsOf
<1>2. ASSUME NEW q \in Seq(Frames), q # <<>> PROVE Head(q) \in F
  BY <1>2
<1>3. CASE EventEmit
  <2>1. Head(ev.out) \in F
    BY <1>2, <1>3 DEF EventEmit, DaemonTyped, EvState
  <2> QED
    BY <1>3, <2>1, BroadcastTyped DEF EventEmit
<1>4. CASE HistoryEmit
  <2>1. Head(hist.out) \in F
    BY <1>2, <1>4 DEF HistoryEmit, DaemonTyped, HistState
  <2> QED
    BY <1>4, <2>1, BroadcastTyped DEF HistoryEmit
<1>5. ASSUME NEW c \in Clients, CommandStep(c) PROVE SocketsOf(F)'
  <2>0. cmd[c] \in CmdState
    BY DEF DaemonTyped
  <2>1. CASE CommandEmit(c)
    <3>1. Head(cmd[c].out) \in F
      BY <1>2, <2>0, <2>1 DEF CommandEmit, CmdState
    <3> QED
      BY <2>1, <3>1, BroadcastTyped DEF CommandEmit
  <2>2. CASE CommandReply(c)
    <3>1. ResponseFrame(cmd[c].ok) \in F
      BY <2>0, OtherFramesTyped DEF CmdState
    <3> QED
      BY <2>2, <3>1 DEF CommandReply, SocketsOf
  <2> QED
    BY <1>1, <1>5, <2>1, <2>2
       DEF CommandStep, StoreSent, ClearUnread, StoreDeleted, StoreEdited, StoreReaction
<1>6. ASSUME NEW s \in Slots, DownloadStep(s) PROVE SocketsOf(F)'
  <2>1. CASE DownloadPublish(s)
    <3>1. dl[s].m \in Msgs
      BY <2>1 DEF DownloadPublish, DaemonTyped, DlState
    <3>2. MediaFrame(dl[s].m) \in F
      BY <3>1, FramesTyped
    <3> QED
      BY <2>1, <3>2, BroadcastTyped DEF DownloadPublish
  <2> QED
    BY <1>1, <1>6, <2>1
       DEF DownloadStep, DownloadFetch, DownloadWrite, DownloadRecord, store
<1>7. ASSUME NEW c \in Clients, ClientRead(c) PROVE SocketsOf(F)'
  BY <1>7 DEF ClientRead, SocketsOf
<1>8. CASE Restart
  BY <1>8 DEF Restart, SocketsOf
<1>9. EventArrives \/ HistoryArrives \/ (\E c \in Clients : CommandArrives(c)) => UNCHANGED sock
  BY DEF EventArrives, EventMessage, EventRevoke, EventEdit, EventReaction, EventReceipt,
         HistoryArrives, HistoryConversation, CommandArrives, Send, SendUpdate,
         DeleteMessage, EditMessage, SendReaction, DownloadMedia, StarMessage,
         SetActiveChat, MarkRead, SetChatFlag, store
<1>10. CASE EventStep
  BY <1>1, <1>3, <1>10 DEF EventStep, EventAnnounced, EventIncrement, EventSelect, store
<1>11. CASE HistoryStep
  BY <1>1, <1>4, <1>11 DEF HistoryStep, HistoryPut, HistoryDone, store
<1> QED
  BY <1>1, <1>5, <1>6, <1>7, <1>8, <1>9, <1>10, <1>11 DEF Next, vars

LEMMA InitTyped == Init => TypeOK
<1> SUFFICES ASSUME Init PROVE TypeOK
  OBVIOUS
<1>1. /\ messages \in MessagesTable /\ chats \in ChatsTable
      /\ reactions \in ReactionsTable
  BY DEF Init, EmptyMessages, EmptyChats, EmptyReactions, MessagesTable,
         ChatsTable, ReactionsTable
<1>2. /\ ev \in EvState /\ hist \in HistState
      /\ cmd \in [Clients -> CmdState] /\ dl \in [Slots -> DlState]
  BY IdleTyped DEF Init
<1>3. file \in [Msgs -> FileStates] /\ onServer \in SUBSET Msgs
  BY EngineAssumption DEF Init, FileStates
<1>4. sock \in [Clients -> Seq(Frames)]
  BY NothingToPush DEF Init
<1> QED
  BY <1>1, <1>2, <1>3, <1>4 DEF Init, TypeOK

LEMMA DaemonKept == DaemonTyped /\ [Next]_vars => DaemonTyped'
<1>1. ASSUME DaemonTyped, Next PROVE DaemonTyped'
  BY <1>1, EventArrivesTyped, EventStepTyped, HistoryTyped, CommandArrivesTyped,
     CommandStepTyped, DownloadStepTyped, EnvironmentTyped DEF Next
<1>2. ASSUME DaemonTyped, UNCHANGED vars PROVE DaemonTyped'
  BY <1>2 DEF DaemonTyped, vars
<1> QED
  BY <1>1, <1>2

LEMMA NextTyped == TypeOK /\ [Next]_vars => TypeOK'
BY TypeParts, DaemonKept, SocketsTyped

\* The tables, the goroutines' control states, the files and the clients' queues
\* keep their types, in every interleaving and across restarts.
THEOREM TypeCorrect == Spec => []TypeOK
BY InitTyped, NextTyped, PTL DEF Spec

-----------------------------------------------------------------------------
(* What a step can do to the tables.                                       *)

\* The single-row updates of the messages table that set no path.
ContentUpdates(t, m) ==
    {MarkRevoked(t, m)}
    \cup {UpdateText(t, m, text) : text \in Texts}
    \cup {UpdateStatus(t, m, status) : status \in {"delivered", "read"}}
    \cup {SetStarred(t, m, b) : b \in BOOLEAN}

RowUpdates(t, m) == ContentUpdates(t, m) \cup {UpdateMediaPath(t, m, "cache")}

\* A download has written m's file and is about to record its path.
Recording(m) == \E s \in Slots : dl[s].pc = "record" /\ dl[s].m = m

\* The updates of the chats table that leave last_ts alone.
ChatUpdates(t, j) ==
    {IncrementUnread(t, j), ResetUnread(t, j), SetChatName(t, j)}
    \cup {SetPinned(t, j, b) : b \in BOOLEAN} \cup {SetMuted(t, j, b) : b \in BOOLEAN}

TableStep ==
    \/ UNCHANGED <<messages, chats>>
    \/ \E m \in Msgs :
          /\ messages' \in RowUpdates(messages, m)
          /\ messages' \in ContentUpdates(messages, m) \/ Recording(m)
          /\ UNCHANGED chats
    \/ \E j \in Chats : chats' \in ChatUpdates(chats, j) /\ UNCHANGED messages
    \/ \E m \in Msgs : \E row \in {ReceivedRow(m), SentRow(m)} :
          /\ messages' = InsertMessage(messages, m, row)
          /\ chats' = UpdateChat(chats, ChatOf[m], Ts[m], Body[m])
    \/ \E j \in Chats, batch \in SUBSET Msgs :
          /\ \A m \in batch : ChatOf[m] = j
          /\ messages' = InsertBatch(messages, batch)
          /\ \E last \in NewestOf(batch) :
                chats' = UpdateChat(chats, j, Ts[last], Body[last])

\* Whatever a goroutine does, it changes the tables by one of these statements
\* or transactions.
LEMMA NextIsTableStep == DaemonTyped /\ [Next]_vars => TableStep
<1> SUFFICES ASSUME DaemonTyped, [Next]_vars PROVE TableStep
  OBVIOUS
<1>1. CASE EventArrives
  <2> SUFFICES ASSUME NEW m \in Msgs,
                      \/ EventMessage(m)
                      \/ EventRevoke(m)
                      \/ \E text \in Texts \ {""} : EventEdit(m, text)
                      \/ \E s \in Senders, emoji \in Emojis \cup {""} :
                            EventReaction(m, s, emoji)
                      \/ \E status \in Statuses : EventReceipt(m, status)
               PROVE  TableStep
    BY <1>1 DEF EventArrives
  <2>1. CASE EventMessage(m)
    BY <2>1 DEF EventMessage, TableStep
  <2>2. CASE EventRevoke(m)
    BY <2>2 DEF EventRevoke, Attempt, TableStep, RowUpdates, ContentUpdates
  <2>3. ASSUME NEW text \in Texts \ {""}, EventEdit(m, text) PROVE TableStep
    BY <2>3 DEF EventEdit, Attempt, TableStep, RowUpdates, ContentUpdates
  <2>4. ASSUME NEW s \in Senders, NEW emoji \in Emojis \cup {""},
               EventReaction(m, s, emoji)
        PROVE  TableStep
    BY <2>4 DEF EventReaction, TableStep
  <2>5. ASSUME NEW status \in Statuses, EventReceipt(m, status) PROVE TableStep
    <3>1. status # "" => status \in {"delivered", "read"}
      BY <2>5 DEF EventReceipt, ReceiptStatuses
    <3> QED
      BY <2>5, <3>1 DEF EventReceipt, Attempt, TableStep, RowUpdates, ContentUpdates
  <2> QED
    BY <2>1, <2>2, <2>3, <2>4, <2>5
<1>2. CASE EventStep
  <2>1. ASSUME EventIncrement PROVE TableStep
    <3>1. ChatOf[ev.m] \in Chats
      BY <2>1, StoreAssumption DEF EventIncrement, DaemonTyped, EvState
    <3> QED
      BY <2>1, <3>1 DEF EventIncrement, TableStep, ChatUpdates
  <2> QED
    BY <1>2, <2>1
       DEF EventStep, EventAnnounced, EventSelect, EventEmit, store, TableStep
<1>3. CASE HistoryArrives
  <2>1. PICK j \in Chats, batch \in SUBSET Msgs, named \in BOOLEAN :
               HistoryConversation(j, batch, named)
    BY <1>3 DEF HistoryArrives
  <2> QED
    BY <2>1 DEF HistoryConversation, Attempt, TableStep, ChatUpdates
<1>4. CASE HistoryStep
  <2>1. ASSUME HistoryPut PROVE TableStep
    <3>1. /\ hist.chat \in Chats /\ hist.batch \in SUBSET Msgs
          /\ \A m \in hist.batch : ChatOf[m] = hist.chat
      BY <2>1 DEF HistoryPut, DaemonTyped, HistState
    <3> QED
      BY <2>1, <3>1 DEF HistoryPut, TableStep
  <2> QED
    BY <1>4, <2>1 DEF HistoryStep, HistoryDone, HistoryEmit, store, TableStep
<1>5. ASSUME NEW c \in Clients, CommandArrives(c) PROVE TableStep
  <2>1. ASSUME NEW m \in Msgs, NEW b \in BOOLEAN, StarMessage(c, m, b)
        PROVE  TableStep
    BY <2>1 DEF StarMessage, TableStep, RowUpdates, ContentUpdates
  <2>2. ASSUME NEW j \in Chats, NEW b \in BOOLEAN,
               \/ SetChatFlag(c, SetPinned(chats, j, b))
               \/ SetChatFlag(c, SetMuted(chats, j, b))
        PROVE  TableStep
    BY <2>2 DEF SetChatFlag, TableStep, ChatUpdates
  <2>3. ASSUME NEW m \in Msgs, Send(c, m) PROVE TableStep
    BY <2>3 DEF Send, store, TableStep
  <2>4. ASSUME NEW m \in Msgs, NEW pc, NEW val, SendUpdate(c, pc, m, val)
        PROVE  TableStep
    BY <2>4 DEF SendUpdate, store, TableStep
  <2>5. ASSUME NEW m \in Msgs, DownloadMedia(c, m) PROVE TableStep
    BY <2>5 DEF DownloadMedia, store, TableStep
  <2>6. ASSUME NEW j, SetActiveChat(c, j) PROVE TableStep
    BY <2>6 DEF SetActiveChat, store, TableStep
  <2>7. ASSUME NEW j, NEW ok, MarkRead(c, j, ok) PROVE TableStep
    BY <2>7 DEF MarkRead, store, TableStep
  <2> QED
    BY <1>5, <2>1, <2>2, <2>3, <2>4, <2>5, <2>6, <2>7
       DEF CommandArrives, DeleteMessage, EditMessage, SendReaction
<1>6. ASSUME NEW c \in Clients, CommandStep(c) PROVE TableStep
  <2>0. cmd[c] \in CmdState
    BY DEF DaemonTyped
  <2>1. CASE StoreSent(c)
    <3>1. cmd[c].m \in Msgs
      BY <2>0, <2>1 DEF StoreSent, CmdState
    <3> QED
      BY <2>1, <3>1 DEF StoreSent, TableStep
  <2>2. CASE ClearUnread(c)
    <3>1. cmd[c].chat \in Chats
      BY <2>0, <2>2 DEF ClearUnread, CmdState
    <3> QED
      BY <2>2, <3>1 DEF ClearUnread, TableStep, ChatUpdates
  <2>3. CASE StoreDeleted(c)
    <3>1. cmd[c].m \in Msgs
      BY <2>0, <2>3 DEF StoreDeleted, CmdState
    <3> QED
      BY <2>3, <3>1 DEF StoreDeleted, Attempt, TableStep, RowUpdates, ContentUpdates
  <2>4. CASE StoreEdited(c)
    <3>1. cmd[c].m \in Msgs /\ cmd[c].val \in Texts
      BY <2>0, <2>4 DEF StoreEdited, CmdState
    <3> QED
      BY <2>4, <3>1 DEF StoreEdited, Attempt, TableStep, RowUpdates, ContentUpdates
  <2> QED
    BY <1>6, <2>1, <2>2, <2>3, <2>4
       DEF CommandStep, StoreReaction, CommandEmit, CommandReply, store, TableStep
<1>7. ASSUME NEW s \in Slots, DownloadStep(s) PROVE TableStep
  <2>1. CASE DownloadRecord(s)
    <3>1. dl[s].m \in Msgs /\ "cache" \in Paths
      BY <2>1 DEF DownloadRecord, DaemonTyped, DlState, Paths
    <3> QED
      BY <2>1, <3>1 DEF DownloadRecord, Attempt, TableStep, RowUpdates, Recording
  <2> QED
    BY <1>7, <2>1
       DEF DownloadStep, DownloadFetch, DownloadWrite, DownloadPublish, store,
           TableStep
<1>8. ASSUME NEW c \in Clients, ClientRead(c) PROVE TableStep
  BY <1>8 DEF ClientRead, store, TableStep
<1>9. CASE Restart
  BY <1>9 DEF Restart, store, TableStep
<1>10. CASE UNCHANGED vars
  BY <1>10 DEF vars, TableStep
<1> QED
  BY <1>1, <1>2, <1>3, <1>4, <1>5, <1>6, <1>7, <1>8, <1>9, <1>10 DEF Next

-----------------------------------------------------------------------------
(* A chat summary covers the stored messages.                              *)

\* From u to w no chat row disappears and no last_ts goes back.
Forward(u, w) ==
    \A j \in Chats : u[j] # NoRow => w[j] # NoRow /\ w[j].last_ts >= u[j].last_ts

\* A chat row with some columns replaced.
LEMMA ChatRowExcept ==
    ASSUME NEW r \in ChatRow, NEW q,
           \/ q = [r EXCEPT !.unread = r.unread + 1]
           \/ q = [r EXCEPT !.unread = 0]
           \/ q = [r EXCEPT !.named = TRUE]
           \/ \E b \in BOOLEAN : q = [r EXCEPT !.pinned = b]
           \/ \E b \in BOOLEAN : q = [r EXCEPT !.muted = b]
    PROVE  q \in ChatRow /\ q.last_ts = r.last_ts
<1>1. CASE q = [r EXCEPT !.unread = r.unread + 1]
  BY <1>1 DEF ChatRow
<1>2. CASE q = [r EXCEPT !.unread = 0]
  BY <1>2 DEF ChatRow
<1>3. CASE q = [r EXCEPT !.named = TRUE]
  BY <1>3 DEF ChatRow
<1>4. ASSUME NEW b \in BOOLEAN, q = [r EXCEPT !.pinned = b]
      PROVE  q \in ChatRow /\ q.last_ts = r.last_ts
  BY <1>4 DEF ChatRow
<1>5. ASSUME NEW b \in BOOLEAN, q = [r EXCEPT !.muted = b]
      PROVE  q \in ChatRow /\ q.last_ts = r.last_ts
  BY <1>5 DEF ChatRow
<1> QED
  BY <1>1, <1>2, <1>3, <1>4, <1>5

\* updateChatSQL moves forward, to the time it is given or beyond.
LEMMA UpdateChatForward ==
    ASSUME NEW u \in ChatsTable, NEW j \in Chats, NEW ts \in Nat, NEW text \in Texts
    PROVE  /\ Forward(u, UpdateChat(u, j, ts, text))
           /\ UpdateChat(u, j, ts, text)[j] # NoRow
           /\ UpdateChat(u, j, ts, text)[j].last_ts >= ts
<1> DEFINE old == ChatRowOf(u, j)
           new == UpdateChat(u, j, ts, text)[j]
<1>1. old \in ChatRow /\ (u[j] # NoRow => old = u[j])
  BY StoreAssumption DEF ChatRowOf, FreshChat, ChatRow, ChatsTable
<1>2. new = IF ts >= old.last_ts
            THEN [old EXCEPT !.last_ts = ts, !.last_preview = text] ELSE old
  BY DEF UpdateChat, ChatsTable
<1>3. new \in ChatRow /\ new.last_ts >= ts /\ new.last_ts >= old.last_ts
  <2> HIDE DEF new, old
  <2>1. old.last_ts \in Nat
    BY <1>1 DEF ChatRow
  <2>2. CASE ts >= old.last_ts
    <3>1. new = [old EXCEPT !.last_ts = ts, !.last_preview = text]
      BY <1>2, <2>2
    <3>2. new \in ChatRow /\ new.last_ts = ts
      BY <1>1, <3>1 DEF ChatRow
    <3> QED
      BY <2>1, <2>2, <3>2
  <2>3. CASE ~(ts >= old.last_ts)
    BY <1>1, <1>2, <2>1, <2>3
  <2> QED
    BY <2>2, <2>3
<1>4. \A k \in Chats \ {j} : UpdateChat(u, j, ts, text)[k] = u[k]
  BY DEF UpdateChat, ChatsTable
<1>5. \A k \in Chats : u[k] # NoRow => u[k].last_ts \in Nat
  BY DEF ChatsTable, ChatRow
<1> HIDE DEF new, old
<1>6. new # NoRow
  BY <1>3, StoreAssumption
<1>7. Forward(u, UpdateChat(u, j, ts, text))
  BY <1>1, <1>3, <1>4, <1>5, <1>6 DEF Forward, new
<1> QED
  BY <1>3, <1>6, <1>7 DEF new

\* The other statements on a chat keep its last_ts.
LEMMA ChatUpdatesForward ==
    ASSUME NEW u \in ChatsTable, NEW j \in Chats, NEW w \in ChatUpdates(u, j)
    PROVE  Forward(u, w)
<1>1. \A k \in Chats : u[k] # NoRow => u[k] \in ChatRow /\ u[k].last_ts \in Nat
  BY DEF ChatsTable, ChatRow
<1>2. w \in ChatsTable
  BY ChatUpdatesTyped DEF ChatUpdates
<1>3. \A k \in Chats \ {j} : w[k] = u[k]
  BY DEF ChatUpdates, ChatsTable, IncrementUnread, ResetUnread, SetChatName,
         SetPinned, SetMuted, UpdateChatRow
<1>4. ASSUME u[j] # NoRow
      PROVE  w[j].last_ts = u[j].last_ts /\ w[j] \in ChatRow
  <2>1. u[j] \in ChatRow
    BY <1>1, <1>4
  <2>2. \/ w[j] = [u[j] EXCEPT !.unread = u[j].unread + 1]
        \/ w[j] = [u[j] EXCEPT !.unread = 0]
        \/ w[j] = [u[j] EXCEPT !.named = TRUE]
        \/ \E b \in BOOLEAN : w[j] = [u[j] EXCEPT !.pinned = b]
        \/ \E b \in BOOLEAN : w[j] = [u[j] EXCEPT !.muted = b]
    BY <1>4 DEF ChatUpdates, ChatsTable, IncrementUnread, ResetUnread, SetChatName,
           ChatRowOf, SetPinned, SetMuted, UpdateChatRow
  <2> QED
    BY <2>1, <2>2, ChatRowExcept
<1>5. w[j] # NoRow \/ u[j] = NoRow
  BY <1>4, StoreAssumption
<1>6. ASSUME NEW k \in Chats, u[k] # NoRow
      PROVE  w[k] # NoRow /\ w[k].last_ts = u[k].last_ts /\ u[k].last_ts \in Nat
  BY <1>1, <1>3, <1>4, <1>5, <1>6
<1> QED
  BY <1>6 DEF Forward

\* No UPDATE makes a row.
LEMMA RowUpdatesMakeNoRow ==
    ASSUME NEW t \in MessagesTable, NEW m \in Msgs, NEW w \in RowUpdates(t, m)
    PROVE  \A k \in Msgs : t[k] = NoRow => w[k] = NoRow
<1>1. \A k \in Msgs \ {m} : w[k] = t[k]
  BY DEF RowUpdates, ContentUpdates, MessagesTable, MarkRevoked, UpdateText, UpdateStatus,
         UpdateMediaPath, SetStarred, UpdateRow
<1>2. t[m] = NoRow => w[m] = NoRow
  BY DEF RowUpdates, ContentUpdates, MarkRevoked, UpdateText, UpdateStatus, UpdateMediaPath,
         SetStarred, UpdateRow
<1> QED
  BY <1>1, <1>2

\* Summaries that cover the messages still do when no message is added and no
\* summary goes back.
LEMMA CoverageKept ==
    ASSUME TypeOK, SummaryCoversMessages, TypeOK', Forward(chats, chats'),
           \A m \in Msgs : messages[m] = NoRow => messages'[m] = NoRow
    PROVE  SummaryCoversMessages'
<1> SUFFICES ASSUME NEW m \in Msgs, messages'[m] # NoRow
             PROVE  /\ chats'[ChatOf[m]] # NoRow
                    /\ chats'[ChatOf[m]].last_ts >= Ts[m]
  BY DEF SummaryCoversMessages
<1> DEFINE j == ChatOf[m]
<1>1. j \in Chats /\ Ts[m] \in Nat
  BY StoreAssumption
<1>2. chats[j] # NoRow /\ chats[j].last_ts >= Ts[m]
  BY DEF SummaryCoversMessages
<1>3. chats'[j] # NoRow /\ chats'[j].last_ts >= chats[j].last_ts
  BY <1>1, <1>2 DEF Forward
<1>4. chats[j].last_ts \in Nat /\ chats'[j].last_ts \in Nat
  BY <1>1, <1>2, <1>3 DEF TypeOK, ChatsTable, ChatRow
<1> QED
  BY <1>1, <1>2, <1>3, <1>4

\* One step keeps the summaries up to date.
LEMMA CoverageStep ==
    TypeOK /\ SummaryCoversMessages /\ TypeOK' /\ TableStep => SummaryCoversMessages'
<1> SUFFICES ASSUME TypeOK, SummaryCoversMessages, TypeOK', TableStep
             PROVE  SummaryCoversMessages'
  OBVIOUS
<1>0. messages \in MessagesTable /\ chats \in ChatsTable
  BY DEF TypeOK
<1>1. CASE UNCHANGED <<messages, chats>>
  BY <1>1 DEF SummaryCoversMessages
<1>2. ASSUME NEW m \in Msgs, messages' \in RowUpdates(messages, m), UNCHANGED chats
      PROVE  SummaryCoversMessages'
  <2>1. Forward(chats, chats')
    BY <1>0, <1>2 DEF Forward, ChatsTable, ChatRow
  <2> QED
    BY <1>0, <1>2, <2>1, RowUpdatesMakeNoRow, CoverageKept
<1>3. ASSUME NEW j \in Chats, chats' \in ChatUpdates(chats, j), UNCHANGED messages
      PROVE  SummaryCoversMessages'
  BY <1>0, <1>3, ChatUpdatesForward, CoverageKept
<1>4. ASSUME NEW m \in Msgs, NEW row \in MessageRow,
             messages' = InsertMessage(messages, m, row),
             chats' = UpdateChat(chats, ChatOf[m], Ts[m], Body[m])
      PROVE  SummaryCoversMessages'
  <2>1. ChatOf[m] \in Chats /\ Ts[m] \in Nat /\ Body[m] \in Texts
    BY StoreAssumption
  <2>2. /\ Forward(chats, chats') /\ chats'[ChatOf[m]] # NoRow
        /\ chats'[ChatOf[m]].last_ts >= Ts[m]
    BY <1>0, <1>4, <2>1, UpdateChatForward
  <2>3. \A k \in Msgs \ {m} : messages'[k] = messages[k]
    BY <1>0, <1>4 DEF InsertMessage, MessagesTable
  <2>4. ASSUME NEW k \in Msgs, k # m, messages'[k] # NoRow
        PROVE  chats'[ChatOf[k]] # NoRow /\ chats'[ChatOf[k]].last_ts >= Ts[k]
    <3>1. ChatOf[k] \in Chats /\ Ts[k] \in Nat
      BY StoreAssumption
    <3>2. chats[ChatOf[k]] # NoRow /\ chats[ChatOf[k]].last_ts >= Ts[k]
      BY <2>3, <2>4 DEF SummaryCoversMessages
    <3>3. /\ chats'[ChatOf[k]] # NoRow
          /\ chats'[ChatOf[k]].last_ts >= chats[ChatOf[k]].last_ts
      BY <2>2, <3>1, <3>2 DEF Forward
    <3>4. chats[ChatOf[k]].last_ts \in Nat /\ chats'[ChatOf[k]].last_ts \in Nat
      BY <3>1, <3>2, <3>3 DEF TypeOK, ChatsTable, ChatRow
    <3> QED
      BY <3>1, <3>2, <3>3, <3>4
  <2> QED
    BY <2>2, <2>4 DEF SummaryCoversMessages
<1>5. ASSUME NEW j \in Chats, NEW batch \in SUBSET Msgs,
             \A m \in batch : ChatOf[m] = j,
             messages' = InsertBatch(messages, batch),
             NEW last \in NewestOf(batch),
             chats' = UpdateChat(chats, j, Ts[last], Body[last])
      PROVE  SummaryCoversMessages'
  <2>1. last \in Msgs /\ \A k \in batch : Ts[k] <= Ts[last]
    BY <1>5 DEF NewestOf
  <2>2. Ts[last] \in Nat /\ Body[last] \in Texts
    BY <2>1, StoreAssumption
  <2>3. /\ Forward(chats, chats') /\ chats'[j] # NoRow
        /\ chats'[j].last_ts >= Ts[last]
    BY <1>0, <1>5, <2>2, UpdateChatForward
  <2>4. \A k \in Msgs \ batch : messages'[k] = messages[k]
    BY <1>5 DEF InsertBatch
  <2>5. ASSUME NEW k \in Msgs, messages'[k] # NoRow
        PROVE  chats'[ChatOf[k]] # NoRow /\ chats'[ChatOf[k]].last_ts >= Ts[k]
    <3>1. ChatOf[k] \in Chats /\ Ts[k] \in Nat
      BY StoreAssumption
    <3>2. CASE k \in batch
      <4>1. ChatOf[k] = j /\ chats'[j].last_ts \in Nat
        BY <1>5, <2>3, <3>2 DEF TypeOK, ChatsTable, ChatRow
      <4> QED
        BY <2>1, <2>2, <2>3, <3>1, <3>2, <4>1
    <3>3. CASE k \notin batch
      <4>1. chats[ChatOf[k]] # NoRow /\ chats[ChatOf[k]].last_ts >= Ts[k]
        BY <2>4, <2>5, <3>3 DEF SummaryCoversMessages
      <4>2. /\ chats'[ChatOf[k]] # NoRow
            /\ chats'[ChatOf[k]].last_ts >= chats[ChatOf[k]].last_ts
        BY <2>3, <3>1, <4>1 DEF Forward
      <4>3. chats[ChatOf[k]].last_ts \in Nat /\ chats'[ChatOf[k]].last_ts \in Nat
        BY <3>1, <4>1, <4>2 DEF TypeOK, ChatsTable, ChatRow
      <4> QED
        BY <3>1, <4>1, <4>2, <4>3
    <3> QED
      BY <3>2, <3>3
  <2> QED
    BY <2>5 DEF SummaryCoversMessages
<1> QED
  BY <1>1, <1>2, <1>3, <1>4, <1>5, NewRowsTyped DEF TableStep

\* Every stored message is covered by its chat's summary, in every interleaving
\* of live messages, sends, history syncs, failures and restarts.
THEOREM SummaryTheorem == Spec => []SummaryCoversMessages
<1>1. Init => SummaryCoversMessages
  BY DEF Init, EmptyMessages, SummaryCoversMessages
<1>2. TypeOK /\ SummaryCoversMessages /\ TypeOK' /\ [Next]_vars
        => SummaryCoversMessages'
  BY TypeParts, NextIsTableStep, CoverageStep
<1> QED
  BY <1>1, <1>2, TypeCorrect, PTL DEF Spec

-----------------------------------------------------------------------------
(* What is final about a stored message.                                   *)

\* Row r may become row q.
RowKept(r, q) ==
    /\ q # NoRow
    /\ r.status = "read" => q.status = "read"
    /\ r.status = "delivered" => q.status \in {"delivered", "read"}
    /\ r.type = "revoked" => q.type = "revoked"
    /\ r.edited = TRUE => q.edited = TRUE

\* INSERT ... ON CONFLICT touches neither the status nor the type of a row.
LEMMA ConflictKeepsRow ==
    ASSUME NEW r \in MessageRow, NEW row
    PROVE  RowKept(r, OnConflict(r, row))
<1>1. r # NoRow
  BY StoreAssumption
<1>2. OnConflict(r, row) = [r EXCEPT !.raw = r.raw \/ row.raw]
  BY <1>1 DEF OnConflict
<1>3. CASE r.raw \/ row.raw
  <2>1. OnConflict(r, row) = [r EXCEPT !.raw = TRUE]
    BY <1>2, <1>3, Zenon
  <2> QED
    BY <2>1, StoreAssumption DEF RowKept, MessageRow
<1>4. CASE ~(r.raw \/ row.raw)
  <2>1. OnConflict(r, row) = [r EXCEPT !.raw = FALSE]
    BY <1>2, <1>4, Zenon
  <2> QED
    BY <2>1, StoreAssumption DEF RowKept, MessageRow
<1> QED
  BY <1>3, <1>4

\* No UPDATE takes back a read status or a revoked type.
LEMMA RowUpdatesKeepRow ==
    ASSUME NEW t \in MessagesTable, NEW m \in Msgs, NEW w \in RowUpdates(t, m),
           NEW k \in Msgs, t[k] # NoRow
    PROVE  RowKept(t[k], w[k])
<1>1. t[k] \in MessageRow
  BY DEF MessagesTable
<1> DEFINE Kept(q) ==
             /\ q \in MessageRow
             /\ t[k].status = "read" => q.status = "read"
             /\ t[k].status = "delivered" => q.status \in {"delivered", "read"}
             /\ t[k].type = "revoked" => q.type = "revoked"
             /\ t[k].edited = TRUE => q.edited = TRUE
<1>2. CASE w[k] = t[k]
  BY <1>1, <1>2, StoreAssumption DEF RowKept
<1>3. CASE w[k] # t[k]
  <2>1. m = k
    BY <1>3 DEF RowUpdates, ContentUpdates, MessagesTable, MarkRevoked, UpdateText, UpdateStatus,
           UpdateMediaPath, SetStarred, UpdateRow
  <2>2. ASSUME w = MarkRevoked(t, m) PROVE Kept(w[k])
    <3>1. w[k] = [t[k] EXCEPT !.type = "revoked", !.text = "", !.path = ""]
      BY <2>1, <2>2 DEF MarkRevoked, UpdateRow, MessagesTable
    <3> QED
      BY <1>1, <3>1, StoreAssumption DEF Kept, MessageRow, Paths
  <2>3. ASSUME NEW text \in Texts, w = UpdateText(t, m, text) PROVE Kept(w[k])
    <3>1. w[k] = [t[k] EXCEPT !.text = text, !.edited = TRUE]
      BY <2>1, <2>3 DEF UpdateText, UpdateRow, MessagesTable
    <3> QED
      BY <1>1, <3>1 DEF Kept, MessageRow
  <2>4. ASSUME NEW st \in {"delivered", "read"}, w = UpdateStatus(t, m, st) PROVE Kept(w[k])
    <3>1. w[k] = [t[k] EXCEPT !.status = st] /\ t[k].status # "read"
      BY <1>3, <2>1, <2>4 DEF UpdateStatus, MessagesTable
    <3> QED
      BY <1>1, <3>1 DEF Kept, MessageRow, Statuses
  <2>5. ASSUME w = UpdateMediaPath(t, m, "cache") PROVE Kept(w[k])
    <3>1. w[k] = [t[k] EXCEPT !.path = "cache"]
      BY <2>1, <2>5 DEF UpdateMediaPath, UpdateRow, MessagesTable
    <3> QED
      BY <1>1, <3>1 DEF Kept, MessageRow, Paths
  <2>6. ASSUME NEW b \in BOOLEAN, w = SetStarred(t, m, b) PROVE Kept(w[k])
    <3>1. w[k] = [t[k] EXCEPT !.starred = b]
      BY <2>1, <2>6 DEF SetStarred, UpdateRow, MessagesTable
    <3> QED
      BY <1>1, <3>1 DEF Kept, MessageRow
  <2>7. Kept(w[k])
    BY <2>2, <2>3, <2>4, <2>5, <2>6 DEF RowUpdates, ContentUpdates
  <2> QED
    BY <2>7, StoreAssumption DEF Kept, RowKept
<1> QED
  BY <1>2, <1>3

\* A step keeps every stored row, its read status and its revoked type.
LEMMA RowsKept ==
    ASSUME TypeOK, [Next]_vars, NEW k \in Msgs, messages[k] # NoRow
    PROVE  RowKept(messages[k], messages'[k])
<1>0. /\ TableStep /\ messages \in MessagesTable /\ messages[k] \in MessageRow
  BY TypeParts, NextIsTableStep DEF TypeOK, MessagesTable
<1>1. ASSUME messages'[k] = messages[k] PROVE RowKept(messages[k], messages'[k])
  BY <1>1 DEF RowKept
<1>2. ASSUME NEW m \in Msgs, messages' \in RowUpdates(messages, m)
      PROVE  RowKept(messages[k], messages'[k])
  BY <1>0, <1>2, RowUpdatesKeepRow
<1>3. ASSUME NEW m \in Msgs, NEW row, messages' = InsertMessage(messages, m, row)
      PROVE  RowKept(messages[k], messages'[k])
  <2>1. messages'[k] = messages[k] \/ messages'[k] = OnConflict(messages[k], row)
    BY <1>0, <1>3 DEF InsertMessage, MessagesTable
  <2> QED
    BY <1>0, <1>1, <2>1, ConflictKeepsRow
<1>4. ASSUME NEW batch, messages' = InsertBatch(messages, batch)
      PROVE  RowKept(messages[k], messages'[k])
  <2>1. \/ messages'[k] = messages[k]
        \/ messages'[k] = OnConflict(messages[k], ReceivedRow(k))
    BY <1>4 DEF InsertBatch
  <2> QED
    BY <1>0, <1>1, <2>1, ConflictKeepsRow
<1> QED
  BY <1>0, <1>1, <1>2, <1>3, <1>4 DEF TableStep

\* A stored message that was read stays read, whatever arrives later.
THEOREM ReadIsFinalTheorem == Spec => ReadIsFinal
<1>1. TypeOK /\ [Next]_vars =>
        [\A m \in Msgs : messages[m] # NoRow /\ messages[m].status = "read"
            => messages'[m] # NoRow /\ messages'[m].status = "read"]_vars
  BY RowsKept DEF RowKept
<1> QED
  BY <1>1, TypeCorrect, PTL DEF Spec, ReadIsFinal

\* A message deleted for everyone stays deleted, whatever arrives later.
THEOREM RevokedIsFinalTheorem == Spec => RevokedIsFinal
<1>1. TypeOK /\ [Next]_vars =>
        [\A m \in Msgs : messages[m] # NoRow /\ messages[m].type = "revoked"
            => messages'[m] # NoRow /\ messages'[m].type = "revoked"]_vars
  BY RowsKept DEF RowKept
<1> QED
  BY <1>1, TypeCorrect, PTL DEF Spec, RevokedIsFinal

-----------------------------------------------------------------------------
(* A recorded media file exists.                                           *)

\* A download has a file from the moment it has truncated it.
FilesOfDownloads ==
    \A s \in Slots : dl[s].pc \in {"write", "record", "publish"}
                       => file[dl[s].m] # "none"

MediaInv == FilesOfDownloads /\ RecordedMediaExists

\* m's row points at the daemon's media directory.
Cached(t, m) == t[m] # NoRow /\ t[m].path = "cache"

\* No statement but the one of a download makes a row point there.
LEMMA ContentUpdatesCacheNothing ==
    ASSUME NEW t \in MessagesTable, NEW m \in Msgs, NEW w \in ContentUpdates(t, m),
           NEW k \in Msgs, Cached(w, k)
    PROVE  Cached(t, k)
<1>1. CASE w[k] = t[k]
  BY <1>1 DEF Cached
<1>2. CASE w[k] # t[k]
  <2>1. m = k /\ t[k] # NoRow
    BY <1>2 DEF ContentUpdates, MessagesTable, MarkRevoked, UpdateText,
           UpdateStatus, SetStarred, UpdateRow
  <2>2. t[k] \in MessageRow
    BY <2>1 DEF MessagesTable
  <2>3. CASE w = MarkRevoked(t, m)
    <3>1. w[k] = [t[k] EXCEPT !.type = "revoked", !.text = "", !.path = ""]
      BY <2>1, <2>3 DEF MarkRevoked, UpdateRow, MessagesTable
    <3> QED
      BY <2>2, <3>1 DEF Cached, MessageRow
  <2>4. ASSUME NEW text \in Texts, w = UpdateText(t, m, text) PROVE Cached(t, k)
    <3>1. w[k] = [t[k] EXCEPT !.text = text, !.edited = TRUE]
      BY <2>1, <2>4 DEF UpdateText, UpdateRow, MessagesTable
    <3> QED
      BY <2>1, <2>2, <3>1 DEF Cached, MessageRow
  <2>5. ASSUME NEW st \in {"delivered", "read"}, w = UpdateStatus(t, m, st) PROVE Cached(t, k)
    <3>1. w[k] = [t[k] EXCEPT !.status = st]
      BY <1>2, <2>1, <2>5 DEF UpdateStatus, MessagesTable
    <3> QED
      BY <2>1, <2>2, <3>1 DEF Cached, MessageRow
  <2>6. ASSUME NEW b \in BOOLEAN, w = SetStarred(t, m, b) PROVE Cached(t, k)
    <3>1. w[k] = [t[k] EXCEPT !.starred = b]
      BY <2>1, <2>6 DEF SetStarred, UpdateRow, MessagesTable
    <3> QED
      BY <2>1, <2>2, <3>1 DEF Cached, MessageRow
  <2> QED
    BY <2>3, <2>4, <2>5, <2>6 DEF ContentUpdates
<1> QED
  BY <1>1, <1>2

\* Nor does an insert.
LEMMA InsertCachesNothing ==
    ASSUME NEW t \in MessagesTable, NEW m \in Msgs,
           NEW row \in {ReceivedRow(m), SentRow(m)}, OnConflict(t[m], row) # NoRow,
           OnConflict(t[m], row).path = "cache"
    PROVE  Cached(t, m)
<1>1. row.path # "cache"
  <2>1. ReceivedRow(m).path = ""
    BY DEF ReceivedRow
  <2>2. SentRow(m).path \in {"", "local"}
    BY DEF SentRow
  <2> QED
    BY <2>1, <2>2
<1>2. t[m] # NoRow
  BY <1>1 DEF OnConflict
<1>3. t[m] \in MessageRow
  BY <1>2 DEF MessagesTable
<1> QED
  BY <1>2, <1>3 DEF OnConflict, MessageRow, Cached

\* A row that a step makes point at the media directory is one whose download
\* records it.
LEMMA CachedByDownload ==
    ASSUME TypeOK, [Next]_vars, NEW k \in Msgs, Cached(messages', k)
    PROVE  Cached(messages, k) \/ Recording(k)
<1>0. TableStep /\ messages \in MessagesTable
  BY TypeParts, NextIsTableStep DEF TypeOK
<1>1. CASE UNCHANGED messages
  BY <1>1 DEF Cached
<1>2. ASSUME NEW m \in Msgs, messages' \in RowUpdates(messages, m),
             messages' \in ContentUpdates(messages, m) \/ Recording(m)
      PROVE  Cached(messages, k) \/ Recording(k)
  <2>1. CASE messages' \in ContentUpdates(messages, m)
    BY <1>0, <2>1, ContentUpdatesCacheNothing
  <2>2. CASE messages' = UpdateMediaPath(messages, m, "cache") /\ Recording(m)
    <3>1. k # m => messages'[k] = messages[k]
      BY <1>0, <2>2 DEF UpdateMediaPath, UpdateRow, MessagesTable
    <3> QED
      BY <2>2, <3>1 DEF Cached
  <2> QED
    BY <1>2, <2>1, <2>2 DEF RowUpdates
<1>3. ASSUME NEW m \in Msgs, NEW row \in {ReceivedRow(m), SentRow(m)},
             messages' = InsertMessage(messages, m, row)
      PROVE  Cached(messages, k)
  <2>1. k # m => messages'[k] = messages[k]
    BY <1>0, <1>3 DEF InsertMessage, MessagesTable
  <2>2. k = m => messages'[k] = OnConflict(messages[m], row)
    BY <1>0, <1>3 DEF InsertMessage, MessagesTable
  <2> QED
    BY <1>0, <1>3, <2>1, <2>2, InsertCachesNothing DEF Cached
<1>4. ASSUME NEW batch, messages' = InsertBatch(messages, batch)
      PROVE  Cached(messages, k)
  <2>1. messages'[k] \in {messages[k], OnConflict(messages[k], ReceivedRow(k))}
    BY <1>4 DEF InsertBatch
  <2> QED
    BY <1>0, <2>1, InsertCachesNothing DEF Cached
<1> QED
  BY <1>0, <1>1, <1>2, <1>3, <1>4 DEF TableStep

\* What a step that is not a download's does to files and downloads.
LEMMA OtherStepsStartDownloads ==
    ASSUME TypeOK, [Next]_vars
    PROVE  \/ \E s \in Slots : DownloadStep(s)
           \/ Restart
           \/ /\ UNCHANGED file
              /\ \A s \in Slots : dl'[s] = dl[s] \/ dl'[s].pc = "fetch"
<1> DEFINE Starts == /\ UNCHANGED file
                     /\ \A s \in Slots : dl'[s] = dl[s] \/ dl'[s].pc = "fetch"
<1>0. dl \in [Slots -> DlState]
  BY DEF TypeOK
<1>1. ASSUME NEW m, StartDownload(m), UNCHANGED file PROVE Starts
  BY <1>0, <1>1 DEF StartDownload
<1>2. ASSUME UNCHANGED <<dl, file>> PROVE Starts
  BY <1>2
<1>3. CASE EventArrives
  BY <1>2, <1>3 DEF EventArrives, EventMessage, EventRevoke, EventEdit,
                    EventReaction, EventReceipt
<1>4. CASE EventStep
  BY <1>1, <1>2, <1>4 DEF EventStep, EventAnnounced, EventIncrement, EventSelect,
                          EventEmit
<1>5. CASE HistoryArrives \/ HistoryStep
  BY <1>2, <1>5 DEF HistoryArrives, HistoryStep, HistoryConversation, HistoryPut,
                    HistoryDone, HistoryEmit
<1>6. ASSUME NEW c \in Clients, CommandArrives(c) PROVE Starts
  BY <1>1, <1>2, <1>6
     DEF CommandArrives, Send, DeleteMessage, EditMessage, SendReaction, SendUpdate,
         DownloadMedia, StarMessage, SetActiveChat, MarkRead, SetChatFlag
<1>7. ASSUME NEW c \in Clients, CommandStep(c) \/ ClientRead(c) PROVE Starts
  BY <1>2, <1>7
     DEF CommandStep, StoreSent, ClearUnread, StoreDeleted, StoreEdited,
         StoreReaction, CommandEmit, CommandReply, ClientRead
<1>8. CASE UNCHANGED vars
  BY <1>2, <1>8 DEF vars
<1> QED
  BY <1>3, <1>4, <1>5, <1>6, <1>7, <1>8 DEF Next

\* One step keeps a file for every download that has truncated one.
LEMMA MediaStep == TypeOK /\ MediaInv /\ TypeOK' /\ [Next]_vars => MediaInv'
<1> SUFFICES ASSUME TypeOK, MediaInv, TypeOK', [Next]_vars PROVE MediaInv'
  OBVIOUS
<1>0. /\ file \in [Msgs -> FileStates] /\ "none" \notin Slots
      /\ dl \in [Slots -> DlState] /\ FilesOfDownloads
  BY EngineAssumption DEF TypeOK, MediaInv
<1>1. /\ \A m \in Msgs : file[m] # "none" => file'[m] # "none"
      /\ FilesOfDownloads'
  <2>1. ASSUME NEW s \in Slots, DownloadStep(s)
        PROVE  /\ \A m \in Msgs : file[m] # "none" => file'[m] # "none"
               /\ \A r \in Slots \ {s} : dl'[r] = dl[r]
               /\ dl'[s].pc \in {"write", "record", "publish"}
                     => dl'[s].m \in Msgs /\ file'[dl'[s].m] # "none"
    <3>1. dl[s] \in DlState /\ (dl[s].pc # "idle" => dl[s].m \in Msgs)
      BY <1>0 DEF DlState
    <3>2. CASE DownloadFetch(s)
      BY <1>0, <3>1, <3>2 DEF DownloadFetch, DlIdle, DlState
    <3>3. CASE DownloadWrite(s)
      BY <1>0, <3>1, <3>3 DEF DownloadWrite, DlIdle, DlState, FilesOfDownloads
    <3>4. CASE DownloadRecord(s)
      BY <1>0, <3>1, <3>4 DEF DownloadRecord, DlState, FilesOfDownloads
    <3>5. CASE DownloadPublish(s)
      BY <1>0, <3>1, <3>5 DEF DownloadPublish, DlIdle, DlState
    <3> QED
      BY <2>1, <3>2, <3>3, <3>4, <3>5 DEF DownloadStep
  <2>2. ASSUME NEW s \in Slots, DownloadStep(s), NEW r \in Slots \ {s},
               dl'[r].pc \in {"write", "record", "publish"}
        PROVE  file'[dl'[r].m] # "none"
    <3>1. dl'[r] = dl[r] /\ dl[r].m \in Msgs
      BY <1>0, <2>1, <2>2 DEF DlState
    <3> QED
      BY <1>0, <2>1, <2>2, <3>1 DEF FilesOfDownloads
  <2>3. CASE Restart
    BY <1>0, <2>3 DEF Restart, FilesOfDownloads, DlIdle
  <2>4. CASE UNCHANGED file /\ \A s \in Slots : dl'[s] = dl[s] \/ dl'[s].pc = "fetch"
    BY <1>0, <2>4 DEF FilesOfDownloads
  <2> QED
    BY <2>1, <2>2, <2>3, <2>4, OtherStepsStartDownloads DEF FilesOfDownloads
<1>2. ASSUME NEW m \in Msgs, Cached(messages', m) PROVE file'[m] # "none"
  <2>1. CASE Cached(messages, m)
    BY <1>1, <2>1 DEF MediaInv, RecordedMediaExists, Cached
  <2>2. CASE Recording(m)
    BY <1>0, <1>1, <2>2 DEF Recording, FilesOfDownloads
  <2> QED
    BY <1>2, <2>1, <2>2, CachedByDownload
<1> QED
  BY <1>1, <1>2 DEF MediaInv, RecordedMediaExists, Cached

\* A path in the daemon's media directory that the database holds leads to a file,
\* in every interleaving of downloads, revokes, failed writes and restarts.
THEOREM MediaTheorem == Spec => []RecordedMediaExists
<1>1. Init => MediaInv
  BY DEF Init, EmptyMessages, DlIdle, MediaInv, FilesOfDownloads,
         RecordedMediaExists
<1>2. MediaInv => RecordedMediaExists
  BY DEF MediaInv
<1> QED
  BY <1>1, <1>2, MediaStep, TypeCorrect, PTL DEF Spec

-----------------------------------------------------------------------------
(* The counter of the chat on screen.                                      *)

ClearPending(j) == \E c \in Clients : cmd[c].pc = "clear" /\ cmd[c].chat = j

\* The increment that bumpUnread has decided on and not made.
Coming(j) == IF ev.pc = "increment" /\ ChatOf[ev.m] = j THEN 1 ELSE 0

\* The counter and the increment under way together are at most one.
StrayInv ==
    \A j \in Chats : activeChat = j /\ chats[j] # NoRow /\ ~ClearPending(j)
                       => chats[j].unread + Coming(j) <= 1

\* From u to w a chat keeps its counter, or is new and has none.
UnreadKept(u, w) ==
    \A j \in Chats : w[j] # NoRow =>
        w[j].unread = IF u[j] = NoRow THEN 0 ELSE u[j].unread

LEMMA ChatUpdatesKeepUnread ==
    ASSUME NEW u \in ChatsTable, NEW j \in Chats
    PROVE  /\ UnreadKept(u, SetChatName(u, j))
           /\ \A b \in BOOLEAN : /\ UnreadKept(u, SetPinned(u, j, b))
                                 /\ UnreadKept(u, SetMuted(u, j, b))
           /\ \A ts \in Nat, text \in Texts :
                 UnreadKept(u, UpdateChat(u, j, ts, text))
<1>1. u[j] # NoRow => u[j] \in ChatRow
  BY DEF ChatsTable
<1>2. UnreadKept(u, SetChatName(u, j))
  BY <1>1 DEF UnreadKept, SetChatName, ChatRowOf, FreshChat, ChatsTable, ChatRow
<1>3. ASSUME NEW b \in BOOLEAN
      PROVE  UnreadKept(u, SetPinned(u, j, b)) /\ UnreadKept(u, SetMuted(u, j, b))
  BY <1>1 DEF UnreadKept, SetPinned, SetMuted, UpdateChatRow, ChatsTable, ChatRow
<1>4. ASSUME NEW ts \in Nat, NEW text \in Texts
      PROVE  UnreadKept(u, UpdateChat(u, j, ts, text))
  BY <1>1 DEF UnreadKept, UpdateChat, ChatRowOf, FreshChat, ChatsTable, ChatRow
<1> QED
  BY <1>2, <1>3, <1>4

\* A step that opens no chat, ends no clear and decides on no increment.
LEMMA StrayKept ==
    ASSUME TypeOK, StrayInv, UNCHANGED activeChat, UnreadKept(chats, chats'),
           \A j \in Chats : ClearPending(j) => ClearPending(j)',
           ev'.pc = "increment" => ev' = ev
    PROVE  StrayInv'
<1> SUFFICES ASSUME NEW j \in Chats, activeChat = j, chats'[j] # NoRow,
                    ~ClearPending(j)
             PROVE  chats'[j].unread + Coming(j)' <= 1
  BY DEF StrayInv
<1>1. Coming(j)' \in {0, 1} /\ Coming(j) \in {0, 1}
  BY DEF Coming
<1>2. Coming(j)' = 1 => Coming(j) = 1
  BY DEF Coming
<1>3. CASE chats[j] = NoRow
  BY <1>1, <1>3 DEF UnreadKept
<1>4. CASE chats[j] # NoRow
  <2>1. chats[j].unread \in Nat /\ chats[j].unread + Coming(j) <= 1
    BY <1>4 DEF StrayInv, TypeOK, ChatsTable, ChatRow
  <2> QED
    BY <1>1, <1>2, <1>4, <2>1 DEF UnreadKept
<1> QED
  BY <1>3, <1>4

\* The goroutine of a command that is not about to clear a counter goes on.
LEMMA ClearsStay ==
    ASSUME TypeOK, NEW c \in Clients, cmd[c].pc # "clear",
           \A d \in Clients \ {c} : cmd'[d] = cmd[d]
    PROVE  \A j \in Chats : ClearPending(j) => ClearPending(j)'
BY DEF ClearPending

LEMMA StrayEvents ==
    ASSUME TypeOK, StrayInv, EventArrives \/ EventStep, ~StoreMayFail
    PROVE  StrayInv'
<1>0. chats \in ChatsTable /\ ev \in EvState /\ UnreadKept(chats, chats)
  BY DEF TypeOK, UnreadKept
<1>1. (\A j \in Chats : ClearPending(j) => ClearPending(j)') /\ UNCHANGED activeChat
  BY DEF ClearPending, EventArrives, EventMessage, EventRevoke, EventEdit,
         EventReaction, EventReceipt, EventStep, EventAnnounced, EventIncrement,
         EventSelect, EventEmit
<1>2. ASSUME NEW m \in Msgs, EventMessage(m) PROVE StrayInv'
  <2>1. ChatOf[m] \in Chats /\ Ts[m] \in Nat /\ Body[m] \in Texts
    BY StoreAssumption
  <2>2. UnreadKept(chats, chats')
    BY <1>0, <1>2, <2>1, ChatUpdatesKeepUnread DEF EventMessage
  <2>3. ev'.pc # "increment"
    BY <1>2 DEF EventMessage
  <2> QED
    BY <1>1, <2>2, <2>3, StrayKept
<1>3. ASSUME UNCHANGED chats, ev'.pc # "increment" PROVE StrayInv'
  BY <1>0, <1>1, <1>3, StrayKept
<1>4. CASE EventArrives
  BY <1>2, <1>3, <1>4
     DEF EventArrives, EventRevoke, EventEdit, EventReaction, EventReceipt, EvIdle
<1>5. CASE EventAnnounced
  <2>1. CASE ev'.pc # "increment"
    BY <1>3, <1>5, <2>1 DEF EventAnnounced, store
  <2>2. CASE ev' = [ev EXCEPT !.pc = "increment"] /\ ChatOf[ev.m] # activeChat
    <3>1. \A j \in Chats : activeChat = j => Coming(j)' = 0
      BY <1>0, <1>1, <2>2 DEF Coming, EvState
    <3>2. \A j \in Chats : Coming(j) = 0
      BY <1>5 DEF EventAnnounced, Coming
    <3> QED
      BY <1>1, <1>5, <3>1, <3>2 DEF EventAnnounced, store, StrayInv
  <2> QED
    BY <1>5, <2>1, <2>2 DEF EventAnnounced, EvIdle
<1>6. CASE EventIncrement
  <2>1. /\ chats' = IncrementUnread(chats, ChatOf[ev.m])
        /\ ev' = [ev EXCEPT !.pc = "select"] /\ ev.pc = "increment"
    BY <1>6 DEF EventIncrement
  <2> SUFFICES ASSUME NEW j \in Chats, activeChat = j, chats'[j] # NoRow,
                      ~ClearPending(j)
               PROVE  chats'[j].unread + Coming(j)' <= 1
    BY <1>1 DEF StrayInv
  <2>2. chats[j] # NoRow /\ (chats[j] # NoRow => chats[j] \in ChatRow)
    BY <1>0, <2>1 DEF IncrementUnread, UpdateChatRow, ChatsTable
  <2>3. Coming(j)' = 0 /\ chats[j].unread + Coming(j) <= 1
    BY <1>0, <2>1, <2>2 DEF Coming, EvState, StrayInv
  <2>4. chats'[j].unread = chats[j].unread + Coming(j)
    BY <1>0, <2>1, <2>2 DEF IncrementUnread, UpdateChatRow, ChatsTable, ChatRow, Coming
  <2>5. chats[j].unread \in Nat /\ Coming(j) \in {0, 1}
    BY <2>2 DEF ChatRow, Coming
  <2> QED
    BY <2>3, <2>4, <2>5
<1>7. CASE EventSelect
  BY <1>3, <1>7 DEF EventSelect, EvIdle, store
<1>8. CASE EventEmit
  <2>1. ev' = [ev EXCEPT !.out = Tail(ev.out)] /\ UNCHANGED chats
    BY <1>8 DEF EventEmit, store
  <2>2. \A j \in Chats : Coming(j)' = Coming(j)
    BY <1>0, <2>1 DEF Coming, EvState
  <2> QED
    BY <1>1, <2>1, <2>2 DEF StrayInv
<1> QED
  BY <1>4, <1>5, <1>6, <1>7, <1>8 DEF EventStep

LEMMA StrayCommands ==
    ASSUME TypeOK, StrayInv, ~StoreMayFail,
           NEW c \in Clients, CommandArrives(c) \/ CommandStep(c)
    PROVE  StrayInv'
<1>0. /\ chats \in ChatsTable /\ cmd \in [Clients -> CmdState] /\ cmd[c] \in CmdState
      /\ UnreadKept(chats, chats)
  BY DEF TypeOK, UnreadKept
<1>1. UNCHANGED ev /\ \A d \in Clients \ {c} : cmd'[d] = cmd[d]
  BY <1>0 DEF CommandArrives, Send, DeleteMessage, EditMessage, SendReaction,
       SendUpdate, DownloadMedia, StarMessage, SetActiveChat, MarkRead, SetChatFlag,
       CommandStep, StoreSent, ClearUnread, StoreDeleted, StoreEdited, StoreReaction,
       CommandEmit, CommandReply, Begin
<1>2. ASSUME UnreadKept(chats, chats'), UNCHANGED activeChat, cmd[c].pc # "clear"
      PROVE  StrayInv'
  BY <1>1, <1>2, ClearsStay, StrayKept
<1>3. ASSUME NEW j \in Chats \cup {NoChat}, SetActiveChat(c, j) PROVE StrayInv'
  <2>1. CASE j = NoChat
    BY <1>3, <2>1, EngineAssumption DEF SetActiveChat, StrayInv
  <2>2. CASE j # NoChat
    <3>1. cmd'[c].pc = "clear" /\ cmd'[c].chat = j /\ activeChat' = j
      BY <1>0, <1>3, <2>2 DEF SetActiveChat, Begin, CmdIdle
    <3> QED
      BY <3>1 DEF StrayInv, ClearPending
  <2> QED
    BY <2>1, <2>2
<1>4. ASSUME ClearUnread(c) PROVE StrayInv'
  <2> DEFINE k == cmd[c].chat
  <2>1. chats' = ResetUnread(chats, k) /\ UNCHANGED activeChat /\ k \in Chats
    BY <1>0, <1>4 DEF ClearUnread, CmdState
  <2> SUFFICES ASSUME NEW j \in Chats, activeChat = j, chats'[j] # NoRow,
                      ~ClearPending(j)'
               PROVE  chats'[j].unread + Coming(j)' <= 1
    BY <2>1 DEF StrayInv
  <2>2. Coming(j)' = Coming(j) /\ Coming(j) \in {0, 1}
    BY <1>1 DEF Coming
  <2>3. CASE j = k
    <3>1. chats'[j].unread = 0
      BY <1>0, <2>1, <2>3 DEF ResetUnread, UpdateChatRow, ChatsTable, ChatRow
    <3> QED
      BY <2>2, <3>1
  <2>4. CASE j # k
    <3>1. chats'[j] = chats[j]
      BY <1>0, <2>1, <2>4 DEF ResetUnread, UpdateChatRow, ChatsTable
    <3>2. ~ClearPending(j)
      BY <1>1, <2>4 DEF ClearPending
    <3> QED
      BY <2>1, <2>2, <3>1, <3>2 DEF StrayInv
  <2> QED
    BY <2>3, <2>4
<1>5. ASSUME CommandEmit(c) PROVE StrayInv'
  <2>1. cmd'[c].pc = cmd[c].pc /\ cmd'[c].chat = cmd[c].chat
    BY <1>0, <1>5 DEF CommandEmit, CmdState
  <2>2. \A j \in Chats : ClearPending(j) => ClearPending(j)'
    BY <1>1, <2>1 DEF ClearPending
  <2> QED
    BY <1>0, <1>1, <1>5, <2>2, StrayKept DEF CommandEmit, store
<1>6. ASSUME NEW j \in Chats, NEW b \in BOOLEAN,
             \/ SetChatFlag(c, SetPinned(chats, j, b))
             \/ SetChatFlag(c, SetMuted(chats, j, b))
      PROVE  StrayInv'
  BY <1>0, <1>2, <1>6, ChatUpdatesKeepUnread DEF SetChatFlag, CmdFree
<1>7. ASSUME StoreSent(c) PROVE StrayInv'
  <2>1. cmd[c].m \in Msgs
    BY <1>0, <1>7 DEF StoreSent, CmdState
  <2>2. /\ ChatOf[cmd[c].m] \in Chats /\ Ts[cmd[c].m] \in Nat
        /\ Body[cmd[c].m] \in Texts
    BY <2>1, StoreAssumption
  <2>3. UnreadKept(chats, chats')
    BY <1>0, <1>7, <2>2, ChatUpdatesKeepUnread DEF StoreSent
  <2> QED
    BY <1>2, <1>7, <2>3 DEF StoreSent
<1>8. CASE CommandStep(c)
  BY <1>0, <1>2, <1>4, <1>5, <1>7, <1>8
     DEF CommandStep, StoreDeleted, StoreEdited, StoreReaction, CommandReply, store
<1>9. CASE CommandArrives(c)
  <2>1. ASSUME UNCHANGED <<chats, activeChat>>, CmdFree(c) PROVE StrayInv'
    BY <1>0, <1>2, <2>1 DEF CmdFree
  <2>2. ASSUME NEW m \in Msgs,
               \/ Send(c, m) \/ DeleteMessage(c, m) \/ DownloadMedia(c, m)
               \/ \E text \in Texts \ {""} : EditMessage(c, m, text)
               \/ \E emoji \in Emojis \cup {""} : SendReaction(c, m, emoji)
               \/ \E b \in BOOLEAN : StarMessage(c, m, b)
        PROVE  StrayInv'
    BY <2>1, <2>2 DEF Send, DeleteMessage, EditMessage, SendReaction, SendUpdate,
                      DownloadMedia, StarMessage, store
  <2>3. ASSUME NEW j, NEW ok, MarkRead(c, j, ok) PROVE StrayInv'
    BY <2>1, <2>3 DEF MarkRead, store
  <2> QED
    BY <1>3, <1>6, <1>9, <2>2, <2>3 DEF CommandArrives
<1> QED
  BY <1>8, <1>9

LEMMA StrayStep ==
    ASSUME TypeOK, StrayInv, [Next]_vars, ~StoreMayFail
    PROVE  StrayInv'
<1>0. chats \in ChatsTable /\ UnreadKept(chats, chats)
  BY DEF TypeOK, UnreadKept
<1>1. ASSUME UNCHANGED <<activeChat, ev, cmd>>, UnreadKept(chats, chats')
      PROVE  StrayInv'
  BY <1>1, StrayKept DEF ClearPending
<1>2. CASE HistoryArrives
  BY <1>0, <1>1, <1>2, ChatUpdatesKeepUnread
     DEF HistoryArrives, HistoryConversation, Attempt
<1>3. CASE HistoryStep
  <2>1. ASSUME HistoryPut PROVE UnreadKept(chats, chats')
    <3>1. hist.chat \in Chats /\ hist.batch \in SUBSET Msgs
      BY <2>1 DEF HistoryPut, TypeOK, HistState
    <3>2. \A last \in NewestOf(hist.batch) : Ts[last] \in Nat /\ Body[last] \in Texts
      BY <3>1, StoreAssumption DEF NewestOf
    <3> QED
      BY <1>0, <2>1, <3>1, <3>2, ChatUpdatesKeepUnread DEF HistoryPut
  <2> QED
    BY <1>0, <1>1, <1>3, <2>1
       DEF HistoryStep, HistoryPut, HistoryDone, HistoryEmit, store
<1>4. ASSUME NEW s \in Slots, DownloadStep(s) PROVE StrayInv'
  BY <1>0, <1>1, <1>4
     DEF DownloadStep, DownloadFetch, DownloadWrite, DownloadRecord, DownloadPublish,
         store
<1>5. ASSUME NEW c \in Clients, ClientRead(c) PROVE StrayInv'
  BY <1>0, <1>1, <1>5 DEF ClientRead, store
<1>6. CASE Restart
  BY <1>6, EngineAssumption DEF Restart, StrayInv
<1>7. CASE UNCHANGED vars
  BY <1>0, <1>1, <1>7 DEF vars
<1> QED
  BY <1>2, <1>3, <1>4, <1>5, <1>6, <1>7, StrayEvents, StrayCommands DEF Next

\* When statements succeed, at most one increment that was decided before a chat
\* was opened reaches its counter, for any number of clients that open chats and
\* mark them as read.
THEOREM StrayTheorem ==
    ASSUME ~StoreMayFail
    PROVE  Spec => []AtMostOneStrayUnread
<1>1. Init => StrayInv
  BY DEF Init, EmptyChats, StrayInv
<1>2. TypeOK /\ StrayInv /\ [Next]_vars => StrayInv'
  BY StrayStep
<1>3. TypeOK /\ StrayInv => AtMostOneStrayUnread
  BY DEF StrayInv, AtMostOneStrayUnread, ClearPending, Coming, TypeOK, ChatsTable,
         ChatRow
<1> QED
  BY <1>1, <1>2, <1>3, TypeCorrect, PTL DEF Spec

-----------------------------------------------------------------------------
(* What is announced is stored.                                            *)

Whole == Slots \cup {"complete"}

\* Stored, for any tables; the statuses that are announced are two.
Sound(t, files, f) ==
    CASE f.ev = "message"         -> t[f.m] # NoRow
      [] f.ev = "message_revoked" -> RowComesFirst(f.m)
                                       => t[f.m] # NoRow /\ t[f.m].type = "revoked"
      [] f.ev = "message_edited"  -> RowComesFirst(f.m)
                                       => t[f.m] # NoRow /\ t[f.m].edited = TRUE
      [] f.ev = "message_status"  ->
           /\ f.status \in {"delivered", "read"}
           /\ RowComesFirst(f.m) => /\ t[f.m] # NoRow
                                    /\ t[f.m].status \in {f.status, "read"}
      [] f.ev = "message_media"   -> files[f.m] \in Whole
      [] OTHER                    -> TRUE

QueueSound(t, files, q) == \A i \in DOMAIN q : Sound(t, files, q[i])

\* A message that reaches us live has a row from the first we hear of it.
RowsOfServer == \A m \in onServer : RowComesFirst(m) => messages[m] # NoRow

\* A download that has truncated its file finds it whole or being written.
WholeFiles ==
    \A s \in Slots : dl[s].pc \in {"write", "record", "publish"}
                       => file[dl[s].m] \in Whole

\* A command that is about to change a row is about a message of the server's.
CommandsKnow ==
    \A c \in Clients : cmd[c].pc \in {"revoke", "edit"} => cmd[c].m \in onServer

AnnounceInv ==
    /\ RowsOfServer /\ WholeFiles /\ CommandsKnow
    /\ QueueSound(messages, file, ev.out) /\ QueueSound(messages, file, hist.out)
    /\ \A c \in Clients : /\ QueueSound(messages, file, cmd[c].out)
                           /\ QueueSound(messages, file, sock[c])

\* Queues of sound frames stay so when a frame is taken or a sound one is added.
LEMMA QueuesSound ==
    ASSUME NEW t, NEW files, NEW q \in Seq(Frames), QueueSound(t, files, q)
    PROVE  /\ q # <<>> => Sound(t, files, Head(q)) /\ QueueSound(t, files, Tail(q))
           /\ \A f \in Frames : Sound(t, files, f)
                                  => QueueSound(t, files, Append(q, f))
<1>1. ASSUME q # <<>>
      PROVE  Sound(t, files, Head(q)) /\ QueueSound(t, files, Tail(q))
  <2>1. Head(q) = q[1] /\ 1 \in DOMAIN q
    BY <1>1
  <2>2. ASSUME NEW i \in DOMAIN Tail(q) PROVE Sound(t, files, Tail(q)[i])
    <3>1. Tail(q)[i] = q[i + 1] /\ i + 1 \in DOMAIN q
      BY <1>1, <2>2
    <3> QED
      BY <3>1 DEF QueueSound
  <2> QED
    BY <2>1, <2>2 DEF QueueSound
<1>2. ASSUME NEW f \in Frames, Sound(t, files, f)
      PROVE  QueueSound(t, files, Append(q, f))
  <2> SUFFICES ASSUME NEW i \in DOMAIN Append(q, f)
               PROVE  Sound(t, files, Append(q, f)[i])
    BY DEF QueueSound
  <2>1. CASE i = Len(q) + 1
    BY <1>2, <2>1
  <2>2. CASE i # Len(q) + 1
    <3>1. i \in DOMAIN q /\ Append(q, f)[i] = q[i]
      BY <2>2
    <3> QED
      BY <3>1 DEF QueueSound
  <2> QED
    BY <2>1, <2>2
<1> QED
  BY <1>1, <1>2

LEMMA ShortQueuesSound ==
    ASSUME NEW t, NEW files
    PROVE  /\ QueueSound(t, files, <<>>)
           /\ \A f : Sound(t, files, f) => QueueSound(t, files, <<f>>)
           /\ \A f, g : Sound(t, files, f) /\ Sound(t, files, g)
                          => QueueSound(t, files, <<f, g>>)
BY DEF QueueSound

\* A frame that is sound before a step is sound after it.
LEMMA SoundStays ==
    ASSUME TypeOK, [Next]_vars, NEW f \in Frames, Sound(messages, file, f),
           f.ev = "message_media" /\ file[f.m] \in Whole => file'[f.m] \in Whole
    PROVE  Sound(messages', file', f)
<1>1. CASE f.ev \in {"message", "message_revoked", "message_edited", "message_status"}
  <2>1. f.m \in Msgs
    BY <1>1 DEF Frames
  <2>2. messages[f.m] # NoRow => RowKept(messages[f.m], messages'[f.m])
    BY <2>1, RowsKept
  <2> QED
    BY <1>1, <2>2 DEF Sound, RowKept
<1>2. CASE f.ev = "message_media"
  BY <1>2 DEF Sound
<1>3. CASE f.ev \notin {"message", "message_revoked", "message_edited",
                        "message_status", "message_media"}
  BY <1>3 DEF Sound
<1> QED
  BY <1>1, <1>2, <1>3

\* A file that is whole or being written stays so while writes succeed and the
\* daemon runs.
LEMMA WholeStays ==
    ASSUME TypeOK, WholeFiles, [Next]_vars, ~StoreMayFail, ~Restart
    PROVE  /\ \A m \in Msgs : file[m] \in Whole => file'[m] \in Whole
           /\ WholeFiles'
<1>0. /\ file \in [Msgs -> FileStates] /\ dl \in [Slots -> DlState]
      /\ "write" # "idle" /\ DlIdle.pc = "idle"
  BY DEF TypeOK, DlIdle
<1>1. ASSUME NEW s \in Slots, DownloadStep(s)
      PROVE  /\ \A m \in Msgs : file[m] \in Whole => file'[m] \in Whole
             /\ \A r \in Slots \ {s} : dl'[r] = dl[r]
             /\ dl'[s].pc \in {"write", "record", "publish"}
                   => dl'[s].m \in Msgs /\ file'[dl'[s].m] \in Whole
  <2>1. dl[s] \in DlState /\ (dl[s].pc # "idle" => dl[s].m \in Msgs)
    BY <1>0 DEF DlState
  <2>2. CASE DownloadFetch(s)
    BY <1>0, <2>1, <2>2 DEF DownloadFetch, DlIdle, DlState, Whole
  <2>3. CASE DownloadWrite(s)
    BY <1>0, <2>1, <2>3 DEF DownloadWrite, DlIdle, DlState, WholeFiles, Whole
  <2>4. CASE DownloadRecord(s)
    BY <1>0, <2>1, <2>4 DEF DownloadRecord, DlState, WholeFiles
  <2>5. CASE DownloadPublish(s)
    BY <1>0, <2>1, <2>5 DEF DownloadPublish, DlIdle, DlState
  <2> QED
    BY <1>1, <2>2, <2>3, <2>4, <2>5 DEF DownloadStep
<1>2. ASSUME NEW s \in Slots, DownloadStep(s), NEW r \in Slots \ {s},
             dl'[r].pc \in {"write", "record", "publish"}
      PROVE  file'[dl'[r].m] \in Whole
  <2>1. dl'[r] = dl[r] /\ dl[r].m \in Msgs
    BY <1>0, <1>1, <1>2 DEF DlState
  <2> QED
    BY <1>1, <1>2, <2>1 DEF WholeFiles
<1>3. CASE UNCHANGED file /\ \A s \in Slots : dl'[s] = dl[s] \/ dl'[s].pc = "fetch"
  BY <1>3 DEF WholeFiles
<1> QED
  BY <1>1, <1>2, <1>3, OtherStepsStartDownloads DEF WholeFiles

\* Everything but what a step adds to the queues and to onServer.
LEMMA AnnounceKept ==
    ASSUME TypeOK, AnnounceInv, [Next]_vars, ~StoreMayFail, ~Restart
    PROVE  /\ WholeFiles'
           /\ \A q \in Seq(Frames) : QueueSound(messages, file, q)
                                      => QueueSound(messages', file', q)
           /\ \A m \in onServer : RowComesFirst(m) => messages'[m] # NoRow
<1>1. /\ \A m \in Msgs : file[m] \in Whole => file'[m] \in Whole
      /\ WholeFiles'
  BY WholeStays DEF AnnounceInv
<1>2. ASSUME NEW q \in Seq(Frames), QueueSound(messages, file, q)
      PROVE  QueueSound(messages', file', q)
  <2> SUFFICES ASSUME NEW i \in DOMAIN q PROVE Sound(messages', file', q[i])
    BY DEF QueueSound
  <2>1. q[i] \in Frames /\ Sound(messages, file, q[i])
    BY <1>2 DEF QueueSound
  <2>2. q[i].ev = "message_media" => q[i].m \in Msgs
    BY <2>1 DEF Frames
  <2> QED
    BY <1>1, <2>1, <2>2, SoundStays
<1>3. ASSUME NEW m \in onServer, RowComesFirst(m) PROVE messages'[m] # NoRow
  <2>1. m \in Msgs /\ messages[m] # NoRow
    BY <1>3 DEF AnnounceInv, RowsOfServer, TypeOK
  <2> QED
    BY <2>1, RowsKept DEF RowKept
<1> QED
  BY <1>1, <1>2, <1>3

\* What is in the clients' buffers after a broadcast.
LEMMA BroadcastSound ==
    ASSUME NEW t, NEW files, NEW f \in Frames, Sound(t, files, f), Broadcast(f),
           sock \in [Clients -> Seq(Frames)],
           \A c \in Clients : QueueSound(t, files, sock[c])
    PROVE  \A c \in Clients : QueueSound(t, files, sock'[c])
<1> SUFFICES ASSUME NEW c \in Clients PROVE QueueSound(t, files, sock'[c])
  OBVIOUS
<1>1. sock'[c] = Append(sock[c], f) /\ sock[c] \in Seq(Frames)
  BY DEF Broadcast
<1> QED
  BY <1>1, QueuesSound

\* The goroutine of whatsmeow's events.
LEMMA AnnounceEvents ==
    ASSUME TypeOK, TypeOK', AnnounceInv, ~StoreMayFail, ~Restart,
           EventArrives \/ EventStep
    PROVE  AnnounceInv'
<1> USE DEF AnnounceInv
<1>0. /\ messages \in MessagesTable /\ ev \in EvState /\ ev.out \in Seq(Frames)
      /\ hist.out \in Seq(Frames)
      /\ \A c \in Clients : cmd[c].out \in Seq(Frames) /\ sock[c] \in Seq(Frames)
      /\ [Next]_vars
  BY DEF TypeOK, EvState, HistState, CmdState, Next
<1>1. /\ WholeFiles' /\ QueueSound(messages', file', hist.out)
      /\ \A m \in onServer : RowComesFirst(m) => messages'[m] # NoRow
      /\ \A c \in Clients : /\ QueueSound(messages', file', cmd[c].out)
                             /\ QueueSound(messages', file', sock[c])
  BY <1>0, AnnounceKept
<1>2. UNCHANGED <<hist, cmd>>
  BY DEF EventArrives, EventMessage, EventRevoke, EventEdit, EventReaction,
         EventReceipt, EventStep, EventAnnounced, EventIncrement, EventSelect,
         EventEmit
<1>3. ASSUME UNCHANGED <<onServer, sock>>, QueueSound(messages', file', ev'.out)
      PROVE  AnnounceInv'
  BY <1>1, <1>2, <1>3 DEF RowsOfServer, CommandsKnow
<1>4. ASSUME NEW m \in Msgs, EventMessage(m) PROVE AnnounceInv'
  <2>1. messages' = InsertMessage(messages, m, ReceivedRow(m)) /\ UNCHANGED sock
    BY <1>4 DEF EventMessage
  <2>2. messages'[m] # NoRow
    <3>1. ReceivedRow(m) # NoRow
      BY NewRowsTyped, StoreAssumption
    <3>2. messages'[m] = OnConflict(messages[m], ReceivedRow(m))
      BY <1>0, <2>1 DEF InsertMessage, MessagesTable
    <3>3. messages[m] # NoRow => messages'[m] # NoRow
      BY <1>0, RowsKept DEF RowKept
    <3> QED
      BY <3>1, <3>2, <3>3 DEF OnConflict
  <2>3. Sound(messages', file', MessageFrame(m))
    BY <2>2 DEF Sound, MessageFrame
  <2>4. QueueSound(messages', file', ev'.out)
    BY <1>4, <2>3, ShortQueuesSound DEF EventMessage
  <2>5. RowsOfServer' /\ CommandsKnow'
    BY <1>1, <1>2, <1>4, <2>2 DEF RowsOfServer, CommandsKnow, EventMessage
  <2> QED
    BY <1>1, <1>2, <2>1, <2>4, <2>5
<1>5. ASSUME NEW m \in Msgs, EventRevoke(m) PROVE AnnounceInv'
  <2>1. messages' = MarkRevoked(messages, m) /\ m \in onServer
    BY <1>5 DEF EventRevoke, Attempt
  <2>2. RowComesFirst(m) => messages[m] # NoRow
    BY <2>1 DEF RowsOfServer
  <2>3. RowComesFirst(m) => messages'[m] # NoRow /\ messages'[m].type = "revoked"
    BY <1>0, <1>1, <2>1, <2>2 DEF MarkRevoked, UpdateRow, MessagesTable, MessageRow
  <2>4. Sound(messages', file', RevokedFrame(m))
    BY <2>3 DEF Sound, RevokedFrame
  <2> QED
    BY <1>3, <1>5, <2>4, ShortQueuesSound DEF EventRevoke, EvIdle
<1>6. ASSUME NEW m \in Msgs, NEW text \in Texts, EventEdit(m, text)
      PROVE  AnnounceInv'
  <2>1. messages' = UpdateText(messages, m, text) /\ m \in onServer
    BY <1>6 DEF EventEdit, Attempt
  <2>2. RowComesFirst(m) => messages[m] # NoRow
    BY <2>1 DEF RowsOfServer
  <2>3. RowComesFirst(m) => messages'[m] # NoRow /\ messages'[m].edited = TRUE
    BY <1>0, <1>1, <2>1, <2>2 DEF UpdateText, UpdateRow, MessagesTable, MessageRow
  <2>4. Sound(messages', file', EditedFrame(m, text))
    BY <2>3 DEF Sound, EditedFrame
  <2> QED
    BY <1>3, <1>6, <2>4, ShortQueuesSound DEF EventEdit, EvIdle
<1>7. ASSUME NEW m \in Msgs, NEW s, NEW emoji, EventReaction(m, s, emoji)
      PROVE  AnnounceInv'
  <2>1. Sound(messages', file', ReactionFrame(m, s, emoji))
    BY DEF Sound, ReactionFrame
  <2> QED
    BY <1>3, <1>7, <2>1, ShortQueuesSound DEF EventReaction, EvIdle
<1>8. ASSUME NEW m \in Msgs, NEW status \in Statuses, EventReceipt(m, status)
      PROVE  AnnounceInv'
  <2>1. Sound(messages', file', ReceiptFrame(m))
    BY DEF Sound, ReceiptFrame
  <2>2. CASE status = ""
    <3>1. UNCHANGED <<onServer, sock>> /\ ev'.out = <<ReceiptFrame(m)>>
      BY <1>8, <2>2 DEF EventReceipt, EvIdle
    <3>2. QueueSound(messages', file', ev'.out)
      BY <2>1, <3>1, ShortQueuesSound
    <3> QED
      BY <1>3, <3>1, <3>2
  <2>3. CASE status # ""
    <3>1. /\ messages' = UpdateStatus(messages, m, status) /\ m \in onServer
          /\ status \in {"delivered", "read"}
      BY <1>8, <2>3 DEF EventReceipt, Attempt, ReceiptStatuses
    <3>2. RowComesFirst(m) => messages[m] # NoRow
      BY <3>1 DEF RowsOfServer
    <3>3. RowComesFirst(m) => /\ messages'[m] # NoRow
                             /\ messages'[m].status \in {status, "read"}
      BY <1>0, <1>1, <3>1, <3>2 DEF UpdateStatus, MessagesTable, MessageRow
    <3>4. Sound(messages', file', StatusFrame(m, status))
      BY <3>1, <3>3 DEF Sound, StatusFrame
    <3>5. /\ UNCHANGED <<onServer, sock>>
          /\ ev'.out = <<StatusFrame(m, status), ReceiptFrame(m)>>
      BY <1>8, <2>3 DEF EventReceipt, EvIdle
    <3>6. QueueSound(messages', file', ev'.out)
      BY <2>1, <3>4, <3>5, ShortQueuesSound
    <3> QED
      BY <1>3, <3>5, <3>6
  <2> QED
    BY <2>2, <2>3
<1>9. CASE EventArrives
  BY <1>4, <1>5, <1>6, <1>7, <1>8, <1>9 DEF EventArrives
<1>10. CASE EventEmit
  <2>1. /\ ev.out # <<>> /\ Broadcast(Head(ev.out)) /\ UNCHANGED onServer
        /\ ev'.out = Tail(ev.out)
    BY <1>0, <1>10 DEF EventEmit, EvState
  <2>2. QueueSound(messages', file', ev.out) /\ Head(ev.out) \in Frames
    BY <1>0, <2>1, AnnounceKept, HeadTailTyped
  <2>3. /\ Sound(messages', file', Head(ev.out))
        /\ QueueSound(messages', file', ev'.out)
    BY <1>0, <2>1, <2>2, QueuesSound
  <2>4. \A c \in Clients : QueueSound(messages', file', sock'[c])
    BY <1>1, <2>1, <2>2, <2>3, BroadcastSound DEF TypeOK
  <2> QED
    BY <1>1, <1>2, <2>1, <2>3, <2>4 DEF RowsOfServer, CommandsKnow
<1>11. CASE EventAnnounced \/ EventIncrement \/ EventSelect
  <2>1. /\ UNCHANGED <<onServer, sock>>
        /\ ev'.out \in {<<>>, ev.out}
           \cup {<<UnreadFrame(j, n)>> : j \in Chats, n \in Nat}
    <3>1. CASE EventAnnounced
      BY <1>0, <3>1 DEF EventAnnounced, EvIdle, EvState
    <3>2. CASE EventIncrement
      BY <1>0, <3>2 DEF EventIncrement, EvIdle, EvState
    <3>3. CASE EventSelect
      <4>1. ev.m \in Msgs
        BY <1>0, <3>3 DEF EventSelect, EvState
      <4>2. ChatOf[ev.m] \in Chats
        BY <4>1, StoreAssumption
      <4>3. chats[ChatOf[ev.m]] # NoRow => chats[ChatOf[ev.m]].unread \in Nat
        BY <4>2 DEF TypeOK, ChatsTable, ChatRow
      <4> QED
        BY <3>3, <4>2, <4>3 DEF EventSelect, EvIdle
    <3> QED
      BY <1>11, <3>1, <3>2, <3>3
  <2>2. \A j \in Chats, n \in Nat : Sound(messages', file', UnreadFrame(j, n))
    BY DEF Sound, UnreadFrame
  <2>3. QueueSound(messages', file', ev.out)
    BY <1>0, AnnounceKept
  <2> QED
    BY <1>3, <2>1, <2>2, <2>3, ShortQueuesSound
<1> QED
  BY <1>9, <1>10, <1>11 DEF EventStep

\* Rows that are inserted are there.
LEMMA Inserted ==
    ASSUME TypeOK, NEW m \in Msgs, NEW row \in {ReceivedRow(m), SentRow(m)}
    PROVE  InsertMessage(messages, m, row)[m] # NoRow
<1>1. row # NoRow
  BY NewRowsTyped, StoreAssumption
<1>2. messages \in MessagesTable /\ (messages[m] # NoRow => messages[m] \in MessageRow)
  BY DEF TypeOK, MessagesTable
<1>3. InsertMessage(messages, m, row)[m] = OnConflict(messages[m], row)
  BY <1>2 DEF InsertMessage, MessagesTable
<1>4. messages[m] # NoRow => OnConflict(messages[m], row) # NoRow
  BY <1>2, ConflictKeepsRow DEF RowKept
<1> QED
  BY <1>1, <1>3, <1>4 DEF OnConflict

\* The goroutines of the clients' commands.
LEMMA AnnounceCommands ==
    ASSUME TypeOK, TypeOK', AnnounceInv, ~StoreMayFail, ~Restart,
           NEW c \in Clients, CommandArrives(c) \/ CommandStep(c)
    PROVE  AnnounceInv'
<1>0. /\ messages \in MessagesTable /\ cmd \in [Clients -> CmdState]
      /\ cmd[c] \in CmdState /\ ev.out \in Seq(Frames) /\ hist.out \in Seq(Frames)
      /\ \A d \in Clients : cmd[d].out \in Seq(Frames) /\ sock[d] \in Seq(Frames)
      /\ [Next]_vars
  BY DEF TypeOK, EvState, HistState, CmdState, Next
<1>1. /\ WholeFiles' /\ RowsOfServer /\ CommandsKnow
      /\ QueueSound(messages', file', ev.out)
      /\ QueueSound(messages', file', hist.out)
      /\ \A m \in onServer : RowComesFirst(m) => messages'[m] # NoRow
      /\ \A d \in Clients : /\ QueueSound(messages', file', cmd[d].out)
                             /\ QueueSound(messages', file', sock[d])
  BY <1>0, AnnounceKept DEF AnnounceInv
<1>2. /\ UNCHANGED <<ev, hist>> /\ \A d \in Clients \ {c} : cmd'[d] = cmd[d]
      /\ onServer \subseteq onServer'
  BY <1>0 DEF CommandArrives, Send, DeleteMessage, EditMessage, SendReaction,
       SendUpdate, DownloadMedia, StarMessage, SetActiveChat, MarkRead, SetChatFlag,
       CommandStep, StoreSent, ClearUnread, StoreDeleted, StoreEdited, StoreReaction,
       CommandEmit, CommandReply, Begin
<1>3. ASSUME QueueSound(messages', file', cmd'[c].out), UNCHANGED onServer,
             \A d \in Clients : QueueSound(messages', file', sock'[d]),
             cmd'[c].pc \in {"revoke", "edit"} => cmd'[c].m \in onServer
      PROVE  AnnounceInv'
  <2>1. \A d \in Clients : QueueSound(messages', file', cmd'[d].out)
    BY <1>1, <1>2, <1>3
  <2>2. RowsOfServer' /\ CommandsKnow'
    BY <1>1, <1>2, <1>3 DEF RowsOfServer, CommandsKnow
  <2> QED
    BY <1>1, <1>2, <1>3, <2>1, <2>2 DEF AnnounceInv
\* A command that has nothing to push yet.
<1>4. ASSUME NEW r, Begin(c, r), r.out = <<>>, UNCHANGED <<onServer, sock>>,
             r.pc \in {"revoke", "edit"} => r.m \in onServer
      PROVE  AnnounceInv'
  <2>1. cmd'[c] = r
    BY <1>0, <1>4 DEF Begin
  <2> QED
    BY <1>1, <1>3, <1>4, <2>1, ShortQueuesSound
\* One that has a frame to push.
<1>5. ASSUME NEW r, NEW f, Begin(c, r), r.out = <<f>>, Sound(messages', file', f),
             UNCHANGED <<onServer, sock>>, r.pc = "reply"
      PROVE  AnnounceInv'
  <2>1. cmd'[c] = r
    BY <1>0, <1>5 DEF Begin
  <2> QED
    BY <1>1, <1>3, <1>5, <2>1, ShortQueuesSound
<1>6. \A ok \in BOOLEAN : Reply(ok).out = <<>> /\ Reply(ok).pc = "reply"
  BY DEF Reply, CmdIdle
<1>7. \A ok, q : /\ [Reply(ok) EXCEPT !.out = q].out = q
                 /\ [Reply(ok) EXCEPT !.out = q].pc = "reply"
  BY DEF Reply, CmdIdle
<1>8. CASE CommandArrives(c)
  <2>1. ASSUME NEW m \in Msgs, Send(c, m) PROVE AnnounceInv'
    <3>1. CASE UNCHANGED onServer
      BY <1>4, <1>6, <2>1, <3>1 DEF Send, CmdIdle
    <3>2. CASE onServer' = onServer \cup {m} /\ m \in LocalMsgs
      <4>1. cmd'[c] \in {Reply(FALSE), [CmdIdle EXCEPT !.pc = "put", !.m = m]}
        BY <1>0, <2>1 DEF Send, Begin
      <4>2. cmd'[c].out = <<>> /\ cmd'[c].pc \notin {"revoke", "edit"}
        BY <1>6, <4>1 DEF CmdIdle
      <4>3. RowsOfServer' /\ CommandsKnow'
        BY <1>1, <1>2, <3>2, <4>2 DEF RowsOfServer, CommandsKnow, RowComesFirst
      <4>4. \A d \in Clients : QueueSound(messages', file', cmd'[d].out)
        BY <1>1, <1>2, <4>2, ShortQueuesSound
      <4> QED
        BY <1>1, <1>2, <2>1, <4>3, <4>4 DEF Send, AnnounceInv
    <3> QED
      BY <2>1, <3>1, <3>2 DEF Send
  <2>2. ASSUME NEW m \in Msgs, NEW pc, NEW val, SendUpdate(c, pc, m, val)
        PROVE  AnnounceInv'
    BY <1>4, <1>6, <2>2 DEF SendUpdate, CmdIdle
  <2>3. ASSUME NEW m \in Msgs,
               DownloadMedia(c, m) \/ \E b \in BOOLEAN : StarMessage(c, m, b)
        PROVE  AnnounceInv'
    BY <1>4, <1>6, <2>3 DEF DownloadMedia, StarMessage
  <2>4. ASSUME NEW j, SetActiveChat(c, j) PROVE AnnounceInv'
    BY <1>4, <1>6, <2>4 DEF SetActiveChat, CmdIdle
  <2>5. ASSUME NEW j, NEW ok \in BOOLEAN, MarkRead(c, j, ok) PROVE AnnounceInv'
    BY <1>4, <2>5 DEF MarkRead, CmdIdle
  <2>6. ASSUME NEW new, SetChatFlag(c, new) PROVE AnnounceInv'
    BY <1>4, <1>6, <2>6 DEF SetChatFlag
  <2> QED
    BY <1>8, <2>1, <2>2, <2>3, <2>4, <2>5, <2>6
       DEF CommandArrives, DeleteMessage, EditMessage, SendReaction
<1>9. CASE StoreSent(c)
  <2>1. /\ cmd[c].m \in Msgs
        /\ messages' = InsertMessage(messages, cmd[c].m, SentRow(cmd[c].m))
    BY <1>0, <1>9 DEF StoreSent, CmdState
  <2> DEFINE f == MessageFrame(cmd[c].m)
             r == [Reply(TRUE) EXCEPT !.out = <<f>>]
  <2>2. Sound(messages', file', f)
    BY <2>1, Inserted DEF Sound, MessageFrame
  <2>3. Begin(c, r) /\ UNCHANGED <<onServer, sock>>
    BY <1>9 DEF StoreSent
  <2>4. r.out = <<f>> /\ r.pc = "reply"
    BY <1>7, Zenon
  <2> HIDE DEF f, r
  <2> QED
    BY <1>5, <2>2, <2>3, <2>4
<1>10. CASE ClearUnread(c)
  <2> DEFINE f == UnreadFrame(cmd[c].chat, 0)
             r == [Reply(cmd[c].ok) EXCEPT !.out = <<f>>]
  <2>1. Sound(messages', file', f)
    BY DEF Sound, UnreadFrame
  <2>2. Begin(c, r) /\ UNCHANGED <<onServer, sock>>
    BY <1>10 DEF ClearUnread
  <2>3. r.out = <<f>> /\ r.pc = "reply"
    BY <1>7, Zenon
  <2> HIDE DEF f, r
  <2> QED
    BY <1>5, <2>1, <2>2, <2>3
<1>11. CASE StoreDeleted(c)
  <2> DEFINE m == cmd[c].m
  <2>1. /\ m \in Msgs /\ messages' = MarkRevoked(messages, m)
        /\ RowComesFirst(m) => messages[m] # NoRow
    BY <1>0, <1>1, <1>11 DEF StoreDeleted, CmdState, Attempt, RowsOfServer, CommandsKnow
  <2>2. RowComesFirst(m) => messages'[m] # NoRow /\ messages'[m].type = "revoked"
    <3>1. RowComesFirst(m) => m \in onServer /\ messages[m] \in MessageRow
      BY <1>0, <1>1, <1>11, <2>1 DEF CommandsKnow, StoreDeleted, MessagesTable
    <3> QED
      BY <1>0, <1>1, <2>1, <3>1 DEF MarkRevoked, UpdateRow, MessagesTable, MessageRow
  <2>3. Sound(messages', file', RevokedFrame(m))
    BY <2>2 DEF Sound, RevokedFrame
  <2>4. /\ Begin(c, [Reply(TRUE) EXCEPT !.out = <<RevokedFrame(m)>>])
        /\ UNCHANGED <<onServer, sock>>
    BY <1>11 DEF StoreDeleted
  <2> QED
    BY <1>5, <1>7, <2>3, <2>4
<1>12. CASE StoreEdited(c)
  <2> DEFINE m == cmd[c].m
  <2>1. /\ m \in Msgs /\ messages' = UpdateText(messages, m, cmd[c].val)
        /\ RowComesFirst(m) => messages[m] # NoRow
    BY <1>0, <1>1, <1>12 DEF StoreEdited, CmdState, Attempt, RowsOfServer, CommandsKnow
  <2>2. RowComesFirst(m) => messages'[m] # NoRow /\ messages'[m].edited = TRUE
    <3>1. RowComesFirst(m) => m \in onServer /\ messages[m] \in MessageRow
      BY <1>0, <1>1, <1>12, <2>1 DEF CommandsKnow, StoreEdited, MessagesTable
    <3> QED
      BY <1>0, <1>1, <2>1, <3>1 DEF UpdateText, UpdateRow, MessagesTable, MessageRow
  <2> DEFINE f == EditedFrame(m, cmd[c].val)
             r == [Reply(TRUE) EXCEPT !.out = <<f>>]
  <2>3. Sound(messages', file', f)
    BY <2>2 DEF Sound, EditedFrame
  <2>4. Begin(c, r) /\ UNCHANGED <<onServer, sock>>
    BY <1>12 DEF StoreEdited
  <2>5. r.out = <<f>> /\ r.pc = "reply"
    BY <1>7
  <2> HIDE DEF f, r
  <2> QED
    BY <1>5, <2>3, <2>4, <2>5
<1>13. CASE StoreReaction(c)
  <2> DEFINE f == ReactionFrame(cmd[c].m, Me, cmd[c].val)
             r == [Reply(TRUE) EXCEPT !.out = <<f>>]
  <2>1. Sound(messages', file', f)
    BY DEF Sound, ReactionFrame
  <2>2. Begin(c, r) /\ UNCHANGED <<onServer, sock>>
    BY <1>13 DEF StoreReaction
  <2>3. r.out = <<f>> /\ r.pc = "reply"
    BY <1>7, Zenon
  <2> HIDE DEF f, r
  <2> QED
    BY <1>5, <2>1, <2>2, <2>3
<1>14. CASE CommandEmit(c)
  <2>1. /\ cmd[c].out # <<>> /\ Broadcast(Head(cmd[c].out)) /\ UNCHANGED onServer
        /\ cmd'[c].out = Tail(cmd[c].out) /\ cmd'[c].pc = cmd[c].pc
        /\ cmd'[c].m = cmd[c].m
    BY <1>0, <1>14 DEF CommandEmit, CmdState
  <2>2. Head(cmd[c].out) \in Frames
    BY <1>0, <2>1, HeadTailTyped
  <2>3. /\ Sound(messages', file', Head(cmd[c].out))
        /\ QueueSound(messages', file', cmd'[c].out)
    BY <1>0, <1>1, <2>1, QueuesSound
  <2>4. \A d \in Clients : QueueSound(messages', file', sock'[d])
    BY <1>1, <2>1, <2>2, <2>3, BroadcastSound DEF TypeOK
  <2>5. cmd'[c].pc \in {"revoke", "edit"} => cmd'[c].m \in onServer
    BY <1>1, <2>1 DEF CommandsKnow
  <2> QED
    BY <1>3, <2>1, <2>3, <2>4, <2>5
<1>15. CASE CommandReply(c)
  <2>1. /\ UNCHANGED onServer
        /\ sock' = [sock EXCEPT ![c] = Append(sock[c], ResponseFrame(cmd[c].ok))]
    BY <1>15 DEF CommandReply
  <2>2. /\ ResponseFrame(cmd[c].ok) \in Frames
        /\ Sound(messages', file', ResponseFrame(cmd[c].ok))
    BY <1>0, OtherFramesTyped DEF CmdState, Sound, ResponseFrame
  <2>3. \A d \in Clients : QueueSound(messages', file', sock'[d])
    BY <1>0, <1>1, <2>1, <2>2, QueuesSound DEF TypeOK
  <2>4. cmd'[c].out = <<>> /\ cmd'[c].pc = "idle"
    <3>1. Begin(c, CmdIdle)
      BY <1>15 DEF CommandReply
    <3>2. cmd'[c] = CmdIdle
      BY <1>0, <3>1 DEF Begin
    <3>3. CmdIdle.out = <<>> /\ CmdIdle.pc = "idle"
      BY DEF CmdIdle
    <3> QED
      BY <3>2, <3>3
  <2>5. QueueSound(messages', file', cmd'[c].out)
    BY <2>4, ShortQueuesSound
  <2> QED
    BY <1>3, <2>1, <2>3, <2>4, <2>5
<1> QED
  BY <1>8, <1>9, <1>10, <1>11, <1>12, <1>13, <1>14, <1>15 DEF CommandStep

\* History syncs, downloads, clients that read, and restarts.
LEMMA AnnounceOthers ==
    ASSUME TypeOK, TypeOK', AnnounceInv, ~StoreMayFail, [Next]_vars,
           \/ HistoryArrives \/ HistoryStep
           \/ \E s \in Slots : DownloadStep(s)
           \/ \E c \in Clients : ClientRead(c)
           \/ UNCHANGED vars,
           ~Restart
    PROVE  AnnounceInv'
<1>0. /\ ev.out \in Seq(Frames) /\ hist.out \in Seq(Frames) /\ hist \in HistState
      /\ \A d \in Clients : cmd[d].out \in Seq(Frames) /\ sock[d] \in Seq(Frames)
  BY DEF TypeOK, EvState, HistState, CmdState
<1>1. /\ WholeFiles' /\ CommandsKnow
      /\ QueueSound(messages', file', ev.out) /\ QueueSound(messages', file', hist.out)
      /\ \A m \in onServer : RowComesFirst(m) => messages'[m] # NoRow
      /\ \A d \in Clients : /\ QueueSound(messages', file', cmd[d].out)
                             /\ QueueSound(messages', file', sock[d])
  BY <1>0, AnnounceKept DEF AnnounceInv
<1>2. ASSUME UNCHANGED <<ev, cmd, onServer>>, QueueSound(messages', file', hist'.out),
             \A d \in Clients : QueueSound(messages', file', sock'[d])
      PROVE  AnnounceInv'
  BY <1>1, <1>2 DEF AnnounceInv, RowsOfServer, CommandsKnow
<1>3. CASE HistoryEmit
  <2>1. /\ hist.out # <<>> /\ Broadcast(Head(hist.out))
        /\ hist'.out = Tail(hist.out)
    BY <1>0, <1>3 DEF HistoryEmit, HistState
  <2>2. Head(hist.out) \in Frames
    BY <1>0, <2>1, HeadTailTyped
  <2>3. /\ Sound(messages', file', Head(hist.out))
        /\ QueueSound(messages', file', hist'.out)
    BY <1>0, <1>1, <2>1, QueuesSound
  <2>4. \A d \in Clients : QueueSound(messages', file', sock'[d])
    BY <1>1, <2>1, <2>2, <2>3, BroadcastSound DEF TypeOK
  <2> QED
    BY <1>2, <1>3, <2>3, <2>4 DEF HistoryEmit
<1>4. CASE HistoryArrives \/ HistoryPut \/ HistoryDone
  <2>1. UNCHANGED <<ev, cmd, onServer, sock>> /\ hist'.out \in {<<>>, <<HistoryFrame>>}
    BY <1>4 DEF HistoryArrives, HistoryConversation, HistoryPut, HistoryDone, HistIdle
  <2>2. Sound(messages', file', HistoryFrame)
    BY DEF Sound, HistoryFrame
  <2> QED
    BY <1>1, <1>2, <2>1, <2>2, ShortQueuesSound
<1>5. ASSUME NEW s \in Slots, DownloadPublish(s) PROVE AnnounceInv'
  <2>1. dl[s].m \in Msgs /\ file[dl[s].m] \in Whole /\ UNCHANGED file
    BY <1>5 DEF DownloadPublish, AnnounceInv, WholeFiles, TypeOK, DlState
  <2>2. /\ MediaFrame(dl[s].m) \in Frames
        /\ Sound(messages', file', MediaFrame(dl[s].m))
    BY <2>1, FramesTyped DEF Sound, MediaFrame
  <2>3. \A d \in Clients : QueueSound(messages', file', sock'[d])
    BY <1>1, <1>5, <2>2, BroadcastSound DEF TypeOK, DownloadPublish
  <2> QED
    BY <1>1, <1>2, <1>5, <2>3 DEF DownloadPublish
<1>6. ASSUME NEW s \in Slots,
             DownloadFetch(s) \/ DownloadWrite(s) \/ DownloadRecord(s)
      PROVE  AnnounceInv'
  <2>1. UNCHANGED <<ev, hist, cmd, onServer, sock>>
    BY <1>6 DEF DownloadFetch, DownloadWrite, DownloadRecord
  <2> QED
    BY <1>1, <1>2, <2>1
<1>7. ASSUME NEW c \in Clients, ClientRead(c) PROVE AnnounceInv'
  <2>1. /\ sock[c] # <<>> /\ sock' = [sock EXCEPT ![c] = Tail(sock[c])]
        /\ UNCHANGED <<ev, hist, cmd, onServer>>
    BY <1>7 DEF ClientRead
  <2>2. \A d \in Clients : QueueSound(messages', file', sock'[d])
    BY <1>0, <1>1, <2>1, QueuesSound DEF TypeOK
  <2> QED
    BY <1>1, <1>2, <2>1, <2>2
<1>8. CASE UNCHANGED vars
  BY <1>1, <1>2, <1>8 DEF vars
<1> QED
  BY <1>3, <1>4, <1>5, <1>6, <1>7, <1>8 DEF HistoryStep, DownloadStep

LEMMA AnnounceRestart ==
    ASSUME TypeOK, AnnounceInv, Restart
    PROVE  AnnounceInv'
<1>1. RowsOfServer'
  BY DEF AnnounceInv, RowsOfServer, Restart, store
<1>2. WholeFiles' /\ CommandsKnow'
  BY DEF WholeFiles, CommandsKnow, Restart, DlIdle, CmdIdle
<1>3. /\ ev'.out = <<>> /\ hist'.out = <<>>
      /\ \A c \in Clients : cmd'[c].out = <<>> /\ sock'[c] = <<>>
  BY DEF Restart, EvIdle, HistIdle, CmdIdle
<1> QED
  BY <1>1, <1>2, <1>3, ShortQueuesSound DEF AnnounceInv

LEMMA AnnounceStep ==
    ASSUME TypeOK, TypeOK', AnnounceInv, ~StoreMayFail, [Next]_vars
    PROVE  AnnounceInv'
<1>1. CASE Restart
  BY <1>1, AnnounceRestart
<1>2. CASE ~Restart
  BY <1>2, AnnounceEvents, AnnounceCommands, AnnounceOthers DEF Next
<1> QED
  BY <1>1, <1>2

\* A frame in a client's buffer never announces what the store or the media
\* directory does not hold, for any number of clients, messages and downloads and
\* across restarts, as long as statements and writes succeed.
THEOREM AnnouncedTheorem ==
    ASSUME ~StoreMayFail
    PROVE  Spec => []AnnouncedIsStored
<1>1. Init => AnnounceInv
  <2> SUFFICES ASSUME Init PROVE AnnounceInv
    OBVIOUS
  <2>1. RowsOfServer /\ WholeFiles /\ CommandsKnow
    BY DEF Init, RowsOfServer, RowComesFirst, WholeFiles, DlIdle, CommandsKnow, CmdIdle
  <2>2. /\ ev.out = <<>> /\ hist.out = <<>>
        /\ \A c \in Clients : cmd[c].out = <<>> /\ sock[c] = <<>>
    BY DEF Init, EvIdle, HistIdle, CmdIdle
  <2> QED
    BY <2>1, <2>2, ShortQueuesSound DEF AnnounceInv
<1>2. TypeOK /\ TypeOK' /\ AnnounceInv /\ [Next]_vars => AnnounceInv'
  BY AnnounceStep
<1>3. TypeOK /\ AnnounceInv => AnnouncedIsStored
  <2> SUFFICES ASSUME TypeOK, AnnounceInv, NEW f \in InFlight PROVE Stored(f)
    BY DEF AnnouncedIsStored
  <2>1. PICK c \in Clients : \E i \in DOMAIN sock[c] : f = sock[c][i]
    BY DEF InFlight
  <2>2. Sound(messages, file, f)
    BY <2>1 DEF AnnounceInv, QueueSound
  <2> QED
    BY <2>2 DEF Sound, Stored, Whole
<1> QED
  BY <1>1, <1>2, <1>3, TypeCorrect, PTL DEF Spec
=============================================================================
