------------------------------- MODULE Engine -------------------------------
(***************************************************************************)
(* The daemon's engine (daemon/internal/engine): the goroutines that share *)
(* the application store, the active chat and the media directory, and the *)
(* frames they push to the connected GUI clients.                          *)
(*                                                                         *)
(*   ev       whatsmeow's event goroutine, in Engine.handleEvent           *)
(*   hist     whatsmeow's history-sync goroutine, in persistHistory        *)
(*   cmd[c]   the goroutine that serves client c, in Server.dispatch       *)
(*   dl[s]    background downloads, in downloadMediaAsync                  *)
(*                                                                         *)
(* A goroutine's step is one access to what it shares with the others: a   *)
(* statement of the store, the active chat under its mutex, one file       *)
(* operation, or one frame to the clients.  Whatever another goroutine can *)
(* do between two such accesses, it can do here.  "out" holds the frames a *)
(* goroutine has decided to push and has not pushed yet.                   *)
(***************************************************************************)
EXTENDS AppStore

CONSTANTS
    Clients,       \* connected GUI processes
    Slots,         \* bound on concurrent background downloads
    LocalMsgs,     \* ids the server will give to messages sent through us
    OldMsgs,       \* messages older than the linking of this device
    Me,            \* this account, as a reaction sender
    NoMsg, NoChat, \* "no message", and the empty jid of set_active_chat
    EventKinds,    \* whatsmeow events that happen in this instance
    CommandKinds,  \* IPC methods the clients call in this instance
    StoreMayFail,  \* whether a statement or a file write may fail (disk full...)
    MayRestart,    \* whether the daemon may stop and start again
    SockCap,       \* frames that fit in a client's socket buffer
    MaxUnread      \* bound on the unread counters

AllEvents   == {"message", "revoke", "edit", "reaction", "receipt", "history"}
AllCommands == {"send", "set_active_chat", "mark_read", "delete_message",
                "edit_message", "send_reaction", "download_media",
                "star_message", "set_pinned", "set_muted"}

ASSUME EngineAssumption ==
    /\ LocalMsgs \subseteq {m \in Msgs : FromMe[m]}
    /\ OldMsgs \subseteq Msgs \ LocalMsgs
    /\ Me \in Senders
    /\ NoMsg \notin Msgs /\ NoChat \notin Chats
    /\ EventKinds \subseteq AllEvents /\ CommandKinds \subseteq AllCommands
    /\ StoreMayFail \in BOOLEAN /\ MayRestart \in BOOLEAN
    /\ SockCap \in Nat \ {0} /\ MaxUnread \in Nat \ {0}
    /\ Slots \cap {"none", "partial", "complete"} = {}

VARIABLES
    messages, chats, reactions,  \* the tables of the application store
    activeChat,                  \* Engine.activeChat
    ev, hist, cmd, dl,           \* the goroutines
    file,       \* file[m]: m's file in the media directory
    onServer,   \* messages the WhatsApp server may tell us more about: it has
                \* delivered them or accepted them from us, or they are old
                \* and reach us through a history sync (external)
    sock        \* sock[c]: frames written to client c and not read yet

store  == <<messages, chats, reactions>>
vars   == <<messages, chats, reactions, activeChat, ev, hist, cmd, dl, file,
            onServer, sock>>

-----------------------------------------------------------------------------
(* Frames.                                                                 *)

MessageFrame(m)        == [ev |-> "message", m |-> m]
RevokedFrame(m)        == [ev |-> "message_revoked", m |-> m]
EditedFrame(m, text)   == [ev |-> "message_edited", m |-> m, text |-> text]
ReactionFrame(m, s, e) == [ev |-> "reaction", m |-> m, sender |-> s, emoji |-> e]
MediaFrame(m)          == [ev |-> "message_media", m |-> m]
StatusFrame(m, status) == [ev |-> "message_status", m |-> m, status |-> status]
ReceiptFrame(m)        == [ev |-> "receipt", m |-> m]
UnreadFrame(j, n)      == [ev |-> "chat_unread", chat |-> j, unread |-> n]
HistoryFrame           == [ev |-> "history_sync"]
ResponseFrame(ok)      == [ev |-> "response", ok |-> ok]

Frames ==
    [ev : {"message", "message_revoked", "message_media", "receipt"}, m : Msgs]
    \cup [ev : {"message_edited"}, m : Msgs, text : Texts]
    \cup [ev : {"reaction"}, m : Msgs, sender : Senders, emoji : Emojis \cup {""}]
    \cup [ev : {"message_status"}, m : Msgs, status : Statuses]
    \cup [ev : {"chat_unread"}, chat : Chats, unread : Nat]
    \cup [ev : {"history_sync"}]
    \cup [ev : {"response"}, ok : BOOLEAN]

\* Engine.emit with the sink main.go installs, Server.Broadcast: one frame to
\* every client.  A write blocks while a client's socket buffer is full.
Broadcast(frame) ==
    /\ \A c \in Clients : Len(sock[c]) < SockCap
    /\ sock' = [c \in Clients |-> Append(sock[c], frame)]

\* The outcomes of a statement whose error the code ignores: it is executed, or
\* it fails and does nothing.
Attempt(old, new) == IF StoreMayFail THEN {old, new} ELSE {new}

-----------------------------------------------------------------------------
(* Control states.                                                         *)

\* ev.m is the incoming message that may still have to count as unread.
EvIdle == [pc |-> "idle", m |-> NoMsg, out |-> <<>>]
EvState == {r \in [pc : {"idle", "announced", "increment", "select"},
                   m : Msgs \cup {NoMsg}, out : Seq(Frames)] :
              r.pc # "idle" => r.m \in Msgs}

HistIdle == [pc |-> "idle", chat |-> NoChat, batch |-> {}, out |-> <<>>]
HistState == {r \in [pc : {"idle", "put", "next"}, chat : Chats \cup {NoChat},
                     batch : SUBSET Msgs, out : Seq(Frames)] :
                /\ r.pc = "put" => r.chat \in Chats
                /\ \A m \in r.batch : ChatOf[m] = r.chat}

\* cmd.val is the new text or the emoji; cmd.ok is the outcome to report.
CmdIdle == [pc |-> "idle", m |-> NoMsg, chat |-> NoChat, val |-> "",
            out |-> <<>>, ok |-> TRUE]
CmdState == {r \in [pc : {"idle", "put", "clear", "revoke", "edit", "react",
                          "reply"},
                    m : Msgs \cup {NoMsg}, chat : Chats \cup {NoChat},
                    val : Texts \cup Emojis, out : Seq(Frames), ok : BOOLEAN] :
               /\ r.pc \in {"put", "revoke", "edit", "react"} => r.m \in Msgs
               /\ r.pc = "clear" => r.chat \in Chats
               /\ r.pc = "edit" => r.val \in Texts
               /\ r.pc = "react" => r.val \in Emojis \cup {""}}

DlIdle == [pc |-> "idle", m |-> NoMsg]
DlState == {r \in [pc : {"idle", "fetch", "write", "record", "publish"},
                   m : Msgs \cup {NoMsg}] :
              r.pc # "idle" => r.m \in Msgs}

\* A file is missing, whole, being written by the slot that truncated it last,
\* or left incomplete by a failed write or a stop of the daemon.
FileStates == {"none", "partial", "complete"} \cup Slots

TypeOK ==
    /\ messages \in MessagesTable
    /\ chats \in ChatsTable
    /\ reactions \in ReactionsTable
    /\ activeChat \in Chats \cup {NoChat}
    /\ ev \in EvState
    /\ hist \in HistState
    /\ cmd \in [Clients -> CmdState]
    /\ dl \in [Slots -> DlState]
    /\ file \in [Msgs -> FileStates]
    /\ onServer \in SUBSET Msgs
    /\ sock \in [Clients -> Seq(Frames)]

Init ==
    /\ messages = EmptyMessages
    /\ chats = EmptyChats
    /\ reactions = EmptyReactions
    /\ activeChat = NoChat
    /\ ev = EvIdle
    /\ hist = HistIdle
    /\ cmd = [c \in Clients |-> CmdIdle]
    /\ dl = [s \in Slots |-> DlIdle]
    /\ file = [m \in Msgs |-> "none"]
    /\ onServer = OldMsgs
    /\ sock = [c \in Clients |-> <<>>]

-----------------------------------------------------------------------------
(* The event goroutine: handleEvent, handleSpecialMessage, bumpUnread.     *)

EvFree == ev.pc = "idle" /\ ev.out = <<>>

\* A plain message, incoming or written on another device of this account; one
\* whose acknowledgement was lost is delivered again.  A failed PutMessage is
\* logged and the message is announced all the same.
EventMessage(m) ==
    /\ EvFree /\ m \notin LocalMsgs \cup OldMsgs
    /\ chats[ChatOf[m]] # NoRow => chats[ChatOf[m]].unread < MaxUnread
    /\ \/ /\ messages' = InsertMessage(messages, m, ReceivedRow(m))
          /\ chats' = UpdateChat(chats, ChatOf[m], Ts[m], Body[m])
       \/ StoreMayFail /\ UNCHANGED <<messages, chats>>
    /\ ev' = [pc |-> "announced", m |-> m, out |-> <<MessageFrame(m)>>]
    /\ onServer' = onServer \cup {m}
    /\ UNCHANGED <<reactions, activeChat, hist, cmd, dl, file, sock>>

\* A goroutine is started; Slots bounds how many run at once.
StartDownload(m) ==
    \E s \in Slots : /\ dl[s] = DlIdle
                     /\ dl' = [dl EXCEPT ![s] = [pc |-> "fetch", m |-> m]]

\* Mutant of EventAnnounced: bumpUnread does not look at activeChat.
EventAnnouncedAlwaysBumps ==
    /\ ev.pc = "announced" /\ ev.out = <<>>
    /\ IF Kind[ev.m] = "image" THEN StartDownload(ev.m) ELSE UNCHANGED dl
    /\ ev' = IF FromMe[ev.m] THEN EvIdle ELSE [ev EXCEPT !.pc = "increment"]
    /\ UNCHANGED <<store, activeChat, hist, cmd, file, onServer, sock>>

\* maybeDownloadMedia, then bumpUnread up to its reading of activeChat.
EventAnnounced ==
    /\ ev.pc = "announced" /\ ev.out = <<>>
    /\ IF Kind[ev.m] = "image" THEN StartDownload(ev.m) ELSE UNCHANGED dl
    /\ ev' = IF FromMe[ev.m] \/ ChatOf[ev.m] = activeChat
             THEN EvIdle ELSE [ev EXCEPT !.pc = "increment"]
    /\ UNCHANGED <<store, activeChat, hist, cmd, file, onServer, sock>>

\* The UPDATE of IncrementUnread.
EventIncrement ==
    /\ ev.pc = "increment"
    /\ \/ /\ chats' = IncrementUnread(chats, ChatOf[ev.m])
          /\ ev' = [ev EXCEPT !.pc = "select"]
       \/ StoreMayFail /\ ev' = EvIdle /\ UNCHANGED chats
    /\ UNCHANGED <<messages, reactions, activeChat, hist, cmd, dl, file,
                   onServer, sock>>

\* Its SELECT; a chat without a row, or an error, ends bumpUnread silently.
EventSelect ==
    /\ ev.pc = "select"
    /\ LET j == ChatOf[ev.m] IN
       \/ /\ chats[j] # NoRow
          /\ ev' = [EvIdle EXCEPT !.out = <<UnreadFrame(j, chats[j].unread)>>]
       \/ (chats[j] = NoRow \/ StoreMayFail) /\ ev' = EvIdle
    /\ UNCHANGED <<store, activeChat, hist, cmd, dl, file, onServer, sock>>

\* A message deleted for everyone by its author.
EventRevoke(m) ==
    /\ EvFree /\ m \in onServer
    /\ messages' \in Attempt(messages, MarkRevoked(messages, m))
    /\ ev' = [EvIdle EXCEPT !.out = <<RevokedFrame(m)>>]
    /\ UNCHANGED <<chats, reactions, activeChat, hist, cmd, dl, file, onServer,
                   sock>>

EventEdit(m, text) ==
    /\ EvFree /\ m \in onServer
    /\ messages' \in Attempt(messages, UpdateText(messages, m, text))
    /\ ev' = [EvIdle EXCEPT !.out = <<EditedFrame(m, text)>>]
    /\ UNCHANGED <<chats, reactions, activeChat, hist, cmd, dl, file, onServer,
                   sock>>

EventReaction(m, s, emoji) ==
    /\ EvFree /\ m \in onServer
    /\ reactions' \in Attempt(reactions, PutReaction(reactions, m, s, emoji))
    /\ ev' = [EvIdle EXCEPT !.out = <<ReactionFrame(m, s, emoji)>>]
    /\ UNCHANGED <<messages, chats, activeChat, hist, cmd, dl, file, onServer,
                   sock>>

\* The statuses a receipt can carry: what the recipients of our messages report,
\* and "read" from another device of this account for a message it was sent (a
\* read-self receipt).  "" is any other kind of receipt.
ReceiptStatuses(m) == IF FromMe[m] THEN {"", "delivered", "read"} ELSE {"read"}

\* The status frame is pushed whether or not the statement changed a row.
EventReceipt(m, status) ==
    /\ EvFree /\ m \in onServer /\ status \in ReceiptStatuses(m)
    /\ \/ /\ status # ""
          /\ messages' \in Attempt(messages, UpdateStatus(messages, m, status))
          /\ ev' = [EvIdle EXCEPT
                      !.out = <<StatusFrame(m, status), ReceiptFrame(m)>>]
       \/ /\ status = ""
          /\ ev' = [EvIdle EXCEPT !.out = <<ReceiptFrame(m)>>]
          /\ UNCHANGED messages
    /\ UNCHANGED <<chats, reactions, activeChat, hist, cmd, dl, file, onServer,
                   sock>>

EventEmit ==
    /\ ev.out # <<>>
    /\ Broadcast(Head(ev.out))
    /\ ev' = [ev EXCEPT !.out = Tail(ev.out)]
    /\ UNCHANGED <<store, activeChat, hist, cmd, dl, file, onServer>>

EventArrives ==
    \E m \in Msgs :
      \/ "message" \in EventKinds /\ EventMessage(m)
      \/ "revoke" \in EventKinds /\ EventRevoke(m)
      \/ "edit" \in EventKinds
         /\ \E text \in Texts \ {""} : EventEdit(m, text)
      \/ "reaction" \in EventKinds
         /\ \E s \in Senders, emoji \in Emojis \cup {""} :
               EventReaction(m, s, emoji)
      \/ "receipt" \in EventKinds
         /\ \E status \in Statuses : EventReceipt(m, status)

EventStep == EventAnnounced \/ EventIncrement \/ EventSelect \/ EventEmit

-----------------------------------------------------------------------------
(* The history goroutine: persistHistory, one transaction per conversation. *)

\* The next conversation of a payload: its name, when it carries one.  batch is
\* the set of its messages that have something to show.
HistoryConversation(j, batch, named) ==
    /\ hist.pc \in {"idle", "next"} /\ hist.out = <<>>
    /\ "history" \in EventKinds
    /\ batch \subseteq {m \in onServer : ChatOf[m] = j}
    /\ \/ named /\ chats' \in Attempt(chats, SetChatName(chats, j))
       \/ ~named /\ UNCHANGED chats
    /\ hist' = [pc |-> "put", chat |-> j, batch |-> batch, out |-> <<>>]
    /\ UNCHANGED <<messages, reactions, activeChat, ev, cmd, dl, file, onServer,
                   sock>>

\* PutMessages; after an error the loop goes on to the next conversation.
HistoryPut ==
    /\ hist.pc = "put"
    /\ \/ /\ messages' = InsertBatch(messages, hist.batch)
          /\ \E last \in NewestOf(hist.batch) :
               chats' = UpdateChat(chats, hist.chat, Ts[last], Body[last])
       \/ (hist.batch = {} \/ StoreMayFail) /\ UNCHANGED <<messages, chats>>
    /\ hist' = [HistIdle EXCEPT !.pc = "next"]
    /\ UNCHANGED <<reactions, activeChat, ev, cmd, dl, file, onServer, sock>>

HistoryDone ==
    /\ hist.pc = "next" /\ hist.out = <<>>
    /\ hist' = [HistIdle EXCEPT !.out = <<HistoryFrame>>]
    /\ UNCHANGED <<store, activeChat, ev, cmd, dl, file, onServer, sock>>

HistoryEmit ==
    /\ hist.out # <<>>
    /\ Broadcast(Head(hist.out))
    /\ hist' = [hist EXCEPT !.out = Tail(hist.out)]
    /\ UNCHANGED <<store, activeChat, ev, cmd, dl, file, onServer>>

HistoryStep == HistoryPut \/ HistoryDone \/ HistoryEmit

-----------------------------------------------------------------------------
(* Command goroutines: Server.dispatch calls one method of the engine, then *)
(* writes its response to the client that asked.                           *)

CmdFree(c) == cmd[c].pc = "idle"

Begin(c, rec) == cmd' = [cmd EXCEPT ![c] = rec]

Reply(ok) == [CmdIdle EXCEPT !.pc = "reply", !.ok = ok]

\* Mutant of Send: the message is announced before it is stored.
SendAnnouncesFirst(c, m) ==
    /\ CmdFree(c) /\ m \in LocalMsgs \ onServer
    /\ \/ Begin(c, Reply(FALSE)) /\ UNCHANGED onServer
       \/ /\ Begin(c, [CmdIdle EXCEPT !.pc = "put", !.m = m,
                                       !.out = <<MessageFrame(m)>>])
          /\ onServer' = onServer \cup {m}
    /\ UNCHANGED <<store, activeChat, ev, hist, dl, file, sock>>

\* SendText and SendMedia, up to the answer of the WhatsApp server, which has
\* the message from then on.
Send(c, m) ==
    /\ CmdFree(c) /\ m \in LocalMsgs \ onServer
    /\ \/ Begin(c, Reply(FALSE)) /\ UNCHANGED onServer
       \/ /\ Begin(c, [CmdIdle EXCEPT !.pc = "put", !.m = m])
          /\ onServer' = onServer \cup {m}
    /\ UNCHANGED <<store, activeChat, ev, hist, dl, file, sock>>

\* Their PutMessage; its error is ignored.
StoreSent(c) ==
    /\ cmd[c].pc = "put"
    /\ LET m == cmd[c].m IN
       /\ \/ /\ messages' = InsertMessage(messages, m, SentRow(m))
             /\ chats' = UpdateChat(chats, ChatOf[m], Ts[m], Body[m])
          \/ StoreMayFail /\ UNCHANGED <<messages, chats>>
       /\ Begin(c, [Reply(TRUE) EXCEPT !.out = <<MessageFrame(m)>>])
    /\ UNCHANGED <<reactions, activeChat, ev, hist, dl, file, onServer, sock>>

\* SetActiveChat, under activeMu.
SetActiveChat(c, j) ==
    /\ CmdFree(c)
    /\ activeChat' = j
    /\ Begin(c, IF j = NoChat THEN Reply(TRUE)
                ELSE [CmdIdle EXCEPT !.pc = "clear", !.chat = j])
    /\ UNCHANGED <<store, ev, hist, dl, file, onServer, sock>>

\* MarkRead: the badge is cleared first; ok is the outcome of what follows, the
\* read receipts sent to the server.
MarkRead(c, j, ok) ==
    /\ CmdFree(c)
    /\ Begin(c, [CmdIdle EXCEPT !.pc = "clear", !.chat = j, !.ok = ok])
    /\ UNCHANGED <<store, activeChat, ev, hist, dl, file, onServer, sock>>

\* Mutant of ClearUnread: a failed statement ends the command without response.
ClearUnreadSilent(c) ==
    /\ cmd[c].pc = "clear"
    /\ LET j == cmd[c].chat IN
       \/ /\ chats' = ResetUnread(chats, j)
          /\ Begin(c, [Reply(cmd[c].ok) EXCEPT !.out = <<UnreadFrame(j, 0)>>])
       \/ StoreMayFail /\ Begin(c, CmdIdle) /\ UNCHANGED chats
    /\ UNCHANGED <<messages, reactions, activeChat, ev, hist, dl, file, onServer,
                   sock>>

\* clearUnread; it pushes nothing when the statement fails.
ClearUnread(c) ==
    /\ cmd[c].pc = "clear"
    /\ LET j == cmd[c].chat IN
       \/ /\ chats' = ResetUnread(chats, j)
          /\ Begin(c, [Reply(cmd[c].ok) EXCEPT !.out = <<UnreadFrame(j, 0)>>])
       \/ StoreMayFail /\ Begin(c, Reply(cmd[c].ok)) /\ UNCHANGED chats
    /\ UNCHANGED <<messages, reactions, activeChat, ev, hist, dl, file, onServer,
                   sock>>

\* DeleteMessage, EditMessage and SendReaction: the request to the server may
\* fail; then nothing is stored.
SendUpdate(c, pc, m, val) ==
    /\ CmdFree(c) /\ m \in onServer
    /\ \/ Begin(c, Reply(FALSE))
       \/ Begin(c, [CmdIdle EXCEPT !.pc = pc, !.m = m, !.val = val])
    /\ UNCHANGED <<store, activeChat, ev, hist, dl, file, onServer, sock>>

DeleteMessage(c, m)        == FromMe[m] /\ SendUpdate(c, "revoke", m, "")
EditMessage(c, m, text)    == FromMe[m] /\ SendUpdate(c, "edit", m, text)
SendReaction(c, m, emoji)  == SendUpdate(c, "react", m, emoji)

\* What they store once the server has accepted; errors are ignored.
StoreDeleted(c) ==
    /\ cmd[c].pc = "revoke"
    /\ messages' \in Attempt(messages, MarkRevoked(messages, cmd[c].m))
    /\ Begin(c, [Reply(TRUE) EXCEPT !.out = <<RevokedFrame(cmd[c].m)>>])
    /\ UNCHANGED <<chats, reactions, activeChat, ev, hist, dl, file, onServer,
                   sock>>

StoreEdited(c) ==
    /\ cmd[c].pc = "edit"
    /\ messages' \in
         Attempt(messages, UpdateText(messages, cmd[c].m, cmd[c].val))
    /\ Begin(c, [Reply(TRUE) EXCEPT
                   !.out = <<EditedFrame(cmd[c].m, cmd[c].val)>>])
    /\ UNCHANGED <<chats, reactions, activeChat, ev, hist, dl, file, onServer,
                   sock>>

StoreReaction(c) ==
    /\ cmd[c].pc = "react"
    /\ reactions' \in
         Attempt(reactions, PutReaction(reactions, cmd[c].m, Me, cmd[c].val))
    /\ Begin(c, [Reply(TRUE) EXCEPT
                   !.out = <<ReactionFrame(cmd[c].m, Me, cmd[c].val)>>])
    /\ UNCHANGED <<messages, chats, activeChat, ev, hist, dl, file, onServer,
                   sock>>

\* DownloadMedia: refused when the row has nothing to fetch.
DownloadMedia(c, m) ==
    /\ CmdFree(c)
    /\ \/ /\ CanDownload(messages, m)
          /\ StartDownload(m) /\ Begin(c, Reply(TRUE))
       \/ ~CanDownload(messages, m) /\ Begin(c, Reply(FALSE)) /\ UNCHANGED dl
    /\ UNCHANGED <<store, activeChat, ev, hist, file, onServer, sock>>

\* StarMessage, SetPinned and SetMuted report the outcome of their statement.
StarMessage(c, m, starred) ==
    /\ CmdFree(c)
    /\ \/ messages' = SetStarred(messages, m, starred) /\ Begin(c, Reply(TRUE))
       \/ StoreMayFail /\ UNCHANGED messages /\ Begin(c, Reply(FALSE))
    /\ UNCHANGED <<chats, reactions, activeChat, ev, hist, dl, file, onServer,
                   sock>>

SetChatFlag(c, new) ==
    /\ CmdFree(c)
    /\ \/ chats' = new /\ Begin(c, Reply(TRUE))
       \/ StoreMayFail /\ UNCHANGED chats /\ Begin(c, Reply(FALSE))
    /\ UNCHANGED <<messages, reactions, activeChat, ev, hist, dl, file, onServer,
                   sock>>

CommandEmit(c) ==
    /\ cmd[c].out # <<>>
    /\ Broadcast(Head(cmd[c].out))
    /\ cmd' = [cmd EXCEPT ![c].out = Tail(cmd[c].out)]
    /\ UNCHANGED <<store, activeChat, ev, hist, dl, file, onServer>>

CommandReply(c) ==
    /\ cmd[c].pc = "reply" /\ cmd[c].out = <<>>
    /\ Len(sock[c]) < SockCap
    /\ sock' = [sock EXCEPT ![c] = Append(sock[c], ResponseFrame(cmd[c].ok))]
    /\ Begin(c, CmdIdle)
    /\ UNCHANGED <<store, activeChat, ev, hist, dl, file, onServer>>

CommandArrives(c) ==
    \/ \E m \in Msgs :
        \/ "send" \in CommandKinds /\ Send(c, m)
        \/ "delete_message" \in CommandKinds /\ DeleteMessage(c, m)
        \/ "edit_message" \in CommandKinds
           /\ \E text \in Texts \ {""} : EditMessage(c, m, text)
        \/ "send_reaction" \in CommandKinds
           /\ \E emoji \in Emojis \cup {""} : SendReaction(c, m, emoji)
        \/ "download_media" \in CommandKinds /\ DownloadMedia(c, m)
        \/ "star_message" \in CommandKinds
           /\ \E starred \in BOOLEAN : StarMessage(c, m, starred)
    \/ "set_active_chat" \in CommandKinds
       /\ \E j \in Chats \cup {NoChat} : SetActiveChat(c, j)
    \/ \E j \in Chats :
        \/ "mark_read" \in CommandKinds /\ \E ok \in BOOLEAN : MarkRead(c, j, ok)
        \/ "set_pinned" \in CommandKinds
           /\ \E b \in BOOLEAN : SetChatFlag(c, SetPinned(chats, j, b))
        \/ "set_muted" \in CommandKinds
           /\ \E b \in BOOLEAN : SetChatFlag(c, SetMuted(chats, j, b))

CommandStep(c) ==
    \/ StoreSent(c) \/ ClearUnread(c) \/ StoreDeleted(c) \/ StoreEdited(c)
    \/ StoreReaction(c) \/ CommandEmit(c) \/ CommandReply(c)

-----------------------------------------------------------------------------
(* Background downloads: downloadMediaAsync.                               *)

\* Mutant of DownloadFetch: the path is recorded before the file is written.
DownloadFetchRecordsFirst(s) ==
    /\ dl[s].pc = "fetch"
    /\ \/ dl' = [dl EXCEPT ![s].pc = "record"]
       \/ dl' = [dl EXCEPT ![s] = DlIdle]
    /\ UNCHANGED <<store, activeChat, ev, hist, cmd, file, onServer, sock>>

\* Fetched and decrypted, the attachment is written over what the file held:
\* os.WriteFile truncates first.  The download may fail instead.
DownloadFetch(s) ==
    /\ dl[s].pc = "fetch"
    /\ \/ /\ dl' = [dl EXCEPT ![s].pc = "write"]
          /\ file' = [file EXCEPT ![dl[s].m] = s]
       \/ dl' = [dl EXCEPT ![s] = DlIdle] /\ UNCHANGED file
    /\ UNCHANGED <<store, activeChat, ev, hist, cmd, onServer, sock>>

\* The content is all there once the writer that truncated last is done.
DownloadWrite(s) ==
    /\ dl[s].pc = "write"
    /\ LET m == dl[s].m IN
       \/ /\ file' = IF file[m] = s THEN [file EXCEPT ![m] = "complete"] ELSE file
          /\ dl' = [dl EXCEPT ![s].pc = "record"]
       \/ /\ StoreMayFail
          /\ file' = IF file[m] = s THEN [file EXCEPT ![m] = "partial"] ELSE file
          /\ dl' = [dl EXCEPT ![s] = DlIdle]
    /\ UNCHANGED <<store, activeChat, ev, hist, cmd, onServer, sock>>

DownloadRecord(s) ==
    /\ dl[s].pc = "record"
    /\ messages' \in
         Attempt(messages, UpdateMediaPath(messages, dl[s].m, "cache"))
    /\ dl' = [dl EXCEPT ![s].pc = "publish"]
    /\ UNCHANGED <<chats, reactions, activeChat, ev, hist, cmd, file, onServer,
                   sock>>

DownloadPublish(s) ==
    /\ dl[s].pc = "publish"
    /\ Broadcast(MediaFrame(dl[s].m))
    /\ dl' = [dl EXCEPT ![s] = DlIdle]
    /\ UNCHANGED <<store, activeChat, ev, hist, cmd, file, onServer>>

DownloadStep(s) == \/ DownloadFetch(s) \/ DownloadWrite(s)
                   \/ DownloadRecord(s) \/ DownloadPublish(s)

-----------------------------------------------------------------------------
(* The environment.                                                        *)

ClientRead(c) ==
    /\ sock[c] # <<>>
    /\ sock' = [sock EXCEPT ![c] = Tail(sock[c])]
    /\ UNCHANGED <<store, activeChat, ev, hist, cmd, dl, file, onServer>>

\* The daemon stops, cleanly or not, and starts again (engine.New): the store
\* and the media directory remain, everything else is as in Init.
Restart ==
    /\ MayRestart
    /\ activeChat' = NoChat
    /\ ev' = EvIdle /\ hist' = HistIdle
    /\ cmd' = [c \in Clients |-> CmdIdle]
    /\ dl' = [s \in Slots |-> DlIdle]
    /\ file' = [m \in Msgs |-> IF file[m] \in Slots THEN "partial" ELSE file[m]]
    /\ sock' = [c \in Clients |-> <<>>]
    /\ UNCHANGED <<store, onServer>>

-----------------------------------------------------------------------------
HistoryArrives ==
    \E j \in Chats, batch \in SUBSET Msgs, named \in BOOLEAN :
        HistoryConversation(j, batch, named)

Next ==
    \/ EventArrives \/ EventStep
    \/ HistoryArrives \/ HistoryStep
    \/ \E c \in Clients : CommandArrives(c) \/ CommandStep(c) \/ ClientRead(c)
    \/ \E s \in Slots : DownloadStep(s)
    \/ Restart

Spec == Init /\ [][Next]_vars

\* Go schedules every runnable goroutine, and a goroutine waiting for the mutex
\* of a client's encoder gets it (sync.Mutex is starvation free), so a step that
\* is possible again and again is taken.  A GUI's event loop reads its socket.
\* Nothing says that events or commands arrive.
Fairness ==
    /\ SF_vars(EventStep)
    /\ SF_vars(HistoryPut \/ HistoryDone \/ HistoryEmit)
    /\ \A c \in Clients : SF_vars(CommandStep(c)) /\ WF_vars(ClientRead(c))
    /\ \A s \in Slots : SF_vars(DownloadStep(s))

FairSpec == Spec /\ Fairness

-----------------------------------------------------------------------------
(* Properties.                                                             *)

\* A stored message is never newer than its chat's summary, and its chat has
\* one: the chat list can show every conversation that has messages.  It rests
\* on PutMessages being one transaction and on updateChatSQL never going back,
\* whatever live, sent and history messages interleave (db.go:60-154).
SummaryCoversMessages ==
    \A m \in Msgs : messages[m] # NoRow =>
        /\ chats[ChatOf[m]] # NoRow
        /\ chats[ChatOf[m]].last_ts >= Ts[m]

\* Once read, a stored message stays read: no late "delivered" receipt, no
\* redelivery, no history sync and no restart takes it back (db.go:156-157).
ReadIsFinal ==
    [][\A m \in Msgs : messages[m] # NoRow /\ messages[m].status = "read"
          => messages'[m] # NoRow /\ messages'[m].status = "read"]_vars

\* A message deleted for everyone is never shown again with its content type:
\* not after a redelivery of the original, a history sync that holds it, or an
\* edit or download that was under way (db.go:60-66, 211-217).
RevokedIsFinal ==
    [][\A m \in Msgs : messages[m] # NoRow /\ messages[m].type = "revoked"
          => messages'[m] # NoRow /\ messages'[m].type = "revoked"]_vars

\* The database never points at a file of the media directory that does not
\* exist, in any interleaving of downloads, revokes and restarts: the path is
\* recorded after the file is written (engine.go:738-743).
RecordedMediaExists ==
    \A m \in Msgs : messages[m] # NoRow /\ messages[m].path = "cache"
        => file[m] # "none"

\* A client that hears of a change finds it in the store or the media directory:
\* when it answers a frame with list_messages it cannot get an older state than
\* the one announced, because every handler stores before it emits and no later
\* statement takes the change back (events.go:40-80, engine.go:567-586, 738-748).
\* It rests on ReadIsFinal and RevokedIsFinal.  Excepted are the deletion, the edit
\* and the receipts of a message whose row may come after them: one sent from
\* here, until its sender has come to its PutMessage, and an old one, until a
\* history sync has brought it.  A file that is announced may be being fetched
\* again.
RowComesFirst(m) == m \notin LocalMsgs \cup OldMsgs

Stored(f) ==
    LET row == messages[f.m] IN
    CASE f.ev = "message"         -> row # NoRow
      [] f.ev = "message_revoked" -> RowComesFirst(f.m)
                                       => row # NoRow /\ row.type = "revoked"
      [] f.ev = "message_edited"  -> RowComesFirst(f.m) => row # NoRow /\ row.edited
      [] f.ev = "message_status"  -> RowComesFirst(f.m)
                                       => /\ row # NoRow
                                          /\ row.status \in {f.status, "read"}
      [] f.ev = "message_media"   -> file[f.m] \in Slots \cup {"complete"}
      [] OTHER                    -> TRUE

InFlight == UNION {{sock[c][i] : i \in DOMAIN sock[c]} : c \in Clients}

AnnouncedIsStored == \A f \in InFlight : Stored(f)

\* While a chat is on screen, the increment that was decided before it was
\* opened is the only one that can still reach its counter: after the clear of
\* SetActiveChat the counter is at most one (engine.go:609-652).
AtMostOneStrayUnread ==
    \A j \in Chats :
        /\ activeChat = j /\ chats[j] # NoRow
        /\ \A c \in Clients : ~(cmd[c].pc = "clear" /\ cmd[c].chat = j)
        => chats[j].unread <= 1

\* Every command gets its response, although all goroutines share the clients'
\* sockets and statements may fail (server.go:115-222).
CommandsAnswered ==
    \A c \in Clients : cmd[c].pc # "idle"
        ~> \E i \in DOMAIN sock[c] : sock[c][i].ev = "response"

\* No goroutine but the downloads is at work.
EngineQuiet == ev = EvIdle /\ hist = HistIdle /\ \A c \in Clients : cmd[c] = CmdIdle
=============================================================================
