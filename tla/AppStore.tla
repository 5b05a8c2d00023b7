------------------------------ MODULE AppStore ------------------------------
(***************************************************************************)
(* The application store of the daemon (daemon/internal/store/db.go).      *)
(*                                                                         *)
(* Every SQL statement is a function from the value of a table to its next *)
(* value.  A table is a total function whose value NoRow stands for "no    *)
(* row with this primary key".  What never changes about a message once    *)
(* the network has assigned its id (chat, time, author, kind, first text)  *)
(* is a constant function of the id.                                       *)
(***************************************************************************)
EXTENDS Integers, Sequences, FiniteSets

CONSTANTS
    Msgs,      \* primary keys (chat_jid, id) of the messages table
    Chats,     \* primary keys of the chats table
    Senders,   \* people who can react to a message
    Texts,     \* message texts; "" is one of them
    Emojis,    \* reactions; "" (no reaction) is not one of them
    NoRow,     \* the absent row
    ChatOf,    \* the chat_jid of a message
    Ts,        \* its timestamp, in seconds
    FromMe,    \* whether this account wrote it
    Kind,      \* its type column when it is first stored
    Body       \* its text when it was sent

Kinds    == {"text", "image", "video"}
Statuses == {"", "sent", "delivered", "read"}
Paths    == {"", "cache", "local"}

\* A row of the messages table.  "image" stands for the kinds fetched on
\* arrival (image, sticker), "video" for those fetched on demand (video, audio,
\* document).  raw says whether raw_media is not NULL; path is "cache" for the
\* daemon's own media directory and "local" for a file the user sent.
MessageRow == [type : Kinds \cup {"revoked"}, text : Texts, status : Statuses,
               path : Paths, raw : BOOLEAN, edited : BOOLEAN,
               starred : BOOLEAN]

ChatRow == [named : BOOLEAN, last_ts : Nat, last_preview : Texts,
            unread : Nat, pinned : BOOLEAN, muted : BOOLEAN]

ASSUME StoreAssumption ==
    /\ ChatOf \in [Msgs -> Chats]
    /\ Ts \in [Msgs -> Nat]
    /\ FromMe \in [Msgs -> BOOLEAN]
    /\ Kind \in [Msgs -> Kinds]
    /\ Body \in [Msgs -> Texts]
    /\ "" \in Texts /\ "" \notin Emojis
    /\ NoRow \notin MessageRow /\ NoRow \notin ChatRow

MessagesTable  == [Msgs -> MessageRow \cup {NoRow}]
ChatsTable     == [Chats -> ChatRow \cup {NoRow}]
ReactionsTable == [Msgs -> [Senders -> Emojis \cup {""}]]

EmptyMessages  == [m \in Msgs |-> NoRow]
EmptyChats     == [j \in Chats |-> NoRow]
EmptyReactions == [m \in Msgs |-> [s \in Senders |-> ""]]

-----------------------------------------------------------------------------
(* Rows the engine hands to the store.                                     *)

\* Mutant of ReceivedRow: a status that the protocol does not have.
ReceivedRowNewStatus(m) ==
    [type |-> Kind[m], text |-> Body[m],
     status |-> IF FromMe[m] THEN "sent" ELSE "received",
     path |-> "", raw |-> Kind[m] # "text", edited |-> FALSE, starred |-> FALSE]

\* messageToIPC and webMsgToIPC: a live and a history message make the same row.
ReceivedRow(m) ==
    [type |-> Kind[m], text |-> Body[m],
     status |-> IF FromMe[m] THEN "sent" ELSE "",
     path |-> "", raw |-> Kind[m] # "text", edited |-> FALSE,
     starred |-> FALSE]

\* SendText and SendMedia: no stored protobuf; an image keeps the user's file.
SentRow(m) ==
    [type |-> Kind[m], text |-> Body[m], status |-> "sent",
     path |-> IF Kind[m] = "image" THEN "local" ELSE "", raw |-> FALSE,
     edited |-> FALSE, starred |-> FALSE]

-----------------------------------------------------------------------------
(* Statements on the messages table.                                       *)

\* Mutant of OnConflict: INSERT OR REPLACE.
OnConflictReplace(old, new) == new

\* insertMessageSQL: on a conflict only a missing raw_media is filled in.
OnConflict(old, new) ==
    IF old = NoRow THEN new ELSE [old EXCEPT !.raw = old.raw \/ new.raw]

InsertMessage(t, m, row) == [t EXCEPT ![m] = OnConflict(t[m], row)]

InsertBatch(t, batch) ==
    [m \in Msgs |-> IF m \in batch THEN OnConflict(t[m], ReceivedRow(m))
                    ELSE t[m]]

\* UPDATE messages SET ... WHERE chat_jid = ? AND id = ?
UpdateRow(t, m, new) == IF t[m] = NoRow THEN t ELSE [t EXCEPT ![m] = new]

\* Mutant of UpdateStatus: without AND status != 'read'.
UpdateStatusAlways(t, m, status) ==
    UpdateRow(t, m, [t[m] EXCEPT !.status = status])

UpdateStatus(t, m, status) ==
    IF t[m] # NoRow /\ t[m].status # "read"
    THEN [t EXCEPT ![m].status = status]
    ELSE t

MarkRevoked(t, m) ==
    UpdateRow(t, m, [t[m] EXCEPT !.type = "revoked", !.text = "", !.path = ""])

UpdateText(t, m, text) ==
    UpdateRow(t, m, [t[m] EXCEPT !.text = text, !.edited = TRUE])

UpdateMediaPath(t, m, path) == UpdateRow(t, m, [t[m] EXCEPT !.path = path])

SetStarred(t, m, starred) == UpdateRow(t, m, [t[m] EXCEPT !.starred = starred])

\* MediaInfo followed by the type switch of Engine.DownloadMedia.
CanDownload(t, m) ==
    t[m] # NoRow /\ t[m].raw /\ t[m].type \in {"image", "video"}

-----------------------------------------------------------------------------
(* Statements on the chats table.                                          *)

FreshChat == [named |-> FALSE, last_ts |-> 0, last_preview |-> "",
              unread |-> 0, pinned |-> FALSE, muted |-> FALSE]

ChatRowOf(t, j) == IF t[j] = NoRow THEN FreshChat ELSE t[j]

\* Mutant of UpdateChat: the last message stored wins, whatever its time.
UpdateChatAlways(t, j, ts, preview) ==
    [t EXCEPT ![j] = [ChatRowOf(t, j) EXCEPT !.last_ts = ts,
                                             !.last_preview = preview]]

\* updateChatSQL: a message at least as recent as the summary replaces it.
UpdateChat(t, j, ts, preview) ==
    LET old == ChatRowOf(t, j) IN
    [t EXCEPT ![j] = IF ts >= old.last_ts
                     THEN [old EXCEPT !.last_ts = ts, !.last_preview = preview]
                     ELSE old]

\* The updateChatSQL of every message of a batch, in one transaction: the last
\* one to win is one of the newest; which of several equally recent messages it
\* is depends on the order of the payload.
NewestOf(batch) == {m \in batch : \A k \in batch : Ts[k] <= Ts[m]}

SetChatName(t, j) == [t EXCEPT ![j] = [ChatRowOf(t, j) EXCEPT !.named = TRUE]]

UpdateChatRow(t, j, new) == IF t[j] = NoRow THEN t ELSE [t EXCEPT ![j] = new]

\* The UPDATE of IncrementUnread; its SELECT is UnreadOf, a later statement.
IncrementUnread(t, j) ==
    UpdateChatRow(t, j, [t[j] EXCEPT !.unread = t[j].unread + 1])

ResetUnread(t, j) == UpdateChatRow(t, j, [t[j] EXCEPT !.unread = 0])

SetPinned(t, j, pinned) == UpdateChatRow(t, j, [t[j] EXCEPT !.pinned = pinned])

SetMuted(t, j, muted) == UpdateChatRow(t, j, [t[j] EXCEPT !.muted = muted])

-----------------------------------------------------------------------------
(* Statements on the reactions table; the empty emoji deletes the row.     *)

PutReaction(t, m, sender, emoji) == [t EXCEPT ![m][sender] = emoji]
=============================================================================
