------------------------------ MODULE ChatList ------------------------------
(***************************************************************************)
(* The chat list (gui/src/chatlistmodel.cpp, with the requests of          *)
(* controller.cpp and ChatListPage.qml) and the muted chats of the         *)
(* notifier (notifier.cpp), fed by the daemon of Engine.                   *)
(*                                                                         *)
(* Two sources that nothing orders tell the list about a chat: the         *)
(* response to list_chats, which is as old as its SELECT, and the events.  *)
(***************************************************************************)
EXTENDS GuiLink

CONSTANT Contacts  \* chats whose name the contact store knows

\* ChatItem, without its place in the list, its pin and its avatar.
ListEntry == [named : BOOLEAN, ts : Nat, unread : Nat, muted : BOOLEAN]

ASSUME ListAssumption == Contacts \subseteq Chats /\ NoRow \notin ListEntry

VARIABLES
    rows,      \* rows[j]: j's entry in m_chats
    muted,     \* Notifier::m_muted
    skewed     \* <<j, field>>: what was said last of j's field was outdated

lvars == <<vars, linkVars, rows, muted, skewed>>

ChatsReq        == [method |-> "list_chats"]
ActiveReq(j)    == [method |-> "set_active_chat", chat |-> j]
ReadReq(j)      == [method |-> "mark_read", chat |-> j]
MuteReq(j, b)   == [method |-> "set_muted", chat |-> j, muted |-> b]

ChatsFrame(listed) == [ev |-> "chats", rows |-> listed]

\* The entry of a row of the chats table.
Entry(row) == [named |-> row.named, ts |-> row.last_ts, unread |-> row.unread,
               muted |-> row.muted]

Entries(t) == [j \in Chats |-> IF t[j] = NoRow THEN NoRow ELSE Entry(t[j])]

\* The GUI starts on an empty store, and asks for the list as Controller does
\* when it hears of a connection.
LInit ==
    /\ Init
    /\ up = TRUE /\ reqs = <<ChatsReq>> /\ query = NoQuery
    /\ acts = 0 /\ restarts = 0
    /\ rows = [j \in Chats |-> NoRow] /\ muted = {} /\ skewed = {}

-----------------------------------------------------------------------------
(* The GUI.                                                                *)

\* onChatsReceived of the model and of the notifier.
OnChats(listed) ==
    /\ rows' = listed
    /\ muted' = {j \in Chats : listed[j] # NoRow /\ listed[j].muted}
    /\ UNCHANGED reqs

\* onMessageReceived: upsert.
OnMessage(m) ==
    /\ rows' = [rows EXCEPT ![ChatOf[m]] =
                  [(IF @ = NoRow THEN Entry(FreshChat) ELSE @) EXCEPT !.ts = Ts[m]]]
    /\ UNCHANGED <<reqs, muted>>

\* onChatUnread, which knows only listed chats.
OnChatUnread(j, n) ==
    /\ rows' = IF rows[j] = NoRow THEN rows ELSE [rows EXCEPT ![j].unread = n]
    /\ UNCHANGED <<reqs, muted>>

\* Mutant of OnHistorySync: the list is not asked for again.
OnHistorySyncIgnored == UNCHANGED <<reqs, rows, muted>>

\* Controller::onEvent.
OnHistorySync == reqs' = Sent(<<ChatsReq>>) /\ UNCHANGED <<rows, muted>>

GuiRead ==
    \E f \in {sock[Gui][i] : i \in DOMAIN sock[Gui]} :
        /\ Reading(f)
        /\ CASE f.ev = "chats"        -> OnChats(f.rows)
             [] f.ev = "message"      -> OnMessage(f.m)
             [] f.ev = "chat_unread"  -> OnChatUnread(f.chat, f.unread)
             [] f.ev = "history_sync" -> OnHistorySync
             [] OTHER                 -> UNCHANGED <<reqs, rows, muted>>
        /\ UNCHANGED <<store, activeChat, ev, hist, cmd, dl, file, onServer, up,
                       query, acts, restarts, skewed>>

\* What the user does makes the GUI send commands: opening a conversation, leaving
\* it, the menu of a chat, the refresh button.
UserSends(cmds) ==
    /\ Act
    /\ reqs' = Sent(cmds)
    /\ UNCHANGED <<vars, up, query, restarts, rows, muted, skewed>>

\* When its messages have come, the incoming ones are marked as read, if there
\* are any (Conversation has the page).
OpenChat(j) ==
    /\ rows[j] # NoRow
    /\ \E marks \in BOOLEAN :
         /\ (\E m \in Msgs : ChatOf[m] = j /\ ~FromMe[m] /\ messages[m] # NoRow) => marks
         /\ UserSends(<<ActiveReq(j)>> \o IF marks THEN <<ReadReq(j)>> ELSE <<>>)

LeaveChat == UserSends(<<ActiveReq(NoChat)>>)

\* Mutant of ToggleMuted: the list is asked for before it changes.
ToggleMutedListsFirst(j) ==
    rows[j] # NoRow /\ UserSends(<<ChatsReq, MuteReq(j, ~rows[j].muted)>>)

ToggleMuted(j) ==
    rows[j] # NoRow /\ UserSends(<<MuteReq(j, ~rows[j].muted), ChatsReq>>)

Refresh == UserSends(<<ChatsReq>>)

User == \/ \E j \in Chats : OpenChat(j) \/ ToggleMuted(j)
        \/ LeaveChat \/ Refresh

-----------------------------------------------------------------------------
(* The daemon.                                                             *)

Fields == {"row", "ts", "unread", "muted"}

\* The fields of j in which a listing differs from the table; "row" is whether
\* the chat is there at all.
Differs(listed, t, j) ==
    IF listed[j] = NoRow \/ t[j] = NoRow
    THEN IF listed[j] = t[j] THEN {} ELSE Fields
    ELSE {fld \in Fields \ {"row"} : listed[j][fld] # Entry(t[j])[fld]}

\* What a frame says of which field; a badge says nothing to a list that was not
\* told of its chat.
Says(f) ==
    CASE f.ev = "message" /\ chats[ChatOf[f.m]] # NoRow ->
             {[key |-> <<ChatOf[f.m], "row">>, right |-> TRUE],
              [key |-> <<ChatOf[f.m], "ts">>,
               right |-> Ts[f.m] = chats[ChatOf[f.m]].last_ts]}
      [] f.ev = "chat_unread" /\ chats[f.chat] # NoRow ->
             {[key |-> <<f.chat, "unread">>,
               right |-> /\ f.unread = chats[f.chat].unread
                         /\ <<f.chat, "row">> \notin skewed]}
      [] OTHER -> {}

\* The engine's goroutines; only a ghost looks at what they write.
DaemonStep ==
    /\ \/ (EventArrives \/ HistoryArrives) /\ Act
       \/ (EventStep \/ HistoryStep \/ CommandStep(Gui)) /\ UNCHANGED acts
    /\ LET n    == Len(sock'[Gui])
           said == IF n > Len(sock[Gui]) THEN Says(sock'[Gui][n]) ELSE {} IN
       skewed' = (skewed \ {s.key : s \in said})
                     \cup {s.key : s \in {r \in said : ~r.right}}
    /\ UNCHANGED <<up, reqs, query, restarts, rows, muted>>

\* ListChats: the SELECT, ...
ListChats ==
    /\ Takes("list_chats")
    /\ query' = [pc |-> "names", rows |-> Entries(chats),
                 todo |-> {j \in Contacts : chats[j] # NoRow /\ ~chats[j].named}]
    /\ UNCHANGED <<vars, up, acts, restarts, rows, muted, skewed>>

\* ... the names it finds, each stored in a statement of its own, ...
ResolveName ==
    /\ query.pc = "names"
    /\ \E j \in query.todo :
         /\ chats' = SetChatName(chats, j)
         /\ query' = [query EXCEPT !.todo = @ \ {j}, !.rows[j].named = TRUE]
    /\ UNCHANGED <<messages, reactions, activeChat, ev, hist, cmd, dl, file, onServer,
                   sock, up, reqs, acts, restarts, rows, muted, skewed>>

\* ... and the response.
ListReply ==
    /\ query.pc = "names" /\ query.todo = {}
    /\ Respond(ChatsFrame(query.rows))
    /\ skewed' = UNION {{j} \X Differs(query.rows, chats, j) : j \in Chats}
    /\ UNCHANGED <<store, activeChat, ev, hist, cmd, dl, file, onServer, up, reqs,
                   acts, restarts, rows, muted>>

\* The other commands of this GUI are those of Engine.
Dispatch ==
    /\ \/ Takes("set_active_chat") /\ SetActiveChat(Gui, Head(reqs).chat)
       \/ /\ Takes("mark_read")
          /\ \E ok \in BOOLEAN : MarkRead(Gui, Head(reqs).chat, ok)
       \/ /\ Takes("set_muted")
          /\ SetChatFlag(Gui, SetMuted(chats, Head(reqs).chat, Head(reqs).muted))
    /\ UNCHANGED <<up, query, acts, restarts, rows, muted, skewed>>

-----------------------------------------------------------------------------
(* The connection.                                                         *)

Lost == LinkLost /\ UNCHANGED <<rows, muted, skewed>>

\* Controller asks for the list when the state arrives.
Connect ==
    /\ Reconnected
    /\ reqs' = <<ChatsReq>>
    /\ UNCHANGED <<vars, rows, muted, skewed>>

LNext ==
    \/ DaemonStep \/ ListChats \/ ResolveName \/ ListReply \/ Dispatch
    \/ GuiRead \/ User
    \/ Lost \/ Connect \/ (FrameLost /\ UNCHANGED <<rows, muted, skewed>>)

LSpec == LInit /\ [][LNext]_lvars

-----------------------------------------------------------------------------
(* Properties.                                                             *)

Idle == up /\ EngineQuiet /\ sock[Gui] = <<>> /\ reqs = <<>> /\ query = NoQuery

\* When nothing is under way the list has every chat of the store, with its
\* time, badge and flags, whatever events fell between a SELECT and its response,
\* and across restarts: every change is followed by an event or by a listing that
\* is younger.  Excepted is what was outdated when it was said for the last time
\* (chatlistmodel.cpp:76-154, controller.cpp:177-207, engine.go:623-652).
ListAgrees ==
    Idle => \A j \in Chats : {j} \X Differs(rows, chats, j) \subseteq skewed

\* Between the response to a user's mute and his next one, the notifier is silent
\* about the chats the store has muted and about no other: its set changes with
\* listings only, and the menu asks for one after the change, in order
\* (notifier.cpp:43-52, ChatListPage.qml:234-235).
NotifierAgrees ==
    /\ up /\ query = NoQuery /\ cmd[Gui] = CmdIdle
    /\ \A i \in DOMAIN reqs : reqs[i].method \notin {"list_chats", "set_muted"}
    /\ \A i \in DOMAIN sock[Gui] : sock[Gui][i].ev # "chats"
    => muted = {j \in Chats : chats[j] # NoRow /\ chats[j].muted}
=============================================================================
