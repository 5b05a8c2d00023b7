------------------------------ MODULE Services ------------------------------
(***************************************************************************)
(* The engine's services that keep nothing in the store: what others may   *)
(* see of this account (read receipts, online and typing presence) and the *)
(* profile pictures, from the settings and the chat list of one GUI to the *)
(* WhatsApp server.                                                        *)
(*                                                                         *)
(* The privacy flags live in the daemon's memory and the settings in the   *)
(* GUI's file: nothing but set_privacy brings them together.  Pictures     *)
(* live in a directory and their paths in the list's rows, which every     *)
(* listing resets.  Responses that the GUI takes no notice of are left     *)
(* out, and so are frames for other parts of it.                           *)
(***************************************************************************)
EXTENDS Integers, Sequences, FiniteSets

CONSTANTS
    People,       \* the listed chats
    Fetchers,     \* bound on concurrent picture fetches
    SockCap,      \* frames that fit in the GUI's socket buffer
    MaxReqs,      \* bound on the commands on their way
    MaxActs,      \* bound on what the user and the network do
    MaxRestarts   \* bound on the daemon's restarts

ASSUME ServicesAssumption ==
    /\ IsFiniteSet(People)
    /\ SockCap \in Nat \ {0} /\ MaxReqs \in Nat /\ MaxActs \in Nat
    /\ MaxRestarts \in Nat
    /\ Fetchers \cap {"none", "partial", "complete"} = {}

VARIABLES
    \* the GUI
    up,          \* m_socket is connected
    prefs,       \* Settings: readReceipts and shareOnline
    typing,      \* typingActive
    rows,        \* whether a chat is listed, and with its picture
    pushed,      \* ghost: pushPrivacy has run since the connection was made
    \* the link
    reqs,        \* commands written and not read by handleConn
    sock,        \* frames written and not read by the GUI
    \* the daemon
    hidden,      \* hideReadReceipts and hideOnline
    ev,          \* what handleEvent has to do about the session's last event
    announcers,  \* goroutines on their way to SendPresence
    fetch,       \* fetch[s]: a goroutine of RequestAvatar
    picture,     \* picture[j]: j's file in the avatar directory
    \* WhatsApp (external)
    online,      \* the session is connected
    seen,        \* what others see of this account now
    receipts,    \* the read receipts that have left, as the commands they obey
    acts, restarts

gui    == <<up, prefs, typing, rows, pushed>>
daemon == <<hidden, ev, announcers, fetch, picture>>
world  == <<online, seen, receipts>>
bounds == <<acts, restarts>>
vars   == <<gui, reqs, sock, daemon, world, bounds>>

-----------------------------------------------------------------------------
(* Commands and frames.                                                    *)

StateReq         == [method |-> "get_state"]
ChatsReq         == [method |-> "list_chats"]
PrivacyReq(p)    == [method |-> "set_privacy", prefs |-> p]
AvatarReq(j)     == [method |-> "request_avatar", chat |-> j]
TypingReq(b)     == [method |-> "set_typing", composing |-> b]
\* The user's setting and pushed are of no use to the daemon; they tell what the
\* GUI knew when it asked.
ReadReq          == [method |-> "mark_read", wanted |-> prefs.receipts,
                     told |-> pushed]

StateFrame(b)    == [ev |-> "connection", online |-> b]
ChatsFrame       == [ev |-> "chats"]
AvatarFrame(j)   == [ev |-> "avatar", chat |-> j]

Idle          == [pc |-> "idle"]
NothingHidden == [receipts |-> FALSE, online |-> FALSE]
\* What the daemon has to hide for some settings.
Hiding(p)     == [receipts |-> ~p.receipts, online |-> ~p.online]
Unseen        == [online |-> FALSE, composing |-> FALSE]

\* The daemon has started and the GUI, which finds its settings in its file, has
\* connected: the snapshot is written and get_state is on its way.
Init ==
    /\ up = TRUE /\ typing = FALSE /\ pushed = FALSE
    /\ prefs \in [receipts : BOOLEAN, online : BOOLEAN]
    /\ rows = [j \in People |-> "absent"]
    /\ reqs = <<StateReq>> /\ sock = <<StateFrame(FALSE)>>
    /\ hidden = NothingHidden /\ ev = Idle /\ announcers = 0
    /\ fetch = [s \in Fetchers |-> Idle] /\ picture = [j \in People |-> "none"]
    /\ online = FALSE /\ seen = Unseen /\ receipts = {}
    /\ acts = 0 /\ restarts = 0

-----------------------------------------------------------------------------
(* The GUI.                                                                *)

\* IpcClient::send drops the command while there is no connection.
Sent(cmds) == IF up THEN reqs \o cmds ELSE reqs

Act == acts < MaxActs /\ acts' = acts + 1

\* A request for every listed chat, in the order of the list.
PictureRequests ==
    {s \in [1..Cardinality(People) -> {AvatarReq(j) : j \in People}] :
        \A j \in People : \E i \in DOMAIN s : s[i] = AvatarReq(j)}

\* Mutant of OnConnectionState: the settings are pushed when they change only.
OnConnectionStateNoPush(isOnline) ==
    reqs' = Sent(<<ChatsReq>>) /\ UNCHANGED pushed

\* Controller::onConnectionStateChanged, with the handler of Main.qml first.
OnConnectionState(isOnline) ==
    \/ /\ isOnline
       /\ reqs' = Sent(<<PrivacyReq(prefs), ChatsReq>>)
       /\ pushed' = TRUE
    \/ ~isOnline /\ reqs' = Sent(<<ChatsReq>>) /\ UNCHANGED pushed

\* Mutant of OnChats: pictures are requested for chats that were not listed.
OnChatsOnce ==
    /\ rows' = [j \in People |-> "plain"]
    /\ IF \E j \in People : rows[j] = "absent"
       THEN \E s \in PictureRequests : reqs' = Sent(s) ELSE UNCHANGED reqs

\* ChatListModel::onChatsReceived
OnChats ==
    /\ rows' = [j \in People |-> "plain"]
    /\ \E s \in PictureRequests : reqs' = Sent(s)

\* ChatListModel::onAvatar
OnAvatar(j) == rows' = [rows EXCEPT ![j] = IF @ = "absent" THEN @ ELSE "picture"]

GuiRead ==
    /\ up /\ sock # <<>> /\ Len(reqs) < MaxReqs
    /\ sock' = Tail(sock)
    /\ LET f == Head(sock) IN
       \/ f.ev = "connection" /\ OnConnectionState(f.online) /\ UNCHANGED rows
       \/ f.ev = "chats" /\ OnChats /\ UNCHANGED pushed
       \/ f.ev = "avatar" /\ OnAvatar(f.chat) /\ UNCHANGED <<reqs, pushed>>
    /\ UNCHANGED <<up, prefs, typing, daemon, world, bounds>>

\* Mutant of ChangeSetting: a setting is pushed, then stored.
ChangeSettingLate(field) ==
    /\ Act
    /\ prefs' = [prefs EXCEPT ![field] = ~@]
    /\ reqs' = Sent(<<PrivacyReq(prefs)>>)
    /\ pushed' = (pushed \/ up)
    /\ UNCHANGED <<up, typing, rows, sock, daemon, world, restarts>>

\* The settings page; a setting is stored, then pushed.
ChangeSetting(field) ==
    /\ Act
    /\ prefs' = [prefs EXCEPT ![field] = ~@]
    /\ reqs' = Sent(<<PrivacyReq(prefs')>>)
    /\ pushed' = (pushed \/ up)
    /\ UNCHANGED <<up, typing, rows, sock, daemon, world, restarts>>

\* startTyping and stopTyping of the conversation page.
Type(b) ==
    /\ Act
    /\ typing # b /\ typing' = b
    /\ reqs' = Sent(<<TypingReq(b)>>)
    /\ UNCHANGED <<up, prefs, rows, pushed, sock, daemon, world, restarts>>

\* The messages of a conversation are on screen; Conversation has the view.
ReadMessages ==
    /\ Act
    /\ reqs' = Sent(<<ReadReq>>)
    /\ UNCHANGED <<gui, sock, daemon, world, restarts>>

Refresh ==
    /\ Act
    /\ reqs' = Sent(<<ChatsReq>>)
    /\ UNCHANGED <<gui, sock, daemon, world, restarts>>

User == \/ \E field \in {"receipts", "online"} : ChangeSetting(field)
        \/ \E b \in BOOLEAN : Type(b)
        \/ ReadMessages \/ Refresh

-----------------------------------------------------------------------------
(* The WhatsApp session and its events.                                    *)

\* whatsmeow connects, and after an interruption connects again.
GoOnline ==
    /\ Act /\ ~online /\ ev = Idle
    /\ online' = TRUE
    /\ ev' = [pc |-> "connected"]
    /\ UNCHANGED <<gui, reqs, sock, hidden, announcers, fetch, picture, seen,
                   receipts, restarts>>

\* Others see nothing more of an account whose connection has ended.
GoOffline ==
    /\ Act /\ online /\ ev = Idle
    /\ online' = FALSE /\ seen' = Unseen
    /\ ev' = [pc |-> "emit", online |-> FALSE]
    /\ UNCHANGED <<gui, reqs, sock, hidden, announcers, fetch, picture, receipts,
                   restarts>>

\* handleEvent on Connected: the flag decides whether a goroutine is started.
HandleConnected ==
    /\ ev.pc = "connected"
    /\ announcers' = IF hidden.online THEN announcers ELSE announcers + 1
    /\ ev' = [pc |-> "emit", online |-> TRUE]
    /\ UNCHANGED <<gui, reqs, sock, hidden, fetch, picture, world, bounds>>

\* Engine.emit: a frame for the GUI, if there is one.
Emit(frame) ==
    \/ up /\ Len(sock) < SockCap /\ sock' = Append(sock, frame)
    \/ ~up /\ UNCHANGED sock

EmitState ==
    /\ ev.pc = "emit"
    /\ Emit(StateFrame(ev.online))
    /\ ev' = Idle
    /\ UNCHANGED <<gui, reqs, hidden, announcers, fetch, picture, world, bounds>>

\* That goroutine: the account is seen online from here on, if the session is
\* still there; an error is ignored.
SendPresence ==
    /\ announcers > 0 /\ announcers' = announcers - 1
    /\ seen' = [seen EXCEPT !.online = online]
    /\ UNCHANGED <<gui, reqs, sock, hidden, ev, fetch, picture, online, receipts,
                   bounds>>

Session == GoOnline \/ GoOffline \/ HandleConnected \/ EmitState \/ SendPresence

-----------------------------------------------------------------------------
(* The GUI's commands, in handleConn's loop.  A command is one step: only  *)
(* this loop writes the flags, and its other reads are of one file.        *)

Takes(method) == reqs # <<>> /\ Head(reqs).method = method /\ reqs' = Tail(reqs)

Answer(frame) == Len(sock) < SockCap /\ sock' = Append(sock, frame)

GetState ==
    /\ Takes("get_state")
    /\ Answer(StateFrame(online))
    /\ UNCHANGED <<gui, daemon, world, bounds>>

ListChats ==
    /\ Takes("list_chats")
    /\ Answer(ChatsFrame)
    /\ UNCHANGED <<gui, daemon, world, bounds>>

SetPrivacy ==
    /\ Takes("set_privacy")
    /\ hidden' = Hiding(Head(reqs).prefs)
    /\ UNCHANGED <<gui, sock, ev, announcers, fetch, picture, world, bounds>>

\* MarkRead after its clearUnread, for a chat that is not a group; the request to
\* the server may fail.
MarkRead ==
    /\ Takes("mark_read")
    /\ \/ ~hidden.receipts /\ online /\ receipts' = receipts \cup {Head(reqs)}
       \/ UNCHANGED receipts
    /\ UNCHANGED <<gui, sock, daemon, online, seen, bounds>>

\* Its request fails when the session is not there.
SetTyping ==
    /\ Takes("set_typing")
    /\ \/ /\ ~hidden.online /\ online
          /\ seen' = [seen EXCEPT !.composing = Head(reqs).composing]
       \/ (hidden.online \/ ~online) /\ UNCHANGED seen
    /\ UNCHANGED <<gui, sock, daemon, online, receipts, bounds>>

\* RequestAvatar: a file that exists is announced, whatever it holds; otherwise
\* a goroutine fetches it.
RequestAvatar ==
    /\ Takes("request_avatar")
    /\ LET j == Head(reqs).chat IN
       \/ picture[j] # "none" /\ Emit(AvatarFrame(j)) /\ UNCHANGED fetch
       \/ /\ picture[j] = "none"
          /\ \E s \in Fetchers : /\ fetch[s] = Idle
                                 /\ fetch' = [fetch EXCEPT ![s] =
                                                [pc |-> "fetch", chat |-> j]]
          /\ UNCHANGED sock
    /\ UNCHANGED <<gui, hidden, ev, announcers, picture, world, bounds>>

Command == \/ GetState \/ ListChats \/ SetPrivacy \/ MarkRead \/ SetTyping
           \/ RequestAvatar

-----------------------------------------------------------------------------
(* The goroutines of RequestAvatar.                                        *)

\* The picture has come: os.WriteFile truncates what is there.  Or it has not.
FetchPicture(s) ==
    /\ fetch[s].pc = "fetch"
    /\ \/ /\ fetch' = [fetch EXCEPT ![s].pc = "write"]
          /\ picture' = [picture EXCEPT ![fetch[s].chat] = s]
       \/ fetch' = [fetch EXCEPT ![s] = Idle] /\ UNCHANGED picture
    /\ UNCHANGED <<gui, reqs, sock, hidden, ev, announcers, world, bounds>>

\* The content is written by the goroutine that truncated last, or not all of it.
WritePicture(s) ==
    /\ fetch[s].pc = "write"
    /\ LET j == fetch[s].chat
           left(content) == IF picture[j] = s
                            THEN [picture EXCEPT ![j] = content] ELSE picture IN
       \/ picture' = left("complete") /\ fetch' = [fetch EXCEPT ![s].pc = "publish"]
       \/ picture' = left("partial")  /\ fetch' = [fetch EXCEPT ![s] = Idle]
    /\ UNCHANGED <<gui, reqs, sock, hidden, ev, announcers, world, bounds>>

PublishPicture(s) ==
    /\ fetch[s].pc = "publish"
    /\ Emit(AvatarFrame(fetch[s].chat))
    /\ fetch' = [fetch EXCEPT ![s] = Idle]
    /\ UNCHANGED <<gui, reqs, hidden, ev, announcers, picture, world, bounds>>

-----------------------------------------------------------------------------
(* The connection.                                                         *)

\* The daemon stops and starts again; flags and goroutines are gone.
Restart ==
    /\ restarts < MaxRestarts /\ restarts' = restarts + 1
    /\ up' = FALSE /\ pushed' = FALSE
    /\ reqs' = <<>> /\ sock' = <<>>
    /\ hidden' = NothingHidden /\ ev' = Idle /\ announcers' = 0
    /\ fetch' = [s \in Fetchers |-> Idle]
    /\ picture' = [j \in People |-> IF picture[j] \in Fetchers THEN "partial"
                                    ELSE picture[j]]
    /\ online' = FALSE /\ seen' = Unseen
    /\ UNCHANGED <<prefs, typing, rows, receipts, acts>>

\* handleConn registers the client and writes the snapshot; onSocketConnected
\* asks for the state.
Connect ==
    /\ ~up /\ up' = TRUE
    /\ sock' = <<StateFrame(online)>> /\ reqs' = <<StateReq>>
    /\ UNCHANGED <<prefs, typing, rows, pushed, daemon, world, bounds>>

Next ==
    \/ GuiRead \/ User \/ Session \/ Command
    \/ \E s \in Fetchers : FetchPicture(s) \/ WritePicture(s) \/ PublishPicture(s)
    \/ Restart \/ Connect

Spec == Init /\ [][Next]_vars

-----------------------------------------------------------------------------
(* Properties.                                                             *)

Quiet == /\ up /\ reqs = <<>> /\ sock = <<>> /\ ev = Idle /\ announcers = 0
         /\ \A s \in Fetchers : fetch[s] = Idle

\* Whenever the session is connected and nothing is under way the daemon hides
\* what the settings say: a setting changed while there was no connection, or
\* lost with a daemon, reaches the daemon all the same (Main.qml:94-114,
\* engine.go:60-62, 343-349).
FlagsAgree == Quiet /\ online => hidden = Hiding(prefs)

\* No read receipt leaves that the user did not want when the messages were read,
\* once the GUI has told this daemon of the settings: commands are handled in
\* order, and a restarted daemon is told before it is asked to mark what its
\* session delivers (engine.go:671-675).
ReceiptsRespected == \A r \in receipts : r.wanted \/ ~r.told

\* When nothing is under way the list shows every picture the directory has, and
\* no path without a file: a listing takes all the pictures off, and the answers
\* to its requests bring them back, whatever is being fetched meanwhile
\* (chatlistmodel.cpp:76-94, engine.go:420-443).
PicturesShown ==
    Quiet => \A j \in People :
        /\ picture[j] = "complete" /\ rows[j] # "absent" => rows[j] = "picture"
        /\ rows[j] = "picture" => picture[j] # "none"

-----------------------------------------------------------------------------
(* What the settings page says and the code does not keep.                 *)

\* SettingsPage.qml:60: the switch lets "others see when you are online or
\* typing", so they do not when it is off and the daemon knows.
HiddenIsUnseen ==
    Quiet /\ online /\ ~prefs.online /\ hidden.online => seen = Unseen
=============================================================================
