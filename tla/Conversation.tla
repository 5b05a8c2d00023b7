---------------------------- MODULE Conversation ----------------------------
(***************************************************************************)
(* The open conversation: the message view (gui/src/messagemodel.cpp), the *)
(* navigation that opens and leaves it (gui/qml/Main.qml), and the daemon  *)
(* of Engine that feeds it.                                                *)
(*                                                                         *)
(* The view is built from two sources that nothing orders: the response to *)
(* list_messages, which is as old as its SELECT, and the events.           *)
(***************************************************************************)
EXTENDS GuiLink

CONSTANT MaxItems  \* bound on the entries of the view

ASSUME ViewAssumption == MaxItems \in Nat /\ IsFiniteSet(Msgs)

\* describeMessage and SendMedia give every message a text; only an image sent from
\* here may lack one, and has its file (events.go:345-392, engine.go:1008-1022).
ASSUME ContentAssumption ==
    \A m \in Msgs : Body[m] # "" \/ (m \in LocalMsgs /\ Kind[m] = "image")

VARIABLES
    page,      \* a conversation page is on the stack
    chat,      \* m_chatJid, and Controller::currentChatJid
    list,      \* m_messages, newest first
    gap,       \* since the chat was opened a command or a frame was lost, or
               \* one of its texts was not sent
    skewed     \* messages last announced or listed with an outdated content

viewVars == <<page, chat, list>>
ghosts   == <<gap, skewed>>
cvars    == <<vars, linkVars, viewVars, ghosts>>

-----------------------------------------------------------------------------
(* Commands and frames.                                                    *)

ListReq(j)        == [method |-> "list_messages", chat |-> j]
ActiveReq(j)      == [method |-> "set_active_chat", chat |-> j]

\* IpcClient::markRead asks for nothing without messages.
ReadReqs(j, ids) ==
    IF ids = {} THEN <<>> ELSE <<[method |-> "mark_read", chat |-> j, ids |-> ids]>>

SendReq(j, text)  == [method |-> "send_text", chat |-> j, text |-> text]
DeleteReq(m)      == [method |-> "delete_message", m |-> m]

ListFrame(j, rows) == [ev |-> "messages", chat |-> j, rows |-> rows]

\* MessageItem: what the view keeps of a row.
Item(m, row, reacts) == [m |-> m, row |-> [row EXCEPT !.raw = FALSE],
                         reacts |-> reacts, pending |-> FALSE]

NoReacts == [s \in Senders |-> ""]

\* The item of a message event: what the engine stored when it announced it.
Announced(m) ==
    Item(m, IF m \in LocalMsgs THEN SentRow(m) ELSE ReceivedRow(m), NoReacts)

Echo(text) ==
    [m |-> NoMsg, pending |-> TRUE, reacts |-> NoReacts,
     row |-> [type |-> "text", text |-> text, status |-> "sent", path |-> "",
              raw |-> FALSE, edited |-> FALSE, starred |-> FALSE]]

Renderable(i) == i.row.text # "" \/ i.row.path # "" \/ i.row.type = "revoked"

CInit ==
    /\ Init /\ LinkInit
    /\ page = FALSE /\ chat = NoChat /\ list = <<>>
    /\ gap = FALSE /\ skewed = {}

-----------------------------------------------------------------------------
(* The message view.                                                       *)

Shown(m) == {i \in DOMAIN list : list[i].m = m}

\* onMessageEdited, onMessageRevoked, onMessageMedia, onReaction and
\* onMessageStatus on the item they find.
Patched(i, f) ==
    CASE f.ev = "message_edited"  -> [i EXCEPT !.row.text = f.text, !.row.edited = TRUE]
      [] f.ev = "message_revoked" -> [i EXCEPT !.row.type = "revoked",
                                               !.row.text = "", !.row.path = ""]
      [] f.ev = "message_media"   -> [i EXCEPT !.row.path = "cache"]
      [] f.ev = "reaction"        -> [i EXCEPT !.reacts[f.sender] = f.emoji]
      [] f.ev = "message_status"  -> [i EXCEPT !.row.status = f.status]
      [] OTHER                    -> i

Echoes(text) == {i \in DOMAIN list : list[i].pending /\ list[i].row.text = text}

First(indices) == CHOOSE i \in indices : \A k \in indices : i <= k

\* Mutant of OnMessage: the message of any chat is shown.
OnMessageOfAnyChat(m) ==
    LET i == Announced(m)
        echoes == IF FromMe[m] THEN Echoes(i.row.text) ELSE {} IN
    IF echoes # {}
    THEN list' = [list EXCEPT ![First(echoes)] = i] /\ UNCHANGED reqs
    ELSE /\ list' = <<i>> \o list
         /\ reqs' = IF FromMe[m] THEN reqs ELSE Sent(ReadReqs(chat, {m}))

\* Mutant of OnMessage: an echo is kept beside its message.
OnMessageKeepsEcho(m) ==
    IF ChatOf[m] # chat \/ ~Renderable(Announced(m)) THEN UNCHANGED <<list, reqs>>
    ELSE /\ list' = <<Announced(m)>> \o list
         /\ reqs' = IF FromMe[m] THEN reqs ELSE Sent(ReadReqs(chat, {m}))

\* onMessageReceived: the copy of a text sent from here takes the place of an
\* echo, found by its text; anything else is put in front.
OnMessage(m) ==
    LET i == Announced(m)
        echoes == IF FromMe[m] THEN Echoes(i.row.text) ELSE {} IN
    IF ChatOf[m] # chat \/ ~Renderable(i) THEN UNCHANGED <<list, reqs>>
    ELSE IF echoes # {}
    THEN list' = [list EXCEPT ![First(echoes)] = i] /\ UNCHANGED reqs
    ELSE /\ list' = <<i>> \o list
         /\ reqs' = IF FromMe[m] THEN reqs ELSE Sent(ReadReqs(chat, {m}))

\* The positions of the rows to show, from the first to the last.
Rendered(rows) ==
    LET kept == {i \in DOMAIN rows : Renderable(rows[i])} IN
    {q \in [1..Cardinality(kept) -> kept] : \A i, k \in DOMAIN q : i < k => q[i] < q[k]}

\* onMessagesReceived: a response that has messages tells whose they are, an
\* empty one does not.
OnMessages(f) ==
    IF f.rows # <<>> /\ f.chat # chat THEN UNCHANGED <<list, reqs>>
    ELSE \E shown \in Rendered(f.rows) :
         /\ list' = [i \in DOMAIN shown |-> f.rows[shown[i]]]
         /\ reqs' = Sent(ReadReqs(chat, {m \in Msgs : /\ ~FromMe[m]
                            /\ \E i \in DOMAIN list' : list'[i].m = m}))

\* The handlers of the other events change the first item with the id,
\* onMessageStatus every one.
OnPatch(f) ==
    /\ LET found == IF Shown(f.m) = {} \/ f.ev = "message_status"
                    THEN Shown(f.m) ELSE {First(Shown(f.m))} IN
       list' = IF ChatOf[f.m] # chat THEN list
               ELSE [i \in DOMAIN list |-> IF i \in found THEN Patched(list[i], f)
                                           ELSE list[i]]
    /\ UNCHANGED reqs

GuiRead ==
    \E f \in {sock[Gui][i] : i \in DOMAIN sock[Gui]} :
        /\ Reading(f)
        /\ CASE f.ev = "message"  -> OnMessage(f.m)
             [] f.ev = "messages" -> OnMessages(f)
             [] "m" \in DOMAIN f /\ f.ev # "message" -> OnPatch(f)
             [] OTHER             -> UNCHANGED <<list, reqs>>
        /\ UNCHANGED <<store, activeChat, ev, hist, cmd, dl, file, onServer, up,
                       query, acts, restarts, page, chat, gap, skewed>>

-----------------------------------------------------------------------------
(* The user.                                                               *)

\* Mutant of OpenChat: the chat that is loaded already is not loaded again.
OpenChatKeepsLoaded(j) ==
    /\ ~(page /\ chat = j) /\ Act
    /\ page' = TRUE /\ chat' = j
    /\ reqs' = IF chat = j THEN Sent(<<ActiveReq(j)>>)
               ELSE Sent(<<ListReq(j), ActiveReq(j)>>)
    /\ gap' = ~up
    /\ UNCHANGED <<vars, up, query, restarts, list, skewed>>

\* Main.qml's showConversation; setChat keeps what is shown until the response.
OpenChat(j) ==
    /\ ~(page /\ chat = j) /\ Act
    /\ page' = TRUE /\ chat' = j
    /\ reqs' = Sent(<<ListReq(j), ActiveReq(j)>>)
    /\ gap' = ~up
    /\ UNCHANGED <<vars, up, query, restarts, list, skewed>>

\* Mutant of LeaveChat: the daemon is not told.
LeaveChatSilently ==
    /\ page /\ Act
    /\ page' = FALSE
    /\ gap' = (gap \/ ~up)
    /\ UNCHANGED <<vars, up, reqs, query, restarts, chat, list, skewed>>

\* Back, or the settings page; the view and its chat stay as they are.
LeaveChat ==
    /\ page /\ Act
    /\ page' = FALSE
    /\ reqs' = Sent(<<ActiveReq(NoChat)>>)
    /\ gap' = (gap \/ ~up)
    /\ UNCHANGED <<vars, up, query, restarts, chat, list, skewed>>

\* The texts of j on their way to the daemon.
SendsOf(j) == {i \in DOMAIN reqs : reqs[i].method = "send_text" /\ reqs[i].chat = j}

SendText(text) ==
    /\ page /\ Act
    /\ Cardinality(SendsOf(chat)) < Cardinality(LocalMsgs \ onServer)
    /\ reqs' = Sent(<<SendReq(chat, text)>>)
    /\ list' = <<Echo(text)>> \o list
    /\ UNCHANGED <<vars, up, query, restarts, page, chat, ghosts>>

DeleteShown(m) ==
    /\ page /\ Act
    /\ FromMe[m] /\ Shown(m) # {}
    /\ reqs' = Sent(<<DeleteReq(m)>>)
    /\ UNCHANGED <<vars, up, query, restarts, viewVars, ghosts>>

User == \/ \E j \in Chats : OpenChat(j)
        \/ LeaveChat
        \/ \E text \in Texts \ {""} : SendText(text)
        \/ \E m \in Msgs : DeleteShown(m)

-----------------------------------------------------------------------------
(* The daemon.                                                             *)

\* What a reader of the screen can tell of a row; a deleted message shows
\* nothing of its own.
Face(row) == IF row = NoRow THEN <<"none">>
             ELSE IF row.type = "revoked" THEN <<"revoked">>
             ELSE <<row.type, row.text, row.path, row.edited>>

\* A frame that says something else than the store when it is written.
Outdated(f) ==
    /\ "m" \in DOMAIN f /\ messages[f.m] # NoRow
    /\ LET said == IF f.ev = "message" THEN Announced(f.m)
                   ELSE Patched(Item(f.m, messages[f.m], NoReacts), f) IN
       Face(said.row) # Face(messages[f.m])

\* The engine's goroutines; only a ghost looks at what they write.
DaemonStep ==
    /\ (EventArrives /\ Len(list) < MaxItems) \/ EventStep \/ CommandStep(Gui)
       \/ \E s \in Slots : DownloadStep(s)
    /\ LET n     == Len(sock'[Gui])
           wrote == IF n > Len(sock[Gui]) THEN {sock'[Gui][n]} ELSE {} IN
       skewed' = skewed \cup {f.m : f \in {g \in wrote : Outdated(g)}}
    /\ UNCHANGED <<linkVars, viewVars, gap>>

\* ORDER BY ts DESC: messages of the same second come in any order.
NewestFirst(ms) ==
    {q \in [1..Cardinality(ms) -> ms] :
        /\ \A m \in ms : \E i \in DOMAIN q : q[i] = m
        /\ \A i, k \in DOMAIN q : i < k => Ts[q[i]] >= Ts[q[k]]}

\* ListMessages: the SELECT, ...
ListMessages ==
    /\ Takes("list_messages")
    /\ LET j == Head(reqs).chat IN
       \E newest \in NewestFirst({m \in Msgs : ChatOf[m] = j /\ messages[m] # NoRow}) :
          query' = [pc |-> "reactions", chat |-> j,
                    rows |-> [i \in DOMAIN newest |->
                                Item(newest[i], messages[newest[i]], NoReacts)]]
    /\ UNCHANGED <<vars, up, acts, restarts, viewVars, ghosts>>

\* ... then ReactionsForChat ...
ListReactions ==
    /\ query.pc = "reactions"
    /\ LET item(i) == query.rows[i] IN
       query' = [query EXCEPT !.pc = "reply",
                   !.rows = [i \in DOMAIN @ |->
                               [item(i) EXCEPT !.reacts = reactions[item(i).m]]]]
    /\ UNCHANGED <<vars, up, reqs, acts, restarts, viewVars, ghosts>>

\* The frames that goroutines have decided on and not written.
Decided ==
    {ev.out[i] : i \in DOMAIN ev.out} \cup {cmd[Gui].out[i] : i \in DOMAIN cmd[Gui].out}
    \cup {MediaFrame(dl[s].m) : s \in {t \in Slots : dl[t].pc = "publish"}}

\* What a reader of the listing will be told of m: its row, and that row with a frame
\* that is still to be written; without a row, the announcement, if it is to be written.
Told(rows, m) ==
    LET listed == {i \in DOMAIN rows : rows[i].m = m}
        late   == {f \in Decided : "m" \in DOMAIN f /\ f.m = m} IN
    IF listed = {} THEN {Announced(m).row : f \in {g \in late : g.ev = "message"}}
    ELSE {rows[i].row : i \in listed} \cup {Patched(rows[i], f).row : i \in listed, f \in late}

\* ... and the response, which is newer than the frames written before it.
ListReply ==
    /\ query.pc = "reply"
    /\ Respond(ListFrame(query.chat, query.rows))
    /\ skewed' = {m \in skewed : ChatOf[m] # query.chat} \cup
                 {m \in Msgs : /\ ChatOf[m] = query.chat /\ messages[m] # NoRow
                               /\ \A row \in Told(query.rows, m) :
                                     Face(row) # Face(messages[m])}
    /\ UNCHANGED <<store, activeChat, ev, hist, cmd, dl, file, onServer, up, reqs,
                   acts, restarts, viewVars, gap>>

\* The other commands of this GUI are those of Engine.
Dispatch ==
    /\ \/ Takes("set_active_chat") /\ SetActiveChat(Gui, Head(reqs).chat)
       \/ /\ Takes("mark_read")
          /\ \E ok \in BOOLEAN : MarkRead(Gui, Head(reqs).chat, ok)
       \/ /\ Takes("send_text")
          /\ \E m \in LocalMsgs : /\ ChatOf[m] = Head(reqs).chat
                                  /\ Body[m] = Head(reqs).text
                                  /\ Send(Gui, m)
       \/ Takes("delete_message") /\ DeleteMessage(Gui, Head(reqs).m)
    /\ gap' = (gap \/ /\ Head(reqs).method = "send_text"
                      /\ Head(reqs).chat = chat /\ cmd'[Gui] = Reply(FALSE))
    /\ UNCHANGED <<up, query, acts, restarts, viewVars, skewed>>

-----------------------------------------------------------------------------
(* The connection.                                                         *)

Lost ==
    /\ LinkLost
    /\ gap' = TRUE
    /\ UNCHANGED <<viewVars, skewed>>

\* onSocketConnected and what follows ask for the state and the chat list; the
\* open conversation is not loaded again and not made active again.
Connect ==
    /\ Reconnected
    /\ UNCHANGED <<vars, reqs, viewVars, ghosts>>

CNext ==
    \/ DaemonStep \/ ListMessages \/ ListReactions \/ ListReply \/ Dispatch
    \/ GuiRead \/ User
    \/ Lost \/ Connect \/ (FrameLost /\ UNCHANGED <<viewVars, ghosts>>)

CSpec == CInit /\ [][CNext]_cvars

-----------------------------------------------------------------------------
(* Properties.                                                             *)

Loading ==
    \/ query # NoQuery
    \/ \E i \in DOMAIN reqs : reqs[i].method = "list_messages"
    \/ \E i \in DOMAIN sock[Gui] : sock[Gui][i].ev = "messages"

Idle == /\ up /\ EngineQuiet /\ sock[Gui] = <<>> /\ reqs = <<>> /\ ~Loading
        /\ \A s \in Slots : dl[s] = DlIdle

\* Once the responses to all its requests have come, the view holds messages of
\* its own chat and no other, although setChat keeps the old ones and an empty
\* response does not say which chat it is about (messagemodel.cpp:139-142, 371).
ViewOfOneChat ==
    ~Loading /\ ~gap => \A i \in DOMAIN list : ~list[i].pending
                           => ChatOf[list[i].m] = chat

\* When nothing is under way the view shows every stored message of its chat, as
\* it is stored: no event falls between the ones ignored before the chat is
\* opened and the SELECT that answers it.  Excepted are the messages whose last
\* announcement or listing was outdated when it was written.
ViewAgrees ==
    Idle /\ ~gap => \A m \in Msgs \ skewed : ChatOf[m] = chat =>
        IF messages[m] = NoRow THEN Shown(m) = {}
        ELSE /\ Shown(m) # {}
             /\ Face(list[First(Shown(m))].row) = Face(messages[m])

\* A text shown as sent that has no message behind it is one whose command is on
\* its way or has failed: its echo is replaced by the copy the daemon announces,
\* whatever is loaded or arrives in between (messagemodel.cpp:152, 427-438).
Copies(text) == {m \in LocalMsgs : ChatOf[m] = chat /\ Body[m] = text}

OnTheWay(text) ==
    LET copies(s) == Cardinality({i \in DOMAIN s : s[i].ev = "message"
                                                 /\ s[i].m \in Copies(text)}) IN
    Cardinality({i \in SendsOf(chat) : reqs[i].text = text})
        + (IF cmd[Gui].pc = "put" /\ cmd[Gui].m \in Copies(text) THEN 1 ELSE 0)
        + copies(cmd[Gui].out) + copies(sock[Gui])

EchoesAccounted ==
    ~Loading /\ ~gap => \A text \in Texts : Cardinality(Echoes(text)) <= OnTheWay(text)

\* The daemon counts as on screen the conversation that was opened last, until
\* it is left; commands are neither reordered nor dropped while the connection
\* lasts (Main.qml:78, 122; engine.go:56).
ActiveChatFollows ==
    Idle /\ ~gap => activeChat = IF page THEN chat ELSE NoChat

-----------------------------------------------------------------------------
(* What the comments say and the code does not keep.                       *)

\* messagemodel.cpp:443: "The chat is open, so mark an incoming message as read
\* right away."
ReadWhileOpen ==
    [][(sock[Gui] # <<>> /\ Head(sock[Gui]).ev = "message" /\ GuiRead)
         => (reqs' # reqs => page)]_cvars
=============================================================================
