------------------------- MODULE ConversationProofs --------------------------
(***************************************************************************)
(* Proofs about Conversation, for any messages, chats, buffers and any     *)
(* number of acts and restarts.                                            *)
(***************************************************************************)
EXTENDS Conversation, TLAPS

-----------------------------------------------------------------------------
(* The commands that tell the daemon which conversation is on screen.      *)

Queue(q) == \E S : q \in Seq(S)

Actives(q) == {i \in 1..Len(q) : q[i].method = "set_active_chat"}

\* When the commands of q have been executed, the active chat is j; it is a now.
EndsAt(q, a, j) ==
    /\ \A i \in Actives(q) : (\A k \in Actives(q) : k <= i) => q[i].chat = j
    /\ Actives(q) = {} => a = j

LEMMA OtherAdded ==
    ASSUME NEW q, Queue(q), NEW e, e.method # "set_active_chat", NEW a, NEW j,
           EndsAt(q, a, j)
    PROVE  Queue(Append(q, e)) /\ EndsAt(Append(q, e), a, j)
<1>1. PICK S : q \in Seq(S)
  BY DEF Queue
<1>2. /\ Len(Append(q, e)) = Len(q) + 1 /\ Len(q) \in Nat
      /\ Append(q, e)[Len(q) + 1] = e
      /\ \A i \in 1..Len(q) : Append(q, e)[i] = q[i]
      /\ Append(q, e) \in Seq(S \cup {e})
  BY <1>1
<1>3. Actives(Append(q, e)) = Actives(q)
  BY <1>2 DEF Actives
<1>4. \A i \in Actives(q) : Append(q, e)[i] = q[i]
  BY <1>2 DEF Actives
<1> QED
  BY <1>2, <1>3, <1>4 DEF Queue, EndsAt

LEMMA ActiveAdded ==
    ASSUME NEW q, Queue(q), NEW a, NEW j
    PROVE  /\ Queue(Append(q, ActiveReq(j)))
           /\ EndsAt(Append(q, ActiveReq(j)), a, j)
<1> DEFINE e == ActiveReq(j)
<1>1. PICK S : q \in Seq(S)
  BY DEF Queue
<1>2. e.method = "set_active_chat" /\ e.chat = j
  BY DEF ActiveReq
<1> HIDE DEF e
<1>3. /\ Len(Append(q, e)) = Len(q) + 1 /\ Len(q) \in Nat
      /\ Append(q, e)[Len(q) + 1] = e
      /\ Append(q, e) \in Seq(S \cup {e})
  BY <1>1
<1>4. Len(q) + 1 \in Actives(Append(q, e))
  BY <1>2, <1>3 DEF Actives
<1>5. \A i \in Actives(Append(q, e)) :
         (\A k \in Actives(Append(q, e)) : k <= i) => i = Len(q) + 1
  BY <1>3, <1>4 DEF Actives
<1>6. EndsAt(Append(q, e), a, j)
  BY <1>2, <1>3, <1>4, <1>5 DEF EndsAt
<1>7. Queue(Append(q, e))
  BY <1>3 DEF Queue
<1> QED
  BY <1>6, <1>7 DEF e

LEMMA TailQueue == ASSUME NEW q, Queue(q), q # <<>> PROVE Queue(Tail(q))
<1>1. PICK S : q \in Seq(S)
  BY DEF Queue
<1>2. Tail(q) \in Seq(S)
  BY <1>1
<1> QED
  BY <1>2 DEF Queue

LEMMA FirstTaken ==
    ASSUME NEW q, Queue(q), q # <<>>, NEW a, NEW j, EndsAt(q, a, j)
    PROVE  /\ Head(q).method # "set_active_chat" => EndsAt(Tail(q), a, j)
           /\ Head(q).method = "set_active_chat" => EndsAt(Tail(q), Head(q).chat, j)
<1>1. PICK S : q \in Seq(S)
  BY DEF Queue
<1>2. /\ Len(q) \in Nat /\ 1 \in 1..Len(q) /\ Head(q) = q[1]
      /\ Len(Tail(q)) = Len(q) - 1 /\ Tail(q) \in Seq(S)
      /\ \A i \in 1..Len(Tail(q)) : i + 1 \in 1..Len(q) /\ Tail(q)[i] = q[i + 1]
  BY <1>1
<1>3. \A i \in Actives(Tail(q)) : i + 1 \in Actives(q) /\ Tail(q)[i] = q[i + 1]
  BY <1>2 DEF Actives
<1>4. \A k \in Actives(q) : k # 1 => k - 1 \in Actives(Tail(q))
  <2> SUFFICES ASSUME NEW k \in Actives(q), k # 1
               PROVE  k - 1 \in Actives(Tail(q))
    OBVIOUS
  <2>1. k \in 1..Len(q) /\ k - 1 \in 1..Len(Tail(q)) /\ (k - 1) + 1 = k
    BY <1>2 DEF Actives
  <2>2. Tail(q)[k - 1] = q[k]
    BY <1>2, <2>1
  <2> QED
    BY <2>1, <2>2 DEF Actives
<1>5. \A i \in Actives(Tail(q)) :
         (\A k \in Actives(Tail(q)) : k <= i) => Tail(q)[i].chat = j
  <2> SUFFICES ASSUME NEW i \in Actives(Tail(q)), \A k \in Actives(Tail(q)) : k <= i
               PROVE  Tail(q)[i].chat = j
    OBVIOUS
  <2>1. i + 1 \in Actives(q) /\ Tail(q)[i] = q[i + 1] /\ i \in Nat
    BY <1>2, <1>3 DEF Actives
  <2>2. \A k \in Actives(q) : k <= i + 1
    <3> SUFFICES ASSUME NEW k \in Actives(q), k # 1 PROVE k <= i + 1
      BY <2>1
    <3>1. k - 1 \in Actives(Tail(q)) /\ k \in Nat
      BY <1>2, <1>4 DEF Actives
    <3>2. k - 1 <= i
      BY <3>1
    <3> QED
      BY <2>1, <3>1, <3>2
  <2> QED
    BY <2>1, <2>2 DEF EndsAt
<1>7. ASSUME Head(q).method # "set_active_chat", Actives(Tail(q)) = {}
      PROVE  a = j
  <2>1. Actives(q) = {}
    BY <1>2, <1>4, <1>7 DEF Actives
  <2> QED
    BY <2>1 DEF EndsAt
<1>8. ASSUME Head(q).method = "set_active_chat", Actives(Tail(q)) = {}
      PROVE  Head(q).chat = j
  <2>1. 1 \in Actives(q) /\ \A k \in Actives(q) : k = 1
    BY <1>2, <1>4, <1>8 DEF Actives
  <2> QED
    BY <1>2, <2>1 DEF EndsAt
<1> QED
  BY <1>5, <1>7, <1>8 DEF EndsAt

-----------------------------------------------------------------------------
(* The active chat follows the screen.                                     *)

Screen == IF page THEN chat ELSE NoChat

\* Without a gap, the commands on their way lead the daemon to what is on screen;
\* a command is only dropped when there is no connection, and that is a gap.
ActiveInv ==
    /\ Queue(reqs)
    /\ up \/ gap
    /\ ~gap => EndsAt(reqs, activeChat, Screen)

LEMMA InitActive == CInit => ActiveInv
<1> SUFFICES ASSUME CInit PROVE ActiveInv
  OBVIOUS
<1>1. reqs = <<>> /\ up /\ activeChat = NoChat /\ ~page
  BY DEF CInit, LinkInit, Init
<1>2. Queue(<<>>)
  <2>1. <<>> \in Seq({})
    OBVIOUS
  <2> QED
    BY <2>1 DEF Queue
<1>3. Actives(<<>>) = {}
  BY DEF Actives
<1> QED
  BY <1>1, <1>2, <1>3 DEF ActiveInv, EndsAt, Screen

\* The engine's goroutines leave the active chat alone.
LEMMA DaemonActive == DaemonStep => UNCHANGED activeChat
<1>1. EventArrives => UNCHANGED activeChat
  BY DEF EventArrives, EventMessage, EventRevoke, EventEdit, EventReaction, EventReceipt
<1>2. EventStep => UNCHANGED activeChat
  BY DEF EventStep, EventAnnounced, EventIncrement, EventSelect, EventEmit
<1>3. CommandStep(Gui) => UNCHANGED activeChat
  BY DEF CommandStep, StoreSent, ClearUnread, StoreDeleted, StoreEdited,
         StoreReaction, CommandEmit, CommandReply
<1>4. \A s \in Slots : DownloadStep(s) => UNCHANGED activeChat
  BY DEF DownloadStep, DownloadFetch, DownloadWrite, DownloadRecord, DownloadPublish
<1> QED
  BY <1>1, <1>2, <1>3, <1>4 DEF DaemonStep

\* Commands after which the daemon still follows the screen.
OthersSent == Queue(reqs) => Queue(reqs') /\ \A a, j : EndsAt(reqs, a, j) => EndsAt(reqs', a, j)

LEMMA OtherSent ==
    ASSUME NEW e, e.method # "set_active_chat", reqs' = Sent(<<e>>)
    PROVE  OthersSent
<1> SUFFICES ASSUME Queue(reqs)
             PROVE  Queue(reqs') /\ \A a, j : EndsAt(reqs, a, j) => EndsAt(reqs', a, j)
  BY DEF OthersSent
<1>1. CASE ~up
  BY <1>1 DEF Sent
<1>2. CASE up
  <2>1. PICK S : reqs \in Seq(S)
    BY DEF Queue
  <2>2. reqs \o <<e>> = Append(reqs, e)
    BY <2>1
  <2>3. reqs' = Append(reqs, e)
    BY <1>2, <2>2 DEF Sent
  <2>4. Append(reqs, e) \in Seq(S \cup {e})
    BY <2>1
  <2>5. Queue(reqs')
    BY <2>3, <2>4 DEF Queue
  <2>6. \A a, j : EndsAt(reqs, a, j) => EndsAt(reqs', a, j)
    BY <2>3, OtherAdded
  <2> QED
    BY <2>5, <2>6
<1> QED
  BY <1>1, <1>2

\* markRead.
LEMMA ReadsSent ==
    ASSUME NEW j, NEW ids, reqs' = Sent(ReadReqs(j, ids))
    PROVE  OthersSent
<1>1. CASE ids = {}
  <2> SUFFICES ASSUME Queue(reqs) PROVE reqs' = reqs
    BY DEF OthersSent
  <2>1. PICK S : reqs \in Seq(S)
    BY DEF Queue
  <2> QED
    BY <1>1, <2>1 DEF Sent, ReadReqs
<1>2. CASE ids # {}
  <2> DEFINE e == [method |-> "mark_read", chat |-> j, ids |-> ids]
  <2>1. e.method # "set_active_chat"
    OBVIOUS
  <2>2. reqs' = Sent(<<e>>)
    BY <1>2 DEF ReadReqs
  <2> QED
    BY <2>1, <2>2, OtherSent
<1> QED
  BY <1>1, <1>2

\* A frame makes the GUI send a mark_read, if anything.
LEMMA ReadSends == GuiRead => OthersSent
<1> SUFFICES ASSUME GuiRead PROVE OthersSent
  OBVIOUS
<1>1. UNCHANGED reqs => OthersSent
  BY DEF OthersSent
<1>2. \A m : OnMessage(m) => OthersSent
  BY <1>1, ReadsSent DEF OnMessage
<1>3. \A f : OnMessages(f) => OthersSent
  BY <1>1, ReadsSent DEF OnMessages
<1>4. \A f : OnPatch(f) => OthersSent
  BY <1>1 DEF OnPatch
<1> QED
  BY <1>1, <1>2, <1>3, <1>4 DEF GuiRead

\* Opening a conversation, or leaving it.
LEMMA ScreenSent ==
    ASSUME Queue(reqs), up, NEW j,
           \/ reqs' = Sent(<<ActiveReq(j)>>)
           \/ reqs' = Sent(<<ListReq(j), ActiveReq(j)>>)
    PROVE  Queue(reqs') /\ \A a : EndsAt(reqs', a, j)
<1>1. PICK S : reqs \in Seq(S)
  BY DEF Queue
<1> DEFINE e == ActiveReq(j)
           l == ListReq(j)
<1> HIDE DEF e, l
<1>2. CASE reqs' = Sent(<<e>>)
  <2>1. reqs \o <<e>> = Append(reqs, e)
    BY <1>1
  <2>2. reqs' = Append(reqs, ActiveReq(j))
    BY <1>2, <2>1 DEF Sent, e
  <2> QED
    BY <2>2, ActiveAdded
<1>3. CASE reqs' = Sent(<<l, e>>)
  <2>1. reqs \o <<l, e>> = Append(Append(reqs, l), e)
    BY <1>1
  <2>2. Append(reqs, l) \in Seq(S \cup {l})
    BY <1>1
  <2>3. Queue(Append(reqs, l))
    BY <2>2 DEF Queue
  <2>4. reqs' = Append(Append(reqs, l), ActiveReq(j))
    BY <1>3, <2>1 DEF Sent, e
  <2> QED
    BY <2>3, <2>4, ActiveAdded
<1> QED
  BY <1>2, <1>3 DEF e, l

LEMMA UserActive == ActiveInv /\ User => ActiveInv'
<1> SUFFICES ASSUME ActiveInv, User PROVE ActiveInv'
  OBVIOUS
<1>0. UNCHANGED <<activeChat, up>>
  BY DEF User, OpenChat, LeaveChat, SendText, DeleteShown, vars
<1>1. ASSUME NEW j \in Chats, OpenChat(j) PROVE ActiveInv'
  <2>1. CASE ~up
    BY <1>0, <1>1, <2>1 DEF OpenChat, ActiveInv, Sent
  <2>2. CASE up
    <3>1. Queue(reqs') /\ EndsAt(reqs', activeChat, j)
      BY <1>1, <2>2, ScreenSent DEF OpenChat, ActiveInv
    <3>2. Screen' = j
      BY <1>1 DEF OpenChat, Screen
    <3> QED
      BY <1>0, <2>2, <3>1, <3>2 DEF ActiveInv
  <2> QED
    BY <2>1, <2>2
<1>2. ASSUME LeaveChat PROVE ActiveInv'
  <2>1. CASE ~up
    BY <1>0, <1>2, <2>1 DEF LeaveChat, ActiveInv, Sent
  <2>2. CASE up
    <3>1. Queue(reqs') /\ EndsAt(reqs', activeChat, NoChat)
      BY <1>2, <2>2, ScreenSent DEF LeaveChat, ActiveInv
    <3>2. Screen' = NoChat
      BY <1>2 DEF LeaveChat, Screen
    <3> QED
      BY <1>0, <2>2, <3>1, <3>2 DEF ActiveInv
  <2> QED
    BY <2>1, <2>2
<1>3. ASSUME NEW e, e.method # "set_active_chat", reqs' = Sent(<<e>>),
             UNCHANGED <<page, chat, gap>>
      PROVE  ActiveInv'
  <2>1. OthersSent
    BY <1>3, OtherSent
  <2> QED
    BY <1>0, <1>3, <2>1 DEF OthersSent, ActiveInv, Screen
<1>4. ASSUME NEW text, SendText(text) PROVE ActiveInv'
  <2>1. SendReq(chat, text).method # "set_active_chat"
    BY DEF SendReq
  <2> QED
    BY <1>3, <1>4, <2>1 DEF SendText, ghosts
<1>5. ASSUME NEW m, DeleteShown(m) PROVE ActiveInv'
  <2>1. DeleteReq(m).method # "set_active_chat"
    BY DEF DeleteReq
  <2> QED
    BY <1>3, <1>5, <2>1 DEF DeleteShown, viewVars, ghosts
<1> QED
  BY <1>1, <1>2, <1>4, <1>5 DEF User

\* The daemon executes the commands in order.
LEMMA DispatchActive == ActiveInv /\ Dispatch => ActiveInv'
<1> SUFFICES ASSUME ActiveInv, Dispatch PROVE ActiveInv'
  OBVIOUS
<1>0. /\ up' = up /\ (gap => gap') /\ Screen' = Screen
      /\ reqs # <<>> /\ reqs' = Tail(reqs) /\ Queue(reqs)
  BY DEF Dispatch, Takes, viewVars, Screen, ActiveInv
<1>1. CASE Head(reqs).method = "set_active_chat"
  <2>1. activeChat' = Head(reqs).chat
    BY <1>1 DEF Dispatch, Takes, SetActiveChat
  <2>2. EndsAt(reqs, activeChat, Screen) => EndsAt(reqs', activeChat', Screen')
    BY <1>0, <1>1, <2>1, FirstTaken
  <2> QED
    BY <1>0, <2>2, TailQueue DEF ActiveInv
<1>2. CASE Head(reqs).method # "set_active_chat"
  <2>1. activeChat' = activeChat
    BY <1>2 DEF Dispatch, Takes, MarkRead, Send, DeleteMessage, SendUpdate, store
  <2>2. EndsAt(reqs, activeChat, Screen) => EndsAt(reqs', activeChat', Screen')
    BY <1>0, <1>2, <2>1, FirstTaken
  <2> QED
    BY <1>0, <2>2, TailQueue DEF ActiveInv
<1> QED
  BY <1>1, <1>2

\* list_messages is a command like the others.
LEMMA ListActive ==
    ActiveInv /\ (ListMessages \/ ListReactions \/ ListReply) => ActiveInv'
<1>1. ASSUME ActiveInv, ListMessages PROVE ActiveInv'
  <2>0. /\ UNCHANGED <<up, gap, activeChat>> /\ Screen' = Screen
        /\ reqs # <<>> /\ reqs' = Tail(reqs) /\ Queue(reqs)
        /\ Head(reqs).method # "set_active_chat"
    BY <1>1 DEF ListMessages, Takes, viewVars, ghosts, vars, Screen, ActiveInv
  <2>1. EndsAt(reqs, activeChat, Screen) => EndsAt(reqs', activeChat, Screen)
    BY <2>0, FirstTaken
  <2> QED
    BY <1>1, <2>0, <2>1, TailQueue DEF ActiveInv
<1>2. ASSUME ActiveInv, ListReactions \/ ListReply PROVE ActiveInv'
  BY <1>2
     DEF ListReactions, ListReply, Respond, viewVars, ghosts, vars, Screen, ActiveInv
<1> QED
  BY <1>1, <1>2

LEMMA LinkActive ==
    ActiveInv /\ (Lost \/ Connect \/ (FrameLost /\ UNCHANGED <<viewVars, ghosts>>))
    => ActiveInv'
<1>1. ASSUME ActiveInv, Lost PROVE ActiveInv'
  <2>1. Queue(<<>>)
    <3>1. <<>> \in Seq({})
      OBVIOUS
    <3> QED
      BY <3>1 DEF Queue
  <2> QED
    BY <1>1, <2>1 DEF Lost, LinkLost, ActiveInv
<1>2. ASSUME ActiveInv, Connect PROVE ActiveInv'
  BY <1>2 DEF Connect, Reconnected, viewVars, ghosts, vars, Screen, ActiveInv
<1>3. ASSUME ActiveInv, FrameLost, UNCHANGED <<viewVars, ghosts>> PROVE ActiveInv'
  BY <1>3 DEF FrameLost, ClientRead, linkVars, viewVars, ghosts, store, Screen, ActiveInv
<1> QED
  BY <1>1, <1>2, <1>3

LEMMA ActiveKept == ActiveInv /\ [CNext]_cvars => ActiveInv'
<1>1. ActiveInv /\ DaemonStep => ActiveInv'
  BY DaemonActive DEF DaemonStep, linkVars, viewVars, Screen, ActiveInv
<1>2. ActiveInv /\ GuiRead => ActiveInv'
  <2> SUFFICES ASSUME ActiveInv, GuiRead PROVE ActiveInv'
    OBVIOUS
  <2>1. UNCHANGED <<activeChat, page, chat, gap, up>>
    BY DEF GuiRead
  <2> QED
    BY <2>1, ReadSends DEF OthersSent, Screen, ActiveInv
<1>3. ActiveInv /\ UNCHANGED cvars => ActiveInv'
  BY DEF cvars, vars, linkVars, viewVars, ghosts, Screen, ActiveInv
<1> QED
  BY <1>1, <1>2, <1>3, UserActive, DispatchActive, ListActive, LinkActive DEF CNext

\* When nothing is under way and no command was lost since it was opened, the
\* conversation on screen is the one the daemon does not count as unread, whatever
\* the user opened and left before.
THEOREM ActiveChatTheorem == CSpec => []ActiveChatFollows
<1>1. CInit => ActiveInv
  BY InitActive
<1>2. ActiveInv /\ [CNext]_cvars => ActiveInv'
  BY ActiveKept
<1>3. ActiveInv => ActiveChatFollows
  <2>1. reqs = <<>> => Actives(reqs) = {}
    BY DEF Actives
  <2> QED
    BY <2>1 DEF ActiveInv, ActiveChatFollows, Idle, EndsAt, Screen
<1> QED
  BY <1>1, <1>2, <1>3, PTL DEF CSpec
=============================================================================
