--------------------------- MODULE ChatListProofs ----------------------------
(***************************************************************************)
(* Proofs about ChatList, for any chats, messages, buffers and any number  *)
(* of acts and restarts.                                                   *)
(***************************************************************************)
EXTENDS ChatList, EngineProofs, Queues, SequenceTheorems

-----------------------------------------------------------------------------
(* The muted chats of a table or a listing.                                *)

MutedIn(t) == {j \in Chats : t[j] # NoRow /\ t[j].muted}

Listings == [Chats -> ListEntry \cup {NoRow}]

\* A row that is replaced by one with the same flag.
LEMMA RowReplaced ==
    ASSUME NEW t \in ChatsTable, NEW j \in Chats, NEW new \in ChatRow,
           new.muted <=> t[j] # NoRow /\ t[j].muted
    PROVE  MutedIn([t EXCEPT ![j] = new]) = MutedIn(t)
<1>1. new # NoRow
  BY StoreAssumption
<1>2. \A k \in Chats : [t EXCEPT ![j] = new][k] = IF k = j THEN new ELSE t[k]
  BY DEF ChatsTable
<1> HIDE DEF ChatsTable
<1> QED
  BY <1>1, <1>2 DEF MutedIn

\* The statements that leave the muted flag alone.
LEMMA MutedKept ==
    ASSUME NEW t \in ChatsTable, NEW j \in Chats
    PROVE  /\ MutedIn(IncrementUnread(t, j)) = MutedIn(t)
           /\ MutedIn(ResetUnread(t, j)) = MutedIn(t)
           /\ MutedIn(SetChatName(t, j)) = MutedIn(t)
           /\ \A ts \in Nat, text \in Texts : MutedIn(UpdateChat(t, j, ts, text)) = MutedIn(t)
<1> DEFINE old == ChatRowOf(t, j)
<1>1. t[j] # NoRow => t[j] \in ChatRow
  BY DEF ChatsTable
<1>2. old \in ChatRow /\ (old.muted <=> t[j] # NoRow /\ t[j].muted)
  BY <1>1, StoreAssumption DEF ChatRowOf, FreshChat, ChatRow
<1>3. ASSUME t[j] # NoRow, NEW n \in Nat
      PROVE  /\ [t[j] EXCEPT !.unread = n] \in ChatRow
             /\ [t[j] EXCEPT !.unread = n].muted = t[j].muted
  BY <1>1, <1>3 DEF ChatRow
<1>4. MutedIn(IncrementUnread(t, j)) = MutedIn(t)
  <2>1. t[j] # NoRow => t[j].unread + 1 \in Nat
    BY <1>1 DEF ChatRow
  <2> QED
    BY <1>3, <2>1, RowReplaced DEF IncrementUnread, UpdateChatRow
<1>5. MutedIn(ResetUnread(t, j)) = MutedIn(t)
  BY <1>3, RowReplaced DEF ResetUnread, UpdateChatRow
<1> HIDE DEF old
<1>6. MutedIn(SetChatName(t, j)) = MutedIn(t)
  <2>1. /\ [old EXCEPT !.named = TRUE] \in ChatRow
        /\ [old EXCEPT !.named = TRUE].muted = old.muted
    BY <1>2 DEF ChatRow
  <2> QED
    BY <1>2, <2>1, RowReplaced DEF SetChatName, old
<1>7. ASSUME NEW ts \in Nat, NEW text \in Texts
      PROVE  MutedIn(UpdateChat(t, j, ts, text)) = MutedIn(t)
  <2> DEFINE new == [old EXCEPT !.last_ts = ts, !.last_preview = text]
  <2>1. new \in ChatRow /\ new.muted = old.muted
    BY <1>2 DEF ChatRow
  <2>2. \/ UpdateChat(t, j, ts, text) = [t EXCEPT ![j] = new]
        \/ UpdateChat(t, j, ts, text) = [t EXCEPT ![j] = old]
    BY DEF UpdateChat, old
  <2> HIDE DEF new
  <2> QED
    BY <1>2, <2>1, <2>2, RowReplaced
<1> QED
  BY <1>4, <1>5, <1>6, <1>7

\* A listing has the entries of its table.
LEMMA EntriesTyped ==
    ASSUME NEW t \in ChatsTable
    PROVE  /\ Entries(t) \in Listings
           /\ \A j \in Chats : Entries(t)[j] = NoRow <=> t[j] = NoRow
           /\ MutedIn(Entries(t)) = MutedIn(t)
<1>1. ASSUME NEW j \in Chats, t[j] # NoRow
      PROVE  /\ Entry(t[j]) \in ListEntry /\ Entry(t[j]) # NoRow
             /\ Entry(t[j]).muted = t[j].muted
  <2>1. t[j] \in ChatRow
    BY <1>1 DEF ChatsTable
  <2>2. Entry(t[j]) \in ListEntry /\ Entry(t[j]).muted = t[j].muted
    BY <2>1 DEF ChatRow, Entry, ListEntry
  <2> QED
    BY <2>2, ListAssumption
<1>2. Entries(t) \in Listings
  BY <1>1 DEF Entries, Listings
<1>3. \A j \in Chats : Entries(t)[j] = IF t[j] = NoRow THEN NoRow ELSE Entry(t[j])
  BY DEF Entries
<1> QED
  BY <1>1, <1>2, <1>3 DEF MutedIn

-----------------------------------------------------------------------------
(* Where the listings on their way lead the notifier.                      *)

Lists(s) == {i \in 1..Len(s) : s[i].ev = "chats"}

\* When the frames of s have been read, the muted chats are M; they are now now.
EndsAt(s, now, M) ==
    /\ \A i \in Lists(s) : (\A k \in Lists(s) : k <= i) => MutedIn(s[i].rows) = M
    /\ Lists(s) = {} => now = M

LEMMA FrameAdded ==
    ASSUME NEW S, NEW s \in Seq(S), NEW f \in S, f.ev # "chats", NEW now, NEW M,
           EndsAt(s, now, M)
    PROVE  EndsAt(Append(s, f), now, M)
<1>1. /\ Len(Append(s, f)) = Len(s) + 1 /\ Len(s) \in Nat
      /\ Append(s, f)[Len(s) + 1] = f
      /\ \A i \in 1..Len(s) : Append(s, f)[i] = s[i]
  OBVIOUS
<1>2. Lists(Append(s, f)) = Lists(s)
  BY <1>1 DEF Lists
<1>3. \A i \in Lists(s) : Append(s, f)[i] = s[i]
  BY <1>1 DEF Lists
<1> QED
  BY <1>2, <1>3 DEF EndsAt

LEMMA ListingAdded ==
    ASSUME NEW S, NEW s \in Seq(S), NEW r, ChatsFrame(r) \in S, NEW now
    PROVE  EndsAt(Append(s, ChatsFrame(r)), now, MutedIn(r))
<1> DEFINE f == ChatsFrame(r)
<1>1. f.ev = "chats" /\ f.rows = r /\ f \in S
  BY DEF ChatsFrame
<1> HIDE DEF f
<1>2. /\ Len(Append(s, f)) = Len(s) + 1 /\ Len(s) \in Nat
      /\ Append(s, f)[Len(s) + 1] = f
  BY <1>1
<1>3. Len(s) + 1 \in Lists(Append(s, f))
  BY <1>1, <1>2 DEF Lists
<1>4. \A i \in Lists(Append(s, f)) :
         (\A k \in Lists(Append(s, f)) : k <= i) => i = Len(s) + 1
  BY <1>2, <1>3 DEF Lists
<1>5. EndsAt(Append(s, f), now, MutedIn(r))
  BY <1>1, <1>2, <1>3, <1>4 DEF EndsAt
<1> QED
  BY <1>5 DEF f

LEMMA FrameTaken ==
    ASSUME NEW S, NEW s \in Seq(S), s # <<>>, NEW now, NEW M, EndsAt(s, now, M)
    PROVE  /\ Head(s).ev # "chats" => EndsAt(Tail(s), now, M)
           /\ Head(s).ev = "chats" => EndsAt(Tail(s), MutedIn(Head(s).rows), M)
<1>2. /\ Len(s) \in Nat /\ 1 \in 1..Len(s) /\ Head(s) = s[1]
      /\ Len(Tail(s)) = Len(s) - 1 /\ Tail(s) \in Seq(S)
      /\ \A i \in 1..Len(Tail(s)) : i + 1 \in 1..Len(s) /\ Tail(s)[i] = s[i + 1]
  OBVIOUS
<1>3. \A i \in Lists(Tail(s)) : i + 1 \in Lists(s) /\ Tail(s)[i] = s[i + 1]
  BY <1>2 DEF Lists
<1>4. \A k \in Lists(s) : k # 1 => k - 1 \in Lists(Tail(s))
  <2> SUFFICES ASSUME NEW k \in Lists(s), k # 1
               PROVE  k - 1 \in Lists(Tail(s))
    OBVIOUS
  <2>1. k \in 1..Len(s) /\ k - 1 \in 1..Len(Tail(s)) /\ (k - 1) + 1 = k
    BY <1>2 DEF Lists
  <2>2. Tail(s)[k - 1] = s[k]
    BY <1>2, <2>1
  <2> QED
    BY <2>1, <2>2 DEF Lists
<1>5. \A i \in Lists(Tail(s)) :
         (\A k \in Lists(Tail(s)) : k <= i) => MutedIn(Tail(s)[i].rows) = M
  <2> SUFFICES ASSUME NEW i \in Lists(Tail(s)), \A k \in Lists(Tail(s)) : k <= i
               PROVE  MutedIn(Tail(s)[i].rows) = M
    OBVIOUS
  <2>1. i + 1 \in Lists(s) /\ Tail(s)[i] = s[i + 1] /\ i \in Nat
    BY <1>2, <1>3 DEF Lists
  <2>2. \A k \in Lists(s) : k <= i + 1
    <3> SUFFICES ASSUME NEW k \in Lists(s), k # 1 PROVE k <= i + 1
      BY <2>1
    <3>1. k - 1 \in Lists(Tail(s)) /\ k \in Nat
      BY <1>2, <1>4 DEF Lists
    <3>2. k - 1 <= i
      BY <3>1
    <3> QED
      BY <2>1, <3>1, <3>2
  <2> QED
    BY <2>1, <2>2 DEF EndsAt
<1>6. ASSUME Head(s).ev # "chats", Lists(Tail(s)) = {} PROVE now = M
  <2>1. Lists(s) = {}
    BY <1>2, <1>4, <1>6 DEF Lists
  <2> QED
    BY <2>1 DEF EndsAt
<1>7. ASSUME Head(s).ev = "chats", Lists(Tail(s)) = {}
      PROVE  MutedIn(Head(s).rows) = M
  <2>1. 1 \in Lists(s) /\ \A k \in Lists(s) : k = 1
    BY <1>2, <1>4, <1>7 DEF Lists
  <2> QED
    BY <1>2, <2>1 DEF EndsAt
<1> QED
  BY <1>5, <1>6, <1>7 DEF EndsAt

-----------------------------------------------------------------------------
(* The commands on their way.                                              *)

Commands ==
    {ChatsReq}
    \cup {ActiveReq(j) : j \in Chats \cup {NoChat}}
    \cup {ReadReq(j) : j \in Chats}
    \cup {MuteReq(j, b) : j \in Chats, b \in BOOLEAN}

Asked(q) == Has(q, {ChatsReq})

\* Whatever will be muted will be listed after that.
Relisted(q) ==
    \A i \in 1..Len(q) : q[i].method = "set_muted" =>
        \E k \in 1..Len(q) : k > i /\ q[k] = ChatsReq

\* A command other than set_muted is harmless behind any others.
LEMMA CommandAdded ==
    ASSUME NEW q \in Seq(Commands), NEW e \in Commands, e.method # "set_muted"
    PROVE  /\ Append(q, e) \in Seq(Commands)
           /\ Relisted(q) => Relisted(Append(q, e))
           /\ Asked(Append(q, e)) <=> Asked(q) \/ e = ChatsReq
<1>1. /\ Len(Append(q, e)) = Len(q) + 1 /\ Len(q) \in Nat
      /\ Append(q, e)[Len(q) + 1] = e
      /\ \A i \in 1..Len(q) : Append(q, e)[i] = q[i]
      /\ Append(q, e) \in Seq(Commands)
  OBVIOUS
<1>2. ASSUME Relisted(q) PROVE Relisted(Append(q, e))
  <2> SUFFICES ASSUME NEW i \in 1..(Len(q) + 1), Append(q, e)[i].method = "set_muted"
               PROVE  \E k \in 1..(Len(q) + 1) : k > i /\ Append(q, e)[k] = ChatsReq
    BY <1>1 DEF Relisted
  <2>1. i \in 1..Len(q) /\ q[i].method = "set_muted"
    BY <1>1
  <2>2. PICK k \in 1..Len(q) : k > i /\ q[k] = ChatsReq
    BY <1>2, <2>1 DEF Relisted
  <2>3. k \in 1..(Len(q) + 1) /\ Append(q, e)[k] = ChatsReq
    BY <1>1, <2>2
  <2> QED
    BY <2>2, <2>3
<1>3. Asked(Append(q, e)) <=> Asked(q) \/ e = ChatsReq
  BY HasAppended DEF Asked
<1> QED
  BY <1>1, <1>2, <1>3

\* A list_chats covers all that is before it.
LEMMA ListAsked ==
    ASSUME NEW q \in Seq(Commands)
    PROVE  /\ Append(q, ChatsReq) \in Seq(Commands)
           /\ Relisted(Append(q, ChatsReq)) /\ Asked(Append(q, ChatsReq))
<1> DEFINE e == ChatsReq
<1>0. e \in Commands /\ e.method # "set_muted"
  BY DEF Commands, ChatsReq
<1> HIDE DEF e
<1>1. /\ Len(Append(q, e)) = Len(q) + 1 /\ Len(q) \in Nat
      /\ Append(q, e)[Len(q) + 1] = e
      /\ Append(q, e) \in Seq(Commands)
  BY <1>0
<1>2. ASSUME NEW i \in 1..(Len(q) + 1), Append(q, e)[i].method = "set_muted"
      PROVE  \E k \in 1..(Len(q) + 1) : k > i /\ Append(q, e)[k] = e
  <2>1. Len(q) + 1 > i /\ Len(q) + 1 \in 1..(Len(q) + 1)
    BY <1>0, <1>1, <1>2
  <2> QED
    BY <1>1, <2>1
<1>3. Relisted(Append(q, e))
  BY <1>1, <1>2 DEF Relisted, e
<1>4. Asked(Append(q, e))
  BY <1>0, HasAppended DEF Asked, e
<1> QED
  BY <1>1, <1>3, <1>4 DEF e

LEMMA CommandTaken ==
    ASSUME NEW q \in Seq(Commands), q # <<>>, Relisted(q)
    PROVE  /\ Head(q) \in Commands /\ Tail(q) \in Seq(Commands) /\ Relisted(Tail(q))
           /\ Head(q).method = "set_muted" => Asked(Tail(q))
           /\ Head(q) # ChatsReq => (Asked(q) <=> Asked(Tail(q)))
<1>1. /\ Len(q) \in Nat /\ 1 \in 1..Len(q) /\ Head(q) = q[1] /\ Head(q) \in Commands
      /\ Len(Tail(q)) = Len(q) - 1 /\ Tail(q) \in Seq(Commands)
      /\ \A i \in 1..Len(Tail(q)) : i + 1 \in 1..Len(q) /\ Tail(q)[i] = q[i + 1]
  OBVIOUS
<1>2. \A k \in 1..Len(q) : k > 1 => k - 1 \in 1..Len(Tail(q)) /\ Tail(q)[k - 1] = q[k]
  <2> SUFFICES ASSUME NEW k \in 1..Len(q), k > 1
               PROVE  k - 1 \in 1..Len(Tail(q)) /\ Tail(q)[k - 1] = q[k]
    OBVIOUS
  <2>1. k - 1 \in 1..Len(Tail(q)) /\ (k - 1) + 1 = k
    BY <1>1
  <2> QED
    BY <1>1, <2>1
<1>3. Relisted(Tail(q))
  <2> SUFFICES ASSUME NEW i \in 1..Len(Tail(q)), Tail(q)[i].method = "set_muted"
               PROVE  \E k \in 1..Len(Tail(q)) : k > i /\ Tail(q)[k] = ChatsReq
    BY DEF Relisted
  <2>1. i + 1 \in 1..Len(q) /\ q[i + 1].method = "set_muted"
    BY <1>1
  <2>2. PICK k \in 1..Len(q) : k > i + 1 /\ q[k] = ChatsReq
    BY <2>1 DEF Relisted
  <2>3. k > 1 /\ k - 1 > i
    BY <2>2
  <2> QED
    BY <1>2, <2>2, <2>3
<1>4. ASSUME Head(q).method = "set_muted" PROVE Asked(Tail(q))
  <2>1. PICK k \in 1..Len(q) : k > 1 /\ q[k] = ChatsReq
    BY <1>1, <1>4 DEF Relisted
  <2> QED
    BY <1>2, <2>1 DEF Asked, Has
<1>5. Head(q) # ChatsReq => (Asked(q) <=> Asked(Tail(q)))
  BY HasTaken DEF Asked
<1> QED
  BY <1>1, <1>3, <1>4, <1>5

-----------------------------------------------------------------------------
(* The notifier is told what the store says.                               *)

\* A listing under way; the names it has still to find are those of its rows.
Queries ==
    {q \in [pc : {"names"}, rows : Listings, todo : SUBSET Chats] :
        \A j \in q.todo : q.rows[j] # NoRow}

GuiFrames == Frames \cup {ChatsFrame(r) : r \in Listings}

ListTyped ==
    /\ DaemonTyped /\ SocketsOf(GuiFrames)
    /\ query \in Queries \cup {NoQuery}
    /\ reqs \in Seq(Commands)

\* Unless a listing is asked for, the one under way, else the last one on its way,
\* else what the notifier has, is right.
Informed ==
    /\ Relisted(reqs)
    /\ ~Asked(reqs) =>
         IF query = NoQuery THEN EndsAt(sock[Gui], muted, MutedIn(chats))
                            ELSE MutedIn(query.rows) = MutedIn(chats)

NotifierInv == ListTyped /\ (up => Informed)

LEMMA GuiIsClient == Gui \in Clients
BY LinkAssumption

LEMMA QueryHasName == \A q \in Queries : q # NoQuery
BY DEF Queries, NoQuery

\* No frame of the engine is a listing.
LEMMA EngineFrames == Frames \subseteq GuiFrames /\ \A f \in Frames : f.ev # "chats"
BY DEF Frames, GuiFrames

LEMMA CommandForms ==
    /\ ChatsReq \in Commands
    /\ \A j \in Chats \cup {NoChat} : ActiveReq(j) \in Commands
    /\ \A j \in Chats : ReadReq(j) \in Commands
    /\ \A j \in Chats, b \in BOOLEAN : MuteReq(j, b) \in Commands
BY DEF Commands

LEMMA Methods ==
    /\ ChatsReq.method = "list_chats"
    /\ \A j : ActiveReq(j).method = "set_active_chat"
    /\ \A j : ReadReq(j).method = "mark_read"
    /\ \A j, b : MuteReq(j, b).method = "set_muted"
<1>1. ChatsReq.method = "list_chats"
  BY DEF ChatsReq
<1>2. ASSUME NEW j PROVE ActiveReq(j).method = "set_active_chat"
  BY DEF ActiveReq
<1>3. ASSUME NEW j PROVE ReadReq(j).method = "mark_read"
  BY DEF ReadReq
<1>4. ASSUME NEW j, NEW b PROVE MuteReq(j, b).method = "set_muted"
  BY DEF MuteReq
<1> QED
  BY <1>1, <1>2, <1>3, <1>4

LEMMA InitNotifier == LInit => NotifierInv
<1> SUFFICES ASSUME LInit PROVE NotifierInv
  OBVIOUS
<1>1. DaemonTyped /\ SocketsOf(GuiFrames)
  <2>1. DaemonTyped
    BY InitTyped, TypeParts DEF LInit
  <2>2. <<>> \in Seq(GuiFrames)
    OBVIOUS
  <2>3. SocketsOf(GuiFrames)
    BY <2>2 DEF LInit, Init, SocketsOf
  <2> QED
    BY <2>1, <2>3
<1>2. reqs = Append(<<>>, ChatsReq) /\ <<>> \in Seq(Commands)
  BY DEF LInit
<1>3. reqs \in Seq(Commands) /\ Relisted(reqs) /\ Asked(reqs)
  BY <1>2, ListAsked
<1> QED
  BY <1>1, <1>3 DEF LInit, NotifierInv, ListTyped, Informed

\* The goroutines of the engine touch no muted flag, and push their own frames.
LEMMA DaemonPlain ==
    ASSUME ListTyped, DaemonStep
    PROVE  MutedIn(chats') = MutedIn(chats)
<1>0. chats \in ChatsTable
  BY DEF ListTyped, DaemonTyped
<1>1. ASSUME NEW m \in Msgs
      PROVE  MutedIn(UpdateChat(chats, ChatOf[m], Ts[m], Body[m])) = MutedIn(chats)
  <2>1. ChatOf[m] \in Chats /\ Ts[m] \in Nat /\ Body[m] \in Texts
    BY StoreAssumption
  <2> QED
    BY <1>0, <2>1, MutedKept
<1>2. CASE EventArrives
  <2>1. \/ UNCHANGED chats
        \/ \E m \in Msgs : chats' = UpdateChat(chats, ChatOf[m], Ts[m], Body[m])
    BY <1>2 DEF EventArrives, EventMessage, EventRevoke, EventEdit, EventReaction,
                EventReceipt
  <2> QED
    BY <1>1, <2>1
<1>3. CASE HistoryArrives
  <2>1. UNCHANGED chats \/ \E j \in Chats : chats' = SetChatName(chats, j)
    BY <1>3 DEF HistoryArrives, HistoryConversation, Attempt
  <2> QED
    BY <1>0, <2>1, MutedKept
<1>4. CASE EventStep
  <2>1. CASE EventIncrement
    <3>1. ChatOf[ev.m] \in Chats
      BY <2>1, StoreAssumption DEF EventIncrement, ListTyped, DaemonTyped, EvState
    <3> QED
      BY <1>0, <2>1, <3>1, MutedKept DEF EventIncrement
  <2> QED
    BY <1>4, <2>1 DEF EventStep, EventAnnounced, EventSelect, EventEmit, store
<1>5. CASE HistoryStep
  <2>1. CASE HistoryPut
    <3>1. hist.chat \in Chats /\ hist.batch \subseteq Msgs
      BY <2>1 DEF HistoryPut, ListTyped, DaemonTyped, HistState
    <3>2. ASSUME NEW last \in NewestOf(hist.batch)
          PROVE  MutedIn(UpdateChat(chats, hist.chat, Ts[last], Body[last])) = MutedIn(chats)
      <4>1. Ts[last] \in Nat /\ Body[last] \in Texts
        BY <3>1, StoreAssumption DEF NewestOf
      <4> QED
        BY <1>0, <3>1, <4>1, MutedKept
    <3> QED
      BY <2>1, <3>2 DEF HistoryPut
  <2> QED
    BY <1>5, <2>1 DEF HistoryStep, HistoryDone, HistoryEmit, store
<1>6. CASE CommandStep(Gui)
  <2>0. cmd[Gui] \in CmdState
    BY GuiIsClient DEF ListTyped, DaemonTyped
  <2>1. CASE StoreSent(Gui)
    <3>1. cmd[Gui].m \in Msgs
      BY <2>0, <2>1 DEF StoreSent, CmdState
    <3> QED
      BY <1>1, <2>1, <3>1 DEF StoreSent
  <2>2. CASE ClearUnread(Gui)
    <3>1. cmd[Gui].chat \in Chats
      BY <2>0, <2>2 DEF ClearUnread, CmdState
    <3> QED
      BY <1>0, <2>2, <3>1, MutedKept DEF ClearUnread
  <2> QED
    BY <1>6, <2>1, <2>2 DEF CommandStep, StoreDeleted, StoreEdited, StoreReaction,
                            CommandEmit, CommandReply, store
<1> QED
  BY <1>2, <1>3, <1>4, <1>5, <1>6 DEF DaemonStep

LEMMA DaemonWrites ==
    ASSUME ListTyped, DaemonStep
    PROVE  \/ UNCHANGED sock
           \/ \E f \in Frames : sock'[Gui] = Append(sock[Gui], f)
<1>1. ASSUME NEW q \in Seq(Frames), q # <<>>, Broadcast(Head(q))
      PROVE  \E f \in Frames : sock'[Gui] = Append(sock[Gui], f)
  <2>1. Head(q) \in Frames
    BY <1>1, HeadTailTyped
  <2>2. sock'[Gui] = Append(sock[Gui], Head(q))
    BY <1>1, GuiIsClient DEF Broadcast
  <2> QED
    BY <2>1, <2>2
<1>2. CASE EventArrives \/ HistoryArrives
  BY <1>2 DEF EventArrives, EventMessage, EventRevoke, EventEdit, EventReaction, EventReceipt,
              HistoryArrives, HistoryConversation
<1>3. CASE EventStep
  <2>1. ev.out \in Seq(Frames)
    BY DEF ListTyped, DaemonTyped, EvState
  <2> QED
    BY <1>1, <1>3, <2>1
       DEF EventStep, EventAnnounced, EventIncrement, EventSelect, EventEmit
<1>4. CASE HistoryStep
  <2>1. hist.out \in Seq(Frames)
    BY DEF ListTyped, DaemonTyped, HistState
  <2> QED
    BY <1>1, <1>4, <2>1 DEF HistoryStep, HistoryPut, HistoryDone, HistoryEmit
<1>5. CASE CommandStep(Gui)
  <2>0. cmd[Gui] \in CmdState
    BY GuiIsClient DEF ListTyped, DaemonTyped
  <2>1. cmd[Gui].out \in Seq(Frames) /\ cmd[Gui].ok \in BOOLEAN
    BY <2>0 DEF CmdState
  <2>2. CASE CommandEmit(Gui)
    BY <1>1, <2>1, <2>2 DEF CommandEmit
  <2>3. CASE CommandReply(Gui)
    <3>1. ResponseFrame(cmd[Gui].ok) \in Frames
      BY <2>1, OtherFramesTyped
    <3>2. sock'[Gui] = Append(sock[Gui], ResponseFrame(cmd[Gui].ok))
      BY <2>3, GuiIsClient DEF CommandReply, ListTyped, SocketsOf
    <3> QED
      BY <3>1, <3>2
  <2> QED
    BY <1>5, <2>2, <2>3
       DEF CommandStep, StoreSent, ClearUnread, StoreDeleted, StoreEdited, StoreReaction
<1> QED
  BY <1>2, <1>3, <1>4, <1>5 DEF DaemonStep

LEMMA DaemonNotifier == NotifierInv /\ DaemonStep => NotifierInv'
<1> SUFFICES ASSUME NotifierInv, DaemonStep PROVE NotifierInv'
  OBVIOUS
<1>0. ListTyped
  BY DEF NotifierInv
<1>1. Next
  BY GuiIsClient DEF DaemonStep, Next
<1>2. DaemonTyped' /\ SocketsOf(GuiFrames)'
  BY <1>0, <1>1, DaemonKept, SocketsTyped, EngineFrames DEF ListTyped
<1>3. UNCHANGED <<up, reqs, query, muted>>
  BY DEF DaemonStep
<1>4. ListTyped'
  BY <1>0, <1>2, <1>3 DEF ListTyped
<1>5. MutedIn(chats') = MutedIn(chats)
  BY <1>0, DaemonPlain
<1>6. sock[Gui] \in Seq(GuiFrames)
  BY <1>0, GuiIsClient DEF ListTyped, SocketsOf
<1>7. EndsAt(sock[Gui], muted, MutedIn(chats))
      => EndsAt(sock'[Gui], muted, MutedIn(chats))
  BY <1>0, <1>6, DaemonWrites, EngineFrames, FrameAdded
<1> QED
  BY <1>3, <1>4, <1>5, <1>7 DEF NotifierInv, Informed

\* ListChats, its names, its response.
LEMMA ListNotifier ==
    NotifierInv /\ (ListChats \/ ResolveName \/ ListReply) => NotifierInv'
<1> SUFFICES ASSUME NotifierInv, ListChats \/ ResolveName \/ ListReply
             PROVE  NotifierInv'
  OBVIOUS
<1>0. /\ ListTyped /\ chats \in ChatsTable
      /\ query \in Queries \cup {NoQuery} /\ reqs \in Seq(Commands)
  BY DEF NotifierInv, ListTyped, DaemonTyped
<1>1. CASE ListChats
  <2>1. /\ HandlerFree /\ reqs # <<>> /\ reqs' = Tail(reqs)
        /\ UNCHANGED <<vars, up, muted>>
    BY <1>1 DEF ListChats, Takes
  <2>2. /\ query'.pc = "names" /\ query'.rows = Entries(chats)
        /\ query'.todo = {j \in Contacts : chats[j] # NoRow /\ ~chats[j].named}
        /\ query' \in [pc : {"names"}, rows : {query'.rows}, todo : {query'.todo}]
    BY <1>1 DEF ListChats
  <2>3. query' \in Queries
    BY <1>0, <2>2, EntriesTyped, ListAssumption DEF Queries
  <2>4. Tail(reqs) \in Seq(Commands) /\ (Relisted(reqs) => Relisted(Tail(reqs)))
    BY <1>0, <2>1, CommandTaken
  <2>5. DaemonTyped' /\ SocketsOf(GuiFrames)'
    BY <1>0, <2>1 DEF ListTyped, DaemonTyped, SocketsOf, vars
  <2>6. ListTyped'
    BY <2>1, <2>3, <2>4, <2>5 DEF ListTyped
  <2>7. MutedIn(query'.rows) = MutedIn(chats')
    BY <1>0, <2>1, <2>2, EntriesTyped DEF vars
  <2> QED
    BY <2>1, <2>3, <2>4, <2>6, <2>7, QueryHasName DEF NotifierInv, Informed
<1>2. CASE ResolveName
  <2>1. PICK j \in query.todo :
               /\ chats' = SetChatName(chats, j)
               /\ query' = [query EXCEPT !.todo = @ \ {j}, !.rows[j].named = TRUE]
    BY <1>2 DEF ResolveName
  <2>2. query \in Queries /\ query # NoQuery
    <3>1. query.pc = "names" /\ NoQuery.pc = "none"
      BY <1>2 DEF ResolveName, NoQuery
    <3> QED
      BY <1>0, <3>1
  <2>3. /\ query.rows \in Listings /\ j \in Chats /\ query.rows[j] # NoRow
        /\ query.todo \subseteq Chats /\ \A k \in query.todo : query.rows[k] # NoRow
    BY <2>1, <2>2 DEF Queries
  <2>4. query.rows[j] \in ListEntry
    BY <2>3 DEF Listings
  <2> DEFINE e == [query.rows[j] EXCEPT !.named = TRUE]
  <2>5. e \in ListEntry /\ e.muted = query.rows[j].muted
    BY <2>4 DEF ListEntry
  <2>6. e # NoRow
    BY <2>5, ListAssumption
  <2>7. query'.rows = [query.rows EXCEPT ![j] = e] /\ query'.todo = query.todo \ {j}
        /\ query' \in [pc : {"names"}, rows : {query'.rows}, todo : {query'.todo}]
    BY <2>1, <2>2 DEF Queries
  <2> HIDE DEF e
  <2>8. \A k \in Chats : query'.rows[k] = IF k = j THEN e ELSE query.rows[k]
    BY <2>3, <2>7 DEF Listings
  <2>9. query' \in Queries
    BY <2>3, <2>5, <2>6, <2>7, <2>8 DEF Queries, Listings
  <2>10. MutedIn(query'.rows) = MutedIn(query.rows)
    BY <2>3, <2>5, <2>6, <2>8 DEF MutedIn
  <2>11. MutedIn(chats') = MutedIn(chats) /\ chats' \in ChatsTable
    BY <1>0, <2>1, <2>3, MutedKept, ChatUpdatesTyped
  <2>12. UNCHANGED <<messages, reactions, activeChat, ev, hist, cmd, dl, file, onServer,
                     sock, up, reqs, muted>>
    BY <1>2 DEF ResolveName
  <2>13. ListTyped'
    BY <1>0, <2>9, <2>11, <2>12 DEF ListTyped, DaemonTyped, SocketsOf
  <2>14. query # NoQuery /\ query' # NoQuery
    BY <2>2, <2>9, QueryHasName
  <2> QED
    BY <2>10, <2>11, <2>12, <2>13, <2>14 DEF NotifierInv, Informed
<1>3. CASE ListReply
  <2>1. /\ sock' = [sock EXCEPT ![Gui] = Append(@, ChatsFrame(query.rows))]
        /\ query' = NoQuery /\ query # NoQuery
        /\ UNCHANGED <<store, activeChat, ev, hist, cmd, dl, file, onServer, up, reqs, muted>>
    BY <1>3 DEF ListReply, Respond, NoQuery
  <2>2. ChatsFrame(query.rows) \in GuiFrames
    BY <1>0, <2>1 DEF Queries, GuiFrames
  <2>3. /\ sock[Gui] \in Seq(GuiFrames)
        /\ sock'[Gui] = Append(sock[Gui], ChatsFrame(query.rows))
    BY <1>0, <2>1, GuiIsClient DEF ListTyped, SocketsOf
  <2>4. ListTyped'
    <3>1. SocketsOf(GuiFrames)'
      BY <1>0, <2>1, <2>2, GuiIsClient DEF ListTyped, SocketsOf
    <3> QED
      BY <1>0, <2>1, <3>1 DEF ListTyped, DaemonTyped, store
  <2>5. EndsAt(sock'[Gui], muted, MutedIn(query.rows))
    BY <2>2, <2>3, ListingAdded
  <2> QED
    BY <2>1, <2>4, <2>5 DEF NotifierInv, Informed, store
<1> QED
  BY <1>1, <1>2, <1>3

\* The other commands: set_muted has its list_chats behind it.
LEMMA DispatchNotifier == NotifierInv /\ Dispatch => NotifierInv'
<1> SUFFICES ASSUME NotifierInv, Dispatch PROVE NotifierInv'
  OBVIOUS
<1> DEFINE e == Head(reqs)
<1>0. /\ ListTyped /\ DaemonTyped /\ chats \in ChatsTable /\ reqs \in Seq(Commands)
  BY DEF NotifierInv, ListTyped, DaemonTyped
<1>1. /\ reqs # <<>> /\ reqs' = Tail(reqs) /\ query = NoQuery
      /\ e.method \in {"set_active_chat", "mark_read", "set_muted"}
      /\ UNCHANGED <<up, query, muted, sock>>
  BY DEF Dispatch, Takes, HandlerFree, SetActiveChat, MarkRead, SetChatFlag
<1>2. e \in Commands /\ e # ChatsReq
  BY <1>0, <1>1, Methods
<1>3. /\ Tail(reqs) \in Seq(Commands)
      /\ Relisted(reqs) => /\ Relisted(Tail(reqs))
                           /\ e.method = "set_muted" => Asked(Tail(reqs))
                           /\ Asked(reqs) <=> Asked(Tail(reqs))
  BY <1>0, <1>1, <1>2, CommandTaken
<1>4. /\ e.method = "set_active_chat" => e.chat \in Chats \cup {NoChat}
      /\ e.method = "mark_read" => e.chat \in Chats
      /\ e.method = "set_muted" => e.chat \in Chats /\ e.muted \in BOOLEAN
  BY <1>2 DEF Commands, ChatsReq, ActiveReq, ReadReq, MuteReq
<1>5. \/ e.method = "set_active_chat" /\ SetActiveChat(Gui, e.chat)
      \/ e.method = "mark_read" /\ \E ok \in BOOLEAN : MarkRead(Gui, e.chat, ok)
      \/ /\ e.method = "set_muted"
         /\ SetChatFlag(Gui, SetMuted(chats, e.chat, e.muted))
  BY DEF Dispatch, Takes
<1> HIDE DEF e
<1>6. DaemonTyped'
  BY <1>0, <1>4, <1>5, GuiIsClient, ChatCommandsTyped
<1>7. ListTyped'
  BY <1>0, <1>1, <1>3, <1>6 DEF ListTyped, SocketsOf
<1>8. CASE e.method = "set_muted"
  BY <1>1, <1>3, <1>7, <1>8 DEF NotifierInv, Informed
<1>9. CASE e.method # "set_muted"
  <2>1. UNCHANGED chats
    BY <1>5, <1>9 DEF SetActiveChat, MarkRead, store
  <2> QED
    BY <1>1, <1>3, <1>7, <2>1 DEF NotifierInv, Informed
<1> QED
  BY <1>8, <1>9

\* The notifier takes what a listing says; a history sync makes the GUI ask.
LEMMA ReadNotifier == NotifierInv /\ GuiRead => NotifierInv'
<1> SUFFICES ASSUME NotifierInv, GuiRead PROVE NotifierInv'
  OBVIOUS
<1> DEFINE f == Head(sock[Gui])
<1>0. ListTyped /\ reqs \in Seq(Commands) /\ sock[Gui] \in Seq(GuiFrames)
  BY GuiIsClient DEF NotifierInv, ListTyped, SocketsOf
<1>1. /\ up /\ sock[Gui] # <<>> /\ sock' = [sock EXCEPT ![Gui] = Tail(@)]
      /\ UNCHANGED <<store, activeChat, ev, hist, cmd, dl, file, onServer, up, query>>
  BY DEF GuiRead, Reading
<1>2. \/ f.ev = "chats" /\ OnChats(f.rows)
      \/ f.ev # "chats" /\ reqs' = Append(reqs, ChatsReq) /\ UNCHANGED muted
      \/ f.ev # "chats" /\ UNCHANGED <<reqs, muted>>
  <2>1. CASE f.ev = "chats"
    BY <2>1 DEF GuiRead, Reading
  <2>2. CASE f.ev = "message"
    BY <2>2 DEF GuiRead, Reading, OnMessage
  <2>3. CASE f.ev = "chat_unread"
    BY <2>3 DEF GuiRead, Reading, OnChatUnread
  <2>4. CASE f.ev = "history_sync"
    <3>1. OnHistorySync
      BY <2>4 DEF GuiRead, Reading
    <3>2. reqs \o <<ChatsReq>> = Append(reqs, ChatsReq)
      BY <1>0, CommandForms
    <3> QED
      BY <1>1, <2>4, <3>1, <3>2 DEF OnHistorySync, Sent
  <2>5. CASE f.ev \notin {"chats", "message", "chat_unread", "history_sync"}
    BY <2>5 DEF GuiRead, Reading
  <2> QED
    BY <2>1, <2>2, <2>3, <2>4, <2>5
<1> HIDE DEF f
<1>3. DaemonTyped' /\ SocketsOf(GuiFrames)'
  BY <1>0, <1>1, GuiIsClient DEF ListTyped, DaemonTyped, SocketsOf, store
<1>4. sock'[Gui] = Tail(sock[Gui])
  BY <1>0, <1>1, GuiIsClient DEF ListTyped, SocketsOf
<1>5. UNCHANGED <<chats, query>>
  BY <1>1 DEF store
<1>6. CASE f.ev = "chats"
  <2>1. UNCHANGED reqs /\ muted' = MutedIn(f.rows)
    BY <1>2, <1>6 DEF OnChats, MutedIn
  <2>2. EndsAt(sock[Gui], muted, MutedIn(chats))
        => EndsAt(sock'[Gui], muted', MutedIn(chats))
    BY <1>0, <1>1, <1>4, <1>6, <2>1, FrameTaken DEF f
  <2> QED
    BY <1>0, <1>1, <1>3, <1>5, <2>1, <2>2 DEF NotifierInv, ListTyped, Informed
<1>7. CASE f.ev # "chats" /\ reqs' = Append(reqs, ChatsReq)
  <2>1. reqs' \in Seq(Commands) /\ Relisted(reqs') /\ Asked(reqs')
    BY <1>0, <1>7, ListAsked
  <2> QED
    BY <1>0, <1>3, <1>5, <2>1 DEF NotifierInv, ListTyped, Informed
<1>8. CASE f.ev # "chats" /\ UNCHANGED <<reqs, muted>>
  <2>1. EndsAt(sock[Gui], muted, MutedIn(chats))
        => EndsAt(sock'[Gui], muted, MutedIn(chats))
    BY <1>0, <1>1, <1>4, <1>8, FrameTaken DEF f
  <2> QED
    BY <1>0, <1>1, <1>3, <1>5, <1>8, <2>1 DEF NotifierInv, ListTyped, Informed
<1> QED
  BY <1>2, <1>6, <1>7, <1>8

\* What the user does: a mute is followed by a list_chats, the other commands neither
\* mute nor list.
LEMMA UserNotifier == NotifierInv /\ User => NotifierInv'
<1> SUFFICES ASSUME NotifierInv, User PROVE NotifierInv'
  OBVIOUS
<1>0. /\ ListTyped /\ reqs \in Seq(Commands)
      /\ UNCHANGED <<vars, up, query, muted>>
  BY DEF NotifierInv, ListTyped, User, OpenChat, LeaveChat, ToggleMuted, Refresh, UserSends
<1>1. ASSUME reqs' \in Seq(Commands),
             up => /\ Relisted(reqs) => Relisted(reqs')
                   /\ Asked(reqs) => Asked(reqs')
      PROVE  NotifierInv'
  BY <1>0, <1>1 DEF NotifierInv, ListTyped, DaemonTyped, SocketsOf, Informed, vars
<1>2. CASE UNCHANGED reqs
  BY <1>0, <1>1, <1>2
<1>3. CASE \E e \in Commands : /\ e.method # "set_muted"
                               /\ reqs' = Append(reqs, e)
  BY <1>0, <1>1, <1>3, CommandAdded
<1>4. CASE \E e, f \in Commands : /\ e.method # "set_muted" /\ f.method # "set_muted"
                                  /\ reqs' = Append(Append(reqs, e), f)
  <2>1. PICK e, f \in Commands : /\ e.method # "set_muted" /\ f.method # "set_muted"
                                 /\ reqs' = Append(Append(reqs, e), f)
    BY <1>4
  <2>2. /\ Append(reqs, e) \in Seq(Commands)
        /\ Relisted(reqs) => Relisted(Append(reqs, e))
        /\ Asked(reqs) => Asked(Append(reqs, e))
    BY <1>0, <2>1, CommandAdded
  <2>3. /\ reqs' \in Seq(Commands)
        /\ Relisted(Append(reqs, e)) => Relisted(reqs')
        /\ Asked(Append(reqs, e)) => Asked(reqs')
    BY <2>1, <2>2, CommandAdded
  <2> QED
    BY <1>1, <2>2, <2>3
<1>5. CASE \E e \in Commands : reqs' = Append(Append(reqs, e), ChatsReq)
  <2>1. PICK e \in Commands : reqs' = Append(Append(reqs, e), ChatsReq)
    BY <1>5
  <2>2. Append(reqs, e) \in Seq(Commands)
    BY <1>0, <2>1
  <2>3. reqs' \in Seq(Commands) /\ Relisted(reqs') /\ Asked(reqs')
    BY <2>1, <2>2, ListAsked
  <2> QED
    BY <1>1, <2>3
<1>6. ASSUME NEW e \in Commands PROVE reqs \o <<e>> = Append(reqs, e)
  BY <1>0
<1>7. ASSUME NEW e \in Commands, NEW f \in Commands
      PROVE  reqs \o <<e, f>> = Append(Append(reqs, e), f)
  BY <1>0
<1>8. ASSUME NEW j \in Chats, OpenChat(j) PROVE NotifierInv'
  <2>1. \/ UNCHANGED reqs
        \/ reqs' = reqs \o (<<ActiveReq(j)>> \o <<ReadReq(j)>>)
        \/ reqs' = reqs \o (<<ActiveReq(j)>> \o <<>>)
    BY <1>8 DEF OpenChat, UserSends, Sent
  <2> DEFINE e == ActiveReq(j)
             f == ReadReq(j)
  <2>2. e \in Commands /\ f \in Commands /\ e.method # "set_muted" /\ f.method # "set_muted"
    BY CommandForms, Methods
  <2> HIDE DEF e, f
  <2>3. reqs \o (<<e>> \o <<f>>) = Append(Append(reqs, e), f)
    <3>1. /\ <<e>> \in Seq(Commands) /\ <<f>> \in Seq(Commands)
          /\ Append(reqs, e) \in Seq(Commands)
      BY <1>0, <2>2
    <3>2. reqs \o (<<e>> \o <<f>>) = (reqs \o <<e>>) \o <<f>>
      BY <1>0, <3>1, ConcatAssociative
    <3>3. Append(reqs, e) \o <<f>> = Append(Append(reqs, e), f)
      BY <2>2, <3>1
    <3> QED
      BY <1>6, <2>2, <3>2, <3>3
  <2>4. <<e>> \o <<>> = <<e>>
    BY <2>2
  <2>5. \/ UNCHANGED reqs \/ reqs' = Append(Append(reqs, e), f) \/ reqs' = Append(reqs, e)
    BY <1>6, <2>1, <2>2, <2>3, <2>4 DEF e, f
  <2> QED
    BY <1>2, <1>3, <1>4, <2>2, <2>5
<1>9. CASE LeaveChat
  <2>1. UNCHANGED reqs \/ reqs' = reqs \o <<ActiveReq(NoChat)>>
    BY <1>9 DEF LeaveChat, UserSends, Sent
  <2>2. ActiveReq(NoChat) \in Commands /\ ActiveReq(NoChat).method # "set_muted"
    BY CommandForms, Methods
  <2> QED
    BY <1>2, <1>3, <1>6, <2>1, <2>2
<1>10. CASE Refresh
  <2>1. UNCHANGED reqs \/ reqs' = reqs \o <<ChatsReq>>
    BY <1>10 DEF Refresh, UserSends, Sent
  <2>2. ChatsReq \in Commands /\ ChatsReq.method # "set_muted"
    BY CommandForms, Methods
  <2> QED
    BY <1>2, <1>3, <1>6, <2>1, <2>2
<1>11. ASSUME NEW j \in Chats, ToggleMuted(j) PROVE NotifierInv'
  <2>1. UNCHANGED reqs \/ reqs' = reqs \o <<MuteReq(j, ~rows[j].muted), ChatsReq>>
    BY <1>11 DEF ToggleMuted, UserSends, Sent
  <2>2. (~rows[j].muted) \in BOOLEAN
    OBVIOUS
  <2>3. MuteReq(j, ~rows[j].muted) \in Commands /\ ChatsReq \in Commands
    BY <2>2, CommandForms
  <2>4. \/ UNCHANGED reqs
        \/ reqs' = Append(Append(reqs, MuteReq(j, ~rows[j].muted)), ChatsReq)
    BY <1>7, <2>1, <2>3
  <2> QED
    BY <1>2, <1>5, <2>3, <2>4
<1> QED
  BY <1>8, <1>9, <1>10, <1>11 DEF User

\* The connection comes back with a list_chats.
LEMMA LinkNotifier ==
    NotifierInv /\ (Lost \/ Connect \/ FrameLost) => NotifierInv'
<1> SUFFICES ASSUME NotifierInv, Lost \/ Connect \/ FrameLost PROVE NotifierInv'
  OBVIOUS
<1>0. ListTyped
  BY DEF NotifierInv
<1>1. CASE Lost
  <2>1. Restart /\ ~up' /\ reqs' = <<>> /\ query' = NoQuery
    BY <1>1 DEF Lost, LinkLost
  <2>2. DaemonTyped' /\ SocketsOf(GuiFrames)'
    BY <1>0, <2>1, DaemonKept, SocketsTyped, EngineFrames DEF ListTyped, Next
  <2>3. <<>> \in Seq(Commands)
    OBVIOUS
  <2> QED
    BY <2>1, <2>2, <2>3 DEF NotifierInv, ListTyped
<1>2. CASE Connect
  <2>1. reqs' = Append(<<>>, ChatsReq) /\ <<>> \in Seq(Commands)
    BY <1>2 DEF Connect
  <2>2. reqs' \in Seq(Commands) /\ Relisted(reqs') /\ Asked(reqs')
    BY <2>1, ListAsked
  <2>3. UNCHANGED <<vars, query>>
    BY <1>2 DEF Connect, Reconnected
  <2>4. ListTyped'
    BY <1>0, <2>2, <2>3 DEF ListTyped, DaemonTyped, SocketsOf, vars
  <2> QED
    BY <2>2, <2>4 DEF NotifierInv, Informed
<1>3. CASE FrameLost
  <2>1. /\ ~up /\ ClientRead(Gui) /\ UNCHANGED <<up, reqs, query>>
    BY <1>3 DEF FrameLost, linkVars
  <2>2. DaemonTyped' /\ SocketsOf(GuiFrames)'
    BY <1>0, <2>1, GuiIsClient, DaemonKept, SocketsTyped, EngineFrames DEF ListTyped, Next
  <2> QED
    BY <1>0, <2>1, <2>2 DEF NotifierInv, ListTyped
<1> QED
  BY <1>1, <1>2, <1>3

LEMMA NotifierKept == NotifierInv /\ [LNext]_lvars => NotifierInv'
<1>1. NotifierInv /\ UNCHANGED lvars => NotifierInv'
  <2> SUFFICES ASSUME NotifierInv, UNCHANGED lvars PROVE NotifierInv'
    OBVIOUS
  <2>1. UNCHANGED vars /\ UNCHANGED <<up, reqs, query, muted>>
    BY DEF lvars, linkVars
  <2>2. ListTyped'
    BY <2>1 DEF NotifierInv, ListTyped, DaemonTyped, SocketsOf, vars
  <2> QED
    BY <2>1, <2>2 DEF NotifierInv, Informed, vars
<1> QED
  BY <1>1, DaemonNotifier, ListNotifier, DispatchNotifier, ReadNotifier, UserNotifier,
     LinkNotifier DEF LNext

\* When no listing and no mute is under way, the notifier is silent about the chats
\* that the store has muted and no other, for any number of chats, listings, menus
\* used and restarts, whatever the engine does to the chats table meanwhile.
THEOREM NotifierTheorem == LSpec => []NotifierAgrees
<1>1. NotifierInv => NotifierAgrees
  <2> SUFFICES ASSUME NotifierInv, up, query = NoQuery,
                      \A i \in DOMAIN reqs : reqs[i].method # "list_chats",
                      \A i \in DOMAIN sock[Gui] : sock[Gui][i].ev # "chats"
               PROVE  muted = MutedIn(chats)
    BY DEF NotifierAgrees, MutedIn
  <2>1. DOMAIN reqs = 1..Len(reqs) /\ DOMAIN sock[Gui] = 1..Len(sock[Gui])
    BY GuiIsClient DEF NotifierInv, ListTyped, SocketsOf
  <2>2. ~Asked(reqs)
    BY <2>1, Methods DEF Asked, Has
  <2>3. Lists(sock[Gui]) = {}
    BY <2>1 DEF Lists
  <2> QED
    BY <2>2, <2>3 DEF NotifierInv, Informed, EndsAt
<1> QED
  BY <1>1, InitNotifier, NotifierKept, PTL DEF LSpec

-----------------------------------------------------------------------------
(* What the chat list will show.                                           *)

Shown == ListEntry \cup {NoRow}

MessagesOf(j) == {MessageFrame(m) : m \in {k \in Msgs : ChatOf[k] = j}}
BadgesOf(j)   == {UnreadFrame(j, n) : n \in Nat}
Badges        == UNION {BadgesOf(j) : j \in Chats}
Synced        == {HistoryFrame}

\* Reading frame f may turn j's entry v into w.
Becomes(j, v, f, w) ==
    /\ f.ev = "chats" => w = f.rows[j]
    /\ f \in MessagesOf(j) =>
         w = [(IF v = NoRow THEN Entry(FreshChat) ELSE v) EXCEPT !.ts = Ts[f.m]]
    /\ f \in BadgesOf(j) => w = IF v = NoRow THEN v ELSE [v EXCEPT !.unread = f.unread]
    /\ f.ev # "chats" /\ f \notin MessagesOf(j) \cup BadgesOf(j) => w = v

Moves(j) == {t \in Shown \X GuiFrames \X Shown : Becomes(j, t[1], t[2], t[3])}

\* A frame that tells the time, or the badge, of j is decided on, or will be.
Dated(j)   == Has(ev.out, MessagesOf(j))
Counted(j) == \/ ev.pc = "select" /\ ChatOf[ev.m] = j
              \/ Has(ev.out, BadgesOf(j)) \/ Has(cmd[Gui].out, BadgesOf(j))

\* The entry z of j shows what is stored, or what is still to be told makes it so, or
\* what was said last was outdated.
Fits(j, z) ==
    /\ z = NoRow => \/ chats[j] = NoRow
                    \/ {j} \X Fields \subseteq skewed
                    \/ Dated(j) /\ chats[j].unread = 0 /\ ~chats[j].muted
    /\ z # NoRow => /\ chats[j] # NoRow
                    /\ <<j, "ts">> \in skewed \/ z.ts = chats[j].last_ts \/ Dated(j)
                    /\ <<j, "unread">> \in skewed \/ z.unread = chats[j].unread \/ Counted(j)
                    /\ <<j, "muted">> \in skewed \/ z.muted = chats[j].muted

\* A listing is asked for, or being made, or will be asked for.
Hot == \/ Asked(reqs) \/ query # NoQuery
       \/ hist.pc # "idle" \/ Has(hist.out, Synced) \/ Has(sock[Gui], Synced)

\* What is on its way leaves the list with what fits.
Leading ==
    \A j \in Chats : \A z : Leads(sock[Gui], Moves(j), rows[j], z) => Fits(j, z)

\* The goroutines push before they take another step; what they announce is there.
Orderly ==
    /\ cmd[Gui].pc \in {"idle", "clear", "reply"}
    /\ cmd[Gui].pc # "reply" => cmd[Gui].out = <<>>
    /\ cmd[Gui].out \in Seq(Badges) /\ hist.out \in Seq(Synced)
    /\ ev.pc \in {"increment", "select"} => ev.out = <<>>
    /\ \A j \in Chats : Dated(j) => chats[j] # NoRow
    /\ query # NoQuery => \A j \in Chats : query.rows[j] # NoRow => chats[j] # NoRow

ListInv ==
    /\ NotifierInv /\ rows \in Listings /\ Orderly
    /\ up => Hot \/ Leading

LEMMA FrameKinds ==
    /\ \A j : \A f \in MessagesOf(j) : f.ev = "message" /\ f.m \in Msgs /\ ChatOf[f.m] = j
    /\ \A j : \A f \in BadgesOf(j) : f.ev = "chat_unread" /\ f.chat = j /\ f.unread \in Nat
    /\ \A f \in Synced : f.ev = "history_sync"
    /\ \A f \in GuiFrames : /\ f.ev = "message" => f \in MessagesOf(ChatOf[f.m]) /\ f.m \in Msgs
                            /\ f.ev = "chat_unread" => f \in BadgesOf(f.chat) /\ f.chat \in Chats
                            /\ f.ev = "history_sync" => f \in Synced
                            /\ f.ev = "chats" => f.rows \in Listings
<1>1. \A j : \A f \in MessagesOf(j) : f.ev = "message" /\ f.m \in Msgs /\ ChatOf[f.m] = j
  BY DEF MessagesOf, MessageFrame
<1>2. \A j : \A f \in BadgesOf(j) : f.ev = "chat_unread" /\ f.chat = j /\ f.unread \in Nat
  BY DEF BadgesOf, UnreadFrame
<1>3. \A f \in Synced : f.ev = "history_sync"
  BY DEF Synced, HistoryFrame
<1>4. ASSUME NEW f \in GuiFrames
      PROVE  /\ f.ev = "message" => f \in MessagesOf(ChatOf[f.m]) /\ f.m \in Msgs
             /\ f.ev = "chat_unread" => f \in BadgesOf(f.chat) /\ f.chat \in Chats
             /\ f.ev = "history_sync" => f \in Synced
             /\ f.ev = "chats" => f.rows \in Listings
  <2>1. CASE f \in {ChatsFrame(r) : r \in Listings}
    BY <2>1 DEF ChatsFrame
  <2>2. CASE f \in Frames
    <3>1. f.ev # "chats"
      BY <2>2, EngineFrames
    <3>2. ASSUME f.ev = "message" PROVE f \in MessagesOf(ChatOf[f.m]) /\ f.m \in Msgs
      <4>1. f = MessageFrame(f.m) /\ f.m \in Msgs
        BY <2>2, <3>2 DEF Frames, MessageFrame
      <4> QED
        BY <4>1 DEF MessagesOf
    <3>3. ASSUME f.ev = "chat_unread" PROVE f \in BadgesOf(f.chat) /\ f.chat \in Chats
      <4>1. f = UnreadFrame(f.chat, f.unread) /\ f.chat \in Chats /\ f.unread \in Nat
        BY <2>2, <3>3 DEF Frames, UnreadFrame
      <4> QED
        BY <4>1 DEF BadgesOf
    <3>4. f.ev = "history_sync" => f \in Synced
      BY <2>2 DEF Frames, HistoryFrame, Synced
    <3> QED
      BY <3>1, <3>2, <3>3, <3>4
  <2> QED
    BY <2>1, <2>2 DEF GuiFrames
<1> QED
  BY <1>1, <1>2, <1>3, <1>4

\* The entry of a chat that a message makes known.
LEMMA FreshEntry ==
    /\ Entry(FreshChat) \in ListEntry
    /\ Entry(FreshChat).unread = 0 /\ ~Entry(FreshChat).muted
BY DEF Entry, FreshChat, ListEntry

LEMMA EntryOf ==
    ASSUME NEW row \in ChatRow
    PROVE  /\ Entry(row) \in ListEntry
           /\ Entry(row).ts = row.last_ts /\ Entry(row).unread = row.unread
           /\ Entry(row).muted = row.muted
BY DEF Entry, ChatRow, ListEntry

\* The entry after a message, and after a badge.
LEMMA EntryAfter ==
    ASSUME NEW j \in Chats, NEW v \in Shown, NEW f \in GuiFrames, NEW w, Becomes(j, v, f, w)
    PROVE  /\ w \in Shown
           /\ f \in MessagesOf(j) =>
                /\ w # NoRow /\ w.ts = Ts[f.m]
                /\ v = NoRow => w.unread = 0 /\ ~w.muted
                /\ v # NoRow => w.unread = v.unread /\ w.muted = v.muted
           /\ f \in BadgesOf(j) =>
                /\ v = NoRow => w = NoRow
                /\ v # NoRow => /\ w # NoRow /\ w.unread = f.unread
                                /\ w.ts = v.ts /\ w.muted = v.muted
<1>1. ASSUME f \in MessagesOf(j)
      PROVE  /\ w \in Shown /\ w # NoRow /\ w.ts = Ts[f.m]
             /\ v = NoRow => w.unread = 0 /\ ~w.muted
             /\ v # NoRow => w.unread = v.unread /\ w.muted = v.muted
  <2> DEFINE old == IF v = NoRow THEN Entry(FreshChat) ELSE v
  <2>1. Ts[f.m] \in Nat
    BY <1>1, FrameKinds, StoreAssumption
  <2>2. old \in ListEntry
    BY FreshEntry DEF Shown
  <2>3. w = [old EXCEPT !.ts = Ts[f.m]]
    BY <1>1 DEF Becomes
  <2> HIDE DEF old
  <2>4. /\ w \in ListEntry /\ w.ts = Ts[f.m]
        /\ w.unread = old.unread /\ w.muted = old.muted
    BY <2>1, <2>2, <2>3 DEF ListEntry
  <2>5. w # NoRow
    BY <2>4, ListAssumption
  <2> QED
    BY <2>4, <2>5, FreshEntry DEF Shown, old
<1>2. ASSUME f \in BadgesOf(j), v # NoRow
      PROVE  /\ w \in Shown /\ w # NoRow /\ w.unread = f.unread
             /\ w.ts = v.ts /\ w.muted = v.muted
  <2>1. f.unread \in Nat /\ v \in ListEntry
    BY <1>2, FrameKinds DEF Shown
  <2>2. w = [v EXCEPT !.unread = f.unread]
    BY <1>2 DEF Becomes
  <2>3. /\ w \in ListEntry /\ w.unread = f.unread
        /\ w.ts = v.ts /\ w.muted = v.muted
    BY <2>1, <2>2 DEF ListEntry
  <2>4. w # NoRow
    BY <2>3, ListAssumption
  <2> QED
    BY <2>3, <2>4 DEF Shown
<1>3. f \in BadgesOf(j) /\ v = NoRow => w = NoRow
  BY DEF Becomes
<1>4. f.ev = "chats" => w \in Shown
  <2>1. f.ev = "chats" => f.rows \in Listings
    BY FrameKinds
  <2> QED
    BY <2>1 DEF Becomes, Listings, Shown
<1>5. f.ev # "chats" /\ f \notin MessagesOf(j) \cup BadgesOf(j) => w \in Shown
  BY DEF Becomes
<1>6. NoRow \in Shown
  BY DEF Shown
<1> QED
  BY <1>1, <1>2, <1>3, <1>4, <1>5, <1>6

\* What a frame that is pushed leaves of skewed.
LEMMA SkewedKept ==
    ASSUME ListTyped, NEW j \in Chats, NEW f \in Frames,
           skewed' = (skewed \ {s.key : s \in Says(f)})
                       \cup {s.key : s \in {r \in Says(f) : ~r.right}}
    PROVE  /\ f \notin MessagesOf(j) \cup BadgesOf(j) =>
                \A fld : <<j, fld>> \in skewed => <<j, fld>> \in skewed'
           /\ f \in MessagesOf(j) /\ chats[j] # NoRow =>
                /\ \A fld \in {"unread", "muted"} :
                      <<j, fld>> \in skewed => <<j, fld>> \in skewed'
                /\ <<j, "ts">> \in skewed' \/ Ts[f.m] = chats[j].last_ts
           /\ f \in BadgesOf(j) =>
                /\ \A fld : fld # "unread" /\ <<j, fld>> \in skewed => <<j, fld>> \in skewed'
                /\ chats[j] # NoRow =>
                     \/ <<j, "unread">> \in skewed'
                     \/ f.unread = chats[j].unread /\ <<j, "row">> \notin skewed
<1>0. \A s : s \in skewed /\ s \notin {r.key : r \in Says(f)} => s \in skewed'
  OBVIOUS
<1>1. \A r \in Says(f) : r.right \/ r.key \in skewed'
  OBVIOUS
<1>2. ASSUME f.ev \notin {"message", "chat_unread"} PROVE Says(f) = {}
  BY <1>2 DEF Says
<1>3. ASSUME f.ev = "message"
      PROVE  Says(f) = IF chats[ChatOf[f.m]] = NoRow THEN {}
               ELSE {[key |-> <<ChatOf[f.m], "row">>, right |-> TRUE],
                     [key |-> <<ChatOf[f.m], "ts">>,
                      right |-> Ts[f.m] = chats[ChatOf[f.m]].last_ts]}
  BY <1>3 DEF Says
<1>4. ASSUME f.ev = "chat_unread"
      PROVE  Says(f) = IF chats[f.chat] = NoRow THEN {}
               ELSE {[key |-> <<f.chat, "unread">>,
                      right |-> /\ f.unread = chats[f.chat].unread
                                /\ <<f.chat, "row">> \notin skewed]}
  BY <1>4 DEF Says
<1>5. ASSUME NEW r \in Says(f)
      PROVE  \/ f \in MessagesOf(j) /\ r.key \in {<<j, "row">>, <<j, "ts">>}
             \/ f \in BadgesOf(j) /\ r.key = <<j, "unread">>
             \/ \A fld : r.key # <<j, fld>>
  <2>0. f \in GuiFrames
    BY EngineFrames
  <2>1. CASE f.ev = "message"
    <3>1. f \in MessagesOf(ChatOf[f.m])
      BY <2>0, <2>1, FrameKinds
    <3>2. r.key \in {<<ChatOf[f.m], "row">>, <<ChatOf[f.m], "ts">>}
      BY <1>3, <1>5, <2>1
    <3> QED
      BY <3>1, <3>2
  <2>2. CASE f.ev = "chat_unread"
    <3>1. f \in BadgesOf(f.chat)
      BY <2>0, <2>2, FrameKinds
    <3>2. r.key = <<f.chat, "unread">>
      BY <1>4, <1>5, <2>2
    <3> QED
      BY <3>1, <3>2
  <2> QED
    BY <1>2, <1>5, <2>1, <2>2
<1>6. ASSUME f \in MessagesOf(j) PROVE f \notin BadgesOf(j) /\ f.ev = "message" /\ ChatOf[f.m] = j
  BY <1>6, FrameKinds
<1>7. ASSUME f \in BadgesOf(j) PROVE f \notin MessagesOf(j) /\ f.ev = "chat_unread" /\ f.chat = j
  BY <1>7, FrameKinds
<1>8. ASSUME f \notin MessagesOf(j) \cup BadgesOf(j), NEW fld, <<j, fld>> \in skewed
      PROVE  <<j, fld>> \in skewed'
  BY <1>0, <1>5, <1>8
<1>9. ASSUME f \in MessagesOf(j), chats[j] # NoRow
      PROVE  /\ \A fld \in {"unread", "muted"} : <<j, fld>> \in skewed => <<j, fld>> \in skewed'
             /\ <<j, "ts">> \in skewed' \/ Ts[f.m] = chats[j].last_ts
  <2>1. \A fld \in {"unread", "muted"} : <<j, fld>> \in skewed => <<j, fld>> \in skewed'
    BY <1>0, <1>5, <1>6, <1>9
  <2> DEFINE r == [key |-> <<j, "ts">>, right |-> Ts[f.m] = chats[j].last_ts]
  <2>2. r \in Says(f)
    BY <1>3, <1>6, <1>9
  <2>3. r.right \/ r.key \in skewed'
    BY <1>1, <2>2
  <2>4. Ts[f.m] = chats[j].last_ts \/ <<j, "ts">> \in skewed'
    BY <2>3
  <2> QED
    BY <2>1, <2>4
<1>10. ASSUME f \in BadgesOf(j)
       PROVE  /\ \A fld : fld # "unread" /\ <<j, fld>> \in skewed => <<j, fld>> \in skewed'
              /\ chats[j] # NoRow =>
                   \/ <<j, "unread">> \in skewed'
                   \/ f.unread = chats[j].unread /\ <<j, "row">> \notin skewed
  <2>1. \A fld : fld # "unread" /\ <<j, fld>> \in skewed => <<j, fld>> \in skewed'
    BY <1>0, <1>5, <1>7, <1>10
  <2>2. ASSUME chats[j] # NoRow
        PROVE  \/ <<j, "unread">> \in skewed'
               \/ f.unread = chats[j].unread /\ <<j, "row">> \notin skewed
    <3> DEFINE b == f.unread = chats[j].unread /\ <<j, "row">> \notin skewed
               r == [key |-> <<j, "unread">>, right |-> b]
    <3>1. r \in Says(f)
      BY <1>4, <1>7, <1>10, <2>2
    <3>2. r.right \/ r.key \in skewed'
      BY <1>1, <3>1
    <3>3. b \/ <<j, "unread">> \in skewed'
      BY <3>2
    <3> QED
      BY <3>3
  <2> QED
    BY <2>1, <2>2
<1> QED
  BY <1>8, <1>9, <1>10

-----------------------------------------------------------------------------
(* A change of the table, and a frame that tells it.                       *)

\* The state operators after a step.
LEMMA StatePrimed ==
    \A j : /\ Dated(j)' <=> Has(ev'.out, MessagesOf(j))
           /\ Counted(j)' <=> \/ ev'.pc = "select" /\ ChatOf[ev'.m] = j
                              \/ Has(ev'.out, BadgesOf(j)) \/ Has(cmd'[Gui].out, BadgesOf(j))
<1>1. \A j : Dated(j)' <=> Has(ev'.out, MessagesOf(j))
  BY DEF Dated, Has, MessagesOf, MessageFrame
<1>2. \A j : Counted(j)' <=> \/ ev'.pc = "select" /\ ChatOf[ev'.m] = j
                             \/ Has(ev'.out, BadgesOf(j)) \/ Has(cmd'[Gui].out, BadgesOf(j))
  BY DEF Counted, Has, BadgesOf, UnreadFrame
<1> QED
  BY <1>1, <1>2

LEMMA FitsPrimed ==
    \A j, z : Fits(j, z)' <=>
      /\ z = NoRow => \/ chats'[j] = NoRow
                      \/ {j} \X Fields \subseteq skewed'
                      \/ Dated(j)' /\ chats'[j].unread = 0 /\ ~chats'[j].muted
      /\ z # NoRow => /\ chats'[j] # NoRow
                      /\ <<j, "ts">> \in skewed' \/ z.ts = chats'[j].last_ts \/ Dated(j)'
                      /\ \/ <<j, "unread">> \in skewed' \/ z.unread = chats'[j].unread
                         \/ Counted(j)'
                      /\ <<j, "muted">> \in skewed' \/ z.muted = chats'[j].muted
BY DEF Fits, Fields

\* What a step that pushes nothing does to the row of j is decided to be told.
RowMoves(j) ==
    \/ /\ chats'[j] = chats[j]
       /\ Dated(j) => Dated(j)'
       /\ chats[j] # NoRow /\ Counted(j) => Counted(j)'
    \/ /\ chats'[j] # NoRow /\ Dated(j)'
       /\ chats'[j].unread = ChatRowOf(chats, j).unread
       /\ chats'[j].muted = ChatRowOf(chats, j).muted
       /\ Counted(j) => Counted(j)'
    \/ /\ chats[j] # NoRow /\ chats'[j] # NoRow /\ Counted(j)'
       /\ chats'[j].last_ts = chats[j].last_ts /\ chats'[j].muted = chats[j].muted
       /\ Dated(j) => Dated(j)' /\ chats'[j].unread = 0

LEMMA FitsStored ==
    ASSUME NEW j \in Chats, NEW z, Fits(j, z), UNCHANGED skewed, RowMoves(j)
    PROVE  Fits(j, z)'
<1>1. CASE /\ chats'[j] = chats[j]
           /\ Dated(j) => Dated(j)'
           /\ chats[j] # NoRow /\ Counted(j) => Counted(j)'
  BY <1>1, FitsPrimed DEF Fits
<1>2. CASE /\ chats'[j] # NoRow /\ Dated(j)'
           /\ chats'[j].unread = ChatRowOf(chats, j).unread
           /\ chats'[j].muted = ChatRowOf(chats, j).muted
           /\ Counted(j) => Counted(j)'
  <2>1. chats[j] = NoRow => chats'[j].unread = 0 /\ ~chats'[j].muted
    BY <1>2 DEF ChatRowOf, FreshChat
  <2>2. chats[j] # NoRow => /\ chats'[j].unread = chats[j].unread
                            /\ chats'[j].muted = chats[j].muted
    BY <1>2 DEF ChatRowOf
  <2> QED
    BY <1>2, <2>1, <2>2, FitsPrimed DEF Fits
<1>3. CASE /\ chats[j] # NoRow /\ chats'[j] # NoRow /\ Counted(j)'
           /\ chats'[j].last_ts = chats[j].last_ts /\ chats'[j].muted = chats[j].muted
           /\ Dated(j) => Dated(j)' /\ chats'[j].unread = 0
  BY <1>3, FitsPrimed DEF Fits
<1> QED
  BY <1>1, <1>2, <1>3 DEF RowMoves

\* A frame that is pushed tells what its goroutine has decided on.
Pushes(f) ==
    /\ UNCHANGED chats /\ sock'[Gui] = Append(sock[Gui], f)
    /\ \A j \in Chats : /\ f \in MessagesOf(j) => Dated(j)
                        /\ Dated(j) => Dated(j)' \/ f \in MessagesOf(j)
                        /\ Counted(j) => Counted(j)' \/ f \in BadgesOf(j)

LEMMA FitsPushed ==
    ASSUME ListTyped, Orderly, NEW j \in Chats, NEW f \in Frames, Pushes(f),
           skewed' = (skewed \ {s.key : s \in Says(f)})
                       \cup {s.key : s \in {r \in Says(f) : ~r.right}},
           NEW y \in Shown, NEW z, Becomes(j, y, f, z), Fits(j, y)
    PROVE  Fits(j, z)'
<1>0. /\ f \in GuiFrames /\ f.ev # "chats" /\ UNCHANGED chats
      /\ Dated(j) => Dated(j)' \/ f \in MessagesOf(j)
      /\ Counted(j) => Counted(j)' \/ f \in BadgesOf(j)
      /\ f \in MessagesOf(j) => chats[j] # NoRow
  BY EngineFrames DEF Pushes, Orderly
<1>1. CASE f \in MessagesOf(j)
  <2>1. f \notin BadgesOf(j)
    BY <1>1, FrameKinds
  <2>2. /\ z # NoRow /\ z.ts = Ts[f.m]
        /\ y = NoRow => z.unread = 0 /\ ~z.muted
        /\ y # NoRow => z.unread = y.unread /\ z.muted = y.muted
    BY <1>0, <1>1, EntryAfter
  <2>3. /\ \A fld \in {"unread", "muted"} : <<j, fld>> \in skewed => <<j, fld>> \in skewed'
        /\ <<j, "ts">> \in skewed' \/ Ts[f.m] = chats[j].last_ts
    BY <1>0, <1>1, SkewedKept
  <2>4. {j} \X Fields \subseteq skewed => <<j, "unread">> \in skewed /\ <<j, "muted">> \in skewed
    BY DEF Fields
  <2>5. chats[j] # NoRow
    BY <1>0, <1>1
  <2>6. <<j, "unread">> \in skewed' \/ z.unread = chats[j].unread \/ Counted(j)'
    BY <1>0, <2>1, <2>2, <2>3, <2>4, <2>5 DEF Fits
  <2>7. <<j, "muted">> \in skewed' \/ z.muted = chats[j].muted
    <3>1. ASSUME y = NoRow PROVE <<j, "muted">> \in skewed' \/ z.muted = chats[j].muted
      <4>1. <<j, "muted">> \in skewed' \/ ~chats[j].muted
        BY <2>3, <2>4, <2>5, <3>1 DEF Fits
      <4>2. chats[j].muted \in BOOLEAN /\ z.muted \in BOOLEAN
        <5>1. chats[j] \in ChatRow
          BY <2>5 DEF ListTyped, DaemonTyped, ChatsTable
        <5>2. z \in Shown
          BY <1>0, EntryAfter
        <5>3. z \in ListEntry
          BY <2>2, <5>2 DEF Shown
        <5> QED
          BY <5>1, <5>3 DEF ChatRow, ListEntry
      <4> QED
        BY <2>2, <3>1, <4>1, <4>2
    <3>2. ASSUME y # NoRow PROVE <<j, "muted">> \in skewed' \/ z.muted = chats[j].muted
      BY <2>2, <2>3, <3>2 DEF Fits
    <3> QED
      BY <3>1, <3>2
  <2> QED
    BY <1>0, <2>2, <2>3, <2>5, <2>6, <2>7, FitsPrimed
<1>2. CASE f \in BadgesOf(j)
  <2>1. f \notin MessagesOf(j)
    BY <1>2, FrameKinds
  <2>2. /\ y = NoRow => z = NoRow
        /\ y # NoRow => /\ z # NoRow /\ z.unread = f.unread
                        /\ z.ts = y.ts /\ z.muted = y.muted
    BY <1>0, <1>2, EntryAfter
  <2>3. /\ \A fld : fld # "unread" /\ <<j, fld>> \in skewed => <<j, fld>> \in skewed'
        /\ chats[j] # NoRow => \/ <<j, "unread">> \in skewed'
                               \/ f.unread = chats[j].unread /\ <<j, "row">> \notin skewed
    BY <1>2, SkewedKept
  <2>4. CASE y = NoRow
    <3>1. ASSUME chats[j] # NoRow, {j} \X Fields \subseteq skewed
          PROVE  {j} \X Fields \subseteq skewed'
      <4>1. <<j, "row">> \in skewed
        BY <3>1 DEF Fields
      <4>2. <<j, "unread">> \in skewed'
        BY <2>3, <3>1, <4>1
      <4>3. \A fld \in Fields : <<j, fld>> \in skewed'
        BY <2>3, <3>1, <4>2
      <4> QED
        BY <4>3
    <3>2. z = NoRow
      BY <2>2, <2>4
    <3> QED
      BY <1>0, <2>1, <2>4, <3>1, <3>2, FitsPrimed DEF Fits
  <2>5. CASE y # NoRow
    <3>1. /\ chats[j] # NoRow
          /\ <<j, "ts">> \in skewed \/ y.ts = chats[j].last_ts \/ Dated(j)
          /\ <<j, "muted">> \in skewed \/ y.muted = chats[j].muted
      BY <2>5 DEF Fits
    <3>2. /\ <<j, "ts">> \in skewed => <<j, "ts">> \in skewed'
          /\ <<j, "muted">> \in skewed => <<j, "muted">> \in skewed'
      BY <2>3
    <3> QED
      BY <1>0, <2>1, <2>2, <2>3, <2>5, <3>1, <3>2, FitsPrimed
  <2> QED
    BY <2>4, <2>5
<1>3. CASE f \notin MessagesOf(j) \cup BadgesOf(j)
  <2>1. z = y
    BY <1>0, <1>3 DEF Becomes
  <2>2. \A fld : <<j, fld>> \in skewed => <<j, fld>> \in skewed'
    BY <1>3, SkewedKept
  <2>3. {j} \X Fields \subseteq skewed => {j} \X Fields \subseteq skewed'
    BY <2>2
  <2> QED
    BY <1>0, <1>3, <2>1, <2>2, <2>3, FitsPrimed DEF Fits
<1> QED
  BY <1>1, <1>2, <1>3

-----------------------------------------------------------------------------
(* The engine's goroutines change the table, and tell.                     *)

\* The frames to push, one less.
LEMMA OutTaken ==
    ASSUME NEW q \in Seq(Frames), q # <<>>
    PROVE  /\ Head(q) \in Frames /\ Tail(q) \in Seq(Frames)
           /\ \A P : Has(q, P) <=> Head(q) \in P \/ Has(Tail(q), P)
BY HasTaken, HeadTailTyped

LEMMA OutOf ==
    ASSUME NEW f \in Frames, NEW P
    PROVE  Has(<<f>>, P) <=> f \in P
<1>1. Len(<<f>>) = 1 /\ <<f>>[1] = f /\ \A i \in 1..1 : i = 1
  OBVIOUS
<1> QED
  BY <1>1 DEF Has

LEMMA GoroutinesTyped ==
    ListTyped => /\ ev \in EvState /\ ev.out \in Seq(Frames)
                 /\ hist \in HistState /\ hist.out \in Seq(Frames)
                 /\ cmd \in [Clients -> CmdState] /\ cmd[Gui] \in CmdState
                 /\ cmd[Gui].out \in Seq(Frames) /\ cmd[Gui].ok \in BOOLEAN
                 /\ chats \in ChatsTable
<1> SUFFICES ASSUME ListTyped
             PROVE  /\ ev \in EvState /\ ev.out \in Seq(Frames)
                    /\ hist \in HistState /\ hist.out \in Seq(Frames)
                    /\ cmd \in [Clients -> CmdState] /\ cmd[Gui] \in CmdState
                    /\ cmd[Gui].out \in Seq(Frames) /\ cmd[Gui].ok \in BOOLEAN
                    /\ chats \in ChatsTable
  OBVIOUS
<1>1. ev \in EvState /\ hist \in HistState /\ cmd \in [Clients -> CmdState] /\ chats \in ChatsTable
  BY DEF ListTyped, DaemonTyped
<1>2. cmd[Gui] \in CmdState
  BY <1>1, GuiIsClient
<1>3. ev.out \in Seq(Frames)
  BY <1>1 DEF EvState
<1>4. hist.out \in Seq(Frames)
  BY <1>1 DEF HistState
<1>5. cmd[Gui].out \in Seq(Frames) /\ cmd[Gui].ok \in BOOLEAN
  BY <1>2 DEF CmdState
<1> QED
  BY <1>1, <1>2, <1>3, <1>4, <1>5

\* The summary after a message.
LEMMA SummaryOf ==
    ASSUME NEW t \in ChatsTable, NEW j \in Chats, NEW ts \in Nat, NEW text \in Texts
    PROVE  LET u == UpdateChat(t, j, ts, text) IN
           /\ \A k \in Chats : k # j => u[k] = t[k]
           /\ u[j] # NoRow
           /\ u[j].unread = ChatRowOf(t, j).unread /\ u[j].muted = ChatRowOf(t, j).muted
<1> DEFINE old == ChatRowOf(t, j)
           new == [old EXCEPT !.last_ts = ts, !.last_preview = text]
           u   == UpdateChat(t, j, ts, text)
<1>1. old \in ChatRow
  BY StoreAssumption DEF ChatRowOf, FreshChat, ChatRow, ChatsTable
<1>2. new \in ChatRow /\ new.unread = old.unread /\ new.muted = old.muted
  BY <1>1 DEF ChatRow
<1>3. \/ u = [t EXCEPT ![j] = new]
      \/ u = [t EXCEPT ![j] = old]
  BY DEF UpdateChat
<1> HIDE DEF new, old, u
<1>4. /\ \A k \in Chats : k # j => u[k] = t[k]
      /\ u[j] = new \/ u[j] = old
  BY <1>3 DEF ChatsTable
<1> QED
  BY <1>1, <1>2, <1>4, StoreAssumption DEF u, old

LEMMA RowTouched ==
    ASSUME NEW t \in ChatsTable, NEW j \in Chats
    PROVE  /\ \A k \in Chats : k # j =>
                /\ IncrementUnread(t, j)[k] = t[k] /\ ResetUnread(t, j)[k] = t[k]
                /\ SetChatName(t, j)[k] = t[k]
           /\ t[j] = NoRow => IncrementUnread(t, j)[j] = NoRow /\ ResetUnread(t, j)[j] = NoRow
           /\ SetChatName(t, j)[j] # NoRow
           /\ t[j] # NoRow =>
                /\ ResetUnread(t, j)[j] # NoRow /\ ResetUnread(t, j)[j].unread = 0
                /\ ResetUnread(t, j)[j].last_ts = t[j].last_ts
                /\ ResetUnread(t, j)[j].muted = t[j].muted
                /\ IncrementUnread(t, j)[j] # NoRow
                /\ IncrementUnread(t, j)[j].last_ts = t[j].last_ts
                /\ IncrementUnread(t, j)[j].muted = t[j].muted
<1>1. t[j] # NoRow => t[j] \in ChatRow
  BY DEF ChatsTable
<1>2. ASSUME NEW new PROVE /\ [t EXCEPT ![j] = new][j] = new
                           /\ \A k \in Chats : k # j => [t EXCEPT ![j] = new][k] = t[k]
  BY DEF ChatsTable
<1>3. ASSUME t[j] # NoRow, NEW n \in Nat
      PROVE  /\ [t[j] EXCEPT !.unread = n] \in ChatRow
             /\ [t[j] EXCEPT !.unread = n].unread = n
             /\ [t[j] EXCEPT !.unread = n].last_ts = t[j].last_ts
             /\ [t[j] EXCEPT !.unread = n].muted = t[j].muted
  BY <1>1, <1>3 DEF ChatRow
<1>4. t[j] # NoRow => t[j].unread + 1 \in Nat
  BY <1>1 DEF ChatRow
<1>5. SetChatName(t, j)[j] # NoRow /\ \A k \in Chats : k # j => SetChatName(t, j)[k] = t[k]
  <2> DEFINE old == ChatRowOf(t, j)
  <2>1. old \in ChatRow
    BY StoreAssumption DEF ChatRowOf, FreshChat, ChatRow, ChatsTable
  <2>2. [old EXCEPT !.named = TRUE] \in ChatRow
    <3> HIDE DEF old
    <3> QED
      BY <2>1 DEF ChatRow
  <2> QED
    BY <1>2, <2>2, StoreAssumption DEF SetChatName
<1> DEFINE zero == [t[j] EXCEPT !.unread = 0]
           more == [t[j] EXCEPT !.unread = t[j].unread + 1]
<1>6. /\ t[j] = NoRow => ResetUnread(t, j) = t /\ IncrementUnread(t, j) = t
      /\ t[j] # NoRow => /\ ResetUnread(t, j) = [t EXCEPT ![j] = zero]
                         /\ IncrementUnread(t, j) = [t EXCEPT ![j] = more]
  BY DEF ResetUnread, IncrementUnread, UpdateChatRow
<1>7. t[j] # NoRow =>
        /\ zero # NoRow /\ zero.unread = 0
        /\ zero.last_ts = t[j].last_ts /\ zero.muted = t[j].muted
        /\ more # NoRow /\ more.last_ts = t[j].last_ts /\ more.muted = t[j].muted
  <2>1. 0 \in Nat
    OBVIOUS
  <2> QED
    BY <1>3, <1>4, <2>1, StoreAssumption
<1> HIDE DEF zero, more
<1>8. /\ [t EXCEPT ![j] = zero][j] = zero /\ [t EXCEPT ![j] = more][j] = more
      /\ \A k \in Chats : k # j => /\ [t EXCEPT ![j] = zero][k] = t[k]
                                   /\ [t EXCEPT ![j] = more][k] = t[k]
  BY <1>2
<1>9. \A k \in Chats : k # j => IncrementUnread(t, j)[k] = t[k] /\ ResetUnread(t, j)[k] = t[k]
  BY <1>6, <1>8
<1>10. t[j] # NoRow => ResetUnread(t, j)[j] = zero /\ IncrementUnread(t, j)[j] = more
  BY <1>6, <1>8
<1> QED
  BY <1>5, <1>6, <1>7, <1>9, <1>10

\* One or two frames that announce no message.
LEMMA NoMessageIn ==
    ASSUME NEW f, f.ev # "message"
    PROVE  /\ \A j : ~Has(<<f>>, MessagesOf(j))
           /\ \A g, j : g.ev # "message" => ~Has(<<f, g>>, MessagesOf(j))
<1>1. \A j : f \notin MessagesOf(j)
  BY FrameKinds
<1>2. ASSUME NEW j PROVE ~Has(<<f>>, MessagesOf(j))
  <2>1. Len(<<f>>) = 1 /\ \A i \in 1..1 : <<f>>[i] = f
    OBVIOUS
  <2> QED
    BY <1>1, <2>1 DEF Has
<1>3. ASSUME NEW g, NEW j, g.ev # "message" PROVE ~Has(<<f, g>>, MessagesOf(j))
  <2>1. Len(<<f, g>>) = 2 /\ \A i \in 1..2 : <<f, g>>[i] = f \/ <<f, g>>[i] = g
    OBVIOUS
  <2>2. g \notin MessagesOf(j)
    BY <1>3, FrameKinds
  <2> QED
    BY <1>1, <2>1, <2>2 DEF Has
<1> QED
  BY <1>2, <1>3

\* An event stores, and decides to announce.
LEMMA EventArrivesMoves ==
    ASSUME ~StoreMayFail, ListTyped, Orderly, EventArrives
    PROVE  /\ UNCHANGED <<sock, cmd, hist>> /\ \A j \in Chats : RowMoves(j)
           /\ ev'.pc \notin {"increment", "select"}
           /\ \A j \in Chats : Dated(j)' => chats'[j] # NoRow
<1>0. chats \in ChatsTable
  BY GoroutinesTyped
<1>1. PICK m \in Msgs :
        \/ EventMessage(m) \/ EventRevoke(m)
        \/ \E text \in Texts \ {""} : EventEdit(m, text)
        \/ \E s \in Senders, emoji \in Emojis \cup {""} : EventReaction(m, s, emoji)
        \/ \E status \in Statuses : EventReceipt(m, status)
  BY DEF EventArrives
<1>2. ev.pc = "idle" /\ ev.out = <<>> /\ UNCHANGED <<sock, cmd, hist>>
  BY <1>1 DEF EventMessage, EventRevoke, EventEdit, EventReaction, EventReceipt, EvFree
<1>3. \A j : ~Dated(j) /\ (Counted(j) => Counted(j)')
  BY <1>2, HasNothing, StatePrimed DEF Dated, Counted
<1>4. ASSUME EventMessage(m)
      PROVE  /\ \A j \in Chats : RowMoves(j)
             /\ ev'.pc \notin {"increment", "select"}
             /\ \A j \in Chats : Dated(j)' => chats'[j] # NoRow
  <2> DEFINE c == ChatOf[m]
  <2>1. c \in Chats /\ Ts[m] \in Nat /\ Body[m] \in Texts
    BY StoreAssumption
  <2>2. chats' = UpdateChat(chats, c, Ts[m], Body[m])
    BY <1>4 DEF EventMessage
  <2>3. ev'.pc = "announced" /\ ev'.out = <<MessageFrame(m)>>
    BY <1>4 DEF EventMessage
  <2>4. MessageFrame(m) \in Frames /\ MessageFrame(m) \in MessagesOf(c)
    BY FramesTyped DEF MessagesOf
  <2>5. \A j : MessageFrame(m) \in MessagesOf(j) => j = c
    BY DEF MessagesOf, MessageFrame
  <2>6. \A j : Dated(j)' <=> j = c
    BY <2>3, <2>4, <2>5, OutOf, StatePrimed
  <2> HIDE DEF c
  <2>7. /\ \A k \in Chats : k # c => chats'[k] = chats[k]
        /\ chats'[c] # NoRow /\ chats'[c].unread = ChatRowOf(chats, c).unread
        /\ chats'[c].muted = ChatRowOf(chats, c).muted
    BY <1>0, <2>1, <2>2, SummaryOf
  <2> QED
    BY <1>3, <2>3, <2>6, <2>7 DEF RowMoves
<1>5. ASSUME UNCHANGED chats, NEW f, f.ev # "message",
             \/ ev' = [EvIdle EXCEPT !.out = <<f>>]
             \/ \E g : g.ev # "message" /\ ev' = [EvIdle EXCEPT !.out = <<f, g>>]
      PROVE  /\ \A j \in Chats : RowMoves(j)
             /\ ev'.pc \notin {"increment", "select"}
             /\ \A j \in Chats : Dated(j)' => chats'[j] # NoRow
  <2>1. /\ ev'.pc = "idle"
        /\ \/ ev'.out = <<f>>
           \/ \E g : g.ev # "message" /\ ev'.out = <<f, g>>
    BY <1>5 DEF EvIdle
  <2>2. \A j : ~Dated(j)'
    BY <1>5, <2>1, NoMessageIn, StatePrimed
  <2> QED
    BY <1>3, <1>5, <2>1, <2>2 DEF RowMoves
<1>6. ASSUME EventRevoke(m)
      PROVE  \E f : /\ UNCHANGED chats /\ f.ev # "message"
                    /\ ev' = [EvIdle EXCEPT !.out = <<f>>]
  <2>1. RevokedFrame(m).ev # "message"
    BY DEF RevokedFrame
  <2> QED
    BY <1>6, <2>1 DEF EventRevoke
<1>7. ASSUME NEW text, EventEdit(m, text)
      PROVE  \E f : /\ UNCHANGED chats /\ f.ev # "message"
                    /\ ev' = [EvIdle EXCEPT !.out = <<f>>]
  <2>1. EditedFrame(m, text).ev # "message"
    BY DEF EditedFrame
  <2> QED
    BY <1>7, <2>1 DEF EventEdit
<1>8. ASSUME NEW s, NEW emoji, EventReaction(m, s, emoji)
      PROVE  \E f : /\ UNCHANGED chats /\ f.ev # "message"
                    /\ ev' = [EvIdle EXCEPT !.out = <<f>>]
  <2>1. ReactionFrame(m, s, emoji).ev # "message"
    BY DEF ReactionFrame
  <2> QED
    BY <1>8, <2>1 DEF EventReaction
<1>9. ASSUME NEW status, EventReceipt(m, status)
      PROVE  \E f : /\ UNCHANGED chats /\ f.ev # "message"
                    /\ \/ ev' = [EvIdle EXCEPT !.out = <<f>>]
                       \/ \E g : g.ev # "message" /\ ev' = [EvIdle EXCEPT !.out = <<f, g>>]
  <2>1. StatusFrame(m, status).ev # "message" /\ ReceiptFrame(m).ev # "message"
    BY DEF StatusFrame, ReceiptFrame
  <2> QED
    BY <1>9, <2>1 DEF EventReceipt
<1> QED
  BY <1>1, <1>2, <1>4, <1>5, <1>6, <1>7, <1>8, <1>9

\* bumpUnread, and the event goroutine's pushes.
LEMMA EventStepMoves ==
    ASSUME ~StoreMayFail, ListTyped, Orderly, EventStep
    PROVE  /\ UNCHANGED <<cmd, hist>>
           /\ \/ UNCHANGED sock /\ \A j \in Chats : RowMoves(j)
              \/ \E f \in Frames : Pushes(f)
           /\ ev'.pc \in {"increment", "select"} => ev'.out = <<>>
           /\ \A j \in Chats : Dated(j)' => chats'[j] # NoRow
<1>0. chats \in ChatsTable /\ ev \in EvState /\ ev.out \in Seq(Frames)
  BY GoroutinesTyped
<1>00. /\ ev.pc \in {"increment", "select"} => ev.out = <<>>
       /\ \A j \in Chats : Dated(j) => chats[j] # NoRow
  BY DEF Orderly
<1>1. CASE EventAnnounced
  <2>1. /\ ev.pc = "announced" /\ ev.out = <<>>
        /\ ev' \in {EvIdle, [ev EXCEPT !.pc = "increment"]}
        /\ UNCHANGED <<chats, cmd, hist, sock>>
    BY <1>1 DEF EventAnnounced, store
  <2>2. ev'.out = <<>>
    BY <1>0, <2>1 DEF EvIdle, EvState
  <2>3. \A j : ~Dated(j)' /\ ~Dated(j) /\ (Counted(j) => Counted(j)')
    BY <2>1, <2>2, HasNothing, StatePrimed DEF Dated, Counted
  <2> QED
    BY <2>1, <2>2, <2>3 DEF RowMoves
<1>2. CASE EventIncrement
  <2>0. PICK c : c = ChatOf[ev.m]
    OBVIOUS
  <2>1. /\ ev.pc = "increment" /\ ev.out = <<>> /\ UNCHANGED <<cmd, hist, sock>>
        /\ chats' = IncrementUnread(chats, c) /\ ev' = [ev EXCEPT !.pc = "select"]
    BY <1>2, <1>00, <2>0 DEF EventIncrement
  <2>2. ev'.out = <<>> /\ ev'.pc = "select" /\ ev'.m = ev.m
    BY <1>0, <2>1 DEF EvState
  <2>3. \A j : ~Dated(j)' /\ ~Dated(j) /\ (Counted(j) => Counted(j)')
    BY <2>1, <2>2, HasNothing, StatePrimed DEF Dated, Counted
  <2>4. c \in Chats
    BY <1>0, <2>0, <2>1, StoreAssumption DEF EvState
  <2>5. Counted(c)'
    BY <2>0, <2>2, StatePrimed
  <2>6. /\ \A k \in Chats : k # c => chats'[k] = chats[k]
        /\ chats[c] = NoRow => chats'[c] = NoRow
        /\ chats[c] # NoRow => /\ chats'[c] # NoRow /\ chats'[c].last_ts = chats[c].last_ts
                               /\ chats'[c].muted = chats[c].muted
    BY <1>0, <2>1, <2>4, RowTouched
  <2>7. RowMoves(c)
    BY <2>3, <2>5, <2>6 DEF RowMoves
  <2>9. \A k \in Chats : RowMoves(k)
    <3> SUFFICES ASSUME NEW k \in Chats, k # c PROVE RowMoves(k)
      BY <2>7
    <3>1. chats'[k] = chats[k]
      BY <2>6
    <3> QED
      BY <2>3, <3>1 DEF RowMoves
  <2> QED
    BY <2>1, <2>2, <2>3, <2>9
<1>3. CASE EventSelect
  <2> DEFINE c == ChatOf[ev.m]
  <2>1. ev.pc = "select" /\ ev.out = <<>> /\ UNCHANGED <<chats, cmd, hist, sock>>
    BY <1>3, <1>00 DEF EventSelect, store
  <2>2. \/ /\ chats[c] # NoRow
           /\ ev' = [EvIdle EXCEPT !.out = <<UnreadFrame(c, chats[c].unread)>>]
        \/ chats[c] = NoRow /\ ev' = EvIdle
    BY <1>3 DEF EventSelect
  <2>3. c \in Chats
    BY <1>0, <2>1, StoreAssumption DEF EvState
  <2>4. \A j : /\ ~Dated(j)
               /\ Counted(j) <=> c = j \/ Has(cmd[Gui].out, BadgesOf(j))
    BY <2>1, HasNothing DEF Dated, Counted
  <2> HIDE DEF c
  <2>5. CASE chats[c] # NoRow /\ ev' = [EvIdle EXCEPT !.out = <<UnreadFrame(c, chats[c].unread)>>]
    <3> DEFINE f == UnreadFrame(c, chats[c].unread)
    <3>1. ev'.pc = "idle" /\ ev'.out = <<f>>
      BY <2>5 DEF EvIdle
    <3>2. chats[c].unread \in Nat
      BY <1>0, <2>3, <2>5 DEF ChatsTable, ChatRow
    <3>3. f \in Frames /\ f \in BadgesOf(c) /\ f.ev # "message"
      BY <2>3, <3>2, OtherFramesTyped DEF BadgesOf, UnreadFrame
    <3> HIDE DEF f
    <3>4. \A j : ~Dated(j)'
      BY <3>1, <3>3, NoMessageIn, StatePrimed
    <3>5. \A j : Counted(j) => Counted(j)'
      BY <2>1, <2>4, <3>1, <3>3, OutOf, StatePrimed
    <3> QED
      BY <2>1, <2>4, <3>1, <3>4, <3>5 DEF RowMoves
  <2>6. CASE chats[c] = NoRow /\ ev' = EvIdle
    <3>1. ev'.pc = "idle" /\ ev'.out = <<>>
      BY <2>6 DEF EvIdle
    <3>2. \A j : ~Dated(j)' /\ (Has(cmd[Gui].out, BadgesOf(j)) => Counted(j)')
      BY <2>1, <3>1, HasNothing, StatePrimed
    <3> QED
      BY <2>1, <2>4, <2>6, <3>1, <3>2 DEF RowMoves
  <2> QED
    BY <2>2, <2>5, <2>6
<1>4. CASE EventEmit
  <2> DEFINE f == Head(ev.out)
  <2>1. /\ ev.out # <<>> /\ Broadcast(f) /\ ev' = [ev EXCEPT !.out = Tail(ev.out)]
        /\ UNCHANGED <<chats, cmd, hist>>
    BY <1>4 DEF EventEmit, store
  <2>2. f \in Frames /\ \A P : Has(ev.out, P) <=> f \in P \/ Has(Tail(ev.out), P)
    BY <1>0, <2>1, OutTaken
  <2>3. ev'.pc = ev.pc /\ ev'.m = ev.m /\ ev'.out = Tail(ev.out)
    BY <1>0, <2>1 DEF EvState
  <2>4. sock'[Gui] = Append(sock[Gui], f)
    BY <2>1, GuiIsClient DEF Broadcast
  <2> HIDE DEF f
  <2>5. \A j : /\ Dated(j) <=> f \in MessagesOf(j) \/ Dated(j)'
               /\ Counted(j) => f \in BadgesOf(j) \/ Counted(j)'
    BY <2>1, <2>2, <2>3, StatePrimed DEF Dated, Counted
  <2>6. Pushes(f)
    BY <2>1, <2>4, <2>5 DEF Pushes
  <2>7. ev'.pc \notin {"increment", "select"}
    BY <1>00, <2>1, <2>3
  <2> QED
    BY <1>00, <2>1, <2>2, <2>5, <2>6, <2>7
<1> QED
  BY <1>1, <1>2, <1>3, <1>4 DEF EventStep

\* The commands of this GUI clear counters.
LEMMA CommandStepMoves ==
    ASSUME ~StoreMayFail, ListTyped, Orderly, CommandStep(Gui)
    PROVE  /\ UNCHANGED <<ev, hist>>
           /\ \/ UNCHANGED sock /\ \A j \in Chats : RowMoves(j)
              \/ \E f \in Frames : Pushes(f)
           /\ cmd'[Gui].pc \in {"idle", "clear", "reply"}
           /\ cmd'[Gui].pc # "reply" => cmd'[Gui].out = <<>>
           /\ cmd'[Gui].out \in Seq(Badges)
           /\ \A j \in Chats : (Dated(j)' <=> Dated(j)) /\ (chats[j] # NoRow => chats'[j] # NoRow)
<1>0. /\ chats \in ChatsTable /\ cmd \in [Clients -> CmdState] /\ cmd[Gui] \in CmdState
      /\ cmd[Gui].out \in Seq(Frames) /\ cmd[Gui].ok \in BOOLEAN
  BY GoroutinesTyped
<1>00. /\ cmd[Gui].pc \in {"idle", "clear", "reply"}
       /\ cmd[Gui].pc # "reply" => cmd[Gui].out = <<>>
       /\ cmd[Gui].out \in Seq(Badges)
  BY DEF Orderly
<1>1. ASSUME NEW rec, Begin(Gui, rec) PROVE cmd'[Gui] = rec
  BY <1>0, <1>1, GuiIsClient DEF Begin
<1>2. ClearUnread(Gui) \/ CommandEmit(Gui) \/ CommandReply(Gui)
  BY <1>00 DEF CommandStep, StoreSent, StoreDeleted, StoreEdited, StoreReaction
<1>3. UNCHANGED <<ev, hist>>
  BY <1>2 DEF ClearUnread, CommandEmit, CommandReply
<1>4. \A j : Dated(j)' <=> Dated(j)
  BY <1>3, StatePrimed DEF Dated
<1>5. CASE ClearUnread(Gui)
  <2>0. PICK c : c = cmd[Gui].chat
    OBVIOUS
  <2> DEFINE f == UnreadFrame(c, 0)
             rec == [Reply(cmd[Gui].ok) EXCEPT !.out = <<f>>]
  <2>1. /\ cmd[Gui].pc = "clear" /\ cmd[Gui].out = <<>> /\ UNCHANGED sock
        /\ chats' = ResetUnread(chats, c) /\ Begin(Gui, rec)
    BY <1>5, <1>00, <2>0 DEF ClearUnread
  <2>2. c \in Chats
    BY <1>0, <2>0, <2>1 DEF CmdState
  <2>3. f \in BadgesOf(c) /\ f \in Frames /\ f \in Badges
    <3>1. f \in BadgesOf(c)
      BY DEF BadgesOf
    <3>2. f \in Frames
      BY <2>2, OtherFramesTyped
    <3> QED
      BY <2>2, <3>1, <3>2 DEF Badges
  <2>4. rec.pc = "reply" /\ rec.out = <<f>>
    BY DEF Reply, CmdIdle
  <2>5. cmd'[Gui] = rec
    BY <1>1, <2>1
  <2> HIDE DEF f, rec
  <2>6. cmd'[Gui].pc = "reply" /\ cmd'[Gui].out = <<f>> /\ <<f>> \in Seq(Badges)
    BY <2>3, <2>4, <2>5
  <2>7. \A j : Counted(j) => Counted(j)'
    BY <1>3, <2>1, HasNothing, StatePrimed DEF Counted
  <2>8. Counted(c)'
    <3>1. Has(<<f>>, BadgesOf(c))
      BY <2>3, OutOf
    <3>2. Has(cmd'[Gui].out, BadgesOf(c))
      BY <2>6, <3>1
    <3> QED
      BY <3>2, StatePrimed
  <2>9. /\ \A k \in Chats : k # c => chats'[k] = chats[k]
        /\ chats[c] = NoRow => chats'[c] = NoRow
        /\ chats[c] # NoRow => /\ chats'[c] # NoRow /\ chats'[c].unread = 0
                               /\ chats'[c].last_ts = chats[c].last_ts
                               /\ chats'[c].muted = chats[c].muted
    BY <1>0, <2>1, <2>2, RowTouched
  <2>10. \A j \in Chats : RowMoves(j)
    <3>1. RowMoves(c)
      BY <1>4, <2>7, <2>8, <2>9 DEF RowMoves
    <3>2. ASSUME NEW k \in Chats, k # c PROVE RowMoves(k)
      <4>1. chats'[k] = chats[k]
        BY <2>9, <3>2
      <4> QED
        BY <1>4, <2>7, <4>1 DEF RowMoves
    <3> QED
      BY <3>1, <3>2
  <2>11. \A j \in Chats : chats[j] # NoRow => chats'[j] # NoRow
    BY <2>9
  <2> QED
    BY <1>3, <1>4, <2>1, <2>6, <2>10, <2>11
<1>6. CASE CommandEmit(Gui)
  <2> DEFINE f == Head(cmd[Gui].out)
  <2>1. /\ cmd[Gui].out # <<>> /\ Broadcast(f)
        /\ cmd' = [cmd EXCEPT ![Gui].out = Tail(cmd[Gui].out)] /\ UNCHANGED chats
    BY <1>6 DEF CommandEmit, store
  <2>2. f \in Frames /\ \A P : Has(cmd[Gui].out, P) <=> f \in P \/ Has(Tail(cmd[Gui].out), P)
    BY <1>0, <2>1, OutTaken
  <2>3. cmd'[Gui].pc = cmd[Gui].pc /\ cmd'[Gui].out = Tail(cmd[Gui].out)
    BY <1>0, <2>1, GuiIsClient DEF CmdState
  <2>4. f \in Badges /\ Tail(cmd[Gui].out) \in Seq(Badges)
    BY <1>00, <2>1
  <2>5. sock'[Gui] = Append(sock[Gui], f)
    BY <2>1, GuiIsClient DEF Broadcast
  <2> HIDE DEF f
  <2>6. \A j : f \notin MessagesOf(j)
    BY <2>4, FrameKinds DEF Badges
  <2>7. \A j : Counted(j) => f \in BadgesOf(j) \/ Counted(j)'
    BY <1>3, <2>2, <2>3, StatePrimed DEF Counted
  <2>8. Pushes(f)
    BY <1>4, <2>1, <2>5, <2>6, <2>7 DEF Pushes
  <2> QED
    BY <1>00, <1>3, <1>4, <2>1, <2>2, <2>3, <2>4, <2>8
<1>7. CASE CommandReply(Gui)
  <2> DEFINE f == ResponseFrame(cmd[Gui].ok)
  <2>1. /\ cmd[Gui].out = <<>> /\ Begin(Gui, CmdIdle) /\ UNCHANGED chats
        /\ sock' = [sock EXCEPT ![Gui] = Append(sock[Gui], f)]
    BY <1>7 DEF CommandReply, store
  <2>2. f \in Frames /\ f.ev = "response"
    BY <1>0, OtherFramesTyped DEF ResponseFrame
  <2>3. sock'[Gui] = Append(sock[Gui], f)
    BY <2>1, GuiIsClient DEF ListTyped, SocketsOf
  <2>4. cmd'[Gui] = CmdIdle
    BY <1>1, <2>1
  <2>5. cmd'[Gui].pc = "idle" /\ cmd'[Gui].out = <<>> /\ cmd'[Gui].out \in Seq(Badges)
    <3>1. CmdIdle.pc = "idle" /\ CmdIdle.out = <<>>
      BY DEF CmdIdle
    <3>2. <<>> \in Seq(Badges)
      OBVIOUS
    <3> QED
      BY <2>4, <3>1, <3>2
  <2> HIDE DEF f
  <2>6. \A j : f \notin MessagesOf(j)
    BY <2>2, FrameKinds
  <2>7. \A j : Counted(j) => Counted(j)'
    BY <1>3, <2>1, HasNothing, StatePrimed DEF Counted
  <2>8. Pushes(f)
    BY <1>4, <2>1, <2>3, <2>6, <2>7 DEF Pushes
  <2> QED
    BY <1>3, <1>4, <2>1, <2>2, <2>5, <2>8
<1> QED
  BY <1>2, <1>5, <1>6, <1>7

-----------------------------------------------------------------------------
(* The invariant, step by step.                                            *)

LEMMA HotPrimed ==
    Hot' <=> \/ Asked(reqs') \/ query' # NoQuery
             \/ hist'.pc # "idle" \/ Has(hist'.out, Synced) \/ Has(sock'[Gui], Synced)
BY DEF Hot, Asked, Has, Synced, ChatsReq, NoQuery, HistoryFrame

LEMMA LeadingPrimed ==
    ASSUME \A j \in Chats : \A z : Leads(sock'[Gui], Moves(j), rows'[j], z) => Fits(j, z)'
    PROVE  Leading'
BY DEF Leading

LEMMA OrderlyPrimed ==
    Orderly' <=>
      /\ cmd'[Gui].pc \in {"idle", "clear", "reply"}
      /\ cmd'[Gui].pc # "reply" => cmd'[Gui].out = <<>>
      /\ cmd'[Gui].out \in Seq(Badges) /\ hist'.out \in Seq(Synced)
      /\ ev'.pc \in {"increment", "select"} => ev'.out = <<>>
      /\ \A j \in Chats : Dated(j)' => chats'[j] # NoRow
      /\ query' # NoQuery => \A j \in Chats : query'.rows[j] # NoRow => chats'[j] # NoRow
BY DEF Orderly

LEMMA ListInvPrimed ==
    ListInv' <=> /\ NotifierInv' /\ rows' \in Listings /\ Orderly'
                 /\ up' => Hot' \/ Leading'
BY DEF ListInv

\* Where the frames lead is where the last one turns what the others lead to.
LEMMA LedOn ==
    ASSUME ListTyped, NEW j \in Chats, NEW f \in GuiFrames, NEW a, NEW z,
           Leads(Append(sock[Gui], f), Moves(j), a, z)
    PROVE  \E y \in Shown : Leads(sock[Gui], Moves(j), a, y) /\ Becomes(j, y, f, z)
<1>1. sock[Gui] \in Seq(GuiFrames)
  BY GuiIsClient DEF ListTyped, SocketsOf
<1>2. PICK y : Leads(sock[Gui], Moves(j), a, y) /\ <<y, f, z>> \in Moves(j)
  BY <1>1, LeadsAppended
<1>3. y \in Shown /\ Becomes(j, y, f, z)
  BY <1>2 DEF Moves
<1> QED
  BY <1>2, <1>3

LEMMA LeadingStored ==
    ASSUME Leading, UNCHANGED <<rows, skewed>>, sock'[Gui] = sock[Gui],
           \A j \in Chats : RowMoves(j)
    PROVE  Leading'
<1>1. ASSUME NEW j \in Chats, NEW z, Leads(sock'[Gui], Moves(j), rows'[j], z)
      PROVE  Fits(j, z)'
  <2>1. Leads(sock[Gui], Moves(j), rows[j], z)
    BY <1>1
  <2>2. Fits(j, z)
    BY <2>1 DEF Leading
  <2> QED
    BY <2>2, FitsStored
<1> QED
  BY <1>1, LeadingPrimed

LEMMA LeadingPushed ==
    ASSUME ListTyped, Orderly, Leading, UNCHANGED rows, NEW f \in Frames, Pushes(f),
           skewed' = (skewed \ {s.key : s \in Says(f)})
                       \cup {s.key : s \in {r \in Says(f) : ~r.right}}
    PROVE  Leading'
<1>0. f \in GuiFrames
  BY EngineFrames
<1>1. ASSUME NEW j \in Chats, NEW z, Leads(sock'[Gui], Moves(j), rows'[j], z)
      PROVE  Fits(j, z)'
  <2>1. Leads(Append(sock[Gui], f), Moves(j), rows[j], z)
    BY <1>1 DEF Pushes
  <2>2. PICK y \in Shown : Leads(sock[Gui], Moves(j), rows[j], y) /\ Becomes(j, y, f, z)
    BY <1>0, <2>1, LedOn
  <2>3. Fits(j, y)
    BY <2>2 DEF Leading
  <2> QED
    BY <2>2, <2>3, FitsPushed
<1> QED
  BY <1>1, LeadingPrimed

LEMMA OneSynced == <<HistoryFrame>> \in Seq(Synced) /\ Has(<<HistoryFrame>>, Synced)
<1>1. HistoryFrame \in Synced
  BY DEF Synced
<1>2. Len(<<HistoryFrame>>) = 1 /\ <<HistoryFrame>>[1] = HistoryFrame
  OBVIOUS
<1> QED
  BY <1>1, <1>2 DEF Has

\* A history sync is told to the GUI after its last statement.
LEMMA HistoryMoves ==
    ASSUME ListTyped, Orderly, HistoryArrives \/ HistoryStep
    PROVE  /\ UNCHANGED <<ev, cmd>> /\ hist'.out \in Seq(Synced)
           /\ \A j \in Chats : chats[j] # NoRow => chats'[j] # NoRow
           /\ hist'.pc # "idle" \/ Has(hist'.out, Synced) \/ Has(sock'[Gui], Synced)
<1>0. /\ chats \in ChatsTable /\ hist \in HistState /\ hist.out \in Seq(Synced)
      /\ <<>> \in Seq(Synced)
  BY GoroutinesTyped DEF Orderly
<1>1. CASE HistoryArrives
  <2>1. PICK j \in Chats, batch \in SUBSET Msgs :
           /\ UNCHANGED chats \/ chats' \in Attempt(chats, SetChatName(chats, j))
           /\ hist' = [pc |-> "put", chat |-> j, batch |-> batch, out |-> <<>>]
           /\ UNCHANGED <<ev, cmd>>
    BY <1>1 DEF HistoryArrives, HistoryConversation
  <2>2. hist'.pc = "put" /\ hist'.out = <<>>
    BY <2>1
  <2>3. UNCHANGED chats \/ chats' = SetChatName(chats, j)
    BY <2>1 DEF Attempt
  <2>4. \A k \in Chats : chats[k] # NoRow => chats'[k] # NoRow
    BY <1>0, <2>3, RowTouched
  <2> QED
    BY <1>0, <2>1, <2>2, <2>4
<1>2. CASE HistoryPut
  <2>1. /\ hist.pc = "put" /\ hist' = [HistIdle EXCEPT !.pc = "next"] /\ UNCHANGED <<ev, cmd>>
        /\ \/ UNCHANGED chats
           \/ \E last \in NewestOf(hist.batch) :
                chats' = UpdateChat(chats, hist.chat, Ts[last], Body[last])
    BY <1>2 DEF HistoryPut
  <2>2. hist'.pc = "next" /\ hist'.out = <<>>
    BY <2>1 DEF HistIdle
  <2>3. hist.chat \in Chats /\ hist.batch \subseteq Msgs
    BY <1>0, <2>1 DEF HistState
  <2>4. ASSUME NEW last \in NewestOf(hist.batch),
               chats' = UpdateChat(chats, hist.chat, Ts[last], Body[last])
        PROVE  \A k \in Chats : chats[k] # NoRow => chats'[k] # NoRow
    <3>1. Ts[last] \in Nat /\ Body[last] \in Texts
      BY <2>3, StoreAssumption DEF NewestOf
    <3> QED
      BY <1>0, <2>3, <2>4, <3>1, SummaryOf
  <2> QED
    BY <1>0, <2>1, <2>2, <2>4
<1>3. CASE HistoryDone
  <2>1. /\ hist' = [HistIdle EXCEPT !.out = <<HistoryFrame>>]
        /\ UNCHANGED <<ev, cmd, chats>>
    BY <1>3 DEF HistoryDone, store
  <2>2. hist'.out = <<HistoryFrame>>
    BY <2>1 DEF HistIdle
  <2> QED
    BY <2>1, <2>2, OneSynced
<1>4. CASE HistoryEmit
  <2> DEFINE f == Head(hist.out)
  <2>1. /\ hist.out # <<>> /\ Broadcast(f) /\ hist' = [hist EXCEPT !.out = Tail(hist.out)]
        /\ UNCHANGED <<ev, cmd, chats>>
    BY <1>4 DEF HistoryEmit, store
  <2>2. hist'.out = Tail(hist.out)
    BY <1>0, <2>1 DEF HistState
  <2>3. f \in Synced /\ Tail(hist.out) \in Seq(Synced)
    BY <1>0, <2>1
  <2>4. sock'[Gui] = Append(sock[Gui], f)
    BY <2>1, GuiIsClient DEF Broadcast
  <2>5. sock[Gui] \in Seq(GuiFrames) /\ f \in GuiFrames
    <3>1. HistoryFrame \in Frames
      BY OtherFramesTyped
    <3> QED
      BY <2>3, <3>1, EngineFrames, GuiIsClient DEF ListTyped, SocketsOf, Synced
  <2> HIDE DEF f
  <2>6. Has(sock'[Gui], Synced)
    BY <2>3, <2>4, <2>5, HasAppended
  <2> QED
    BY <2>1, <2>2, <2>3, <2>6
<1> QED
  BY <1>1, <1>2, <1>3, <1>4 DEF HistoryStep

\* What was outdated when it was said.
LEMMA SkewedAfter ==
    ASSUME ListTyped, DaemonStep
    PROVE  /\ sock'[Gui] = sock[Gui] => skewed' = skewed
           /\ \A f \in Frames : sock'[Gui] = Append(sock[Gui], f) =>
                skewed' = (skewed \ {s.key : s \in Says(f)})
                            \cup {s.key : s \in {r \in Says(f) : ~r.right}}
<1>1. PICK said : /\ said = IF Len(sock'[Gui]) > Len(sock[Gui])
                            THEN Says(sock'[Gui][Len(sock'[Gui])]) ELSE {}
                  /\ skewed' = (skewed \ {s.key : s \in said})
                                 \cup {s.key : s \in {r \in said : ~r.right}}
  BY DEF DaemonStep
<1>2. sock[Gui] \in Seq(GuiFrames) /\ Len(sock[Gui]) \in Nat
  BY GuiIsClient DEF ListTyped, SocketsOf
<1>3. ASSUME sock'[Gui] = sock[Gui] PROVE skewed' = skewed
  <2>1. ~(Len(sock'[Gui]) > Len(sock[Gui]))
    BY <1>2, <1>3
  <2>2. said = {}
    BY <1>1, <2>1
  <2> QED
    BY <1>1, <2>2
<1>4. ASSUME NEW f \in Frames, sock'[Gui] = Append(sock[Gui], f)
      PROVE  skewed' = (skewed \ {s.key : s \in Says(f)})
                         \cup {s.key : s \in {r \in Says(f) : ~r.right}}
  <2>1. f \in GuiFrames
    BY EngineFrames
  <2>2. /\ Len(sock'[Gui]) > Len(sock[Gui])
        /\ sock'[Gui][Len(sock'[Gui])] = f
    BY <1>2, <1>4, <2>1
  <2>3. said = Says(f)
    BY <1>1, <2>2
  <2> QED
    BY <1>1, <2>3
<1> QED
  BY <1>3, <1>4

\* A row that moves remains.
LEMMA MovesRemain ==
    ASSUME NEW j \in Chats, RowMoves(j), chats[j] # NoRow
    PROVE  chats'[j] # NoRow
BY DEF RowMoves

LEMMA DaemonList ==
    ASSUME ~StoreMayFail, ListInv, DaemonStep
    PROVE  ListInv'
<1>0. NotifierInv /\ ListTyped /\ rows \in Listings /\ Orderly /\ (up => Hot \/ Leading)
  BY DEF ListInv, NotifierInv
<1>1. NotifierInv' /\ UNCHANGED <<up, reqs, query, rows>>
  BY <1>0, DaemonNotifier DEF DaemonStep
<1>2. /\ cmd[Gui].pc \in {"idle", "clear", "reply"}
      /\ cmd[Gui].pc # "reply" => cmd[Gui].out = <<>>
      /\ cmd[Gui].out \in Seq(Badges) /\ hist.out \in Seq(Synced)
      /\ ev.pc \in {"increment", "select"} => ev.out = <<>>
      /\ \A j \in Chats : Dated(j) => chats[j] # NoRow
      /\ query # NoQuery => \A j \in Chats : query.rows[j] # NoRow => chats[j] # NoRow
  BY <1>0 DEF Orderly
<1>3. CASE HistoryArrives \/ HistoryStep
  <2>1. /\ UNCHANGED <<ev, cmd>> /\ hist'.out \in Seq(Synced)
        /\ \A j \in Chats : chats[j] # NoRow => chats'[j] # NoRow
        /\ hist'.pc # "idle" \/ Has(hist'.out, Synced) \/ Has(sock'[Gui], Synced)
    BY <1>0, <1>3, HistoryMoves
  <2>2. Hot'
    BY <2>1, HotPrimed
  <2>3. \A j \in Chats : Dated(j)' => chats'[j] # NoRow
    BY <1>2, <2>1, StatePrimed DEF Dated
  <2>4. Orderly'
    BY <1>1, <1>2, <2>1, <2>3, OrderlyPrimed
  <2> QED
    BY <1>0, <1>1, <2>2, <2>4, ListInvPrimed
<1>4. CASE EventArrives \/ EventStep \/ CommandStep(Gui)
  <2>1. /\ UNCHANGED hist /\ cmd'[Gui].pc \in {"idle", "clear", "reply"}
        /\ cmd'[Gui].pc # "reply" => cmd'[Gui].out = <<>>
        /\ cmd'[Gui].out \in Seq(Badges)
        /\ ev'.pc \in {"increment", "select"} => ev'.out = <<>>
        /\ \A j \in Chats : Dated(j)' => chats'[j] # NoRow
        /\ \/ UNCHANGED sock /\ \A j \in Chats : RowMoves(j)
           \/ \E f \in Frames : Pushes(f)
    <3>1. CASE EventArrives
      BY <1>0, <1>2, <3>1, EventArrivesMoves
    <3>2. CASE EventStep
      BY <1>0, <1>2, <3>2, EventStepMoves
    <3>3. CASE CommandStep(Gui)
      BY <1>0, <1>2, <3>3, CommandStepMoves
    <3> QED
      BY <1>4, <3>1, <3>2, <3>3
  <2>2. \A j \in Chats : chats[j] # NoRow => chats'[j] # NoRow
    BY <2>1, MovesRemain DEF Pushes
  <2>3. Orderly'
    BY <1>1, <1>2, <2>1, <2>2, OrderlyPrimed
  <2>4. sock[Gui] \in Seq(GuiFrames)
    BY <1>0, GuiIsClient DEF ListTyped, SocketsOf
  <2>5. CASE UNCHANGED sock /\ \A j \in Chats : RowMoves(j)
    <3>1. UNCHANGED skewed /\ sock'[Gui] = sock[Gui]
      BY <1>0, <2>5, SkewedAfter
    <3>2. Hot => Hot'
      BY <1>1, <2>1, <3>1, HotPrimed DEF Hot
    <3>3. Leading => Leading'
      BY <1>1, <2>5, <3>1, LeadingStored
    <3> QED
      BY <1>0, <1>1, <2>3, <3>2, <3>3, ListInvPrimed
  <2>6. CASE \E f \in Frames : Pushes(f)
    <3>1. PICK f \in Frames : Pushes(f)
      BY <2>6
    <3>2. f \in GuiFrames /\ sock'[Gui] = Append(sock[Gui], f)
      BY <3>1, EngineFrames DEF Pushes
    <3>3. skewed' = (skewed \ {s.key : s \in Says(f)})
                       \cup {s.key : s \in {r \in Says(f) : ~r.right}}
      BY <1>0, <3>2, SkewedAfter
    <3>4. Has(sock[Gui], Synced) => Has(sock'[Gui], Synced)
      BY <2>4, <3>2, HasAppended
    <3>5. Hot => Hot'
      BY <1>1, <2>1, <3>4, HotPrimed DEF Hot
    <3>6. Leading => Leading'
      BY <1>0, <1>1, <3>1, <3>3, LeadingPushed
    <3> QED
      BY <1>0, <1>1, <2>3, <3>5, <3>6, ListInvPrimed
  <2> QED
    BY <2>1, <2>5, <2>6
<1> QED
  BY <1>3, <1>4 DEF DaemonStep

\* ListChats and ResolveName: a listing is under way.
LEMMA ListingList ==
    ASSUME ListInv, ListChats \/ ResolveName
    PROVE  ListInv'
<1>0. /\ NotifierInv /\ ListTyped /\ rows \in Listings /\ Orderly
      /\ chats \in ChatsTable /\ query \in Queries \cup {NoQuery}
  BY GoroutinesTyped DEF ListInv, NotifierInv, ListTyped
<1>1. NotifierInv' /\ UNCHANGED <<up, rows, ev, cmd, hist>>
  BY <1>0, ListNotifier DEF ListChats, ResolveName, vars
<1>2. CASE ListChats
  <2>1. UNCHANGED chats /\ query'.pc = "names" /\ query'.rows = Entries(chats)
    BY <1>2 DEF ListChats, vars
  <2>2. query' # NoQuery
    BY <2>1 DEF NoQuery
  <2>3. \A j \in Chats : query'.rows[j] # NoRow => chats'[j] # NoRow
    BY <1>0, <2>1, EntriesTyped
  <2>4. \A j \in Chats : Dated(j)' => chats'[j] # NoRow
    BY <1>0, <1>1, <2>1, StatePrimed DEF Orderly, Dated
  <2>5. Orderly'
    BY <1>0, <1>1, <2>3, <2>4, OrderlyPrimed DEF Orderly
  <2> QED
    BY <1>0, <1>1, <2>2, <2>5, HotPrimed, ListInvPrimed
<1>3. CASE ResolveName
  <2>1. PICK j \in query.todo :
               /\ chats' = SetChatName(chats, j)
               /\ query' = [query EXCEPT !.todo = @ \ {j}, !.rows[j].named = TRUE]
    BY <1>3 DEF ResolveName
  <2>2. query \in Queries /\ query # NoQuery
    <3>1. query.pc = "names" /\ NoQuery.pc = "none"
      BY <1>3 DEF ResolveName, NoQuery
    <3> QED
      BY <1>0, <3>1
  <2>3. query.rows \in Listings /\ j \in Chats /\ query.rows[j] # NoRow
    BY <2>1, <2>2 DEF Queries
  <2>4. /\ query'.pc = "names"
        /\ query'.rows = [query.rows EXCEPT ![j] = [query.rows[j] EXCEPT !.named = TRUE]]
    BY <2>1, <2>2 DEF Queries, ResolveName
  <2>5. query' # NoQuery
    BY <2>4 DEF NoQuery
  <2>6. /\ \A k \in Chats : k # j => query'.rows[k] = query.rows[k]
        /\ \A k \in Chats : k # j => chats'[k] = chats[k]
        /\ chats'[j] # NoRow
    BY <1>0, <2>1, <2>3, <2>4, RowTouched DEF Listings
  <2>7. \A k \in Chats : query'.rows[k] # NoRow => chats'[k] # NoRow
    BY <1>0, <2>2, <2>6 DEF Orderly
  <2>8. \A k \in Chats : Dated(k)' => chats'[k] # NoRow
    BY <1>0, <1>1, <2>6, StatePrimed DEF Orderly, Dated
  <2>9. Orderly'
    BY <1>0, <1>1, <2>7, <2>8, OrderlyPrimed DEF Orderly
  <2> QED
    BY <1>0, <1>1, <2>5, <2>9, HotPrimed, ListInvPrimed
<1> QED
  BY <1>2, <1>3

LEMMA RowStays ==
    ASSUME UNCHANGED <<chats, ev>>, UNCHANGED cmd[Gui].out
    PROVE  \A j \in Chats : RowMoves(j) /\ (Dated(j)' <=> Dated(j))
BY StatePrimed DEF RowMoves, Dated, Counted

\* The fields in which a listing differs are said to be outdated.
LEMMA DiffersSaid ==
    ASSUME NEW listed \in Listings, NEW t \in ChatsTable, NEW j \in Chats, NEW s,
           \A k \in Chats : {k} \X Differs(listed, t, k) \subseteq s
    PROVE  /\ listed[j] = NoRow /\ t[j] # NoRow => {j} \X Fields \subseteq s
           /\ listed[j] # NoRow /\ t[j] # NoRow =>
                /\ <<j, "ts">> \in s \/ listed[j].ts = t[j].last_ts
                /\ <<j, "unread">> \in s \/ listed[j].unread = t[j].unread
                /\ <<j, "muted">> \in s \/ listed[j].muted = t[j].muted
<1>1. ASSUME listed[j] = NoRow, t[j] # NoRow PROVE {j} \X Fields \subseteq s
  <2>1. Differs(listed, t, j) = Fields
    BY <1>1 DEF Differs
  <2> QED
    BY <2>1
<1>2. ASSUME listed[j] # NoRow, t[j] # NoRow
      PROVE  /\ <<j, "ts">> \in s \/ listed[j].ts = t[j].last_ts
             /\ <<j, "unread">> \in s \/ listed[j].unread = t[j].unread
             /\ <<j, "muted">> \in s \/ listed[j].muted = t[j].muted
  <2>1. Differs(listed, t, j) = {fld \in Fields \ {"row"} : listed[j][fld] # Entry(t[j])[fld]}
    BY <1>2 DEF Differs
  <2>2. \A fld \in Fields \ {"row"} : <<j, fld>> \in s \/ listed[j][fld] = Entry(t[j])[fld]
    BY <2>1
  <2>3. /\ <<j, "ts">> \in s \/ listed[j].ts = Entry(t[j]).ts
        /\ <<j, "unread">> \in s \/ listed[j].unread = Entry(t[j]).unread
        /\ <<j, "muted">> \in s \/ listed[j].muted = Entry(t[j]).muted
    BY <2>2 DEF Fields
  <2>4. t[j] \in ChatRow
    BY <1>2 DEF ChatsTable
  <2> QED
    BY <2>3, <2>4, EntryOf
<1> QED
  BY <1>1, <1>2

\* A response puts the list where it says.
LEMMA ReplyList ==
    ASSUME ListInv, ListReply
    PROVE  ListInv'
<1> DEFINE f == ChatsFrame(query.rows)
<1>0. /\ NotifierInv /\ ListTyped /\ rows \in Listings /\ Orderly
      /\ chats \in ChatsTable /\ query \in Queries \cup {NoQuery}
      /\ sock[Gui] \in Seq(GuiFrames)
  BY GoroutinesTyped, GuiIsClient DEF ListInv, NotifierInv, ListTyped, SocketsOf
<1>1. /\ NotifierInv' /\ UNCHANGED <<up, reqs, rows, chats, ev, cmd, hist>>
      /\ query # NoQuery /\ query' = NoQuery
      /\ sock' = [sock EXCEPT ![Gui] = Append(@, f)]
      /\ skewed' = UNION {{j} \X Differs(query.rows, chats, j) : j \in Chats}
  BY <1>0, ListNotifier DEF ListReply, Respond, store, NoQuery
<1>2. query.rows \in Listings /\ f \in GuiFrames /\ f.ev = "chats" /\ f.rows = query.rows
  BY <1>0, <1>1 DEF Queries, GuiFrames, ChatsFrame
<1> HIDE DEF f
<1>3. sock'[Gui] = Append(sock[Gui], f)
  BY <1>0, <1>1, GuiIsClient DEF ListTyped, SocketsOf
<1>4. \A j \in Chats : RowMoves(j) /\ (Dated(j)' <=> Dated(j))
  BY <1>1, RowStays
<1>5. Orderly'
  BY <1>0, <1>1, <1>4, OrderlyPrimed DEF Orderly
<1>6. \A k \in Chats : {k} \X Differs(query.rows, chats, k) \subseteq skewed'
  BY <1>1
<1>7. ASSUME NEW j \in Chats, NEW z, Leads(sock'[Gui], Moves(j), rows'[j], z)
      PROVE  Fits(j, z)'
  <2>1. Leads(Append(sock[Gui], f), Moves(j), rows[j], z)
    BY <1>1, <1>3, <1>7
  <2>2. PICK y \in Shown : Becomes(j, y, f, z)
    BY <1>0, <1>2, <2>1, LedOn
  <2>3. z = query.rows[j]
    BY <1>2, <2>2 DEF Becomes
  <2>4. query.rows[j] # NoRow => chats[j] # NoRow
    BY <1>0, <1>1 DEF Orderly
  <2>5. /\ z = NoRow /\ chats[j] # NoRow => {j} \X Fields \subseteq skewed'
        /\ z # NoRow /\ chats[j] # NoRow =>
             /\ <<j, "ts">> \in skewed' \/ z.ts = chats[j].last_ts
             /\ <<j, "unread">> \in skewed' \/ z.unread = chats[j].unread
             /\ <<j, "muted">> \in skewed' \/ z.muted = chats[j].muted
    BY <1>0, <1>2, <1>6, <2>3, DiffersSaid
  <2> QED
    BY <1>1, <2>3, <2>4, <2>5, FitsPrimed
<1>8. Leading'
  BY <1>7, LeadingPrimed
<1> QED
  BY <1>0, <1>1, <1>5, <1>8, ListInvPrimed

\* A chat that is muted will be listed; the other commands write nothing yet.
LEMMA DispatchList ==
    ASSUME ListInv, Dispatch
    PROVE  ListInv'
<1> DEFINE e == Head(reqs)
<1>0. /\ NotifierInv /\ ListTyped /\ rows \in Listings /\ Orderly
      /\ chats \in ChatsTable /\ reqs \in Seq(Commands) /\ cmd \in [Clients -> CmdState]
      /\ up => (Hot \/ Leading) /\ Relisted(reqs)
  BY GoroutinesTyped DEF ListInv, NotifierInv, ListTyped, Informed
<1>1. /\ reqs # <<>> /\ reqs' = Tail(reqs) /\ query = NoQuery /\ cmd[Gui].pc = "idle"
      /\ e.method \in {"set_active_chat", "mark_read", "set_muted"}
      /\ UNCHANGED <<up, query, rows, skewed, sock, ev, hist>>
  BY DEF Dispatch, Takes, HandlerFree, CmdFree, SetActiveChat, MarkRead, SetChatFlag
<1>2. NotifierInv' /\ cmd[Gui].out = <<>>
  BY <1>0, <1>1, DispatchNotifier DEF Orderly
<1>3. e \in Commands /\ e # ChatsReq
  BY <1>0, <1>1, Methods
<1>4. up => /\ e.method = "set_muted" => Asked(Tail(reqs))
            /\ Asked(reqs) <=> Asked(Tail(reqs))
  BY <1>0, <1>1, <1>3, CommandTaken
<1>5. e.method = "set_muted" => e.chat \in Chats /\ e.muted \in BOOLEAN
  BY <1>3 DEF Commands, ChatsReq, ActiveReq, ReadReq, MuteReq
<1>6. \/ e.method = "set_active_chat" /\ SetActiveChat(Gui, e.chat)
      \/ e.method = "mark_read" /\ \E ok \in BOOLEAN : MarkRead(Gui, e.chat, ok)
      \/ /\ e.method = "set_muted"
         /\ SetChatFlag(Gui, SetMuted(chats, e.chat, e.muted))
  BY DEF Dispatch, Takes
<1> HIDE DEF e
<1>7. cmd'[Gui].pc \in {"clear", "reply"} /\ cmd'[Gui].out = <<>>
  <2>1. ASSUME NEW rec, Begin(Gui, rec) PROVE cmd'[Gui] = rec
    BY <1>0, <2>1, GuiIsClient DEF Begin
  <2>2. \A ok : Reply(ok).pc = "reply" /\ Reply(ok).out = <<>>
    BY DEF Reply, CmdIdle
  <2>3. \A j, ok : /\ [CmdIdle EXCEPT !.pc = "clear", !.chat = j].pc = "clear"
                   /\ [CmdIdle EXCEPT !.pc = "clear", !.chat = j].out = <<>>
                   /\ [CmdIdle EXCEPT !.pc = "clear", !.chat = j, !.ok = ok].pc = "clear"
                   /\ [CmdIdle EXCEPT !.pc = "clear", !.chat = j, !.ok = ok].out = <<>>
    BY DEF CmdIdle
  <2>4. CASE SetActiveChat(Gui, e.chat)
    <3>1. \/ Begin(Gui, Reply(TRUE))
          \/ Begin(Gui, [CmdIdle EXCEPT !.pc = "clear", !.chat = e.chat])
      BY <2>4 DEF SetActiveChat
    <3> QED
      BY <2>1, <2>2, <2>3, <3>1
  <2>5. CASE \E ok \in BOOLEAN : MarkRead(Gui, e.chat, ok)
    <3>1. PICK ok \in BOOLEAN : MarkRead(Gui, e.chat, ok)
      BY <2>5
    <3> DEFINE rec == [CmdIdle EXCEPT !.pc = "clear", !.chat = e.chat, !.ok = ok]
    <3>2. Begin(Gui, rec)
      BY <3>1 DEF MarkRead
    <3>3. rec.pc = "clear" /\ rec.out = <<>>
      BY <2>3
    <3>4. cmd'[Gui] = rec
      BY <2>1, <3>2
    <3> QED
      BY <3>3, <3>4
  <2>6. CASE SetChatFlag(Gui, SetMuted(chats, e.chat, e.muted))
    BY <2>1, <2>2, <2>6 DEF SetChatFlag
  <2> QED
    BY <1>6, <2>4, <2>5, <2>6
<1>8. <<>> \in Seq(Badges)
  OBVIOUS
<1>9. \A j \in Chats : Dated(j)' <=> Dated(j)
  BY <1>1, StatePrimed DEF Dated
<1>10. \A j \in Chats : chats[j] # NoRow => chats'[j] # NoRow
  <2>1. CASE UNCHANGED chats
    BY <2>1
  <2>2. CASE e.method = "set_muted" /\ chats' = SetMuted(chats, e.chat, e.muted)
    <3>1. ASSUME chats[e.chat] # NoRow
          PROVE  [chats[e.chat] EXCEPT !.muted = e.muted] \in ChatRow
      <4>1. chats[e.chat] \in ChatRow
        BY <1>0, <1>5, <2>2, <3>1 DEF ChatsTable
      <4> QED
        BY <1>5, <2>2, <4>1 DEF ChatRow
    <3>2. \/ UNCHANGED chats
          \/ /\ chats[e.chat] # NoRow
             /\ chats' = [chats EXCEPT ![e.chat] = [chats[e.chat] EXCEPT !.muted = e.muted]]
      BY <2>2 DEF SetMuted, UpdateChatRow
    <3> QED
      BY <1>0, <3>1, <3>2, StoreAssumption DEF ChatsTable
  <2> QED
    BY <1>6, <2>1, <2>2 DEF SetActiveChat, MarkRead, SetChatFlag, store
<1>11. Orderly'
  BY <1>0, <1>1, <1>7, <1>8, <1>9, <1>10, OrderlyPrimed DEF Orderly
<1>12. CASE e.method = "set_muted"
  BY <1>0, <1>1, <1>2, <1>4, <1>11, <1>12, HotPrimed, ListInvPrimed
<1>13. CASE e.method # "set_muted"
  <2>1. UNCHANGED chats
    BY <1>6, <1>13 DEF SetActiveChat, MarkRead, store
  <2>2. UNCHANGED cmd[Gui].out
    BY <1>2, <1>7
  <2>3. \A j \in Chats : RowMoves(j)
    BY <1>1, <2>1, <2>2, RowStays
  <2>4. Leading => Leading'
    BY <1>1, <2>3, LeadingStored
  <2>5. up /\ Hot => Hot'
    BY <1>1, <1>4, HotPrimed DEF Hot
  <2> QED
    BY <1>0, <1>1, <1>2, <1>11, <2>4, <2>5, ListInvPrimed
<1> QED
  BY <1>12, <1>13

\* Reading a frame turns every entry as the frame says.
LEMMA EntriesRead ==
    ASSUME ListTyped, rows \in Listings, GuiRead
    PROVE  /\ rows' \in Listings
           /\ \A j \in Chats : Becomes(j, rows[j], Head(sock[Gui]), rows'[j])
<1> DEFINE f == Head(sock[Gui])
<1>0. sock[Gui] \in Seq(GuiFrames) /\ sock[Gui] # <<>>
  BY GuiIsClient DEF ListTyped, SocketsOf, GuiRead, Reading
<1>1. f \in GuiFrames
  BY <1>0
<1>2. /\ f.ev = "message" => f \in MessagesOf(ChatOf[f.m]) /\ f.m \in Msgs
      /\ f.ev = "chat_unread" => f \in BadgesOf(f.chat) /\ f.chat \in Chats
      /\ f.ev = "chats" => f.rows \in Listings
      /\ \A j : /\ f \in MessagesOf(j) => f.ev = "message" /\ ChatOf[f.m] = j
                /\ f \in BadgesOf(j) => f.ev = "chat_unread" /\ f.chat = j
  BY <1>1, FrameKinds
<1>3. /\ f.ev = "chats" => rows' = f.rows
      /\ f.ev = "message" =>
           rows' = [rows EXCEPT ![ChatOf[f.m]] =
                      [(IF @ = NoRow THEN Entry(FreshChat) ELSE @) EXCEPT !.ts = Ts[f.m]]]
      /\ f.ev = "chat_unread" =>
           rows' = IF rows[f.chat] = NoRow THEN rows
                   ELSE [rows EXCEPT ![f.chat].unread = f.unread]
      /\ f.ev \notin {"chats", "message", "chat_unread"} => UNCHANGED rows
  <2>1. f.ev = "chats" => OnChats(f.rows)
    BY DEF GuiRead, Reading
  <2>2. f.ev = "message" => OnMessage(f.m)
    BY DEF GuiRead, Reading
  <2>3. f.ev = "chat_unread" => OnChatUnread(f.chat, f.unread)
    BY DEF GuiRead, Reading
  <2>4. f.ev = "history_sync" => UNCHANGED rows
    BY DEF GuiRead, Reading, OnHistorySync
  <2>5. f.ev \notin {"chats", "message", "chat_unread", "history_sync"} => UNCHANGED rows
    BY DEF GuiRead, Reading
  <2> QED
    BY <2>1, <2>2, <2>3, <2>4, <2>5 DEF OnChats, OnMessage, OnChatUnread
<1> HIDE DEF f
<1>4. \A j \in Chats : Becomes(j, rows[j], f, rows'[j])
  <2> SUFFICES ASSUME NEW j \in Chats PROVE Becomes(j, rows[j], f, rows'[j])
    OBVIOUS
  <2>1. CASE f.ev = "chats"
    BY <1>2, <1>3, <2>1 DEF Becomes
  <2>2. CASE f.ev = "message"
    <3> DEFINE old == IF rows[ChatOf[f.m]] = NoRow THEN Entry(FreshChat)
                      ELSE rows[ChatOf[f.m]]
               new == [old EXCEPT !.ts = Ts[f.m]]
    <3>1. rows' = [rows EXCEPT ![ChatOf[f.m]] = new]
      BY <1>3, <2>2
    <3>2. rows'[j] = IF j = ChatOf[f.m] THEN new ELSE rows[j]
      <4> HIDE DEF new
      <4> QED
        BY <3>1 DEF Listings
    <3>3. CASE j = ChatOf[f.m]
      BY <1>2, <2>2, <3>2, <3>3 DEF Becomes
    <3>4. CASE j # ChatOf[f.m]
      BY <1>2, <2>2, <3>2, <3>4 DEF Becomes
    <3> QED
      BY <3>3, <3>4
  <2>3. CASE f.ev = "chat_unread"
    <3> DEFINE new == [rows[f.chat] EXCEPT !.unread = f.unread]
    <3>1. rows' = IF rows[f.chat] = NoRow THEN rows ELSE [rows EXCEPT ![f.chat] = new]
      BY <1>3, <2>3
    <3>2. rows'[j] = IF j = f.chat /\ rows[f.chat] # NoRow THEN new ELSE rows[j]
      <4> HIDE DEF new
      <4> QED
        BY <3>1 DEF Listings
    <3>3. CASE j = f.chat
      BY <1>2, <2>3, <3>2, <3>3 DEF Becomes
    <3>4. CASE j # f.chat
      BY <1>2, <2>3, <3>2, <3>4 DEF Becomes
    <3> QED
      BY <3>3, <3>4
  <2>4. CASE f.ev \notin {"chats", "message", "chat_unread"}
    BY <1>2, <1>3, <2>4 DEF Becomes
  <2> QED
    BY <2>1, <2>2, <2>3, <2>4
<1>5. \A j \in Chats : rows[j] \in Shown
  BY DEF Listings, Shown
<1>6. \A j \in Chats : rows'[j] \in Shown
  BY <1>1, <1>4, <1>5, EntryAfter
<1>7. rows' = [j \in Chats |-> rows'[j]]
  <2>1. rows' \in [Chats -> {rows'[j] : j \in Chats}]
    <3>1. CASE f.ev = "chats"
      BY <1>2, <1>3, <3>1 DEF Listings
    <3>2. CASE f.ev # "chats"
      <4>1. rows = [j \in Chats |-> rows[j]]
        BY DEF Listings
      <4>2. DOMAIN rows' = Chats /\ rows' = [j \in DOMAIN rows' |-> rows'[j]]
        BY <1>3, <3>2, <4>1
      <4> QED
        BY <4>2
    <3> QED
      BY <3>1, <3>2
  <2> QED
    BY <2>1
<1> QED
  BY <1>4, <1>6, <1>7 DEF f, Listings, Shown

\* The GUI reads a frame.
LEMMA ReadList ==
    ASSUME ListInv, GuiRead
    PROVE  ListInv'
<1> DEFINE f == Head(sock[Gui])
<1>0. /\ NotifierInv /\ ListTyped /\ rows \in Listings /\ Orderly
      /\ reqs \in Seq(Commands) /\ sock[Gui] \in Seq(GuiFrames)
      /\ up => Hot \/ Leading
  BY GuiIsClient DEF ListInv, NotifierInv, ListTyped, SocketsOf
<1>1. /\ up /\ sock[Gui] # <<>> /\ sock' = [sock EXCEPT ![Gui] = Tail(@)]
      /\ UNCHANGED <<chats, ev, hist, cmd, up, query, skewed>>
  BY DEF GuiRead, Reading, store
<1>2. /\ NotifierInv' /\ rows' \in Listings
      /\ \A j \in Chats : Becomes(j, rows[j], f, rows'[j])
  BY <1>0, ReadNotifier, EntriesRead
<1>3. sock'[Gui] = Tail(sock[Gui]) /\ f \in GuiFrames
  BY <1>0, <1>1, GuiIsClient DEF ListTyped, SocketsOf
<1>4. \/ f \in Synced /\ reqs' = Append(reqs, ChatsReq)
      \/ f \notin Synced /\ UNCHANGED reqs
  <2>1. f.ev = "history_sync" <=> f \in Synced
    BY <1>3, FrameKinds
  <2>2. f.ev = "history_sync" => reqs' = Append(reqs, ChatsReq)
    <3>1. reqs \o <<ChatsReq>> = Append(reqs, ChatsReq)
      BY <1>0, CommandForms
    <3> QED
      BY <1>1, <3>1 DEF GuiRead, Reading, OnHistorySync, Sent
  <2>3. f.ev # "history_sync" => UNCHANGED reqs
    <3>1. CASE f.ev = "chats"
      BY <3>1 DEF GuiRead, Reading, OnChats
    <3>2. CASE f.ev = "message"
      BY <3>2 DEF GuiRead, Reading, OnMessage
    <3>3. CASE f.ev = "chat_unread"
      BY <3>3 DEF GuiRead, Reading, OnChatUnread
    <3>4. CASE f.ev \notin {"chats", "message", "chat_unread", "history_sync"}
      BY <3>4 DEF GuiRead, Reading
    <3> QED
      BY <3>1, <3>2, <3>3, <3>4
  <2> QED
    BY <2>1, <2>2, <2>3
<1>5. \A P : Has(sock[Gui], P) <=> f \in P \/ Has(sock'[Gui], P)
  BY <1>0, <1>1, <1>3, HasTaken
<1>6. \A j \in Chats : RowMoves(j) /\ (Dated(j)' <=> Dated(j))
  BY <1>1, RowStays
<1>7. Orderly'
  BY <1>0, <1>1, <1>6, OrderlyPrimed DEF Orderly
<1>8. Hot => Hot'
  <2>1. CASE f \in Synced
    BY <1>0, <1>4, <2>1, ListAsked, HotPrimed
  <2>2. CASE f \notin Synced
    BY <1>1, <1>4, <1>5, <2>2, HotPrimed DEF Hot
  <2> QED
    BY <2>1, <2>2
<1>9. ASSUME Leading PROVE Leading'
  <2> SUFFICES ASSUME NEW j \in Chats, NEW z, Leads(sock'[Gui], Moves(j), rows'[j], z)
               PROVE  Fits(j, z)'
    BY LeadingPrimed
  <2>1. rows[j] \in Shown /\ rows'[j] \in Shown
    BY <1>0, <1>2 DEF Listings, Shown
  <2>2. <<rows[j], f, rows'[j]>> \in Moves(j)
    BY <1>2, <1>3, <2>1 DEF Moves
  <2>3. Leads(sock[Gui], Moves(j), rows[j], z)
    BY <1>0, <1>1, <1>3, <2>2, LeadsTaken
  <2>4. Fits(j, z)
    BY <1>9, <2>3 DEF Leading
  <2> QED
    BY <1>1, <1>6, <2>4, FitsStored
<1> QED
  BY <1>0, <1>1, <1>2, <1>7, <1>8, <1>9, ListInvPrimed

\* What the user does asks, at most.
LEMMA UserList ==
    ASSUME ListInv, User
    PROVE  ListInv'
<1>0. /\ NotifierInv /\ ListTyped /\ rows \in Listings /\ Orderly
      /\ reqs \in Seq(Commands) /\ NotifierInv' /\ reqs' \in Seq(Commands)
      /\ up => Hot \/ Leading
  BY UserNotifier DEF ListInv, NotifierInv, ListTyped
<1>1. /\ UNCHANGED <<vars, up, query, rows, skewed>>
      /\ \E cmds : reqs' = Sent(cmds)
  BY DEF User, OpenChat, LeaveChat, ToggleMuted, Refresh, UserSends
<1>2. UNCHANGED <<chats, ev, hist, cmd, sock>>
  BY <1>1 DEF vars, store
<1>3. \A j \in Chats : RowMoves(j) /\ (Dated(j)' <=> Dated(j))
  BY <1>2, RowStays
<1>4. Orderly'
  BY <1>0, <1>1, <1>2, <1>3, OrderlyPrimed DEF Orderly
<1>5. Leading => Leading'
  BY <1>1, <1>2, <1>3, LeadingStored
<1>6. Asked(reqs) => Asked(reqs')
  <2>1. \/ UNCHANGED reqs
        \/ \E cmds \in Seq(Commands) : reqs' = reqs \o cmds
    <3>1. ASSUME NEW j \in Chats, OpenChat(j)
          PROVE  \E cmds \in Seq(Commands) : reqs' = Sent(cmds)
      <4>1. \/ reqs' = Sent(<<ActiveReq(j)>> \o <<ReadReq(j)>>)
            \/ reqs' = Sent(<<ActiveReq(j)>> \o <<>>)
        BY <3>1 DEF OpenChat, UserSends
      <4>2. ActiveReq(j) \in Commands /\ ReadReq(j) \in Commands
        BY CommandForms
      <4>3. /\ <<ActiveReq(j)>> \o <<ReadReq(j)>> \in Seq(Commands)
            /\ <<ActiveReq(j)>> \o <<>> \in Seq(Commands)
        BY <4>2
      <4> QED
        BY <4>1, <4>3
    <3>2. ASSUME NEW j \in Chats, ToggleMuted(j)
          PROVE  \E cmds \in Seq(Commands) : reqs' = Sent(cmds)
      <4>1. reqs' = Sent(<<MuteReq(j, ~rows[j].muted), ChatsReq>>)
        BY <3>2 DEF ToggleMuted, UserSends
      <4>2. (~rows[j].muted) \in BOOLEAN
        OBVIOUS
      <4>3. MuteReq(j, ~rows[j].muted) \in Commands /\ ChatsReq \in Commands
        BY <4>2, CommandForms
      <4>4. <<MuteReq(j, ~rows[j].muted), ChatsReq>> \in Seq(Commands)
        BY <4>3
      <4> QED
        BY <4>1, <4>4
    <3>3. ASSUME LeaveChat PROVE \E cmds \in Seq(Commands) : reqs' = Sent(cmds)
      <4>1. reqs' = Sent(<<ActiveReq(NoChat)>>) /\ ActiveReq(NoChat) \in Commands
        BY <3>3, CommandForms DEF LeaveChat, UserSends
      <4>2. <<ActiveReq(NoChat)>> \in Seq(Commands)
        BY <4>1
      <4> QED
        BY <4>1, <4>2
    <3>4. ASSUME Refresh PROVE \E cmds \in Seq(Commands) : reqs' = Sent(cmds)
      <4>1. reqs' = Sent(<<ChatsReq>>) /\ ChatsReq \in Commands
        BY <3>4, CommandForms DEF Refresh, UserSends
      <4>2. <<ChatsReq>> \in Seq(Commands)
        BY <4>1
      <4> QED
        BY <4>1, <4>2
    <3>5. \E cmds \in Seq(Commands) : reqs' = Sent(cmds)
      BY <3>1, <3>2, <3>3, <3>4 DEF User
    <3> QED
      BY <3>5 DEF Sent
  <2>2. ASSUME NEW cmds \in Seq(Commands), reqs' = reqs \o cmds, Asked(reqs)
        PROVE  Asked(reqs')
    <3>1. Has(reqs, {ChatsReq})
      BY <2>2 DEF Asked
    <3>2. Has(reqs \o cmds, {ChatsReq})
      BY <1>0, <3>1, HasConcatenated
    <3> QED
      BY <2>2, <3>2 DEF Asked
  <2> QED
    BY <2>1, <2>2
<1>7. Hot => Hot'
  BY <1>1, <1>2, <1>6, HotPrimed DEF Hot
<1> QED
  BY <1>0, <1>1, <1>4, <1>5, <1>7, ListInvPrimed

\* The daemon starts again with nothing under way; the list is asked for when the
\* GUI has found it.
LEMMA LinkList ==
    ASSUME ListInv, Lost \/ Connect \/ (FrameLost /\ UNCHANGED <<rows, muted, skewed>>)
    PROVE  ListInv'
<1>0. NotifierInv /\ ListTyped /\ rows \in Listings /\ Orderly /\ NotifierInv'
  BY LinkNotifier DEF ListInv, NotifierInv
<1>1. CASE Lost
  <2>1. /\ ~up' /\ query' = NoQuery /\ UNCHANGED <<rows, chats>>
        /\ ev' = EvIdle /\ hist' = HistIdle /\ cmd' = [c \in Clients |-> CmdIdle]
    BY <1>1 DEF Lost, LinkLost, Restart, store
  <2>2. /\ cmd'[Gui] = CmdIdle /\ CmdIdle.pc = "idle" /\ CmdIdle.out = <<>>
        /\ hist'.out = <<>> /\ ev'.pc = "idle" /\ ev'.out = <<>>
    BY <2>1, GuiIsClient DEF CmdIdle, HistIdle, EvIdle
  <2>3. <<>> \in Seq(Badges) /\ <<>> \in Seq(Synced)
    OBVIOUS
  <2>4. \A j : ~Dated(j)'
    BY <2>2, HasNothing, StatePrimed
  <2>5. Orderly'
    BY <2>1, <2>2, <2>3, <2>4, OrderlyPrimed
  <2> QED
    BY <1>0, <2>1, <2>5, ListInvPrimed
<1>2. CASE Connect
  <2>1. /\ reqs' = <<ChatsReq>>
        /\ UNCHANGED <<rows, chats, ev, hist, cmd, query>>
    BY <1>2 DEF Connect, Reconnected, vars, store
  <2>2. \A j \in Chats : Dated(j)' <=> Dated(j)
    BY <2>1, RowStays
  <2>3. Orderly'
    BY <1>0, <2>1, <2>2, OrderlyPrimed DEF Orderly
  <2>4. Asked(reqs')
    <3>1. <<>> \in Seq(Commands) /\ reqs' = Append(<<>>, ChatsReq)
      BY <2>1
    <3> QED
      BY <3>1, ListAsked
  <2> QED
    BY <1>0, <2>1, <2>3, <2>4, HotPrimed, ListInvPrimed
<1>3. CASE FrameLost /\ UNCHANGED <<rows, muted, skewed>>
  <2>1. ~up' /\ UNCHANGED <<rows, chats, ev, hist, cmd, query>>
    BY <1>3 DEF FrameLost, ClientRead, linkVars, store
  <2>2. \A j \in Chats : Dated(j)' <=> Dated(j)
    BY <2>1, RowStays
  <2>3. Orderly'
    BY <1>0, <2>1, <2>2, OrderlyPrimed DEF Orderly
  <2> QED
    BY <1>0, <2>1, <2>3, ListInvPrimed
<1> QED
  BY <1>1, <1>2, <1>3

LEMMA InitList == LInit => ListInv
<1> SUFFICES ASSUME LInit PROVE ListInv
  OBVIOUS
<1>1. /\ NotifierInv /\ rows = [j \in Chats |-> NoRow] /\ query = NoQuery
      /\ reqs = Append(<<>>, ChatsReq)
  BY InitNotifier DEF LInit
<1>2. rows \in Listings
  BY <1>1 DEF Listings
<1>3. ev = EvIdle /\ hist = HistIdle /\ cmd = [c \in Clients |-> CmdIdle]
  BY DEF LInit, Init
<1>4. /\ cmd[Gui] = CmdIdle /\ CmdIdle.pc = "idle" /\ CmdIdle.out = <<>>
      /\ hist.out = <<>> /\ ev.pc = "idle" /\ ev.out = <<>>
  BY <1>3, GuiIsClient DEF CmdIdle, HistIdle, EvIdle
<1>5. \A j : ~Dated(j)
  BY <1>4, HasNothing DEF Dated
<1>6. <<>> \in Seq(Badges) /\ <<>> \in Seq(Synced) /\ <<>> \in Seq(Commands)
  OBVIOUS
<1>7. Orderly
  BY <1>1, <1>4, <1>5, <1>6 DEF Orderly
<1>8. Hot
  BY <1>1, <1>6, ListAsked DEF Hot
<1> QED
  BY <1>1, <1>2, <1>7, <1>8 DEF ListInv

LEMMA ListKept == ~StoreMayFail /\ ListInv /\ [LNext]_lvars => ListInv'
<1>1. ASSUME ~StoreMayFail, ListInv, LNext PROVE ListInv'
  <2>1. CASE DaemonStep
    BY <1>1, <2>1, DaemonList
  <2>2. CASE ListChats \/ ResolveName
    BY <1>1, <2>2, ListingList
  <2>3. CASE ListReply
    BY <1>1, <2>3, ReplyList
  <2>4. CASE Dispatch
    BY <1>1, <2>4, DispatchList
  <2>5. CASE GuiRead
    BY <1>1, <2>5, ReadList
  <2>6. CASE User
    BY <1>1, <2>6, UserList
  <2>7. CASE Lost \/ Connect \/ (FrameLost /\ UNCHANGED <<rows, muted, skewed>>)
    BY <1>1, <2>7, LinkList
  <2> QED
    BY <1>1, <2>1, <2>2, <2>3, <2>4, <2>5, <2>6, <2>7 DEF LNext
<1>2. ASSUME ListInv, UNCHANGED lvars PROVE ListInv'
  <2>1. UNCHANGED <<up, reqs, query, rows, skewed, chats, ev, hist, cmd, sock>>
    BY <1>2 DEF lvars, linkVars, vars, store
  <2>2. NotifierInv'
    BY <1>2, NotifierKept DEF ListInv
  <2>3. \A j \in Chats : RowMoves(j) /\ (Dated(j)' <=> Dated(j))
    BY <2>1, RowStays
  <2>4. Orderly'
    BY <1>2, <2>1, <2>3, OrderlyPrimed DEF ListInv, Orderly
  <2>5. Hot => Hot'
    BY <2>1, HotPrimed DEF Hot
  <2>6. Leading => Leading'
    BY <2>1, <2>3, LeadingStored
  <2> QED
    BY <1>2, <2>1, <2>2, <2>4, <2>5, <2>6, ListInvPrimed DEF ListInv
<1> QED
  BY <1>1, <1>2

\* When nothing is under way the chat list has every chat of the store, with its time,
\* badge and flags, but for what was outdated when it was said for the last time: for
\* any number of chats, messages, listings, commands and restarts, whatever events fall
\* between a SELECT and its response.  The statements are assumed to succeed: a message
\* whose PutMessage fails is announced all the same, and a badge that cannot be read
\* is not (chatlistmodel.cpp:76-154, controller.cpp:177-207, engine.go:623-652).
THEOREM ListTheorem ==
    ASSUME ~StoreMayFail
    PROVE  LSpec => []ListAgrees
<1>1. ListInv => ListAgrees
  <2> SUFFICES ASSUME ListInv, Idle, NEW j \in Chats
               PROVE  {j} \X Differs(rows, chats, j) \subseteq skewed
    BY DEF ListAgrees
  <2>1. /\ up /\ sock[Gui] = <<>> /\ reqs = <<>> /\ query = NoQuery
        /\ ev.pc = "idle" /\ ev.out = <<>> /\ hist.pc = "idle" /\ hist.out = <<>>
        /\ cmd[Gui].out = <<>>
    <3>1. /\ up /\ sock[Gui] = <<>> /\ reqs = <<>> /\ query = NoQuery
          /\ ev = EvIdle /\ hist = HistIdle /\ cmd[Gui] = CmdIdle
      BY GuiIsClient DEF Idle, EngineQuiet
    <3>2. /\ EvIdle.pc = "idle" /\ EvIdle.out = <<>>
          /\ HistIdle.pc = "idle" /\ HistIdle.out = <<>> /\ CmdIdle.out = <<>>
      BY DEF EvIdle, HistIdle, CmdIdle
    <3> QED
      BY <3>1, <3>2
  <2>2. ~Hot
    BY <2>1, HasNothing DEF Hot, Asked
  <2>3. Leads(sock[Gui], Moves(j), rows[j], rows[j])
    BY <2>1, LeadsNothing
  <2>4. Fits(j, rows[j]) /\ ~Dated(j) /\ ~Counted(j)
    <3>1. ~Dated(j) /\ ~Counted(j)
      BY <2>1, HasNothing DEF Dated, Counted
    <3> QED
      BY <2>1, <2>2, <2>3, <3>1 DEF ListInv, Leading
  <2>5. CASE rows[j] = NoRow
    <3>1. chats[j] = NoRow \/ {j} \X Fields \subseteq skewed
      BY <2>4, <2>5 DEF Fits
    <3> QED
      BY <2>5, <3>1 DEF Differs
  <2>6. CASE rows[j] # NoRow
    <3>1. /\ chats[j] # NoRow
          /\ <<j, "ts">> \in skewed \/ rows[j].ts = chats[j].last_ts
          /\ <<j, "unread">> \in skewed \/ rows[j].unread = chats[j].unread
          /\ <<j, "muted">> \in skewed \/ rows[j].muted = chats[j].muted
      BY <2>4, <2>6 DEF Fits
    <3>2. Differs(rows, chats, j)
            = {fld \in Fields \ {"row"} : rows[j][fld] # Entry(chats[j])[fld]}
      BY <2>6, <3>1 DEF Differs
    <3>3. chats[j] \in ChatRow
      BY <3>1, GoroutinesTyped DEF ListInv, NotifierInv, ChatsTable
    <3>4. \A fld \in {"ts", "unread", "muted"} :
             <<j, fld>> \in skewed \/ rows[j][fld] = Entry(chats[j])[fld]
      BY <3>1, <3>3, EntryOf
    <3>5. \A fld \in Fields \ {"row"} : fld \in {"ts", "unread", "muted"}
      BY DEF Fields
    <3> QED
      BY <3>2, <3>4, <3>5
  <2> QED
    BY <2>5, <2>6
<1>2. LInit => ListInv
  BY InitList
<1>3. ListInv /\ [LNext]_lvars => ListInv'
  BY ListKept
<1> QED
  BY <1>1, <1>2, <1>3, PTL DEF LSpec
=============================================================================
