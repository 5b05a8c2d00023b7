----------------------------- MODULE ViewProofs ------------------------------
(***************************************************************************)
(* Proofs about what the open conversation of Conversation shows, for any  *)
(* messages, chats, buffers and any number of acts and restarts.           *)
(***************************************************************************)
EXTENDS ConversationProofs, EngineProofs, Queues, SequenceTheorems,
        WellFoundedInduction

-----------------------------------------------------------------------------
(* The frames, the commands and the entries of the view are well formed.   *)

Items == [m : Msgs \cup {NoMsg}, row : MessageRow,
          reacts : [Senders -> Emojis \cup {""}], pending : BOOLEAN]

\* What a listing of j holds.
Listed(j) == {i \in Items : ~i.pending /\ i.m \in Msgs /\ ChatOf[i.m] = j}

\* What the view holds.
Entries == {i \in Items : IF i.pending THEN i.m = NoMsg /\ i.row.text # ""
                          ELSE i.m \in Msgs}

Listings == {f \in [ev : {"messages"}, chat : Chats, rows : Seq(Items)] :
                f.rows \in Seq(Listed(f.chat))}

Queries == {q \in [pc : {"reactions", "reply"}, chat : Chats, rows : Seq(Items)] :
                q.rows \in Seq(Listed(q.chat))}

GuiFrames == Frames \cup Listings

ListReqs   == {ListReq(j) : j \in Chats}
ActiveReqs == {ActiveReq(j) : j \in Chats \cup {NoChat}}
Reads      == [method : {"mark_read"}, chat : Chats, ids : SUBSET Msgs]
Words      == Texts \ {""}
Sends      == {SendReq(j, text) : j \in Chats, text \in Words}
Deletes    == {DeleteReq(m) : m \in Msgs}

Commands == ListReqs \cup ActiveReqs \cup Reads \cup Sends \cup Deletes

ViewTyped ==
    /\ DaemonTyped /\ SocketsOf(GuiFrames)
    /\ query \in Queries \cup {NoQuery}
    /\ reqs \in Seq(Commands)
    /\ list \in Seq(Entries)
    /\ chat \in Chats \cup {NoChat} /\ (page => chat \in Chats)

-----------------------------------------------------------------------------
(* The view is of one chat.                                                *)

OfChat(j) == {i \in Entries : i.pending \/ ChatOf[i.m] = j}

\* The last listing that is asked for, else the one under way, else the last one
\* on its way, is of the chat that is open; else what is shown is.
LastOfChat ==
    /\ LastIs(reqs, ListReqs, {ListReq(chat)})
    /\ ~Has(reqs, ListReqs) =>
         IF query # NoQuery THEN query.chat = chat
         ELSE /\ LastIs(sock[Gui], Listings, {f \in Listings : f.chat = chat})
              /\ ~Has(sock[Gui], Listings) => list \in Seq(OfChat(chat))

ViewInv ==
    /\ ViewTyped
    /\ up \/ gap
    /\ ~gap => LastOfChat

-----------------------------------------------------------------------------
(* What the forms of the items, frames and commands give.                  *)

LEMMA GuiIsClient == Gui \in Clients
BY LinkAssumption

LEMMA QueryIsNamed == \A q \in Queries : q # NoQuery
BY DEF Queries, NoQuery

\* No frame of the engine is a listing.
LEMMA EngineFrames ==
    /\ Frames \subseteq GuiFrames /\ Listings \subseteq GuiFrames
    /\ \A f \in Frames : f.ev # "messages" /\ f \notin Listings
    /\ \A f \in GuiFrames : f.ev = "messages" <=> f \in Listings
<1>1. \A f \in Frames : f.ev # "messages"
  BY DEF Frames
<1>2. \A f \in Listings : f.ev = "messages"
  BY DEF Listings
<1> QED
  BY <1>1, <1>2 DEF GuiFrames

LEMMA CommandForms ==
    /\ \A j \in Chats : ListReq(j) \in Commands /\ ListReq(j) \in ListReqs
    /\ \A j \in Chats \cup {NoChat} : ActiveReq(j) \in Commands
    /\ \A j \in Chats, ids \in SUBSET Msgs :
          [method |-> "mark_read", chat |-> j, ids |-> ids] \in Commands
    /\ \A j \in Chats, text \in Words : SendReq(j, text) \in Commands
    /\ \A m \in Msgs : DeleteReq(m) \in Commands
<1>1. \A j \in Chats : ListReq(j) \in ListReqs
  BY DEF ListReqs
<1>2. \A j \in Chats \cup {NoChat} : ActiveReq(j) \in ActiveReqs
  BY DEF ActiveReqs
<1>3. \A j \in Chats, ids \in SUBSET Msgs :
         [method |-> "mark_read", chat |-> j, ids |-> ids] \in Reads
  BY DEF Reads
<1>4. \A j \in Chats, text \in Words : SendReq(j, text) \in Sends
  BY DEF Sends
<1>5. \A m \in Msgs : DeleteReq(m) \in Deletes
  BY DEF Deletes
<1> QED
  BY <1>1, <1>2, <1>3, <1>4, <1>5 DEF Commands, Words

LEMMA Methods ==
    /\ \A r \in Commands : r.method = "list_messages" <=> r \in ListReqs
    /\ \A j : ListReq(j).method = "list_messages" /\ ListReq(j).chat = j
    /\ \A j : ActiveReq(j).method = "set_active_chat"
    /\ \A j, ids : [method |-> "mark_read", chat |-> j, ids |-> ids].method = "mark_read"
    /\ \A j, text : SendReq(j, text).method = "send_text"
    /\ \A m : DeleteReq(m).method = "delete_message"
<1>1. \A j : ListReq(j).method = "list_messages" /\ ListReq(j).chat = j
  BY DEF ListReq
<1>2. \A j : ActiveReq(j).method = "set_active_chat"
  BY DEF ActiveReq
<1>3. \A j, ids : [method |-> "mark_read", chat |-> j, ids |-> ids].method = "mark_read"
  OBVIOUS
<1>4. \A j, text : SendReq(j, text).method = "send_text"
  BY DEF SendReq
<1>5. \A m : DeleteReq(m).method = "delete_message"
  BY DEF DeleteReq
<1>6. ASSUME NEW r \in Commands PROVE r.method = "list_messages" <=> r \in ListReqs
  <2>1. CASE r \in ListReqs
    BY <1>1, <2>1 DEF ListReqs
  <2>2. CASE r \notin ListReqs
    <3>1. CASE r \in ActiveReqs
      BY <1>2, <2>2, <3>1 DEF ActiveReqs
    <3>2. CASE r \in Reads
      BY <2>2, <3>2 DEF Reads
    <3>3. CASE r \in Sends
      BY <1>4, <2>2, <3>3 DEF Sends
    <3>4. CASE r \in Deletes
      BY <1>5, <2>2, <3>4 DEF Deletes
    <3> QED
      BY <2>2, <3>1, <3>2, <3>3, <3>4 DEF Commands
  <2> QED
    BY <2>1, <2>2
<1> QED
  BY <1>1, <1>2, <1>3, <1>4, <1>5, <1>6

\* What the commands carry.
LEMMA Carried ==
    ASSUME NEW r \in Commands
    PROVE  /\ r.method = "list_messages" => r.chat \in Chats /\ r = ListReq(r.chat)
           /\ r.method = "set_active_chat" => r.chat \in Chats \cup {NoChat}
           /\ r.method = "mark_read" => r.chat \in Chats
           /\ r.method = "send_text" => /\ r.chat \in Chats /\ r.text \in Words
                                        /\ r = SendReq(r.chat, r.text)
           /\ r.method = "delete_message" => r.m \in Msgs
<1>0. /\ \A j : ListReq(j).method = "list_messages" /\ ListReq(j).chat = j
      /\ \A j : ActiveReq(j).method = "set_active_chat" /\ ActiveReq(j).chat = j
      /\ \A j, text : SendReq(j, text).method = "send_text"
      /\ \A j, text : SendReq(j, text).chat = j /\ SendReq(j, text).text = text
      /\ \A m : DeleteReq(m).method = "delete_message" /\ DeleteReq(m).m = m
  BY DEF ListReq, ActiveReq, SendReq, DeleteReq
<1>1. CASE r \in ListReqs
  <2>1. PICK j \in Chats : r = ListReq(j)
    BY <1>1 DEF ListReqs
  <2>2. r.method = "list_messages" /\ r.chat = j
    BY <1>0, <2>1
  <2> QED
    BY <2>1, <2>2
<1>2. CASE r \in ActiveReqs
  <2>1. PICK j \in Chats \cup {NoChat} : r = ActiveReq(j)
    BY <1>2 DEF ActiveReqs
  <2>2. r.method = "set_active_chat" /\ r.chat = j
    BY <1>0, <2>1
  <2> QED
    BY <2>2
<1>3. CASE r \in Reads
  <2>1. r.method = "mark_read" /\ r.chat \in Chats
    BY <1>3 DEF Reads
  <2> QED
    BY <2>1
<1>4. CASE r \in Sends
  <2>1. PICK j \in Chats, text \in Words : r = SendReq(j, text)
    BY <1>4 DEF Sends
  <2>2. r.method = "send_text" /\ r.chat = j /\ r.text = text
    BY <1>0, <2>1
  <2> QED
    BY <2>1, <2>2 DEF Words
<1>5. CASE r \in Deletes
  <2>1. PICK m \in Msgs : r = DeleteReq(m)
    BY <1>5 DEF Deletes
  <2>2. r.method = "delete_message" /\ r.m = m
    BY <1>0, <2>1
  <2> QED
    BY <2>2
<1> QED
  BY <1>1, <1>2, <1>3, <1>4, <1>5 DEF Commands, Words

LEMMA NoReactsTyped == NoReacts \in [Senders -> Emojis \cup {""}]
BY DEF NoReacts

\* A row of a listing.
LEMMA ItemTyped ==
    ASSUME NEW m \in Msgs, NEW row \in MessageRow
    PROVE  Item(m, row, NoReacts) \in Listed(ChatOf[m])
<1>1. [row EXCEPT !.raw = FALSE] \in MessageRow
  BY DEF MessageRow
<1> QED
  BY <1>1, NoReactsTyped DEF Item, Items, Listed

LEMMA AnnouncedTyped ==
    ASSUME NEW m \in Msgs
    PROVE  /\ Announced(m) \in Listed(ChatOf[m])
           /\ Announced(m).m = m /\ ~Announced(m).pending
           /\ Announced(m).row.text = Body[m]
<1>1. ReceivedRow(m) \in MessageRow /\ SentRow(m) \in MessageRow
  BY NewRowsTyped
<1>2. ReceivedRow(m).text = Body[m] /\ SentRow(m).text = Body[m]
  BY DEF ReceivedRow, SentRow
<1>3. Announced(m) \in Listed(ChatOf[m])
  BY <1>1, ItemTyped DEF Announced
<1>4. \A row \in MessageRow : /\ Item(m, row, NoReacts).m = m
                              /\ ~Item(m, row, NoReacts).pending
                              /\ Item(m, row, NoReacts).row.text = row.text
  BY DEF Item, MessageRow
<1> QED
  BY <1>1, <1>2, <1>3, <1>4 DEF Announced

LEMMA EchoTyped ==
    ASSUME NEW text \in Words
    PROVE  Echo(text) \in Entries /\ Echo(text).pending /\ Echo(text).row.text = text
<1>0. text \in Texts /\ text # ""
  BY DEF Words
<1>1. [type |-> "text", text |-> text, status |-> "sent", path |-> "",
       raw |-> FALSE, edited |-> FALSE, starred |-> FALSE] \in MessageRow
  BY <1>0 DEF MessageRow, Kinds, Statuses, Paths
<1> QED
  BY <1>0, <1>1, NoReactsTyped DEF Echo, Entries, Items

\* The items of a listing are entries of the view of its chat.
LEMMA ListedShown ==
    ASSUME NEW j
    PROVE  Listed(j) \subseteq OfChat(j) /\ OfChat(j) \subseteq Entries
BY DEF Listed, OfChat, Entries, Items

-----------------------------------------------------------------------------
(* What the handlers do with the view.                                     *)

\* The first of some positions.
LEMMA FirstIsLeast ==
    ASSUME NEW I, I \subseteq Nat, I # {}
    PROVE  First(I) \in I /\ \A k \in I : First(I) <= k
<1>1. PICK x \in I : \A y \in I : ~(<<y, x>> \in OpToRel(<, Nat))
  BY NatLessThanWellFounded, WFMin
<1>2. \A y \in I : x <= y
  <2> SUFFICES ASSUME NEW y \in I PROVE x <= y
    OBVIOUS
  <2>1. ~(y < x)
    BY <1>1 DEF OpToRel
  <2> QED
    BY <2>1
<1> QED
  BY <1>2 DEF First

\* What the frames carry.
LEMMA FrameForms ==
    ASSUME NEW f \in GuiFrames
    PROVE  /\ f.ev = "messages" => f.chat \in Chats /\ f.rows \in Seq(Listed(f.chat))
           /\ f.ev = "message" => f.m \in Msgs /\ f = MessageFrame(f.m)
           /\ "m" \in DOMAIN f => f \in Frames /\ f.m \in Msgs
           /\ f.ev = "message_edited" => f.text \in Texts
           /\ f.ev = "message_status" => f.status \in Statuses
           /\ f.ev = "reaction" => f.sender \in Senders /\ f.emoji \in Emojis \cup {""}
<1>1. CASE f \in Listings
  BY <1>1 DEF Listings
<1>2. CASE f \in [ev : {"message", "message_revoked", "message_media", "receipt"}, m : Msgs]
  BY <1>2 DEF MessageFrame, Frames
<1>3. CASE f \in [ev : {"message_edited"}, m : Msgs, text : Texts]
  BY <1>3 DEF Frames
<1>4. CASE f \in [ev : {"reaction"}, m : Msgs, sender : Senders, emoji : Emojis \cup {""}]
  BY <1>4 DEF Frames
<1>5. CASE f \in [ev : {"message_status"}, m : Msgs, status : Statuses]
  BY <1>5 DEF Frames
<1>6. CASE f \in [ev : {"chat_unread"}, chat : Chats, unread : Nat]
  BY <1>6
<1>7. CASE f \in [ev : {"history_sync"}] \/ f \in [ev : {"response"}, ok : BOOLEAN]
  BY <1>7
<1> QED
  BY <1>1, <1>2, <1>3, <1>4, <1>5, <1>6, <1>7 DEF GuiFrames, Frames

LEMMA PatchedTyped ==
    ASSUME NEW i \in Items, NEW f \in GuiFrames
    PROVE  Patched(i, f) \in Items /\ Patched(i, f).m = i.m
           /\ Patched(i, f).pending = i.pending
<1> DEFINE same(new) == new \in Items /\ new.m = i.m /\ new.pending = i.pending
<1>0. "" \in Texts /\ i.row \in MessageRow
  BY StoreAssumption DEF Items
<1>1. CASE f.ev = "message_edited"
  <2>1. [i.row EXCEPT !.text = f.text, !.edited = TRUE] \in MessageRow
    BY <1>0, <1>1, FrameForms DEF MessageRow
  <2>2. Patched(i, f) = [i EXCEPT !.row = [i.row EXCEPT !.text = f.text, !.edited = TRUE]]
    BY <1>0, <1>1 DEF Patched, Items, MessageRow
  <2> QED
    BY <2>1, <2>2 DEF Items
<1>2. CASE f.ev = "message_revoked"
  <2>1. [i.row EXCEPT !.type = "revoked", !.text = "", !.path = ""] \in MessageRow
    BY <1>0 DEF MessageRow, Paths
  <2>2. Patched(i, f)
        = [i EXCEPT !.row = [i.row EXCEPT !.type = "revoked", !.text = "", !.path = ""]]
    BY <1>0, <1>2 DEF Patched, Items, MessageRow
  <2> QED
    BY <2>1, <2>2 DEF Items
<1>3. CASE f.ev = "message_media"
  <2>1. [i.row EXCEPT !.path = "cache"] \in MessageRow
    BY <1>0 DEF MessageRow, Paths
  <2>2. Patched(i, f) = [i EXCEPT !.row = [i.row EXCEPT !.path = "cache"]]
    BY <1>0, <1>3 DEF Patched, Items, MessageRow
  <2> QED
    BY <2>1, <2>2 DEF Items
<1>4. CASE f.ev = "reaction"
  <2>1. [i.reacts EXCEPT ![f.sender] = f.emoji] \in [Senders -> Emojis \cup {""}]
    BY <1>4, FrameForms DEF Items
  <2>2. Patched(i, f) = [i EXCEPT !.reacts = [i.reacts EXCEPT ![f.sender] = f.emoji]]
    BY <1>4 DEF Patched, Items
  <2> QED
    BY <2>1, <2>2 DEF Items
<1>5. CASE f.ev = "message_status"
  <2>1. [i.row EXCEPT !.status = f.status] \in MessageRow
    BY <1>0, <1>5, FrameForms DEF MessageRow
  <2>2. Patched(i, f) = [i EXCEPT !.row = [i.row EXCEPT !.status = f.status]]
    BY <1>0, <1>5 DEF Patched, Items, MessageRow
  <2> QED
    BY <2>1, <2>2 DEF Items
<1>6. CASE f.ev \notin {"message_edited", "message_revoked", "message_media",
                       "reaction", "message_status"}
  BY <1>6 DEF Patched
<1> QED
  BY <1>1, <1>2, <1>3, <1>4, <1>5, <1>6

LEMMA ListOfEntries ==
    ASSUME ViewTyped
    PROVE  /\ Len(list) \in Nat /\ DOMAIN list = 1..Len(list)
           /\ \A i \in 1..Len(list) : list[i] \in Entries /\ list[i] \in Items
           /\ \A m : Shown(m) \subseteq 1..Len(list) /\ Shown(m) \subseteq Nat
<1>1. list \in Seq(Entries) /\ Entries \subseteq Items
  BY DEF ViewTyped, Entries
<1>2. /\ Len(list) \in Nat /\ DOMAIN list = 1..Len(list)
      /\ \A i \in 1..Len(list) : list[i] \in Entries
  BY <1>1
<1>3. \A m : Shown(m) \subseteq 1..Len(list)
  BY <1>2 DEF Shown
<1> QED
  BY <1>1, <1>2, <1>3

\* A patch changes entries of its message and no other.
LEMMA PatchForm ==
    ASSUME ViewTyped, NEW f \in GuiFrames, "m" \in DOMAIN f, OnPatch(f)
    PROVE  /\ list' \in Seq(Entries) /\ Len(list') = Len(list)
           /\ \A i \in 1..Len(list) :
                 /\ list'[i].m = list[i].m /\ list'[i].pending = list[i].pending
                 /\ \/ list'[i] = list[i]
                    \/ /\ list[i].m = f.m /\ ~list[i].pending
                       /\ list'[i] = Patched(list[i], f)
           /\ ChatOf[f.m] = chat /\ Shown(f.m) # {}
                 => list'[First(Shown(f.m))] = Patched(list[First(Shown(f.m))], f)
<1>0. /\ Len(list) \in Nat /\ DOMAIN list = 1..Len(list) /\ f.m \in Msgs /\ NoMsg \notin Msgs
      /\ list \in Seq(Entries) /\ \A i \in 1..Len(list) : list[i] \in Entries
      /\ Shown(f.m) \subseteq 1..Len(list) /\ Shown(f.m) \subseteq Nat
  BY ListOfEntries, FrameForms, EngineAssumption DEF ViewTyped
<1> DEFINE found == IF Shown(f.m) = {} \/ f.ev = "message_status"
                    THEN Shown(f.m) ELSE {First(Shown(f.m))}
<1>1. Shown(f.m) # {} => First(Shown(f.m)) \in Shown(f.m)
  BY <1>0, FirstIsLeast
<1>2. /\ found \subseteq Shown(f.m)
      /\ Shown(f.m) # {} => First(Shown(f.m)) \in found
  BY <1>1
<1>3. \A i \in Shown(f.m) : list[i].m = f.m
  BY DEF Shown
<1>4. ASSUME NEW i \in Shown(f.m)
      PROVE  /\ ~list[i].pending /\ Patched(list[i], f) \in Entries
             /\ Patched(list[i], f).m = list[i].m
             /\ Patched(list[i], f).pending = list[i].pending
  <2>1. list[i] \in Items /\ ~list[i].pending
    BY <1>0, <1>3 DEF Entries
  <2> QED
    <3>1. /\ Patched(list[i], f) \in Items /\ Patched(list[i], f).m = list[i].m
          /\ Patched(list[i], f).pending = list[i].pending
      BY <2>1, PatchedTyped
    <3> QED
      BY <1>0, <1>3, <2>1, <3>1 DEF Entries
<1>5. list' = IF ChatOf[f.m] # chat THEN list
              ELSE [i \in DOMAIN list |-> IF i \in found THEN Patched(list[i], f)
                                          ELSE list[i]]
  BY DEF OnPatch
<1> HIDE DEF found
<1>6. CASE ChatOf[f.m] # chat
  BY <1>0, <1>5, <1>6
<1>7. CASE ChatOf[f.m] = chat
  <2>1. list' = [i \in 1..Len(list) |-> IF i \in found THEN Patched(list[i], f) ELSE list[i]]
    BY <1>0, <1>5, <1>7
  <2>2. \A i \in 1..Len(list) : (IF i \in found THEN Patched(list[i], f) ELSE list[i]) \in Entries
    BY <1>0, <1>2, <1>4
  <2>3. list' \in Seq(Entries) /\ Len(list') = Len(list)
    BY <1>0, <2>1, <2>2
  <2>4. Shown(f.m) # {}
        => list'[First(Shown(f.m))] = Patched(list[First(Shown(f.m))], f)
    BY <1>0, <1>1, <1>2, <2>1
  <2>5. ASSUME NEW i \in 1..Len(list)
        PROVE  /\ list'[i].m = list[i].m /\ list'[i].pending = list[i].pending
               /\ \/ list'[i] = list[i]
                  \/ /\ list[i].m = f.m /\ ~list[i].pending
                     /\ list'[i] = Patched(list[i], f)
    BY <1>2, <1>3, <1>4, <2>1
  <2> QED
    BY <2>3, <2>4, <2>5
<1> QED
  BY <1>6, <1>7

\* The rows that are shown, in their order.
LEMMA RenderedForm ==
    ASSUME NEW S, NEW rows \in Seq(S), NEW q \in Rendered(rows)
    PROVE  /\ DOMAIN q = 1..Len([i \in DOMAIN q |-> rows[q[i]]])
           /\ \A i \in DOMAIN q : q[i] \in 1..Len(rows) /\ Renderable(rows[q[i]])
           /\ [i \in DOMAIN q |-> rows[q[i]]] \in Seq(S)
<1> DEFINE kept == {i \in DOMAIN rows : Renderable(rows[i])}
<1>1. /\ DOMAIN rows = 1..Len(rows) /\ Len(rows) \in Nat
      /\ \A i \in 1..Len(rows) : rows[i] \in S
  OBVIOUS
<1>2. IsFiniteSet(1..Len(rows))
  BY <1>1, FS_Interval
<1>3. kept \subseteq 1..Len(rows)
  BY <1>1
<1>4. Cardinality(kept) \in Nat
  BY <1>2, <1>3, FS_Subset, FS_CardinalityType
<1>5. q \in [1..Cardinality(kept) -> kept]
  BY DEF Rendered
<1>6. \A i \in kept : Renderable(rows[i])
  OBVIOUS
<1> HIDE DEF kept
<1>7. PICK n \in Nat : q \in [1..n -> kept]
  BY <1>4, <1>5
<1>8. \A i \in 1..n : q[i] \in kept /\ rows[q[i]] \in S
  BY <1>1, <1>3, <1>7
<1>9. [i \in 1..n |-> rows[q[i]]] \in Seq(S) /\ Len([i \in 1..n |-> rows[q[i]]]) = n
  BY <1>7, <1>8
<1> QED
  BY <1>3, <1>6, <1>7, <1>8, <1>9

\* A message that arrives: it is not shown, takes the place of an echo or is put
\* in front.
LEMMA MessageShown ==
    ASSUME ViewTyped, NEW m \in Msgs, OnMessage(m)
    PROVE  /\ list' \in Seq(Entries)
           /\ \/ ChatOf[m] # chat \/ ~Renderable(Announced(m))
              \/ \E k \in Echoes(Announced(m).row.text) :
                    /\ FromMe[m] /\ ChatOf[m] = chat
                    /\ k \in 1..Len(list) /\ list[k].pending
                    /\ list[k].row.text = Announced(m).row.text
                    /\ \A i \in Echoes(Announced(m).row.text) : k <= i
                    /\ list' = [list EXCEPT ![k] = Announced(m)]
              \/ /\ ChatOf[m] = chat
                 /\ FromMe[m] => Echoes(Announced(m).row.text) = {}
                 /\ list' = <<Announced(m)>> \o list
           /\ ChatOf[m] # chat \/ ~Renderable(Announced(m)) => UNCHANGED list
<1> DEFINE i == Announced(m)
           echoes == IF FromMe[m] THEN Echoes(i.row.text) ELSE {}
<1>0. /\ Len(list) \in Nat /\ DOMAIN list = 1..Len(list) /\ list \in Seq(Entries)
      /\ i \in Entries
  BY ListOfEntries, AnnouncedTyped, ListedShown DEF ViewTyped
<1>1. CASE ChatOf[m] # chat \/ ~Renderable(i)
  BY <1>0, <1>1 DEF OnMessage
<1>2. CASE ChatOf[m] = chat /\ Renderable(i) /\ echoes # {}
  <2>1. FromMe[m] /\ echoes = Echoes(i.row.text)
    BY <1>2
  <2>2. Echoes(i.row.text) \subseteq 1..Len(list) /\ Echoes(i.row.text) \subseteq Nat
    BY <1>0 DEF Echoes
  <2>3. PICK k \in Echoes(i.row.text) : /\ k = First(echoes)
                                        /\ \A n \in Echoes(i.row.text) : k <= n
    BY <1>2, <2>1, <2>2, FirstIsLeast
  <2>4. k \in 1..Len(list) /\ list[k].pending /\ list[k].row.text = i.row.text
    BY <2>2 DEF Echoes
  <2>5. list' = [list EXCEPT ![k] = i]
    BY <1>2, <2>3 DEF OnMessage
  <2>6. list' \in Seq(Entries)
    BY <1>0, <2>4, <2>5, ExceptSeq
  <2> QED
    BY <1>2, <2>1, <2>3, <2>4, <2>5, <2>6
<1>3. CASE ChatOf[m] = chat /\ Renderable(i) /\ echoes = {}
  <2>1. list' = <<i>> \o list
    BY <1>3 DEF OnMessage
  <2>2. list' \in Seq(Entries)
    BY <1>0, <2>1
  <2> QED
    BY <1>3, <2>1, <2>2
<1> QED
  BY <1>1, <1>2, <1>3

\* A listing replaces what is shown by its rows, or is left out.
LEMMA ListingShown ==
    ASSUME ViewTyped, NEW f \in GuiFrames, f.ev = "messages", OnMessages(f)
    PROVE  /\ list' \in Seq(Entries)
           /\ \/ f.rows # <<>> /\ f.chat # chat /\ UNCHANGED <<list, reqs>>
              \/ /\ f.rows # <<>> => f.chat = chat
                 /\ list' \in Seq(Listed(f.chat)) /\ (f.rows = <<>> => list' = <<>>)
                 /\ \E q \in Rendered(f.rows) :
                       list' = [i \in DOMAIN q |-> f.rows[q[i]]]
<1>0. /\ f.rows \in Seq(Listed(f.chat)) /\ list \in Seq(Entries)
      /\ Listed(f.chat) \subseteq Entries
  BY FrameForms, ListedShown DEF ViewTyped
<1>1. CASE f.rows # <<>> /\ f.chat # chat
  BY <1>0, <1>1 DEF OnMessages
<1>2. CASE f.rows = <<>> \/ f.chat = chat
  <2>1. PICK q \in Rendered(f.rows) : list' = [i \in DOMAIN q |-> f.rows[q[i]]]
    BY <1>2 DEF OnMessages
  <2>2. list' \in Seq(Listed(f.chat)) /\ DOMAIN q = 1..Len(list')
        /\ \A i \in DOMAIN q : q[i] \in 1..Len(f.rows)
    BY <1>0, <2>1, RenderedForm
  <2>3. ASSUME f.rows = <<>> PROVE list' = <<>>
    <3>1. Len(f.rows) = 0 /\ Len(list') \in Nat
      <4>1. \A s \in Seq(Listed(f.chat)) : Len(s) \in Nat
        OBVIOUS
      <4>2. Len(<<>>) = 0
        OBVIOUS
      <4> QED
        BY <2>2, <2>3, <4>1, <4>2
    <3>2. \A i \in 1..Len(list') : i \in 1..0
      BY <2>2, <3>1
    <3>3. Len(list') = 0
      BY <3>1, <3>2
    <3> QED
      BY <2>2, <3>3
  <2>4. list' \in Seq(Entries)
    BY <1>0, <2>2
  <2> QED
    BY <1>2, <2>1, <2>2, <2>3, <2>4
<1> QED
  BY <1>1, <1>2

\* IpcClient::markRead.
LEMMA ReadsAsked ==
    ASSUME ViewTyped, NEW ids \in SUBSET Msgs, ids # {} => chat \in Chats,
           reqs' = Sent(ReadReqs(chat, ids))
    PROVE  UNCHANGED reqs \/ \E e \in Reads : reqs' = Append(reqs, e)
<1>0. reqs \in Seq(Commands)
  BY DEF ViewTyped
<1>1. CASE ~up \/ ids = {}
  BY <1>0, <1>1 DEF Sent, ReadReqs
<1>2. CASE up /\ ids # {}
  <2> DEFINE e == [method |-> "mark_read", chat |-> chat, ids |-> ids]
  <2>1. e \in Reads
    BY <1>2 DEF Reads
  <2>2. reqs' = reqs \o <<e>>
    BY <1>2 DEF Sent, ReadReqs
  <2>3. e \in Commands
    BY <2>1 DEF Commands
  <2> HIDE DEF e
  <2>4. reqs \o <<e>> = Append(reqs, e)
    BY <1>0, <2>3
  <2> QED
    BY <2>1, <2>2, <2>4
<1> QED
  BY <1>1, <1>2

\* A frame that is read: it leaves the socket, the view handles it and asks, if
\* anything, for messages to be marked as read.
LEMMA FrameRead ==
    ASSUME ViewTyped, GuiRead, NEW f, f = Head(sock[Gui])
    PROVE  /\ up /\ f \in GuiFrames /\ sock[Gui] \in Seq(GuiFrames) /\ sock[Gui] # <<>>
           /\ sock'[Gui] = Tail(sock[Gui]) /\ SocketsOf(GuiFrames)'
           /\ UNCHANGED <<store, activeChat, ev, hist, cmd, dl, file, onServer, up,
                          query, page, chat, gap, skewed>>
           /\ \/ f.ev = "message" /\ OnMessage(f.m)
              \/ f.ev = "messages" /\ OnMessages(f)
              \/ f.ev \notin {"message", "messages"} /\ "m" \in DOMAIN f /\ OnPatch(f)
              \/ /\ f.ev \notin {"message", "messages"} /\ "m" \notin DOMAIN f
                 /\ UNCHANGED <<list, reqs>>
           /\ UNCHANGED reqs \/ \E e \in Reads : reqs' = Append(reqs, e)
           /\ list' \in Seq(Entries)
<1>0. sock \in [Clients -> Seq(GuiFrames)] /\ list \in Seq(Entries)
  BY DEF ViewTyped, SocketsOf
<1>1. /\ up /\ sock[Gui] # <<>> /\ sock' = [sock EXCEPT ![Gui] = Tail(@)]
      /\ UNCHANGED <<store, activeChat, ev, hist, cmd, dl, file, onServer, up, query,
                     page, chat, gap, skewed>>
  BY DEF GuiRead, Reading
<1>2. sock[Gui] \in Seq(GuiFrames)
  BY <1>0, GuiIsClient
<1>3. f \in GuiFrames /\ Tail(sock[Gui]) \in Seq(GuiFrames)
  BY <1>1, <1>2
<1>4. sock'[Gui] = Tail(sock[Gui]) /\ SocketsOf(GuiFrames)'
  BY <1>0, <1>1, <1>3, GuiIsClient DEF SocketsOf
<1>5. CASE f.ev = "message"
  <2>1. OnMessage(f.m) /\ f.m \in Msgs
    BY <1>3, <1>5, FrameForms DEF GuiRead, Reading
  <2>2. UNCHANGED reqs \/ (ChatOf[f.m] = chat /\ reqs' = Sent(ReadReqs(chat, {f.m})))
    BY <2>1 DEF OnMessage
  <2>3. ChatOf[f.m] \in Chats
    BY <2>1, StoreAssumption
  <2>4. UNCHANGED reqs \/ \E e \in Reads : reqs' = Append(reqs, e)
    BY <2>1, <2>2, <2>3, ReadsAsked
  <2>5. list' \in Seq(Entries)
    BY <2>1, MessageShown
  <2> QED
    BY <1>1, <1>2, <1>3, <1>4, <1>5, <2>1, <2>4, <2>5
<1>6. CASE f.ev = "messages"
  <2>1. OnMessages(f)
    <3>1. (CASE f.ev = "message"  -> OnMessage(f.m)
            [] f.ev = "messages" -> OnMessages(f)
            [] "m" \in DOMAIN f /\ f.ev # "message" -> OnPatch(f)
            [] OTHER             -> UNCHANGED <<list, reqs>>)
      BY DEF GuiRead, Reading
    <3>2. "m" \notin DOMAIN f
      BY <1>3, <1>6, EngineFrames DEF Listings
    <3> QED
      BY <1>6, <3>1, <3>2
  <2> DEFINE ids == {m \in Msgs : /\ ~FromMe[m]
                                  /\ \E i \in DOMAIN list' : list'[i].m = m}
  <2>2. list' \in Seq(Entries)
    BY <1>3, <1>6, <2>1, ListingShown
  <2>3. UNCHANGED reqs \/ ((f.rows # <<>> => f.chat = chat) /\ reqs' = Sent(ReadReqs(chat, ids)))
    BY <2>1 DEF OnMessages
  <2>4. ASSUME f.rows # <<>> => f.chat = chat, ids # {} PROVE chat \in Chats
    <3>2. f.rows # <<>> => chat \in Chats
      BY <1>3, <1>6, <2>4, FrameForms
    <3>3. f.rows = <<>> => list' = <<>>
      BY <1>3, <1>6, <2>1, ListingShown
    <3>4. PICK m \in ids : \E i \in DOMAIN list' : list'[i].m = m
      BY <2>4
    <3>5. DOMAIN list' # {}
      BY <3>4
    <3>6. DOMAIN <<>> = {}
      OBVIOUS
    <3> QED
      BY <3>2, <3>3, <3>5, <3>6
  <2>5. UNCHANGED reqs \/ \E e \in Reads : reqs' = Append(reqs, e)
    <3>1. ids \in SUBSET Msgs
      OBVIOUS
    <3> HIDE DEF ids
    <3> QED
      BY <2>3, <2>4, <3>1, ReadsAsked
  <2> QED
    BY <1>1, <1>2, <1>3, <1>4, <1>6, <2>1, <2>2, <2>5
<1>7. CASE f.ev \notin {"message", "messages"} /\ "m" \in DOMAIN f
  <2>1. OnPatch(f)
    BY <1>7 DEF GuiRead, Reading
  <2>2. list' \in Seq(Entries) /\ UNCHANGED reqs
    BY <1>3, <1>7, <2>1, PatchForm DEF OnPatch
  <2> QED
    BY <1>1, <1>2, <1>3, <1>4, <1>7, <2>1, <2>2
<1>8. CASE f.ev \notin {"message", "messages"} /\ "m" \notin DOMAIN f
  <2>1. UNCHANGED <<list, reqs>>
    BY <1>8 DEF GuiRead, Reading
  <2> QED
    BY <1>0, <1>1, <1>2, <1>3, <1>4, <1>8, <2>1
<1> QED
  BY <1>5, <1>6, <1>7, <1>8

-----------------------------------------------------------------------------
(* The types are kept.                                                     *)

\* A command that asks for no listing is put behind the others.
LEMMA OtherAsked ==
    ASSUME NEW q \in Seq(Commands), NEW e \in Commands \ ListReqs, NEW G
    PROVE  /\ q \o <<e>> = Append(q, e) /\ Append(q, e) \in Seq(Commands)
           /\ LastIs(q, ListReqs, G) => LastIs(Append(q, e), ListReqs, G)
           /\ Has(Append(q, e), ListReqs) <=> Has(q, ListReqs)
<1>1. e \in Commands /\ e \notin ListReqs
  OBVIOUS
<1>2. q \o <<e>> = Append(q, e) /\ Append(q, e) \in Seq(Commands)
  BY <1>1
<1>3. LastIs(q, ListReqs, G) => LastIs(Append(q, e), ListReqs, G)
  BY <1>1, LastAppended
<1>4. Has(Append(q, e), ListReqs) <=> Has(q, ListReqs)
  BY <1>1, HasAppended
<1> QED
  BY <1>2, <1>3, <1>4

LEMMA OthersAreNoListReqs ==
    /\ ActiveReqs \cup Reads \cup Sends \cup Deletes \subseteq Commands \ ListReqs
    /\ \A j \in Chats \cup {NoChat} : ActiveReq(j) \in Commands \ ListReqs
    /\ \A j \in Chats, text \in Words : SendReq(j, text) \in Commands \ ListReqs
    /\ \A m \in Msgs : DeleteReq(m) \in Commands \ ListReqs
<1>1. \A r \in ListReqs : r.method = "list_messages"
  BY Methods DEF Commands
<1>2. \A r \in ActiveReqs : r.method = "set_active_chat"
  BY Methods DEF ActiveReqs
<1>3. \A r \in Reads : r.method = "mark_read"
  BY DEF Reads
<1>4. \A r \in Sends : r.method = "send_text"
  BY Methods DEF Sends
<1>5. \A r \in Deletes : r.method = "delete_message"
  BY Methods DEF Deletes
<1>6. ActiveReqs \cup Reads \cup Sends \cup Deletes \subseteq Commands \ ListReqs
  BY <1>1, <1>2, <1>3, <1>4, <1>5 DEF Commands
<1> QED
  BY <1>1, <1>6, CommandForms, Methods

LEMMA DaemonWritesFrames ==
    ASSUME ViewTyped, DaemonStep
    PROVE  \/ UNCHANGED sock
           \/ \E f \in Frames : sock'[Gui] = Append(sock[Gui], f)
<1>0. DaemonTyped /\ SocketsOf(GuiFrames)
  BY DEF ViewTyped
<1>1. ASSUME NEW q \in Seq(Frames), q # <<>>, Broadcast(Head(q))
      PROVE  \E f \in Frames : sock'[Gui] = Append(sock[Gui], f)
  <2>1. Head(q) \in Frames
    BY <1>1, HeadTailTyped
  <2>2. sock'[Gui] = Append(sock[Gui], Head(q))
    BY <1>1, GuiIsClient DEF Broadcast
  <2> QED
    BY <2>1, <2>2
<1>2. CASE EventArrives
  BY <1>2 DEF EventArrives, EventMessage, EventRevoke, EventEdit, EventReaction, EventReceipt
<1>3. CASE EventStep
  <2>1. ev.out \in Seq(Frames)
    BY <1>0 DEF DaemonTyped, EvState
  <2> QED
    BY <1>1, <1>3, <2>1
       DEF EventStep, EventAnnounced, EventIncrement, EventSelect, EventEmit
<1>4. CASE CommandStep(Gui)
  <2>0. cmd[Gui] \in CmdState
    BY <1>0, GuiIsClient DEF DaemonTyped
  <2>1. cmd[Gui].out \in Seq(Frames) /\ cmd[Gui].ok \in BOOLEAN
    BY <2>0 DEF CmdState
  <2>2. CASE CommandEmit(Gui)
    BY <1>1, <2>1, <2>2 DEF CommandEmit
  <2>3. CASE CommandReply(Gui)
    <3>1. ResponseFrame(cmd[Gui].ok) \in Frames
      BY <2>1, OtherFramesTyped
    <3>2. sock'[Gui] = Append(sock[Gui], ResponseFrame(cmd[Gui].ok))
      BY <1>0, <2>3, GuiIsClient DEF CommandReply, SocketsOf
    <3> QED
      BY <3>1, <3>2
  <2> QED
    BY <1>4, <2>2, <2>3
       DEF CommandStep, StoreSent, ClearUnread, StoreDeleted, StoreEdited, StoreReaction
<1>5. ASSUME NEW s \in Slots, DownloadStep(s)
      PROVE  \/ UNCHANGED sock
             \/ \E f \in Frames : sock'[Gui] = Append(sock[Gui], f)
  <2>1. CASE DownloadPublish(s)
    <3>1. dl[s].m \in Msgs
      BY <1>0, <2>1 DEF DownloadPublish, DaemonTyped, DlState
    <3>2. MediaFrame(dl[s].m) \in Frames
      BY <3>1, FramesTyped
    <3>3. sock'[Gui] = Append(sock[Gui], MediaFrame(dl[s].m))
      BY <2>1, GuiIsClient DEF DownloadPublish, Broadcast
    <3> QED
      BY <3>2, <3>3
  <2> QED
    BY <1>5, <2>1 DEF DownloadStep, DownloadFetch, DownloadWrite, DownloadRecord
<1> QED
  BY <1>2, <1>3, <1>4, <1>5 DEF DaemonStep

LEMMA InitView == CInit => ViewInv
<1> SUFFICES ASSUME CInit PROVE ViewInv
  OBVIOUS
<1>1. /\ up /\ reqs = <<>> /\ query = NoQuery /\ list = <<>> /\ chat = NoChat /\ ~page
      /\ sock = [c \in Clients |-> <<>>]
  BY DEF CInit, LinkInit, Init
<1>2. DaemonTyped
  BY InitTyped, TypeParts DEF CInit
<1>3. /\ <<>> \in Seq(GuiFrames) /\ <<>> \in Seq(Commands) /\ <<>> \in Seq(Entries)
      /\ <<>> \in Seq(OfChat(NoChat)) /\ Len(<<>>) = 0
  OBVIOUS
<1>4. SocketsOf(GuiFrames)
  BY <1>1, <1>3 DEF SocketsOf
<1>5. ViewTyped
  BY <1>1, <1>2, <1>3, <1>4 DEF ViewTyped
<1>6. sock[Gui] = <<>>
  BY <1>1, GuiIsClient
<1>7. LastOfChat
  BY <1>1, <1>3, <1>6 DEF LastOfChat, LastIs
<1> QED
  BY <1>1, <1>5, <1>7 DEF ViewInv

LEMMA DaemonTypedView == ViewTyped /\ DaemonStep => ViewTyped'
<1> SUFFICES ASSUME ViewTyped, DaemonStep PROVE ViewTyped'
  OBVIOUS
<1>1. Next
  BY GuiIsClient DEF DaemonStep, Next
<1>2. DaemonTyped' /\ SocketsOf(GuiFrames)'
  BY <1>1, DaemonKept, SocketsTyped, EngineFrames DEF ViewTyped
<1>3. UNCHANGED <<reqs, query, page, chat, list>>
  BY DEF DaemonStep, linkVars, viewVars
<1> QED
  BY <1>2, <1>3 DEF ViewTyped

LEMMA ReadTypedView == ViewTyped /\ GuiRead => ViewTyped'
<1> SUFFICES ASSUME ViewTyped, GuiRead PROVE ViewTyped'
  OBVIOUS
<1>1. /\ UNCHANGED <<store, activeChat, ev, hist, cmd, dl, file, onServer, query, page, chat>>
      /\ SocketsOf(GuiFrames)' /\ list' \in Seq(Entries)
      /\ UNCHANGED reqs \/ \E e \in Reads : reqs' = Append(reqs, e)
  BY FrameRead
<1>2. DaemonTyped'
  BY <1>1 DEF ViewTyped, DaemonTyped, store
<1>3. reqs' \in Seq(Commands)
  BY <1>1, OtherAsked, OthersAreNoListReqs DEF ViewTyped
<1> QED
  BY <1>1, <1>2, <1>3 DEF ViewTyped

\* The rows of the SELECT: every stored message of the chat, and no other.
LEMMA SelectForm ==
    ASSUME ViewTyped, ListMessages
    PROVE  \E j \in Chats :
           /\ query = NoQuery /\ reqs # <<>> /\ Head(reqs) = ListReq(j) /\ reqs' = Tail(reqs)
           /\ query' \in Queries /\ query'.chat = j
           /\ UNCHANGED <<vars, up, viewVars, ghosts>>
           /\ \A i \in 1..Len(query'.rows) :
                 /\ messages[query'.rows[i].m] # NoRow
                 /\ query'.rows[i].row = [messages[query'.rows[i].m] EXCEPT !.raw = FALSE]
           /\ \A m \in Msgs : ChatOf[m] = j /\ messages[m] # NoRow
                 => \E i \in 1..Len(query'.rows) : query'.rows[i].m = m
<1>1. /\ query = NoQuery /\ reqs # <<>> /\ Head(reqs).method = "list_messages"
      /\ reqs' = Tail(reqs) /\ UNCHANGED <<vars, up, viewVars, ghosts>>
  BY DEF ListMessages, Takes, HandlerFree
<1>2. reqs \in Seq(Commands) /\ messages \in MessagesTable
  BY DEF ViewTyped, DaemonTyped
<1> DEFINE j == Head(reqs).chat
           ms == {m \in Msgs : ChatOf[m] = j /\ messages[m] # NoRow}
<1>3. j \in Chats /\ Head(reqs) = ListReq(j)
  <2>1. Head(reqs) \in Commands
    BY <1>1, <1>2
  <2> QED
    BY <1>1, <2>1, Carried
<1>4. PICK newest \in NewestFirst(ms) :
         query' = [pc |-> "reactions", chat |-> j,
                   rows |-> [i \in DOMAIN newest |->
                               Item(newest[i], messages[newest[i]], NoReacts)]]
  BY DEF ListMessages
<1> DEFINE row(m) == Item(m, messages[m], NoReacts)
<1>5. Cardinality(ms) \in Nat
  BY ViewAssumption, FS_Subset, FS_CardinalityType
<1>6. /\ newest \in [1..Cardinality(ms) -> ms]
      /\ \A m \in ms : \E i \in DOMAIN newest : newest[i] = m
  BY <1>4 DEF NewestFirst
<1>7. ASSUME NEW m \in ms
      PROVE  /\ row(m) \in Listed(j) /\ row(m).m = m
             /\ messages[m] # NoRow /\ row(m).row = [messages[m] EXCEPT !.raw = FALSE]
  <2>1. m \in Msgs /\ messages[m] \in MessageRow /\ ChatOf[m] = j
    BY <1>2 DEF MessagesTable
  <2>2. row(m) \in Listed(j)
    BY <2>1, ItemTyped
  <2> QED
    BY <2>2 DEF Item
<1>8. query'.rows = [i \in DOMAIN newest |-> row(newest[i])] /\ query'.chat = j
      /\ query'.pc = "reactions"
  BY <1>4
<1>9. query' = [pc |-> "reactions", chat |-> j, rows |-> query'.rows]
  BY <1>4
<1> HIDE DEF ms, row
<1>10. PICK n \in Nat : newest \in [1..n -> ms]
  BY <1>5, <1>6
<1>11. query'.rows \in Seq(Listed(j)) /\ Len(query'.rows) = n
       /\ \A i \in 1..n : query'.rows[i] = row(newest[i]) /\ newest[i] \in ms
  <2>1. query'.rows = [i \in 1..n |-> row(newest[i])]
    BY <1>8, <1>10
  <2>2. \A i \in 1..n : newest[i] \in ms /\ row(newest[i]) \in Listed(j)
    BY <1>7, <1>10
  <2> QED
    BY <1>10, <2>1, <2>2
<1>12. query' \in Queries
  <2>1. query'.rows \in Seq(Items)
    BY <1>11 DEF Listed
  <2> QED
    BY <1>3, <1>8, <1>9, <1>11, <2>1 DEF Queries
<1>13. ASSUME NEW i \in 1..Len(query'.rows)
       PROVE  /\ messages[query'.rows[i].m] # NoRow
              /\ query'.rows[i].row = [messages[query'.rows[i].m] EXCEPT !.raw = FALSE]
  <2>1. query'.rows[i] = row(newest[i]) /\ newest[i] \in ms
    BY <1>11
  <2>2. row(newest[i]).m = newest[i] /\ messages[newest[i]] # NoRow
        /\ row(newest[i]).row = [messages[newest[i]] EXCEPT !.raw = FALSE]
    BY <1>7, <2>1
  <2> QED
    BY <2>1, <2>2
<1>14. \A m \in Msgs : ChatOf[m] = j /\ messages[m] # NoRow => m \in ms
  BY DEF ms
<1>15. ASSUME NEW m \in ms PROVE \E i \in 1..Len(query'.rows) : query'.rows[i].m = m
  <2>1. PICK i \in 1..n : newest[i] = m
    BY <1>6, <1>10
  <2>2. i \in 1..Len(query'.rows) /\ query'.rows[i] = row(m) /\ row(m).m = m
    BY <1>7, <1>11, <2>1
  <2> QED
    BY <2>2
<1> HIDE DEF j
<1> QED
  BY <1>1, <1>3, <1>8, <1>12, <1>13, <1>14, <1>15

\* ReactionsForChat: nothing else of the rows changes.
LEMMA ReactionsForm ==
    ASSUME ViewTyped, ListReactions
    PROVE  /\ query \in Queries /\ query # NoQuery /\ query' \in Queries
           /\ query'.chat = query.chat /\ Len(query'.rows) = Len(query.rows)
           /\ \A i \in 1..Len(query.rows) : /\ query'.rows[i].m = query.rows[i].m
                                            /\ query'.rows[i].row = query.rows[i].row
           /\ UNCHANGED <<vars, up, reqs, viewVars, ghosts>>
<1>1. query.pc = "reactions" /\ NoQuery.pc = "none"
  BY DEF ListReactions, NoQuery
<1>2. query \in Queries /\ query # NoQuery
  BY <1>1 DEF ViewTyped
<1>3. /\ query.rows \in Seq(Listed(query.chat)) /\ query.chat \in Chats
      /\ Len(query.rows) \in Nat /\ DOMAIN query.rows = 1..Len(query.rows)
      /\ \A i \in 1..Len(query.rows) : query.rows[i] \in Listed(query.chat)
  BY <1>2 DEF Queries
<1> DEFINE new(i) == [query.rows[i] EXCEPT !.reacts = reactions[query.rows[i].m]]
           rows   == [i \in 1..Len(query.rows) |-> new(i)]
<1>4. query' = [query EXCEPT !.pc = "reply", !.rows = rows]
  <2>1. query' = [query EXCEPT !.pc = "reply", !.rows = [i \in DOMAIN query.rows |-> new(i)]]
    BY DEF ListReactions
  <2> QED
    BY <1>3, <2>1
<1>5. ASSUME NEW i \in 1..Len(query.rows)
      PROVE  /\ new(i) \in Listed(query.chat) /\ new(i).m = query.rows[i].m
             /\ new(i).row = query.rows[i].row
  <2>1. query.rows[i] \in Listed(query.chat)
    BY <1>3
  <2>2. reactions[query.rows[i].m] \in [Senders -> Emojis \cup {""}]
    BY <2>1 DEF Listed, ViewTyped, DaemonTyped, ReactionsTable
  <2>3. \A k \in Items, r \in [Senders -> Emojis \cup {""}] :
           LET n == [k EXCEPT !.reacts = r] IN
           n \in Items /\ n.m = k.m /\ n.row = k.row /\ n.pending = k.pending
    BY DEF Items
  <2> QED
    BY <2>1, <2>2, <2>3 DEF Listed
<1> HIDE DEF new
<1>6. /\ rows \in Seq(Listed(query.chat)) /\ Len(rows) = Len(query.rows)
      /\ \A i \in 1..Len(query.rows) : rows[i] = new(i)
  BY <1>3, <1>5
<1> HIDE DEF rows
<1>7. query'.rows = rows /\ query'.chat = query.chat
      /\ query' = [pc |-> "reply", chat |-> query.chat, rows |-> rows]
  BY <1>2, <1>4 DEF Queries
<1>8. rows \in Seq(Items)
  BY <1>6 DEF Listed
<1>9. query' \in Queries
  BY <1>3, <1>6, <1>7, <1>8 DEF Queries
<1>10. UNCHANGED <<vars, up, reqs, viewVars, ghosts>>
  BY DEF ListReactions
<1> QED
  BY <1>2, <1>5, <1>6, <1>7, <1>9, <1>10

\* The response.
LEMMA ReplyForm ==
    ASSUME ViewTyped, ListReply
    PROVE  LET f == ListFrame(query.chat, query.rows) IN
           /\ query \in Queries /\ query # NoQuery /\ query' = NoQuery
           /\ f \in Listings /\ f.chat = query.chat /\ f.rows = query.rows
           /\ sock[Gui] \in Seq(GuiFrames) /\ sock'[Gui] = Append(sock[Gui], f)
           /\ SocketsOf(GuiFrames)'
           /\ UNCHANGED <<store, activeChat, ev, hist, cmd, dl, file, onServer, up, reqs,
                          viewVars, gap>>
<1>1. query.pc = "reply" /\ NoQuery.pc = "none"
  BY DEF ListReply, NoQuery
<1>2. query \in Queries /\ query # NoQuery
  BY <1>1 DEF ViewTyped
<1> DEFINE f == ListFrame(query.chat, query.rows)
<1>3. f \in Listings /\ f.chat = query.chat /\ f.rows = query.rows
  BY <1>2 DEF Queries, Listings, ListFrame
<1>4. sock' = [sock EXCEPT ![Gui] = Append(@, f)] /\ query' = NoQuery
  BY DEF ListReply, Respond
<1> HIDE DEF f
<1>5. sock[Gui] \in Seq(GuiFrames) /\ sock \in [Clients -> Seq(GuiFrames)]
  BY GuiIsClient DEF ViewTyped, SocketsOf
<1>6. f \in GuiFrames
  BY <1>3, EngineFrames
<1>7. sock'[Gui] = Append(sock[Gui], f) /\ SocketsOf(GuiFrames)'
  BY <1>4, <1>5, <1>6, GuiIsClient DEF SocketsOf
<1>8. UNCHANGED <<store, activeChat, ev, hist, cmd, dl, file, onServer, up, reqs,
                  viewVars, gap>>
  BY DEF ListReply
<1> QED
  BY <1>2, <1>3, <1>4, <1>5, <1>7, <1>8 DEF f

LEMMA ListTypedView ==
    ViewTyped /\ (ListMessages \/ ListReactions \/ ListReply) => ViewTyped'
<1> SUFFICES ASSUME ViewTyped, ListMessages \/ ListReactions \/ ListReply PROVE ViewTyped'
  OBVIOUS
<1>1. UNCHANGED vars => DaemonTyped' /\ SocketsOf(GuiFrames)'
  BY DEF ViewTyped, DaemonTyped, SocketsOf, vars
<1>2. CASE ListMessages
  <2>1. /\ query' \in Queries /\ UNCHANGED <<vars, viewVars>>
        /\ reqs # <<>> /\ reqs' = Tail(reqs)
    BY <1>2, SelectForm
  <2>2. reqs' \in Seq(Commands)
    BY <2>1 DEF ViewTyped
  <2> QED
    BY <1>1, <2>1, <2>2 DEF ViewTyped, viewVars
<1>3. CASE ListReactions
  BY <1>1, <1>3, ReactionsForm DEF ViewTyped, viewVars
<1>4. CASE ListReply
  BY <1>4, ReplyForm DEF ViewTyped, DaemonTyped, store, viewVars
<1> QED
  BY <1>2, <1>3, <1>4

\* A command that is dispatched: it leaves the queue and does not list.
LEMMA DispatchForm ==
    ASSUME ViewTyped, Dispatch, NEW r, r = Head(reqs)
    PROVE  /\ DaemonTyped' /\ reqs # <<>> /\ reqs' = Tail(reqs) /\ reqs' \in Seq(Commands)
           /\ r \in Commands \ ListReqs /\ query = NoQuery /\ CmdFree(Gui)
           /\ (gap => gap') /\ UNCHANGED <<up, query, sock, viewVars, skewed>>
           /\ \/ /\ r.method = "set_active_chat" /\ r.chat \in Chats \cup {NoChat}
                 /\ SetActiveChat(Gui, r.chat)
              \/ /\ r.method = "mark_read" /\ r.chat \in Chats
                 /\ \E ok \in BOOLEAN : MarkRead(Gui, r.chat, ok)
              \/ /\ r.method = "send_text" /\ r.chat \in Chats /\ r.text \in Words
                 /\ r = SendReq(r.chat, r.text)
                 /\ \E m \in LocalMsgs : /\ ChatOf[m] = r.chat /\ Body[m] = r.text
                                         /\ Send(Gui, m)
              \/ /\ r.method = "delete_message" /\ r.m \in Msgs /\ DeleteMessage(Gui, r.m)
<1>1. /\ reqs # <<>> /\ reqs' = Tail(reqs) /\ query = NoQuery /\ CmdFree(Gui)
      /\ r.method \in {"set_active_chat", "mark_read", "send_text", "delete_message"}
      /\ (gap => gap') /\ UNCHANGED <<up, query, viewVars, skewed>>
  BY DEF Dispatch, Takes, HandlerFree
<1>2. UNCHANGED sock
  BY DEF Dispatch, SetActiveChat, MarkRead, Send, DeleteMessage, SendUpdate
<1>3. reqs \in Seq(Commands) /\ DaemonTyped
  BY DEF ViewTyped
<1>4. r \in Commands /\ reqs' \in Seq(Commands)
  BY <1>1, <1>3
<1>5. r \notin ListReqs
  BY <1>1, <1>4, Methods
<1>6. /\ r.method = "set_active_chat" => r.chat \in Chats \cup {NoChat}
      /\ r.method = "mark_read" => r.chat \in Chats
      /\ r.method = "send_text" => /\ r.chat \in Chats /\ r.text \in Words
                                   /\ r = SendReq(r.chat, r.text)
      /\ r.method = "delete_message" => r.m \in Msgs
  BY <1>4, Carried
<1>7. \/ r.method = "set_active_chat" /\ SetActiveChat(Gui, r.chat)
      \/ r.method = "mark_read" /\ \E ok \in BOOLEAN : MarkRead(Gui, r.chat, ok)
      \/ /\ r.method = "send_text"
         /\ \E m \in LocalMsgs : ChatOf[m] = r.chat /\ Body[m] = r.text /\ Send(Gui, m)
      \/ r.method = "delete_message" /\ DeleteMessage(Gui, r.m)
  BY DEF Dispatch, Takes
<1>8. DaemonTyped'
  BY <1>3, <1>6, <1>7, GuiIsClient, EngineAssumption, ChatCommandsTyped, MessageCommandsTyped
<1> QED
  BY <1>1, <1>2, <1>4, <1>5, <1>6, <1>7, <1>8

LEMMA DispatchTypedView == ViewTyped /\ Dispatch => ViewTyped'
<1> SUFFICES ASSUME ViewTyped, Dispatch PROVE ViewTyped'
  OBVIOUS
<1>1. /\ DaemonTyped' /\ reqs' \in Seq(Commands) /\ UNCHANGED <<query, sock, viewVars>>
  BY DispatchForm
<1> QED
  BY <1>1 DEF ViewTyped, SocketsOf, viewVars

\* Opening a conversation asks for its messages; nothing else the user does asks
\* for messages or changes the chat.
LEMMA UserForm ==
    ASSUME ViewTyped, User
    PROVE  /\ UNCHANGED <<vars, up, query, skewed>>
           /\ \/ \E j \in Chats : /\ chat' = j /\ gap' = ~up /\ UNCHANGED list
                                  /\ reqs' = IF up THEN Append(Append(reqs, ListReq(j)),
                                                               ActiveReq(j))
                                             ELSE reqs
              \/ /\ UNCHANGED <<chat, list>> /\ (gap => gap') /\ (page' => page)
                 /\ UNCHANGED reqs \/ \E e \in ActiveReqs \cup Deletes : reqs' = Append(reqs, e)
              \/ \E text \in Words :
                    /\ UNCHANGED <<chat, page, gap>> /\ chat \in Chats
                    /\ list' = <<Echo(text)>> \o list
                    /\ reqs' = IF up THEN Append(reqs, SendReq(chat, text)) ELSE reqs
<1>0. UNCHANGED <<vars, up, query, skewed>>
  BY DEF User, OpenChat, LeaveChat, SendText, DeleteShown, ghosts
<1>1. reqs \in Seq(Commands) /\ (page => chat \in Chats)
  BY DEF ViewTyped
<1>2. ASSUME NEW e \in Commands PROVE reqs \o <<e>> = Append(reqs, e)
  BY <1>1
<1>3. ASSUME NEW e \in Commands, NEW f \in Commands
      PROVE  reqs \o <<e, f>> = Append(Append(reqs, e), f)
  BY <1>1
<1>4. ASSUME NEW j \in Chats, OpenChat(j)
      PROVE  /\ chat' = j /\ gap' = ~up /\ UNCHANGED list
             /\ reqs' = IF up THEN Append(Append(reqs, ListReq(j)), ActiveReq(j)) ELSE reqs
  <2>1. reqs \o <<ListReq(j), ActiveReq(j)>> = Append(Append(reqs, ListReq(j)), ActiveReq(j))
    BY <1>3, CommandForms
  <2> QED
    BY <1>4, <2>1 DEF OpenChat, Sent
<1>5. ASSUME LeaveChat
      PROVE  /\ UNCHANGED <<chat, list>> /\ (gap => gap') /\ (page' => page)
             /\ UNCHANGED reqs \/ \E e \in ActiveReqs \cup Deletes : reqs' = Append(reqs, e)
  <2>1. ActiveReq(NoChat) \in ActiveReqs /\ ActiveReq(NoChat) \in Commands
    BY CommandForms DEF ActiveReqs
  <2> QED
    BY <1>2, <1>5, <2>1 DEF LeaveChat, Sent
<1>6. ASSUME NEW m \in Msgs, DeleteShown(m)
      PROVE  /\ UNCHANGED <<chat, list>> /\ (gap => gap') /\ (page' => page)
             /\ UNCHANGED reqs \/ \E e \in ActiveReqs \cup Deletes : reqs' = Append(reqs, e)
  <2>1. DeleteReq(m) \in Deletes /\ DeleteReq(m) \in Commands
    BY CommandForms DEF Deletes
  <2> QED
    BY <1>2, <1>6, <2>1 DEF DeleteShown, Sent, viewVars, ghosts
<1>7. ASSUME NEW text \in Words, SendText(text)
      PROVE  /\ UNCHANGED <<chat, page, gap>> /\ chat \in Chats
             /\ list' = <<Echo(text)>> \o list
             /\ reqs' = IF up THEN Append(reqs, SendReq(chat, text)) ELSE reqs
  <2>1. chat \in Chats
    BY <1>1, <1>7 DEF SendText
  <2>2. SendReq(chat, text) \in Commands
    BY <2>1, CommandForms
  <2>3. reqs \o <<SendReq(chat, text)>> = Append(reqs, SendReq(chat, text))
    BY <1>2, <2>2
  <2> QED
    BY <1>7, <2>1, <2>3 DEF SendText, ghosts, Sent
<1> QED
  BY <1>0, <1>4, <1>5, <1>6, <1>7 DEF User, Words

LEMMA UserTypedView == ViewTyped /\ User => ViewTyped'
<1> SUFFICES ASSUME ViewTyped, User PROVE ViewTyped'
  OBVIOUS
<1>0. /\ reqs \in Seq(Commands) /\ list \in Seq(Entries)
      /\ chat \in Chats \cup {NoChat} /\ (page => chat \in Chats)
      /\ UNCHANGED <<vars, query>>
  BY UserForm DEF ViewTyped
<1>1. DaemonTyped' /\ SocketsOf(GuiFrames)' /\ query' \in Queries \cup {NoQuery}
  BY <1>0 DEF ViewTyped, DaemonTyped, SocketsOf, vars
<1>2. ASSUME NEW j \in Chats, chat' = j, UNCHANGED list,
             reqs' = IF up THEN Append(Append(reqs, ListReq(j)), ActiveReq(j)) ELSE reqs
      PROVE  ViewTyped'
  <2>1. ListReq(j) \in Commands /\ ActiveReq(j) \in Commands
    BY CommandForms
  <2>2. reqs' \in Seq(Commands)
    BY <1>0, <1>2, <2>1
  <2> QED
    BY <1>0, <1>1, <1>2, <2>2 DEF ViewTyped
<1>3. ASSUME UNCHANGED <<chat, list>>, page' => page,
             UNCHANGED reqs \/ \E e \in ActiveReqs \cup Deletes : reqs' = Append(reqs, e)
      PROVE  ViewTyped'
  <2>1. reqs' \in Seq(Commands)
    BY <1>0, <1>3 DEF Commands
  <2> QED
    BY <1>0, <1>1, <1>3, <2>1 DEF ViewTyped
<1>4. ASSUME NEW text \in Words, UNCHANGED <<chat, page>>, chat \in Chats,
             list' = <<Echo(text)>> \o list,
             reqs' = IF up THEN Append(reqs, SendReq(chat, text)) ELSE reqs
      PROVE  ViewTyped'
  <2>1. SendReq(chat, text) \in Commands /\ Echo(text) \in Entries
    BY <1>4, CommandForms, EchoTyped
  <2>2. \A e \in Commands : Append(reqs, e) \in Seq(Commands)
    BY <1>0
  <2>3. \A i \in Entries : <<i>> \o list \in Seq(Entries)
    BY <1>0
  <2>4. reqs' \in Seq(Commands) /\ list' \in Seq(Entries)
    BY <1>0, <1>4, <2>1, <2>2, <2>3
  <2> QED
    BY <1>0, <1>1, <1>4, <2>4 DEF ViewTyped
<1> QED
  BY <1>2, <1>3, <1>4, UserForm

LEMMA LinkForm ==
    ASSUME Lost \/ Connect \/ (FrameLost /\ UNCHANGED <<viewVars, ghosts>>)
    PROVE  /\ UNCHANGED viewVars
           /\ \/ Lost /\ gap' /\ reqs' = <<>> /\ query' = NoQuery /\ Restart
              \/ UNCHANGED <<vars, reqs, query, ghosts>>
              \/ ~up /\ ~up' /\ ClientRead(Gui) /\ UNCHANGED <<reqs, query, ghosts>>
BY DEF Lost, LinkLost, Connect, Reconnected, FrameLost, linkVars, ghosts

LEMMA LinkTypedView ==
    ViewTyped /\ (Lost \/ Connect \/ (FrameLost /\ UNCHANGED <<viewVars, ghosts>>))
    => ViewTyped'
<1> SUFFICES ASSUME ViewTyped,
                    Lost \/ Connect \/ (FrameLost /\ UNCHANGED <<viewVars, ghosts>>)
             PROVE  ViewTyped'
  OBVIOUS
<1>1. UNCHANGED viewVars
  BY LinkForm
<1>2. CASE Restart /\ reqs' = <<>> /\ query' = NoQuery
  <2>1. DaemonTyped' /\ SocketsOf(GuiFrames)'
    BY <1>2, DaemonKept, SocketsTyped, EngineFrames DEF ViewTyped, Next
  <2>2. <<>> \in Seq(Commands)
    OBVIOUS
  <2> QED
    BY <1>1, <1>2, <2>1, <2>2 DEF ViewTyped, viewVars
<1>3. CASE UNCHANGED <<vars, reqs, query>>
  BY <1>1, <1>3 DEF ViewTyped, DaemonTyped, SocketsOf, vars, viewVars
<1>4. CASE ClientRead(Gui) /\ UNCHANGED <<reqs, query>>
  <2>1. Next
    BY <1>4, GuiIsClient DEF Next
  <2>2. DaemonTyped' /\ SocketsOf(GuiFrames)'
    BY <2>1, DaemonKept, SocketsTyped, EngineFrames DEF ViewTyped
  <2> QED
    BY <1>1, <1>4, <2>2 DEF ViewTyped, viewVars
<1> QED
  BY <1>2, <1>3, <1>4, LinkForm

LEMMA ViewTypedKept == ViewTyped /\ [CNext]_cvars => ViewTyped'
<1>1. ViewTyped /\ UNCHANGED cvars => ViewTyped'
  BY DEF ViewTyped, DaemonTyped, SocketsOf, cvars, vars, linkVars, viewVars
<1> QED
  BY <1>1, DaemonTypedView, ReadTypedView, ListTypedView, DispatchTypedView, UserTypedView,
     LinkTypedView DEF CNext

-----------------------------------------------------------------------------
(* The view is of one chat: step by step.                                  *)

\* Frames of the engine come between the listings and change nothing about them.
LEMMA OtherWritten ==
    ASSUME NEW q \in Seq(GuiFrames), NEW f \in Frames, NEW G
    PROVE  /\ LastIs(q, Listings, G) => LastIs(Append(q, f), Listings, G)
           /\ Has(Append(q, f), Listings) <=> Has(q, Listings)
<1>1. f \in GuiFrames /\ f \notin Listings
  BY EngineFrames
<1>2. LastIs(q, Listings, G) => LastIs(Append(q, f), Listings, G)
  BY <1>1, LastAppended
<1>3. Has(Append(q, f), Listings) <=> Has(q, Listings)
  BY <1>1, HasAppended
<1> QED
  BY <1>2, <1>3

LEMMA GuiSocket == ViewTyped => sock[Gui] \in Seq(GuiFrames) /\ reqs \in Seq(Commands)
BY GuiIsClient DEF ViewTyped, SocketsOf

LEMMA DaemonView == ViewTyped /\ LastOfChat /\ DaemonStep => LastOfChat'
<1> SUFFICES ASSUME ViewTyped, LastOfChat, DaemonStep PROVE LastOfChat'
  OBVIOUS
<1> DEFINE G == {f \in Listings : f.chat = chat}
<1>1. UNCHANGED <<reqs, query, page, chat, list>>
  BY DEF DaemonStep, linkVars, viewVars
<1>2. /\ LastIs(sock[Gui], Listings, G) => LastIs(sock'[Gui], Listings, G)
      /\ Has(sock'[Gui], Listings) <=> Has(sock[Gui], Listings)
  BY DaemonWritesFrames, OtherWritten, GuiSocket
<1> QED
  BY <1>1, <1>2 DEF LastOfChat

LEMMA ListView ==
    ViewTyped /\ LastOfChat /\ (ListMessages \/ ListReactions \/ ListReply) => LastOfChat'
<1> SUFFICES ASSUME ViewTyped, LastOfChat, ListMessages \/ ListReactions \/ ListReply
             PROVE  LastOfChat'
  OBVIOUS
<1>0. \A q \in Queries : q # NoQuery
  BY QueryIsNamed
<1>1. CASE ListMessages
  <2>1. PICK j \in Chats :
           /\ reqs # <<>> /\ Head(reqs) = ListReq(j) /\ reqs' = Tail(reqs)
           /\ query' \in Queries /\ query'.chat = j /\ UNCHANGED viewVars
    BY <1>1, SelectForm
  <2>2. LastIs(reqs, ListReqs, {ListReq(chat)}) /\ Head(reqs) \in ListReqs
    BY <2>1, CommandForms DEF LastOfChat
  <2>3. /\ LastIs(reqs', ListReqs, {ListReq(chat)})
        /\ ~Has(reqs', ListReqs) => Head(reqs) \in {ListReq(chat)}
    BY <2>1, <2>2, GuiSocket, LastTaken
  <2>4. ~Has(reqs', ListReqs) => j = chat
    BY <2>1, <2>3, Methods
  <2> QED
    BY <1>0, <2>1, <2>3, <2>4 DEF LastOfChat, viewVars
<1>2. CASE ListReactions
  BY <1>0, <1>2, ReactionsForm DEF LastOfChat, vars, viewVars
<1>3. CASE ListReply
  <2> DEFINE f == ListFrame(query.chat, query.rows)
             G == {g \in Listings : g.chat = chat}
  <2>1. /\ query # NoQuery /\ query' = NoQuery /\ f \in Listings /\ f.chat = query.chat
        /\ sock[Gui] \in Seq(GuiFrames) /\ sock'[Gui] = Append(sock[Gui], f)
        /\ UNCHANGED <<reqs, viewVars>>
    BY <1>3, ReplyForm
  <2> HIDE DEF f
  <2>2. f \in GuiFrames
    BY <2>1, EngineFrames
  <2>3. ~Has(reqs, ListReqs) => f \in G
    BY <2>1 DEF LastOfChat
  <2>4. f \in G => LastIs(sock'[Gui], Listings, G)
    BY <2>1, <2>2, LastAppended
  <2>5. Has(sock'[Gui], Listings)
    BY <2>1, <2>2, HasAppended
  <2> QED
    BY <2>1, <2>3, <2>4, <2>5 DEF LastOfChat, viewVars
<1> QED
  BY <1>1, <1>2, <1>3

LEMMA DispatchView == ViewTyped /\ LastOfChat /\ Dispatch => LastOfChat'
<1> SUFFICES ASSUME ViewTyped, LastOfChat, Dispatch PROVE LastOfChat'
  OBVIOUS
<1>1. /\ reqs # <<>> /\ reqs' = Tail(reqs) /\ Head(reqs) \notin ListReqs
      /\ UNCHANGED <<query, sock, viewVars>>
  BY DispatchForm
<1>2. LastIs(reqs, ListReqs, {ListReq(chat)})
  BY DEF LastOfChat
<1>3. /\ LastIs(reqs', ListReqs, {ListReq(chat)})
      /\ Has(reqs', ListReqs) <=> Has(reqs, ListReqs)
  BY <1>1, <1>2, GuiSocket, LastTaken, HasTaken
<1> QED
  BY <1>1, <1>3 DEF LastOfChat, viewVars

\* A view of one chat stays one whatever frame is read, and becomes one when a
\* listing of the chat is.
LEMMA ReadOfChat ==
    ASSUME ViewTyped, GuiRead, NEW f, f = Head(sock[Gui]),
           f \in Listings => f.chat = chat,
           f \notin Listings => list \in Seq(OfChat(chat))
    PROVE  list' \in Seq(OfChat(chat))
<1>0. /\ f \in GuiFrames /\ list' \in Seq(Entries) /\ UNCHANGED chat
      /\ \/ f.ev = "message" /\ OnMessage(f.m)
         \/ f.ev = "messages" /\ OnMessages(f)
         \/ f.ev \notin {"message", "messages"} /\ "m" \in DOMAIN f /\ OnPatch(f)
         \/ f.ev \notin {"message", "messages"} /\ "m" \notin DOMAIN f /\ UNCHANGED list
  BY FrameRead
<1>1. f \in Listings <=> f.ev = "messages"
  BY <1>0, EngineFrames
<1>2. CASE f.ev = "messages" /\ OnMessages(f)
  <2>1. list' \in Seq(Listed(f.chat))
    BY <1>0, <1>1, <1>2, ListingShown
  <2> QED
    BY <1>1, <1>2, <2>1, ListedShown
<1>3. CASE f.ev = "message" /\ OnMessage(f.m)
  <2>1. f.m \in Msgs
    BY <1>0, <1>3, FrameForms
  <2>2. ChatOf[f.m] = chat => Announced(f.m) \in OfChat(chat)
    BY <2>1, AnnouncedTyped, ListedShown
  <2>3. list \in Seq(OfChat(chat))
    BY <1>1, <1>3
  <2>4. PICK e \in Entries : e = Announced(f.m)
    BY <2>1, AnnouncedTyped, ListedShown
  <2>5. /\ \A k \in 1..Len(list) : e \in OfChat(chat) =>
                 [list EXCEPT ![k] = e] \in Seq(OfChat(chat))
        /\ e \in OfChat(chat) => <<e>> \o list \in Seq(OfChat(chat))
    BY <2>3, ExceptSeq
  <2>6. \/ ChatOf[f.m] # chat \/ ~Renderable(e)
        \/ ChatOf[f.m] = chat /\ \E k \in 1..Len(list) : list' = [list EXCEPT ![k] = e]
        \/ ChatOf[f.m] = chat /\ list' = <<e>> \o list
    BY <1>3, <2>1, <2>4, MessageShown
  <2>7. ChatOf[f.m] # chat \/ ~Renderable(e) => UNCHANGED list
    BY <1>3, <2>1, <2>4, MessageShown
  <2> QED
    BY <2>2, <2>3, <2>4, <2>5, <2>6, <2>7
<1>4. CASE f.ev \notin {"message", "messages"} /\ "m" \in DOMAIN f /\ OnPatch(f)
  <2>1. /\ Len(list') = Len(list) /\ Len(list) \in Nat
        /\ \A i \in 1..Len(list) : /\ list'[i].m = list[i].m
                                   /\ list'[i].pending = list[i].pending
                                   /\ list'[i] \in Entries /\ list[i] \in OfChat(chat)
    BY <1>0, <1>1, <1>4, PatchForm, ListOfEntries
  <2>2. \A i \in 1..Len(list') : list'[i] \in OfChat(chat)
    BY <2>1 DEF OfChat
  <2>3. DOMAIN list' = 1..Len(list')
    BY <1>0
  <2> QED
    BY <1>0, <2>1, <2>2, <2>3
<1>5. CASE f.ev \notin {"message", "messages"} /\ "m" \notin DOMAIN f /\ UNCHANGED list
  BY <1>1, <1>5
<1> QED
  BY <1>0, <1>2, <1>3, <1>4, <1>5

LEMMA ReadView == ViewTyped /\ LastOfChat /\ GuiRead => LastOfChat'
<1> SUFFICES ASSUME ViewTyped, LastOfChat, GuiRead PROVE LastOfChat'
  OBVIOUS
<1> DEFINE f == Head(sock[Gui])
           G == {g \in Listings : g.chat = chat}
           L == {ListReq(chat)}
<1>1. /\ sock[Gui] \in Seq(GuiFrames) /\ sock[Gui] # <<>> /\ sock'[Gui] = Tail(sock[Gui])
      /\ UNCHANGED <<query, chat>> /\ reqs \in Seq(Commands)
      /\ UNCHANGED reqs \/ \E e \in Reads : reqs' = Append(reqs, e)
  BY FrameRead, GuiSocket
<1>2. /\ LastIs(reqs, ListReqs, L) => LastIs(reqs', ListReqs, L)
      /\ Has(reqs', ListReqs) <=> Has(reqs, ListReqs)
  <2>1. CASE UNCHANGED reqs
    BY <2>1
  <2>2. ASSUME NEW e \in Reads, reqs' = Append(reqs, e)
        PROVE  /\ LastIs(reqs, ListReqs, L) => LastIs(reqs', ListReqs, L)
               /\ Has(reqs', ListReqs) <=> Has(reqs, ListReqs)
    <3>1. e \in Commands \ ListReqs
      BY OthersAreNoListReqs
    <3> QED
      BY <1>1, <2>2, <3>1, OtherAsked
  <2> QED
    BY <1>1, <2>1, <2>2
<1>3. LastIs(reqs, ListReqs, L)
  BY DEF LastOfChat
<1>4. CASE Has(reqs, ListReqs) \/ query # NoQuery
  BY <1>1, <1>2, <1>3, <1>4 DEF LastOfChat
<1>5. CASE ~Has(reqs, ListReqs) /\ query = NoQuery
  <2>1. /\ LastIs(sock[Gui], Listings, G)
        /\ ~Has(sock[Gui], Listings) => list \in Seq(OfChat(chat))
    BY <1>5 DEF LastOfChat
  <2>2. /\ LastIs(sock'[Gui], Listings, G)
        /\ f \in Listings /\ ~Has(sock'[Gui], Listings) => f \in G
    BY <1>1, <2>1, LastTaken
  <2>3. Has(sock[Gui], Listings) <=> f \in Listings \/ Has(sock'[Gui], Listings)
    BY <1>1, HasTaken
  <2>4. ASSUME ~Has(sock'[Gui], Listings) PROVE list' \in Seq(OfChat(chat))
    <3>1. f \in Listings => f.chat = chat
      BY <2>2, <2>4
    <3>2. f \notin Listings => list \in Seq(OfChat(chat))
      BY <2>1, <2>3, <2>4
    <3> HIDE DEF f
    <3>3. f = Head(sock[Gui])
      BY DEF f
    <3> QED
      BY <3>1, <3>2, <3>3, ReadOfChat
  <2> QED
    BY <1>1, <1>2, <1>3, <1>5, <2>2, <2>4 DEF LastOfChat
<1> QED
  BY <1>4, <1>5

LEMMA UserView ==
    ViewTyped /\ (up \/ gap) /\ (~gap => LastOfChat) /\ User => (~gap' => LastOfChat')
<1> SUFFICES ASSUME ViewTyped, up \/ gap, ~gap => LastOfChat, User, ~gap'
             PROVE  LastOfChat'
  OBVIOUS
<1>0. reqs \in Seq(Commands) /\ UNCHANGED <<sock, query>>
  BY UserForm, GuiSocket DEF vars
<1>1. ASSUME NEW j \in Chats, chat' = j, gap' = ~up,
             reqs' = IF up THEN Append(Append(reqs, ListReq(j)), ActiveReq(j)) ELSE reqs
      PROVE  LastOfChat'
  <2>1. ListReq(j) \in Commands /\ ListReq(j) \in ListReqs
        /\ ActiveReq(j) \in Commands \ ListReqs
    BY CommandForms, OthersAreNoListReqs
  <2>2. PICK l \in ListReqs, a \in Commands \ ListReqs : l = ListReq(j) /\ a = ActiveReq(j)
    BY <2>1
  <2>3. reqs' = Append(Append(reqs, l), a) /\ l \in Commands
    BY <1>1, <2>1, <2>2
  <2>4. /\ Append(reqs, l) \in Seq(Commands) /\ LastIs(Append(reqs, l), ListReqs, {l})
        /\ Has(Append(reqs, l), ListReqs)
    BY <1>0, <2>2, <2>3, LastAppended, HasAppended
  <2>5. LastIs(reqs', ListReqs, {l}) /\ Has(reqs', ListReqs)
    BY <2>3, <2>4, OtherAsked
  <2> QED
    BY <1>1, <2>2, <2>5 DEF LastOfChat
<1>2. ASSUME UNCHANGED chat, gap => gap', list \in Seq(OfChat(chat)) => list' \in Seq(OfChat(chat)),
             UNCHANGED reqs \/ \E e \in Commands \ ListReqs : reqs' = Append(reqs, e)
      PROVE  LastOfChat'
  <2>1. LastIs(reqs, ListReqs, {ListReq(chat)}) /\ LastOfChat
    BY <1>2 DEF LastOfChat
  <2>2. /\ LastIs(reqs', ListReqs, {ListReq(chat)})
        /\ Has(reqs', ListReqs) <=> Has(reqs, ListReqs)
    BY <1>0, <1>2, <2>1, OtherAsked
  <2> QED
    BY <1>0, <1>2, <2>1, <2>2 DEF LastOfChat
<1>3. ASSUME NEW text \in Words, UNCHANGED <<chat, gap>>, chat \in Chats,
             list' = <<Echo(text)>> \o list,
             reqs' = IF up THEN Append(reqs, SendReq(chat, text)) ELSE reqs
      PROVE  LastOfChat'
  <2>1. SendReq(chat, text) \in Commands \ ListReqs
    BY <1>3, OthersAreNoListReqs
  <2>2. Echo(text) \in OfChat(chat)
    BY EchoTyped DEF OfChat
  <2>3. \A e \in OfChat(chat) : list \in Seq(OfChat(chat)) => <<e>> \o list \in Seq(OfChat(chat))
    OBVIOUS
  <2> QED
    BY <1>2, <1>3, <2>1, <2>2, <2>3
<1>4. ActiveReqs \cup Deletes \subseteq Commands \ ListReqs
  BY OthersAreNoListReqs
<1> QED
  BY <1>1, <1>2, <1>3, <1>4, UserForm

LEMMA ViewKept == ViewInv /\ [CNext]_cvars => ViewInv'
<1> SUFFICES ASSUME ViewInv, [CNext]_cvars PROVE ViewInv'
  OBVIOUS
<1>0. ViewTyped /\ ViewTyped' /\ (up \/ gap) /\ (~gap => LastOfChat)
  BY ViewTypedKept DEF ViewInv
<1>1. CASE DaemonStep
  BY <1>0, <1>1, DaemonView DEF ViewInv, DaemonStep, linkVars
<1>2. CASE ListMessages \/ ListReactions \/ ListReply
  <2>1. UNCHANGED <<up, gap>>
    BY <1>2 DEF ListMessages, ListReactions, ListReply, ghosts
  <2> QED
    BY <1>0, <1>2, <2>1, ListView DEF ViewInv
<1>3. CASE Dispatch
  <2>1. UNCHANGED up /\ (gap => gap')
    BY <1>3 DEF Dispatch
  <2> QED
    BY <1>0, <1>3, <2>1, DispatchView DEF ViewInv
<1>4. CASE GuiRead
  <2>1. UNCHANGED <<up, gap>>
    BY <1>4 DEF GuiRead
  <2> QED
    BY <1>0, <1>4, <2>1, ReadView DEF ViewInv
<1>5. CASE User
  <2>1. UNCHANGED up /\ (gap' \/ up)
    BY <1>0, <1>5 DEF User, OpenChat, LeaveChat, SendText, DeleteShown, ghosts
  <2> QED
    BY <1>0, <1>5, <2>1, UserView DEF ViewInv
<1>6. CASE Lost \/ Connect \/ (FrameLost /\ UNCHANGED <<viewVars, ghosts>>)
  <2>1. CASE gap'
    BY <1>0, <2>1 DEF ViewInv
  <2>2. CASE ~gap'
    <3>1. ~gap /\ up
      BY <1>0, <1>6, <2>2 DEF Lost, Connect, ghosts
    <3> QED
      BY <1>6, <2>2, <3>1 DEF Lost, Connect, Reconnected, FrameLost
  <2> QED
    BY <2>1, <2>2
<1>7. CASE UNCHANGED cvars
  BY <1>0, <1>7 DEF ViewInv, LastOfChat, cvars, vars, linkVars, viewVars, ghosts
<1> QED
  BY <1>1, <1>2, <1>3, <1>4, <1>5, <1>6, <1>7 DEF CNext

\* When nothing is being loaded, no listing is asked for and none is on its way.
LEMMA LoadedSettled ==
    ASSUME ViewTyped, ~Loading
    PROVE  query = NoQuery /\ ~Has(reqs, ListReqs) /\ ~Has(sock[Gui], Listings)
<1>1. reqs \in Seq(Commands) /\ sock[Gui] \in Seq(GuiFrames)
  BY GuiSocket
<1>2. \A k \in 1..Len(reqs) : reqs[k] \in Commands /\ reqs[k].method # "list_messages"
  BY <1>1 DEF Loading
<1>3. \A k \in 1..Len(sock[Gui]) : sock[Gui][k] \in GuiFrames /\ sock[Gui][k].ev # "messages"
  BY <1>1 DEF Loading
<1>4. ~Has(reqs, ListReqs)
  BY <1>2, Methods DEF Has
<1>5. ~Has(sock[Gui], Listings)
  BY <1>3, EngineFrames DEF Has
<1> QED
  BY <1>4, <1>5 DEF Loading

\* Once the responses to its requests have come, the open conversation shows messages
\* of its own chat and no other, for any chats and messages and however the listings,
\* the events, the user's acts and the restarts interleave.
THEOREM ViewOfOneChatTheorem == CSpec => []ViewOfOneChat
<1>1. ViewInv => ViewOfOneChat
  <2> SUFFICES ASSUME ViewInv, ~Loading, ~gap, NEW i \in DOMAIN list, ~list[i].pending
               PROVE  ChatOf[list[i].m] = chat
    BY DEF ViewOfOneChat
  <2>1. ViewTyped /\ LastOfChat
    BY DEF ViewInv
  <2>2. query = NoQuery /\ ~Has(reqs, ListReqs) /\ ~Has(sock[Gui], Listings)
    BY <2>1, LoadedSettled
  <2>3. list \in Seq(OfChat(chat))
    BY <2>1, <2>2 DEF LastOfChat
  <2>4. list[i] \in OfChat(chat)
    BY <2>3
  <2> QED
    BY <2>4 DEF OfChat
<1> QED
  BY <1>1, InitView, ViewKept, PTL DEF CSpec

-----------------------------------------------------------------------------
(* Every text shown as sent is accounted for.                              *)

\* The entries that await the copy of a text, and the frames that bring one.
Awaiting(text)   == {i \in Entries : i.pending /\ i.row.text = text}
CopyFrames(text) == {MessageFrame(m) : m \in Copies(text)}

BeingPut(text) == IF cmd[Gui].pc = "put" /\ cmd[Gui].m \in Copies(text) THEN 1 ELSE 0

Owed(text) == Count(reqs, {SendReq(chat, text)}) + BeingPut(text)
                + Count(cmd[Gui].out, CopyFrames(text)) + Count(sock[Gui], CopyFrames(text))

Settled == /\ ~gap /\ query = NoQuery
           /\ ~Has(reqs, ListReqs) /\ ~Has(sock[Gui], Listings)

\* A command pushes its frames before it takes another step.
OutHeld == cmd[Gui].out # <<>> => cmd[Gui].pc = "reply"

EchoInv ==
    /\ ViewInv /\ OutHeld
    /\ Settled => \A text \in Words : Count(list, Awaiting(text)) <= Owed(text)

LEMMA CommandTyped ==
    ViewTyped => /\ cmd \in [Clients -> CmdState] /\ cmd[Gui] \in CmdState
                 /\ cmd[Gui].out \in Seq(GuiFrames) /\ cmd[Gui].out \in Seq(Frames)
<1> SUFFICES ASSUME ViewTyped
             PROVE  /\ cmd \in [Clients -> CmdState] /\ cmd[Gui] \in CmdState
                    /\ cmd[Gui].out \in Seq(GuiFrames) /\ cmd[Gui].out \in Seq(Frames)
  OBVIOUS
<1>1. cmd \in [Clients -> CmdState] /\ cmd[Gui] \in CmdState
  BY GuiIsClient DEF ViewTyped, DaemonTyped
<1>2. cmd[Gui].out \in Seq(Frames)
  BY <1>1 DEF CmdState
<1> QED
  BY <1>1, <1>2, EngineFrames

CountsTyped ==
    \A text : /\ Count(reqs, {SendReq(chat, text)}) \in Nat /\ BeingPut(text) \in Nat
              /\ Count(cmd[Gui].out, CopyFrames(text)) \in Nat
              /\ Count(sock[Gui], CopyFrames(text)) \in Nat
              /\ Count(list, Awaiting(text)) \in Nat
              /\ Owed(text) \in Nat

LEMMA OwedTyped == ViewTyped => CountsTyped
<1> SUFFICES ASSUME ViewTyped, NEW text
             PROVE  /\ Count(reqs, {SendReq(chat, text)}) \in Nat /\ BeingPut(text) \in Nat
                    /\ Count(cmd[Gui].out, CopyFrames(text)) \in Nat
                    /\ Count(sock[Gui], CopyFrames(text)) \in Nat
                    /\ Count(list, Awaiting(text)) \in Nat
  BY DEF CountsTyped, Owed
<1>1. /\ reqs \in Seq(Commands) /\ sock[Gui] \in Seq(GuiFrames) /\ list \in Seq(Entries)
      /\ cmd[Gui].out \in Seq(GuiFrames)
  BY GuiSocket, CommandTyped DEF ViewTyped
<1>2. BeingPut(text) \in Nat
  BY DEF BeingPut
<1> QED
  BY <1>1, <1>2, CountTyped

\* What a goroutine of the daemon does to the frames on their way to the GUI.
LEMMA DaemonMoves ==
    ASSUME ViewTyped, OutHeld, DaemonStep
    PROVE  /\ OutHeld'
           /\ \/ UNCHANGED cmd /\ UNCHANGED sock
              \/ UNCHANGED cmd /\ \E f \in Frames : sock'[Gui] = Append(sock[Gui], f)
              \/ /\ UNCHANGED sock /\ cmd[Gui].out = <<>> /\ cmd[Gui].pc = "put"
                 /\ cmd'[Gui].pc = "reply" /\ cmd'[Gui].out = <<MessageFrame(cmd[Gui].m)>>
              \/ /\ UNCHANGED sock /\ cmd[Gui].out = <<>> /\ cmd[Gui].pc # "put"
                 /\ cmd'[Gui].pc = "reply"
              \/ /\ cmd[Gui].out # <<>> /\ cmd'[Gui].out = Tail(cmd[Gui].out)
                 /\ cmd'[Gui].pc = cmd[Gui].pc /\ cmd'[Gui].m = cmd[Gui].m
                 /\ sock'[Gui] = Append(sock[Gui], Head(cmd[Gui].out))
              \/ /\ cmd[Gui].out = <<>> /\ cmd[Gui].pc # "put" /\ cmd'[Gui] = CmdIdle
                 /\ \E f \in Frames : sock'[Gui] = Append(sock[Gui], f)
<1>0. cmd \in [Clients -> CmdState] /\ cmd[Gui] \in CmdState
  BY CommandTyped
<1>1. CASE UNCHANGED cmd
  BY <1>1, DaemonWritesFrames DEF OutHeld
<1>2. CASE EventArrives \/ EventStep \/ \E s \in Slots : DownloadStep(s)
  <2>1. UNCHANGED cmd
    BY <1>2
       DEF EventArrives, EventMessage, EventRevoke, EventEdit, EventReaction, EventReceipt,
           EventStep, EventAnnounced, EventIncrement, EventSelect, EventEmit,
           DownloadStep, DownloadFetch, DownloadWrite, DownloadRecord, DownloadPublish
  <2> QED
    BY <1>1, <2>1
<1>3. CASE CommandStep(Gui)
  <2>1. \A rec : Begin(Gui, rec) => cmd'[Gui] = rec
    BY <1>0, GuiIsClient DEF Begin
  <2>2. \A ok : Reply(ok).pc = "reply" /\ Reply(ok).out = <<>>
    BY DEF Reply, CmdIdle
  <2>3. \A ok, q : /\ [Reply(ok) EXCEPT !.out = q].pc = "reply"
                   /\ [Reply(ok) EXCEPT !.out = q].out = q
    BY DEF Reply, CmdIdle
  <2>4. CASE StoreSent(Gui)
    <3>1. cmd[Gui].pc = "put" /\ UNCHANGED sock
          /\ Begin(Gui, [Reply(TRUE) EXCEPT !.out = <<MessageFrame(cmd[Gui].m)>>])
      BY <2>4 DEF StoreSent
    <3>2. cmd[Gui].out = <<>>
      BY <3>1 DEF OutHeld
    <3> DEFINE q == <<MessageFrame(cmd[Gui].m)>>
    <3>3. cmd'[Gui] = [Reply(TRUE) EXCEPT !.out = q]
      BY <2>1, <3>1
    <3>4. cmd'[Gui].pc = "reply" /\ cmd'[Gui].out = q
      <4> HIDE DEF q
      <4>1. /\ [Reply(TRUE) EXCEPT !.out = q].pc = "reply"
            /\ [Reply(TRUE) EXCEPT !.out = q].out = q
        BY DEF Reply, CmdIdle
      <4> QED
        BY <3>3, <4>1
    <3>5. OutHeld'
      BY <3>4 DEF OutHeld
    <3> QED
      BY <3>1, <3>2, <3>4, <3>5
  <2>5. CASE ClearUnread(Gui) \/ StoreDeleted(Gui) \/ StoreEdited(Gui) \/ StoreReaction(Gui)
    <3>1. cmd[Gui].pc \in {"clear", "revoke", "edit", "react"} /\ UNCHANGED sock
      BY <2>5 DEF ClearUnread, StoreDeleted, StoreEdited, StoreReaction
    <3>2. \/ \E ok : Begin(Gui, Reply(ok))
          \/ \E ok, q : Begin(Gui, [Reply(ok) EXCEPT !.out = q])
      <4>1. CASE ClearUnread(Gui)
        BY <4>1 DEF ClearUnread
      <4>2. CASE StoreDeleted(Gui)
        BY <4>2 DEF StoreDeleted
      <4>3. CASE StoreEdited(Gui)
        BY <4>3 DEF StoreEdited
      <4>4. CASE StoreReaction(Gui)
        BY <4>4 DEF StoreReaction
      <4> QED
        BY <2>5, <4>1, <4>2, <4>3, <4>4
    <3>3. cmd'[Gui].pc = "reply"
      <4>1. ASSUME NEW ok, Begin(Gui, Reply(ok))
            PROVE  cmd'[Gui].pc = "reply"
        <5>1. cmd'[Gui] = Reply(ok)
          BY <2>1, <4>1
        <5> QED
          BY <2>2, <5>1
      <4>2. ASSUME NEW ok, NEW q, Begin(Gui, [Reply(ok) EXCEPT !.out = q])
            PROVE  cmd'[Gui].pc = "reply"
        <5>1. cmd'[Gui] = [Reply(ok) EXCEPT !.out = q]
          BY <2>1, <4>2
        <5> QED
          BY <2>3, <5>1
      <4> QED
        BY <3>2, <4>1, <4>2
    <3>4. cmd[Gui].out = <<>>
      BY <3>1 DEF OutHeld
    <3>5. OutHeld'
      BY <3>3 DEF OutHeld
    <3> QED
      BY <3>1, <3>3, <3>4, <3>5
  <2>6. CASE CommandEmit(Gui)
    <3>1. cmd[Gui].out # <<>> /\ Broadcast(Head(cmd[Gui].out))
          /\ cmd' = [cmd EXCEPT ![Gui].out = Tail(cmd[Gui].out)]
      BY <2>6 DEF CommandEmit
    <3>2. cmd'[Gui] = [cmd[Gui] EXCEPT !.out = Tail(cmd[Gui].out)]
      BY <1>0, <3>1, GuiIsClient
    <3>3. /\ cmd'[Gui].out = Tail(cmd[Gui].out) /\ cmd'[Gui].pc = cmd[Gui].pc
          /\ cmd'[Gui].m = cmd[Gui].m
      BY <1>0, <3>2 DEF CmdState
    <3>4. sock'[Gui] = Append(sock[Gui], Head(cmd[Gui].out))
      BY <3>1, GuiIsClient DEF Broadcast
    <3> QED
      BY <3>1, <3>3, <3>4 DEF OutHeld
  <2>7. CASE CommandReply(Gui)
    <3>1. /\ cmd[Gui].pc = "reply" /\ cmd[Gui].out = <<>> /\ cmd'[Gui] = CmdIdle
          /\ sock' = [sock EXCEPT ![Gui] = Append(sock[Gui], ResponseFrame(cmd[Gui].ok))]
      BY <2>1, <2>7 DEF CommandReply
    <3>2. ResponseFrame(cmd[Gui].ok) \in Frames
      BY <1>0, OtherFramesTyped DEF CmdState
    <3>3. sock'[Gui] = Append(sock[Gui], ResponseFrame(cmd[Gui].ok))
      BY <3>1, GuiIsClient DEF ViewTyped, SocketsOf
    <3>4. OutHeld'
      <4>1. CmdIdle.out = <<>>
        BY DEF CmdIdle
      <4>2. cmd'[Gui].out = <<>>
        BY <3>1, <4>1
      <4> QED
        BY <4>2 DEF OutHeld
    <3> QED
      BY <3>1, <3>2, <3>3, <3>4
  <2> QED
    BY <1>3, <2>4, <2>5, <2>6, <2>7 DEF CommandStep
<1> QED
  BY <1>2, <1>3 DEF DaemonStep

\* The goroutines lose no copy of a text.
LEMMA DaemonEchoes ==
    ASSUME ViewTyped, ViewTyped', OutHeld, DaemonStep, NEW text
    PROVE  Owed(text) <= Owed(text)'
<1> DEFINE P == CopyFrames(text)
           a == Count(cmd[Gui].out, P)
           b == Count(sock[Gui], P)
<1>0. /\ UNCHANGED <<reqs, chat>>
      /\ sock[Gui] \in Seq(GuiFrames) /\ cmd[Gui].out \in Seq(GuiFrames)
  BY GuiSocket, CommandTyped DEF DaemonStep, linkVars, viewVars
<1>1. P' = P /\ Copies(text)' = Copies(text)
  BY <1>0 DEF CopyFrames, Copies
<1>2. /\ Count(reqs, {SendReq(chat, text)})' = Count(reqs, {SendReq(chat, text)})
      /\ Count(reqs, {SendReq(chat, text)}) \in Nat
      /\ BeingPut(text) \in Nat /\ BeingPut(text)' \in Nat
      /\ a \in Nat /\ a' \in Nat /\ b \in Nat /\ b' \in Nat
  <2>1. CountsTyped'
    BY OwedTyped, PTL
  <2> QED
    BY <1>0, <2>1, OwedTyped DEF CountsTyped
<1>3. ASSUME NEW f \in Frames, sock'[Gui] = Append(sock[Gui], f)
      PROVE  b' = b + (IF f \in P THEN 1 ELSE 0)
  BY <1>0, <1>1, <1>3, EngineFrames, CountAppended
<1>4. cmd[Gui].out = <<>> => a = 0
  BY HasNothing, CountNothing
<1>5. BeingPut(text) + a + b <= BeingPut(text)' + a' + b'
  <2>1. CASE UNCHANGED cmd /\ UNCHANGED sock
    BY <1>1, <1>2, <2>1 DEF BeingPut
  <2>2. ASSUME UNCHANGED cmd, NEW f \in Frames, sock'[Gui] = Append(sock[Gui], f)
        PROVE  BeingPut(text) + a + b <= BeingPut(text)' + a' + b'
    <3>1. BeingPut(text)' = BeingPut(text) /\ a' = a /\ b <= b'
      BY <1>1, <1>2, <1>3, <2>2 DEF BeingPut
    <3> QED
      BY <1>2, <3>1
  <2>3. CASE /\ UNCHANGED sock /\ cmd[Gui].out = <<>> /\ cmd[Gui].pc = "put"
             /\ cmd'[Gui].pc = "reply" /\ cmd'[Gui].out = <<MessageFrame(cmd[Gui].m)>>
    <3> DEFINE f == MessageFrame(cmd[Gui].m)
    <3>1. cmd[Gui].m \in Msgs
      BY <2>3, CommandTyped DEF CmdState
    <3>2. f \in GuiFrames
      BY <3>1, FramesTyped, EngineFrames
    <3>3. <<f>> = Append(<<>>, f) /\ <<>> \in Seq(GuiFrames)
      OBVIOUS
    <3>4. a' = Count(<<>>, P) + (IF f \in P THEN 1 ELSE 0)
      <4>1. Count(Append(<<>>, f), P) = Count(<<>>, P) + (IF f \in P THEN 1 ELSE 0)
        BY <3>2, <3>3, CountAppended
      <4> QED
        BY <1>1, <2>3, <3>3, <4>1
    <3>5. Count(<<>>, P) = 0
      BY HasNothing, CountNothing
    <3>6. BeingPut(text)' = 0 /\ b' = b
      BY <1>1, <2>3 DEF BeingPut
    <3>7. BeingPut(text) = 1 => f \in P
      BY DEF BeingPut, CopyFrames
    <3>8. BeingPut(text) \in {0, 1}
      BY DEF BeingPut
    <3> HIDE DEF f, P
    <3> QED
      BY <1>2, <1>4, <2>3, <3>4, <3>5, <3>6, <3>7, <3>8
  <2>4. CASE /\ UNCHANGED sock /\ cmd[Gui].out = <<>> /\ cmd[Gui].pc # "put"
             /\ cmd'[Gui].pc = "reply"
    <3>1. BeingPut(text) = 0 /\ b' = b
      BY <1>1, <2>4 DEF BeingPut
    <3> QED
      BY <1>2, <1>4, <2>4, <3>1
  <2>5. CASE /\ cmd[Gui].out # <<>> /\ cmd'[Gui].out = Tail(cmd[Gui].out)
             /\ cmd'[Gui].pc = cmd[Gui].pc /\ cmd'[Gui].m = cmd[Gui].m
             /\ sock'[Gui] = Append(sock[Gui], Head(cmd[Gui].out))
    <3> DEFINE f == Head(cmd[Gui].out)
    <3>1. BeingPut(text)' = BeingPut(text)
      BY <1>1, <2>5 DEF BeingPut
    <3>2. f \in Frames
      BY <2>5, CommandTyped
    <3>3. a = Count(Tail(cmd[Gui].out), P) + (IF f \in P THEN 1 ELSE 0)
      BY <1>0, <2>5, CountTaken
    <3>4. a' = Count(Tail(cmd[Gui].out), P)
      BY <1>1, <2>5
    <3>5. b' = b + (IF f \in P THEN 1 ELSE 0)
      BY <1>3, <2>5, <3>2
    <3> HIDE DEF f, P
    <3> QED
      BY <1>2, <3>1, <3>3, <3>4, <3>5
  <2>6. ASSUME cmd[Gui].out = <<>>, cmd[Gui].pc # "put",
               NEW f \in Frames, sock'[Gui] = Append(sock[Gui], f)
        PROVE  BeingPut(text) + a + b <= BeingPut(text)' + a' + b'
    <3>1. BeingPut(text) = 0 /\ a = 0 /\ b <= b'
      BY <1>2, <1>3, <1>4, <2>6 DEF BeingPut
    <3> QED
      BY <1>2, <3>1
  <2> QED
    BY <2>1, <2>2, <2>3, <2>4, <2>5, <2>6, DaemonMoves
<1> HIDE DEF a, b
<1>6. /\ Owed(text) = Count(reqs, {SendReq(chat, text)}) + BeingPut(text) + a + b
      /\ Owed(text)' = Count(reqs, {SendReq(chat, text)})' + BeingPut(text)' + a' + b'
  BY DEF Owed, a, b
<1> QED
  BY <1>2, <1>5, <1>6

\* A command that is taken has nothing to push yet.
LEMMA DispatchHolds ==
    ASSUME ViewTyped, OutHeld, Dispatch
    PROVE  OutHeld' /\ cmd[Gui].pc = "idle" /\ cmd[Gui].out = <<>> /\ cmd'[Gui].out = <<>>
<1> DEFINE r == Head(reqs)
<1>1. /\ reqs # <<>> /\ reqs' = Tail(reqs) /\ reqs \in Seq(Commands) /\ r \in Commands
      /\ CmdFree(Gui) /\ UNCHANGED <<sock, chat, list>>
      /\ cmd \in [Clients -> CmdState]
      /\ \/ SetActiveChat(Gui, r.chat)
         \/ \E ok \in BOOLEAN : MarkRead(Gui, r.chat, ok)
         \/ \E m \in LocalMsgs : /\ ChatOf[m] = r.chat /\ Body[m] = r.text
                                 /\ r.method = "send_text" /\ Send(Gui, m)
         \/ DeleteMessage(Gui, r.m)
      /\ r.method \in {"set_active_chat", "mark_read", "delete_message"} \/
         \E m \in LocalMsgs : /\ ChatOf[m] = r.chat /\ Body[m] = r.text
                              /\ r.method = "send_text" /\ Send(Gui, m)
  BY DispatchForm, GuiSocket, CommandTyped DEF viewVars
<1>2. \A rec : Begin(Gui, rec) => cmd'[Gui] = rec
  BY <1>1, GuiIsClient DEF Begin
<1>3. cmd[Gui].pc = "idle" /\ cmd[Gui].out = <<>>
  BY <1>1 DEF CmdFree, OutHeld
<1>4. cmd'[Gui].out = <<>>
  <2>1. \A ok : Reply(ok).out = <<>>
    BY DEF Reply, CmdIdle
  <2>2. \A j, ok : /\ [CmdIdle EXCEPT !.pc = "clear", !.chat = j].out = <<>>
                   /\ [CmdIdle EXCEPT !.pc = "clear", !.chat = j, !.ok = ok].out = <<>>
    BY DEF CmdIdle
  <2>3. \A m : /\ [CmdIdle EXCEPT !.pc = "put", !.m = m].out = <<>>
               /\ [CmdIdle EXCEPT !.pc = "revoke", !.m = m, !.val = ""].out = <<>>
    BY DEF CmdIdle
  <2>4. CASE SetActiveChat(Gui, r.chat)
    <3>1. \/ Begin(Gui, Reply(TRUE))
          \/ Begin(Gui, [CmdIdle EXCEPT !.pc = "clear", !.chat = r.chat])
      BY <2>4 DEF SetActiveChat
    <3>2. \/ cmd'[Gui] = Reply(TRUE)
          \/ cmd'[Gui] = [CmdIdle EXCEPT !.pc = "clear", !.chat = r.chat]
      BY <1>2, <3>1
    <3> QED
      BY <2>1, <2>2, <3>2
  <2>5. ASSUME NEW ok \in BOOLEAN, MarkRead(Gui, r.chat, ok) PROVE cmd'[Gui].out = <<>>
    <3>1. cmd'[Gui] = [CmdIdle EXCEPT !.pc = "clear", !.chat = r.chat, !.ok = ok]
      BY <1>2, <2>5 DEF MarkRead
    <3> QED
      BY <2>2, <3>1
  <2>6. ASSUME NEW m \in LocalMsgs, Send(Gui, m) PROVE cmd'[Gui].out = <<>>
    <3>1. \/ cmd'[Gui] = Reply(FALSE)
          \/ cmd'[Gui] = [CmdIdle EXCEPT !.pc = "put", !.m = m]
      BY <1>2, <2>6 DEF Send
    <3> QED
      BY <2>1, <2>3, <3>1
  <2>7. CASE DeleteMessage(Gui, r.m)
    <3>1. \/ cmd'[Gui] = Reply(FALSE)
          \/ cmd'[Gui] = [CmdIdle EXCEPT !.pc = "revoke", !.m = r.m, !.val = ""]
      BY <1>2, <2>7 DEF DeleteMessage, SendUpdate
    <3> QED
      BY <2>1, <2>3, <3>1
  <2> QED
    BY <1>1, <2>4, <2>5, <2>6, <2>7
<1> QED
  BY <1>3, <1>4 DEF OutHeld

\* The command taken is answered, or becomes a message that is being stored.
LEMMA DispatchEchoes ==
    ASSUME ViewTyped, ViewTyped', OutHeld, Dispatch, ~gap'
    PROVE  OutHeld' /\ \A text \in Words : Owed(text) <= Owed(text)'
<1> DEFINE r == Head(reqs)
<1>1. /\ reqs # <<>> /\ reqs' = Tail(reqs) /\ reqs \in Seq(Commands) /\ r \in Commands
      /\ CmdFree(Gui) /\ UNCHANGED <<sock, chat, list>>
      /\ cmd \in [Clients -> CmdState]
      /\ \/ SetActiveChat(Gui, r.chat)
         \/ \E ok \in BOOLEAN : MarkRead(Gui, r.chat, ok)
         \/ \E m \in LocalMsgs : /\ ChatOf[m] = r.chat /\ Body[m] = r.text
                                 /\ r.method = "send_text" /\ Send(Gui, m)
         \/ DeleteMessage(Gui, r.m)
      /\ r.method \in {"set_active_chat", "mark_read", "delete_message"} \/
         \E m \in LocalMsgs : /\ ChatOf[m] = r.chat /\ Body[m] = r.text
                              /\ r.method = "send_text" /\ Send(Gui, m)
  BY DispatchForm, GuiSocket, CommandTyped DEF viewVars
<1>2. \A rec : Begin(Gui, rec) => cmd'[Gui] = rec
  BY <1>1, GuiIsClient DEF Begin
<1>3. OutHeld' /\ cmd[Gui].pc = "idle" /\ cmd[Gui].out = <<>> /\ cmd'[Gui].out = <<>>
  BY DispatchHolds
<1>6. ASSUME NEW text \in Words PROVE Owed(text) <= Owed(text)'
  <2> DEFINE S == {SendReq(chat, text)}
             P == CopyFrames(text)
  <2>1. P' = P /\ S' = S /\ Copies(text)' = Copies(text)
    BY <1>1 DEF CopyFrames, Copies
  <2>2. Count(reqs, S) = Count(reqs, S)' + (IF r \in S THEN 1 ELSE 0)
    <3>1. Count(reqs, S) = Count(Tail(reqs), S) + (IF r \in S THEN 1 ELSE 0)
      BY <1>1, CountTaken
    <3> QED
      BY <1>1, <2>1, <3>1
  <2>3. BeingPut(text) = 0
    BY <1>3 DEF BeingPut
  <2>4. Count(cmd[Gui].out, P)' = Count(cmd[Gui].out, P) /\ Count(sock[Gui], P)' = Count(sock[Gui], P)
    BY <1>1, <1>3, <2>1
  <2>5. r \in S => BeingPut(text)' = 1
    <3> SUFFICES ASSUME r = SendReq(chat, text) PROVE BeingPut(text)' = 1
      OBVIOUS
    <3>1. r.method = "send_text" /\ r.chat = chat /\ r.text = text
      BY DEF SendReq
    <3>2. PICK m \in LocalMsgs : ChatOf[m] = r.chat /\ Body[m] = r.text /\ Send(Gui, m)
      BY <1>1, <3>1
    <3>3. cmd'[Gui] # Reply(FALSE)
      BY <3>1 DEF Dispatch
    <3>4. cmd'[Gui] = [CmdIdle EXCEPT !.pc = "put", !.m = m]
      BY <1>2, <3>2, <3>3 DEF Send
    <3>5. cmd'[Gui].pc = "put" /\ cmd'[Gui].m = m
      BY <3>4 DEF CmdIdle
    <3>6. m \in Copies(text)
      BY <3>1, <3>2 DEF Copies
    <3> QED
      BY <2>1, <3>5, <3>6 DEF BeingPut
  <2>6. /\ Count(reqs, S)' \in Nat /\ BeingPut(text)' \in Nat
        /\ Count(cmd[Gui].out, P) \in Nat /\ Count(sock[Gui], P) \in Nat
    <3>1. CountsTyped'
      BY OwedTyped, PTL
    <3> QED
      BY <3>1, OwedTyped DEF CountsTyped
  <2>7. /\ Owed(text) = Count(reqs, S) + BeingPut(text)
                        + Count(cmd[Gui].out, P) + Count(sock[Gui], P)
        /\ Owed(text)' = Count(reqs, S)' + BeingPut(text)'
                         + Count(cmd[Gui].out, P)' + Count(sock[Gui], P)'
    BY DEF Owed
  <2> HIDE DEF S, P
  <2> QED
    BY <2>2, <2>3, <2>4, <2>5, <2>6, <2>7
<1> QED
  BY <1>3, <1>6

\* A message takes no more from what is owed than from the echoes that wait for it.
LEMMA MessageEchoes ==
    ASSUME ViewTyped, NEW m \in Msgs, OnMessage(m), NEW text \in Words
    PROVE  \/ Count(list', Awaiting(text)) + (IF m \in Copies(text) THEN 1 ELSE 0)
                 <= Count(list, Awaiting(text))
           \/ Count(list', Awaiting(text)) = 0
           \/ /\ m \notin Copies(text)
              /\ Count(list', Awaiting(text)) = Count(list, Awaiting(text))
<1> DEFINE P == Awaiting(text)
           i == Announced(m)
<1>0. /\ list \in Seq(Entries) /\ i \in Entries /\ i \notin P /\ i.row.text = Body[m]
      /\ Count(list, P) \in Nat
  BY AnnouncedTyped, ListedShown, CountTyped DEF ViewTyped, Awaiting
<1>1. m \in Copies(text) => /\ FromMe[m] /\ ChatOf[m] = chat /\ i.row.text = text
                            /\ Renderable(i)
  <2>1. text # ""
    BY DEF Words
  <2> QED
    BY <1>0, <2>1, EngineAssumption DEF Copies, Renderable
<1>2. CASE ChatOf[m] # chat \/ ~Renderable(i)
  BY <1>1, <1>2, MessageShown
<1>3. ASSUME NEW k \in Echoes(i.row.text), k \in 1..Len(list), list[k].pending,
             list[k].row.text = i.row.text, list' = [list EXCEPT ![k] = i]
      PROVE  \/ Count(list', P) + (IF m \in Copies(text) THEN 1 ELSE 0) <= Count(list, P)
             \/ /\ m \notin Copies(text)
                /\ Count(list', P) = Count(list, P)
  <2>1. Count(list', P) = IF list[k] \in P THEN Count(list, P) - 1 ELSE Count(list, P)
    <3> HIDE DEF i, P
    <3>0. list \in Seq(Entries) /\ k \in 1..Len(list) /\ i \notin P
      BY <1>0, <1>3
    <3>1. Count([list EXCEPT ![k] = i], P)
             = IF list[k] \in P THEN Count(list, P) - 1 ELSE Count(list, P)
      BY ONLY <3>0, CountReplaced
    <3> QED
      BY <1>3, <3>1
  <2>2. m \in Copies(text) => list[k] \in P
    BY <1>0, <1>1, <1>3 DEF Awaiting
  <2> HIDE DEF P
  <2> QED
    BY <1>0, <2>1, <2>2
<1>4. ASSUME FromMe[m] => Echoes(i.row.text) = {}, list' = <<i>> \o list
      PROVE  \/ Count(list', P) = 0
             \/ /\ m \notin Copies(text)
                /\ Count(list', P) = Count(list, P)
  <2>1. Count(list', P) = Count(list, P)
    <3>1. Count(<<i>> \o list, P) = Count(list, P) + (IF i \in P THEN 1 ELSE 0)
      BY <1>0, CountPut
    <3> HIDE DEF P
    <3> QED
      BY <1>0, <1>4, <3>1
  <2>2. ASSUME m \in Copies(text) PROVE Count(list, P) = 0
    <3>1. Echoes(text) = {}
      BY <1>1, <1>4, <2>2
    <3>2. ~Has(list, P)
      BY <1>0, <3>1 DEF Echoes, Has, Awaiting
    <3> QED
      BY <3>2, CountNothing
  <2> QED
    BY <2>1, <2>2
<1> QED
  BY <1>2, <1>3, <1>4, MessageShown

LEMMA ReadEchoes ==
    ASSUME ViewInv, ViewTyped', OutHeld, Settled => \A text \in Words :
              Count(list, Awaiting(text)) <= Owed(text),
           GuiRead, Settled'
    PROVE  OutHeld' /\ \A text \in Words : Count(list', Awaiting(text)) <= Owed(text)'
<1> DEFINE f == Head(sock[Gui])
<1>0. ViewTyped /\ ~gap /\ LastOfChat
  BY FrameRead DEF ViewInv, Settled
<1>1. /\ f \in GuiFrames /\ sock[Gui] \in Seq(GuiFrames) /\ sock[Gui] # <<>>
      /\ sock'[Gui] = Tail(sock[Gui]) /\ UNCHANGED <<cmd, query, chat, gap>>
      /\ \/ f.ev = "message" /\ OnMessage(f.m)
         \/ f.ev = "messages" /\ OnMessages(f)
         \/ f.ev \notin {"message", "messages"} /\ "m" \in DOMAIN f /\ OnPatch(f)
         \/ f.ev \notin {"message", "messages"} /\ "m" \notin DOMAIN f /\ UNCHANGED list
      /\ UNCHANGED reqs \/ \E e \in Reads : reqs' = Append(reqs, e)
      /\ reqs \in Seq(Commands) /\ list \in Seq(Entries) /\ list' \in Seq(Entries)
  BY <1>0, FrameRead, GuiSocket DEF ViewTyped
<1>2. f \in Listings <=> f.ev = "messages"
  BY <1>1, EngineFrames
<1>3. /\ Has(reqs', ListReqs) <=> Has(reqs, ListReqs)
      /\ \A text \in Words : Count(reqs', {SendReq(chat, text)}) = Count(reqs, {SendReq(chat, text)})
  <2>1. CASE UNCHANGED reqs
    BY <2>1
  <2>2. ASSUME NEW e \in Reads, reqs' = Append(reqs, e)
        PROVE  /\ Has(reqs', ListReqs) <=> Has(reqs, ListReqs)
               /\ \A text \in Words : Count(reqs', {SendReq(chat, text)})
                                        = Count(reqs, {SendReq(chat, text)})
    <3>1. e \in Commands \ ListReqs
      BY OthersAreNoListReqs
    <3>2. e.method = "mark_read"
      BY DEF Reads
    <3>3. \A text : e \notin {SendReq(chat, text)}
      BY <3>2, Methods
    <3>4. \A text : Count(Append(reqs, e), {SendReq(chat, text)})
                      = Count(reqs, {SendReq(chat, text)})
      <4> TAKE text
      <4>1. Count(Append(reqs, e), {SendReq(chat, text)})
              = Count(reqs, {SendReq(chat, text)}) + (IF e \in {SendReq(chat, text)} THEN 1 ELSE 0)
        BY <1>1, <3>1, CountAppended
      <4>2. Count(reqs, {SendReq(chat, text)}) \in Nat
        BY <1>1, CountTyped
      <4> QED
        BY <3>3, <4>1, <4>2
    <3> QED
      BY <1>1, <2>2, <3>1, <3>4, OtherAsked
  <2> QED
    BY <1>1, <2>1, <2>2
<1>4. /\ ~Has(reqs, ListReqs) /\ query = NoQuery /\ ~Has(sock'[Gui], Listings)
  BY <1>1, <1>3 DEF Settled
<1>5. ASSUME NEW text \in Words
      PROVE  /\ Owed(text)' = Owed(text) - (IF f \in CopyFrames(text) THEN 1 ELSE 0)
             /\ Owed(text) \in Nat /\ Owed(text)' \in Nat /\ Count(list, Awaiting(text)) \in Nat
  <2> DEFINE P == CopyFrames(text)
             S == {SendReq(chat, text)}
  <2>1. P' = P /\ S' = S /\ BeingPut(text)' = BeingPut(text)
    BY <1>1 DEF CopyFrames, Copies, BeingPut
  <2>2. Count(sock[Gui], P) = Count(sock[Gui], P)' + (IF f \in P THEN 1 ELSE 0)
    <3>1. Count(sock[Gui], P) = Count(Tail(sock[Gui]), P) + (IF f \in P THEN 1 ELSE 0)
      BY <1>1, CountTaken
    <3> QED
      BY <1>1, <2>1, <3>1
  <2>3. Count(cmd[Gui].out, P)' = Count(cmd[Gui].out, P) /\ Count(reqs, S)' = Count(reqs, S)
    BY <1>1, <1>3, <2>1
  <2>4. /\ Count(reqs, S) \in Nat /\ BeingPut(text) \in Nat
        /\ Count(cmd[Gui].out, P) \in Nat /\ Count(sock[Gui], P) \in Nat
        /\ Count(sock[Gui], P)' \in Nat /\ Count(list, Awaiting(text)) \in Nat
    <3>1. CountsTyped'
      BY OwedTyped, PTL
    <3> QED
      BY <1>0, <3>1, OwedTyped DEF CountsTyped
  <2>5. /\ Owed(text) = Count(reqs, S) + BeingPut(text)
                        + Count(cmd[Gui].out, P) + Count(sock[Gui], P)
        /\ Owed(text)' = Count(reqs, S)' + BeingPut(text)'
                         + Count(cmd[Gui].out, P)' + Count(sock[Gui], P)'
    BY DEF Owed
  <2> HIDE DEF S, P
  <2>6. f \in CopyFrames(text) <=> f \in P
    BY DEF P
  <2> QED
    BY <2>1, <2>2, <2>3, <2>4, <2>5, <2>6
<1>6. OutHeld'
  BY <1>1 DEF OutHeld
<1>7. CASE f.ev = "messages" /\ OnMessages(f)
  <2>1. f.chat = chat
    <3>1. LastIs(sock[Gui], Listings, {g \in Listings : g.chat = chat})
      BY <1>0, <1>4 DEF LastOfChat
    <3>2. f \in {g \in Listings : g.chat = chat}
      BY <1>1, <1>2, <1>4, <1>7, <3>1, LastTaken
    <3> QED
      BY <3>2
  <2>2. list' \in Seq(Listed(f.chat))
    <3> HIDE DEF f
    <3> QED
      BY <1>0, <1>1, <1>7, <2>1, ListingShown
  <2>3. \A text \in Words : ~Has(list', Awaiting(text))
    BY <2>2 DEF Has, Awaiting, Listed
  <2>4. \A text \in Words : Count(list', Awaiting(text)) = 0
    BY <2>3, CountNothing
  <2>5. \A n \in Nat : 0 <= n
    OBVIOUS
  <2> QED
    BY <1>5, <1>6, <2>4, <2>5
<1>8. CASE f.ev # "messages"
  <2>1. Settled
    <3>1. ~Has(sock[Gui], Listings)
      BY <1>1, <1>2, <1>4, <1>8, HasTaken
    <3> QED
      BY <1>0, <1>4, <3>1 DEF Settled
  <2>2. ASSUME NEW text \in Words
        PROVE  Count(list', Awaiting(text)) <= Owed(text)'
    <3> DEFINE L == Count(list, Awaiting(text))
               M == Count(list', Awaiting(text))
    <3>1. L <= Owed(text)
      BY <2>1
    <3>2. M \in Nat
      BY <1>1, CountTyped
    <3>3. CASE f.ev = "message" /\ OnMessage(f.m)
      <4>1. f.m \in Msgs /\ f = MessageFrame(f.m)
        BY <1>1, <3>3, FrameForms
      <4>2. f \in CopyFrames(text) => f.m \in Copies(text)
        <5> SUFFICES ASSUME NEW n \in Copies(text), f = MessageFrame(n)
                     PROVE  f.m \in Copies(text)
          BY DEF CopyFrames
        <5>1. f.m = n
          BY DEF MessageFrame
        <5> QED
          BY <5>1
      <4> HIDE DEF f
      <4>3. \/ M + (IF f.m \in Copies(text) THEN 1 ELSE 0) <= L
            \/ M = 0
            \/ /\ f.m \notin Copies(text)
               /\ M = L
        BY <1>0, <3>3, <4>1, MessageEchoes
      <4> HIDE DEF L, M
      <4> QED
        BY <1>5, <3>1, <3>2, <4>2, <4>3 DEF L, M
    <3>4. ASSUME f.ev # "message", UNCHANGED list \/ ("m" \in DOMAIN f /\ OnPatch(f))
          PROVE  M <= Owed(text)'
      <4>1. f \notin CopyFrames(text)
        <5>1. \A n : MessageFrame(n).ev = "message"
          BY DEF MessageFrame
        <5> QED
          BY <3>4, <5>1 DEF CopyFrames
      <4>2. M = L
        <5>1. CASE UNCHANGED list
          BY <5>1
        <5>2. CASE "m" \in DOMAIN f /\ OnPatch(f)
          <6> HIDE DEF f
          <6>1. /\ Len(list') = Len(list)
                /\ \A i \in 1..Len(list) :
                      /\ list'[i].pending = list[i].pending
                      /\ list'[i] = list[i] \/ ~list[i].pending
            BY <1>0, <1>1, <5>2, PatchForm
          <6>2. \A i \in 1..Len(list) : list'[i] \in Awaiting(text) <=> list[i] \in Awaiting(text)
            BY <6>1 DEF Awaiting
          <6>3. Places(list', Awaiting(text)) = Places(list, Awaiting(text))
            BY <6>1, <6>2 DEF Places
          <6> QED
            BY <6>3 DEF Count
        <5> QED
          BY <3>4, <5>1, <5>2
      <4> HIDE DEF L, M, f
      <4>3. Owed(text)' = Owed(text)
        BY <1>5, <4>1
      <4> QED
        BY <3>1, <4>2, <4>3
    <3> HIDE DEF M
    <3>5. M <= Owed(text)'
      BY <1>1, <1>8, <3>3, <3>4 DEF M
    <3> QED
      BY <3>5 DEF M
  <2> QED
    BY <1>6, <2>2
<1> QED
  BY <1>1, <1>7, <1>8

\* What the user does adds an echo together with the command that is owed for it.
LEMMA UserEchoes ==
    ASSUME ViewInv, ViewTyped', OutHeld, Settled => \A text \in Words :
              Count(list, Awaiting(text)) <= Owed(text),
           User, Settled'
    PROVE  OutHeld' /\ \A text \in Words : Count(list', Awaiting(text)) <= Owed(text)'
<1>0. /\ ViewTyped /\ (up \/ gap) /\ ~gap' /\ UNCHANGED <<sock, cmd, query>>
      /\ reqs \in Seq(Commands) /\ list \in Seq(Entries)
      /\ sock[Gui] \in Seq(GuiFrames)
  BY UserForm, GuiSocket DEF ViewInv, ViewTyped, Settled, vars
<1>1. OutHeld'
  BY <1>0 DEF OutHeld
<1>2. /\ CountsTyped /\ CountsTyped'
  BY <1>0, OwedTyped, PTL
<1>3. ASSUME UNCHANGED chat, NEW text
      PROVE  \E rest \in Nat : /\ Owed(text) = Count(reqs, {SendReq(chat, text)}) + rest
                               /\ Owed(text)' = Count(reqs, {SendReq(chat, text)})' + rest
  <2>1. /\ CopyFrames(text)' = CopyFrames(text) /\ BeingPut(text)' = BeingPut(text)
    BY <1>0, <1>3 DEF CopyFrames, Copies, BeingPut
  <2> DEFINE a == Count(reqs, {SendReq(chat, text)})
             b == BeingPut(text)
             c == Count(cmd[Gui].out, CopyFrames(text))
             d == Count(sock[Gui], CopyFrames(text))
  <2>2. b' = b /\ c' = c /\ d' = d
    BY <1>0, <2>1
  <2>3. Owed(text) = a + b + c + d /\ Owed(text)' = a' + b' + c' + d'
    BY DEF Owed
  <2>4. a \in Nat /\ b \in Nat /\ c \in Nat /\ d \in Nat
    BY <1>2 DEF CountsTyped
  <2>6. a' \in Nat
    BY <1>2 DEF CountsTyped
  <2> DEFINE rest == b + c + d
  <2>5. rest \in Nat /\ Owed(text) = a + rest
    <3> HIDE DEF a, b, c, d
    <3> QED
      BY <2>3, <2>4
  <2>7. Owed(text)' = a' + rest
    <3> DEFINE e == a'
    <3>1. Owed(text)' = e + b + c + d
      BY <2>2, <2>3
    <3>2. e \in Nat
      BY <2>6
    <3> HIDE DEF a, b, c, d, e
    <3>3. e + b + c + d = e + rest
      BY <2>4, <3>2
    <3>4. Owed(text)' = e + rest
      BY <3>1, <3>3
    <3> QED
      BY <3>4 DEF e
  <2> HIDE DEF rest
  <2> QED
    BY <2>5, <2>7
<1>4. ASSUME NEW text
      PROVE  /\ Owed(text) \in Nat /\ Owed(text)' \in Nat
             /\ Count(reqs, {SendReq(chat, text)}) \in Nat
             /\ Count(reqs, {SendReq(chat, text)})' \in Nat
             /\ Count(list, Awaiting(text)) \in Nat
  <2>1. /\ Owed(text) \in Nat /\ Count(reqs, {SendReq(chat, text)}) \in Nat
        /\ Count(list, Awaiting(text)) \in Nat
    BY <1>2 DEF CountsTyped
  <2>2. Owed(text)' \in Nat /\ Count(reqs, {SendReq(chat, text)})' \in Nat
    BY <1>2 DEF CountsTyped
  <2> QED
    BY <2>1, <2>2
<1>5. ASSUME NEW j \in Chats, chat' = j, gap' = ~up,
             reqs' = IF up THEN Append(Append(reqs, ListReq(j)), ActiveReq(j)) ELSE reqs
      PROVE  FALSE
  <2>1. reqs' = Append(Append(reqs, ListReq(j)), ActiveReq(j))
    BY <1>0, <1>5
  <2>2. /\ ListReq(j) \in ListReqs /\ ListReq(j) \in Commands /\ ActiveReq(j) \in Commands
    BY CommandForms
  <2>3. Append(reqs, ListReq(j)) \in Seq(Commands) /\ Has(Append(reqs, ListReq(j)), ListReqs)
    BY <1>0, <2>2, HasAppended
  <2>4. Has(reqs', ListReqs)
    BY <2>1, <2>2, <2>3, HasAppended
  <2> QED
    BY <2>4 DEF Settled
<1>6. ASSUME UNCHANGED <<chat, list>>, gap => gap',
             UNCHANGED reqs \/ \E e \in ActiveReqs \cup Deletes : reqs' = Append(reqs, e)
      PROVE  \A text \in Words : Count(list', Awaiting(text)) <= Owed(text)'
  <2>1. /\ Has(reqs, ListReqs) => Has(reqs', ListReqs)
        /\ \A text : Count(reqs', {SendReq(chat, text)}) = Count(reqs, {SendReq(chat, text)})
    <3>1. CASE UNCHANGED reqs
      BY <3>1
    <3>2. ASSUME NEW e \in ActiveReqs \cup Deletes, reqs' = Append(reqs, e)
          PROVE  /\ Has(reqs, ListReqs) => Has(reqs', ListReqs)
                 /\ \A text : Count(reqs', {SendReq(chat, text)})
                                = Count(reqs, {SendReq(chat, text)})
      <4>1. e \in Commands
        BY OthersAreNoListReqs
      <4>2. e.method \in {"set_active_chat", "delete_message"}
        BY Methods DEF ActiveReqs, Deletes
      <4>3. \A text : e \notin {SendReq(chat, text)}
        BY <4>2, Methods
      <4>4. \A text : Count(Append(reqs, e), {SendReq(chat, text)})
                        = Count(reqs, {SendReq(chat, text)})
        <5> TAKE text
        <5>1. Count(Append(reqs, e), {SendReq(chat, text)})
                = Count(reqs, {SendReq(chat, text)})
                  + (IF e \in {SendReq(chat, text)} THEN 1 ELSE 0)
          BY <1>0, <4>1, CountAppended
        <5>2. Count(reqs, {SendReq(chat, text)}) \in Nat /\ e \notin {SendReq(chat, text)}
          BY <1>4, <4>3
        <5> QED
          BY <5>1, <5>2
      <4> QED
        BY <1>0, <3>2, <4>1, <4>4, HasAppended
    <3> QED
      BY <1>6, <3>1, <3>2
  <2>2. Settled
    BY <1>0, <1>6, <2>1 DEF Settled
  <2> SUFFICES ASSUME NEW text \in Words
               PROVE  Count(list', Awaiting(text)) <= Owed(text)'
    OBVIOUS
  <2>3. Count(list, Awaiting(text)) <= Owed(text)
    BY <2>2
  <2>4. Count(reqs, {SendReq(chat, text)})' = Count(reqs, {SendReq(chat, text)})
    BY <1>6, <2>1
  <2>5. Owed(text)' = Owed(text)
    <3>1. PICK rest \in Nat : /\ Owed(text) = Count(reqs, {SendReq(chat, text)}) + rest
                              /\ Owed(text)' = Count(reqs, {SendReq(chat, text)})' + rest
      BY <1>3, <1>6
    <3> QED
      BY <2>4, <3>1
  <2> QED
    BY <1>6, <2>3, <2>5
<1>7. ASSUME NEW sent \in Words, UNCHANGED <<chat, gap>>, chat \in Chats,
             list' = <<Echo(sent)>> \o list,
             reqs' = IF up THEN Append(reqs, SendReq(chat, sent)) ELSE reqs
      PROVE  \A text \in Words : Count(list', Awaiting(text)) <= Owed(text)'
  <2> DEFINE r == SendReq(chat, sent)
  <2>1. reqs' = Append(reqs, r) /\ r \in Commands
    BY <1>0, <1>7, CommandForms
  <2>2. Settled
    <3>1. Has(reqs, ListReqs) => Has(reqs', ListReqs)
      BY <1>0, <2>1, HasAppended
    <3> QED
      BY <1>0, <1>7, <3>1 DEF Settled
  <2> SUFFICES ASSUME NEW text \in Words
               PROVE  Count(list', Awaiting(text)) <= Owed(text)'
    OBVIOUS
  <2>3. Count(list, Awaiting(text)) <= Owed(text)
    BY <2>2
  <2>4. r \in {SendReq(chat, text)} <=> sent = text
    <3>1. r.text = sent /\ SendReq(chat, text).text = text
      BY DEF SendReq
    <3> QED
      BY <3>1
  <2>5. Count(reqs, {SendReq(chat, text)})'
          = Count(reqs, {SendReq(chat, text)}) + (IF sent = text THEN 1 ELSE 0)
    <3>1. Count(Append(reqs, r), {SendReq(chat, text)})
            = Count(reqs, {SendReq(chat, text)}) + (IF r \in {SendReq(chat, text)} THEN 1 ELSE 0)
      BY <1>0, <2>1, CountAppended
    <3> HIDE DEF r
    <3> QED
      BY <1>7, <2>1, <2>4, <3>1
  <2>6. Count(list', Awaiting(text))
          = Count(list, Awaiting(text)) + (IF sent = text THEN 1 ELSE 0)
    <3> DEFINE i == Echo(sent)
               P == Awaiting(text)
    <3>1. i \in Entries /\ (i \in P <=> sent = text)
      BY EchoTyped DEF Awaiting
    <3> HIDE DEF i, P
    <3>2. Count(<<i>> \o list, P) = Count(list, P) + (IF i \in P THEN 1 ELSE 0)
      BY <1>0, <3>1, CountPut
    <3>3. Count(<<i>> \o list, P) = Count(list, P) + (IF sent = text THEN 1 ELSE 0)
      BY <3>1, <3>2
    <3> QED
      BY <1>7, <3>3 DEF i, P
  <2>7. Owed(text)' = Owed(text) + (IF sent = text THEN 1 ELSE 0)
    <3> DEFINE a == Count(reqs, {SendReq(chat, text)})
    <3>1. PICK rest \in Nat : Owed(text)' = a' + rest /\ Owed(text) = a + rest
      BY <1>3, <1>7
    <3>3. a' = a + (IF sent = text THEN 1 ELSE 0)
      BY <2>5
    <3>2. a \in Nat /\ a' \in Nat /\ Owed(text) \in Nat /\ Owed(text)' \in Nat
      BY <1>4
    <3> HIDE DEF a
    <3> QED
      BY <3>1, <3>2, <3>3
  <2>8. Count(list, Awaiting(text)) \in Nat /\ Owed(text) \in Nat
    BY <1>4
  <2> DEFINE n == IF sent = text THEN 1 ELSE 0
  <2>9. n \in Nat
    OBVIOUS
  <2>10. Count(list', Awaiting(text)) = Count(list, Awaiting(text)) + n
         /\ Owed(text)' = Owed(text) + n
    BY <2>6, <2>7
  <2> HIDE DEF n, r
  <2> QED
    BY <2>3, <2>8, <2>9, <2>10
<1> QED
  BY <1>0, <1>1, <1>5, <1>6, <1>7, UserForm

\* Init and every step.
LEMMA InitEcho == CInit => EchoInv
<1> SUFFICES ASSUME CInit PROVE EchoInv
  OBVIOUS
<1>1. ViewInv
  BY InitView
<1>2. OutHeld
  <2>1. cmd[Gui] = CmdIdle
    BY GuiIsClient DEF CInit, Init
  <2>2. CmdIdle.out = <<>>
    BY DEF CmdIdle
  <2> QED
    BY <2>1, <2>2 DEF OutHeld
<1>3. \A text \in Words : Count(list, Awaiting(text)) <= Owed(text)
  <2> SUFFICES ASSUME NEW text \in Words PROVE Count(list, Awaiting(text)) <= Owed(text)
    OBVIOUS
  <2>1. Count(list, Awaiting(text)) = 0
    BY HasNothing, CountNothing DEF CInit
  <2>2. Owed(text) \in Nat
    BY <1>1, OwedTyped DEF CountsTyped, ViewInv
  <2> QED
    BY <2>1, <2>2
<1> QED
  BY <1>1, <1>2, <1>3 DEF EchoInv

LEMMA EchoKept == EchoInv /\ [CNext]_cvars => EchoInv'
<1> SUFFICES ASSUME EchoInv, [CNext]_cvars PROVE EchoInv'
  OBVIOUS
<1>0. /\ ViewInv /\ ViewInv' /\ ViewTyped /\ ViewTyped' /\ OutHeld /\ (up \/ gap)
      /\ Settled => \A text \in Words : Count(list, Awaiting(text)) <= Owed(text)
  BY ViewKept DEF EchoInv, ViewInv
<1> SUFFICES OutHeld' /\ (Settled' =>
                \A text \in Words : Count(list', Awaiting(text)) <= Owed(text)')
  BY <1>0 DEF EchoInv, Awaiting
<1>1. ASSUME NEW text \in Words
      PROVE  /\ Owed(text) \in Nat /\ Owed(text)' \in Nat
             /\ Count(list, Awaiting(text)) \in Nat
  <2>1. CountsTyped /\ CountsTyped'
    BY <1>0, OwedTyped, PTL
  <2> QED
    BY <2>1 DEF CountsTyped
<1>2. CASE DaemonStep
  <2>1. OutHeld'
    BY <1>0, <1>2, DaemonMoves
  <2>2. UNCHANGED <<reqs, query, gap, list>>
    BY <1>2 DEF DaemonStep, linkVars, viewVars
  <2>3. Has(sock[Gui], Listings) => Has(sock'[Gui], Listings)
    <3>1. CASE UNCHANGED sock
      BY <3>1
    <3>2. ASSUME NEW f \in Frames, sock'[Gui] = Append(sock[Gui], f)
          PROVE  Has(sock[Gui], Listings) => Has(sock'[Gui], Listings)
      BY <1>0, <3>2, GuiSocket, OtherWritten
    <3> QED
      BY <1>0, <1>2, <3>1, <3>2, DaemonWritesFrames
  <2>4. Settled' => Settled
    BY <2>2, <2>3 DEF Settled
  <2>5. ASSUME Settled', NEW text \in Words
        PROVE  Count(list', Awaiting(text)) <= Owed(text)'
    <3>1. Count(list, Awaiting(text)) <= Owed(text)
      BY <1>0, <2>4, <2>5
    <3>2. Owed(text) <= Owed(text)'
      BY <1>0, <1>2, DaemonEchoes
    <3> QED
      BY <1>1, <2>2, <3>1, <3>2
  <2> QED
    BY <2>1, <2>5
<1>3. CASE ListMessages \/ ListReactions \/ ListReply
  <2>1. UNCHANGED cmd
    BY <1>3 DEF ListMessages, ListReactions, ListReply, vars
  <2>2. ~Settled'
    <3>1. CASE ListMessages
      BY <1>0, <3>1, SelectForm, QueryIsNamed DEF Settled
    <3>2. CASE ListReactions
      BY <1>0, <3>2, ReactionsForm, QueryIsNamed DEF Settled
    <3>3. CASE ListReply
      <4> DEFINE f == ListFrame(query.chat, query.rows)
      <4>1. f \in Listings /\ sock[Gui] \in Seq(GuiFrames)
            /\ sock'[Gui] = Append(sock[Gui], f)
        BY <1>0, <3>3, ReplyForm
      <4> HIDE DEF f
      <4>2. Has(sock'[Gui], Listings)
        BY <4>1, EngineFrames, HasAppended
      <4> QED
        BY <4>2 DEF Settled
    <3> QED
      BY <1>3, <3>1, <3>2, <3>3
  <2> QED
    BY <1>0, <2>1, <2>2 DEF OutHeld
<1>4. CASE Dispatch
  <2>1. OutHeld'
    <3>1. CmdFree(Gui) /\ ViewTyped /\ ViewTyped'
      BY <1>0, <1>4, DispatchForm
    <3> QED
      BY <1>0, <1>4, DispatchHolds
  <2>2. ASSUME Settled', NEW text \in Words
        PROVE  Count(list', Awaiting(text)) <= Owed(text)'
    <3>1. ~gap' /\ (gap => gap') /\ UNCHANGED <<query, sock, list>>
          /\ reqs # <<>> /\ reqs' = Tail(reqs) /\ Head(reqs) \notin ListReqs
          /\ reqs \in Seq(Commands)
      BY <1>0, <1>4, <2>2, DispatchForm, GuiSocket DEF Settled, viewVars
    <3>2. Has(reqs, ListReqs) => Has(reqs', ListReqs)
      BY <3>1, HasTaken
    <3>3. Settled
      BY <2>2, <3>1, <3>2 DEF Settled
    <3>4. Owed(text) <= Owed(text)'
      BY <1>0, <1>4, <3>1, DispatchEchoes
    <3>5. Count(list, Awaiting(text)) <= Owed(text)
      BY <1>0, <3>3
    <3> QED
      BY <1>1, <3>1, <3>4, <3>5
  <2> QED
    BY <2>1, <2>2
<1>5. CASE GuiRead
  <2>1. OutHeld'
    BY <1>0, <1>5 DEF GuiRead, OutHeld
  <2> QED
    BY <1>0, <1>5, <2>1, ReadEchoes
<1>6. CASE User
  <2>1. OutHeld'
    BY <1>0, <1>6, UserForm DEF OutHeld, vars
  <2> QED
    BY <1>0, <1>6, <2>1, UserEchoes
<1>7. CASE UNCHANGED <<cmd, sock, reqs, query, chat, list, gap>>
  <2>1. OutHeld' /\ Settled' = Settled
    BY <1>0, <1>7 DEF OutHeld, Settled
  <2>2. \A text \in Words : Owed(text)' = Owed(text)
    BY <1>7 DEF Owed, CopyFrames, Copies, BeingPut
  <2> QED
    BY <1>0, <1>7, <2>1, <2>2
<1>8. CASE Lost \/ Connect \/ (FrameLost /\ UNCHANGED <<viewVars, ghosts>>)
  <2>1. CASE gap' /\ Restart
    <3>1. cmd'[Gui] = CmdIdle
      BY <2>1, GuiIsClient DEF Restart
    <3>2. CmdIdle.out = <<>>
      BY DEF CmdIdle
    <3>3. OutHeld'
      BY <3>1, <3>2 DEF OutHeld
    <3> QED
      BY <2>1, <3>3 DEF Settled
  <2>2. CASE UNCHANGED <<vars, reqs, query, ghosts, viewVars>>
    BY <1>7, <2>2 DEF vars, ghosts, viewVars
  <2>3. CASE ~up /\ ClientRead(Gui) /\ UNCHANGED ghosts
    <3>1. gap' /\ UNCHANGED cmd
      BY <1>0, <2>3 DEF ghosts, ClientRead
    <3>2. OutHeld'
      BY <1>0, <3>1 DEF OutHeld
    <3> QED
      BY <3>1, <3>2 DEF Settled
  <2> QED
    BY <1>8, <2>1, <2>2, <2>3, LinkForm
<1>9. CASE UNCHANGED cvars
  BY <1>7, <1>9 DEF cvars, vars, linkVars, viewVars, ghosts
<1> QED
  BY <1>2, <1>3, <1>4, <1>5, <1>6, <1>8, <1>9 DEF CNext

\* What is counted is what the property speaks of.
LEMMA OnTheWayIsOwed ==
    ASSUME ViewTyped, NEW text
    PROVE  OnTheWay(text) = Owed(text)
<1>0. /\ reqs \in Seq(Commands) /\ sock[Gui] \in Seq(GuiFrames)
      /\ cmd[Gui].out \in Seq(GuiFrames)
  BY GuiSocket, CommandTyped
<1>1. {i \in SendsOf(chat) : reqs[i].text = text} = Places(reqs, {SendReq(chat, text)})
  <2>1. /\ SendReq(chat, text).method = "send_text" /\ SendReq(chat, text).chat = chat
        /\ SendReq(chat, text).text = text
    BY DEF SendReq
  <2>2. \A r \in Commands : r.method = "send_text" => r = SendReq(r.chat, r.text)
    BY Carried
  <2>3. DOMAIN reqs = 1..Len(reqs) /\ \A i \in 1..Len(reqs) : reqs[i] \in Commands
    BY <1>0
  <2>4. \A i \in 1..Len(reqs) : reqs[i] = SendReq(chat, text) <=>
           reqs[i].method = "send_text" /\ reqs[i].chat = chat /\ reqs[i].text = text
    BY <2>1, <2>2, <2>3
  <2> QED
    BY <2>3, <2>4 DEF SendsOf, Places
<1>2. \A s \in Seq(GuiFrames) :
         {i \in DOMAIN s : s[i].ev = "message" /\ s[i].m \in Copies(text)}
           = Places(s, CopyFrames(text))
  <2> TAKE s \in Seq(GuiFrames)
  <2>1. \A m : MessageFrame(m).ev = "message" /\ MessageFrame(m).m = m
    BY DEF MessageFrame
  <2>2. \A f \in GuiFrames : f.ev = "message" => f = MessageFrame(f.m)
    BY FrameForms
  <2>3. DOMAIN s = 1..Len(s) /\ \A i \in 1..Len(s) : s[i] \in GuiFrames
    OBVIOUS
  <2>4. \A i \in 1..Len(s) : s[i] \in CopyFrames(text)
                               <=> s[i].ev = "message" /\ s[i].m \in Copies(text)
    BY <2>1, <2>2, <2>3 DEF CopyFrames
  <2> QED
    BY <2>3, <2>4 DEF Places
<1> QED
  BY <1>0, <1>1, <1>2 DEF OnTheWay, Owed, Count, BeingPut

\* Every text that is shown as sent and has no message behind it is one whose command
\* is on its way, is being executed, or whose copy is on its way to be shown in its
\* place, for any texts and messages: no reload of the conversation, event or reply
\* that comes in between loses one (messagemodel.cpp:152, 427-438).
THEOREM EchoesAccountedTheorem == CSpec => []EchoesAccounted
<1>1. EchoInv => EchoesAccounted
  <2> SUFFICES ASSUME EchoInv, ~Loading, ~gap, NEW text \in Texts
               PROVE  Cardinality(Echoes(text)) <= OnTheWay(text)
    BY DEF EchoesAccounted
  <2>1. ViewTyped /\ list \in Seq(Entries)
    BY DEF EchoInv, ViewInv, ViewTyped
  <2>2. Settled
    BY <2>1, LoadedSettled DEF Settled
  <2>3. Echoes(text) = Places(list, Awaiting(text))
    BY <2>1 DEF Echoes, Places, Awaiting
  <2>4. CASE text \in Words
    <3>1. Count(list, Awaiting(text)) <= Owed(text)
      BY <2>2, <2>4 DEF EchoInv
    <3> QED
      BY <2>1, <2>3, <3>1, OnTheWayIsOwed DEF Count
  <2>5. CASE text \notin Words
    <3>1. ~Has(list, Awaiting(text))
      BY <2>1, <2>5 DEF Has, Awaiting, Entries, Words
    <3>2. Cardinality(Echoes(text)) = 0
      BY <2>3, <3>1, CountNothing DEF Count
    <3>3. Owed(text) \in Nat
      BY <2>1, OwedTyped DEF CountsTyped
    <3> QED
      BY <2>1, <3>2, <3>3, OnTheWayIsOwed
  <2> QED
    BY <2>4, <2>5
<1> QED
  BY <1>1, InitEcho, EchoKept, PTL DEF CSpec

-----------------------------------------------------------------------------
(* What the view has of a message, and what the frames make of it.         *)

\* The first entry of m in a list: none, or that one.
FrontIn(l, m) == LET at == {i \in DOMAIN l : l[i].m = m} IN
                 IF at = {} THEN {} ELSE {l[First(at)]}

Front(m) == FrontIn(list, m)

\* w is what f may make of v, when the view has v of m.
Becomes(m, v, f, w) ==
    /\ f.ev = "message" /\ f.m = m => w = {Announced(m)} \/ (v # {} /\ w = v)
    /\ f.ev = "messages" =>
         IF f.rows # <<>> /\ f.chat # chat THEN w = v
         ELSE LET found == {i \in 1..Len(f.rows) : f.rows[i].m = m /\ Renderable(f.rows[i])} IN
              \/ found = {} /\ w = {}
              \/ \E i \in found : w = {f.rows[i]}
    /\ f.ev \notin {"message", "messages"} /\ "m" \in DOMAIN f /\ f.m = m
         => w = {Patched(i, f) : i \in v}
    /\ f.ev # "messages" /\ ~("m" \in DOMAIN f /\ f.m = m) => w = v

Turns(m) == {t \in (SUBSET Items) \X GuiFrames \X (SUBSET Items) :
                Becomes(m, t[1], t[2], t[3])}

LEMMA FrontCases ==
    ASSUME NEW l \in Seq(Entries), NEW m
    PROVE  /\ FrontIn(l, m) \in SUBSET Items
           /\ \/ FrontIn(l, m) = {} /\ \A i \in 1..Len(l) : l[i].m # m
              \/ \E k \in 1..Len(l) : /\ l[k].m = m /\ FrontIn(l, m) = {l[k]}
                                      /\ \A i \in 1..Len(l) : l[i].m = m => k <= i
<1> DEFINE at == {i \in DOMAIN l : l[i].m = m}
<1>0. Entries \subseteq Items
  BY DEF Entries
<1>1. /\ DOMAIN l = 1..Len(l) /\ Len(l) \in Nat /\ at \subseteq Nat
      /\ \A i \in 1..Len(l) : l[i] \in Items
  BY <1>0
<1>2. CASE at = {}
  BY <1>1, <1>2 DEF FrontIn
<1>3. CASE at # {}
  <2>1. First(at) \in at /\ \A i \in at : First(at) <= i
    <3> HIDE DEF at
    <3> QED
      BY <1>1, <1>3, FirstIsLeast
  <2>2. FrontIn(l, m) = {l[First(at)]}
    BY <1>3 DEF FrontIn
  <2> QED
    BY <1>1, <2>1, <2>2
<1> QED
  BY <1>2, <1>3

LEMMA FrontIs ==
    ASSUME NEW l \in Seq(Entries), NEW m, NEW k \in 1..Len(l), l[k].m = m,
           \A i \in 1..Len(l) : l[i].m = m => k <= i
    PROVE  FrontIn(l, m) = {l[k]}
<1>0. Len(l) \in Nat
  OBVIOUS
<1>1. FrontIn(l, m) # {} \/ \A i \in 1..Len(l) : l[i].m # m
  BY FrontCases
<1>2. PICK n \in 1..Len(l) : /\ l[n].m = m /\ FrontIn(l, m) = {l[n]}
                             /\ \A i \in 1..Len(l) : l[i].m = m => n <= i
  BY FrontCases
<1>3. n <= k /\ k <= n
  BY <1>2
<1>4. n = k
  BY <1>0, <1>3
<1> QED
  BY <1>2, <1>4

LEMMA FrontNone ==
    ASSUME NEW l \in Seq(Entries), NEW m, \A i \in 1..Len(l) : l[i].m # m
    PROVE  FrontIn(l, m) = {}
BY FrontCases

\* An entry is put in front.
LEMMA FrontPut ==
    ASSUME NEW l \in Seq(Entries), NEW e \in Entries, NEW m
    PROVE  /\ e.m = m => FrontIn(<<e>> \o l, m) = {e}
           /\ e.m # m => FrontIn(<<e>> \o l, m) = FrontIn(l, m)
<1> DEFINE p == <<e>> \o l
<1>1. /\ p \in Seq(Entries) /\ Len(l) \in Nat /\ Len(p) = Len(l) + 1 /\ p[1] = e
      /\ \A i \in 1..Len(l) : p[i + 1] = l[i] /\ i + 1 \in 1..Len(p)
      /\ \A i \in 1..Len(p) : i = 1 \/ (i - 1 \in 1..Len(l) /\ p[i] = l[i - 1])
  OBVIOUS
<1> HIDE DEF p
<1>2. CASE e.m = m
  <2>1. 1 \in 1..Len(p) /\ p[1].m = m /\ \A i \in 1..Len(p) : 1 <= i
    BY <1>1, <1>2
  <2>2. FrontIn(p, m) = {p[1]}
    BY <1>1, <2>1, FrontIs
  <2> QED
    BY <1>1, <1>2, <2>2 DEF p
<1>3. CASE e.m # m /\ \A i \in 1..Len(l) : l[i].m # m
  <2>1. \A i \in 1..Len(p) : p[i].m # m
    BY <1>1, <1>3
  <2>2. FrontIn(p, m) = {} /\ FrontIn(l, m) = {}
    BY <1>1, <1>3, <2>1, FrontNone
  <2> QED
    BY <1>3, <2>2 DEF p
<1>4. CASE e.m # m /\ \E i \in 1..Len(l) : l[i].m = m
  <2>1. PICK k \in 1..Len(l) : /\ l[k].m = m /\ FrontIn(l, m) = {l[k]}
                               /\ \A i \in 1..Len(l) : l[i].m = m => k <= i
    BY <1>4, FrontCases
  <2>2. k + 1 \in 1..Len(p) /\ p[k + 1] = l[k]
    BY <1>1
  <2>3. ASSUME NEW i \in 1..Len(p), p[i].m = m PROVE k + 1 <= i
    <3>1. i - 1 \in 1..Len(l) /\ p[i] = l[i - 1]
      BY <1>1, <1>4, <2>3
    <3>2. k <= i - 1
      BY <2>1, <2>3, <3>1
    <3> QED
      BY <3>2
  <2>4. FrontIn(p, m) = {p[k + 1]}
    <3>1. p[k + 1].m = m
      BY <2>1, <2>2
    <3> QED
      <4> DEFINE n == k + 1
      <4>1. /\ p \in Seq(Entries) /\ n \in 1..Len(p) /\ p[n].m = m
            /\ \A i \in 1..Len(p) : p[i].m = m => n <= i
        BY <1>1, <2>2, <2>3, <3>1
      <4> HIDE DEF n
      <4>2. FrontIn(p, m) = {p[n]}
        BY <4>1, FrontIs, Zenon
      <4> QED
        BY <4>2 DEF n
  <2> QED
    BY <1>4, <2>1, <2>2, <2>4 DEF p
<1> QED
  BY <1>2, <1>3, <1>4

\* An entry that is not of m gives way to another.
LEMMA FrontReplaced ==
    ASSUME NEW l \in Seq(Entries), NEW e \in Entries, NEW m, NEW n \in 1..Len(l),
           l[n].m # m
    PROVE  LET p == [l EXCEPT ![n] = e] IN
           /\ e.m # m => FrontIn(p, m) = FrontIn(l, m)
           /\ e.m = m => \/ FrontIn(p, m) = {e}
                         \/ FrontIn(l, m) # {} /\ FrontIn(p, m) = FrontIn(l, m)
<1> DEFINE p == [l EXCEPT ![n] = e]
<1>0. p \in Seq(Entries)
  BY ExceptSeq
<1>1. /\ Len(l) \in Nat /\ Len(p) = Len(l) /\ p[n] = e
      /\ \A i \in 1..Len(l) : i # n => p[i] = l[i]
  OBVIOUS
<1> HIDE DEF p
<1>2. CASE \A i \in 1..Len(l) : l[i].m # m
  <2>1. FrontIn(l, m) = {}
    BY <1>2, FrontNone
  <2>2. CASE e.m # m
    <3>1. \A i \in 1..Len(p) : p[i].m # m
      BY <1>1, <1>2, <2>2
    <3>2. FrontIn(p, m) = {}
      BY <1>0, <3>1, FrontNone
    <3> QED
      BY <2>1, <2>2, <3>2 DEF p
  <2>3. CASE e.m = m
    <3>1. n \in 1..Len(p) /\ p[n].m = m /\ \A i \in 1..Len(p) : p[i].m = m => n <= i
      BY <1>1, <1>2, <2>3
    <3>2. FrontIn(p, m) = {e}
      BY <1>0, <1>1, <3>1, FrontIs
    <3> QED
      BY <2>3, <3>2 DEF p
  <2> QED
    BY <2>2, <2>3
<1>3. CASE \E i \in 1..Len(l) : l[i].m = m
  <2>1. PICK k \in 1..Len(l) : /\ l[k].m = m /\ FrontIn(l, m) = {l[k]}
                               /\ \A i \in 1..Len(l) : l[i].m = m => k <= i
    BY <1>3, FrontCases
  <2>2. k # n /\ p[k] = l[k] /\ k \in 1..Len(p)
    BY <1>1, <2>1
  <2>3. CASE e.m # m \/ k <= n
    <3>1. \A i \in 1..Len(p) : p[i].m = m => k <= i
      BY <1>1, <2>1, <2>3
    <3>2. p[k].m = m
      BY <2>1, <2>2
    <3>4. FrontIn(p, m) = {p[k]}
      <4>1. /\ p \in Seq(Entries) /\ k \in 1..Len(p) /\ p[k].m = m
            /\ \A i \in 1..Len(p) : p[i].m = m => k <= i
        BY <1>0, <2>2, <3>1, <3>2
      <4> QED
        BY <4>1, FrontIs
    <3>3. FrontIn(p, m) = FrontIn(l, m) /\ FrontIn(l, m) # {}
      BY <2>1, <2>2, <3>4
    <3> QED
      BY <3>3 DEF p
  <2>4. CASE e.m = m /\ n <= k
    <3>1. \A i \in 1..Len(p) : p[i].m = m => n <= i
      BY <1>1, <2>1, <2>4
    <3>2. n \in 1..Len(p) /\ p[n].m = m
      BY <1>1, <2>4
    <3>3. FrontIn(p, m) = {p[n]}
      BY <1>0, <3>1, <3>2, FrontIs
    <3> QED
      BY <1>1, <2>4, <3>3 DEF p
  <2>5. k <= n \/ n <= k
    BY <1>1
  <2> QED
    BY <2>3, <2>4, <2>5
<1> QED
  BY <1>2, <1>3

\* A list with the same entries of m in the same places.
LEMMA FrontSame ==
    ASSUME NEW l \in Seq(Entries), NEW p \in Seq(Entries), NEW m, Len(p) = Len(l),
           \A i \in 1..Len(l) : p[i].m = l[i].m /\ (l[i].m = m => p[i] = l[i])
    PROVE  FrontIn(p, m) = FrontIn(l, m)
<1>1. CASE \A i \in 1..Len(l) : l[i].m # m
  <2>1. \A i \in 1..Len(p) : p[i].m # m
    BY <1>1
  <2> QED
    BY <1>1, <2>1, FrontNone
<1>2. CASE \E i \in 1..Len(l) : l[i].m = m
  <2>1. PICK k \in 1..Len(l) : /\ l[k].m = m /\ FrontIn(l, m) = {l[k]}
                               /\ \A i \in 1..Len(l) : l[i].m = m => k <= i
    BY <1>2, FrontCases
  <2>2. k \in 1..Len(p) /\ p[k].m = m /\ \A i \in 1..Len(p) : p[i].m = m => k <= i
    BY <2>1
  <2>3. FrontIn(p, m) = {p[k]}
    BY <2>2, FrontIs
  <2> QED
    BY <2>1, <2>3
<1> QED
  BY <1>1, <1>2

\* Every message that is announced is shown.
LEMMA AnnouncedRenderable ==
    ASSUME NEW m \in Msgs
    PROVE  Renderable(Announced(m))
<1>1. ReceivedRow(m) \in MessageRow /\ SentRow(m) \in MessageRow
  BY NewRowsTyped
<1>2. /\ ReceivedRow(m).text = Body[m] /\ SentRow(m).text = Body[m]
      /\ Kind[m] = "image" => SentRow(m).path = "local"
  BY DEF ReceivedRow, SentRow
<1>3. \A row \in MessageRow : /\ Item(m, row, NoReacts).row.text = row.text
                              /\ Item(m, row, NoReacts).row.path = row.path
  BY DEF Item, MessageRow
<1>4. Body[m] # "" => Announced(m).row.text # ""
  BY <1>1, <1>2, <1>3 DEF Announced
<1>5. m \in LocalMsgs /\ Kind[m] = "image" => Announced(m).row.path # ""
  BY <1>1, <1>2, <1>3 DEF Announced
<1> QED
  BY <1>4, <1>5, ContentAssumption DEF Renderable

\* Every row that can be rendered is.
LEMMA RenderedAll ==
    ASSUME NEW S, NEW rows \in Seq(S), NEW q \in Rendered(rows),
           NEW k \in 1..Len(rows), Renderable(rows[k])
    PROVE  \E i \in DOMAIN q : q[i] = k
<1> DEFINE kept == {i \in DOMAIN rows : Renderable(rows[i])}
           n == Cardinality(kept)
<1>1. DOMAIN rows = 1..Len(rows) /\ Len(rows) \in Nat
  OBVIOUS
<1>2. IsFiniteSet(1..Len(rows)) /\ kept \subseteq 1..Len(rows)
  BY <1>1, FS_Interval
<1>3. IsFiniteSet(kept) /\ n \in Nat
  BY <1>2, FS_Subset, FS_CardinalityType
<1>4. q \in [1..n -> kept] /\ \A i, j \in DOMAIN q : i < j => q[i] < q[j]
  BY DEF Rendered
<1>5. k \in kept /\ kept \subseteq Nat
  BY <1>1
<1> HIDE DEF kept, n
<1>6. ASSUME NEW i \in 1..n, NEW j \in 1..n, q[i] = q[j] PROVE i = j
  <2>1. i < j \/ j < i \/ i = j
    BY <1>3
  <2>2. q[i] \in Nat /\ q[j] \in Nat
    BY <1>4, <1>5
  <2>3. ~(i < j) /\ ~(j < i)
    BY <1>4, <1>6, <2>2
  <2> QED
    BY <2>1, <2>3
<1>7. q \in Injection(1..n, kept)
  <2>1. DOMAIN q = 1..n
    BY <1>4
  <2> QED
    <3>1. IsInjective(q)
      BY <1>6, <2>1 DEF IsInjective
    <3> QED
      BY <1>4, <3>1 DEF Injection
<1>8. Cardinality(1..n) = n
  <2>1. 1 \in Int /\ n \in Int /\ (IF 1 > n THEN 0 ELSE n - 1 + 1) = n
    BY <1>3
  <2>2. Cardinality(1..n) = IF 1 > n THEN 0 ELSE n - 1 + 1
    BY <2>1, FS_Interval
  <2> QED
    BY <2>1, <2>2
<1>9. q \in Surjection(1..n, kept)
  <2>1. Cardinality(1..n) = Cardinality(kept)
    BY <1>8 DEF n
  <2> QED
    BY <1>3, <1>7, <2>1, FS_Injection
<1> QED
  BY <1>4, <1>5, <1>9 DEF Surjection

\* A message that arrives.
LEMMA FrontAnnounced ==
    ASSUME ViewTyped, NEW n \in Msgs, OnMessage(n), NEW m \in Msgs, ChatOf[m] = chat
    PROVE  /\ n = m => \/ FrontIn(list', m) = {Announced(m)}
                       \/ FrontIn(list, m) # {} /\ FrontIn(list', m) = FrontIn(list, m)
           /\ n # m => FrontIn(list', m) = FrontIn(list, m)
<1>0. /\ list \in Seq(Entries) /\ Announced(n) \in Entries /\ Announced(n).m = n
      /\ NoMsg # m
  BY AnnouncedTyped, ListedShown, EngineAssumption DEF ViewTyped
<1>1. CASE ChatOf[n] # chat
  <2>1. list' = list /\ n # m
    BY <1>1, MessageShown
  <2> QED
    BY <2>1
<1>2. CASE \E k \in 1..Len(list) : list[k].pending /\ list' = [list EXCEPT ![k] = Announced(n)]
  <2>1. PICK k \in 1..Len(list) : /\ list[k].pending
                                  /\ list' = [list EXCEPT ![k] = Announced(n)]
    BY <1>2
  <2>2. list[k] \in Entries
    BY <1>0
  <2>3. list[k].m # m
    BY <1>0, <2>1, <2>2 DEF Entries
  <2> DEFINE e == Announced(n)
             p == [list EXCEPT ![k] = e]
  <2>4. e \in Entries /\ e.m = n /\ list' = p
    BY <1>0, <2>1
  <2> HIDE DEF e
  <2>5. /\ e.m # m => FrontIn(p, m) = FrontIn(list, m)
        /\ e.m = m => \/ FrontIn(p, m) = {e}
                      \/ FrontIn(list, m) # {} /\ FrontIn(p, m) = FrontIn(list, m)
    <3>1. list \in Seq(Entries) /\ k \in 1..Len(list) /\ list[k].m # m /\ e \in Entries
      BY <1>0, <2>3, <2>4
    <3> HIDE DEF p
    <3> QED
      BY <3>1, FrontReplaced DEF p
  <2> HIDE DEF p
  <2> QED
    BY <2>4, <2>5 DEF e
<1>3. CASE list' = <<Announced(n)>> \o list
  <2> DEFINE e == Announced(n)
             p == <<e>> \o list
  <2>1. e \in Entries /\ e.m = n /\ list' = p
    BY <1>0, <1>3
  <2> HIDE DEF e
  <2>2. /\ e.m = m => FrontIn(p, m) = {e}
        /\ e.m # m => FrontIn(p, m) = FrontIn(list, m)
    BY <1>0, <2>1, FrontPut
  <2> HIDE DEF p
  <2> QED
    BY <2>1, <2>2 DEF e
<1>4. Renderable(Announced(n))
  BY AnnouncedRenderable
<1> QED
  BY <1>1, <1>2, <1>3, <1>4, MessageShown

\* An event about a message.
LEMMA FrontPatched ==
    ASSUME ViewTyped, NEW f \in GuiFrames, "m" \in DOMAIN f, OnPatch(f),
           NEW m \in Msgs, ChatOf[m] = chat
    PROVE  /\ f.m = m => FrontIn(list', m) = {Patched(i, f) : i \in FrontIn(list, m)}
           /\ f.m # m => FrontIn(list', m) = FrontIn(list, m)
<1>0. list \in Seq(Entries) /\ list' \in Seq(Entries) /\ Len(list') = Len(list)
  BY PatchForm DEF ViewTyped
<1>1. \A i \in 1..Len(list) :
         /\ list'[i].m = list[i].m
         /\ list'[i] = list[i] \/ (list[i].m = f.m /\ list'[i] = Patched(list[i], f))
  BY PatchForm
<1>2. CASE f.m # m
  <2>1. \A i \in 1..Len(list) : list'[i].m = list[i].m /\ (list[i].m = m => list'[i] = list[i])
    BY <1>1, <1>2
  <2> QED
    BY <1>0, <1>2, <2>1, FrontSame
<1>3. CASE f.m = m /\ \A i \in 1..Len(list) : list[i].m # m
  <2>1. \A i \in 1..Len(list') : list'[i].m # m
    BY <1>0, <1>1, <1>3
  <2>2. FrontIn(list, m) = {} /\ FrontIn(list', m) = {}
    BY <1>0, <1>3, <2>1, FrontNone
  <2> QED
    BY <1>3, <2>2
<1>4. CASE f.m = m /\ \E i \in 1..Len(list) : list[i].m = m
  <2>1. PICK k \in 1..Len(list) : /\ list[k].m = m /\ FrontIn(list, m) = {list[k]}
                                  /\ \A i \in 1..Len(list) : list[i].m = m => k <= i
    BY <1>0, <1>4, FrontCases
  <2>2. /\ Shown(m) = {i \in 1..Len(list) : list[i].m = m}
        /\ Shown(m) \subseteq Nat /\ Shown(m) # {}
    BY <1>0, <2>1 DEF Shown
  <2>3. First(Shown(m)) \in Shown(m) /\ \A i \in Shown(m) : First(Shown(m)) <= i
    BY <2>2, FirstIsLeast
  <2>4. First(Shown(m)) = k
    <3>1. k \in Shown(m) /\ k \in Nat /\ First(Shown(m)) \in Nat
      BY <2>1, <2>2, <2>3
    <3>2. k <= First(Shown(m)) /\ First(Shown(m)) <= k
      BY <2>1, <2>2, <2>3, <3>1
    <3> QED
      BY <3>1, <3>2
  <2>5. list'[k] = Patched(list[k], f)
    BY <1>4, <2>2, <2>4, PatchForm
  <2>6. /\ k \in 1..Len(list') /\ list'[k].m = m
        /\ \A i \in 1..Len(list') : list'[i].m = m => k <= i
    BY <1>0, <1>1, <2>1
  <2>7. FrontIn(list', m) = {list'[k]}
    BY <1>0, <2>6, FrontIs
  <2> QED
    BY <1>4, <2>1, <2>5, <2>7
<1> QED
  BY <1>2, <1>3, <1>4

\* A listing.
LEMMA FrontListed ==
    ASSUME ViewTyped, NEW f \in GuiFrames, f.ev = "messages", OnMessages(f),
           NEW m \in Msgs
    PROVE  IF f.rows # <<>> /\ f.chat # chat THEN FrontIn(list', m) = FrontIn(list, m)
           ELSE LET found == {i \in 1..Len(f.rows) : f.rows[i].m = m /\ Renderable(f.rows[i])} IN
                \/ found = {} /\ FrontIn(list', m) = {}
                \/ \E i \in found : FrontIn(list', m) = {f.rows[i]}
<1>00. f.rows \in Seq(Listed(f.chat)) /\ list' \in Seq(Entries)
  BY FrameForms, ListingShown
<1>0. /\ f.rows \in Seq(Listed(f.chat)) /\ list' \in Seq(Entries)
      /\ \A l \in Seq(Entries) : Len(l) \in Nat
  BY <1>00
<1>1. CASE f.rows # <<>> /\ f.chat # chat
  BY <1>1, ListingShown
<1>2. CASE f.rows = <<>> \/ f.chat = chat
  <2>1. PICK q \in Rendered(f.rows) : list' = [i \in DOMAIN q |-> f.rows[q[i]]]
    BY <1>2 DEF OnMessages
  <2>2. /\ DOMAIN q = 1..Len(list')
        /\ \A i \in DOMAIN q : q[i] \in 1..Len(f.rows) /\ Renderable(f.rows[q[i]])
    BY <1>0, <2>1, RenderedForm
  <2> DEFINE found == {i \in 1..Len(f.rows) : f.rows[i].m = m /\ Renderable(f.rows[i])}
  <2>3. \A i \in 1..Len(list') : list'[i] = f.rows[q[i]]
    BY <2>1, <2>2
  <2>4. CASE found = {}
    <3>1. \A i \in 1..Len(list') : list'[i].m # m
      BY <2>2, <2>3, <2>4
    <3>2. FrontIn(list', m) = {}
      BY <1>0, <3>1, FrontNone
    <3> QED
      BY <1>2, <2>4, <3>2
  <2>5. CASE found # {}
    <3>1. PICK k \in found : TRUE
      BY <2>5
    <3>2. PICK i \in DOMAIN q : q[i] = k
      BY <1>0, <3>1, RenderedAll
    <3>3. i \in 1..Len(list') /\ list'[i].m = m
      BY <2>2, <2>3, <3>1, <3>2
    <3>4. PICK n \in 1..Len(list') : list'[n].m = m /\ FrontIn(list', m) = {list'[n]}
      BY <1>0, <3>3, FrontCases
    <3>5. q[n] \in found /\ list'[n] = f.rows[q[n]]
      BY <2>2, <2>3, <3>4
    <3>6. \E x \in found : FrontIn(list', m) = {f.rows[x]}
      BY <3>4, <3>5
    <3> QED
      BY <1>2, <3>6
  <2> QED
    BY <2>4, <2>5
<1> QED
  BY <1>1, <1>2

\* What the view has of a message when a frame is read.
LEMMA FrontRead ==
    ASSUME ViewTyped, GuiRead, NEW m \in Msgs, ChatOf[m] = chat
    PROVE  <<FrontIn(list, m), Head(sock[Gui]), FrontIn(list', m)>> \in Turns(m)
<1> DEFINE f == Head(sock[Gui])
           v == FrontIn(list, m)
           w == FrontIn(list', m)
<1>1. /\ f \in GuiFrames /\ list \in Seq(Entries) /\ list' \in Seq(Entries)
      /\ \/ f.ev = "message" /\ OnMessage(f.m)
         \/ f.ev = "messages" /\ OnMessages(f)
         \/ f.ev \notin {"message", "messages"} /\ "m" \in DOMAIN f /\ OnPatch(f)
         \/ /\ f.ev \notin {"message", "messages"} /\ "m" \notin DOMAIN f
            /\ UNCHANGED <<list, reqs>>
  BY FrameRead DEF ViewTyped
<1>2. v \in SUBSET Items /\ w \in SUBSET Items
  BY <1>1, FrontCases
<1> HIDE DEF f
<1>3. ASSUME f.ev = "message" /\ OnMessage(f.m)
      PROVE  Becomes(m, v, f, w)
  <2>1. f.m \in Msgs
    BY <1>1, <1>3, FrameForms
  <2>2. "m" \in DOMAIN f
    <3>1. f = MessageFrame(f.m)
      BY <1>1, <1>3, FrameForms
    <3>2. \A n : "m" \in DOMAIN MessageFrame(n)
      BY DEF MessageFrame
    <3> QED
      BY <3>1, <3>2
  <2>3. f.m = m => w = {Announced(m)} \/ (v # {} /\ w = v)
    BY <1>3, <2>1, FrontAnnounced
  <2>4. f.m # m => w = v
    BY <1>3, <2>1, FrontAnnounced
  <2> HIDE DEF v, w
  <2> QED
    BY <1>3, <2>2, <2>3, <2>4 DEF Becomes
<1>4. ASSUME f.ev = "messages" /\ OnMessages(f)
      PROVE  Becomes(m, v, f, w)
  <2>1. IF f.rows # <<>> /\ f.chat # chat THEN w = v
        ELSE LET found == {i \in 1..Len(f.rows) : f.rows[i].m = m /\ Renderable(f.rows[i])} IN
             \/ found = {} /\ w = {}
             \/ \E i \in found : w = {f.rows[i]}
    BY <1>1, <1>4, FrontListed
  <2> HIDE DEF v, w
  <2> QED
    BY <1>4, <2>1 DEF Becomes
<1>5. ASSUME f.ev \notin {"message", "messages"} /\ "m" \in DOMAIN f /\ OnPatch(f)
      PROVE  Becomes(m, v, f, w)
  <2>1. /\ f.m = m => w = {Patched(i, f) : i \in v}
        /\ f.m # m => w = v
    BY <1>1, <1>5, FrontPatched
  <2> HIDE DEF v, w
  <2> QED
    BY <1>5, <2>1 DEF Becomes
<1>6. ASSUME f.ev \notin {"message", "messages"}, "m" \notin DOMAIN f, list' = list
      PROVE  Becomes(m, v, f, w)
  BY <1>6 DEF Becomes
<1>7. Becomes(m, v, f, w)
  BY <1>1, <1>3, <1>4, <1>5, <1>6
<1> HIDE DEF v, w
<1>8. <<v, f, w>> \in Turns(m)
  BY <1>1, <1>2, <1>7 DEF Turns
<1> QED
  BY <1>8 DEF v, w, f

-----------------------------------------------------------------------------
(* What a step of the daemon does to the rows and to the frames that are    *)
(* still to be written.                                                    *)

Elements(q) == {q[i] : i \in DOMAIN q}

HasContent(row) == row.type = "revoked" \/ row.text # "" \/ row.path # ""

Orderly ==
    /\ cmd[Gui].pc \in {"idle", "put", "clear", "revoke", "reply"}
    /\ ev.pc \in {"increment", "select"} => ev.out = <<>>
    /\ \A f \in Decided : f.ev = "message" => messages[f.m] # NoRow
    /\ \A m \in Msgs : messages[m] # NoRow => HasContent(messages[m])

\* What a step does to a row, it has decided to write.
RowStep(m) ==
    LET old == messages[m]
        new == messages'[m] IN
    IF old = NoRow
    THEN \/ new = NoRow
         \/ new \in MessageRow /\ HasContent(new) /\ MessageFrame(m) \in Decided'
    ELSE /\ new \in MessageRow
         /\ \/ /\ new.type = old.type /\ new.text = old.text
               /\ new.path = old.path /\ new.edited = old.edited
            \/ new.type = "revoked" /\ RevokedFrame(m) \in Decided'
            \/ /\ new.type = old.type /\ new.path = old.path /\ new.edited /\ new.text # ""
               /\ EditedFrame(m, new.text) \in Decided'
            \/ /\ new.type = old.type /\ new.text = old.text /\ new.edited = old.edited
               /\ new.path = "cache" /\ MediaFrame(m) \in Decided'

Written(f) == /\ UNCHANGED messages /\ sock'[Gui] = Append(sock[Gui], f)
              /\ Decided \subseteq Decided' \cup {f}
              /\ f.ev = "message" => f \in Decided

DaemonOutcome ==
    /\ \A m \in Msgs : RowStep(m)
    /\ \A f \in Decided' : f \in Decided \/ f.ev # "message" \/ messages'[f.m] # NoRow
    /\ \/ UNCHANGED sock /\ Decided \subseteq Decided'
       \/ \E f \in Frames : Written(f)

LEMMA DecidedParts ==
    Decided = Elements(ev.out) \cup Elements(cmd[Gui].out)
                \cup {MediaFrame(dl[s].m) : s \in {t \in Slots : dl[t].pc = "publish"}}
BY DEF Decided, Elements

LEMMA DecidedTyped == ViewTyped => Decided \subseteq Frames
<1> SUFFICES ASSUME ViewTyped PROVE Decided \subseteq Frames
  OBVIOUS
<1>1. \A q \in Seq(Frames) : Elements(q) \subseteq Frames
  BY DEF Elements
<1>2. ev.out \in Seq(Frames) /\ cmd[Gui].out \in Seq(Frames)
  BY CommandTyped DEF ViewTyped, DaemonTyped, EvState
<1>3. ASSUME NEW s \in Slots, dl[s].pc = "publish" PROVE MediaFrame(dl[s].m) \in Frames
  <2>1. dl[s] \in DlState
    BY DEF ViewTyped, DaemonTyped
  <2>2. dl[s].m \in Msgs
    BY <1>3, <2>1 DEF DlState
  <2> QED
    BY <2>2, FramesTyped
<1> QED
  BY <1>1, <1>2, <1>3, DecidedParts

\* What is stored with a message has content.
LEMMA NewRowsHaveContent ==
    ASSUME NEW m \in Msgs
    PROVE  HasContent(SentRow(m)) /\ (m \notin LocalMsgs => HasContent(ReceivedRow(m)))
BY ContentAssumption DEF HasContent, SentRow, ReceivedRow

LEMMA ElementsNothing == Elements(<<>>) = {}
BY DEF Elements

LEMMA ElementsOne ==
    ASSUME NEW e
    PROVE  Elements(<<e>>) = {e}
<1>1. DOMAIN <<e>> = {1} /\ <<e>>[1] = e
  OBVIOUS
<1> QED
  BY <1>1 DEF Elements

LEMMA ElementsTaken ==
    ASSUME NEW S, NEW q \in Seq(S), q # <<>>
    PROVE  Elements(q) = Elements(Tail(q)) \cup {Head(q)}
<1>1. /\ DOMAIN q = 1..Len(q) /\ Len(q) \in Nat /\ Len(q) >= 1 /\ Head(q) = q[1]
      /\ DOMAIN Tail(q) = 1..(Len(q) - 1)
      /\ \A i \in 1..(Len(q) - 1) : Tail(q)[i] = q[i + 1] /\ i + 1 \in 1..Len(q)
      /\ \A i \in 1..Len(q) : i # 1 => i - 1 \in 1..(Len(q) - 1) /\ Tail(q)[i - 1] = q[i]
  OBVIOUS
<1>2. Elements(Tail(q)) \cup {Head(q)} \subseteq Elements(q)
  BY <1>1 DEF Elements
<1>3. ASSUME NEW e \in Elements(q) PROVE e \in Elements(Tail(q)) \cup {Head(q)}
  <2>1. PICK i \in 1..Len(q) : e = q[i]
    BY <1>1, <1>3 DEF Elements
  <2>2. CASE i = 1
    BY <1>1, <2>1, <2>2
  <2>3. CASE i # 1
    <3>1. i - 1 \in DOMAIN Tail(q) /\ e = Tail(q)[i - 1]
      BY <1>1, <2>1, <2>3
    <3> QED
      BY <3>1 DEF Elements
  <2> QED
    BY <2>2, <2>3
<1> QED
  BY <1>2, <1>3

LEMMA FrameNames ==
    ASSUME NEW m, NEW x, NEW y
    PROVE  /\ MessageFrame(m).ev = "message" /\ MessageFrame(m).m = m
           /\ RevokedFrame(m).ev = "message_revoked" /\ RevokedFrame(m).m = m
           /\ EditedFrame(m, x).ev = "message_edited" /\ EditedFrame(m, x).m = m
           /\ EditedFrame(m, x).text = x
           /\ MediaFrame(m).ev = "message_media" /\ MediaFrame(m).m = m
           /\ ReactionFrame(m, x, y).ev = "reaction" /\ StatusFrame(m, x).ev = "message_status"
           /\ ReceiptFrame(m).ev = "receipt" /\ UnreadFrame(m, x).ev = "chat_unread"
           /\ ResponseFrame(x).ev = "response"
BY DEF MessageFrame, RevokedFrame, EditedFrame, MediaFrame, ReactionFrame, StatusFrame,
       ReceiptFrame, UnreadFrame, ResponseFrame

\* A frame about a message is the one of its kind.
LEMMA FrameNamed ==
    ASSUME NEW f \in GuiFrames, "m" \in DOMAIN f
    PROVE  /\ f \in Frames /\ f.m \in Msgs
           /\ f.ev = "message" => f = MessageFrame(f.m)
           /\ f.ev = "message_revoked" => f = RevokedFrame(f.m)
           /\ f.ev = "message_media" => f = MediaFrame(f.m)
           /\ f.ev = "message_edited" => f = EditedFrame(f.m, f.text)
<1>1. f \in Frames /\ f.m \in Msgs
  BY FrameForms
<1>2. CASE f \in [ev : {"message", "message_revoked", "message_media", "receipt"}, m : Msgs]
  BY <1>1, <1>2 DEF MessageFrame, RevokedFrame, MediaFrame
<1>3. CASE f \in [ev : {"message_edited"}, m : Msgs, text : Texts]
  BY <1>1, <1>3 DEF EditedFrame
<1>4. CASE f \notin [ev : {"message", "message_revoked", "message_media", "receipt"}, m : Msgs]
           /\ f \notin [ev : {"message_edited"}, m : Msgs, text : Texts]
  <2>1. f.ev \notin {"message", "message_revoked", "message_media", "message_edited"}
    BY <1>1, <1>4 DEF Frames
  <2> QED
    BY <1>1, <2>1
<1> QED
  BY <1>2, <1>3, <1>4

\* Rows of other messages, and rows that keep what is shown of them.
LEMMA RowStays ==
    ASSUME NEW m \in Msgs, messages[m] \in MessageRow \cup {NoRow}, messages'[m] = messages[m]
    PROVE  RowStep(m)
BY DEF RowStep

LEMMA RowsStay ==
    ASSUME ViewTyped, UNCHANGED messages
    PROVE  \A m \in Msgs : RowStep(m)
<1> SUFFICES ASSUME NEW m \in Msgs PROVE RowStep(m)
  OBVIOUS
<1>1. messages[m] \in MessageRow \cup {NoRow} /\ messages'[m] = messages[m]
  BY DEF ViewTyped, DaemonTyped, MessagesTable
<1> QED
  BY <1>1, RowStays

\* A statement on the row of one message.
LEMMA OneRow ==
    ASSUME ViewTyped, NEW n \in Msgs, NEW row,
           messages' = [messages EXCEPT ![n] = row], RowStep(n)
    PROVE  \A m \in Msgs : RowStep(m)
<1> SUFFICES ASSUME NEW m \in Msgs, m # n PROVE RowStep(m)
  OBVIOUS
<1>1. messages[m] \in MessageRow \cup {NoRow} /\ messages'[m] = messages[m]
  BY DEF ViewTyped, DaemonTyped, MessagesTable
<1> QED
  BY <1>1, RowStays

\* INSERT ... ON CONFLICT, announced.
LEMMA RowInserted ==
    ASSUME ViewTyped, NEW n \in Msgs, NEW row \in MessageRow, HasContent(row),
           messages' = InsertMessage(messages, n, row), MessageFrame(n) \in Decided'
    PROVE  (\A m \in Msgs : RowStep(m)) /\ messages'[n] # NoRow
<1>0. messages \in MessagesTable /\ messages[n] \in MessageRow \cup {NoRow}
      /\ NoRow \notin MessageRow
  BY StoreAssumption DEF ViewTyped, DaemonTyped, MessagesTable
<1>1. messages' = [messages EXCEPT ![n] = OnConflict(messages[n], row)]
  BY DEF InsertMessage
<1>2. messages'[n] = OnConflict(messages[n], row)
  BY <1>0, <1>1 DEF MessagesTable
<1>3. CASE messages[n] = NoRow
  <2>1. messages'[n] = row
    BY <1>2, <1>3 DEF OnConflict
  <2>2. RowStep(n)
    BY <1>3, <2>1 DEF RowStep
  <2> QED
    BY <1>0, <1>1, <2>1, <2>2, OneRow
<1>4. CASE messages[n] # NoRow
  <2>1. messages[n] \in MessageRow
    BY <1>0, <1>4
  <2>2. /\ messages'[n] \in MessageRow /\ messages'[n].type = messages[n].type
        /\ messages'[n].text = messages[n].text /\ messages'[n].path = messages[n].path
        /\ messages'[n].edited = messages[n].edited
    <3> DEFINE old == messages[n]
    <3>1. messages'[n] = [old EXCEPT !.raw = old.raw \/ row.raw] /\ old \in MessageRow
      BY <1>2, <1>4, <2>1 DEF OnConflict
    <3> HIDE DEF old
    <3>2. /\ [old EXCEPT !.raw = old.raw \/ row.raw] \in MessageRow
          /\ [old EXCEPT !.raw = old.raw \/ row.raw].type = old.type
          /\ [old EXCEPT !.raw = old.raw \/ row.raw].text = old.text
          /\ [old EXCEPT !.raw = old.raw \/ row.raw].path = old.path
          /\ [old EXCEPT !.raw = old.raw \/ row.raw].edited = old.edited
      BY <3>1 DEF MessageRow
    <3> QED
      BY <3>1, <3>2 DEF old
  <2>3. RowStep(n)
    BY <1>4, <2>2 DEF RowStep
  <2> QED
    BY <1>0, <1>1, <2>2, <2>3, OneRow
<1> QED
  BY <1>3, <1>4

\* UPDATE ... WHERE id = n, with what it makes of a row.
LEMMA RowUpdated ==
    ASSUME ViewTyped, NEW n \in Msgs, NEW row,
           messages' = UpdateRow(messages, n, row),
           messages[n] \in MessageRow =>
              /\ row \in MessageRow
              /\ messages'[n] = row => RowStep(n)
    PROVE  \A m \in Msgs : RowStep(m)
<1>0. messages \in MessagesTable /\ messages[n] \in MessageRow \cup {NoRow}
      /\ NoRow \notin MessageRow
  BY StoreAssumption DEF ViewTyped, DaemonTyped, MessagesTable
<1>1. CASE messages[n] = NoRow
  BY <1>1, RowsStay DEF UpdateRow
<1>2. CASE messages[n] # NoRow
  <2>1. messages' = [messages EXCEPT ![n] = row]
    BY <1>2 DEF UpdateRow
  <2>2. messages'[n] = row
    BY <1>0, <2>1 DEF MessagesTable
  <2>3. RowStep(n)
    BY <1>0, <1>2, <2>2
  <2> QED
    BY <2>1, <2>3, OneRow
<1> QED
  BY <1>1, <1>2

LEMMA RowRevoked ==
    ASSUME ViewTyped, NEW n \in Msgs, messages' = MarkRevoked(messages, n),
           RevokedFrame(n) \in Decided'
    PROVE  \A m \in Msgs : RowStep(m)
<1> DEFINE old == messages[n]
           row == [old EXCEPT !.type = "revoked", !.text = "", !.path = ""]
<1>1. messages' = UpdateRow(messages, n, row)
  BY DEF MarkRevoked
<1>2. ASSUME old \in MessageRow PROVE row \in MessageRow /\ row.type = "revoked"
  <2> HIDE DEF old
  <2> QED
    BY <1>2, StoreAssumption DEF MessageRow, Paths
<1>3. ASSUME old \in MessageRow, messages'[n] = row PROVE RowStep(n)
  <2>1. old # NoRow /\ row \in MessageRow /\ row.type = "revoked"
    BY <1>2, <1>3, StoreAssumption
  <2> HIDE DEF row
  <2> QED
    BY <1>3, <2>1 DEF RowStep
<1> HIDE DEF row
<1> QED
  BY <1>1, <1>2, <1>3, RowUpdated

LEMMA RowEdited ==
    ASSUME ViewTyped, NEW n \in Msgs, NEW text \in Words,
           messages' = UpdateText(messages, n, text), EditedFrame(n, text) \in Decided'
    PROVE  \A m \in Msgs : RowStep(m)
<1> DEFINE old == messages[n]
           row == [old EXCEPT !.text = text, !.edited = TRUE]
<1>0. text \in Texts /\ text # ""
  BY DEF Words
<1>1. messages' = UpdateRow(messages, n, row)
  BY DEF UpdateText
<1>2. ASSUME old \in MessageRow
      PROVE  /\ row \in MessageRow /\ row.type = old.type /\ row.path = old.path
             /\ row.text = text /\ row.edited
  <2> HIDE DEF old
  <2> QED
    BY <1>0, <1>2 DEF MessageRow
<1>3. ASSUME old \in MessageRow, messages'[n] = row PROVE RowStep(n)
  <2>1. old # NoRow
    BY <1>3, StoreAssumption
  <2>2. /\ row \in MessageRow /\ row.type = old.type /\ row.path = old.path
        /\ row.text = text /\ row.edited
    BY <1>2, <1>3
  <2> HIDE DEF row
  <2> QED
    BY <1>0, <1>3, <2>1, <2>2 DEF RowStep
<1> HIDE DEF row
<1> QED
  BY <1>1, <1>2, <1>3, RowUpdated

LEMMA RowFetched ==
    ASSUME ViewTyped, NEW n \in Msgs, messages' = UpdateMediaPath(messages, n, "cache"),
           MediaFrame(n) \in Decided'
    PROVE  \A m \in Msgs : RowStep(m)
<1> DEFINE old == messages[n]
           row == [old EXCEPT !.path = "cache"]
<1>1. messages' = UpdateRow(messages, n, row)
  BY DEF UpdateMediaPath
<1>2. ASSUME old \in MessageRow
      PROVE  /\ row \in MessageRow /\ row.type = old.type /\ row.text = old.text
             /\ row.edited = old.edited /\ row.path = "cache"
  <2> HIDE DEF old
  <2> QED
    BY <1>2 DEF MessageRow, Paths
<1>3. ASSUME old \in MessageRow, messages'[n] = row PROVE RowStep(n)
  <2>1. old # NoRow
    BY <1>3, StoreAssumption
  <2>2. /\ row \in MessageRow /\ row.type = old.type /\ row.text = old.text
        /\ row.edited = old.edited /\ row.path = "cache"
    BY <1>2, <1>3
  <2> HIDE DEF row
  <2> QED
    BY <1>3, <2>1, <2>2 DEF RowStep
<1> HIDE DEF row
<1> QED
  BY <1>1, <1>2, <1>3, RowUpdated

LEMMA RowReceipted ==
    ASSUME ViewTyped, NEW n \in Msgs, NEW status \in Statuses,
           messages' = UpdateStatus(messages, n, status)
    PROVE  \A m \in Msgs : RowStep(m)
<1> DEFINE old == messages[n]
           row == [old EXCEPT !.status = status]
<1>0. messages \in MessagesTable /\ old \in MessageRow \cup {NoRow}
  BY DEF ViewTyped, DaemonTyped, MessagesTable
<1>1. CASE old = NoRow \/ old.status = "read"
  BY <1>1, RowsStay DEF UpdateStatus
<1>2. CASE old # NoRow /\ old.status # "read"
  <2>1. messages' = [messages EXCEPT ![n] = row] /\ messages'[n] = row
    BY <1>0, <1>2 DEF UpdateStatus, MessagesTable
  <2>2. old \in MessageRow
    BY <1>0, <1>2
  <2>3. /\ row \in MessageRow /\ row.type = old.type /\ row.text = old.text
        /\ row.edited = old.edited /\ row.path = old.path
    <3> HIDE DEF old
    <3> QED
      BY <2>2 DEF MessageRow
  <2> HIDE DEF row
  <2>4. RowStep(n)
    BY <1>2, <2>1, <2>3 DEF RowStep
  <2> QED
    BY <2>1, <2>4, OneRow
<1> QED
  BY <1>1, <1>2

\* The goroutine of the events.
LEMMA EventOutcome ==
    ASSUME ViewTyped, Orderly, ~StoreMayFail, EventArrives \/ EventStep
    PROVE  DaemonOutcome /\ (ev'.pc \in {"increment", "select"} => ev'.out = <<>>)
<1>0. ev \in EvState /\ ev.out \in Seq(Frames)
  BY DEF ViewTyped, DaemonTyped, EvState
<1> DEFINE Others == Elements(cmd[Gui].out)
                       \cup {MediaFrame(dl[s].m) : s \in {t \in Slots : dl[t].pc = "publish"}}
<1>1. Decided = Elements(ev.out) \cup Others
  BY DecidedParts
<1>2. Decided' = Elements(ev'.out) \cup Others'
  BY DEF Decided, Elements
<1>3. UNCHANGED <<cmd, dl>> => Others' = Others
  OBVIOUS
<1> HIDE DEF Others
<1>4. ASSUME NEW q, ev.out = <<>>, ev'.out = q, Others' = Others, UNCHANGED sock,
             \A m \in Msgs : RowStep(m),
             \A f \in Elements(q) : f.ev # "message" \/ messages'[f.m] # NoRow
      PROVE  DaemonOutcome
  <2>1. Decided \subseteq Decided' /\ Decided' \subseteq Decided \cup Elements(q)
    BY <1>1, <1>2, <1>4, ElementsNothing
  <2> QED
    BY <1>4, <2>1 DEF DaemonOutcome
<1>5. CASE EventArrives
  <2>0. UNCHANGED sock /\ ev.out = <<>> /\ Others' = Others
    BY <1>3, <1>5 DEF EventArrives, EventMessage, EventRevoke, EventEdit, EventReaction,
                      EventReceipt, EvFree
  <2>1. ASSUME NEW n \in Msgs, EventMessage(n)
        PROVE  DaemonOutcome /\ ev'.pc = "announced"
    <3> DEFINE q == <<MessageFrame(n)>>
    <3>1. /\ messages' = InsertMessage(messages, n, ReceivedRow(n))
          /\ ev'.pc = "announced" /\ ev'.out = q
      BY <2>1 DEF EventMessage
    <3>2. Elements(q) = {MessageFrame(n)}
      BY ElementsOne
    <3> HIDE DEF q
    <3>3. MessageFrame(n) \in Decided'
      BY <1>2, <3>1, <3>2
    <3>4. ReceivedRow(n) \in MessageRow /\ HasContent(ReceivedRow(n))
      BY <2>1, NewRowsTyped, NewRowsHaveContent DEF EventMessage
    <3>5. (\A m \in Msgs : RowStep(m)) /\ messages'[n] # NoRow
      BY <3>1, <3>3, <3>4, RowInserted
    <3>6. \A f \in Elements(q) : messages'[f.m] # NoRow
      BY <3>2, <3>5, FrameNames
    <3> QED
      BY <1>4, <2>0, <3>1, <3>5, <3>6
  <2>2. ASSUME NEW n \in Msgs, EventRevoke(n)
        PROVE  DaemonOutcome /\ ev'.pc = "idle"
    <3> DEFINE q == <<RevokedFrame(n)>>
    <3>1. messages' = MarkRevoked(messages, n)
      BY <2>2 DEF EventRevoke, Attempt
    <3>2. ev'.pc = "idle" /\ ev'.out = q
      BY <2>2 DEF EventRevoke, EvIdle
    <3>3. Elements(q) = {RevokedFrame(n)}
      BY ElementsOne
    <3> HIDE DEF q
    <3>4. \A m \in Msgs : RowStep(m)
      BY <1>2, <3>1, <3>2, <3>3, RowRevoked
    <3>5. \A f \in Elements(q) : f.ev # "message"
      BY <3>3, FrameNames
    <3> QED
      BY <1>4, <2>0, <3>2, <3>4, <3>5
  <2>3. ASSUME NEW n \in Msgs, NEW text \in Words, EventEdit(n, text)
        PROVE  DaemonOutcome /\ ev'.pc = "idle"
    <3> DEFINE q == <<EditedFrame(n, text)>>
    <3>1. messages' = UpdateText(messages, n, text)
      BY <2>3 DEF EventEdit, Attempt
    <3>2. ev'.pc = "idle" /\ ev'.out = q
      BY <2>3 DEF EventEdit, EvIdle
    <3>3. Elements(q) = {EditedFrame(n, text)}
      BY ElementsOne
    <3> HIDE DEF q
    <3>4. \A m \in Msgs : RowStep(m)
      BY <1>2, <3>1, <3>2, <3>3, RowEdited
    <3>5. \A f \in Elements(q) : f.ev # "message"
      BY <3>3, FrameNames
    <3> QED
      BY <1>4, <2>0, <3>2, <3>4, <3>5
  <2>4. ASSUME NEW n \in Msgs, NEW s, NEW emoji, EventReaction(n, s, emoji)
        PROVE  DaemonOutcome /\ ev'.pc = "idle"
    <3> DEFINE q == <<ReactionFrame(n, s, emoji)>>
    <3>1. UNCHANGED messages /\ ev'.pc = "idle" /\ ev'.out = q
      BY <2>4 DEF EventReaction, EvIdle
    <3>3. Elements(q) = {ReactionFrame(n, s, emoji)}
      BY ElementsOne
    <3> HIDE DEF q
    <3>5. \A f \in Elements(q) : f.ev # "message"
      BY <3>3, FrameNames
    <3> QED
      BY <1>4, <2>0, <3>1, <3>5, RowsStay
  <2>5. ASSUME NEW n \in Msgs, NEW status \in Statuses, EventReceipt(n, status)
        PROVE  DaemonOutcome /\ ev'.pc = "idle"
    <3>1. PICK q : /\ q \in {<<StatusFrame(n, status), ReceiptFrame(n)>>, <<ReceiptFrame(n)>>}
                   /\ ev'.pc = "idle" /\ ev'.out = q
      <4>1. /\ [EvIdle EXCEPT !.out = <<StatusFrame(n, status), ReceiptFrame(n)>>].pc = "idle"
            /\ [EvIdle EXCEPT !.out = <<StatusFrame(n, status), ReceiptFrame(n)>>].out
                 = <<StatusFrame(n, status), ReceiptFrame(n)>>
            /\ [EvIdle EXCEPT !.out = <<ReceiptFrame(n)>>].pc = "idle"
            /\ [EvIdle EXCEPT !.out = <<ReceiptFrame(n)>>].out = <<ReceiptFrame(n)>>
        BY DEF EvIdle
      <4> QED
        BY <2>5, <4>1 DEF EventReceipt
    <3>2. \A m \in Msgs : RowStep(m)
      <4>1. UNCHANGED messages \/ messages' = UpdateStatus(messages, n, status)
        BY <2>5 DEF EventReceipt, Attempt
      <4> QED
        BY <4>1, RowsStay, RowReceipted
    <3>3. ASSUME NEW f \in Elements(q) PROVE f.ev # "message"
      <4>1. f = StatusFrame(n, status) \/ f = ReceiptFrame(n)
        <5>1. \A x, y : /\ DOMAIN <<x, y>> = {1, 2} /\ <<x, y>>[1] = x /\ <<x, y>>[2] = y
                        /\ DOMAIN <<y>> = {1} /\ <<y>>[1] = y
          OBVIOUS
        <5> DEFINE x == StatusFrame(n, status)
                   y == ReceiptFrame(n)
        <5> HIDE DEF x, y
        <5>2. q = <<x, y>> \/ q = <<y>>
          BY <3>1 DEF x, y
        <5>3. f = x \/ f = y
          BY <3>3, <5>1, <5>2 DEF Elements
        <5> QED
          BY <5>3 DEF x, y
      <4> QED
        BY <4>1, FrameNames
    <3> QED
      BY <1>4, <2>0, <3>1, <3>2, <3>3
  <2> QED
    <3>1. ev'.pc \in {"announced", "idle"} /\ DaemonOutcome
      <4>1. Texts \ {""} = Words
        BY DEF Words
      <4> QED
        BY <1>5, <2>1, <2>2, <2>3, <2>4, <2>5, <4>1 DEF EventArrives
    <3> QED
      BY <3>1
<1>6. CASE EventAnnounced \/ EventIncrement \/ EventSelect
  <2>0. UNCHANGED <<sock, messages, cmd>>
    BY <1>6 DEF EventAnnounced, EventIncrement, EventSelect, store
  <2>1. Others' = Others
    <3>1. CASE EventAnnounced
      <4>1. UNCHANGED dl \/ \E s \in Slots : /\ dl[s] = DlIdle
                                             /\ dl' = [dl EXCEPT ![s] = [pc |-> "fetch", m |-> ev.m]]
        BY <3>1 DEF EventAnnounced, StartDownload
      <4>2. CASE UNCHANGED dl
        BY <1>3, <2>0, <4>2
      <4>3. ASSUME NEW s \in Slots, dl[s] = DlIdle,
                   dl' = [dl EXCEPT ![s] = [pc |-> "fetch", m |-> ev.m]]
            PROVE  Others' = Others
        <5>1. dl \in [Slots -> DlState]
          BY DEF ViewTyped, DaemonTyped
        <5>2. /\ dl[s].pc # "publish" /\ dl'[s].pc # "publish"
              /\ \A t \in Slots : t # s => dl'[t] = dl[t]
          BY <4>3, <5>1 DEF DlIdle
        <5>3. {MediaFrame(dl'[t].m) : t \in {x \in Slots : dl'[x].pc = "publish"}}
              = {MediaFrame(dl[t].m) : t \in {x \in Slots : dl[x].pc = "publish"}}
          BY <5>2
        <5> QED
          BY <2>0, <5>3 DEF Others
      <4> QED
        BY <4>1, <4>2, <4>3
    <3>2. CASE EventIncrement \/ EventSelect
      BY <1>3, <3>2 DEF EventIncrement, EventSelect
    <3> QED
      BY <1>6, <3>1, <3>2
  <2>2. ev.out = <<>>
    BY <1>6 DEF EventAnnounced, EventIncrement, EventSelect, Orderly
  <2>3. ASSUME ev'.out = <<>> PROVE DaemonOutcome
    BY <1>4, <2>0, <2>1, <2>2, <2>3, RowsStay, ElementsNothing
  <2>4. CASE EventAnnounced
    <3>1. ev'.out = <<>>
      BY <1>0, <2>2, <2>4 DEF EventAnnounced, EvState, EvIdle
    <3> QED
      BY <2>3, <3>1
  <2>5. CASE EventIncrement
    <3>1. ev'.out = <<>>
      BY <1>0, <2>2, <2>5 DEF EventIncrement, EvState, EvIdle
    <3> QED
      BY <2>3, <3>1
  <2>6. CASE EventSelect
    <3> DEFINE j == ChatOf[ev.m]
               e == UnreadFrame(j, chats[j].unread)
               q == <<e>>
    <3>1. ev' = EvIdle \/ ev' = [EvIdle EXCEPT !.out = q]
      BY <2>6 DEF EventSelect
    <3> HIDE DEF q
    <3>2. /\ EvIdle.pc = "idle" /\ EvIdle.out = <<>>
          /\ [EvIdle EXCEPT !.out = q].pc = "idle" /\ [EvIdle EXCEPT !.out = q].out = q
      BY DEF EvIdle
    <3>3. ASSUME ev'.out = q PROVE DaemonOutcome
      <4>1. e.ev # "message"
        BY FrameNames
      <4>2. Elements(q) = {e}
        BY ElementsOne DEF q
      <4> HIDE DEF e
      <4>3. \A f \in Elements(q) : f.ev # "message"
        BY <4>1, <4>2
      <4> QED
        BY <1>4, <2>0, <2>1, <2>2, <3>3, <4>3, RowsStay
    <3> QED
      BY <2>3, <3>1, <3>2, <3>3
  <2> QED
    BY <1>6, <2>4, <2>5, <2>6
<1>7. CASE EventEmit
  <2> DEFINE f == Head(ev.out)
  <2>1. /\ ev.out # <<>> /\ Broadcast(f) /\ ev' = [ev EXCEPT !.out = Tail(ev.out)]
        /\ UNCHANGED <<messages, cmd, dl>>
    BY <1>7 DEF EventEmit, store
  <2>2. ev'.pc = ev.pc /\ ev'.out = Tail(ev.out)
    BY <1>0, <2>1 DEF EvState
  <2>3. Elements(ev.out) = Elements(ev'.out) \cup {f}
    BY <1>0, <2>1, <2>2, ElementsTaken
  <2>4. f \in Frames
    BY <1>0, <2>1, HeadTailTyped
  <2>5. sock'[Gui] = Append(sock[Gui], f)
    BY <2>1, GuiIsClient DEF Broadcast
  <2>6. f \in Decided /\ Decided \subseteq Decided' \cup {f} /\ Decided' \subseteq Decided
    BY <1>1, <1>2, <1>3, <2>1, <2>3
  <2> HIDE DEF f
  <2>7. Written(f)
    BY <2>1, <2>5, <2>6 DEF Written
  <2>8. DaemonOutcome
    BY <2>1, <2>4, <2>6, <2>7, RowsStay DEF DaemonOutcome
  <2>9. ev.pc \notin {"increment", "select"}
    BY <2>1 DEF Orderly
  <2> QED
    BY <2>2, <2>8, <2>9
<1> QED
  BY <1>5, <1>6, <1>7 DEF EventStep

\* The goroutine that serves the GUI.
LEMMA CommandOutcome ==
    ASSUME ViewTyped, OutHeld, Orderly, ~StoreMayFail, CommandStep(Gui)
    PROVE  /\ DaemonOutcome /\ UNCHANGED ev
           /\ cmd'[Gui].pc \in {"idle", "put", "clear", "revoke", "reply"}
<1>0. /\ cmd \in [Clients -> CmdState] /\ cmd[Gui] \in CmdState
      /\ cmd[Gui].out \in Seq(Frames)
  BY CommandTyped
<1> DEFINE Others == Elements(ev.out)
                       \cup {MediaFrame(dl[s].m) : s \in {t \in Slots : dl[t].pc = "publish"}}
<1>1. Decided = Elements(cmd[Gui].out) \cup Others
  BY DecidedParts
<1>2. Decided' = Elements(cmd'[Gui].out) \cup Others'
  BY DEF Decided, Elements
<1>3. UNCHANGED <<ev, dl>> /\ Others' = Others
  <2>1. UNCHANGED <<ev, dl>>
    BY DEF CommandStep, StoreSent, ClearUnread, StoreDeleted, StoreEdited, StoreReaction,
           CommandEmit, CommandReply
  <2> QED
    BY <2>1
<1> HIDE DEF Others
<1>4. \A rec : Begin(Gui, rec) => cmd'[Gui] = rec
  BY <1>0, GuiIsClient DEF Begin
<1>5. ASSUME NEW ok, NEW q
      PROVE  /\ Reply(ok).pc = "reply" /\ Reply(ok).out = <<>>
             /\ [Reply(ok) EXCEPT !.out = q].pc = "reply"
             /\ [Reply(ok) EXCEPT !.out = q].out = q
  BY DEF Reply, CmdIdle
<1>6. ASSUME cmd[Gui].pc # "reply", UNCHANGED sock, \A m \in Msgs : RowStep(m),
             \A f \in Elements(cmd'[Gui].out) : f.ev # "message" \/ messages'[f.m] # NoRow
      PROVE  DaemonOutcome
  <2>1. cmd[Gui].out = <<>>
    BY <1>6 DEF OutHeld
  <2>2. Decided \subseteq Decided' /\ Decided' \subseteq Decided \cup Elements(cmd'[Gui].out)
    BY <1>1, <1>2, <1>3, <2>1, ElementsNothing
  <2> QED
    BY <1>6, <2>2 DEF DaemonOutcome
<1>7. CASE StoreSent(Gui)
  <2> DEFINE n == cmd[Gui].m
             q == <<MessageFrame(n)>>
  <2>1. /\ cmd[Gui].pc = "put" /\ UNCHANGED sock
        /\ messages' = InsertMessage(messages, n, SentRow(n))
        /\ Begin(Gui, [Reply(TRUE) EXCEPT !.out = q])
    BY <1>7 DEF StoreSent
  <2>2. n \in Msgs
    BY <1>0, <2>1 DEF CmdState
  <2>3. Elements(q) = {MessageFrame(n)}
    BY ElementsOne
  <2> HIDE DEF q
  <2>4. cmd'[Gui].pc = "reply" /\ cmd'[Gui].out = q
    <3>1. cmd'[Gui] = [Reply(TRUE) EXCEPT !.out = q]
      BY <1>4, <2>1
    <3>2. /\ [Reply(TRUE) EXCEPT !.out = q].pc = "reply"
          /\ [Reply(TRUE) EXCEPT !.out = q].out = q
      BY DEF Reply, CmdIdle
    <3> QED
      BY <3>1, <3>2
  <2>5. MessageFrame(n) \in Decided'
    BY <1>2, <2>3, <2>4
  <2>6. SentRow(n) \in MessageRow /\ HasContent(SentRow(n))
    BY <2>2, NewRowsTyped, NewRowsHaveContent
  <2>7. (\A m \in Msgs : RowStep(m)) /\ messages'[n] # NoRow
    BY <2>1, <2>2, <2>5, <2>6, RowInserted
  <2>8. \A f \in Elements(cmd'[Gui].out) : messages'[f.m] # NoRow
    BY <2>3, <2>4, <2>7, FrameNames
  <2> QED
    BY <1>3, <1>6, <2>1, <2>4, <2>7, <2>8
<1>8. CASE ClearUnread(Gui)
  <2>1. /\ cmd[Gui].pc = "clear" /\ UNCHANGED <<sock, messages>>
        /\ Begin(Gui, [Reply(cmd[Gui].ok) EXCEPT !.out = <<UnreadFrame(cmd[Gui].chat, 0)>>])
    BY <1>8 DEF ClearUnread
  <2> DEFINE e == UnreadFrame(cmd[Gui].chat, 0)
             q == <<e>>
  <2>2. e.ev # "message"
    BY FrameNames
  <2>3. Elements(q) = {e}
    BY ElementsOne
  <2>4. cmd'[Gui] = [Reply(cmd[Gui].ok) EXCEPT !.out = q]
    BY <1>4, <2>1
  <2> HIDE DEF q, e
  <2>5. cmd'[Gui].pc = "reply" /\ cmd'[Gui].out = q
    BY <1>5, <2>4
  <2>6. \A f \in Elements(cmd'[Gui].out) : f.ev # "message"
    BY <2>2, <2>3, <2>5
  <2> QED
    BY <1>3, <1>6, <2>1, <2>5, <2>6, RowsStay
<1>9. CASE StoreDeleted(Gui)
  <2> DEFINE n == cmd[Gui].m
             q == <<RevokedFrame(n)>>
  <2>1. /\ cmd[Gui].pc = "revoke" /\ UNCHANGED sock
        /\ messages' = MarkRevoked(messages, n)
        /\ Begin(Gui, [Reply(TRUE) EXCEPT !.out = q])
    BY <1>9 DEF StoreDeleted, Attempt
  <2>2. n \in Msgs
    BY <1>0, <2>1 DEF CmdState
  <2>3. Elements(q) = {RevokedFrame(n)}
    BY ElementsOne
  <2> HIDE DEF q
  <2>4. cmd'[Gui].pc = "reply" /\ cmd'[Gui].out = q
    <3>1. cmd'[Gui] = [Reply(TRUE) EXCEPT !.out = q]
      BY <1>4, <2>1
    <3>2. /\ [Reply(TRUE) EXCEPT !.out = q].pc = "reply"
          /\ [Reply(TRUE) EXCEPT !.out = q].out = q
      BY DEF Reply, CmdIdle
    <3> QED
      BY <3>1, <3>2
  <2>5. \A m \in Msgs : RowStep(m)
    BY <1>2, <2>1, <2>2, <2>3, <2>4, RowRevoked
  <2>6. \A f \in Elements(cmd'[Gui].out) : f.ev # "message"
    BY <2>3, <2>4, FrameNames
  <2> QED
    BY <1>3, <1>6, <2>1, <2>4, <2>5, <2>6
<1>10. CASE CommandEmit(Gui)
  <2> DEFINE f == Head(cmd[Gui].out)
  <2>1. /\ cmd[Gui].out # <<>> /\ Broadcast(f) /\ UNCHANGED messages
        /\ cmd' = [cmd EXCEPT ![Gui].out = Tail(cmd[Gui].out)]
    BY <1>10 DEF CommandEmit, store
  <2>2. cmd'[Gui].pc = cmd[Gui].pc /\ cmd'[Gui].out = Tail(cmd[Gui].out)
    <3>1. cmd'[Gui] = [cmd[Gui] EXCEPT !.out = Tail(cmd[Gui].out)]
      BY <1>0, <2>1, GuiIsClient
    <3> QED
      BY <1>0, <3>1 DEF CmdState
  <2>3. Elements(cmd[Gui].out) = Elements(cmd'[Gui].out) \cup {f}
    BY <1>0, <2>1, <2>2, ElementsTaken
  <2>4. f \in Frames
    BY <1>0, <2>1, HeadTailTyped
  <2>5. sock'[Gui] = Append(sock[Gui], f)
    BY <2>1, GuiIsClient DEF Broadcast
  <2>6. f \in Decided /\ Decided \subseteq Decided' \cup {f} /\ Decided' \subseteq Decided
    BY <1>1, <1>2, <1>3, <2>1, <2>3
  <2> HIDE DEF f
  <2>7. Written(f)
    BY <2>1, <2>5, <2>6 DEF Written
  <2>8. DaemonOutcome
    BY <2>1, <2>4, <2>6, <2>7, RowsStay DEF DaemonOutcome
  <2> QED
    BY <1>3, <2>2, <2>8 DEF Orderly
<1>11. CASE CommandReply(Gui)
  <2> DEFINE f == ResponseFrame(cmd[Gui].ok)
  <2>1. /\ cmd[Gui].out = <<>> /\ cmd'[Gui] = CmdIdle /\ UNCHANGED messages
        /\ sock' = [sock EXCEPT ![Gui] = Append(sock[Gui], f)]
    BY <1>4, <1>11 DEF CommandReply, store
  <2>2. f \in Frames
    BY <1>0, OtherFramesTyped DEF CmdState
  <2>3. f.ev = "response"
    BY FrameNames
  <2>4. sock'[Gui] = Append(sock[Gui], f)
    BY <2>1, GuiIsClient DEF ViewTyped, SocketsOf
  <2>5. CmdIdle.pc = "idle" /\ CmdIdle.out = <<>>
    BY DEF CmdIdle
  <2>6. Decided \subseteq Decided' /\ Decided' \subseteq Decided
    BY <1>1, <1>2, <1>3, <2>1, <2>5
  <2> HIDE DEF f
  <2>7. Written(f)
    BY <2>1, <2>3, <2>4, <2>6 DEF Written
  <2>8. DaemonOutcome
    BY <2>1, <2>2, <2>6, <2>7, RowsStay DEF DaemonOutcome
  <2> QED
    BY <1>3, <2>1, <2>5, <2>8
<1>12. ~StoreEdited(Gui) /\ ~StoreReaction(Gui)
  BY DEF Orderly, StoreEdited, StoreReaction
<1> QED
  BY <1>7, <1>8, <1>9, <1>10, <1>11, <1>12 DEF CommandStep

\* A download.
LEMMA DownloadOutcome ==
    ASSUME ViewTyped, Orderly, ~StoreMayFail, NEW s \in Slots, DownloadStep(s)
    PROVE  DaemonOutcome /\ UNCHANGED <<ev, cmd>>
<1>0. dl \in [Slots -> DlState] /\ dl[s] \in DlState
  BY DEF ViewTyped, DaemonTyped
<1> DEFINE Others == Elements(ev.out) \cup Elements(cmd[Gui].out)
           Media  == {MediaFrame(dl[x].m) : x \in {t \in Slots : dl[t].pc = "publish"}}
<1>1. Decided = Media \cup Others
  BY DecidedParts
<1>2. Decided' = Media' \cup Others'
  BY DEF Decided, Elements
<1>3. UNCHANGED <<ev, cmd>> /\ Others' = Others
  <2>1. UNCHANGED <<ev, cmd>>
    BY DEF DownloadStep, DownloadFetch, DownloadWrite, DownloadRecord, DownloadPublish
  <2> QED
    BY <2>1
<1> HIDE DEF Others
<1>4. \A f \in Media : f.ev = "message_media"
  BY FrameNames
<1>5. \A f \in Media' : f.ev = "message_media"
  BY FrameNames
<1>6. \A t \in Slots : t # s => dl'[t] = dl[t]
  BY <1>0 DEF DownloadStep, DownloadFetch, DownloadWrite, DownloadRecord, DownloadPublish
<1>7. \A f \in Decided' : f \in Decided \/ f.ev # "message"
  BY <1>1, <1>2, <1>3, <1>5
<1>8. CASE dl[s].pc # "publish"
  <2>1. ~DownloadPublish(s) /\ UNCHANGED sock
    BY <1>8 DEF DownloadStep, DownloadFetch, DownloadWrite, DownloadRecord, DownloadPublish
  <2>2. Media \subseteq Media'
    BY <1>6, <1>8
  <2>3. Decided \subseteq Decided'
    BY <1>1, <1>2, <1>3, <2>2
  <2>4. CASE UNCHANGED messages
    BY <1>3, <1>7, <2>1, <2>3, <2>4, RowsStay DEF DaemonOutcome
  <2>5. CASE DownloadRecord(s)
    <3>1. /\ messages' = UpdateMediaPath(messages, dl[s].m, "cache")
          /\ dl' = [dl EXCEPT ![s].pc = "publish"] /\ dl[s].pc = "record"
      BY <2>5 DEF DownloadRecord, Attempt
    <3>2. dl[s].m \in Msgs
      BY <1>0, <3>1 DEF DlState
    <3>3. dl'[s].pc = "publish" /\ dl'[s].m = dl[s].m
      <4>1. dl'[s] = [dl[s] EXCEPT !.pc = "publish"]
        BY <1>0, <3>1
      <4> QED
        BY <1>0, <4>1 DEF DlState
    <3>4. MediaFrame(dl[s].m) \in Decided'
      BY <1>2, <3>3
    <3>5. \A m \in Msgs : RowStep(m)
      BY <3>1, <3>2, <3>4, RowFetched
    <3> QED
      BY <1>3, <1>7, <2>1, <2>3, <3>5 DEF DaemonOutcome
  <2> QED
    BY <2>1, <2>4, <2>5 DEF DownloadStep, DownloadFetch, DownloadWrite, store
<1>9. CASE dl[s].pc = "publish"
  <2> DEFINE f == MediaFrame(dl[s].m)
  <2>1. Broadcast(f) /\ UNCHANGED messages /\ dl' = [dl EXCEPT ![s] = DlIdle]
    BY <1>9 DEF DownloadStep, DownloadFetch, DownloadWrite, DownloadRecord, DownloadPublish, store
  <2>2. dl[s].m \in Msgs
    BY <1>0, <1>9 DEF DlState
  <2>3. f \in Frames
    BY <2>2, FramesTyped
  <2>4. sock'[Gui] = Append(sock[Gui], f)
    BY <2>1, GuiIsClient DEF Broadcast
  <2>5. f \in Media /\ Media \subseteq Media' \cup {f}
    BY <1>6, <1>9
  <2>6. f \in Decided /\ Decided \subseteq Decided' \cup {f}
    BY <1>1, <1>2, <1>3, <2>5
  <2> HIDE DEF f
  <2>7. Written(f)
    BY <2>1, <2>4, <2>6 DEF Written
  <2> QED
    BY <1>3, <1>7, <2>1, <2>3, <2>7, RowsStay DEF DaemonOutcome
<1> QED
  BY <1>8, <1>9

\* Frames that announce a message have its row behind them, and rows have content.
LEMMA DaemonOrderly ==
    ASSUME ViewTyped, OutHeld, Orderly, ~StoreMayFail, DaemonStep
    PROVE  DaemonOutcome /\ Orderly'
<1>1. /\ DaemonOutcome
      /\ ev'.pc \in {"increment", "select"} => ev'.out = <<>>
      /\ cmd'[Gui].pc \in {"idle", "put", "clear", "revoke", "reply"}
  <2>1. CASE EventArrives \/ EventStep
    <3>1. UNCHANGED cmd
      BY <2>1
         DEF EventArrives, EventMessage, EventRevoke, EventEdit, EventReaction, EventReceipt,
             EventStep, EventAnnounced, EventIncrement, EventSelect, EventEmit
    <3> QED
      BY <2>1, <3>1, EventOutcome DEF Orderly
  <2>2. CASE CommandStep(Gui)
    BY <2>2, CommandOutcome DEF Orderly
  <2>3. ASSUME NEW s \in Slots, DownloadStep(s)
        PROVE  /\ DaemonOutcome /\ UNCHANGED <<ev, cmd>>
    BY <2>3, DownloadOutcome
  <2> QED
    BY <2>1, <2>2, <2>3 DEF DaemonStep, Orderly
<1>2. ViewTyped'
  BY DaemonTypedView
<1>3. \A m \in Msgs : RowStep(m)
  BY <1>1 DEF DaemonOutcome
<1>4. ASSUME NEW f \in Decided', f.ev = "message"
      PROVE  messages'[f.m] # NoRow
  <2>1. CASE f \in Decided
    <3>1. messages[f.m] # NoRow
      BY <1>4, <2>1 DEF Orderly
    <3>2. f.m \in Msgs
      <4>1. f \in GuiFrames
        BY <2>1, DecidedTyped, EngineFrames
      <4> QED
        BY <1>4, <4>1, FrameForms
    <3>3. messages'[f.m] \in MessageRow
      BY <1>3, <3>1, <3>2 DEF RowStep
    <3> QED
      BY <3>3, StoreAssumption
  <2>2. CASE f \notin Decided
    BY <1>1, <1>4, <2>2 DEF DaemonOutcome
  <2> QED
    BY <2>1, <2>2
<1>5. ASSUME NEW m \in Msgs, messages'[m] # NoRow
      PROVE  HasContent(messages'[m])
  <2>1. RowStep(m)
    BY <1>3
  <2>2. messages[m] # NoRow => HasContent(messages[m])
    BY DEF Orderly
  <2> QED
    BY <1>5, <2>1, <2>2 DEF RowStep, HasContent
<1>6. \A m \in Msgs : (HasContent(messages[m]))' <=> HasContent(messages'[m])
  BY DEF HasContent
<1> QED
  BY <1>1, <1>4, <1>5, <1>6 DEF Orderly

-----------------------------------------------------------------------------
(* The view agrees with the store, or a frame that will settle it is coming. *)

LEMMA FaceTells ==
    ASSUME NEW r \in MessageRow, NEW s \in MessageRow, Face(r) = Face(s)
    PROVE  /\ r.type = "revoked" <=> s.type = "revoked"
           /\ r.type # "revoked" => /\ r.type = s.type /\ r.text = s.text
                                    /\ r.path = s.path /\ r.edited = s.edited
<1>1. \A x \in MessageRow :
         Face(x) = IF x.type = "revoked" THEN <<"revoked">>
                   ELSE <<x.type, x.text, x.path, x.edited>>
  BY StoreAssumption DEF Face
<1>2. \A a, b, c, d : Len(<<a, b, c, d>>) = 4 /\ Len(<<a>>) = 1
  OBVIOUS
<1>3. \A a, b, c, d, e : <<a, b, c, d>> # <<e>>
  BY <1>2
<1>4. CASE r.type = "revoked"
  BY <1>1, <1>3, <1>4
<1>5. CASE r.type # "revoked"
  <2>1. Face(r) = <<r.type, r.text, r.path, r.edited>>
    BY <1>1, <1>5
  <2>2. s.type # "revoked"
    BY <1>1, <1>3, <2>1
  <2>3. Face(s) = <<s.type, s.text, s.path, s.edited>>
    BY <1>1, <2>2
  <2>4. \A a, b, c, d, e, f, g, h :
           <<a, b, c, d>> = <<e, f, g, h>> => a = e /\ b = f /\ c = g /\ d = h
    OBVIOUS
  <2>5. <<r.type, r.text, r.path, r.edited>> = <<s.type, s.text, s.path, s.edited>>
    BY <2>1, <2>3
  <2>6. r.type = s.type /\ r.text = s.text /\ r.path = s.path /\ r.edited = s.edited
    BY <2>4, <2>5, Zenon
  <2> QED
    BY <1>5, <2>2, <2>6
<1> QED
  BY <1>4, <1>5

\* What the frames change of a row.
LEMMA PatchedRow ==
    ASSUME NEW i \in Items, NEW f \in GuiFrames
    PROVE  /\ Patched(i, f).row \in MessageRow
           /\ f.ev = "message_revoked" => Patched(i, f).row.type = "revoked"
           /\ f.ev = "message_edited" =>
                 /\ Patched(i, f).row.type = i.row.type /\ Patched(i, f).row.path = i.row.path
                 /\ Patched(i, f).row.text = f.text /\ Patched(i, f).row.edited = TRUE
           /\ f.ev = "message_media" =>
                 /\ Patched(i, f).row.type = i.row.type /\ Patched(i, f).row.text = i.row.text
                 /\ Patched(i, f).row.edited = i.row.edited /\ Patched(i, f).row.path = "cache"
           /\ f.ev \notin {"message_revoked", "message_edited", "message_media"} =>
                 /\ Patched(i, f).row.type = i.row.type /\ Patched(i, f).row.text = i.row.text
                 /\ Patched(i, f).row.edited = i.row.edited
                 /\ Patched(i, f).row.path = i.row.path
<1>0. i.row \in MessageRow
  BY DEF Items
<1>00. Patched(i, f).row \in MessageRow
  BY PatchedTyped DEF Items
<1>1. CASE f.ev = "message_edited"
  BY <1>0, <1>00, <1>1 DEF Patched, Items, MessageRow
<1>2. CASE f.ev = "message_revoked"
  BY <1>0, <1>00, <1>2 DEF Patched, Items, MessageRow
<1>3. CASE f.ev = "message_media"
  BY <1>0, <1>00, <1>3 DEF Patched, Items, MessageRow
<1>4. CASE f.ev = "reaction"
  BY <1>0, <1>00, <1>4 DEF Patched, Items, MessageRow
<1>5. CASE f.ev = "message_status"
  BY <1>0, <1>00, <1>5 DEF Patched, Items, MessageRow
<1>6. CASE f.ev \notin {"message_edited", "message_revoked", "message_media",
                       "reaction", "message_status"}
  BY <1>0, <1>00, <1>6 DEF Patched
<1> QED
  BY <1>1, <1>2, <1>3, <1>4, <1>5, <1>6

\* What is shown of a stored message is what is stored, or the frame that tells is
\* decided on; and what is deleted is never shown again.
Right(m, l) ==
    LET s == messages[m] IN
    /\ l.row.type = "revoked" => s.type = "revoked"
    /\ s.type = "revoked" => l.row.type = "revoked" \/ RevokedFrame(m) \in Decided
    /\ s.type # "revoked" =>
         /\ l.row.type = s.type
         /\ \/ l.row.text = s.text /\ l.row.edited = s.edited
            \/ s.edited /\ EditedFrame(m, s.text) \in Decided
         /\ l.row.path = s.path \/ (s.path = "cache" /\ MediaFrame(m) \in Decided)

Agrees(m, v) ==
    /\ messages[m] = NoRow => v = {}
    /\ messages[m] # NoRow => /\ v = {} => MessageFrame(m) \in Decided
                              /\ \A l \in v : Right(m, l)

LEMMA RightPrimed ==
    \A m, l : Right(m, l)' <=>
    /\ l.row.type = "revoked" => messages'[m].type = "revoked"
    /\ messages'[m].type = "revoked" => l.row.type = "revoked" \/ RevokedFrame(m) \in Decided'
    /\ messages'[m].type # "revoked" =>
         /\ l.row.type = messages'[m].type
         /\ \/ l.row.text = messages'[m].text /\ l.row.edited = messages'[m].edited
            \/ messages'[m].edited /\ EditedFrame(m, messages'[m].text) \in Decided'
         /\ \/ l.row.path = messages'[m].path
            \/ messages'[m].path = "cache" /\ MediaFrame(m) \in Decided'
BY DEF Right

LEMMA AgreesPrimed ==
    \A m, v : Agrees(m, v)' <=>
    /\ messages'[m] = NoRow => v = {}
    /\ messages'[m] # NoRow => /\ v = {} => MessageFrame(m) \in Decided'
                               /\ \A l \in v : Right(m, l)'
BY DEF Agrees

\* A step that writes nothing.
LEMMA AgreesKept ==
    ASSUME NEW m \in Msgs, NEW v, Agrees(m, v), RowStep(m), Decided \subseteq Decided'
    PROVE  Agrees(m, v)'
<1>0. NoRow \notin MessageRow
  BY StoreAssumption
<1>1. CASE messages[m] = NoRow
  <2>1. v = {} /\ (messages'[m] # NoRow => MessageFrame(m) \in Decided')
    BY <1>1 DEF Agrees, RowStep
  <2> QED
    BY <2>1, AgreesPrimed
<1>2. CASE messages[m] # NoRow
  <2>1. messages'[m] # NoRow /\ (v = {} => MessageFrame(m) \in Decided')
    BY <1>0, <1>2 DEF Agrees, RowStep
  <2>2. ASSUME NEW l \in v PROVE Right(m, l)'
    <3> DEFINE old == messages[m]
               new == messages'[m]
    <3>1. Right(m, l)
      BY <1>2 DEF Agrees
    <3>2. /\ l.row.type = "revoked" => old.type = "revoked"
          /\ old.type = "revoked" => l.row.type = "revoked" \/ RevokedFrame(m) \in Decided'
          /\ old.type # "revoked" =>
               /\ l.row.type = old.type
               /\ \/ l.row.text = old.text /\ l.row.edited = old.edited
                  \/ old.edited /\ EditedFrame(m, old.text) \in Decided'
               /\ l.row.path = old.path \/ (old.path = "cache" /\ MediaFrame(m) \in Decided')
      BY <3>1 DEF Right
    <3>3. \/ /\ new.type = old.type /\ new.text = old.text
             /\ new.path = old.path /\ new.edited = old.edited
          \/ new.type = "revoked" /\ RevokedFrame(m) \in Decided'
          \/ /\ new.type = old.type /\ new.path = old.path /\ new.edited /\ new.text # ""
             /\ EditedFrame(m, new.text) \in Decided'
          \/ /\ new.type = old.type /\ new.text = old.text /\ new.edited = old.edited
             /\ new.path = "cache" /\ MediaFrame(m) \in Decided'
      BY <1>2 DEF RowStep
    <3> HIDE DEF old, new
    <3>4. /\ l.row.type = "revoked" => new.type = "revoked"
          /\ new.type = "revoked" => l.row.type = "revoked" \/ RevokedFrame(m) \in Decided'
          /\ new.type # "revoked" =>
               /\ l.row.type = new.type
               /\ \/ l.row.text = new.text /\ l.row.edited = new.edited
                  \/ new.edited /\ EditedFrame(m, new.text) \in Decided'
               /\ l.row.path = new.path \/ (new.path = "cache" /\ MediaFrame(m) \in Decided')
      BY <3>2, <3>3
    <3> QED
      BY <3>4, RightPrimed DEF new
  <2> QED
    BY <2>1, <2>2, AgreesPrimed
<1> QED
  BY <1>1, <1>2

\* The item Outdated and Told look at.
LEMMA StoredItem ==
    ASSUME NEW m \in Msgs, NEW s \in MessageRow
    PROVE  /\ Item(m, s, NoReacts) \in Items
           /\ Item(m, s, NoReacts).row.type = s.type /\ Item(m, s, NoReacts).row.text = s.text
           /\ Item(m, s, NoReacts).row.path = s.path
           /\ Item(m, s, NoReacts).row.edited = s.edited
<1>1. Item(m, s, NoReacts) \in Items
  BY ItemTyped DEF Listed
<1>2. Item(m, s, NoReacts).row = [s EXCEPT !.raw = FALSE]
  BY DEF Item
<1> QED
  BY <1>1, <1>2 DEF MessageRow

\* A frame that says what is stored turns what agrees into what agrees.
LEMMA PatchAgrees ==
    ASSUME NEW m \in Msgs, NEW s \in MessageRow, messages[m] = s, UNCHANGED messages,
           NEW f \in GuiFrames, "m" \in DOMAIN f, f.m = m, f.ev # "message", ~Outdated(f),
           Decided \subseteq Decided' \cup {f}, NEW i \in Items, Right(m, i)
    PROVE  Right(m, Patched(i, f))'
<1> DEFINE p == Patched(i, f).row
           t == Patched(Item(m, s, NoReacts), f).row
           Revoked == RevokedFrame(m)
           Edited  == EditedFrame(m, s.text)
           Media   == MediaFrame(m)
<1>1. s # NoRow /\ f.ev # "messages"
  <2>1. f \in Frames
    BY FrameForms
  <2> QED
    BY <2>1, StoreAssumption, EngineFrames
<1>2. /\ Item(m, s, NoReacts) \in Items
      /\ Item(m, s, NoReacts).row.type = s.type /\ Item(m, s, NoReacts).row.text = s.text
      /\ Item(m, s, NoReacts).row.path = s.path
      /\ Item(m, s, NoReacts).row.edited = s.edited
  BY StoredItem
<1>3. t \in MessageRow /\ p \in MessageRow
  BY <1>2, PatchedRow
<1>4. Face(t) = Face(s)
  BY <1>1 DEF Outdated
<1>5. /\ t.type = "revoked" <=> s.type = "revoked"
      /\ s.type # "revoked" => /\ t.type = s.type /\ t.text = s.text
                               /\ t.path = s.path /\ t.edited = s.edited
  BY <1>3, <1>4, FaceTells
<1>6. /\ i.row.type = "revoked" => s.type = "revoked"
      /\ s.type = "revoked" => i.row.type = "revoked" \/ Revoked \in Decided
      /\ s.type # "revoked" =>
           /\ i.row.type = s.type
           /\ (i.row.text = s.text /\ i.row.edited = s.edited) \/ (s.edited /\ Edited \in Decided)
           /\ i.row.path = s.path \/ (s.path = "cache" /\ Media \in Decided)
  BY DEF Right
<1>7. /\ Revoked.ev = "message_revoked" /\ Edited.ev = "message_edited"
      /\ Media.ev = "message_media"
  BY FrameNames
<1>8. /\ Revoked \in Decided => Revoked \in Decided' \/ f.ev = "message_revoked"
      /\ Edited \in Decided => Edited \in Decided' \/ f.ev = "message_edited"
      /\ Media \in Decided => Media \in Decided' \/ f.ev = "message_media"
  BY <1>7
<1>9. /\ f.ev = "message_revoked" => p.type = "revoked"
      /\ f.ev = "message_edited" =>
           /\ p.type = i.row.type /\ p.path = i.row.path
           /\ p.text = f.text /\ p.edited = TRUE
      /\ f.ev = "message_media" =>
           /\ p.type = i.row.type /\ p.text = i.row.text
           /\ p.edited = i.row.edited /\ p.path = "cache"
      /\ f.ev \notin {"message_revoked", "message_edited", "message_media"} =>
           /\ p.type = i.row.type /\ p.text = i.row.text
           /\ p.edited = i.row.edited /\ p.path = i.row.path
  BY PatchedRow
<1>12. /\ f.ev = "message_revoked" => t.type = "revoked"
       /\ f.ev = "message_edited" => t.type = s.type /\ t.text = f.text /\ t.edited = TRUE
       /\ f.ev = "message_media" => t.type = s.type /\ t.path = "cache"
  <2> DEFINE item == Item(m, s, NoReacts)
  <2>1. item \in Items /\ item.row.type = s.type
    BY <1>2
  <2> HIDE DEF item
  <2>2. /\ f.ev = "message_revoked" => Patched(item, f).row.type = "revoked"
        /\ f.ev = "message_edited" =>
             /\ Patched(item, f).row.type = item.row.type
             /\ Patched(item, f).row.text = f.text /\ Patched(item, f).row.edited = TRUE
        /\ f.ev = "message_media" =>
             /\ Patched(item, f).row.type = item.row.type
             /\ Patched(item, f).row.path = "cache"
    BY <2>1, PatchedRow
  <2> QED
    BY <2>1, <2>2 DEF item
<1> HIDE DEF p, t, Revoked, Edited, Media
<1>10. /\ p.type = "revoked" => s.type = "revoked"
       /\ s.type = "revoked" => p.type = "revoked" \/ Revoked \in Decided'
  BY <1>5, <1>6, <1>8, <1>9, <1>12
<1>11. ASSUME s.type # "revoked"
       PROVE  /\ p.type = s.type
              /\ (p.text = s.text /\ p.edited = s.edited) \/ (s.edited /\ Edited \in Decided')
              /\ p.path = s.path \/ (s.path = "cache" /\ Media \in Decided')
  <2>1. CASE f.ev = "message_edited"
    BY <1>5, <1>6, <1>8, <1>9, <1>12, <1>11, <2>1
  <2>2. CASE f.ev = "message_media"
    BY <1>5, <1>6, <1>8, <1>9, <1>12, <1>11, <2>2
  <2>3. CASE f.ev = "message_revoked"
    BY <1>5, <1>9, <1>12, <1>11, <2>3
  <2>4. CASE f.ev \notin {"message_revoked", "message_edited", "message_media"}
    BY <1>5, <1>6, <1>8, <1>9, <1>12, <1>11, <2>4
  <2> QED
    BY <2>1, <2>2, <2>3, <2>4
<1> QED
  BY <1>10, <1>11, RightPrimed DEF p, Revoked, Edited, Media

\* A row that shows what is stored.
LEMMA SameFaceAgrees ==
    ASSUME NEW m \in Msgs, NEW s \in MessageRow, messages[m] = s,
           NEW i, i.row \in MessageRow, Face(i.row) = Face(s)
    PROVE  Right(m, i)
<1>1. /\ i.row.type = "revoked" <=> s.type = "revoked"
      /\ i.row.type # "revoked" => /\ i.row.type = s.type /\ i.row.text = s.text
                                   /\ i.row.path = s.path /\ i.row.edited = s.edited
  BY FaceTells
<1> QED
  BY <1>1 DEF Right

\* A step that writes a frame of the engine.
LEMMA AgreesWritten ==
    ASSUME ViewTyped, Orderly, NEW m \in Msgs, NEW f \in Frames, Written(f),
           "m" \in DOMAIN f /\ f.m = m => ~Outdated(f),
           NEW v \in SUBSET Items, NEW w, Becomes(m, v, f, w), Agrees(m, v)
    PROVE  Agrees(m, w)'
<1>0. /\ messages[m] \in MessageRow \cup {NoRow} /\ f \in GuiFrames /\ f.ev # "messages"
      /\ NoRow \notin MessageRow /\ messages' = messages
      /\ Decided \subseteq Decided' \cup {f}
  BY EngineFrames, StoreAssumption DEF ViewTyped, DaemonTyped, MessagesTable, Written
<1>1. /\ MessageFrame(m).ev = "message" /\ MessageFrame(m).m = m
      /\ RevokedFrame(m).m = m /\ MediaFrame(m).m = m
      /\ \A x : EditedFrame(m, x).m = m
      /\ RevokedFrame(m).ev # "message" /\ MediaFrame(m).ev # "message"
      /\ \A x : EditedFrame(m, x).ev # "message"
  BY FrameNames
<1>2. /\ "m" \in DOMAIN MessageFrame(m) /\ "m" \in DOMAIN RevokedFrame(m)
      /\ "m" \in DOMAIN MediaFrame(m) /\ \A x : "m" \in DOMAIN EditedFrame(m, x)
  BY DEF MessageFrame, RevokedFrame, MediaFrame, EditedFrame
<1>3. CASE ~("m" \in DOMAIN f /\ f.m = m)
  <2>1. w = v
    BY <1>0, <1>3 DEF Becomes
  <2>2. /\ MessageFrame(m) # f /\ RevokedFrame(m) # f /\ MediaFrame(m) # f
        /\ \A x : EditedFrame(m, x) # f
    BY <1>1, <1>2, <1>3
  <2>3. /\ MessageFrame(m) \in Decided => MessageFrame(m) \in Decided'
        /\ RevokedFrame(m) \in Decided => RevokedFrame(m) \in Decided'
        /\ MediaFrame(m) \in Decided => MediaFrame(m) \in Decided'
        /\ \A x : EditedFrame(m, x) \in Decided => EditedFrame(m, x) \in Decided'
    BY <1>0, <2>2
  <2>4. ASSUME NEW l \in v, Right(m, l) PROVE Right(m, l)'
    BY <1>0, <2>3, <2>4, RightPrimed DEF Right
  <2> QED
    BY <1>0, <2>1, <2>3, <2>4, AgreesPrimed DEF Agrees
<1>4. CASE f.ev = "message" /\ "m" \in DOMAIN f /\ f.m = m
  <2>1. messages[m] # NoRow
    BY <1>4 DEF Orderly, Written
  <2>2. w = {Announced(m)} \/ (v # {} /\ w = v)
    BY <1>4 DEF Becomes
  <2>3. CASE w = {Announced(m)}
    <3>1. Announced(m).row \in MessageRow
      BY AnnouncedTyped DEF Listed, Items
    <3>2. Face(Announced(m).row) = Face(messages[m])
      BY <1>4, <2>1 DEF Outdated
    <3>3. messages'[m] \in MessageRow /\ Face(Announced(m).row) = Face(messages'[m])
      BY <1>0, <2>1, <3>2
    <3>4. Right(m, Announced(m))'
      <4>1. /\ Announced(m).row.type = "revoked" <=> messages'[m].type = "revoked"
            /\ Announced(m).row.type # "revoked" =>
                 /\ Announced(m).row.type = messages'[m].type
                 /\ Announced(m).row.text = messages'[m].text
                 /\ Announced(m).row.path = messages'[m].path
                 /\ Announced(m).row.edited = messages'[m].edited
        BY <3>1, <3>3, FaceTells
      <4> QED
        BY <4>1, RightPrimed
    <3> QED
      BY <1>0, <2>1, <2>3, <3>4, AgreesPrimed
  <2>4. CASE v # {} /\ w = v
    <3>1. /\ RevokedFrame(m) \in Decided => RevokedFrame(m) \in Decided'
          /\ MediaFrame(m) \in Decided => MediaFrame(m) \in Decided'
          /\ \A x : EditedFrame(m, x) \in Decided => EditedFrame(m, x) \in Decided'
      BY <1>0, <1>1, <1>4
    <3>2. ASSUME NEW l \in v, Right(m, l) PROVE Right(m, l)'
      BY <1>0, <3>1, <3>2, RightPrimed DEF Right
    <3> QED
      BY <1>0, <2>1, <2>4, <3>2, AgreesPrimed DEF Agrees
  <2> QED
    BY <2>2, <2>3, <2>4
<1>5. CASE f.ev # "message" /\ "m" \in DOMAIN f /\ f.m = m
  <2>1. w = {Patched(i, f) : i \in v}
    BY <1>0, <1>5 DEF Becomes
  <2>2. CASE messages[m] = NoRow
    <3>1. w = {}
      BY <2>1, <2>2 DEF Agrees
    <3> QED
      BY <1>0, <2>2, <3>1, AgreesPrimed
  <2>3. CASE messages[m] # NoRow
    <3>1. w = {} => MessageFrame(m) \in Decided'
      BY <1>0, <1>1, <1>5, <2>1, <2>3 DEF Agrees
    <3>2. ASSUME NEW i \in v PROVE Right(m, Patched(i, f))'
      <4>1. Right(m, i)
        BY <2>3 DEF Agrees
      <4> DEFINE s == messages[m]
      <4>2. s \in MessageRow /\ messages[m] = s /\ i \in Items /\ ~Outdated(f)
        BY <1>0, <1>5, <2>3
      <4> HIDE DEF s
      <4> QED
        BY <1>0, <1>5, <4>1, <4>2, PatchAgrees
    <3>3. \A l \in w : Right(m, l)'
      BY <2>1, <3>2
    <3> QED
      BY <1>0, <2>3, <3>1, <3>3, AgreesPrimed
  <2> QED
    BY <2>2, <2>3
<1> QED
  BY <1>3, <1>4, <1>5

\* The rows of a listing under way: stored messages, all of which can be rendered.
QueryHolds ==
    query # NoQuery =>
      \A i \in 1..Len(query.rows) :
        /\ messages[query.rows[i].m] # NoRow /\ Renderable(query.rows[i])
        /\ query.rows[i].row.type = "revoked" => messages[query.rows[i].m].type = "revoked"
        /\ \A k \in 1..Len(query.rows) :
              query.rows[k].m = query.rows[i].m => query.rows[k].row = query.rows[i].row

\* A row, and the frame still to be written that tells what is stored.
LEMMA LateAgrees ==
    ASSUME ViewTyped, NEW m \in Msgs, NEW s \in MessageRow, messages[m] = s,
           NEW i \in Items, NEW f \in Decided, "m" \in DOMAIN f, f.m = m,
           Face(Patched(i, f).row) = Face(s), i.row.type = "revoked" => s.type = "revoked"
    PROVE  Right(m, i)
<1> DEFINE p == Patched(i, f).row
<1>0. f \in GuiFrames
  BY DecidedTyped, EngineFrames
<1>1. p \in MessageRow
  BY <1>0, PatchedRow
<1>2. /\ p.type = "revoked" <=> s.type = "revoked"
      /\ p.type # "revoked" => /\ p.type = s.type /\ p.text = s.text
                               /\ p.path = s.path /\ p.edited = s.edited
  BY <1>1, FaceTells
<1>3. /\ f.ev = "message_revoked" => f = RevokedFrame(m)
      /\ f.ev = "message_media" => f = MediaFrame(m)
      /\ f.ev = "message_edited" => f = EditedFrame(m, f.text)
  BY <1>0, FrameNamed
<1>4. CASE f.ev = "message_revoked"
  <2>1. p.type = "revoked"
    BY <1>0, <1>4, PatchedRow
  <2> HIDE DEF p
  <2> QED
    BY <1>2, <1>3, <1>4, <2>1 DEF Right
<1>5. CASE f.ev = "message_edited"
  <2>1. /\ p.type = i.row.type /\ p.path = i.row.path /\ p.text = f.text /\ p.edited = TRUE
    BY <1>0, <1>5, PatchedRow
  <2> HIDE DEF p
  <2> QED
    BY <1>2, <1>3, <1>5, <2>1 DEF Right
<1>6. CASE f.ev = "message_media"
  <2>1. /\ p.type = i.row.type /\ p.text = i.row.text /\ p.edited = i.row.edited
        /\ p.path = "cache"
    BY <1>0, <1>6, PatchedRow
  <2> HIDE DEF p
  <2> QED
    BY <1>2, <1>3, <1>6, <2>1 DEF Right
<1>7. CASE f.ev \notin {"message_revoked", "message_edited", "message_media"}
  <2>1. /\ p.type = i.row.type /\ p.text = i.row.text /\ p.edited = i.row.edited
        /\ p.path = i.row.path
    BY <1>0, <1>7, PatchedRow
  <2> HIDE DEF p
  <2> QED
    BY <1>2, <2>1 DEF Right
<1> QED
  BY <1>4, <1>5, <1>6, <1>7

\* What is listed of a message that is not excepted.
LEMMA AgreesListed ==
    ASSUME ViewTyped, Orderly, QueryHolds, query \in Queries, NEW m \in Msgs,
           messages[m] # NoRow => \E row \in Told(query.rows, m) : Face(row) = Face(messages[m]),
           NEW w, LET found == {i \in 1..Len(query.rows) :
                                  query.rows[i].m = m /\ Renderable(query.rows[i])} IN
                  (found = {} /\ w = {}) \/ \E i \in found : w = {query.rows[i]}
    PROVE  Agrees(m, w)
<1> DEFINE rows == query.rows
           s == messages[m]
           listed == {i \in 1..Len(rows) : rows[i].m = m}
<1>0. /\ s \in MessageRow \cup {NoRow} /\ rows \in Seq(Items) /\ query # NoQuery
      /\ Len(rows) \in Nat /\ DOMAIN rows = 1..Len(rows)
      /\ \A i \in 1..Len(rows) : rows[i] \in Items /\ rows[i].row \in MessageRow
  <2>1. s \in MessageRow \cup {NoRow} /\ rows \in Seq(Items) /\ query # NoQuery
    BY QueryIsNamed DEF ViewTyped, DaemonTyped, MessagesTable, Queries
  <2>2. Len(rows) \in Nat /\ DOMAIN rows = 1..Len(rows) /\ \A i \in 1..Len(rows) : rows[i] \in Items
    <3> HIDE DEF rows
    <3> QED
      BY <2>1
  <2> QED
    BY <2>1, <2>2 DEF Items
<1>1. \A i \in 1..Len(rows) :
        /\ messages[rows[i].m] # NoRow /\ Renderable(rows[i])
        /\ rows[i].row.type = "revoked" => messages[rows[i].m].type = "revoked"
        /\ \A k \in 1..Len(rows) : rows[k].m = rows[i].m => rows[k].row = rows[i].row
  BY <1>0 DEF QueryHolds
<1>2. (listed = {} /\ w = {}) \/ \E i \in listed : w = {rows[i]}
  BY <1>1
<1>3. CASE messages[m] = NoRow
  <2>1. listed = {}
    BY <1>1, <1>3
  <2> QED
    BY <1>2, <1>3, <2>1 DEF Agrees
<1>4. CASE messages[m] # NoRow /\ listed = {}
  <2>1. PICK f \in Decided : "m" \in DOMAIN f /\ f.m = m /\ f.ev = "message"
    BY <1>0, <1>4 DEF Told
  <2>2. f = MessageFrame(m)
    BY <2>1, DecidedTyped, EngineFrames, FrameNamed
  <2> QED
    BY <1>2, <1>4, <2>1, <2>2 DEF Agrees
<1>5. CASE messages[m] # NoRow /\ listed # {}
  <2>1. PICK i \in listed : w = {rows[i]}
    BY <1>2, <1>5
  <2>2. PICK row \in Told(rows, m) : Face(row) = Face(s)
    BY <1>5
  <2>3. \/ \E k \in listed : row = rows[k].row
        \/ \E k \in listed, f \in Decided : /\ "m" \in DOMAIN f /\ f.m = m
                                            /\ row = Patched(rows[k], f).row
    BY <1>0, <1>5, <2>2 DEF Told
  <2>4. s \in MessageRow /\ messages[m] = s
    BY <1>0, <1>5
  <2> HIDE DEF s
  <2>5. ASSUME NEW k \in listed, Right(m, rows[k]) PROVE Right(m, rows[i])
    <3>1. rows[k].row = rows[i].row
      BY <1>1, <2>1
    <3> QED
      BY <2>5, <3>1 DEF Right
  <2>6. ASSUME NEW k \in listed, row = rows[k].row PROVE Right(m, rows[k])
    BY <1>0, <2>2, <2>4, <2>6, SameFaceAgrees
  <2>7. ASSUME NEW k \in listed, NEW f \in Decided, "m" \in DOMAIN f, f.m = m,
               row = Patched(rows[k], f).row
        PROVE  Right(m, rows[k])
    <3>1. rows[k].row.type = "revoked" => s.type = "revoked"
      BY <1>1, <2>4
    <3> DEFINE e == rows[k]
    <3>2. /\ e \in Items /\ Face(Patched(e, f).row) = Face(s)
          /\ e.row.type = "revoked" => s.type = "revoked"
      BY <1>0, <2>2, <2>7, <3>1
    <3> HIDE DEF e
    <3>3. Right(m, e)
      BY <2>4, <2>7, <3>2, LateAgrees
    <3> QED
      BY <3>3 DEF e
  <2>8. Right(m, rows[i])
    BY <2>3, <2>5, <2>6, <2>7
  <2> QED
    BY <1>5, <2>1, <2>8 DEF Agrees
<1> QED
  BY <1>3, <1>4, <1>5

\* No listing is asked for or being made; one may be on its way to the view.
Ready == ~gap /\ query = NoQuery /\ ~Has(reqs, ListReqs)

\* What is on its way leaves the view with what agrees with the store.
Leading ==
    \A m \in Msgs \ skewed : ChatOf[m] = chat =>
        \A z : Leads(sock[Gui], Turns(m), Front(m), z) => Agrees(m, z)

AgreeInv == EchoInv /\ Orderly /\ QueryHolds /\ (Ready => Leading)

LEMMA TurnsSame ==
    ASSUME UNCHANGED chat, NEW m
    PROVE  Turns(m)' = Turns(m)
BY DEF Turns, Becomes

\* A step that leaves the store, what is to be written and what is on its way.
LEMMA SameLeading ==
    ASSUME Leading, UNCHANGED <<messages, chat, skewed>>, sock'[Gui] = sock[Gui],
           Decided' = Decided,
           \A m \in Msgs : ChatOf[m] = chat => FrontIn(list', m) = FrontIn(list, m)
    PROVE  Leading'
<1> SUFFICES ASSUME NEW m \in Msgs, m \notin skewed, ChatOf[m] = chat, NEW z,
                    Leads(sock[Gui], Turns(m), FrontIn(list, m), z)
             PROVE  Agrees(m, z)'
  BY TurnsSame DEF Leading, Front
<1>1. Agrees(m, z)
  BY DEF Leading, Front
<1>2. ASSUME NEW l, Right(m, l) PROVE Right(m, l)'
  BY <1>2, RightPrimed DEF Right
<1> QED
  BY <1>1, <1>2, AgreesPrimed DEF Agrees

LEMMA SameOrderly ==
    ASSUME Orderly, UNCHANGED <<messages, ev>>, Decided' = Decided,
           cmd'[Gui].pc \in {"idle", "put", "clear", "revoke", "reply"}
    PROVE  Orderly'
BY DEF Orderly, HasContent

LEMMA SameQuery ==
    ASSUME ViewTyped, QueryHolds, UNCHANGED query, \A m \in Msgs : RowStep(m)
    PROVE  QueryHolds'
<1> SUFFICES ASSUME query # NoQuery, NEW i \in 1..Len(query.rows)
             PROVE  /\ messages'[query.rows[i].m] # NoRow /\ Renderable(query.rows[i])
                    /\ query.rows[i].row.type = "revoked"
                         => messages'[query.rows[i].m].type = "revoked"
                    /\ \A k \in 1..Len(query.rows) :
                          query.rows[k].m = query.rows[i].m
                            => query.rows[k].row = query.rows[i].row
  BY DEF QueryHolds
<1>1. /\ messages[query.rows[i].m] # NoRow /\ Renderable(query.rows[i])
      /\ query.rows[i].row.type = "revoked" => messages[query.rows[i].m].type = "revoked"
      /\ \A k \in 1..Len(query.rows) :
            query.rows[k].m = query.rows[i].m => query.rows[k].row = query.rows[i].row
  BY DEF QueryHolds
<1> DEFINE n == query.rows[i].m
<1>2. n \in Msgs
  BY DEF ViewTyped, Queries, Listed
<1>3. RowStep(n)
  BY <1>2
<1>4. messages'[n] # NoRow /\ (messages[n].type = "revoked" => messages'[n].type = "revoked")
  <2>1. messages[n] # NoRow
    BY <1>1
  <2> HIDE DEF n
  <2> QED
    BY <1>3, <2>1, StoreAssumption DEF RowStep
<1> HIDE DEF n
<1> QED
  BY <1>1, <1>4 DEF n

\* The daemon.
LEMMA DaemonAgrees ==
    ASSUME AgreeInv, ~StoreMayFail, DaemonStep
    PROVE  Orderly' /\ QueryHolds' /\ (Ready' => Leading')
<1>0. /\ ViewTyped /\ OutHeld /\ Orderly /\ QueryHolds
      /\ UNCHANGED <<linkVars, viewVars, gap>>
  BY DEF AgreeInv, EchoInv, ViewInv, DaemonStep
<1>1. DaemonOutcome /\ Orderly'
  BY <1>0, DaemonOrderly
<1>2. \A m \in Msgs : RowStep(m)
  BY <1>1 DEF DaemonOutcome
<1>3. QueryHolds'
  BY <1>0, <1>2, SameQuery DEF linkVars
<1>4. ASSUME Ready' PROVE Leading'
  <2>1. Leading
    BY <1>0, <1>4 DEF Ready, AgreeInv, linkVars
  <2>2. UNCHANGED <<chat, list>> /\ sock[Gui] \in Seq(GuiFrames)
    BY <1>0, GuiSocket DEF viewVars
  <2>3. skewed \subseteq skewed'
    BY DEF DaemonStep
  <2>4. SUFFICES ASSUME NEW m \in Msgs, m \notin skewed', ChatOf[m] = chat, NEW z,
                        Leads(sock'[Gui], Turns(m), FrontIn(list, m), z)
                 PROVE  Agrees(m, z)'
    BY <2>2, TurnsSame DEF Leading, Front
  <2>5. \A y : Leads(sock[Gui], Turns(m), FrontIn(list, m), y) => Agrees(m, y)
    BY <2>1, <2>3, <2>4 DEF Leading, Front
  <2>6. CASE UNCHANGED sock /\ Decided \subseteq Decided'
    <3>1. Agrees(m, z)
      BY <2>4, <2>5, <2>6
    <3> QED
      BY <1>2, <2>6, <3>1, AgreesKept
  <2>7. ASSUME NEW f \in Frames, Written(f) PROVE Agrees(m, z)'
    <3>1. sock'[Gui] = Append(sock[Gui], f) /\ f \in GuiFrames
      BY <2>7, EngineFrames DEF Written
    <3>2. PICK y : Leads(sock[Gui], Turns(m), FrontIn(list, m), y) /\ <<y, f, z>> \in Turns(m)
      BY <2>2, <2>4, <3>1, LeadsAppended
    <3>3. Agrees(m, y)
      BY <2>5, <3>2
    <3>4. y \in SUBSET Items /\ Becomes(m, y, f, z)
      <4>1. PICK t \in (SUBSET Items) \X GuiFrames \X (SUBSET Items) :
               t = <<y, f, z>> /\ Becomes(m, t[1], t[2], t[3])
        BY <3>2 DEF Turns
      <4>2. t[1] = y /\ t[2] = f /\ t[3] = z
        BY <4>1
      <4> QED
        BY <4>1, <4>2
    <3>5. ASSUME "m" \in DOMAIN f, f.m = m PROVE ~Outdated(f)
      <4>1. /\ Len(sock'[Gui]) > Len(sock[Gui]) /\ sock'[Gui][Len(sock'[Gui])] = f
        BY <2>2, <3>1
      <4>2. Outdated(f) => f.m \in skewed'
        BY <4>1 DEF DaemonStep
      <4> QED
        BY <2>4, <3>5, <4>2
    <3> QED
      BY <1>0, <2>7, <3>3, <3>4, <3>5, AgreesWritten
  <2> QED
    BY <1>1, <2>6, <2>7 DEF DaemonOutcome
<1> QED
  BY <1>1, <1>3, <1>4

LEMMA ListAgreement ==
    ASSUME AgreeInv, ListMessages \/ ListReactions \/ ListReply
    PROVE  Orderly' /\ QueryHolds' /\ (Ready' => Leading')
<1>0. /\ ViewTyped /\ Orderly /\ QueryHolds /\ UNCHANGED <<store, ev, cmd, dl, chat, list, gap>>
      /\ \A m \in Msgs : RowStep(m)
  <2>1. UNCHANGED <<store, ev, cmd, dl, chat, list, gap>>
    BY DEF ListMessages, ListReactions, ListReply, vars, store, viewVars, ghosts
  <2> QED
    BY <2>1, RowsStay DEF AgreeInv, EchoInv, ViewInv, store
<1>1. Decided' = Decided /\ UNCHANGED messages
  BY <1>0 DEF Decided, store
<1>2. Orderly'
  <2>1. cmd'[Gui].pc \in {"idle", "put", "clear", "revoke", "reply"}
    BY <1>0 DEF Orderly
  <2> QED
    BY <1>0, <1>1, <2>1, SameOrderly
<1>3. CASE ListMessages
  <2>1. PICK j \in Chats :
           /\ query' \in Queries /\ query'.chat = j
           /\ \A i \in 1..Len(query'.rows) :
                 /\ messages[query'.rows[i].m] # NoRow
                 /\ query'.rows[i].row = [messages[query'.rows[i].m] EXCEPT !.raw = FALSE]
    BY <1>0, <1>3, SelectForm
  <2>2. query' # NoQuery
    BY <2>1, QueryIsNamed
  <2>3. ASSUME NEW i \in 1..Len(query'.rows)
        PROVE  /\ messages'[query'.rows[i].m] # NoRow /\ Renderable(query'.rows[i])
               /\ query'.rows[i].row.type = "revoked"
                    => messages'[query'.rows[i].m].type = "revoked"
               /\ \A k \in 1..Len(query'.rows) :
                     query'.rows[k].m = query'.rows[i].m
                       => query'.rows[k].row = query'.rows[i].row
    <3> DEFINE n == query'.rows[i].m
               s == messages[n]
    <3>1. n \in Msgs /\ s # NoRow /\ query'.rows[i].row = [s EXCEPT !.raw = FALSE]
      BY <2>1 DEF Queries, Listed
    <3>2. s \in MessageRow /\ HasContent(s)
      BY <1>0, <3>1 DEF ViewTyped, DaemonTyped, MessagesTable, Orderly
    <3>3. \A k \in 1..Len(query'.rows) :
             query'.rows[k].m = n => query'.rows[k].row = query'.rows[i].row
      BY <2>1
    <3>4. messages' = messages
      BY <1>1
    <3> HIDE DEF s
    <3>5. /\ [s EXCEPT !.raw = FALSE].type = s.type /\ [s EXCEPT !.raw = FALSE].text = s.text
          /\ [s EXCEPT !.raw = FALSE].path = s.path
      BY <3>2 DEF MessageRow
    <3>6. Renderable(query'.rows[i])
      BY <3>1, <3>2, <3>5 DEF Renderable, HasContent
    <3>7. query'.rows[i].row.type = "revoked" => s.type = "revoked"
      BY <3>1, <3>5
    <3> QED
      BY <3>1, <3>3, <3>4, <3>6, <3>7 DEF s
  <2>4. QueryHolds'
    BY <2>3 DEF QueryHolds
  <2> QED
    BY <1>2, <2>2, <2>4 DEF Ready
<1>4. CASE ListReactions
  <2>1. /\ query \in Queries /\ query # NoQuery /\ query' \in Queries
        /\ Len(query'.rows) = Len(query.rows)
        /\ \A i \in 1..Len(query.rows) : /\ query'.rows[i].m = query.rows[i].m
                                         /\ query'.rows[i].row = query.rows[i].row
    BY <1>0, <1>4, ReactionsForm
  <2>2. query' # NoQuery
    BY <2>1, QueryIsNamed
  <2>3. \A i \in 1..Len(query.rows) :
           /\ messages[query.rows[i].m] # NoRow /\ Renderable(query.rows[i])
           /\ query.rows[i].row.type = "revoked" => messages[query.rows[i].m].type = "revoked"
           /\ \A k \in 1..Len(query.rows) :
                 query.rows[k].m = query.rows[i].m => query.rows[k].row = query.rows[i].row
    BY <1>0, <2>1 DEF QueryHolds
  <2>4. ASSUME NEW i \in 1..Len(query'.rows)
        PROVE  /\ messages'[query'.rows[i].m] # NoRow /\ Renderable(query'.rows[i])
               /\ query'.rows[i].row.type = "revoked"
                    => messages'[query'.rows[i].m].type = "revoked"
               /\ \A k \in 1..Len(query'.rows) :
                     query'.rows[k].m = query'.rows[i].m
                       => query'.rows[k].row = query'.rows[i].row
    <3>1. i \in 1..Len(query.rows)
      BY <2>1
    <3>2. Renderable(query'.rows[i])
      BY <2>1, <2>3, <3>1 DEF Renderable
    <3> QED
      BY <1>1, <2>1, <2>3, <3>1, <3>2
  <2>5. QueryHolds'
    BY <2>4 DEF QueryHolds
  <2> QED
    BY <1>2, <2>2, <2>5 DEF Ready
<1>5. CASE ListReply
  <2> DEFINE f == ListFrame(query.chat, query.rows)
  <2>1. /\ query \in Queries /\ query # NoQuery /\ query' = NoQuery
        /\ f \in Listings /\ f.chat = query.chat /\ f.rows = query.rows
        /\ sock[Gui] \in Seq(GuiFrames) /\ sock'[Gui] = Append(sock[Gui], f)
        /\ UNCHANGED <<reqs, gap>>
    BY <1>0, <1>5, ReplyForm
  <2>2. QueryHolds'
    BY <2>1 DEF QueryHolds
  <2>3. ASSUME Ready' PROVE Leading'
    <3>1. query.chat = chat
      BY <2>1, <2>3 DEF Ready, AgreeInv, EchoInv, ViewInv, LastOfChat
    <3>2. SUFFICES ASSUME NEW m \in Msgs, m \notin skewed', ChatOf[m] = chat, NEW z,
                          Leads(sock'[Gui], Turns(m), FrontIn(list, m), z)
                   PROVE  Agrees(m, z)'
      BY <1>0, TurnsSame DEF Leading, Front
    <3>3. f \in GuiFrames /\ f.ev = "messages"
      BY <2>1, EngineFrames
    <3> HIDE DEF f
    <3>4. PICK y : <<y, f, z>> \in Turns(m)
      BY <2>1, <3>2, <3>3, LeadsAppended
    <3>5. Becomes(m, y, f, z)
      <4>1. PICK t \in (SUBSET Items) \X GuiFrames \X (SUBSET Items) :
               t = <<y, f, z>> /\ Becomes(m, t[1], t[2], t[3])
        BY <3>4 DEF Turns
      <4>2. t[1] = y /\ t[2] = f /\ t[3] = z
        BY <4>1
      <4> QED
        BY <4>1, <4>2
    <3>6. LET found == {i \in 1..Len(query.rows) :
                          query.rows[i].m = m /\ Renderable(query.rows[i])} IN
          (found = {} /\ z = {}) \/ \E i \in found : z = {query.rows[i]}
      BY <2>1, <3>1, <3>3, <3>5 DEF Becomes
    <3>7. messages[m] # NoRow => \E row \in Told(query.rows, m) : Face(row) = Face(messages[m])
      BY <1>5, <3>1, <3>2 DEF ListReply
    <3>8. Agrees(m, z)
      BY <1>0, <2>1, <3>6, <3>7, AgreesListed
    <3>9. ASSUME NEW l, Right(m, l) PROVE Right(m, l)'
      BY <1>1, <3>9, RightPrimed DEF Right
    <3> QED
      BY <1>1, <3>8, <3>9, AgreesPrimed DEF Agrees
  <2> QED
    BY <1>2, <2>2, <2>3
<1> QED
  BY <1>3, <1>4, <1>5

LEMMA DispatchAgrees ==
    ASSUME AgreeInv, Dispatch
    PROVE  Orderly' /\ QueryHolds' /\ (Ready' => Leading')
<1> DEFINE r == Head(reqs)
<1>0. ViewTyped /\ OutHeld /\ Orderly /\ QueryHolds
  BY DEF AgreeInv, EchoInv, ViewInv
<1>1. /\ reqs # <<>> /\ reqs' = Tail(reqs) /\ r \in Commands \ ListReqs /\ reqs \in Seq(Commands)
      /\ (gap => gap') /\ UNCHANGED <<query, sock, viewVars, skewed>>
      /\ cmd \in [Clients -> CmdState]
      /\ \/ SetActiveChat(Gui, r.chat)
         \/ \E ok \in BOOLEAN : MarkRead(Gui, r.chat, ok)
         \/ \E m \in LocalMsgs : Send(Gui, m)
         \/ DeleteMessage(Gui, r.m)
  BY <1>0, DispatchForm, GuiSocket, CommandTyped
<1>2. UNCHANGED <<messages, ev, dl>>
  BY <1>1 DEF SetActiveChat, MarkRead, Send, DeleteMessage, SendUpdate, store
<1>3. cmd'[Gui].pc \in {"idle", "put", "clear", "revoke", "reply"}
  <2>1. \A rec : Begin(Gui, rec) => cmd'[Gui] = rec
    BY <1>1, GuiIsClient DEF Begin
  <2>2. CASE SetActiveChat(Gui, r.chat)
    BY <2>1, <2>2 DEF SetActiveChat, Reply, CmdIdle
  <2>3. ASSUME NEW ok \in BOOLEAN, MarkRead(Gui, r.chat, ok)
        PROVE  cmd'[Gui].pc \in {"idle", "put", "clear", "revoke", "reply"}
    BY <2>1, <2>3 DEF MarkRead, Reply, CmdIdle
  <2>4. ASSUME NEW m \in LocalMsgs, Send(Gui, m)
        PROVE  cmd'[Gui].pc \in {"idle", "put", "clear", "revoke", "reply"}
    BY <2>1, <2>4 DEF Send, Reply, CmdIdle
  <2>5. CASE DeleteMessage(Gui, r.m)
    BY <2>1, <2>5 DEF DeleteMessage, SendUpdate, Reply, CmdIdle
  <2> QED
    BY <1>1, <2>2, <2>3, <2>4, <2>5
<1>4. Decided' = Decided
  <2>1. cmd[Gui].out = <<>> /\ cmd'[Gui].out = <<>>
    BY <1>0, DispatchHolds
  <2> QED
    BY <1>2, <2>1 DEF Decided
<1>5. Orderly'
  BY <1>0, <1>2, <1>3, <1>4, SameOrderly
<1>6. QueryHolds'
  BY <1>0, <1>1, <1>2, RowsStay, SameQuery
<1>7. ASSUME Ready' PROVE Leading'
  <2>1. ~Has(reqs, ListReqs)
    BY <1>1, <1>7, HasTaken DEF Ready
  <2>2. Leading
    BY <1>1, <1>7, <2>1 DEF Ready, AgreeInv
  <2> QED
    BY <1>1, <1>2, <1>4, <2>2, SameLeading DEF viewVars
<1> QED
  BY <1>5, <1>6, <1>7

LEMMA ReadAgrees ==
    ASSUME AgreeInv, GuiRead
    PROVE  Orderly' /\ QueryHolds' /\ (Ready' => Leading')
<1> DEFINE f == Head(sock[Gui])
<1>0. ViewTyped /\ Orderly /\ QueryHolds
  BY DEF AgreeInv, EchoInv, ViewInv
<1>1. /\ sock[Gui] \in Seq(GuiFrames) /\ sock[Gui] # <<>> /\ sock'[Gui] = Tail(sock[Gui])
      /\ UNCHANGED <<store, ev, cmd, dl, query, chat, gap, skewed>>
      /\ reqs \in Seq(Commands)
      /\ UNCHANGED reqs \/ \E e \in Reads : reqs' = Append(reqs, e)
  BY <1>0, FrameRead, GuiSocket
<1>2. Decided' = Decided /\ UNCHANGED messages
  BY <1>1 DEF Decided, store
<1>3. Orderly'
  <2>1. cmd'[Gui].pc \in {"idle", "put", "clear", "revoke", "reply"}
    BY <1>0, <1>1 DEF Orderly
  <2> QED
    BY <1>0, <1>1, <1>2, <2>1, SameOrderly
<1>4. QueryHolds'
  BY <1>0, <1>1, <1>2, RowsStay, SameQuery
<1>5. ASSUME Ready' PROVE Leading'
  <2>1. ~Has(reqs, ListReqs)
    <3>1. CASE UNCHANGED reqs
      BY <1>5, <3>1 DEF Ready
    <3>2. ASSUME NEW e \in Reads, reqs' = Append(reqs, e) PROVE ~Has(reqs, ListReqs)
      BY <1>1, <1>5, <3>2, OthersAreNoListReqs, HasAppended DEF Ready
    <3> QED
      BY <1>1, <3>1, <3>2
  <2>2. Leading
    BY <1>1, <1>5, <2>1 DEF Ready, AgreeInv
  <2>3. SUFFICES ASSUME NEW m \in Msgs, m \notin skewed, ChatOf[m] = chat, NEW z,
                        Leads(sock'[Gui], Turns(m), FrontIn(list', m), z)
                 PROVE  Agrees(m, z)'
    BY <1>1, TurnsSame DEF Leading, Front
  <2>4. <<FrontIn(list, m), Head(sock[Gui]), FrontIn(list', m)>> \in Turns(m)
    BY <1>0, <2>3, FrontRead
  <2>5. Leads(sock[Gui], Turns(m), FrontIn(list, m), z)
    <3> DEFINE q == sock[Gui]
               a == FrontIn(list, m)
               b == FrontIn(list', m)
    <3>1. /\ q \in Seq(GuiFrames) /\ q # <<>> /\ <<a, Head(q), b>> \in Turns(m)
          /\ Leads(Tail(q), Turns(m), b, z)
      BY <1>1, <2>3, <2>4
    <3> HIDE DEF q, a, b
    <3>2. Leads(q, Turns(m), a, z)
      BY <3>1, LeadsTaken
    <3> QED
      BY <3>2 DEF q, a
  <2>6. Agrees(m, z)
    BY <2>2, <2>3, <2>5 DEF Leading, Front
  <2>7. ASSUME NEW l, Right(m, l) PROVE Right(m, l)'
    BY <1>2, <2>7, RightPrimed DEF Right
  <2> QED
    BY <1>2, <2>6, <2>7, AgreesPrimed DEF Agrees
<1> QED
  BY <1>3, <1>4, <1>5

LEMMA UserAgrees ==
    ASSUME AgreeInv, User
    PROVE  Orderly' /\ QueryHolds' /\ (Ready' => Leading')
<1>0. ViewTyped /\ Orderly /\ QueryHolds /\ (up \/ gap)
  BY DEF AgreeInv, EchoInv, ViewInv
<1>1. /\ UNCHANGED <<messages, ev, cmd, dl, sock, up, query, skewed>>
      /\ reqs \in Seq(Commands) /\ list \in Seq(Entries)
  BY <1>0, UserForm, GuiSocket DEF vars, ViewTyped
<1>2. Decided' = Decided
  BY <1>1 DEF Decided
<1>3. Orderly'
  <2>1. cmd'[Gui].pc \in {"idle", "put", "clear", "revoke", "reply"}
    BY <1>0, <1>1 DEF Orderly
  <2> QED
    BY <1>0, <1>1, <1>2, <2>1, SameOrderly
<1>4. QueryHolds'
  BY <1>0, <1>1, RowsStay, SameQuery
<1>5. ASSUME Ready' PROVE Leading'
  <2>1. ASSUME NEW j \in Chats, gap' = ~up,
               reqs' = IF up THEN Append(Append(reqs, ListReq(j)), ActiveReq(j)) ELSE reqs
        PROVE  FALSE
    <3>1. /\ ListReq(j) \in Commands /\ ListReq(j) \in ListReqs /\ ActiveReq(j) \in Commands
          /\ reqs' = Append(Append(reqs, ListReq(j)), ActiveReq(j))
      BY <1>5, <2>1, CommandForms DEF Ready
    <3> DEFINE q == Append(reqs, ListReq(j))
    <3>2. q \in Seq(Commands) /\ Has(q, ListReqs)
      BY <1>1, <3>1, HasAppended
    <3> HIDE DEF q
    <3>3. Has(Append(q, ActiveReq(j)), ListReqs)
      BY <3>1, <3>2, HasAppended
    <3> QED
      BY <1>5, <3>1, <3>3 DEF q, Ready
  <2>2. ASSUME NEW e \in Commands \ ListReqs, reqs' = Append(reqs, e) \/ UNCHANGED reqs,
               UNCHANGED chat, gap => gap',
               \A m \in Msgs : FrontIn(list', m) = FrontIn(list, m)
        PROVE  Leading'
    <3>1. ~Has(reqs, ListReqs)
      BY <1>1, <1>5, <2>2, HasAppended DEF Ready
    <3>2. Leading
      BY <1>1, <1>5, <2>2, <3>1 DEF Ready, AgreeInv
    <3> QED
      BY <1>1, <1>2, <2>2, <3>2, SameLeading
  <2>3. ASSUME NEW e \in ActiveReqs \cup Deletes,
               UNCHANGED reqs \/ reqs' = Append(reqs, e), UNCHANGED <<chat, list>>, gap => gap'
        PROVE  Leading'
    BY <2>2, <2>3, OthersAreNoListReqs
  <2>4. ASSUME NEW text \in Words, UNCHANGED <<chat, gap>>, chat \in Chats,
               list' = <<Echo(text)>> \o list,
               reqs' = IF up THEN Append(reqs, SendReq(chat, text)) ELSE reqs
        PROVE  Leading'
    <3> DEFINE e == Echo(text)
    <3>1. e \in Entries /\ e.pending
      BY EchoTyped
    <3>2. e.m = NoMsg
      BY <3>1 DEF Entries
    <3> HIDE DEF e
    <3>3. ASSUME NEW m \in Msgs PROVE FrontIn(list', m) = FrontIn(list, m)
      <4>1. e.m # m
        BY <3>2, EngineAssumption
      <4>2. FrontIn(<<e>> \o list, m) = FrontIn(list, m)
        BY <1>1, <3>1, <4>1, FrontPut
      <4> QED
        BY <2>4, <4>2 DEF e
    <3>4. SendReq(chat, text) \in Commands \ ListReqs
      BY <2>4, OthersAreNoListReqs
    <3> QED
      BY <2>2, <2>4, <3>3, <3>4
  <2>5. ActiveReq(NoChat) \in ActiveReqs
    BY DEF ActiveReqs
  <2> QED
    BY <1>0, <2>1, <2>3, <2>4, <2>5, UserForm
<1> QED
  BY <1>3, <1>4, <1>5

LEMMA LinkAgrees ==
    ASSUME AgreeInv, Lost \/ Connect \/ (FrameLost /\ UNCHANGED <<viewVars, ghosts>>)
    PROVE  Orderly' /\ QueryHolds' /\ (Ready' => Leading')
<1>0. ViewTyped /\ Orderly /\ QueryHolds /\ (up \/ gap) /\ UNCHANGED <<chat, list>>
  BY LinkForm DEF AgreeInv, EchoInv, ViewInv, viewVars
<1>1. CASE Lost
  <2>1. /\ gap' /\ query' = NoQuery /\ UNCHANGED messages
        /\ ev' = EvIdle /\ cmd'[Gui] = CmdIdle /\ \A s \in Slots : dl'[s] = DlIdle
    BY <1>1, GuiIsClient DEF Lost, LinkLost, Restart, store
  <2>2. /\ EvIdle.pc = "idle" /\ EvIdle.out = <<>> /\ CmdIdle.pc = "idle"
        /\ CmdIdle.out = <<>> /\ DlIdle.pc = "idle"
    BY DEF EvIdle, CmdIdle, DlIdle
  <2>3. Decided' = {}
    BY <2>1, <2>2 DEF Decided
  <2>4. Orderly'
    BY <1>0, <2>1, <2>2, <2>3 DEF Orderly, HasContent
  <2>5. QueryHolds'
    BY <2>1 DEF QueryHolds
  <2> QED
    BY <2>1, <2>4, <2>5 DEF Ready
<1>2. CASE Connect
  <2>1. UNCHANGED <<vars, reqs, query, ghosts>>
    BY <1>2 DEF Connect, Reconnected
  <2>2. UNCHANGED <<messages, ev, cmd, dl, sock, gap, skewed>> /\ Decided' = Decided
    BY <2>1 DEF vars, ghosts, Decided
  <2>3. Orderly'
    <3>1. cmd'[Gui].pc \in {"idle", "put", "clear", "revoke", "reply"}
      BY <1>0, <2>2 DEF Orderly
    <3> QED
      BY <1>0, <2>2, <3>1, SameOrderly
  <2>4. QueryHolds'
    BY <1>0, <2>1, <2>2, RowsStay, SameQuery
  <2>5. Ready' => Leading'
    BY <1>0, <2>1, <2>2, SameLeading DEF Ready, AgreeInv
  <2> QED
    BY <2>3, <2>4, <2>5
<1>3. CASE FrameLost /\ UNCHANGED <<viewVars, ghosts>>
  <2>1. UNCHANGED <<messages, ev, cmd, dl, query>> /\ ~up /\ gap' = gap
    BY <1>3 DEF FrameLost, ClientRead, linkVars, store, ghosts
  <2>2. Decided' = Decided
    BY <2>1 DEF Decided
  <2>3. Orderly'
    <3>1. cmd'[Gui].pc \in {"idle", "put", "clear", "revoke", "reply"}
      BY <1>0, <2>1 DEF Orderly
    <3> QED
      BY <1>0, <2>1, <2>2, <3>1, SameOrderly
  <2>4. QueryHolds'
    BY <1>0, <2>1, RowsStay, SameQuery
  <2> QED
    BY <1>0, <2>1, <2>3, <2>4 DEF Ready
<1> QED
  BY <1>1, <1>2, <1>3

LEMMA InitAgrees == CInit => AgreeInv
<1> SUFFICES ASSUME CInit PROVE AgreeInv
  OBVIOUS
<1>1. EchoInv /\ ViewTyped
  BY InitEcho DEF EchoInv, ViewInv
<1>2. /\ query = NoQuery /\ list = <<>> /\ sock[Gui] = <<>> /\ messages = EmptyMessages
      /\ ev = EvIdle /\ cmd[Gui] = CmdIdle /\ \A s \in Slots : dl[s] = DlIdle
  BY GuiIsClient DEF CInit, Init, LinkInit
<1>3. /\ EvIdle.pc = "idle" /\ EvIdle.out = <<>> /\ CmdIdle.pc = "idle"
      /\ CmdIdle.out = <<>> /\ DlIdle.pc = "idle"
  BY DEF EvIdle, CmdIdle, DlIdle
<1>4. Decided = {}
  BY <1>2, <1>3 DEF Decided
<1>5. \A m \in Msgs : messages[m] = NoRow
  BY <1>2 DEF EmptyMessages
<1>6. Orderly
  BY <1>2, <1>3, <1>4, <1>5 DEF Orderly
<1>7. QueryHolds
  BY <1>2 DEF QueryHolds
<1>8. ASSUME NEW m \in Msgs, NEW z, Leads(sock[Gui], Turns(m), Front(m), z)
      PROVE  Agrees(m, z)
  <2>1. z = Front(m)
    BY <1>2, <1>8, LeadsNothing
  <2>2. list \in Seq(Entries) /\ Len(list) = 0
    BY <1>1, <1>2 DEF ViewTyped
  <2>3. Front(m) = {}
    <3>1. \A i \in 1..Len(list) : list[i].m # m
      BY <2>2
    <3>2. FrontIn(list, m) = {}
      BY <2>2, <3>1, FrontNone
    <3> QED
      BY <3>2 DEF Front
  <2> QED
    BY <1>5, <2>1, <2>3 DEF Agrees
<1> QED
  BY <1>1, <1>6, <1>7, <1>8 DEF AgreeInv, Leading

LEMMA AgreeKept ==
    ASSUME ~StoreMayFail
    PROVE  AgreeInv /\ [CNext]_cvars => AgreeInv'
<1> SUFFICES ASSUME AgreeInv, [CNext]_cvars PROVE AgreeInv'
  OBVIOUS
<1>0. EchoInv' /\ ViewTyped
  BY EchoKept DEF AgreeInv, EchoInv, ViewInv
<1>1. CASE DaemonStep
  BY <1>0, <1>1, DaemonAgrees DEF AgreeInv
<1>2. CASE ListMessages \/ ListReactions \/ ListReply
  BY <1>0, <1>2, ListAgreement DEF AgreeInv
<1>3. CASE Dispatch
  BY <1>0, <1>3, DispatchAgrees DEF AgreeInv
<1>4. CASE GuiRead
  BY <1>0, <1>4, ReadAgrees DEF AgreeInv
<1>5. CASE User
  BY <1>0, <1>5, UserAgrees DEF AgreeInv
<1>6. CASE Lost \/ Connect \/ (FrameLost /\ UNCHANGED <<viewVars, ghosts>>)
  BY <1>0, <1>6, LinkAgrees DEF AgreeInv
<1>7. CASE UNCHANGED cvars
  <2>1. UNCHANGED <<messages, ev, cmd, dl, sock, query, reqs, chat, list, gap, skewed>>
    BY <1>7 DEF cvars, vars, linkVars, viewVars, ghosts
  <2>2. Decided' = Decided
    BY <2>1 DEF Decided
  <2>3. cmd'[Gui].pc \in {"idle", "put", "clear", "revoke", "reply"}
    BY <2>1 DEF AgreeInv, Orderly
  <2>4. Orderly'
    BY <2>1, <2>2, <2>3, SameOrderly DEF AgreeInv
  <2>5. QueryHolds'
    BY <1>0, <2>1, RowsStay, SameQuery DEF AgreeInv
  <2>6. Ready' => Leading'
    BY <2>1, <2>2, SameLeading DEF Ready, AgreeInv
  <2> QED
    BY <1>0, <2>4, <2>5, <2>6 DEF AgreeInv
<1> QED
  BY <1>1, <1>2, <1>3, <1>4, <1>5, <1>6, <1>7 DEF CNext

\* What a reader of the screen can tell of two rows that agree.
LEMMA RightFaces ==
    ASSUME NEW m \in Msgs, NEW s \in MessageRow, messages[m] = s, NEW i \in Items,
           Right(m, i), Decided = {}
    PROVE  Face(i.row) = Face(s)
<1>1. i.row \in MessageRow /\ NoRow \notin MessageRow
  BY StoreAssumption DEF Items
<1>2. i.row.type = "revoked" <=> s.type = "revoked"
  BY DEF Right
<1>3. s.type # "revoked" => /\ i.row.type = s.type /\ i.row.text = s.text
                            /\ i.row.path = s.path /\ i.row.edited = s.edited
  BY DEF Right
<1> QED
  BY <1>1, <1>2, <1>3 DEF Face

\* Once nothing is under way the open conversation shows every stored message of its
\* chat as it is stored, and none that is not stored, whatever events, listings,
\* downloads, deletions and commands have crossed on the way; excepted are the
\* messages whose last announcement or listing was outdated when it was written.
\* It is assumed that the statements of the store succeed.
THEOREM ViewAgreesTheorem ==
    ASSUME ~StoreMayFail
    PROVE  CSpec => []ViewAgrees
<1>1. AgreeInv => ViewAgrees
  <2> SUFFICES ASSUME AgreeInv, Idle, ~gap, NEW m \in Msgs, m \notin skewed, ChatOf[m] = chat
               PROVE  IF messages[m] = NoRow THEN Shown(m) = {}
                      ELSE /\ Shown(m) # {}
                           /\ Face(list[First(Shown(m))].row) = Face(messages[m])
    BY DEF ViewAgrees
  <2>1. ViewTyped /\ sock[Gui] = <<>> /\ ~Loading
    BY DEF AgreeInv, EchoInv, ViewInv, Idle
  <2>2. Ready
    BY <2>1, LoadedSettled DEF Ready
  <2>3. Agrees(m, Front(m))
    BY <2>1, <2>2, LeadsNothing DEF AgreeInv, Leading
  <2>4. Decided = {}
    <3>1. ev = EvIdle /\ cmd[Gui] = CmdIdle /\ \A s \in Slots : dl[s] = DlIdle
      BY GuiIsClient DEF Idle, EngineQuiet
    <3>2. EvIdle.out = <<>> /\ CmdIdle.out = <<>> /\ DlIdle.pc = "idle"
      BY DEF EvIdle, CmdIdle, DlIdle
    <3> QED
      BY <3>1, <3>2 DEF Decided
  <2>5. Front(m) = IF Shown(m) = {} THEN {} ELSE {list[First(Shown(m))]}
    BY DEF Front, FrontIn, Shown
  <2>6. Front(m) \in SUBSET Items
    BY <2>1, FrontCases DEF Front, ViewTyped
  <2>7. CASE messages[m] = NoRow
    BY <2>3, <2>5, <2>7 DEF Agrees
  <2>8. CASE messages[m] # NoRow
    <3> DEFINE i == list[First(Shown(m))]
               s == messages[m]
    <3>1. Shown(m) # {} /\ Front(m) = {i}
      BY <2>3, <2>4, <2>5, <2>8 DEF Agrees
    <3>2. i \in Items /\ Right(m, i) /\ s \in MessageRow /\ messages[m] = s
      BY <2>1, <2>3, <2>6, <2>8, <3>1 DEF Agrees, ViewTyped, DaemonTyped, MessagesTable
    <3> HIDE DEF i, s
    <3>3. Face(i.row) = Face(s)
      BY <2>4, <3>2, RightFaces
    <3> QED
      BY <2>8, <3>1, <3>3 DEF i, s
  <2> QED
    BY <2>7, <2>8
<1> QED
  BY <1>1, InitAgrees, AgreeKept, PTL DEF CSpec
=============================================================================
