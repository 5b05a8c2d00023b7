--------------------------- MODULE ServicesProofs ---------------------------
(***************************************************************************)
(* Proofs about Services: the daemon comes to hide what the settings say,  *)
(* no unwanted read receipt leaves, and every fetched picture is shown.    *)
(* The first two rest on one fact about the commands on their way: the     *)
(* flags that will hold when they have been handled are those of the last  *)
(* set_privacy among them.  The third follows a picture from its file      *)
(* through the commands and frames that bring it to the list.              *)
(***************************************************************************)
EXTENDS Services, Queues, FiniteSetTheorems, TLAPS

Prefs == [receipts : BOOLEAN, online : BOOLEAN]

Reads == [method : {"mark_read"}, wanted : BOOLEAN, told : BOOLEAN]

Commands ==
    [method : {"set_privacy"}, prefs : Prefs] \cup Reads
    \cup [method : {"get_state", "list_chats"}]
    \cup [method : {"request_avatar"}, chat : People]
    \cup [method : {"set_typing"}, composing : BOOLEAN]

Frames == [ev : {"connection"}, online : BOOLEAN] \cup [ev : {"chats"}]
          \cup [ev : {"avatar"}, chat : People]

Events == [pc : {"idle", "connected"}] \cup [pc : {"emit"}, online : BOOLEAN]

\* What the argument needs to know of the types.
Typed ==
    /\ up \in BOOLEAN /\ pushed \in BOOLEAN /\ online \in BOOLEAN
    /\ prefs \in Prefs /\ hidden \in Prefs
    /\ reqs \in Seq(Commands) /\ sock \in Seq(Frames)
    /\ ev \in Events
    /\ receipts \subseteq Reads

\* h is what the daemon hides when it has handled the first n commands of q,
\* starting with h0.
InForce(q, h0, n, h) ==
    \/ /\ h = h0
       /\ \A k \in 1..n : q[k].method # "set_privacy"
    \/ \E k \in 1..n :
         /\ q[k].method = "set_privacy" /\ h = Hiding(q[k].prefs)
         /\ \A l \in (k + 1)..n : q[l].method # "set_privacy"

\* An unwanted receipt, asked for after the settings were pushed, will meet a
\* flag that stops it.
ReadsHidden(q, h0) ==
    \A i \in 1..Len(q) :
        q[i] \in Reads /\ q[i].told /\ ~q[i].wanted
            => \E h \in Prefs : h.receipts /\ InForce(q, h0, i - 1, h)

\* A frame that says "connected", and makes the GUI push, is on its way.
Coming ==
    \/ ev.pc = "connected"
    \/ ev.pc = "emit" /\ ev.online
    \/ \E i \in 1..Len(sock) : sock[i] = StateFrame(TRUE)

\* The goroutines of RequestAvatar know their chat.
FetchesTyped ==
    fetch \in [Fetchers -> [pc : {"idle"}]
                            \cup [pc : {"fetch", "write", "publish"}, chat : People]]

IInv ==
    /\ Typed
    /\ pushed => up /\ InForce(reqs, hidden, Len(reqs), Hiding(prefs))
    /\ up /\ online => pushed \/ Coming
    /\ ReadsHidden(reqs, hidden)
    /\ ReceiptsRespected

-----------------------------------------------------------------------------
(* Sequences of commands.                                                  *)

\* InForce looks at the first n commands only.
LEMMA SamePrefix ==
    ASSUME NEW q, NEW r, NEW n \in Nat, NEW h0, NEW h,
           \A k \in 1..n : q[k] = r[k], InForce(q, h0, n, h)
    PROVE  InForce(r, h0, n, h)
BY DEF InForce

\* Commands of other methods change nothing.
LEMMA OthersAppended ==
    ASSUME NEW q \in Seq(Commands), NEW s \in Seq(Commands), NEW h0, NEW h,
           \A i \in 1..Len(s) : s[i].method # "set_privacy",
           InForce(q, h0, Len(q), h)
    PROVE  InForce(q \o s, h0, Len(q \o s), h)
<1>1. /\ Len(q \o s) = Len(q) + Len(s) /\ Len(q) \in Nat /\ Len(s) \in Nat
      /\ \A k \in 1..Len(q) : (q \o s)[k] = q[k]
      /\ \A k \in (Len(q) + 1)..Len(q \o s) : (q \o s)[k] = s[k - Len(q)]
  OBVIOUS
<1>2. \A k \in (Len(q) + 1)..Len(q \o s) : (q \o s)[k].method # "set_privacy"
  <2> TAKE k \in (Len(q) + 1)..Len(q \o s)
  <2>1. k - Len(q) \in 1..Len(s)
    BY <1>1
  <2> QED
    BY <1>1, <2>1
<1>3. CASE h = h0 /\ \A k \in 1..Len(q) : q[k].method # "set_privacy"
  <2>1. \A k \in 1..Len(q \o s) : (q \o s)[k].method # "set_privacy"
    <3> TAKE k \in 1..Len(q \o s)
    <3>1. CASE k \in 1..Len(q)
      BY <1>1, <1>3, <3>1
    <3>2. CASE k \in (Len(q) + 1)..Len(q \o s)
      BY <1>2, <3>2
    <3> QED
      BY <1>1, <3>1, <3>2
  <2> QED
    BY <1>3, <2>1 DEF InForce
<1>4. ASSUME NEW k \in 1..Len(q), q[k].method = "set_privacy",
             h = Hiding(q[k].prefs),
             \A l \in (k + 1)..Len(q) : q[l].method # "set_privacy"
      PROVE  InForce(q \o s, h0, Len(q \o s), h)
  <2>1. k \in 1..Len(q \o s) /\ (q \o s)[k] = q[k]
    BY <1>1
  <2>2. \A l \in (k + 1)..Len(q \o s) : (q \o s)[l].method # "set_privacy"
    <3> TAKE l \in (k + 1)..Len(q \o s)
    <3>1. CASE l \in (k + 1)..Len(q)
      BY <1>1, <1>4, <3>1
    <3>2. CASE l \in (Len(q) + 1)..Len(q \o s)
      BY <1>2, <3>2
    <3> QED
      BY <1>1, <3>1, <3>2
  <2> QED
    BY <1>4, <2>1, <2>2 DEF InForce
<1> QED
  BY <1>3, <1>4 DEF InForce

\* A push at the head of what is appended decides.
LEMMA PushAppended ==
    ASSUME NEW q \in Seq(Commands), NEW s \in Seq(Commands), NEW h0,
           NEW p \in Prefs, s # <<>>, s[1] = PrivacyReq(p),
           \A i \in 2..Len(s) : s[i].method # "set_privacy"
    PROVE  InForce(q \o s, h0, Len(q \o s), Hiding(p))
<1> DEFINE n == Len(q) + 1
<1>1. /\ Len(q \o s) = Len(q) + Len(s) /\ Len(q) \in Nat /\ Len(s) \in Nat
      /\ Len(s) >= 1
  OBVIOUS
<1>2. n \in 1..Len(q \o s) /\ (q \o s)[n] = s[1]
  BY <1>1
<1>3. (q \o s)[n].method = "set_privacy" /\ (q \o s)[n].prefs = p
  BY <1>2 DEF PrivacyReq
<1>4. \A l \in (n + 1)..Len(q \o s) : (q \o s)[l].method # "set_privacy"
  <2> TAKE l \in (n + 1)..Len(q \o s)
  <2>1. l - Len(q) \in 2..Len(s) /\ (q \o s)[l] = s[l - Len(q)]
    BY <1>1
  <2> QED
    BY <2>1
<1> QED
  BY <1>2, <1>3, <1>4 DEF InForce

\* The flags after the first command has been handled.
After(q, h0) ==
    IF Head(q).method = "set_privacy" THEN Hiding(Head(q).prefs) ELSE h0

\* Handling the first command does not change what the others will find.
LEMMA HeadTaken ==
    ASSUME NEW q \in Seq(Commands), q # <<>>, NEW h0, NEW h,
           NEW n \in 1..Len(q), InForce(q, h0, n, h)
    PROVE  InForce(Tail(q), After(q, h0), n - 1, h)
<1>1. /\ Len(q) \in Nat /\ Head(q) = q[1] /\ Len(Tail(q)) = Len(q) - 1
      /\ \A k \in 1..(Len(q) - 1) : Tail(q)[k] = q[k + 1]
  OBVIOUS
<1>2. CASE h = h0 /\ \A k \in 1..n : q[k].method # "set_privacy"
  <2>1. After(q, h0) = h0
    BY <1>1, <1>2 DEF After
  <2>2. \A k \in 1..(n - 1) : Tail(q)[k].method # "set_privacy"
    <3> TAKE k \in 1..(n - 1)
    <3>1. k + 1 \in 1..n /\ Tail(q)[k] = q[k + 1]
      BY <1>1
    <3> QED
      BY <1>2, <3>1
  <2> QED
    BY <1>2, <2>1, <2>2 DEF InForce
<1>3. ASSUME NEW k \in 1..n, q[k].method = "set_privacy", h = Hiding(q[k].prefs),
             \A l \in (k + 1)..n : q[l].method # "set_privacy"
      PROVE  InForce(Tail(q), After(q, h0), n - 1, h)
  <2>1. \A l \in k..(n - 1) : Tail(q)[l].method # "set_privacy"
    <3> TAKE l \in k..(n - 1)
    <3>1. l + 1 \in (k + 1)..n /\ Tail(q)[l] = q[l + 1]
      BY <1>1
    <3> QED
      BY <1>3, <3>1
  <2>2. CASE k = 1
    <3>1. After(q, h0) = h
      BY <1>1, <1>3, <2>2 DEF After
    <3> QED
      BY <2>1, <2>2, <3>1 DEF InForce
  <2>3. CASE k # 1
    <3>1. /\ k - 1 \in 1..(n - 1) /\ Tail(q)[k - 1] = q[k]
          /\ (k - 1) + 1 = k
      BY <1>1, <2>3
    <3> QED
      BY <1>3, <2>1, <3>1 DEF InForce
  <2> QED
    BY <2>2, <2>3
<1> QED
  BY <1>2, <1>3 DEF InForce

\* The reads on their way stay hidden when other commands follow them, ...
LEMMA ReadsAppended ==
    ASSUME NEW q \in Seq(Commands), NEW s \in Seq(Commands), NEW h0,
           ReadsHidden(q, h0),
           \A i \in 1..Len(s) : s[i] \in Reads /\ s[i].told /\ ~s[i].wanted
               => i = 1 /\ \E h \in Prefs : h.receipts /\ InForce(q, h0, Len(q), h)
    PROVE  ReadsHidden(q \o s, h0)
<1>1. /\ Len(q \o s) = Len(q) + Len(s) /\ Len(q) \in Nat /\ Len(s) \in Nat
      /\ \A k \in 1..Len(q) : (q \o s)[k] = q[k]
      /\ \A k \in (Len(q) + 1)..Len(q \o s) : (q \o s)[k] = s[k - Len(q)]
  OBVIOUS
<1> SUFFICES ASSUME NEW i \in 1..Len(q \o s), (q \o s)[i] \in Reads,
                    (q \o s)[i].told, ~(q \o s)[i].wanted
             PROVE  \E h \in Prefs : h.receipts /\ InForce(q \o s, h0, i - 1, h)
  BY DEF ReadsHidden
<1>2. CASE i \in 1..Len(q)
  <2>1. PICK h \in Prefs : h.receipts /\ InForce(q, h0, i - 1, h)
    BY <1>1, <1>2 DEF ReadsHidden
  <2>2. i - 1 \in Nat /\ \A k \in 1..(i - 1) : q[k] = (q \o s)[k]
    BY <1>1, <1>2
  <2>3. InForce(q \o s, h0, i - 1, h)
    BY <2>1, <2>2, SamePrefix
  <2> QED
    BY <2>1, <2>3
<1>3. CASE i \in (Len(q) + 1)..Len(q \o s)
  <2>1. i - Len(q) \in 1..Len(s) /\ (q \o s)[i] = s[i - Len(q)]
    BY <1>1, <1>3
  <2>2. i - Len(q) = 1
    BY <2>1
  <2>3. PICK h \in Prefs : h.receipts /\ InForce(q, h0, Len(q), h)
    BY <2>1
  <2>4. InForce(q \o s, h0, Len(q), h)
    BY <1>1, <2>3, SamePrefix
  <2> QED
    BY <1>1, <2>2, <2>3, <2>4
<1> QED
  BY <1>1, <1>2, <1>3

\* ... and when the first command has been handled.
LEMMA ReadsTaken ==
    ASSUME NEW q \in Seq(Commands), q # <<>>, NEW h0, ReadsHidden(q, h0)
    PROVE  ReadsHidden(Tail(q), After(q, h0))
<1>1. /\ Len(q) \in Nat /\ Len(Tail(q)) = Len(q) - 1
      /\ \A k \in 1..(Len(q) - 1) : Tail(q)[k] = q[k + 1]
  OBVIOUS
<1> SUFFICES ASSUME NEW i \in 1..Len(Tail(q)), Tail(q)[i] \in Reads,
                    Tail(q)[i].told, ~Tail(q)[i].wanted
             PROVE  \E h \in Prefs :
                        h.receipts /\ InForce(Tail(q), After(q, h0), i - 1, h)
  BY DEF ReadsHidden
<1>2. i + 1 \in 1..Len(q) /\ i \in 1..Len(q) /\ q[i + 1] = Tail(q)[i]
      /\ (i + 1) - 1 = i
  BY <1>1
<1>3. PICK h \in Prefs : h.receipts /\ InForce(q, h0, i, h)
  BY <1>2 DEF ReadsHidden
<1>4. InForce(Tail(q), After(q, h0), i - 1, h)
  BY <1>2, <1>3, HeadTaken
<1> QED
  BY <1>3, <1>4

-----------------------------------------------------------------------------
(* The inductive invariant.                                                *)

LEMMA CommandsTyped ==
    /\ \A p \in Prefs : PrivacyReq(p) \in Commands /\ Hiding(p) \in Prefs
    /\ \A b \in BOOLEAN : TypingReq(b) \in Commands
    /\ StateReq \in Commands /\ ChatsReq \in Commands
    /\ \A j \in People : AvatarReq(j) \in Commands
    /\ Typed => ReadReq \in Reads /\ ReadReq \in Commands
    /\ \A b \in BOOLEAN : StateFrame(b) \in Frames
    /\ ChatsFrame \in Frames
    /\ \A j \in People : AvatarFrame(j) \in Frames
<1>1. \A p \in Prefs : PrivacyReq(p) \in Commands /\ Hiding(p) \in Prefs
  BY DEF PrivacyReq, Commands, Hiding, Prefs
<1>2. \A b \in BOOLEAN : TypingReq(b) \in Commands
  BY DEF TypingReq, Commands
<1>3. StateReq \in Commands /\ ChatsReq \in Commands
  BY DEF StateReq, ChatsReq, Commands
<1>4. \A j \in People : AvatarReq(j) \in Commands
  BY DEF AvatarReq, Commands
<1>5. Typed => ReadReq \in Reads /\ ReadReq \in Commands
  BY DEF Typed, ReadReq, Reads, Commands, Prefs
<1>6. /\ \A b \in BOOLEAN : StateFrame(b) \in Frames
      /\ ChatsFrame \in Frames
      /\ \A j \in People : AvatarFrame(j) \in Frames
  BY DEF StateFrame, ChatsFrame, AvatarFrame, Frames
<1> QED
  BY <1>1, <1>2, <1>3, <1>4, <1>5, <1>6

\* The requests for pictures are commands, and none of them is a push.
LEMMA PictureRequestsTyped ==
    ASSUME NEW s \in PictureRequests
    PROVE  /\ s \in Seq(Commands)
           /\ \A i \in 1..Len(s) : s[i].method = "request_avatar"
<1>1. Cardinality(People) \in Nat
  BY ServicesAssumption, FS_CardinalityType
<1>2. s \in [1..Cardinality(People) -> {AvatarReq(j) : j \in People}]
  BY DEF PictureRequests
<1>3. \A i \in 1..Cardinality(People) : /\ s[i] \in Commands
                                         /\ s[i].method = "request_avatar"
  BY <1>2, CommandsTyped DEF AvatarReq
<1>4. s \in [1..Cardinality(People) -> Commands]
  BY <1>2, <1>3
<1>5. s \in Seq(Commands) /\ Len(s) = Cardinality(People)
  BY <1>1, <1>4
<1> QED
  BY <1>3, <1>5

LEMMA InitHolds == Init => IInv
<1> SUFFICES ASSUME Init PROVE IInv
  OBVIOUS
<1>1. reqs \in Seq(Commands) /\ sock \in Seq(Frames)
  <2>1. \A r \in Commands : <<r>> \in Seq(Commands)
    OBVIOUS
  <2>2. \A f \in Frames : <<f>> \in Seq(Frames)
    OBVIOUS
  <2>3. StateReq \in Commands /\ StateFrame(FALSE) \in Frames
    BY CommandsTyped
  <2> QED
    BY <2>1, <2>2, <2>3 DEF Init
<1>2. hidden \in Prefs /\ ev \in Events /\ prefs \in Prefs
  BY DEF Init, Prefs, NothingHidden, Events, Idle
<1>3. Typed
  BY <1>1, <1>2 DEF Init, Typed
<1>4. ReadsHidden(reqs, hidden)
  BY DEF Init, ReadsHidden, Reads, StateReq
<1>5. ReceiptsRespected
  BY DEF Init, ReceiptsRespected
<1> QED
  BY <1>3, <1>4, <1>5 DEF Init, IInv

-----------------------------------------------------------------------------
(* The shapes of steps.                                                    *)

\* A step that touches neither commands nor flags nor settings.
LEMMA Kept ==
    ASSUME IInv, Typed', UNCHANGED <<up, prefs, pushed, reqs, hidden, receipts>>,
           up /\ online' => pushed \/ Coming'
    PROVE  IInv'
BY DEF IInv, ReceiptsRespected

\* The GUI sends commands, at most the first of them a push or a read.
LEMMA Sending ==
    ASSUME IInv, Typed', UNCHANGED <<up, hidden, receipts>>,
           NEW cmds \in Seq(Commands), reqs' = Sent(cmds),
           \/ /\ \A i \in 1..Len(cmds) : cmds[i].method # "set_privacy"
              /\ UNCHANGED <<prefs, pushed>>
           \/ /\ cmds # <<>> /\ cmds[1] = PrivacyReq(prefs')
              /\ \A i \in 2..Len(cmds) : cmds[i].method # "set_privacy"
              /\ pushed' = (pushed \/ up),
           \A i \in 1..Len(cmds) : cmds[i] \in Reads
               => i = 1 /\ cmds[i].told = pushed /\ cmds[i].wanted = prefs.receipts,
           up /\ online' => pushed' \/ Coming'
    PROVE  IInv'
<1>0. /\ reqs \in Seq(Commands) /\ prefs \in Prefs /\ prefs' \in Prefs
      /\ up \in BOOLEAN /\ pushed \in BOOLEAN
      /\ ReadsHidden(reqs, hidden)
      /\ pushed => up /\ InForce(reqs, hidden, Len(reqs), Hiding(prefs))
  BY DEF IInv, Typed
<1>1. ReceiptsRespected'
  BY DEF IInv, ReceiptsRespected
<1>2. CASE ~up
  <2>1. ~pushed /\ ~pushed' /\ reqs' = reqs
    BY <1>0, <1>2 DEF Sent
  <2> QED
    BY <1>0, <1>1, <1>2, <2>1 DEF IInv
<1>3. CASE up
  <2>1. reqs' = reqs \o cmds
    BY <1>3 DEF Sent
  <2>2. pushed' => InForce(reqs', hidden', Len(reqs'), Hiding(prefs'))
    <3>1. CASE /\ \A i \in 1..Len(cmds) : cmds[i].method # "set_privacy"
               /\ UNCHANGED <<prefs, pushed>>
      BY <1>0, <2>1, <3>1, OthersAppended
    <3>2. CASE /\ cmds # <<>> /\ cmds[1] = PrivacyReq(prefs')
               /\ \A i \in 2..Len(cmds) : cmds[i].method # "set_privacy"
      BY <1>0, <2>1, <3>2, PushAppended
    <3> QED
      BY <3>1, <3>2
  <2>3. ReadsHidden(reqs', hidden')
    <3>1. ASSUME NEW i \in 1..Len(cmds), cmds[i] \in Reads, cmds[i].told,
                 ~cmds[i].wanted
          PROVE  i = 1 /\ \E h \in Prefs : /\ h.receipts
                                          /\ InForce(reqs, hidden, Len(reqs), h)
      <4>1. i = 1 /\ pushed /\ ~prefs.receipts
        BY <3>1
      <4>2. Hiding(prefs) \in Prefs /\ Hiding(prefs).receipts
        BY <1>0, <4>1 DEF Hiding, Prefs
      <4> QED
        BY <1>0, <4>1, <4>2
    <3>2. ReadsHidden(reqs \o cmds, hidden)
      BY <1>0, <3>1, ReadsAppended
    <3> QED
      BY <2>1, <3>2
  <2> QED
    BY <1>1, <1>3, <2>2, <2>3 DEF IInv
<1> QED
  BY <1>0, <1>2, <1>3

\* The daemon handles a command.
LEMMA Taking ==
    ASSUME IInv, Typed', UNCHANGED <<up, prefs, pushed>>, reqs # <<>>,
           reqs' = Tail(reqs), hidden' = After(reqs, hidden), ReceiptsRespected',
           up /\ online' => pushed \/ Coming'
    PROVE  IInv'
<1>0. /\ reqs \in Seq(Commands) /\ ReadsHidden(reqs, hidden)
      /\ pushed => up /\ InForce(reqs, hidden, Len(reqs), Hiding(prefs))
  BY DEF IInv, Typed
<1>1. Len(reqs) \in 1..Len(reqs) /\ Len(Tail(reqs)) = Len(reqs) - 1
  BY <1>0
<1>2. pushed => InForce(reqs', hidden', Len(reqs'), Hiding(prefs))
  BY <1>0, <1>1, HeadTaken
<1>3. ReadsHidden(reqs', hidden')
  BY <1>0, ReadsTaken
<1> QED
  BY <1>0, <1>2, <1>3 DEF IInv

-----------------------------------------------------------------------------
(* The steps.                                                              *)

LEMMA TailOf ==
    ASSUME NEW S, NEW q \in Seq(S), q # <<>>
    PROVE  /\ Len(q) \in Nat /\ Head(q) = q[1] /\ Head(q) \in S
           /\ Tail(q) \in Seq(S) /\ Len(Tail(q)) = Len(q) - 1
           /\ \A i \in 2..Len(q) : /\ i - 1 \in 1..Len(Tail(q))
                                   /\ Tail(q)[i - 1] = q[i]
OBVIOUS

LEMMA GuiReadHolds == ASSUME IInv, GuiRead PROVE IInv'
<1> DEFINE f == Head(sock)
<1>0. /\ sock \in Seq(Frames) /\ sock # <<>> /\ f \in Frames
      /\ Tail(sock) \in Seq(Frames) /\ up
      /\ reqs \in Seq(Commands) /\ prefs \in Prefs /\ pushed \in BOOLEAN
  BY DEF IInv, Typed, GuiRead
<1>1. /\ sock' = Tail(sock) /\ ev' = ev /\ prefs' = prefs
      /\ UNCHANGED <<up, hidden, receipts, online>>
  BY DEF GuiRead, daemon, world
<1>2. f # StateFrame(TRUE) /\ Coming => Coming'
  <2> SUFFICES ASSUME f # StateFrame(TRUE),
                      NEW i \in 1..Len(sock), sock[i] = StateFrame(TRUE)
               PROVE  \E k \in 1..Len(Tail(sock)) : Tail(sock)[k] = StateFrame(TRUE)
    BY <1>1 DEF Coming
  <2>1. i \in 2..Len(sock)
    <3>1. Head(sock) = sock[1] /\ Len(sock) \in Nat
      BY <1>0, TailOf
    <3>2. i # 1
      BY <3>1
    <3> QED
      BY <3>1, <3>2
  <2>2. i - 1 \in 1..Len(Tail(sock)) /\ Tail(sock)[i - 1] = sock[i]
    BY <1>0, <2>1, TailOf
  <2> QED
    BY <2>2
<1>3. \A cmds \in Seq(Commands) : reqs' = Sent(cmds) => reqs' \in Seq(Commands)
  BY <1>0 DEF Sent
<1>4. CASE f.ev = "connection" /\ f.online /\ OnConnectionState(f.online)
  <2> DEFINE cmds == <<PrivacyReq(prefs), ChatsReq>>
  <2>1. reqs' = Sent(cmds) /\ pushed'
    BY <1>4 DEF OnConnectionState
  <2>2. cmds \in Seq(Commands)
    BY <1>0, CommandsTyped
  <2>3. Typed'
    BY <1>0, <1>1, <1>3, <2>1, <2>2 DEF IInv, Typed
  <2>4. cmds # <<>> /\ cmds[1] = PrivacyReq(prefs') /\ Len(cmds) = 2
        /\ cmds[2] = ChatsReq
    BY <1>1
  <2>5. \A i \in 2..Len(cmds) : cmds[i].method # "set_privacy"
    BY <2>4 DEF ChatsReq
  <2>6. \A i \in 1..Len(cmds) : cmds[i] \notin Reads
    BY <2>4 DEF ChatsReq, PrivacyReq, Reads
  <2>7. pushed' = (pushed \/ up)
    BY <1>0, <2>1, <2>3 DEF Typed
  <2> HIDE DEF cmds
  <2> QED
    BY <1>1, <2>1, <2>2, <2>3, <2>4, <2>5, <2>6, <2>7, Sending
<1>5. CASE f.ev = "connection" /\ ~f.online /\ OnConnectionState(f.online)
  <2> DEFINE cmds == <<ChatsReq>>
  <2>1. reqs' = Sent(cmds) /\ pushed' = pushed
    BY <1>5 DEF OnConnectionState
  <2>2. cmds \in Seq(Commands)
    BY CommandsTyped
  <2>3. Typed'
    BY <1>0, <1>1, <1>3, <2>1, <2>2 DEF IInv, Typed
  <2>4. f # StateFrame(TRUE)
    BY <1>5 DEF StateFrame
  <2>5. up /\ online' => pushed' \/ Coming'
    BY <1>1, <1>2, <2>1, <2>4 DEF IInv
  <2>6. \A i \in 1..Len(cmds) : cmds[i].method # "set_privacy" /\ cmds[i] \notin Reads
    BY DEF ChatsReq, Reads
  <2> HIDE DEF cmds
  <2> QED
    BY <1>1, <2>1, <2>2, <2>3, <2>5, <2>6, Sending
<1>6. CASE f.ev = "chats" /\ OnChats /\ UNCHANGED pushed
  <2>1. PICK cmds \in PictureRequests : reqs' = Sent(cmds)
    BY <1>6 DEF OnChats
  <2>2. /\ cmds \in Seq(Commands)
        /\ \A i \in 1..Len(cmds) : cmds[i].method = "request_avatar"
    BY PictureRequestsTyped
  <2>3. Typed'
    BY <1>0, <1>1, <1>3, <1>6, <2>1, <2>2 DEF IInv, Typed
  <2>4. f # StateFrame(TRUE)
    BY <1>6 DEF StateFrame
  <2>5. up /\ online' => pushed' \/ Coming'
    BY <1>1, <1>2, <1>6, <2>4 DEF IInv
  <2>6. \A i \in 1..Len(cmds) : cmds[i].method # "set_privacy" /\ cmds[i] \notin Reads
    BY <2>2 DEF Reads
  <2> QED
    BY <1>1, <1>6, <2>1, <2>2, <2>3, <2>5, <2>6, Sending
<1>7. CASE f.ev = "avatar" /\ OnAvatar(f.chat) /\ UNCHANGED <<reqs, pushed>>
  <2>1. Typed'
    BY <1>0, <1>1, <1>7 DEF IInv, Typed
  <2>2. f # StateFrame(TRUE)
    BY <1>7 DEF StateFrame
  <2>3. up /\ online' => pushed \/ Coming'
    BY <1>1, <1>2, <2>2 DEF IInv
  <2> QED
    BY <1>1, <1>7, <2>1, <2>3, Kept
<1> QED
  BY <1>0, <1>4, <1>5, <1>6, <1>7 DEF GuiRead, OnConnectionState

\* What the user does sends one command.
LEMMA UserHolds == ASSUME IInv, User PROVE IInv'
<1>0. /\ reqs \in Seq(Commands) /\ prefs \in Prefs /\ pushed \in BOOLEAN
      /\ up \in BOOLEAN /\ Typed
  BY DEF IInv, Typed
<1>1. /\ UNCHANGED <<up, hidden, receipts, online, sock, ev>>
      /\ \E r : reqs' = Sent(<<r>>)
  BY DEF User, ChangeSetting, Type, ReadMessages, Refresh, gui, daemon, world
<1>2. Coming => Coming'
  BY <1>1 DEF Coming
<1>3. \A r \in Commands : /\ <<r>> \in Seq(Commands) /\ <<r>> # <<>>
                          /\ \A i \in 1..Len(<<r>>) : i = 1 /\ <<r>>[i] = r
                          /\ <<r>>[1] = r
                          /\ \A i \in 2..Len(<<r>>) : FALSE
                          /\ reqs' = Sent(<<r>>) => reqs' \in Seq(Commands)
  BY <1>0 DEF Sent
<1>4. ASSUME NEW field \in {"receipts", "online"}, ChangeSetting(field) PROVE IInv'
  <2>1. /\ prefs' \in Prefs /\ reqs' = Sent(<<PrivacyReq(prefs')>>)
        /\ pushed' = (pushed \/ up)
    BY <1>0, <1>4 DEF ChangeSetting, Prefs
  <2>2. PrivacyReq(prefs') \in Commands /\ PrivacyReq(prefs') \notin Reads
    BY <2>1, CommandsTyped DEF PrivacyReq, Reads
  <2>3. Typed'
    BY <1>0, <1>1, <1>3, <2>1, <2>2 DEF Typed
  <2>4. up /\ online' => pushed' \/ Coming'
    BY <2>1
  <2> DEFINE cmds == <<PrivacyReq(prefs')>>
  <2>5. /\ cmds \in Seq(Commands) /\ cmds # <<>> /\ cmds[1] = PrivacyReq(prefs')
        /\ \A i \in 2..Len(cmds) : cmds[i].method # "set_privacy"
        /\ \A i \in 1..Len(cmds) : cmds[i] \notin Reads
        /\ reqs' = Sent(cmds)
    BY <1>3, <2>1, <2>2
  <2> HIDE DEF cmds
  <2> QED
    BY <1>1, <2>1, <2>3, <2>4, <2>5, Sending
<1>5. ASSUME NEW r \in Commands, r.method # "set_privacy",
             r \in Reads => r.told = pushed /\ r.wanted = prefs.receipts,
             reqs' = Sent(<<r>>), UNCHANGED <<prefs, pushed>>
      PROVE  IInv'
  <2>1. Typed'
    BY <1>0, <1>1, <1>3, <1>5 DEF Typed
  <2>2. up /\ online' => pushed' \/ Coming'
    BY <1>1, <1>2, <1>5 DEF IInv
  <2> DEFINE cmds == <<r>>
  <2>3. /\ cmds \in Seq(Commands) /\ reqs' = Sent(cmds)
        /\ \A i \in 1..Len(cmds) : cmds[i].method # "set_privacy"
        /\ \A i \in 1..Len(cmds) : cmds[i] \in Reads
               => i = 1 /\ cmds[i].told = pushed /\ cmds[i].wanted = prefs.receipts
    BY <1>3, <1>5
  <2> HIDE DEF cmds
  <2> QED
    BY <1>1, <1>5, <2>1, <2>2, <2>3, Sending
<1>6. ASSUME NEW b \in BOOLEAN, Type(b) PROVE IInv'
  <2>1. TypingReq(b) \in Commands /\ TypingReq(b) \notin Reads
        /\ TypingReq(b).method # "set_privacy"
    BY CommandsTyped DEF TypingReq, Reads
  <2> QED
    BY <1>5, <1>6, <2>1 DEF Type
<1>7. CASE ReadMessages
  <2>1. /\ ReadReq \in Commands /\ ReadReq.method # "set_privacy"
        /\ ReadReq.told = pushed /\ ReadReq.wanted = prefs.receipts
    BY <1>0, CommandsTyped DEF ReadReq
  <2> QED
    BY <1>5, <1>7, <2>1 DEF ReadMessages, gui
<1>8. CASE Refresh
  <2>1. ChatsReq \in Commands /\ ChatsReq \notin Reads
        /\ ChatsReq.method # "set_privacy"
    BY CommandsTyped DEF ChatsReq, Reads
  <2> QED
    BY <1>5, <1>8, <2>1 DEF Refresh, gui
<1> QED
  BY <1>4, <1>6, <1>7, <1>8 DEF User

LEMMA AppendKeeps ==
    ASSUME NEW S, NEW q \in Seq(S), NEW e \in S
    PROVE  \A i \in 1..Len(q) : i \in 1..Len(Append(q, e)) /\ Append(q, e)[i] = q[i]
OBVIOUS

\* Whatever is written to the socket, a frame on its way stays there.
LEMMA FrameStays ==
    ASSUME NEW q \in Seq(Frames), NEW r, NEW f \in Frames, r = q \/ r = Append(q, f),
           \E i \in 1..Len(q) : q[i] = StateFrame(TRUE)
    PROVE  \E k \in 1..Len(r) : r[k] = StateFrame(TRUE)
<1>1. PICK i \in 1..Len(q) : q[i] = StateFrame(TRUE)
  OBVIOUS
<1>2. i \in 1..Len(r) /\ r[i] = q[i]
  BY AppendKeeps
<1> QED
  BY <1>1, <1>2

LEMMA ComingStays ==
    ASSUME Typed, Coming, ev' = ev, NEW f \in Frames,
           sock' = sock \/ sock' = Append(sock, f)
    PROVE  Coming'
<1>1. sock \in Seq(Frames)
  BY DEF Typed
<1>2. CASE \E i \in 1..Len(sock) : sock[i] = StateFrame(TRUE)
  <2>1. \E i \in 1..Len(sock') : sock'[i] = StateFrame(TRUE)
    BY <1>1, <1>2, FrameStays
  <2> QED
    BY <2>1 DEF Coming
<1> QED
  BY <1>2 DEF Coming

LEMMA SessionHolds == ASSUME IInv, Session PROVE IInv'
<1>0. /\ Typed
      /\ up /\ online => pushed \/ Coming
  BY DEF IInv
<1>1. CASE GoOnline
  <2>1. ev' \in Events /\ ev'.pc = "connected"
    BY <1>1 DEF GoOnline, Events
  <2>2. Typed'
    BY <1>0, <1>1, <2>1 DEF GoOnline, Typed, gui
  <2>3. Coming'
    BY <2>1 DEF Coming
  <2> QED
    BY <1>1, <2>2, <2>3, Kept DEF GoOnline, gui
<1>2. CASE GoOffline
  <2>1. ev' \in Events
    BY <1>2 DEF GoOffline, Events
  <2>2. Typed'
    BY <1>0, <1>2, <2>1 DEF GoOffline, Typed, gui
  <2> QED
    BY <1>2, <2>2, Kept DEF GoOffline, gui
<1>3. CASE HandleConnected
  <2>1. ev' \in Events /\ ev'.pc = "emit" /\ ev'.online
    BY <1>3 DEF HandleConnected, Events
  <2>2. Typed'
    BY <1>0, <1>3, <2>1 DEF HandleConnected, Typed, gui, world
  <2>3. Coming'
    BY <2>1 DEF Coming
  <2> QED
    BY <1>3, <2>2, <2>3, Kept DEF HandleConnected, gui, world
<1>4. CASE EmitState
  <2>1. ev \in Events /\ ev.pc = "emit" /\ ev' = Idle /\ sock \in Seq(Frames)
    BY <1>0, <1>4 DEF EmitState, Typed
  <2>2. ev.online \in BOOLEAN /\ ev' \in Events
    BY <2>1 DEF Events, Idle
  <2>3. StateFrame(ev.online) \in Frames
    BY <2>2, CommandsTyped
  <2>4. sock' \in Seq(Frames)
    BY <1>4, <2>1, <2>3 DEF EmitState, Emit
  <2>5. Typed'
    BY <1>0, <1>4, <2>2, <2>4 DEF EmitState, Typed, gui, world
  <2>6. up /\ Coming => Coming'
    <3> SUFFICES ASSUME up, Coming PROVE Coming'
      OBVIOUS
    <3>1. sock' = Append(sock, StateFrame(ev.online))
      BY <1>4 DEF EmitState, Emit
    <3>2. Len(sock') \in 1..Len(sock') /\ sock'[Len(sock')] = StateFrame(ev.online)
      BY <2>1, <3>1
    <3>3. CASE ev.online
      <4>1. StateFrame(ev.online) = StateFrame(TRUE)
        BY <2>2, <3>3
      <4> QED
        BY <3>2, <4>1 DEF Coming
    <3>4. CASE ~ev.online
      <4>1. \E i \in 1..Len(sock) : sock[i] = StateFrame(TRUE)
        BY <2>1, <3>4 DEF Coming
      <4>2. \E i \in 1..Len(sock') : sock'[i] = StateFrame(TRUE)
        BY <2>1, <2>3, <3>1, <4>1, FrameStays
      <4> QED
        BY <4>2 DEF Coming
    <3> QED
      BY <3>3, <3>4
  <2> QED
    BY <1>0, <1>4, <2>5, <2>6, Kept DEF EmitState, gui, world
<1>5. CASE SendPresence
  <2>1. Typed'
    BY <1>0, <1>5 DEF SendPresence, Typed, gui
  <2>2. Coming => Coming'
    BY <1>5 DEF SendPresence, Coming
  <2> QED
    BY <1>0, <1>5, <2>1, <2>2, Kept DEF SendPresence, gui
<1> QED
  BY <1>1, <1>2, <1>3, <1>4, <1>5 DEF Session

LEMMA WrittenTyped ==
    ASSUME Typed, NEW f \in Frames, sock' = sock \/ sock' = Append(sock, f)
    PROVE  sock' \in Seq(Frames)
BY DEF Typed

LEMMA CommandHolds == ASSUME IInv, Command PROVE IInv'
<1>0. /\ Typed
      /\ up /\ online => pushed \/ Coming
      /\ reqs \in Seq(Commands) /\ prefs \in Prefs /\ hidden \in Prefs
  BY DEF IInv, Typed
<1>1. /\ reqs # <<>> /\ reqs' = Tail(reqs)
      /\ UNCHANGED <<up, prefs, pushed, online, ev>>
  BY DEF Command, GetState, ListChats, SetPrivacy, MarkRead, SetTyping,
         RequestAvatar, Takes, gui, daemon, world
<1>2. Head(reqs) \in Commands /\ Tail(reqs) \in Seq(Commands)
  BY <1>0, <1>1, TailOf
<1>3. ASSUME NEW f \in Frames, sock' = sock \/ sock' = Append(sock, f),
             Head(reqs).method # "set_privacy", UNCHANGED <<hidden, receipts>>
      PROVE  IInv'
  <2>1. Typed'
    BY <1>0, <1>1, <1>2, <1>3, WrittenTyped DEF Typed
  <2>2. up /\ online' => pushed \/ Coming'
    BY <1>0, <1>1, <1>3, ComingStays
  <2>3. hidden' = After(reqs, hidden)
    BY <1>3 DEF After
  <2>4. ReceiptsRespected'
    BY <1>3 DEF IInv, ReceiptsRespected
  <2> QED
    BY <1>1, <2>1, <2>2, <2>3, <2>4, Taking
<1>4. CASE GetState
  <2>1. StateFrame(online) \in Frames
    BY <1>0, CommandsTyped DEF Typed
  <2> QED
    BY <1>3, <1>4, <2>1 DEF GetState, Takes, Answer, daemon, world
<1>5. CASE ListChats
  BY <1>3, <1>5, CommandsTyped DEF ListChats, Takes, Answer, daemon, world
<1>6. CASE SetPrivacy
  <2>1. Head(reqs).method = "set_privacy" /\ hidden' = Hiding(Head(reqs).prefs)
        /\ sock' = sock /\ receipts' = receipts
    BY <1>6 DEF SetPrivacy, Takes, world
  <2>2. Head(reqs).prefs \in Prefs
    BY <1>2, <2>1 DEF Commands, Reads
  <2>3. hidden' \in Prefs /\ hidden' = After(reqs, hidden)
    BY <2>1, <2>2, CommandsTyped DEF After
  <2>4. Typed'
    BY <1>0, <1>1, <1>2, <2>1, <2>3 DEF Typed
  <2>5. up /\ online' => pushed \/ Coming'
    BY <1>0, <1>1, <2>1 DEF Coming
  <2>6. ReceiptsRespected'
    BY <2>1 DEF IInv, ReceiptsRespected
  <2> QED
    BY <1>1, <2>3, <2>4, <2>5, <2>6, Taking
<1>7. CASE MarkRead
  <2>1. /\ Head(reqs).method = "mark_read" /\ sock' = sock /\ hidden' = hidden
    BY <1>7 DEF MarkRead, Takes, daemon
  <2>2. Head(reqs) \in Reads
    BY <1>2, <2>1 DEF Commands
  <2>3. receipts' \subseteq Reads
    BY <1>0, <1>7, <2>2 DEF MarkRead, Typed
  <2>4. Typed'
    BY <1>0, <1>1, <1>2, <2>1, <2>3 DEF Typed
  <2>5. up /\ online' => pushed \/ Coming'
    BY <1>0, <1>1, <2>1 DEF Coming
  <2>6. ~hidden.receipts => Head(reqs).wanted \/ ~Head(reqs).told
    <3> SUFFICES ASSUME Head(reqs).told, ~Head(reqs).wanted PROVE hidden.receipts
      OBVIOUS
    <3>1. 1 \in 1..Len(reqs) /\ Head(reqs) = reqs[1] /\ 1 - 1 = 0
      BY <1>0, <1>1, TailOf
    <3>2. PICK h \in Prefs : h.receipts /\ InForce(reqs, hidden, 0, h)
      BY <2>2, <3>1 DEF IInv, ReadsHidden
    <3>3. h = hidden
      BY <3>2 DEF InForce
    <3> QED
      BY <3>2, <3>3
  <2>7. ReceiptsRespected'
    BY <1>7, <2>6 DEF MarkRead, IInv, ReceiptsRespected
  <2>8. hidden' = After(reqs, hidden)
    BY <2>1 DEF After
  <2> QED
    BY <1>1, <2>4, <2>5, <2>7, <2>8, Taking
<1>8. CASE SetTyping
  <2>1. /\ Head(reqs).method # "set_privacy" /\ sock' = sock
        /\ UNCHANGED <<hidden, receipts>>
    BY <1>8 DEF SetTyping, Takes, daemon
  <2> QED
    BY <1>3, <2>1, CommandsTyped
<1>9. CASE RequestAvatar
  <2>1. Head(reqs).method = "request_avatar" /\ UNCHANGED <<hidden, receipts>>
    BY <1>9 DEF RequestAvatar, Takes, world
  <2>2. Head(reqs).chat \in People
    BY <1>2, <2>1 DEF Commands, Reads
  <2>3. AvatarFrame(Head(reqs).chat) \in Frames
    BY <2>2, CommandsTyped
  <2>4. sock' = sock \/ sock' = Append(sock, AvatarFrame(Head(reqs).chat))
    BY <1>9 DEF RequestAvatar, Emit
  <2> QED
    BY <1>3, <2>1, <2>3, <2>4
<1> QED
  BY <1>4, <1>5, <1>6, <1>7, <1>8, <1>9 DEF Command

LEMMA FetchHolds ==
    ASSUME IInv, NEW s \in Fetchers,
           FetchesTyped,
           FetchPicture(s) \/ WritePicture(s) \/ PublishPicture(s)
    PROVE  IInv'
<1>0. /\ Typed
      /\ up /\ online => pushed \/ Coming
  BY DEF IInv
<1>1. /\ UNCHANGED <<up, prefs, pushed, reqs, hidden, receipts, online, ev>>
      /\ sock' = sock \/ \E f \in Frames : sock' = Append(sock, f)
  <2>1. UNCHANGED <<up, prefs, pushed, reqs, hidden, receipts, online, ev>>
    BY DEF FetchPicture, WritePicture, PublishPicture, gui, world
  <2>2. CASE PublishPicture(s)
    <3>1. AvatarFrame(fetch[s].chat) \in Frames
      BY <2>2, CommandsTyped DEF PublishPicture, FetchesTyped
    <3> QED
      BY <2>1, <2>2, <3>1 DEF PublishPicture, Emit
  <2> QED
    BY <2>1, <2>2 DEF FetchPicture, WritePicture
<1>2. PICK f \in Frames : sock' = sock \/ sock' = Append(sock, f)
  BY <1>1, CommandsTyped
<1>3. Typed'
  BY <1>0, <1>1, <1>2, WrittenTyped DEF Typed
<1>4. up /\ online' => pushed \/ Coming'
  BY <1>0, <1>1, <1>2, ComingStays
<1> QED
  BY <1>1, <1>3, <1>4, Kept

LEMMA RestartHolds == ASSUME IInv, Restart PROVE IInv'
<1>1. /\ up' = FALSE /\ pushed' = FALSE /\ reqs' = <<>> /\ sock' = <<>>
      /\ hidden' = NothingHidden /\ ev' = Idle /\ online' = FALSE
      /\ UNCHANGED <<prefs, receipts>>
  BY DEF Restart
<1>2. hidden' \in Prefs /\ ev' \in Events
  BY <1>1 DEF NothingHidden, Prefs, Idle, Events
<1>3. Typed'
  <2>1. Typed /\ <<>> \in Seq(Commands) /\ <<>> \in Seq(Frames)
    BY DEF IInv
  <2> QED
    BY <1>1, <1>2, <2>1 DEF Typed
<1>4. ReadsHidden(reqs', hidden')
  BY <1>1 DEF ReadsHidden
<1> QED
  BY <1>1, <1>3, <1>4 DEF IInv, ReceiptsRespected

LEMMA ConnectHolds == ASSUME IInv, Connect PROVE IInv'
<1>1. /\ ~up /\ up' /\ sock' = <<StateFrame(online)>> /\ reqs' = <<StateReq>>
      /\ UNCHANGED <<prefs, pushed, hidden, ev, receipts, online>>
      /\ up' \in BOOLEAN
  BY DEF Connect, daemon, world
<1>2. Typed /\ ~pushed
  BY <1>1 DEF IInv
<1>3. \A r \in Commands : <<r>> \in Seq(Commands)
  OBVIOUS
<1>4. \A f \in Frames : <<f>> \in Seq(Frames)
  OBVIOUS
<1>5. StateFrame(online) \in Frames /\ StateReq \in Commands
  BY <1>2, CommandsTyped DEF Typed
<1>6. Typed'
  BY <1>1, <1>2, <1>3, <1>4, <1>5 DEF Typed
<1>7. online' => Coming'
  <2>1. 1 \in 1..Len(sock') /\ sock'[1] = StateFrame(online)
    BY <1>1
  <2> QED
    BY <1>1, <1>2, <2>1 DEF Coming, Typed
<1>8. ReadsHidden(reqs', hidden')
  BY <1>1 DEF ReadsHidden, Reads, StateReq
<1> QED
  BY <1>1, <1>2, <1>6, <1>7, <1>8 DEF IInv, ReceiptsRespected

LEMMA FetchesHold == ASSUME IInv, FetchesTyped, [Next]_vars PROVE FetchesTyped'
<1> DEFINE State == [pc : {"idle"}]
                    \cup [pc : {"fetch", "write", "publish"}, chat : People]
<1>0. Idle \in State /\ fetch \in [Fetchers -> State]
  BY DEF Idle, FetchesTyped
<1>1. CASE UNCHANGED fetch
  BY <1>1 DEF FetchesTyped
<1>2. CASE RequestAvatar
  <2>1. reqs \in Seq(Commands) /\ reqs # <<>>
        /\ Head(reqs).method = "request_avatar"
    BY <1>2 DEF RequestAvatar, Takes, IInv, Typed
  <2>2. Head(reqs) \in Commands
    BY <2>1, TailOf
  <2>3. Head(reqs).chat \in People
    BY <2>1, <2>2 DEF Commands, Reads
  <2>4. [pc |-> "fetch", chat |-> Head(reqs).chat] \in State
    BY <2>3
  <2> QED
    BY <1>0, <1>2, <2>4 DEF RequestAvatar, FetchesTyped
<1>3. ASSUME NEW s \in Fetchers,
             FetchPicture(s) \/ WritePicture(s) \/ PublishPicture(s)
      PROVE  FetchesTyped'
  <2>1. fetch[s] \in State /\ fetch[s].pc # "idle"
    BY <1>0, <1>3 DEF FetchPicture, WritePicture, PublishPicture
  <2>2. [fetch[s] EXCEPT !.pc = "write"] \in State
        /\ [fetch[s] EXCEPT !.pc = "publish"] \in State
    BY <2>1
  <2>3. \/ fetch' = [fetch EXCEPT ![s] = Idle]
        \/ fetch' = [fetch EXCEPT ![s] = [fetch[s] EXCEPT !.pc = "write"]]
        \/ fetch' = [fetch EXCEPT ![s] = [fetch[s] EXCEPT !.pc = "publish"]]
    BY <1>3 DEF FetchPicture, WritePicture, PublishPicture
  <2> QED
    BY <1>0, <2>2, <2>3 DEF FetchesTyped
<1>4. CASE Restart
  BY <1>0, <1>4 DEF Restart, FetchesTyped
<1>5. CASE GuiRead \/ User \/ Session \/ Connect \/ UNCHANGED vars
  <2>1. UNCHANGED fetch
    BY <1>5 DEF GuiRead, User, ChangeSetting, Type, ReadMessages, Refresh, Session,
       GoOnline, GoOffline, HandleConnected, EmitState, SendPresence, Connect,
       vars, daemon
  <2> QED
    BY <1>1, <2>1
<1>6. CASE GetState \/ ListChats \/ SetPrivacy \/ MarkRead \/ SetTyping
  <2>1. UNCHANGED fetch
    BY <1>6 DEF GetState, ListChats, SetPrivacy, MarkRead, SetTyping, daemon
  <2> QED
    BY <1>1, <2>1
<1> QED
  BY <1>2, <1>3, <1>4, <1>5, <1>6 DEF Next, Command

LEMMA NextHolds == ASSUME IInv, FetchesTyped, [Next]_vars PROVE IInv'
<1>1. CASE UNCHANGED vars
  <2>1. UNCHANGED <<up, prefs, pushed, reqs, hidden, receipts, sock, ev, online>>
    BY <1>1 DEF vars, gui, daemon, world
  <2>2. Typed' /\ (up /\ online' => pushed \/ Coming')
    BY <2>1 DEF IInv, Typed, Coming
  <2> QED
    BY <2>1, <2>2, Kept
<1> QED
  BY <1>1, GuiReadHolds, UserHolds, SessionHolds, CommandHolds, FetchHolds,
     RestartHolds, ConnectHolds DEF Next

LEMMA Inductive == Spec => [](IInv /\ FetchesTyped)
<1>1. Init => IInv /\ FetchesTyped
  <2>1. Init => FetchesTyped
    BY DEF Init, FetchesTyped, Idle
  <2> QED
    BY <2>1, InitHolds
<1>2. IInv /\ FetchesTyped /\ [Next]_vars => (IInv /\ FetchesTyped)'
  BY NextHolds, FetchesHold
<1> QED
  BY <1>1, <1>2, PTL DEF Spec

-----------------------------------------------------------------------------
(* The theorems.                                                           *)

\* Whenever the session is connected and nothing is under way, the daemon's
\* flags are what the settings say, for any number of chats, commands, changes
\* and restarts (Main.qml:94-114).
THEOREM FlagsTheorem == Spec => []FlagsAgree
<1>1. IInv => FlagsAgree
  <2> SUFFICES ASSUME IInv, Quiet, online PROVE hidden = Hiding(prefs)
    BY DEF FlagsAgree
  <2>1. ~Coming
    <3>1. sock = <<>> /\ ev.pc = "idle"
      BY DEF Quiet, Idle
    <3> QED
      BY <3>1 DEF Coming
  <2>2. pushed
    BY <2>1 DEF IInv, Quiet
  <2>3. InForce(reqs, hidden, 0, Hiding(prefs))
    BY <2>2 DEF IInv, Quiet
  <2> QED
    BY <2>3 DEF InForce
<1> QED
  BY <1>1, Inductive, PTL

\* No read receipt leaves that the user did not want when the messages were read,
\* once the GUI has told this daemon of the settings (engine.go:671-675).
THEOREM ReceiptsTheorem == Spec => []ReceiptsRespected
<1>1. IInv => ReceiptsRespected
  BY DEF IInv
<1> QED
  BY <1>1, Inductive, PTL

-----------------------------------------------------------------------------
(* The pictures.                                                           *)

\* The commands and frames that end in j's picture being shown: a state makes the
\* GUI ask for the list, and the list for the pictures.
Askers(j)  == {r \in Commands : \/ r.method \in {"get_state", "list_chats"}
                                \/ r.method = "request_avatar" /\ r.chat = j}
Shown(j)   == {f \in Frames : f.ev = "avatar" /\ f.chat = j}
Showers(j) == Shown(j) \cup {f \in Frames : f.ev \in {"connection", "chats"}}

Publishing(j) == \E s \in Fetchers : fetch[s].pc = "publish" /\ fetch[s].chat = j

Awaited(j) == Has(reqs, Askers(j)) \/ Has(sock, Showers(j)) \/ Publishing(j)

\* A fetched picture that is not shown is on its way, and nothing is announced
\* that has no file.
PictureInv ==
    /\ picture \in [People -> {"none", "partial", "complete"} \cup Fetchers]
    /\ rows \in [People -> {"absent", "plain", "picture"}]
    /\ ~up => reqs = <<>> /\ sock = <<>>
    /\ \A j \in People :
         /\ up /\ picture[j] = "complete" /\ rows[j] # "absent"
              => rows[j] = "picture" \/ Awaited(j)
         /\ rows[j] = "picture" \/ Has(sock, Shown(j)) => picture[j] # "none"
    /\ \A s \in Fetchers : fetch[s].pc \in {"write", "publish"}
                              => picture[fetch[s].chat] # "none"

\* A step that changes neither the list nor the directory.
LEMMA PicturesKept ==
    ASSUME PictureInv, UNCHANGED <<up, rows, picture, fetch>>,
           ~up => reqs' = <<>> /\ sock' = <<>>,
           \A j \in People : Awaited(j) => Awaited(j)',
           \A j \in People : Has(sock', Shown(j)) => Has(sock, Shown(j))
                                                      \/ picture[j] # "none"
    PROVE  PictureInv'
<1>1. \A j \in People : /\ picture'[j] = picture[j] /\ rows'[j] = rows[j]
                         /\ up' = up
  OBVIOUS
<1>2. ASSUME NEW j \in People
      PROVE  /\ up' /\ picture'[j] = "complete" /\ rows'[j] # "absent"
                  => rows'[j] = "picture" \/ Awaited(j)'
             /\ rows'[j] = "picture" \/ Has(sock', Shown(j)) => picture'[j] # "none"
  BY <1>1 DEF PictureInv
<1> QED
  BY <1>2 DEF PictureInv

LEMMA SentAsks ==
    ASSUME IInv, NEW cmds \in Seq(Commands), reqs' = Sent(cmds), NEW P,
           Has(reqs, P) \/ (up /\ Has(cmds, P))
    PROVE  Has(reqs', P)
<1>1. reqs \in Seq(Commands)
  BY DEF IInv, Typed
<1> QED
  BY <1>1, HasConcatenated DEF Sent

LEMMA GuiReadPictures == ASSUME IInv, FetchesTyped, PictureInv, GuiRead PROVE PictureInv'
<1> DEFINE f == Head(sock)
<1>1. /\ sock \in Seq(Frames) /\ sock # <<>> /\ f \in Frames /\ up
      /\ sock' = Tail(sock) /\ UNCHANGED <<up, fetch, picture>>
      /\ prefs \in Prefs
  BY DEF GuiRead, IInv, Typed, daemon
<1>2. \A P : Has(sock, P) <=> f \in P \/ Has(sock', P)
  BY <1>1, HasTaken
<1>3. \A j \in People : Publishing(j) => Publishing(j)'
  BY <1>1 DEF Publishing
<1>4. ASSUME NEW cmds \in Seq(Commands), reqs' = Sent(cmds), rows' = rows,
             \A j \in People : Has(cmds, Askers(j))
      PROVE  PictureInv'
  <2>1. \A j \in People : Awaited(j)'
    BY <1>1, <1>4, SentAsks DEF Awaited
  <2> QED
    BY <1>1, <1>2, <1>4, <2>1, PicturesKept
<1>5. CASE f.ev = "connection" /\ OnConnectionState(f.online) /\ UNCHANGED rows
  <2>1. PICK cmds \in {<<PrivacyReq(prefs), ChatsReq>>, <<ChatsReq>>} :
            reqs' = Sent(cmds)
    BY <1>5 DEF OnConnectionState
  <2>2. PrivacyReq(prefs) \in Commands /\ ChatsReq \in Commands
    BY <1>1, CommandsTyped
  <2>3. cmds \in Seq(Commands) /\ \E i \in 1..Len(cmds) : cmds[i] = ChatsReq
    <3>1. CASE cmds = <<ChatsReq>>
      BY <2>2, <3>1
    <3>2. CASE cmds = <<PrivacyReq(prefs), ChatsReq>>
      <4>1. Len(cmds) = 2 /\ cmds[2] = ChatsReq /\ 2 \in 1..2
        BY <3>2
      <4>2. cmds \in Seq(Commands)
        BY <2>2, <3>2
      <4> QED
        BY <4>1, <4>2
    <3> QED
      BY <2>1, <3>1, <3>2
  <2>4. \A j \in People : ChatsReq \in Askers(j)
    BY <2>2 DEF Askers, ChatsReq
  <2>5. \A j \in People : Has(cmds, Askers(j))
    BY <2>3, <2>4 DEF Has
  <2> QED
    BY <1>4, <1>5, <2>1, <2>3, <2>5
<1>6. CASE f.ev = "chats" /\ OnChats /\ UNCHANGED pushed
  <2>1. PICK cmds \in PictureRequests : reqs' = Sent(cmds)
    BY <1>6 DEF OnChats
  <2>2. cmds \in Seq(Commands)
    BY PictureRequestsTyped
  <2>3. rows' = [j \in People |-> "plain"]
    BY <1>6 DEF OnChats
  <2>4. ASSUME NEW j \in People PROVE Awaited(j)'
    <3>1. PICK i \in DOMAIN cmds : cmds[i] = AvatarReq(j)
      BY DEF PictureRequests
    <3>2. AvatarReq(j) \in Askers(j)
      BY CommandsTyped DEF Askers, AvatarReq
    <3>3. i \in 1..Len(cmds)
      BY <2>2
    <3>4. Has(cmds, Askers(j))
      BY <3>1, <3>2, <3>3 DEF Has
    <3> QED
      BY <1>1, <2>1, <2>2, <3>4, SentAsks DEF Awaited
  <2>5. \A j \in People : Has(sock', Shown(j)) => picture[j] # "none"
    BY <1>2 DEF PictureInv
  <2> QED
    BY <1>1, <2>3, <2>4, <2>5 DEF PictureInv
<1>7. CASE f.ev = "avatar" /\ OnAvatar(f.chat) /\ UNCHANGED <<reqs, pushed>>
  <2>1. /\ rows' = [rows EXCEPT ![f.chat] = IF @ = "absent" THEN @ ELSE "picture"]
        /\ f.chat \in People
    BY <1>1, <1>7 DEF OnAvatar, Frames
  <2>2. rows' \in [People -> {"absent", "plain", "picture"}]
    BY <2>1 DEF PictureInv
  <2>3. f \in Shown(f.chat)
    BY <1>1, <1>7 DEF Shown
  <2>4. picture[f.chat] # "none"
    BY <1>2, <2>1, <2>3 DEF PictureInv
  <2>5. ASSUME NEW j \in People
        PROVE  /\ picture[j] = "complete" /\ rows'[j] # "absent"
                    => rows'[j] = "picture" \/ Awaited(j)'
               /\ rows'[j] = "picture" \/ Has(sock', Shown(j)) => picture[j] # "none"
    <3>1. CASE j = f.chat
      BY <2>1, <2>4, <3>1 DEF PictureInv
    <3>2. CASE j # f.chat
      <4>1. rows'[j] = rows[j] /\ f \notin Showers(j)
        BY <1>7, <2>1, <3>2 DEF PictureInv, Showers, Shown
      <4>2. Awaited(j) => Awaited(j)'
        BY <1>2, <1>3, <1>7, <4>1 DEF Awaited
      <4>3. Has(sock', Shown(j)) => Has(sock, Shown(j))
        BY <1>2
      <4> QED
        BY <1>1, <4>1, <4>2, <4>3 DEF PictureInv
    <3> QED
      BY <3>1, <3>2
  <2> QED
    BY <1>1, <2>2, <2>5 DEF PictureInv
<1> QED
  BY <1>5, <1>6, <1>7 DEF GuiRead

LEMMA UserPictures == ASSUME IInv, FetchesTyped, PictureInv, User PROVE PictureInv'
<1>0. /\ Typed /\ prefs \in Prefs /\ pushed \in BOOLEAN /\ reqs \in Seq(Commands)
      /\ UNCHANGED <<up, rows, picture, fetch, sock>>
  BY DEF IInv, Typed, User, ChangeSetting, Type, ReadMessages, Refresh, gui, daemon
<1>1. PICK r \in Commands : reqs' = Sent(<<r>>)
  <2>1. ASSUME NEW field \in {"receipts", "online"}, ChangeSetting(field)
        PROVE  prefs' \in Prefs
    BY <1>0, <2>1 DEF ChangeSetting, Prefs
  <2>2. \A field \in {"receipts", "online"} : ChangeSetting(field) =>
            /\ reqs' = Sent(<<PrivacyReq(prefs')>>)
            /\ PrivacyReq(prefs') \in Commands
    BY <2>1, CommandsTyped DEF ChangeSetting
  <2>3. \A b \in BOOLEAN : Type(b) => /\ reqs' = Sent(<<TypingReq(b)>>)
                                      /\ TypingReq(b) \in Commands
    BY CommandsTyped DEF Type
  <2>4. ReadMessages => reqs' = Sent(<<ReadReq>>) /\ ReadReq \in Commands
    BY <1>0, CommandsTyped DEF ReadMessages
  <2>5. Refresh => reqs' = Sent(<<ChatsReq>>) /\ ChatsReq \in Commands
    BY CommandsTyped DEF Refresh
  <2> QED
    BY <2>2, <2>3, <2>4, <2>5 DEF User
<1>2. PICK cmds \in Seq(Commands) : reqs' = Sent(cmds)
  <2> WITNESS <<r>> \in Seq(Commands)
  <2> QED
    BY <1>1
<1>3. ASSUME NEW j \in People, Awaited(j) PROVE Awaited(j)'
  <2>1. CASE Has(reqs, Askers(j))
    <3>1. reqs' = reqs \o cmds \/ reqs' = reqs
      BY <1>2 DEF Sent
    <3>2. Has(reqs', Askers(j))
      BY <1>0, <2>1, <3>1, HasConcatenated
    <3> QED
      BY <3>2 DEF Awaited
  <2>2. CASE Has(sock, Showers(j)) \/ Publishing(j)
    BY <1>0, <2>2 DEF Awaited, Publishing
  <2> QED
    BY <1>3, <2>1, <2>2 DEF Awaited
<1>4. ~up => reqs' = <<>> /\ sock' = <<>>
  BY <1>0, <1>1 DEF PictureInv, Sent
<1> QED
  BY <1>0, <1>3, <1>4, PicturesKept

\* A frame that is not a picture is written, or none.
LEMMA SessionPictures == ASSUME IInv, FetchesTyped, PictureInv, Session PROVE PictureInv'
<1>1. /\ sock \in Seq(Frames) /\ Typed
      /\ UNCHANGED <<up, rows, picture, fetch, reqs>>
  BY DEF IInv, Typed, Session, GoOnline, GoOffline, HandleConnected, EmitState,
         SendPresence, gui
<1>2. ~EmitState => sock' = sock
  BY DEF Session, GoOnline, GoOffline, HandleConnected, SendPresence
<1> DEFINE f == StateFrame(ev.online)
<1>3. EmitState => /\ f \in Frames /\ \A j \in People : f \notin Shown(j)
                   /\ sock' = sock \/ (up /\ sock' = Append(sock, f))
  <2> SUFFICES ASSUME EmitState
               PROVE  /\ f \in Frames /\ \A j \in People : f \notin Shown(j)
                      /\ sock' = sock \/ (up /\ sock' = Append(sock, f))
    OBVIOUS
  <2>1. ev.online \in BOOLEAN
    BY <1>1 DEF EmitState, Typed, Events
  <2>2. f \in Frames /\ \A j \in People : f \notin Shown(j)
    BY <2>1, CommandsTyped DEF Shown, StateFrame
  <2>3. Emit(f)
    BY DEF EmitState
  <2> QED
    BY <2>2, <2>3 DEF Emit
<1>4. /\ \A j \in People : Has(sock, Showers(j)) => Has(sock', Showers(j))
      /\ \A j \in People : Has(sock', Shown(j)) => Has(sock, Shown(j))
  <2>1. CASE sock' = sock
    BY <2>1
  <2>2. CASE sock' # sock
    <3>1. \A P : Has(sock', P) <=> Has(sock, P) \/ f \in P
      BY <1>1, <1>2, <1>3, <2>2, HasAppended
    <3> QED
      BY <1>2, <1>3, <2>2, <3>1
  <2> QED
    BY <2>1, <2>2
<1>5. \A j \in People : Awaited(j) => Awaited(j)'
  BY <1>1, <1>4 DEF Awaited, Publishing
<1>6. ~up => reqs' = <<>> /\ sock' = <<>>
  BY <1>1, <1>2, <1>3 DEF PictureInv
<1> QED
  BY <1>1, <1>4, <1>5, <1>6, PicturesKept

\* A command that asks for something is answered with what it asks for.
LEMMA CommandPictures == ASSUME IInv, FetchesTyped, PictureInv, Command PROVE PictureInv'
<1> DEFINE r == Head(reqs)
<1>1. /\ reqs \in Seq(Commands) /\ reqs # <<>> /\ reqs' = Tail(reqs)
      /\ sock \in Seq(Frames) /\ online \in BOOLEAN
      /\ UNCHANGED <<up, rows, picture>>
  BY DEF Command, GetState, ListChats, SetPrivacy, MarkRead, SetTyping,
         RequestAvatar, Takes, gui, daemon, IInv, Typed
<1>2. up /\ r \in Commands
  BY <1>1, TailOf DEF PictureInv
<1>3. \A P : Has(reqs, P) <=> r \in P \/ Has(reqs', P)
  BY <1>1, HasTaken
<1>4. ASSUME NEW f \in Frames, sock' = sock \/ sock' = Append(sock, f), fetch' = fetch,
             \A j \in People : /\ r \in Askers(j) => Has(sock', Showers(j))
                               /\ f \in Shown(j) => picture[j] # "none"
      PROVE  PictureInv'
  <2>1. ASSUME NEW j \in People
        PROVE  /\ Has(sock, Showers(j)) => Has(sock', Showers(j))
               /\ Has(sock', Shown(j)) => Has(sock, Shown(j)) \/ picture[j] # "none"
    <3>1. CASE sock' = sock
      BY <3>1
    <3>2. CASE sock' = Append(sock, f)
      <4>1. \A P : Has(sock', P) <=> Has(sock, P) \/ f \in P
        BY <1>1, <3>2, HasAppended
      <4> QED
        BY <1>4, <4>1
    <3> QED
      BY <1>4, <3>1, <3>2
  <2>2. \A j \in People : Awaited(j) => Awaited(j)'
    BY <1>3, <1>4, <2>1 DEF Awaited, Publishing
  <2> QED
    BY <1>1, <1>2, <1>4, <2>1, <2>2, PicturesKept
<1>5. ASSUME NEW f \in Frames, sock' = Append(sock, f)
      PROVE  \A P : f \in P => Has(sock', P)
  BY <1>1, <1>5, HasAppended
<1>6. CASE GetState
  <2>1. StateFrame(online) \in Frames
    BY <1>1, CommandsTyped
  <2>2. sock' = Append(sock, StateFrame(online)) /\ fetch' = fetch
    BY <1>6 DEF GetState, Answer, daemon
  <2>3. \A j \in People : /\ StateFrame(online) \in Showers(j)
                          /\ StateFrame(online) \notin Shown(j)
    BY <2>1 DEF Showers, Shown, StateFrame
  <2> QED
    BY <1>4, <1>5, <2>1, <2>2, <2>3
<1>7. CASE ListChats
  <2>1. ChatsFrame \in Frames
    BY CommandsTyped
  <2>2. sock' = Append(sock, ChatsFrame) /\ fetch' = fetch
    BY <1>7 DEF ListChats, Answer, daemon
  <2>3. \A j \in People : ChatsFrame \in Showers(j) /\ ChatsFrame \notin Shown(j)
    BY <2>1 DEF Showers, Shown, ChatsFrame
  <2> QED
    BY <1>4, <1>5, <2>1, <2>2, <2>3
<1>8. CASE SetPrivacy \/ MarkRead \/ SetTyping
  <2>1. r.method \in {"set_privacy", "mark_read", "set_typing"}
        /\ sock' = sock /\ fetch' = fetch
    BY <1>8 DEF SetPrivacy, MarkRead, SetTyping, Takes, daemon
  <2>2. \A j \in People : r \notin Askers(j)
    BY <2>1 DEF Askers
  <2>3. ChatsFrame \in Frames /\ \A j \in People : ChatsFrame \notin Shown(j)
    BY CommandsTyped DEF Shown, ChatsFrame
  <2> QED
    BY <1>4, <2>1, <2>2, <2>3
<1>9. CASE RequestAvatar
  <2>1. r.method = "request_avatar" /\ r.chat \in People
    BY <1>2, <1>9 DEF RequestAvatar, Takes, Commands, Reads
  <2>2. \A j \in People : r \in Askers(j) => r.chat = j
    BY <2>1 DEF Askers
  <2>3. CASE picture[r.chat] # "none" /\ Emit(AvatarFrame(r.chat)) /\ fetch' = fetch
    <3> DEFINE f == AvatarFrame(r.chat)
    <3>1. f \in Frames /\ sock' = Append(sock, f)
      BY <1>2, <2>1, <2>3, CommandsTyped DEF Emit
    <3>2. f \in Showers(r.chat) /\ \A j \in People : f \in Shown(j) => r.chat = j
      BY <3>1 DEF Showers, Shown, AvatarFrame
    <3> HIDE DEF f
    <3> QED
      BY <1>4, <1>5, <2>2, <2>3, <3>1, <3>2
  <2>4. CASE picture[r.chat] = "none" /\ sock' = sock
    <3>1. PICK s \in Fetchers : /\ fetch[s] = Idle
                               /\ fetch' = [fetch EXCEPT ![s] =
                                              [pc |-> "fetch", chat |-> r.chat]]
      BY <1>9, <2>4 DEF RequestAvatar
    <3>2. \A t \in Fetchers : /\ t # s => fetch'[t] = fetch[t]
                              /\ t = s => fetch'[t].pc = "fetch"
      BY <3>1 DEF FetchesTyped
    <3>3. fetch[s].pc = "idle"
      BY <3>1 DEF Idle
    <3>4. ASSUME NEW j \in People
          PROVE  /\ up' /\ picture'[j] = "complete" /\ rows'[j] # "absent"
                       => rows'[j] = "picture" \/ Awaited(j)'
                 /\ rows'[j] = "picture" \/ Has(sock', Shown(j)) => picture'[j] # "none"
      <4>1. Publishing(j) => Publishing(j)'
        BY <3>2, <3>3 DEF Publishing
      <4>2. j # r.chat => (Awaited(j) => Awaited(j)')
        BY <1>3, <2>2, <2>4, <4>1 DEF Awaited
      <4>3. picture'[j] = picture[j] /\ rows'[j] = rows[j] /\ up' = up
        BY <1>1
      <4> QED
        BY <2>4, <4>2, <4>3 DEF PictureInv
    <3>5. \A t \in Fetchers : fetch'[t].pc \in {"write", "publish"}
                              => picture'[fetch'[t].chat] # "none"
      BY <1>1, <3>2 DEF PictureInv
    <3> QED
      BY <1>1, <1>2, <3>4, <3>5 DEF PictureInv
  <2> QED
    BY <1>9, <2>3, <2>4 DEF RequestAvatar
<1> QED
  BY <1>6, <1>7, <1>8, <1>9 DEF Command

\* A fetch that ends with a whole file goes on to announce it.
LEMMA FetchPictures ==
    ASSUME IInv, FetchesTyped, PictureInv, NEW s \in Fetchers,
           FetchPicture(s) \/ WritePicture(s) \/ PublishPicture(s)
    PROVE  PictureInv'
<1>0. PICK k \in People : fetch[s].chat = k
  BY DEF FetchPicture, WritePicture, PublishPicture, FetchesTyped
<1>1. /\ UNCHANGED <<up, rows, reqs>> /\ sock \in Seq(Frames)
      /\ fetch[s].pc \in {"fetch", "write", "publish"}
  BY DEF FetchPicture, WritePicture, PublishPicture, gui, IInv, Typed, FetchesTyped
<1>2. /\ \A t \in Fetchers : t # s => fetch'[t] = fetch[t]
      /\ fetch'[s] \in {Idle, [fetch[s] EXCEPT !.pc = "write"],
                        [fetch[s] EXCEPT !.pc = "publish"]}
      /\ fetch'[s].pc \in {"write", "publish"} => fetch'[s].chat = k
  BY <1>0, <1>1 DEF FetchPicture, WritePicture, PublishPicture, FetchesTyped, Idle
<1>3. \A t \in Fetchers : fetch[t].pc \in {"fetch", "write", "publish"}
                            => fetch[t].chat \in People
  BY DEF FetchesTyped
<1>4. ASSUME sock' = sock, fetch[s].pc # "publish",
             picture' \in [People -> {"none", "partial", "complete"} \cup Fetchers],
             \A j \in People : j # k => picture'[j] = picture[j],
             picture[k] # "none" \/ fetch'[s].pc \in {"write", "publish"}
                 => picture'[k] # "none",
             picture'[k] = "complete" => \/ picture[k] = "complete"
                                        \/ fetch'[s].pc = "publish"
      PROVE  PictureInv'
  <2>1. \A j \in People : Publishing(j) => Publishing(j)'
    BY <1>2, <1>4 DEF Publishing
  <2>2. \A j \in People : Awaited(j) => Awaited(j)'
    BY <1>1, <1>4, <2>1 DEF Awaited
  <2>3. fetch'[s].pc = "publish" => Awaited(k)'
    BY <1>0, <1>2 DEF Awaited, Publishing
  <2>4. \A j \in People : picture[j] # "none" => picture'[j] # "none"
    BY <1>4
  <2>5. \A t \in Fetchers : fetch'[t].pc \in {"write", "publish"}
                            => picture'[fetch'[t].chat] # "none"
    <3> SUFFICES ASSUME NEW t \in Fetchers, fetch'[t].pc \in {"write", "publish"}
                 PROVE  picture'[fetch'[t].chat] # "none"
      OBVIOUS
    <3>1. CASE t = s
      BY <1>2, <1>4, <3>1
    <3>2. CASE t # s
      BY <1>2, <1>3, <2>4, <3>2 DEF PictureInv
    <3> QED
      BY <3>1, <3>2
  <2>6. ASSUME NEW j \in People
        PROVE  /\ up /\ picture'[j] = "complete" /\ rows[j] # "absent"
                    => rows[j] = "picture" \/ Awaited(j)'
               /\ rows[j] = "picture" \/ Has(sock, Shown(j)) => picture'[j] # "none"
    <3>1. CASE j = k
      BY <1>4, <2>2, <2>3, <2>4, <3>1 DEF PictureInv
    <3>2. CASE j # k
      BY <1>4, <2>2, <2>4, <3>2 DEF PictureInv
    <3> QED
      BY <3>1, <3>2
  <2>7. /\ rows' \in [People -> {"absent", "plain", "picture"}]
        /\ ~up' => reqs' = <<>> /\ sock' = <<>>
    BY <1>1, <1>4 DEF PictureInv
  <2> QED
    BY <1>1, <1>4, <2>5, <2>6, <2>7 DEF PictureInv
<1>5. CASE FetchPicture(s)
  <2>1. /\ fetch[s].pc = "fetch" /\ sock' = sock
        /\ \/ picture' = [picture EXCEPT ![k] = s]
           \/ picture' = picture /\ fetch'[s] = Idle
    BY <1>0, <1>5 DEF FetchPicture, FetchesTyped
  <2>2. s \notin {"none", "partial", "complete"}
    BY ServicesAssumption
  <2> QED
    BY <1>1, <1>4, <2>1, <2>2 DEF PictureInv, Idle
<1>6. CASE WritePicture(s)
  <2>1. /\ fetch[s].pc = "write" /\ sock' = sock
        /\ \/ /\ picture' = [picture EXCEPT ![k] = "complete"] \/ picture' = picture
              /\ fetch'[s].pc = "publish"
           \/ picture' = [picture EXCEPT ![k] = "partial"] \/ picture' = picture
    BY <1>0, <1>6 DEF WritePicture, FetchesTyped
  <2>2. picture[k] # "none"
    BY <1>0, <2>1 DEF PictureInv
  <2> QED
    BY <1>1, <1>4, <2>1, <2>2 DEF PictureInv
<1>7. CASE PublishPicture(s)
  <2> DEFINE f == AvatarFrame(k)
  <2>1. /\ fetch[s].pc = "publish" /\ fetch'[s] = Idle /\ picture' = picture
        /\ f \in Frames /\ Emit(f)
    BY <1>0, <1>1, <1>7, CommandsTyped DEF PublishPicture, FetchesTyped
  <2>2. /\ f \in Showers(k)
        /\ \A j \in People : f \in Shown(j) => k = j
    BY <1>1, <2>1 DEF Showers, Shown, AvatarFrame
  <2>3. picture[k] # "none"
    BY <1>0, <2>1 DEF PictureInv
  <2>4. ASSUME up PROVE \A P : Has(sock', P) <=> Has(sock, P) \/ f \in P
    <3>1. sock' = Append(sock, f)
      BY <2>1, <2>4 DEF Emit
    <3> HIDE DEF f
    <3> QED
      BY <1>1, <2>1, <3>1, HasAppended
  <2>5. ~up => sock' = sock
    BY <2>1 DEF Emit
  <2>6. \A j \in People : j # k => (Publishing(j) => Publishing(j)')
    BY <1>0, <1>2 DEF Publishing
  <2>7. up => \A j \in People : Awaited(j) => Awaited(j)'
    BY <1>1, <2>2, <2>4, <2>6 DEF Awaited
  <2>8. ASSUME NEW j \in People
        PROVE  /\ up /\ picture[j] = "complete" /\ rows[j] # "absent"
                    => rows[j] = "picture" \/ Awaited(j)'
               /\ rows[j] = "picture" \/ Has(sock', Shown(j)) => picture[j] # "none"
    BY <2>2, <2>3, <2>4, <2>5, <2>7 DEF PictureInv
  <2>9. \A t \in Fetchers : fetch'[t].pc \in {"write", "publish"}
                            => picture[fetch'[t].chat] # "none"
    BY <1>2, <2>1 DEF PictureInv, Idle
  <2>10. /\ rows' \in [People -> {"absent", "plain", "picture"}]
         /\ picture' \in [People -> {"none", "partial", "complete"} \cup Fetchers]
         /\ ~up' => reqs' = <<>> /\ sock' = <<>>
    BY <1>1, <2>1, <2>5 DEF PictureInv
  <2> QED
    BY <1>1, <2>1, <2>8, <2>9, <2>10 DEF PictureInv
<1> QED
  BY <1>5, <1>6, <1>7

\* A daemon that stops leaves an incomplete file where it was writing.
LEMMA RestartPictures == ASSUME FetchesTyped, PictureInv, Restart PROVE PictureInv'
<1>1. /\ up' = FALSE /\ reqs' = <<>> /\ sock' = <<>> /\ rows' = rows
      /\ picture' = [j \in People |-> IF picture[j] \in Fetchers THEN "partial"
                                      ELSE picture[j]]
      /\ \A s \in Fetchers : fetch'[s].pc = "idle"
  BY DEF Restart, Idle
<1>2. \A j \in People : ~Has(sock', Shown(j))
  BY <1>1 DEF Has
<1>3. picture' \in [People -> {"none", "partial", "complete"} \cup Fetchers]
  BY <1>1 DEF PictureInv
<1> QED
  BY <1>1, <1>2, <1>3 DEF PictureInv

\* A connection begins with a state, which makes the GUI ask for everything.
LEMMA ConnectPictures == ASSUME IInv, PictureInv, Connect PROVE PictureInv'
<1>1. /\ sock' = <<StateFrame(online)>> /\ online \in BOOLEAN /\ up'
      /\ UNCHANGED <<rows, picture, fetch>>
  BY DEF Connect, daemon, IInv, Typed
<1>2. /\ StateFrame(online) \in Frames
      /\ \A j \in People : /\ StateFrame(online) \in Showers(j)
                            /\ StateFrame(online) \notin Shown(j)
  BY <1>1, CommandsTyped DEF Showers, Shown, StateFrame
<1>3. Len(sock') = 1 /\ sock'[1] = StateFrame(online)
  BY <1>1
<1>4. \A j \in People : Has(sock', Showers(j)) /\ ~Has(sock', Shown(j))
  BY <1>2, <1>3 DEF Has
<1>5. \A j \in People : Awaited(j)'
  BY <1>4 DEF Awaited
<1> QED
  BY <1>1, <1>4, <1>5 DEF PictureInv

\* When nothing is under way the list shows every picture that the directory has,
\* and none without a file, for any number of chats, listings, fetches at the same
\* time, failures and restarts (chatlistmodel.cpp:76-94, engine.go:420-443).
THEOREM PicturesTheorem == Spec => []PicturesShown
<1>1. Init => PictureInv
  <2> SUFFICES ASSUME Init PROVE PictureInv
    OBVIOUS
  <2>1. /\ Len(sock) = 1 /\ sock[1].ev = "connection"
        /\ picture = [j \in People |-> "none"] /\ rows = [j \in People |-> "absent"]
        /\ up /\ \A s \in Fetchers : fetch[s].pc = "idle"
    BY DEF Init, StateFrame, Idle
  <2>2. \A j \in People : ~Has(sock, Shown(j))
    BY <2>1 DEF Has, Shown
  <2> QED
    BY <2>1, <2>2 DEF PictureInv
<1>2. IInv /\ FetchesTyped /\ PictureInv /\ [Next]_vars => PictureInv'
  <2> SUFFICES ASSUME IInv, FetchesTyped, PictureInv, [Next]_vars PROVE PictureInv'
    OBVIOUS
  <2>1. CASE UNCHANGED vars
    BY <2>1 DEF PictureInv, Awaited, Publishing, vars, gui, daemon
  <2> QED
    BY <2>1, GuiReadPictures, UserPictures, SessionPictures, CommandPictures,
       FetchPictures, RestartPictures, ConnectPictures DEF Next
<1>3. PictureInv => PicturesShown
  <2> SUFFICES ASSUME PictureInv, Quiet, NEW j \in People
               PROVE  /\ picture[j] = "complete" /\ rows[j] # "absent"
                           => rows[j] = "picture"
                      /\ rows[j] = "picture" => picture[j] # "none"
    BY DEF PicturesShown
  <2>1. ~Awaited(j)
    BY DEF Quiet, Awaited, Publishing, Has, Idle
  <2> QED
    BY <2>1 DEF PictureInv, Quiet
<1> QED
  BY <1>1, <1>2, <1>3, Inductive, PTL DEF Spec
=============================================================================
