SPECIFICATION Spec
CONSTANTS
    m1 = m1
    m2 = m2
    a = a
    Msgs = {m1, m2}
    Chats = {a}
    Senders = {me}
    Texts = {"", "hi"}
    Emojis = {"heart"}
    NoRow = NoRow
    ChatOf <- MCChatOfA
    Ts <- MCTs
    FromMe <- MCSecondMine
    Kind <- MCFirstImage
    Body <- MCBody
    Clients = {c1}
    Slots = {s1}
    LocalMsgs = {}
    OldMsgs = {}
    Me = me
    NoMsg = NoMsg
    NoChat = NoChat
    EventKinds = {"message", "revoke", "receipt", "history"}
    CommandKinds = {}
    StoreMayFail = TRUE
    MayRestart = TRUE
    SockCap = 1
    MaxUnread = 1
INVARIANT TypeOK
INVARIANT SummaryCoversMessages
INVARIANT RecordedMediaExists
PROPERTY ReadIsFinal
PROPERTY RevokedIsFinal
