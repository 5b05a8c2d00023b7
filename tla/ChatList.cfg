SPECIFICATION LSpec
CONSTANTS
    m1 = m1
    m2 = m2
    a = a
    Msgs = {m1, m2}
    Chats = {a}
    Senders = {me}
    Texts = {"", "hi"}
    Emojis = {"heart"}
    NoRow = NoRow
    ChatOf <- MCChatOfA
    Ts <- MCTs
    FromMe <- MCIncoming
    Kind <- MCAllText
    Body <- MCBody
    Clients = {c1}
    Gui = c1
    Slots = {}
    LocalMsgs = {}
    OldMsgs = {m2}
    Contacts = {a}
    Me = me
    NoMsg = NoMsg
    NoChat = NoChat
    EventKinds = {"message", "history"}
    CommandKinds = {}
    StoreMayFail = FALSE
    MayRestart = TRUE
    SockCap = 2
    MaxUnread = 1
    MaxActs = 4
    MaxReqs = 2
    MaxRestarts = 1
INVARIANT ListAgrees
INVARIANT NotifierAgrees
CHECK_DEADLOCK FALSE
