SPECIFICATION CSpec
CONSTANTS
    m1 = m1
    m2 = m2
    a = a
    b = b
    Msgs = {m1, m2}
    Chats = {a, b}
    Senders = {me}
    Texts = {"", "hi"}
    Emojis = {"heart"}
    NoRow = NoRow
    ChatOf <- MCChatOfA
    Ts <- MCTs
    FromMe <- MCSecondMine
    Kind <- MCAllText
    Body <- MCBody
    Clients = {c1}
    Gui = c1
    Slots = {}
    LocalMsgs = {m2}
    OldMsgs = {}
    Me = me
    NoMsg = NoMsg
    NoChat = NoChat
    EventKinds = {"message", "revoke"}
    CommandKinds = {}
    StoreMayFail = FALSE
    MayRestart = TRUE
    SockCap = 2
    MaxUnread = 1
    MaxActs = 3
    MaxReqs = 2
    MaxItems = 2
    MaxRestarts = 1
INVARIANT ViewOfOneChat
 
INVARIANT EchoesAccounted
INVARIANT ActiveChatFollows
CHECK_DEADLOCK FALSE
