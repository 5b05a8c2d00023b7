SPECIFICATION Spec
CONSTANTS
    m1 = m1
    m2 = m2
    a = a
    Msgs = {m1, m2}
    Chats = {a}
    Senders = {me}
    Texts = {"", "hi"}
    Emojis = {"heart"}
    NoRow = NoRow
    ChatOf <- MCChatOfA
    Ts <- MCTs
    FromMe <- MCSecondMine
    Kind <- MCFirstImage
    Body <- MCBody
    Clients = {c1}
    Slots = {s1}
    LocalMsgs = {m2}
    OldMsgs = {}
    Me = me
    NoMsg = NoMsg
    NoChat = NoChat
    EventKinds = {"message", "revoke", "edit", "receipt"}
    CommandKinds = {"send", "download_media", "set_active_chat"}
    StoreMayFail = FALSE
    MayRestart = FALSE
    SockCap = 1
    MaxUnread = 2
INVARIANT AnnouncedIsStored
INVARIANT AtMostOneStrayUnread
