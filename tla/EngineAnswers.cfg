SPECIFICATION FairSpec
CONSTANTS
    m1 = m1
    m2 = m2
    a = a
    Msgs = {m2}
    Chats = {a}
    Senders = {me}
    Texts = {"", "hi"}
    Emojis = {"heart"}
    NoRow = NoRow
    ChatOf <- MCChatOfA
    Ts <- MCTs
    FromMe <- MCSecondMine
    Kind <- MCAllText
    Body <- MCBody
    Clients = {c1}
    Slots = {}
    LocalMsgs = {m2}
    OldMsgs = {}
    Me = me
    NoMsg = NoMsg
    NoChat = NoChat
    EventKinds = {"message", "reaction"}
    CommandKinds = {"set_active_chat", "mark_read", "send_reaction", "star_message", "set_muted", "set_pinned", "send", "delete_message", "edit_message"}
    StoreMayFail = TRUE
    MayRestart = FALSE
    SockCap = 1
    MaxUnread = 1
PROPERTY CommandsAnswered
