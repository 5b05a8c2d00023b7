# A TLA+ verification of yaawp

yaawp is a WhatsApp client for KDE Plasma in two processes: a daemon in Go that
owns the WhatsApp session (through the whatsmeow library) and an SQLite
application store, and a GUI in C++/QML that shows what the daemon tells it. They
talk over a Unix socket in lines of JSON: commands and their responses, and
events that the daemon pushes. This directory holds TLA+ models of the two
processes, TLC runs that check them on small instances, and theorems about them
that TLAPS checks for instances of any size.

    tlc -workers 4 -config EngineStore.cfg MCEngine.tla     # one run
    tlapm EngineProofs.tla                                  # the proofs

`PROJECT.json` lists the runs, and maps every definition to the lines of code it
models.

## 1. The system

| part | code | state it keeps | operations |
|---|---|---|---|
| application store | `daemon/internal/store/db.go` | tables `messages`, `chats`, `reactions` | one SQL statement or one transaction per method; one connection, so statements never overlap |
| engine | `daemon/internal/engine/engine.go`, `events.go` | `activeChat`, `lastQR`, the privacy flags, files of the media and avatar directories | `handleEvent` for what the network sends, one method per IPC command, background goroutines for history, downloads and the QR channel |
| IPC server | `daemon/internal/ipc/server.go` | the set of connected clients, under a read-write lock | accept, snapshot, dispatch of one command at a time per client, broadcast of events |
| daemon process | `daemon/cmd/yaawp-daemon/main.go`, `store/paths.go` | advisory lock file, socket file | start, serve, shut down on a signal |
| GUI connection | `gui/src/ipcclient.cpp` | socket, line buffer, pending requests, reconnect timer, spawn cool-down | connect, reconnect, spawn the daemon, parse frames, send commands |
| GUI session | `gui/src/controller.cpp`, `gui/qml/Main.qml`, `LoginPage.qml` | connection state, QR code, which page and chat is shown | react to connection, QR and presence events; navigation |
| GUI message view | `gui/src/messagemodel.cpp`, `ConversationPage.qml` | the messages of the open chat, newest first, and unconfirmed local echoes | load, append, reconcile, status, media, revoke, edit, reaction |
| GUI chat list | `gui/src/chatlistmodel.cpp`, `ChatListPage.qml` | chats in order, previews, unread badges | load, move to top, badge |
| notifications, tray, settings | `notifier.cpp`, `tray.cpp`, `settings.cpp` | muted chats, preferences | notify, show and hide |
| privacy, avatars | `engine.go` (`SetPrivacy`, `SetTyping`, `RequestAvatar`), `events.go`, `Main.qml` | the flags of the daemon, the settings of the GUI, the avatar directory | push the settings; announce presence; fetch and publish pictures |

**How they interact.** whatsmeow calls `handleEvent` on one goroutine, in order;
`handleEvent` hands history syncs to goroutines of their own. Each GUI connection
has a goroutine that reads a command, executes it and writes its response before
it reads the next. Downloads and the QR loop are further goroutines. They all
share the store, `activeChat`, the media directory and, through `Engine.emit` and
`Server.Broadcast`, the sockets of all GUIs. `Broadcast` keeps the read lock of the
client set until its last write; registration and removal of a client take the
write lock. A GUI is single threaded: it handles one frame or one user action at a
time, and what the daemon did in between it learns only from later frames.

**What is hard.** Every daemon handler is a sequence of accesses to shared state
(a statement, the active chat, a file, a frame) with nothing that makes the
sequence atomic, so another goroutine's accesses may fall anywhere in between. Errors of most
statements are logged or dropped and the handler goes on. The daemon may stop at
any point; the store and the files survive, `activeChat` and the queues do not.
Messages reach the store on four ways (live, sent from here, history, redelivery)
in any order of their times. A GUI may connect, vanish or stall at any moment.

**What makes each part correct.**

* *Store and engine*: a chat's summary covers its messages; a read status and a
  deletion for everyone are final; a recorded media file exists; an event never
  runs ahead of the store; opening a chat clears its badge; every command is
  answered.
* *IPC server*: registered clients get every event; nobody waits for ever because
  of another client.
* *Session*: a GUI learns the state and the QR code of the moment, whenever it
  connects.
* *Daemon process*: at most one daemon owns the store and the socket; a GUI finds
  the daemon that runs.
* *GUI models*: what is shown agrees with the store once everything has arrived;
  an echo is replaced by its message; badges and mute flags follow the store; the
  daemon knows which conversation is on screen.
* *Privacy and avatars*: the daemon hides what the settings say, also after a
  restart; a picture that was fetched is shown.

The hazards, each at the line where it bites and with the properties that would
catch it, are in `PROJECT.json`.

## 2. The modules

| module | models | extends |
|---|---|---|
| `AppStore` | every write statement of the store, as a function on tables | |
| `Engine` | the goroutines of the daemon that share store, active chat, media files and sockets | `AppStore` |
| `GuiLink` | one GUI process and its connection: commands in order, frames in order, loss of both | `Engine` |
| `Conversation` | the message view, the navigation, and the list queries of the daemon | `GuiLink` |
| `ChatList` | the chat list, the notifier's muted chats, and `ListChats` | `GuiLink` |
| `Services` | privacy flags, presence, read receipts and profile pictures, from the settings to the WhatsApp server | |
| `IpcServer` | the server's client set, lock, broadcasts and connection handlers | |
| `Session` | connection state and QR login from whatsmeow to the GUI | `IpcServer` |
| `Ownership` | abstract: one process at a time runs an engine | |
| `DaemonLifecycle` | daemon processes, lock, socket file, and the GUI that spawns and reconnects; implements `Ownership` | |
| `MCEngine`, `MCConversation`, `MCChatList` | instances for TLC | the module of that name |
| `EngineProofs`, `ConversationProofs`, `ChatListProofs`, `LifecycleProofs`, `ServicesProofs`, `SessionProofs` | theorems | the module of that name, `TLAPS` |
| `ViewProofs` | theorems about what the open conversation shows | `ConversationProofs`, `EngineProofs`, `Queues` |
| `Queues` | lemmas about what is in a queue and what reading it leads to, for `ServicesProofs`, `SessionProofs`, `ChatListProofs` and `ViewProofs` | `TLAPS` |

### AppStore

A table is a total function from primary keys to rows, with `NoRow` where there
is none. An operator is one statement: `UpdateStatus` leaves a read row alone like
`AND status != 'read'`, `OnConflict` keeps an existing row except for a missing
`raw_media`, `UpdateChat` replaces the summary only by a message at least as
recent. What never changes about a message (its chat, time, author, kind and first
text) is a constant function of its id. The kinds fetched on arrival are one kind,
`"image"`, those fetched on demand another, `"video"`.

### Engine

One variable per goroutine holds where it is between two accesses to shared
state: `ev` (whatsmeow's event goroutine), `hist` (a history sync), `cmd[c]` (the
goroutine that serves client `c`), `dl[s]` (downloads, at most `Slots` of them).
`out` in `ev`, `hist` and `cmd` holds the frames that are decided but not yet
pushed. One action is one access:

| code | actions |
|---|---|
| `handleEvent`, a message: `PutMessage`; emit; `maybeDownloadMedia`, `bumpUnread`'s reading of `activeChat`; its UPDATE; its SELECT; emit | `EventMessage`, `EventEmit`, `EventAnnounced`, `EventIncrement`, `EventSelect`, `EventEmit` |
| `handleSpecialMessage`, receipts | `EventRevoke`, `EventEdit`, `EventReaction`, `EventReceipt`, each followed by `EventEmit` |
| `persistHistory`: name, `PutMessages` per conversation, then the event | `HistoryConversation`, `HistoryPut`, `HistoryDone`, `HistoryEmit` |
| `SendText`, `SendMedia`: the server's answer; `PutMessage`; emit; response | `Send`, `StoreSent`, `CommandEmit`, `CommandReply` |
| `DeleteMessage`, `EditMessage`, `SendReaction` | `SendUpdate`, then `StoreDeleted`, `StoreEdited`, `StoreReaction` |
| `SetActiveChat`, `MarkRead`: then `clearUnread` | `SetActiveChat`, `MarkRead`, `ClearUnread` |
| `DownloadMedia`, `StarMessage`, `SetPinned`, `SetMuted` | the same names; `SetChatFlag` for the last two |
| `downloadMediaAsync`: fetch and truncate; write; record; publish | `DownloadFetch`, `DownloadWrite`, `DownloadRecord`, `DownloadPublish` |
| `engine.New` after a stop at any point | `Restart` |

A statement whose error the code ignores may fail when `StoreMayFail` is set
(`Attempt`); one whose error the code reports has a branch for it. `sock[c]` is the
bounded socket buffer of client `c`: a goroutine that pushes to a full one waits.
`file[m]` says whether a media file is missing, whole, left incomplete, or being
written, and by whom: `os.WriteFile` truncates first, so a second writer takes the
file over.

The environment is `onServer`, the messages the WhatsApp server may tell us more
about: those it has delivered, those it has accepted from us (from the moment it
accepts, which is before `SendMessage` returns here), and old ones that only a
history sync brings. Events about other messages do not happen.

Simplifications: a broadcast reaches all clients in one step (`IpcServer` splits it);
a receipt for several messages is several receipts; one conversation of a history
payload is processed at a time, one payload after another; every event of a message
names the same chat (`canonicalJID` is a constant mapping).

### GuiLink, Conversation and ChatList

These compose the GUI with `Engine`: the frames that a view reads are the ones the
engine's goroutines have written, with every interleaving of `Engine` behind them.
`GuiLink` has what both share. `reqs` is what the GUI has written and `handleConn`
has not read; `Takes` reads one command when the one before is answered; `query` is
a list command between its SELECT and its response. `Lost` is a stop of the daemon
with a new start: what was on the way is gone, the GUI is without connection and
`IpcClient::send` drops what it is asked to send, until `Connect`. The commands that
`Engine` has are its actions, conjoined with `Takes`.

`Conversation` models `MessageModel` (`list`, `chat`), the conversation page on
Main.qml's stack (`page`), `ListMessages` with `ReactionsForChat` as two reads and a
response, and the user who opens, leaves, sends and deletes. `NewestFirst` leaves the
order of messages of the same second open, as `ORDER BY ts DESC` does. Every event handler of
the view is there; the frames carry what `Engine` puts in them. An echo is found by
its text, as in the code, so the model lets it be replaced by another message with
the same text.

`ChatList` models `ChatListModel` (`rows`) without the order of the list, the
requests of `Controller` and of the page's menu, the muted set of `Notifier`, and
`ListChats`, which reads the table and then stores, name by name, what the contact
store knows.

`skewed`, `gap` and `pushed` are ghosts: no guard reads them. `skewed` collects what
a frame said about a message, or a chat's field, that was outdated already when it
was written (the SELECT or the decision was earlier), until something later says it
rightly. A response that was outdated when it was written counts only if no frame that
is decided and still to be written will put it right (`Told`, `Decided`). `gap` says that since the chat was opened the connection was lost or one of
its texts was refused. The properties except these cases, which the code has
nothing to mend with, and only these. The acts of the settings page
count as leaving a conversation: the page replaces it on the stack.

### Services

`Services` stands beside `Engine`, because what it models touches neither the store
nor a view of messages: the two privacy settings (`prefs`) and the flags
the daemon keeps for them (`hidden`), the presence that others see (`seen`), the
`receipts` that have left, and the avatar directory (`picture`) with the goroutines of `RequestAvatar`
(`fetch`). The GUI pushes its settings when it hears that the session is connected
(`OnConnectionState`), and when one changes (`ChangeSetting`). `Restart` and
`Connect` are the daemon's stop and the GUI's new connection. `HandleConnected`
reads the flag and starts a goroutine that announces the account (`SendPresence`).
`OnChats` takes every picture off and requests all of them, as
`onChatsReceived` does. WhatsApp is external: it connects and disconnects, answers a
picture request or does not, and forgets the presence of a session that has ended.
A command is one step here: it touches one flag or one file.

### IpcServer and Session

`IpcServer` has the steps of `server.go` one by one: `Broadcast` takes the read lock
and fixes the set of clients, `CastWrite` writes to one of them, `Register` and
`Unregister` wait for the write lock, and a waiting writer keeps new readers out as
`sync.RWMutex` does. `HandlerWrite` writes what a handler has decided on, so a
broadcast may come between the decision and the write. A closed connection makes a
write return with an error, which the code ignores.

`Session` adds the state that goes through it. whatsmeow is external: `IssueCode`,
`CodesRunOut`, `Pair`, `GoOnline`, `GoOffline` and `Unlink` change what the client
object would report and queue the event. The engine's part is `Start`, `Connect`,
`HandleEvent`, `HandleQR` (which caches a code before it emits it), `SnapshotState`,
`SnapshotQR` (`InitialEvents`, in two reads) and `GetState`. The GUI's part is
`GuiConnect` (which sends `get_state`), `GuiRead` (what `Controller` makes of a
frame) and `GuiClose`. `heard` and `seenQR` are history variables for the
properties: no action reads them.

Assumptions about whatsmeow, taken from how the code uses it: events come one by
one in the order of the changes; the QR channel yields codes, then one last item;
`IsConnected` may change before its event is handled. A GUI connects again only
after the handler of its previous connection has ended.

### DaemonLifecycle and Ownership

Up to three processes run `main.go` at once, each with three goroutines:

| code | actions |
|---|---|
| `main`: `acquireLock`; `engine.New`; after the signal `Disconnect`; `os.Remove`; the deferred release; the end | `AcquireLock`, `NewEngine` or `NewFails`, `Disconnect`, `RemoveSocket`, `ReleaseLock`, `Exit` |
| `Serve`: `os.Remove`; `net.Listen`; `Accept` | `ClearSocket`, `Listen`, `Accept` |
| the goroutine in `Serve`: `ln.Close`; `os.Remove` | `CloseListener`, `RemoveClosed` |
| `IpcClient`: `connectToDaemon`; `onSocketError` and `ensureDaemonRunning`; the two timers | `Connect`, `OnSocketError` with `Spawn`, `ConnectionLost`, `CooldownOver` |
| what happens to a daemon | `Signal`, `Crash`, `ServiceStart` |

`path` is what the socket file leads to: nothing, a live listener, or a listener
that is gone. Removing it is unconditional, in the code and in the model: it
removes whatever is there. Closing a Go Unix listener unlinks its path too. The
kernel gives the lock back and breaks the connections of a process that ends
(`EndProcess`), but leaves the file. `engines` are the processes between
`engine.New` and `Disconnect`; whatsmeow's session store stays open, without a
client that uses it, until the process exits.

`Ownership` is what the lock is for: the set of processes with an engine is empty
or has one member, and it passes through empty. `SingleOwner` is the refinement
`Owners!Spec`, with `owners <- engines`.

Assumptions: the lock file can be opened (`acquireLock` goes on without a lock
otherwise), the GUI finds the daemon's program, and `engine.New` fails only when
its context is cancelled or as one of the bounded crashes.

## 3. The runs

`pass` runs explore their instance completely. Distinct states are rounded.

| run | asks | instance | states |
|---|---|---|---|
| `store` | `TypeOK`, `SummaryCoversMessages`, `RecordedMediaExists`, `ReadIsFinal`, `RevokedIsFinal` | an incoming image and a sent message of one chat, with revokes, receipts, history, downloads, failures and restarts | 1 250 000 |
| `feed` | `AnnouncedIsStored`, `AtMostOneStrayUnread` | an image and a sent message, with revokes, edits, receipts, downloads, and a client that opens and leaves their chat | 2 900 000 |
| `answers` | `CommandsAnswered` (fair) | commands and events that compete for a buffer of one frame, with failures | 39 000 |
| `conversation` | `ViewOfOneChat`, `ViewAgrees`, `EchoesAccounted`, `ActiveChatFollows` | two chats, an incoming and a sent message, revokes, three acts of the user, one restart | 2 660 000 |
| `chat_list` | `ListAgrees`, `NotifierAgrees` | one chat, a live and an old message, history, four acts, one restart | 2 800 000 |
| `services` | `FlagsAgree`, `ReceiptsRespected`, `PicturesShown` | one person, two picture fetches at a time, any settings at the start, three acts, one restart | 2 600 000 |
| `session` | `TypeOK`, `StateHeard`, `LatestQRReceived` | one GUI, two connections, two codes, three session changes | 1 160 000 |
| `session_served` | `StateHeard`, `ConnectedIsServed` (fair) | two GUIs of which each may vanish, one session change | 73 000 |
| `lifecycle` | `HolderInv`, `SingleOwner`, `Reconnects` (fair) | three processes at a time, three signals or crashes, one start by the service manager | 167 000 |

What they show:

* `SummaryCoversMessages`: live, sent and historical messages interleave with any
  times, and `updateChatSQL` and the transaction of `PutMessages` keep the chat list
  able to show every conversation and at least as recent as its messages.
* `ReadIsFinal`, `RevokedIsFinal`: late receipts, redeliveries, edits, history
  syncs and restarts never take back a read status or a deletion. A revoked row
  may still be given a text or a media path by an edit or a download that was under
  way; the GUI goes by the type.
* `RecordedMediaExists`: a file is written before its path is recorded, so no
  interleaving with a revoke, a second download or a stop leaves a path to nothing.
  The file may be under way again: a second download of the same message truncates
  what the first has recorded and announced.
* `AnnouncedIsStored`: a client that reloads on an event finds what it was told.
  `RowComesFirst` excepts what cannot be promised of a message whose row comes after
  the server knows it: one sent from here (a receipt may be handled between
  `SendMessage`'s return and `PutMessage`, updates no row, and the message stays
  "sent") and one that a history sync brings after its revoke or edit.
* `AtMostOneStrayUnread`: opening a chat races with `bumpUnread`, which reads
  `activeChat` before it increments. The counter of the open chat is never above
  one once it has been cleared; it is not always zero.
* `CommandsAnswered`: neither a failed statement nor contention for the buffers
  leaves a command without response, provided GUIs read their sockets.
* `ViewOfOneChat`: `setChat` keeps what is on screen until a response comes, and an
  empty response does not say which chat it is about; because commands are answered
  in order, switching quickly still never leaves one chat's messages under another.
* `ViewAgrees`: an event that falls between a SELECT and its response is in the one
  or comes after the other, so the view ends up with what is stored, for every
  message of its chat, except where `skewed` says that the last word was outdated.
* `EchoesAccounted`: no echo outlives the message it stands for, unless its text
  was refused or lost.
* `ActiveChatFollows`: `set_active_chat` commands of chats opened and left quickly
  leave the daemon with what is on screen. After a lost connection it is not
  promised, and not true: nobody sends it again.
* `ListAgrees`: after badges, listings, history syncs and a restart the list is the
  `chats` table. Excepted through `skewed` is, for instance, the badge of
  `bumpUnread` that is written after the one of a later `clearUnread`.
* `NotifierAgrees`: a mute that the user has chosen is in force when its listing
  has come, because the menu's two commands stay in order.
* `FlagsAgree`: a setting changed while there was no connection, or lost with a
  daemon, reaches the daemon when the session connects.
* `ReceiptsRespected`: no receipt leaves that was unwanted when the messages were
  read, from the moment the GUI has pushed its settings to this daemon (`told`).
* `PicturesShown`: a listing takes all pictures off, and the answers bring back
  every file there is, also one that a failed write left incomplete.
* `StateHeard`, `LatestQRReceived`: registration before the snapshot, and the
  cache before the broadcast, leave no moment at which a GUI connects and misses
  the current state or code, from the event stream alone.
* `ConnectedIsServed`: a GUI that vanishes in the middle of a broadcast, while the
  read lock is held and a writer waits, does not stop the others.
* `HolderInv`, `SingleOwner`: whoever starts daemons, and wherever one is stopped
  or crashes, an engine is created only when the previous one is gone.
* `Reconnects`: a GUI without connection gets one, through the cool-down, stale
  socket files and daemons that are still shutting down, with one exception that
  the property names. A daemon that shuts down gives its lock back while its
  closing goroutine may still be about to run; a successor that has started to
  listen by then loses its socket file to it. It keeps the lock, so every daemon
  spawned later exits, and no GUI can connect until it is stopped (`Orphaned`).
  main.go:25-27 describes this harm as what the lock is there to prevent; the
  lock narrows it to the moment between `ReleaseLock` and `Exit`.

**Disagreements.** Three runs check what a comment or a text of the code says and
find a behaviour that contradicts it:

| run | property | what happens |
|---|---|---|
| `stale_state` | `SettledStateShown` | a broadcast overtakes the response of `get_state`; the GUI shows the older state and nothing corrects it |
| `left_chat` | `ReadWhileOpen` | the view keeps its chat when the page is left, so a message for it is marked as read while no conversation is on screen; the notifier keeps it too and stays silent |
| `presence` | `HiddenIsUnseen` | `SetPrivacy` only sets a flag: an account announced when the session connected, before the GUI pushed its settings, or a composing state, stays with the server |

**Bounds, and why they are enough.** The hazards of the engine are between two or
three goroutines about one message or one chat: one message per kind of origin,
one more goroutine than a race needs, and a socket buffer of one or two frames
make every queue fill and every order occur. Times and texts matter only through
comparison, so two of each are enough. `MaxUnread` bounds the counter in
`EventMessage` only, so no handler is cut short. Commands and events of a run are
chosen by `CommandKinds` and `EventKinds`: those that cannot touch the state the
run's property is about are left out, and between them the runs take every action.

`MaxActs` bounds what the user and, in `ChatList` and `Services`, the network do: an
act, one that undoes or overtakes it and one more is what a stale response needs.
`MaxReqs` is how many commands may be unread when the GUI handles a frame: two let a
list command wait behind another one. `MaxItems` bounds the view where a message
arrives, `MaxRestarts` the stops of the daemon: one makes everything in memory
disappear, a second would find the same state. `ChatList` starts on an empty store
with `list_chats` under way, `Conversation` with no conversation open.

In `Session`, `MaxChanges`, `MaxCodes` and `MaxOpens` bound what happens outside
the daemon: two connections give one that is closed and one that stays, three
changes give offline, online, unlinked in any order. When the bounds are used up
the system may really stop, so these runs and the GUI's do not look for deadlocks;
the `Engine` runs do. `session` has one GUI and every session change,
`session_served` two GUIs that contend for the lock, and no QR codes. `lifecycle`
needs three processes: one that runs, one that is stopping, and one that is
refused; three stops let a daemon, its successor and the successor's successor
end. Its `FairSpec` must end with a connected GUI and nothing left to happen, so it
does not look for deadlocks either.

**Fairness.** `FairSpec` of `Engine` and `Session`: a goroutine that can make a step
again and again makes it (strong fairness, because a lock or a place in a buffer
may be taken by others in between; Go's `sync.Mutex` and `RWMutex` are starvation
free), and a GUI that has frames to read reads them (weak fairness: its event loop
does nothing else for ever). Nothing forces events, commands, connections, closes,
failures or restarts. In `DaemonLifecycle` weak fairness of each goroutine and of the
GUI's timers is enough, because no step of theirs can be disabled by others again
and again. `CommandsAnswered` is checked without restarts, which end a
command without response by design. What the views promise is stated for the moments
at which nothing is under way, which needs no fairness.

**Variants.** A definition whose comment starts with "Mutant of" is the form a
plausible slip would give the next definition (no `AND status != 'read'`, `INSERT
OR REPLACE`, an emit before its statement, no early return on `activeChat`, a
`TryRLock`, a list command before the change it should show...). No action uses
them. Each property has been checked to fail when the variant takes the place of
the original, which shows that the property depends on the code it is about;
`PROJECT.json` pairs them.

## 4. The proofs

`EngineProofs` proves, for any sets of messages, chats, senders, texts, clients
and download slots, any timestamps, and buffers of any size:

| theorem | states | besides the assumptions on constants |
|---|---|---|
| `TypeCorrect` | `Spec => []TypeOK` | |
| `SummaryTheorem` | `Spec => []SummaryCoversMessages` | |
| `ReadIsFinalTheorem` | `Spec => ReadIsFinal` | |
| `RevokedIsFinalTheorem` | `Spec => RevokedIsFinal` | |
| `MediaTheorem` | `Spec => []RecordedMediaExists` | |
| `AnnouncedTheorem` | `Spec => []AnnouncedIsStored` | `~StoreMayFail` |
| `StrayTheorem` | `Spec => []AtMostOneStrayUnread` | `~StoreMayFail` |

The assumptions on constants are `StoreAssumption` and `EngineAssumption` (the
constants have the types their comments give; the bounds are positive). The last two
theorems need that statements do not fail, because the code announces and counts
a message whose `PutMessage` failed, and a failed clear leaves the counter; restarts
are allowed in all of them.

*TypeCorrect.* One lemma per goroutine shows that its steps keep `DaemonTyped`, which
is `TypeOK` without the sockets, and `SocketsTyped` that they write frames; the split
serves the modules that write frames of their own to a socket. The control states carry what makes this inductive: a handler that is about to store
or to fetch has a message, a history batch belongs to one chat, and so on.

*Tables.* `NextIsTableStep`: whatever a goroutine does, the tables change
by nothing, by one single-row statement, by one insert with its summary, or by one
batch with its summary (`TableStep`). So the interleavings are gone after one lemma,
and the properties are proved of five kinds of step. `SummaryCoversMessages` is
inductive relative to `TypeOK`: `updateChatSQL` moves a summary forward and to at
least the time it is given (`UpdateChatForward`), other statements on chats keep
`last_ts` (`ChatUpdatesForward`), and statements on messages make no row
(`RowUpdatesMakeNoRow`). `ReadIsFinal` and `RevokedIsFinal` follow from `RowsKept`:
an insert that conflicts and every update keep a row, its read status and its
revoked type.

*MediaTheorem.* `MediaInv` adds to the property that a download past its fetch has a
file (`FilesOfDownloads`). Only `DownloadRecord` sets a path (`CachedByDownload`),
files never go missing, and no other step makes a download start anywhere but at
its fetch (`OtherStepsStartDownloads`).

*StrayTheorem.* `StrayInv`: for a chat that is active and not about to be cleared,
the counter and the increment that `bumpUnread` has decided on are together at most
one. Once a chat is active no new increment is decided on for it, and the clear that
follows its activation starts from zero.

*AnnouncedTheorem.* `AnnounceInv` says of every queue of frames, from the handler
that decided on them to the sockets, that its frames are sound for the tables and
files of the moment; a message reached by an event has its row (`RowsOfServer`), and
a download past its fetch has its file whole or being written (`WholeFiles`). A
sound frame stays sound because rows keep what was announced (`SoundStays`,
`WholeStays`), so each goroutine's lemma is only about the frames it adds.

`LifecycleProofs` proves, for any number of processes, stops and starts, from
`LifecycleAssumption` (the model values for no process, a stale file and a broken
connection are not processes):

| theorem | states |
|---|---|
| `HolderTheorem` | `Spec => []HolderInv` |
| `SingleOwnerTheorem` | `Spec => SingleOwner`, the refinement of `Ownership` |

`HolderInv` is inductive: with `TypeOK` it says that a process past its `acquireLock`
is the one the lock names, and that an engine belongs to such a process. The
refinement follows step by step (`StepRefines`): `NewEngine` finds no engine, because
the only process that could have one is itself (`OneOwner`), and everything that
ends an engine leaves none.

`ServicesProofs` proves, for any people, fetchers, buffers and any number of acts and
restarts, from `ServicesAssumption`:

| theorem | states |
|---|---|
| `FlagsTheorem` | `Spec => []FlagsAgree` |
| `ReceiptsTheorem` | `Spec => []ReceiptsRespected` |
| `PicturesTheorem` | `Spec => []PicturesShown` |

The invariant `IInv` looks ahead: `InForce(q, h, n, g)` says that the daemon will
hide `g` when it has handled the first `n` commands of `q`. Once the settings have
been pushed, what is in force at the end of `reqs` is what the settings say; an
unwanted receipt in `reqs` will meet a flag that stops it (`ReadsHidden`); and when
the session is connected and nothing has been pushed, the frame that makes the GUI
push is still on its way (`Coming`). A command added or taken keeps this
(`OthersAppended`, `PushAppended`, `HeadTaken`, `ReadsAppended`, `ReadsTaken`).

*PicturesTheorem.* `PictureInv`: a complete picture that a listed chat does not show
is `Awaited`, which means that a command is on its way that asks for it (or for the
state, or the list), or a frame that shows it or makes the GUI ask, or a goroutine
that is about to publish it. Each step hands a picture from one of these places to
the next; the list that takes all pictures off puts every request into `reqs`.

`SessionProofs` proves, for any GUIs, socket buffer, codes, changes of the session and
connections, from `ServerAssumption` and `SessionAssumption`:

| theorem | states |
|---|---|
| `TypeCorrect` | `Spec => []TypeOK` |
| `StateHeardTheorem` | `Spec => []StateHeard` |
| `LatestQRTheorem` | `Spec => []LatestQRReceived` |

`Members` says that the clients are the connections between `Register` and
`Unregister`; it holds of a GUI whose handler has yet to take the snapshot that it will
be there for every later broadcast. `Coming(c, f, g)` says that frame `f` is in one of
the places from which it reaches `c`: the events that goroutine `g` has decided on,
`g`'s broadcast under way, what `c`'s handler writes, `c`'s socket. The steps that move
frames keep it (`MovesCarry`), decisions and replies do not disturb it
(`DecisionsCarry`, `RepliesCarry`), and a GUI that reads takes the frame or leaves it
(`ReadCarries`). `StateInv` then says of every open connection that the state that
holds was told to it or is on its way, and `CodeInv` the same of the last code
issued, which needs `LoginInv`: while the QR channel is open nothing else clears the
cache, and when the channel is empty the cache holds the last code.

`ConversationProofs` proves, for any store, acts and restarts, from the assumptions of
`Engine` and the modules above it:

| theorem | states |
|---|---|
| `ActiveChatTheorem` | `CSpec => []ActiveChatFollows` |

`ViewProofs` builds on it and proves, for the same constants:

| theorem | states | besides the assumptions on constants |
|---|---|---|
| `ViewOfOneChatTheorem` | `CSpec => []ViewOfOneChat` | |
| `EchoesAccountedTheorem` | `CSpec => []EchoesAccounted` | |
| `ViewAgreesTheorem` | `CSpec => []ViewAgrees` | `~StoreMayFail` |

`ActiveInv` says what the commands on their way lead to: `EndsAt(q, a, j)` holds when the
last `set_active_chat` of `q` names `j`, or there is none and the daemon is at `a = j`
already. As long as there is no gap, `reqs` ends at the chat on screen. Other
commands do not disturb this (`OtherAdded`), opening and leaving append what is needed
(`ActiveAdded`, `ScreenSent`), the daemon takes commands from the front
(`FirstTaken`), no goroutine touches `activeChat` (`DaemonActive`), and a command is
dropped only where a gap begins.

*ViewOfOneChatTheorem.* `ViewInv` types the frames, commands and entries of the view, and
`LastOfChat` follows the list commands through the places where they can be: the last
one in `reqs` is for the chat on screen; if there is none, the one being answered is;
else the last response in the socket is; else what is shown is. What comes after it
cannot bring in another chat's messages, because every handler looks at the chat, and
an empty response clears the view.

*EchoesAccountedTheorem.* `EchoInv` says, of the moments at which no listing is asked for or
under way, that the entries that await the copy of a text are at most as many as what
is `Owed` for it: its commands in `reqs`, the one being executed, and its copies that are
decided on or in the socket. A copy that is read takes an echo away if there is one
(`First`), and the response before it has taken all. It rests on lemmas that count the
entries of a sequence (`Count`, in `Queues`).

*ViewAgreesTheorem.* What is shown of message `m` means little while frames are on their
way, so `Leading` speaks of what *will* be shown: `Leads(q, R, a, z)` says that reading
the queue `q`, one frame of which has the effect `R`, can take the first entry of `m`
from `a` to `z`; here with `Turns(m)` and `Front(m)`. The invariant `AgreeInv` says that,
when no listing is asked for or being made, every such `z` agrees with the store up to
the frames that are decided on and not written (`Agrees`, `Right`, `Decided`). `RowStep`
is the other side: whatever a goroutine does to a row that a reader can see, it has
decided to announce. `Orderly` says that a message about to be announced has its row,
and that every row has something to render; `QueryHolds` what stays true of the rows a
query has read. They may be outdated when the response is written, but not the rows with
the frames that are still to come, unless `skewed` records it. A frame that is pushed
is met at the end of the queue (`LeadsAppended`), one that is read at its front
(`LeadsTaken`); when all is quiet nothing is left to read and nothing decided, and
`Agrees` is the property. `~StoreMayFail` is needed because the code announces a message
whose `PutMessage` failed, and a deletion whose `MarkRevoked` failed. Of the constants the
proof takes `ViewAssumption` (finitely many messages, as any table has) and
`ContentAssumption` (a message has a text, or it is an image sent from here, which has
its file: `describeMessage` and `SendMedia` give every other one a text). A stored message
with nothing to render would not be shown.

`ChatListProofs` proves, for any store, contacts, acts and restarts, from the assumptions
of `Engine`, `GuiLink` and `ListAssumption` (what stands for a missing row is not an
entry):

| theorem | states | besides the assumptions on constants |
|---|---|---|
| `NotifierTheorem` | `LSpec => []NotifierAgrees` | |
| `ListTheorem` | `LSpec => []ListAgrees` | `~StoreMayFail` |

*NotifierTheorem.* `NotifierInv` follows what the store says through the places where it can be: every
`set_muted` in `reqs` has a `list_chats` behind it (`Relisted`), and when no listing is
asked for, the one under way has the store's muted chats, else the last one in the
socket has (`EndsAt`), else the notifier has. What the goroutines do to the chats
table meanwhile touches no muted flag (`MutedKept`, `DaemonPlain`), they push no listing
(`DaemonWrites`), and the names that `ListChats` finds leave the flags of its rows alone.

*ListTheorem.* The two sources of the list, listings and events, meet in `ListInv`. While
a listing is asked for, being made or about to be asked for (`Hot`: a `list_chats` in
`reqs`, a query, a history sync that runs or is on its way to the GUI) nothing is said of
the entries, because the response replaces them all. Otherwise every entry to which
reading the socket can lead chat `j` fits the table (`Leading`, with `Leads` and
`Moves(j)` as in `ViewAgreesTheorem`). `Fits(j, z)` says it field by field: the field is
the table's, or it is in `skewed`, or a goroutine has decided on the frame that
tells it: a message for the time (`Dated`), a badge for the counter (`Counted`). The
steps come in three kinds. A statement changes the table in no field of which its
goroutine has not decided to tell (`RowMoves`, kept by `FitsStored`). A push moves the
frame from what is decided on to the end of the socket, where `Says` records in `skewed`
whether it is outdated by then (`Pushes`, `FitsPushed`). A frame that is read is met at
the front (`EntriesRead`, `LeadsTaken`). A response establishes `Leading` whatever was there
before, since `skewed` then holds exactly the fields in which it differs from the table.
The muted flag has no event, and needs `Relisted`: the `list_chats` behind every
`set_muted` keeps the list `Hot` until it is shown. `~StoreMayFail` is needed
because a message whose `PutMessage` failed is announced all the same, and a badge
whose `SELECT` failed is not told.

Liveness, and properties that use ENABLED, are out of the prover's reach and are
model-checked only: `CommandsAnswered`, `ConnectedIsServed` and `Reconnects`.

## 5. What is not modelled

* *Login and Logout*: no page of the GUI calls them. What this means for a user
  whose codes have run out (nothing starts a new login) needs no model to see.
* *Contacts, groups, blocking, disappearing messages, presence of others*
  (`GroupInfo`, `ContactInfo`, `SetBlocked`, `SetDisappearing`, `SubscribePresence`):
  they hand a request to WhatsApp and its answer to the GUI, and keep no state.
* *`ListStarred`* and search: queries whose result is shown once.
* *Columns that only serve layout* (`media_w`, `media_h`, link previews, quotes, file
  names), and the schema migration that adds them.
* *The order of the chat list, pins, filters, the tray's total, desktop
  notifications*: derived from what is modelled, with calls of the desktop.
* *JSON*: frames and commands are records. The client's line buffer, and the
  partial line that a lost connection leaves in it, are below this.
* *`canonicalJID`*: messages that arrive before a mapping is known are stored under
  the hidden identity. When whatsmeow learns a mapping is outside this repository.
* *The settings page opened from a conversation*: it counts as leaving; opening a chat
  from it sends one more `set_active_chat` for no chat, before the one for the chat.
* *Installation, icons, the log file.*

## 6. What is left

1. Abstract specifications of the views (a list that eventually shows what is
   stored), implemented by `Conversation` and `ChatList`.
2. Several GUIs at one daemon in `Conversation`: the daemon has one `activeChat`
   for all of them.
