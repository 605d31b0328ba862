# Boka: a verification project

Boka is a Telegram userbot: `boka/` holds the bot (modules, commands, database,
inline bot), `boka_tl/` the client library it stands on, a fork of Telethon.
Nearly everything runs as tasks of one asyncio event loop, so two tasks
interleave only where one of them awaits; what makes the system hard is what may
have changed when an `await` returns, what the network did meanwhile, and what is
left when a task is cancelled or the process stops.

This directory models the parts of Boka that keep state between awaits: the
request transport, the update engine, the life of a client with its saved
position and borrowed senders, conversations, the module registry and the
database. TLC checks them on small instances; TLAPS proves their safety
properties for all values of the constants. `PROJECT.json` lists components,
runs, mutants, hazards and theorems, and says for every definition which lines of
the source it models.

## The system and its parts

| component | state | operations | talks to | hard behaviour |
|---|---|---|---|---|
| MTProto sender (`network/mtprotosender.py`, `messagepacker.py`, `mtprotostate.py`, `connection.py`) | send queue, pending states, session, loops, connection | `send`, `connect`, `disconnect`, `_reconnect`, keepalive, both loops, handlers of answers | client requests (futures), update engine (queue of updates), network | reconnection beside disconnection, answers of a dead session, refused containers |
| update engine (`_updates/messagebox.py`, `entitycache.py`) | a position per entry (account, secret chats, channels), gaps, differences in flight, deadlines | `process_updates`, `check_deadlines`, the differences and their answers | update loop | late, doubled and lost containers; a difference while updates arrive |
| update loop and dispatch (`client/updates.py`) | the queue of updates, updates to dispatch, tasks of handlers | `_update_loop`, `_keepalive_loop`, `_dispatch_update` | update engine, conversations, handlers, session | errors of a difference, the end of a connection in the middle |
| saved update state (`_updates/session.py`, `sessions/`) | position in the session, position in its file | save, commit, load | update loop, client base | a crash between two saves, a save of nothing |
| client base (`client/telegrambaseclient.py`) | the sender, borrowed senders with reference counts | `connect`, `disconnect`, `_borrow_exported_sender`, `_return_exported_sender`, clean-up | sender, keepalive | a lock held over awaits, a return after a reconnection |
| client requests (`client/users.py`) | flood waits | `_call` | sender | retry of what was done already |
| conversation (`tl/custom/conversation.py`) | incoming messages, tables of pending futures | `get_response`, `get_reply`, `get_edit`, `wait_read`, `wait_event`, `cancel` | update dispatch | a timeout beside an answer, two waits for one message |
| module registry (`boka/loader.py`, `types.py`, `modules/loader.py`) | modules, commands, watchers, raw handlers, loops | register, replace, unload, suspend, the collector | dispatcher, database | `on_unload` and `client_ready` awaited in the middle |
| command dispatcher, security manager, caches (`boka/dispatcher.py`, `security.py`, `tl_cache.py`) | counters of the rate limit, rights, cached entities | `handle_command`, `check`, `get_entity` | registry, database | rights and entities that are stale |
| database and pointers (`boka/database.py`, `pointers.py`) | the mapping, revisions, a saving task, file or Redis | `set`, `save`, rescue, `read`, pointers | file or Redis | shallow revisions, failures of one step, a crash |
| log to Telegram (`boka/log.py`) | buffered records, queues per client | `emit`, `sender` | inline bot | records that come while the sender awaits |
| inline manager (`boka/inline/`) | units with callbacks and expiry | forms, galleries, lists, answers | dispatcher | a unit that expires while it is used |
| generated TL layer, text entities, framing and encryption, start-up, configuration values, built-in modules, helpers | none, or a person's session | | | not state machines: see "What is not modelled" |

What makes each part correct:

* **sender**: a request is sent until it is answered, kept in one place, never
  executed twice by accident inside one session; loops and reconnection never
  leave a user connected with nobody reading; a disconnection leaves nothing.
* **update engine**: every message of a followed chat is handed over once and in
  order of positions, whatever was lost or repeated; a difference ends.
* **saved state**: what is lost or repeated when a client stops is what the code
  exposes knowingly; the saved position does not go back.
* **client base**: a sender is counted as often as it is lent, nobody cuts one that
  is lent, idle ones are closed, a silent connection is noticed.
* **conversation**: a message resolves the waits it is for, in order and once;
  nobody waits on in a conversation that is over; the handlers get every update.
* **registry**: one version of a module is loaded; a loop stops when its module
  goes; what the core has registered stays with it; registrations agree with the
  modules, and what was unloaded leaves none.
* **database**: what `save` returned for is what the next start reads; a rescue
  costs nobody what was not broken.
* **dispatcher, security, log**: a counter returns to zero, a revoked right is gone
  within the time the cache promises, every record is sent once. Not modelled.

## Modules

| module | models |
|---|---|
| `UpdateFeed` | abstract: what the update engine promises the handlers |
| `MessageBox` | update engine and update loop; implements `UpdateFeed` |
| `Rpc` | abstract: what the sender promises those who call `send` |
| `Sender` | MTProto sender with packer, session reset and connection; implements `Rpc` |
| `ExportedSenders` | senders of other data centers, lent under one lock (open module) |
| `SavedState` | the position of the updates in memory, session and file (open module) |
| `Client` | composes the two with connect, keepalive, disconnect and crash |
| `Conversation` | conversations of a chat and the dispatch of updates through them |
| `Registry` | modules, commands, watchers, raw handlers, loops, the collector |
| `Database` | memory, revisions, file and Redis |
| `MCMessageBox`, `MCSender`, `MCClient`, `MCConversation`, `MCRegistry`, `MCDatabase` | instances for TLC |
| `UpdateFeedProofs`, `MessageBoxProofs`, `SenderProofs`, `SenderOnceProofs`, `ClientProofs`, `ConversationProofs`, `RegistryProofs`, `DatabaseProofs` | theorems |

### MessageBox

Variables follow the fields of `MessageBox`: `known`, `pts`, `dl` are `map`,
`gap` and `gapDl` are `possible_gaps`, then `getting_diff_for` (`getting`),
`next_deadline` (`nextDl`) and `seq`; `hashes` is the part of the entity cache
the box looks at. `pc` is where `_update_loop` stands: at its head, waiting for
the queue (`wait`), for an account difference (`acc`), for a channel difference
(`chan`), inside `process_updates` (`work`, then `gaps`), or ended by an error
that disconnects (`down`). Other tasks, the clock and the server step only while
the loop awaits. `process_updates` is unrolled, one step per call of
`apply_pts_info`; nothing interleaves with those steps.

The server numbers events (`ServerEvent`), pushes any set of what it numbered in
any container, so that containers come late, twice, out of order or never
(`Receive`, `SkipContainer`, `LoseContainer`), and answers a difference
truthfully, in one piece, in slices, empty, too long, with an error or not at all
(`Acc*`, `Chan*`). Time is counted down in ticks; a deadline of 0 has expired.
Where Python's iteration order over a set decides (which entry becomes
`next_deadline`, which channel is asked first) the model chooses freely.
The history variables `base`, `applied` and `twice` say where an entry was taken
up, what the dispatcher got since then and what it got again.

`UpdateFeed` is the promise without gaps, deadlines and requests: a reader per
entry that moves forward over the server's log and delivers every message it
passes. `ImplementsFeed` instantiates it with `end <- srv`, `pos <- pts`,
`delivered <- Delivered`.

### Sender

`queue` is the packer's deque, `pending` is `_pending_state` in its order of
insertion, `mid` and `cont` the `msg_id` and `container_id` of the states, `fut`
their futures, `ping` is `_ping`. `user`, `reconnecting` and `conn` are the flags
of the sender. `sendLoop`, `recvLoop`, `rt` (the reconnection task) and `dis` (a
call of `disconnect`) say at which `await` each task stands; a step runs a task
from one `await` to the next. `outq`, `held` and `inq` are the one-place queues
of the `Connection` and the packet that waits for room in one of them. `sock`,
`execs` and `refused` are the world: whether bytes get through, what the server
executed in this session, what it refuses and has not told yet. A connection is
noticed to be lost by its reading task (`Notice`) or, when that one waits for room,
by its writing task (`WriteFails`); a packet that cannot be read is reported like a
lost connection, though the connection goes on (`Garbled`).

A message id is the number of the attempt in the session; a container is known
by the set of its messages; how many requests fit into a container is chosen
freely. A reconnection that awaits is cancelled at any of its awaits by
`disconnect` (`CancelReconnect`); where the helper `_cancel` swallows the
cancellation, `disconnect` waits for the reconnection to end. Packets and answers
still in the connection's queues when the session is reset are marked `old`: the
server and the client drop them. `Keepalive` is the loop of `client/updates.py`,
which awakes every minute; that a working connection answers a ping within that
minute is an assumption (`Unanswered`), without which it would reconnect for
ever by design.

`Rpc` is the promise without messages, queues, containers and reconnections: a set of
requests this session of the server has executed (`ran`), a future per request, and
reasons for a future to be resolved: the result or error of an executed request
(`Return`), a refusal of one that was not (`Refuse`), the caller (`GiveUp`), the end
of the connection (`Close`). A session executes nothing twice and nothing whose
outcome was told (`Execute`); a new session (`Renew`) knows of nothing, so that a
request whose answer was lost with the old one may run again, which the code cannot
help. `ImplementsRpc` instantiates it with `open <- user` and `ran <- Ran`, the
requests among the executed messages. What it forbids is an answer that reaches the
wrong future: one of an earlier session, one repeated by the server, one for a
request that was refused and sent again, a second outcome for a cancelled future.

### Client, ExportedSenders, SavedState

`ExportedSenders` follows `_borrowed_senders` (`table`), the `_ExportState` of a
sender (`count` is `_n`, `flagged` is `_connected`, `old` says that `_zero_ts` lies a
minute back) and the lock, which everybody holds over awaits. A borrower (`task`)
asks, waits for the lock, creates a sender and lets its authorization come over the
main connection (`Made`, `Exported`, `ExportFails`) or connects one that is closed,
uses and returns it. A return looks the state up by data center again, as the code
does. The keepalive cleans (`CleanVisit`, `CleanMark`), `disconnect` closes
(`CloseOne`); both await in the middle, and the keepalive is cancelled there.

`SavedState` abstracts the message box to one position over numbered events. `Take`
is one round of the update loop: the events between the old and the new position go
to tasks of handlers, which end by themselves or are cancelled. `TakeInVain` is the
round whose update loop ends before it hands over what the position has passed.
`written` is the position in the session object and `committed` the one in its file;
`FlushStates` saves when the entity cache is full, `Commit` is the commit of another
caller. `exposed`, `jumped` and `reset` are histories that say which events the code
has put at risk, skipped at a login, or set the position back behind.

`Client` composes them: `main` says how far `_disconnect_coro` has come, `keepalive`
where the keepalive loop stands. `silent` is a main connection that is dead without
an error, which only the keepalive's second ping notices; `FallsSilent`, `Pong` and
`Drop` are what `Sender` models in detail. Nobody connects while a disconnect is
under way.

### Conversation

A wait is a future and whoever awaits it: `pending`, awaited by nobody
(`unwatched`, between the calls of `wait_event`), or ended. `table[c][k][t]` are the
dicts of pending futures by kind and target message, `index` the two dicts of
indices, `custom` the list of event waits, `incoming` and `lastRead` the fields of
that name. `GetMessage` includes the early answer from `incoming` and the
replacement of an earlier wait for the same message; `TimesOut` cancels the future
and leaves it in the tables, as `asyncio.wait_for` does here. `flight[u]` is one run
of `_dispatch_update`: which conversations it has still to serve (`todo`), which
filters it still awaits (`checks`), the size of the set when the iteration began and
whether it has changed. An exception of a conversation ends the run (`broken`), so
that the event handlers never see the update.

### Registry

`modules`, `commands`, `watchers` and `raw` are the collections of that name (a
handler is the instance it is bound to), `coreCommands` is `_core_commands`, `running`
are the instances whose loop runs, `stage` is how far `send_ready_one` came with an
instance. The first state is the one in which `send_ready` has started `client_ready`
of the core (`Core`) and of the modules from files (`Files`), all at once: nothing is
registered yet, and they return in any order.
A load is the task of its instance: `Load` appends it or stops at an older version whose
`on_unload` it awaits, `Overtake` goes on with the iteration over `modules` at the
position where it stopped. `Ready`, `Suspend`, `Fail`, `SelfUnload` and `FailChecks` are
the ends of `client_ready`; after the last two (`SelfUnload`, and `LoadError` or
`ScamDetectionError`) `load_module` calls `unload_module` with its own class (`Withdraw`).
`Unload`, `Unloaded` and `UnloadFails` are `unload_module` around the `on_unload`
it awaits, which takes every instance whose class or display name is the name given
(`Called`). `Collect` is one round of `_junk_collector`.
Four histories are for the properties only: `early` (commands an instance has registered
before the core had), `unloaded` (instances `unload_module` is through with), `late`
(instances whose `client_ready` returned when they were out of `modules`) and `raised`.

### Database

A dict of an owner is an object with an identity (`heap`), so that a revision, a
shallow copy, shares it with the memory (`mem`). `broken` are the values that became
unserialisable in place; `Spoil` and `Mend` are the modules that hold them.
`Save` includes the rescue from a revision with its `RuntimeError`, the new revision,
the write of the file, which may fail, and the start of the task that saves to
Redis. That task sleeps, takes a snapshot, writes and is forgotten (`Snapshot`,
`Publish`, `SaveDone`); what fails in it leaves `_saving_task` set. `Crash` may come
at any point, also in the middle of a write to the file (`TORN`), and `Restart`
reads what is stored.

## Runs

| run | question | distinct states |
|---|---|---|
| `box_account` | account and secret chats: type, `NoLoss`, `AtMostOnce`, `Monotone` | 828 800 |
| `box_live` | account and a channel, taken up, lost and taken up again: `NoRaise`, the refinement, `GapResolved` and `DiffEnds` under fairness | 85 602 |
| `box_catch_up` | violated: the edits a difference brings are skipped | |
| `sender_safe` | breaks, refusals, keepalive, a caller that gives up: type, `OnlyUntoldForgotten`, `KeptOnce`, `OncePerSession`, `Operational` | 3 134 787 |
| `sender_leave` | disconnection at any time, a second connection, refusals, callers that give up: `CleanEnd`, the refinement | 1 020 039 |
| `sender_live` | `Answered`, `Settles` under fairness | 35 004 |
| `client_senders` | two borrowers, keepalive, silence, drop, disconnect, reconnect: `Lent`, `LeftClean`, `IdleClosed`, `SilenceNoticed` | 424 100 |
| `client_saved` | events, handlers, saves, three connects, a crash: type, `OnlyExposedLost`, `TwiceOnlyAfterReset`, `SavedForward` | 1 872 655 |
| `conversation` | waits of all kinds, messages, reads, timeouts, leaving, overflow: type, `Dispatched`, `InOrder`, `NoneLeft` | 711 390 |
| `registry` | start-up with a core module and one from a file, two more versions of it, a double of the core module, an unload command: type, `OneOfEach`, `LoopsLeft`, `CoreKept`, `StuffRemoved`, `Settles` | 235 921 |
| `registry_unload` | violated: a raw handler stays after an unload | |
| `database` | sets, deletions, restores, values spoiled in place, failures and a crash, file and Redis: type, `InStep`, `StoredForward`, `RescueKeeps`, `Flushed` | 208 215 |

`sender_leave` and `conversation` say `CHECK_DEADLOCK FALSE`: both systems may
really stop, when everybody was connected and disconnected, or sent and awaited, as
often as the bounds allow. No other run does.

Several actors at once (account, secret chats and channels in one message box; a
sender that is left with final refusals and two requests) have no run of their own:
the state spaces are large, and `NoRaise`, `NoLoss`, `AtMostOnce`, `Monotone`, the
refinements, `CleanEnd` and `OnlyUntoldForgotten` are proved for any number of them.

**Bounds.** `MaxPts` lets an entry have two positions after the start, so that
one update may be missing before another and one event of `pts_count` 2 may
overlap two of 1; a third position adds no new relation between an update, the
position and a gap. `MaxBatch` 2 puts a missing update and the one that resolves
it, or two entries, into one container. `MaxSeq` 1 makes a container be behind,
next or ahead. Two ticks of `NoUpdatesTimeout` and one of `GapTimeout` order the
two timeouts as the code does; equal deadlines occur too.
In the sender, two requests make batches, containers and the order between them;
one break (or unreadable packet), one refusal and two connections are enough for
every pair of "what happened before" and "what the handler does now"; pings and
reconnections are not bounded. Requests are one in `sender_leave` and `sender_live`,
where the actors that interfere are connection tasks, not requests.
In the client, two borrowers make one wait for the other's lock or share a sender,
two senders let an earlier one be replaced while it is lent, and two connects let a
borrower return after a reconnection; three events let a position be behind, at and
ahead of what was saved; three connects let an older loop, a newer one and a failed
connect meet; one crash is enough, since a process knows nothing of earlier ones.
In a conversation, two waits make two kinds, two targets or one entry taken twice;
`MaxIncoming` 2 lets a third message overflow; three updates may be dispatched at
once. One conversation is checked; `Dispatched`, `InOrder` and `NoneLeft` are proved for
any number, which the changed set during an iteration needs.
In the registry, three versions of a module overtake each other. The first comes from a
file and wants a command of the core: it is refused or accepted, as the core is ready
before it or not. `k1` has the class of a core module, `m2` the display name of one, so
that an unload by name meets two classes. One module has two raw handlers, which is
what skipping needs, and two watchers, which are removed from a copy of their list and
must not be skipped. `MaxLoads` 4 lets two instances be loaded beside the two of the
start-up: one overtakes, or is unloaded, while another is on its way. In the
proofs it is any number.
In the database, one owner may be rescued at the cost of another, three copies let a
revision and the memory hold different dicts, one task may run while another failed,
and three saves are needed to be late, to be in time and to be after a failure.
`MaxRevisions` is 1 in the run and any number in the proofs.

**Fairness.** `MessageBox`: the event loop runs the update task (weak fairness of
its steps), time passes (strong fairness of `Tick`, since the loop is not always
waiting), and a server that is asked over and over answers in full at last
(strong fairness of the empty, final and banned answers); nothing says that a
missing update ever comes, which is why `GapResolved` rests on the deadline.
`Sender`: weak fairness of each task, strong fairness of a successful attempt to
connect (`boka/main.py` sets `connection_retries=None`, retry without end) and of
the server's answers; nothing makes a dead connection notice, so `Answered` rests
on the keepalive.
`Client`: weak fairness of the keepalive, the clock, the closing of senders and of
whatever awaits an answer with the lock held; strong fairness of the keepalive's
turn at the lock, because `asyncio.Lock` serves first come, first served. An
authorization over a silent main connection is not answered, which is why both
properties exempt a client in which a task creates a sender meanwhile (`Blocked`):
it holds the lock the keepalive waits for before it pings.
`Database`: weak fairness of the saving task. `Registry`: weak fairness of
`Collect`, a loop with a sleep; nothing says that `on_unload` or `client_ready`
return.

## Findings

* **Edits and deletions in a difference are skipped** (`CatchUpComplete`).
  `apply_difference_type` stores the new position before it looks at the other
  updates, which then all look handled (`messagebox.py:781`, 618, 629); channel
  differences likewise (909). New messages are not affected, which is why
  `NoLoss` is about messages.
* **A raw handler outlives its module** (`AllStuffRemoved`).
  `unregister_raw_handlers` removes from the list it iterates over
  (`boka/loader.py:1366`), so the handler behind a removed one is skipped;
  `unload_module` promises to "Remove module and all stuff from it" (1285). Commands,
  watchers and loops do go (`StuffRemoved`), and where no module has two raw handlers
  the raw handler does too (`OneHandlerGoes`). All three leave out an instance that was
  unloaded before its own `client_ready` returned, see below: the trace of this finding
  does without it.

### Behaviour the properties allow for

The properties above hold with exceptions that are written into them or into the
bounds of their runs. Each exception is something the code does:

Message box
* An expired deadline may not be marked: `set_state` moves the deadline of the entry
  `next_deadline` names without choosing another (`messagebox.py:371`, 383).
* `load` clears the map but neither `getting_diff_for` nor `possible_gaps` (245).

Sender
* `disconnect` cancels "all pending requests" but not those still in the send queue
  (`mtprotosender.py:183`, 383).
* A ping survives `disconnect`: its state is dropped while `_ping` stays set, and
  after the next `connect` each keepalive reconnects.
* `disconnect` during a reconnection makes the sender deaf: `_reconnecting` stays set
  when the task is cancelled before line 424; after the next `connect` both loops end
  at once and no reconnection can start. That is why `Operational` is proved, and checked,
  without such a call.
* When a refusal is final and one request of the refused container was cancelled by
  its caller, `set_exception` raises and the rest of the container is forgotten
  (881-885): their callers wait for ever. `OnlyUntoldForgotten` says that this is the
  only step that forgets a request; without final refusals, or when nobody cancels,
  none does (`Tracked`).
* A reconnection queues what was pending behind what was never written (468), so of
  two requests sent in order the second may be written first.

Client
* The position is that of the updates processed, not of those handled: what the
  handlers have in hand when a position is committed, and what the update loop took
  when the connection was gone, is lost if the process stops (`exposed`).
* A client that never learned a position saves zeros when it is disconnected
  (`telegrambaseclient.py:764`).
* `connect` after the sender gave up loads an older position over the one in memory,
  and leaves the earlier update loop running beside the new one (`strays`).
* The sender of an authorization that fails after it has connected stays connected
  and nobody knows it (909, `orphans`).
* A borrowed sender whose reconnection failed for good is lent again as if it were
  connected: `need_connect` looks at the state only (935).
* A return after a disconnect and a new connect decrements the count of another
  sender, or raises KeyError (955, `misreturned`).
* A task that creates a sender over a silent connection holds the lock the keepalive
  needs before it can ping (`Blocked`).

Conversation
* A wait that timed out leaves its cancelled future in the dict. The next message
  sets its result, which raises in `_dispatch_update`: no handler gets that update.
  So does a message after `cancel` of a conversation in use, and each one when a
  conversation is full: `_cancel_all` sets exceptions a second time.
* Two updates whose filters are awaited for one `wait_event` both set its future.
* `wait_read` is answered by the first read, also of earlier messages: the comparison
  is `msg_id >= self._last_read` (440); the docstring says "to be marked as read".
* Leaving a conversation reaches neither reads nor waits whose dict entry a later
  wait for the same message has taken (472).

Registry
* `SelfSuspend` promises that commands and watchers "will not be registered"
  (`types.py:722`); the collector registers them at its next round.
* Loops are started before `register_commands` may refuse the module and are then
  stopped by nobody; the loop of an instance that was overtaken during its
  `client_ready` starts all the same; one whose `on_unload` raises goes on.
* An instance that is unloaded before its `client_ready` returns comes back when it
  does: `send_ready_one` (1256-1272) does not look at `modules`, starts the loops and
  registers commands, watchers and raw handlers after `unload_module` was through
  (`late`). The collector removes the commands and watchers at its next round; the raw
  handlers and the loops stay for good. Neither `StuffRemoved` nor the finding is about
  such an instance.
* `_core_commands` grows as each core module reaches `register_commands` (853), and
  `send_ready` does not make the others wait for it (1182). A module from a file whose
  `client_ready` returns before that of a slow core module is accepted with a command of
  it (`early`), and the collector then gives it the command for good, since the last of
  `modules` wins. A core module that suspends itself or fails never protects its commands.
  An instance refused by a load meets this at the next start: its file was
  written before (776-785) and stays.
* `unload_module` also matches the display name, and removes from the list it iterates
  over: of two neighbours of one name it takes the first only.
* An unload that ends after a newer version was loaded removes the registrations of
  the newer one, by class name, until the next round of the collector. `SelfUnload`
  of an instance that was overtaken unloads the newer version.
* `InfiniteLoop.stop` leaves `_task` set, so that a loop which was stopped cannot be
  started again (`loader.py:229`, 240).

Database
* Revisions are shallow copies: what breaks a dict in place breaks it in every
  revision, and a rescue may find none.
* With sixteen revisions it is the newest that is dropped, since `pop` takes the last
  (`database.py:267`): a rescue later goes back to the oldest fifteen.
* A save to Redis that raises never resets `_saving_task`: nothing is saved to Redis
  any more in this process. A `set` while the task is past its snapshot returns True
  and is saved with the next one only (`missed`).
* The file is truncated and written in place; a crash leaves a part of it, which the
  next start reads as an empty database.

Not modelled, met while reading: `log.py:411` empties a buffer that may have got
records during an await; two pointers to one key overwrite each other; the rate
counter of the dispatcher is kept in a local variable (`dispatcher.py:165`).

## What is proved

Each module of proofs follows one scheme: an inductive invariant `IInv`, a lemma per
conjunct and group of actions (or per action), `Init => IInv`,
`IInv /\ [Next]_vars => IInv'`, and the theorems from `IInv`. Assumptions are only the
named `ASSUME`s of the modules, which TLC evaluates in every run. Sets of nodes, tasks,
keys and messages and all bounds are arbitrary.

**`MessageBoxProofs`** assumes that entries are distinct, timeouts positive with the
gap's the shorter, that the server starts somewhere, and `pts` of the account is not 0.

    IInv == TypeOK /\ Queued /\ ServerOK /\ Positions /\ IdleOK /\ NoRaise /\ Handed

None of the invariants is inductive alone. That nothing is handed over twice
needs `Handed` (what was handed over lies behind the position), which needs
`ServerOK` (the ranges of an entry's events do not overlap, so an event that fits
the position starts at it) and `Queued` (what waits in a batch or a gap is
something the server sent: a forged `pts` could jump). `Positions` (no position
is ahead of the server's) keeps a difference from going back. `IdleOK` says that
nothing of a `process_updates` call is left outside of it. `Kept` says of one step
that it is a step of the feed, that no position goes back and that `Handed` goes on to
hold; it is what the refinement, `NeverBack` and the last conjunct share.

| theorem | says |
|---|---|
| `TypeCorrect` | `Spec => []TypeOK` |
| `NeverRaises` | `Spec => []NoRaise`: no RuntimeError, KeyError or assertion of the box |
| `HandedOnce` | `Spec => []AtMostOnce` |
| `NeverBack` | `Spec => Monotone` |
| `Refinement` | `Spec => ImplementsFeed` |
| `NothingLost` | `Spec => []NoLoss`, from the feed's theorem through the refinement |
| `FeedCorrect` (`UpdateFeedProofs`) | the abstract feed owes nothing behind its position, delivers nothing ahead |

**`SenderProofs`** and **`SenderOnceProofs`** assume of the sender's parameters only that
a ping is no request and that calls are sequences of new requests, each of which gets a
`RequestState` of its own (`send`).

| theorem | says |
|---|---|
| `TypeCorrect` | `Spec => []TypeOK` |
| `EndsClean` | `Spec => []CleanEnd` |
| `StaysOperational` | unless `disconnect` is called during a reconnection, `Spec => []Operational` |
| `OnlyUntold` | `Spec => OnlyUntoldForgotten` |
| `NothingForgotten` | without final refusals, or when nobody gives up, `Spec => []Tracked` |
| `KeptInOnePlace` | `Spec => []KeptOnce` |
| `ExecutedOnce` | `Spec => []OncePerSession` |
| `Refinement` | `Spec => ImplementsRpc` |
| `FuturesResolvedOnce` | a resolved future never changes, and becomes done only where its request was executed: from `Rpc` |

The two conditions are needed: what happens without them is told above, and TLC finds
it as soon as they are dropped.
`CleanEnd` is about the moment when everybody is done; its invariant `ControlInv`
says what holds in between. `ReconnectionOK` and `DisconnectionOK` tell from where
those two tasks stand what is left of the loops, the connection and the pending
states, so that whichever of them comes last, which may be the reconnection, finds
nothing it would leave behind; `LeftOK` is `CleanEnd` while a reconnection may still
run. `StayingOK` adds to `Operational` that the flag `_reconnecting` is down when
the loops are started again, without which they would end at once.
`OnlyUntoldForgotten` needs no more than the types (`ForgottenStep` looks at every
step that moves or resolves something); its proof rests on `WithoutFacts`, what
deleting from `_pending_state` leaves. `Without` is a recursive function, and its
facts are proved by an induction over a set of numbers (`Induction`), which follows
from the well-foundedness of `<`. `Tracked` follows where that one step cannot happen:
`NothingBad` says that no refusal is final, `CancelledOK` that a future is cancelled
only together with what is pending, when nobody gives up.

`KeptOnce` and `OncePerSession` need each other and more, `OnceInv`: a request is
executed once because a message that was written in this session is in one of five
places (`Placed`: under way, waiting for room, refused, executed, or told and not read
yet), never in two, and an item is queued only when none of its messages is in any
(`PlacesOK`). So a refusal, which puts an item back into the queue, takes its message
from the only place it was in; that holds for a whole container because `cont` names a
message of the item (`ContOK`) and no message is refused in two sets (`RefusedOK`).
A reconnection may queue everything again because the new session knows no message
(`AskedOK`), whatever is still under way from the old one. The ping goes through the
same queue without a future, so `PingOK` says what `KeptOK` says of requests: there is
none unless one is awaited. `PlaceStep` shows of every action where it moves messages;
the other conjuncts follow it.

The refinement adds two conjuncts to that (`RpcInv`). `OwedOK`: a message the server
may still execute is of a request whose caller was told nothing; it is kept because
an answer resolves the request of an executed message, of which there is no other
(`AnsweredFact`), and a final refusal that of the message it names, which is in no
other place (`RefusedFact`). `AnswersOK`: an answer that is not old names one executed
message; the session that executed it ends only with a reset, after which the answer
is old. `RpcStep` then maps every action to a step of `Rpc` or to a stutter:
`Transmit` to `Execute`, `HandleResult` to `Return`, `HandleBad` to `Refuse`, the reset
to `Renew`, and whatever ends a connection to `Close`.

**`ClientProofs`**, with `IInv == TypeOK /\ PositionsOK /\ CoverOK /\ AgainOK /\ LockOK
/\ TableOK /\ CountOK /\ LinkOK /\ LeftOK`.

| theorem | says |
|---|---|
| `TypeCorrect` | `Spec => []TypeOK` |
| `NothingElseLost` | `Spec => []OnlyExposedLost` |
| `NothingElseTwice` | `Spec => []TwiceOnlyAfterReset` |
| `NeverSavedBack` | `Spec => SavedForward` |
| `CountedAndKept` | `Spec => []Lent` |
| `NothingLeftOpen` | `Spec => []LeftClean` |

`PositionsOK` orders the committed, the written and the actual position, with the
zeros of an empty client as the exception. `CoverOK` is `OnlyExposedLost` also for what
is written and committed, which is where the next connect or start goes on; `AgainOK`
says where events may be that were given and lie ahead of the position. `LockOK` ties
the lock to the one task that stands behind it; with `TableOK` (a sender is in the table
once, and not while it is being made) it keeps the clean-up from a sender somebody is
about to get, and `CountOK` counts those who have one. `LeftOK` says which senders a
disconnect under way has still to find.

**`ConversationProofs`**, with `IInv == TypeOK /\ UpdatesOK /\ WaitPart /\ LeftOK /\
FreshOK /\ CalmOK`: `TypeCorrect`, `HandlersReached` (`Dispatched`), `NobodyLeft`
(`NoneLeft`), `AnsweredInOrder` (`InOrder`). `WaitPart` says that what a dict or the list
of events holds is a wait
of that conversation, kind and target. `LeftOK` is `NoneLeft` for every conversation
that is not open, and needs `FreshOK` for those that were never entered. `CalmOK` says
that while nothing disturbed the conversations, every entry of an open one is a future
that is not done, so that setting it cannot raise, that no iteration finds its set
changed, and that what an update has still to visit is open.

`InOrder` needs a second invariant beside `IInv`:

    OrderInv == ChecksOK /\ UpToOK /\ OnceOK /\ FirstOK /\ DeadOK /\ AliveOK /\ OpenOK /\ ClosedOK

The index of a target message covers every answer given for it (`UpToOK`), which makes
the next one new (`OnceOK`). In an open, undisturbed conversation no message up to the
index is left out, and the index is at the end of `incoming` as long as somebody waits
(`OpenOK`): a message that comes then is the next one and answers the wait, while an
early answer takes the first message behind the index that follows the target. Once the
conversation is left the index may run ahead, since messages go on to arrive and the
entries are dead (`DeadOK`), so only what lies before an answer is still complete
(`ClosedOK`). `Moves` says what one step may do to the answers for one target; that it
keeps the invariant is shown once (`OrderKept`), and every action is shown to be such a
move.

**`RegistryProofs`**, with `IInv == Types /\ TasksOK /\ StagesOK /\ OneOfEach /\
LoopsLeft /\ CoreKept`: `NeverTwice` (`OneOfEach`), `NoOtherLoopLeft` (`LoopsLeft`),
`CoreCommandsKept` (`CoreKept`), `TypeCorrect` (`TypeOK`), `CommandsAndWatchersGo`
(`StuffRemoved`), and `OneHandlerGoes`: `AllStuffRemoved` where no module has two raw
handlers. The last two are about instances that are `unloaded` and not `late`.
`TasksOK` says of a task
that awaits `on_unload` in the midst of its iteration that its victim is no core module
and, when it overtakes, of the class of the instance, which is not in `modules` yet:
if the victim is still there when the await returns, it is the only version
(`OneOfEach`), so that the new one may be appended. `StagesOK` says which stages loaded
modules, unloaded ones and those with a running loop may have, that an instance that is
loaded was not unloaded, and that an instance which was accepted holds no core command
but those it registered early: what the collector takes from it is therefore covered by
`CoreKept`. Minimum, maximum and the removal of one element, which the code's collections
are built from, have lemmas of their own.

What is registered needs a second invariant, `RInv == Lists /\ Registrations /\
RawOnce`. `Registrations` says that what is registered for an unloaded instance makes it
a late one: the collector takes commands and watchers from loaded instances, an
unloaded one is loaded no more (`StagesOK`), and only its own `Ready` adds something for
it, which makes it late. `RawOnce` is why one raw handler is removed
safely: a load removes those of the class before it adds its own, so the list never
holds two of one class and the iteration has nothing to skip. The lists are built by
concatenation (`FlattenSeq`), a function that recurses on a number, and by the
iteration that skips behind what it removes (`Skimmed`), another; existence, type and
elements of both are proved by the induction over a set of numbers used for the sender
(`FlattenFacts`, `KeptFacts`, `SkimmedFacts`).

**`DatabaseProofs`**, with `IInv == TypeOK /\ OneTask /\ OnTheWay /\ InOrder`:
`TypeCorrect`, `SavedIsStored` (`InStep`), `NeverStoredBack` (`StoredForward`),
`RescueTakesNothing` (`RescueKeeps`). `OneTask` (only the current task may still write),
`InOrder` (what it carries
is not older than what is stored) and `OnTheWay` (when the last save returned True and
was not late, memory is stored, on its way, or will be read by the task) are what
`InStep` and `StoredForward` leave out.

**Only model-checked**: the liveness properties (`GapResolved`, `DiffEnds`, `Answered`,
`Settles` of the sender, `IdleClosed`, `SilenceNoticed`, `Flushed`, `Settles` of the
registry): fairness and ENABLED are out of the prover's reach. Every invariant and every
action property of a run is proved.

## What is not modelled

* In the update engine: dates, `own updates` that a request returns, the reload
  of the state after a new login.
* In the sender: acknowledgements, the log-out acknowledgement, future salts,
  destruction of session and key, transport errors 404 and 429, containers of
  the server (their messages are handled one by one), time offset, sequence
  numbers and the window of seen ids, sizes of packets, generation of a key.
  `connect` is called when nothing of an earlier connection runs, and one whose own
  attempts all fail (`mtprotosender.py:309`) is left out.
* In the client: `_switch_dc`, which disconnects and connects to another data center,
  CDN senders (nothing creates one), proxies, what the constructor sets up.
* In conversations: `get_edit` (to edits what `get_response` is to messages),
  exclusive conversations and their `AlreadyInConversationError`.
* In the registry: aliases, inline and bot handlers, `togglemod`, the reload of the
  core, libraries, the import of a module's source; a load before `send_ready` has
  started, whose instance would have `client_ready` called twice.
* In the database: pointers (each write replaces the whole value), assets,
  `remote_force_save`, which nothing calls; a save that Redis applied although the
  answer was lost.
* Command dispatcher, security manager, caches: one message runs one handler and what
  they keep is read and written without an await in between. Log and inline manager:
  what is hard in them is the interplay with another library's bot API.
* Not state machines, left out for good: the generated TL layer, text entities,
  framing and encryption, event builders but the album, validators and
  translations, the client's shorthand methods, start-up, built-in modules,
  helpers. A checker of states has nothing to say about a format. They are by far the
  most of the lines: the TL layer, with its types, functions and errors, is two thirds
  of the repository, so the share of mapped lines stays small whatever is modelled.

## What could follow

1. `Session`: message ids, sequence numbers, time offset and the window of remembered
   ids, with a theorem that ids grow when the clock goes back.
2. `Client` over the full `MessageBox`: which entry's position is lost by which save.
3. `LogSender`, the inline units, the pointers over `Database`.
