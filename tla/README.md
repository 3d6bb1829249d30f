# zowpy: models, checks and proofs

zowpy is an asynchronous WhatsApp client: one `WhatsAppClient` per account on
one asyncio event loop, a Noise-encrypted stream over TCP, Signal sessions over
an SQL database.  This directory holds TLA+ models of the parts that carry its
own logic, the TLC runs that check them and TLAPS proofs.  Definitions are
translated from the code under `src/zowpy`; `PROJECT.json` maps each of them to
its lines, and lists the components and the hazards.

## The system

| Part | State | Operations | With whom | What is hard |
|---|---|---|---|---|
| TCP bridge, segmented stream, connection (`core/bridge`, `noise/stream`, `core/connection`) | byte buffer, read and write queue, cancelled, connected | two loop tasks, `read_segment`, `write_segment`, `cancel`, `stop`, `disconnect` | socket below, noise transport above, emitter | segments cut anywhere; EOF, reset and close race in two tasks |
| Client life cycle (`core/client`, `core/events`) | references to connection, bridge, stream and tasks; `_running`; handlers; emitter shut | `connect`, `disconnect`, `reconnect`, event handlers | all others | the three overlap, and resume over replaced references |
| Message loop (`client._message_loop`, `processors/router`) | priority queue of 5000, 15 workers | receive, enqueue, process | stream, processors | ties, overflow, workers that wait for what is behind them |
| Stanza coding (`utils/coder`, `utils/token_dict`) | none | `protocolTreeNodeToBytes`, `bytesToProtocolTreeNode` | message loop, every send | lengths and packed forms that change at a boundary |
| IQ answers and key requests (`processors/iq_response`, `client._get_keys_for_recipient`) | callbacks with expiry, futures | register, answer, expire, cancel | message loop, senders | late answers, two requests for one contact, disconnect while waiting |
| One-time pre-keys (`db/manager`, `db/models/prekey`, `client`) | rows with a sent mark, `_unsent_prekeys` | `level_prekeys`, `_check_and_flush_prekeys`, `processV3`, `remove_prekey` | server, session cipher | ids wrap, uploads are lost or answered late |
| Sessions (`axolotl/*`) | a record per contact: current state, up to 40 archived ones, each with up to 5 receiver chains and skipped keys | `encrypt`, `decryptMsg`, `decryptPkmsg`, `processPreKeyBundle` | peer | lost, late and repeated messages; both ends start sessions |
| Session storage (`db/store`, `db/models/sessionkey`) | one row per contact and device | `load_session`, `store_session` (delete, commit, insert, commit) | workers and sends | no lock, and awaits between load and store |
| Receiving (`encryption/receiver`, `processors/message`, `client._process_pending_messages`) | pending messages of each conversation | decrypt, keep pending, ask for keys, process pending | sessions, key requests | one message decrypted twice, lists that change while processed |
| Sending (`core/client`, `encryption/sender`) | attempts, futures of `send_empty_message` | send to a contact, a group, a list; `send_empty_message` | key requests, sessions, transport | failure at each await, further attempts, deleting a working session |
| Sender keys (`axolotl/groups`) | a record per group and sender | `encrypt`, `decrypt`, `process` | group sends, members | overlapping sends, skipped keys, late distributions |
| Messages (`protocol/entities/attributes`, `protocol/historysync/attributes`, `proto/messages`) | none | converters, `MessageAttributesToDict`, event parsing | senders, receivers, application | two hand-written converters per class |
| Composing (`api/client`, `core/builders`, `core/client.send_*`) | none | `send_text`, `send_image`, `edit_message`, ... | converters, uploads | arguments lost on the way |
| Account operations (`core/handlers`, `core/builders`) | profile in memory and on disk | about thirty queries and settings | IQ answers | answers that fail in part, timeouts while the answer is handled |
| Media (`core/media`, `core/builders/*_builder`) | shared media connection, temporary files | fetch, encrypt, `get`, POST | IQ answers | one lock, failure at each step |
| App state (`protocol/historysync`) | hash states | encode and decode patches | handlers | arithmetic over bytes |
| Noise handshake (`noise/handshake`) | cipher states, known server key | modes IK, XX, fallback | stream | fallback |

What makes each of them correct: the bridge is a FIFO channel of whole segments
that is noticed when it breaks; the life cycle leaves no socket or task behind
and its flags agree with its connection; the loop handles what it has queued,
the urgent first; a stanza and a message are read as they were written; an answer
reaches the request that waits for it, and a request's result is what happened;
a pre-key that a peer holds is kept until it was used; each message is decrypted
once whatever its order of arrival; the row of a session is never lost, and
operations that do not overlap are atomic; a message that arrives on a row nobody
disturbs reaches the application; a message is sent once, a group's key reaches
every participant, and one key encrypts one message.

## Modules

| Module | Models | Extends / composes |
|---|---|---|
| `SegmentChannel` | what one direction of the bridge promises | |
| `Bridge` | `bridge.py`, `stream.py`, the socket side of `connection.py` | implements `SegmentChannel` twice (`Inbound`, `Outbound`) |
| `Lifecycle` | `connect`, `disconnect`, `reconnect` as coroutines, the emitter, stream errors | |
| `MessageLoop` | receive loop, heap, workers | |
| `PreKeys` | pre-keys from generation to use, with the uploads and an abstract server | |
| `SessionState` | pure operators: what the cipher computes with a session record | |
| `Ratchet` | two parties, one whole operation at a time, a hostile network | `SessionState` |
| `SessionTasks` | the same operations as concurrent tasks on one row | extends `Ratchet`, and implements it while they do not overlap |
| `KeyRequests` | `_get_keys_for_recipient`, its futures and its callback | |
| `Inbox` | decryption on several workers, pending messages, the requests they start | composed with `KeyRequests` on one session row |
| `SenderKeys` | a group's sender key at the sender and at a member | |
| `Sending` | the send paths of `client.py`, `send_empty_message` | |
| `Formats` | values, fields, how an attribute is written and read | |
| `MessageFormats`, `SyncFormats` | the tables: every field of every class, through both converters | `Formats` |
| `Composing` | the application's calls and the objects they compose | `MessageFormats` |
| `Stanzas` | writer and reader of `coder.py` | |
| `Delivery` | a message from call to event; a stanza from tree to bytes to tree | `Composing`, `SyncFormats`, `Stanzas` |
| `Queries` | what each account operation asks, and how its callback reads the answer | |
| `Requests` | calls of them on the one registry of callbacks | `Queries` |
| `Uploads` | media uploads beside them, under the lock of the media connection | `Requests` |
| `MC...` | instances for TLC | |
| `..._proofs` | theorems about `PreKeys`, `Bridge`, `Lifecycle`, `SessionTasks`, `Inbox`, `SenderKeys`, `Sending`, and about `Uploads` with `Requests` and `Queries` | `FiniteSetTheorems`, `SequenceTheorems`, `WellFoundedInduction` |

An action is what one task does up to its next suspension.  An await that cannot
suspend (a put on an unbounded queue, a free lock) does not end an action.

**Bridge.**  A byte is a pair (segment, position), so a byte out of place is
visible; the length prefix is read from the bytes at the front of the buffer as
in the code.  `rpc` and `wpc` are the places where the two loops are suspended,
`WriteFails` and `DrainRaises` are `AsyncConnection.write` on a reset socket.  A
segment of 2^24 bytes or more (`WriteLongSegment`) is accepted and encrypted, but
the loop raises when it comes to it (`bridge.py:240-242`), logs that and goes on
with the next (`WriteRefused`): the channel is one of the segments a prefix can
tell.  `shut` says whether the client's emitter was shut by an earlier
`disconnect()`; on such a connection `Emit` starts no handler, and nobody
disconnects when the server closes.  The transport and the reader of asyncio are modelled from how the code uses them.

**Lifecycle.**  Each `connect()` makes a generation (connection, stream, bridge,
message loop); the client's attributes are references to generations.  Bridge
and socket are reduced to what `Bridge` shows of them: an EOF is announced, a
reset is announced or not.  `FinishDisconnect` is one action because nothing
between closing the socket and the end of `disconnect()` suspends before the
emitter is shut.  The application awaits its calls and calls at rest, but the
bridge's events may start a second `reconnect()` beside one of its own; `rivals`
notes that two have been in progress at once.

**MessageLoop.**  The queue holds `(priority, (node, data))` and nodes have no
order, so comparing two entries of one priority raises.  `heapq` is therefore
followed step by step: a push that raises has already placed its entry, a pop
that raises has already removed the entry it was to return (`lost`).  `asks` are
identity notifications, whose worker waits for the answer to a request for keys;
the answer is a stanza of the same queue.

**PreKeys.**  A key is an id and the batch of its material: ids wrap and are
reused, material is not.  Rows are durable; calls and workers end with the
connection, except the flush of `connect()`, which may go on.  A bulk insert
that meets a taken id changes nothing, as in the code.

**SessionState, Ratchet, SessionTasks.**  Cryptography is symbolic: a chain is
named by the agreements that led to it, and a MAC verifies exactly with the
chain it was made in.  `Ratchet` keeps every message ever sent and delivers any
of them at any time.  In `SessionTasks` the tasks of one party load, delete the
row, insert it and remove the pre-key in separate steps, may fail on the unique
index and may be cut off anywhere.

**KeyRequests, Inbox.**  Here a session row is reduced to what `SessionState`
shows decryption needs of it: the sessions its record holds, by base, and the
messages each has read.  Every await is a step: the question whether there is a
session, the store's delete and insert, the wait on the future.
`_pending_keys_requests` maps a set of contacts to the call whose future it
holds, so a later request for the same contacts takes the entry over.  `due`
collects what the account could read when it arrived; `disturbed` notes that two
users of the row met, the case `SessionTasks` shows in detail.

**SenderKeys.**  A chain is its key id and iteration.  A send creates the
distribution, loads the record, encrypts, stores; a member's worker loads,
computes, stores.  The stanza carries distribution and message, and the message
is chosen first: a member stores a distribution only from a stanza that carries
it alone, as one does whose message could not be encrypted.  A send may
fail at the database at each step, and so may a worker, whose message was
acknowledged before it was decrypted: when the store fails or the worker is
cancelled there, the text it has is discarded (`StoreFails`, `unsaved`).  `known`
and `expected` note what the member was promised; `forgot`, `sendsMet` and
`workersMet` note the cases in which the code promises nothing.

**Sending.**  Stages follow the awaits of the three paths (contact, group, list);
a failure at any of them leads where the code's handlers lead: a further attempt,
the answer `False`, an exception.  `jidDecode` finds a device only in
`user.type:device`, so in the devices' list, which has `user:device`, each name
stands for the account; that is why `Jids` are pairs and sessions are of
contacts.  Requests for keys appear by their outcome, which `KeyRequests` models.
Putting a deleted session back may fail itself (`EmptyRestoreFails`):
`store_session` deletes the row before it inserts, what was loaded may be the
empty record of a failed load, and the error is only logged
(`client.py:4470-4476`), so the session may be gone (`HalfRestored`).

**Formats and Delivery.**  A field of a class is a row of a table: how the
converter writes it (always, if given, if true) and reads it (as it is, if
present, with a default).  A value is `none`, `zero` (given, but false), `some`
(given by the application), `own` (made up by the client) or `other` (a number of
an enumeration the code has no name for); an object is its parts, each a function from fields.  `Delivery` moves one
message through *call, object, wire, object, event*, or starts at the object, at
the wire (other programs) or at a class that encodes itself (app state, history,
key shares).  What the code loses is named in `NotKept`, `Place`, `Recognised`,
and everything else must arrive.  Of other programs' messages two kinds are lost:
votes, and protocol messages whose type is not in `ProtocolAttributes.TYPES`
(17 and 21 to 30 of `e2e.proto`).  The parser formats what it has read for a
debug line (`messages.py:406`), and `__str__` looks the type up
(`attributes_protocol.py:80`): `Printable`.

**Stanzas.**  A text is its class (decimal, hexadecimal, plain, name with device,
...) and its size, and coded bytes are a sequence of tokens, each with what it
announces and what follows it; `Delivery` sends stanzas through it.  The losses
found are stated in `AsRead` and `Harmed`: an empty text is read as `None`; a
name with a type and a device comes back as a phone's of type 0 (`user.1:3` as
`user.0:3`); a lid always has a device.  Spoilt are: a phone's device without a
type, since the writer keeps it in the user (`coder.py:497`) and the reader adds
another (210), so that `user:3@s.whatsapp.net` is read as
`user:3.0:3@s.whatsapp.net`; `word: x@y` as an attribute, which a group's subject may be
(`group_builder.py:83`); a text that ends in `@`; and a text of 2^20 bytes
followed by anything (`readInt31`).

**Queries, Requests, Uploads.**  An operation is a record: request, way of
reading the answer, meaning, outcome of a failure.  `Requests` lets a call
register, send, wait and time out, while the server acts and answers
(completely, in part, with an error, by devices), a callback expires after 30 s
although its caller may wait a little longer, and connections are lost.
`Operations` is every operation with every argument that `Accounts` and `Texts`
allow; an application may ask for any of them.
`Uploads` adds the lock of the media connection and the temporary files.

Every module states its types in `TypeOK`.  The run `prekeys` checks the one of
`PreKeys`; those of the modules with theorems are proved.

## Runs

| Run | Shows |
|---|---|
| `bridge` | FIFO and completeness of both directions; a lost socket ends both tasks; a close by the server is heard on a client's first connection |
| `prekeys` | keys are kept until used; a worker reads its sender's key; a miss only after use |
| `prekeys_upload` | every generated key gets an answer from the server, with two overlapping flushes |
| `lifecycle` | nothing is left behind, one socket, every call returns, a close by the server brings the client down |
| `ratchet` | no replay, no false duplicate, every message readable up to named limits |
| `session_tasks` | the row survives failing stores; alone, operations are atomic |
| `message_loop` | what is taken is the most urgent, what is queued is handled, workers that block their own answers go on |
| `inbox` | what arrives on an undisturbed row is emitted; `disconnect()` leaves nobody waiting on a future |
| `groups` | one key per message while sends do not overlap; promised messages are read, and once, but for those a failing load or store or a cancelled worker costs |
| `formats` | every argument and field arrives, every message is announced as what it is, every stanza is read as written, up to the named losses |
| `requests` | a result is what happened; name, media connection and temporary files are consistent; every call ends |
| `sending` | a message is written once, a group's key reaches everybody, a deleted session comes back unless putting it back fails, a contact is not blocked |

Many properties name the case in which the code does not promise anything
("unless two sends have overlapped"), and the model notes that case in a variable
of its own (`sendsMet`, `disturbed`, `torn`, ...).  Without the exception TLC
refutes them: the exceptions are what one has to know about this code.

### What comments of the code say and TLC refutes

These statements are at the end of their modules.  No run lists them; put in the
place of the properties of the configuration named here, TLC gives a behaviour
that refutes them within a minute.

| Statement | Configuration | What the code says | What it does |
|---|---|---|---|
| `Lifecycle!CleanBeforeConnect` | `MCLifecycle.cfg` with `MaxGen = 3` | `client.py:4074`, of the sleep between `disconnect()` and `connect()` in `reconnect()`: "Aguarda um pouco para garantir que tudo foi limpo" | while the application's `reconnect()` is in `disconnect()`, the bridge announces a reset and the handler of "reconnect" starts a second one.  Both sleep; the first to wake connects, the second then connects over it (4077) and replaces the references: the first socket stays open, and nothing can close it.  This is the exception (`rivals`) in `Released` and `OneSocket`. |
| `Bridge!LossAnnounced` | `MCBridge.cfg` | `bridge.py:268`: "Emite evento de disconnect se events disponível" | `AsyncConnection.write` raises the `ConnectionError` of `connection.py`, which `bridge.py` does not import: its `except` (266) names the builtin class and never matches.  When a write meets a reset first and the read loop then leaves through its test of `is_connected()` (113), both tasks end and no event is emitted. |
| `Lifecycle!UpIsAnnounced` | `MCLifecycle.cfg` | `client.py:372`: "Emite eventos para compatibilidade com API pública"; `reconnect` is offered for use (4064) | `disconnect()` shuts the emitter for good (4045), `reconnect()` begins with it and a failed `connect()` ends with it: later connections of the instance work and emit nothing. |
| `Lifecycle!UpIsConnected` | `MCLifecycle.cfg` | `client.py:3934`: "Verifica se está conectado e autenticado" | `connect()` awaits the account status, the handlers and the flush after `<success>`, and sets `_running` (365) without another look.  A connection lost meanwhile was taken down by the handler already: the client reports to be up over a socket it has closed. |
| `PreKeys!MarkedWasAccepted` | `MCPreKeysUpload.cfg` | `client.py:4152`: "Callback quando prekeys são enviadas com sucesso" | the callback (4144) runs for every answer and does not look at its type: an error marks the keys as sent, and they are never uploaded again. |
| `PreKeys!ServerRefilled` | `MCPreKeysUpload.cfg` with one call and `MaxDrops = 0` | `keyhelper.py:60`: keys are generated "subsequently any time the list of PreKeys stored on the server runs low" | the server's notice starts only a flush of keys not yet sent (4094); `level_prekeys` runs in `connect()` alone. |
| `SessionTasks!DuplicateRefused` | `MCSessionTasks.cfg` | `receiver.py:95`: "DuplicateMessageException: Se mensagem duplicada" | two workers that load the row before either stores both decrypt the message (`sessioncipher.py:92`). |
| `MessageLoop!NothingLost` | `MCMessageLoop.cfg` | the comment at the queue: "Aumentado para 5000 para evitar descarte durante login com muitas mensagens offline" | three stanzas of one priority are enough: the pop compares two of them, raises, and the one it had removed is gone (`client.py:1115`). |
| `Inbox!PlainIsEmitted` | `MCInbox.cfg` | `_process_pending_messages`: "Processa mensagens pendentes após obter sessão" | it decrypts a pending message and hands it to the processor, which decrypts it again and meets a duplicate (4384): nothing is emitted, and the message is deleted (4397). |

### Bounds, and why they are enough

- `bridge`: a prefix of 2 bytes (3 in the code) and payloads of 1 and 2 bytes,
  so that prefix and payload are both cut in two and chunks span two segments;
  one over-long segment among those written; an emitter that is shut or not.
- `prekeys`: 3 ids and batches of 2, so that ids wrap and collide in the second
  batch; threshold 3, so that a partly used store is levelled; one lost
  connection; two workers.  `prekeys_upload` has two calls instead.
- `lifecycle`: `MaxGen` 2 gives two generations alive at once; four coroutines
  are all the emitter can start.  With `MaxGen` 3, where the second of two
  `reconnect()` that met may connect, `Released` and `OneSocket` hold as well (3.6
  million states), and `CleanBeforeConnect` fails; for any number they are proved.
- `ratchet`: one skipped key, one chain, one archived state, so that each limit
  is passed; five messages and five key pairs per party, enough for two sessions
  and answers both ways.
- `session_tasks`: two tasks, three key pairs and two messages: every
  interleaving of two stores with each kind of operation.
- `message_loop`: a queue of 4 places, two workers, and six stanzas with two
  requests among them: the queue fills, three entries of one priority meet (the
  least a heap needs to raise), and both workers wait at once.
- `inbox`: two workers, two messages and two calls for keys, one contact: two
  requests for the same contacts, a message that becomes pending while another
  is processed, and a first message beside a later one.
- `groups`: two sends, two workers, three stanzas, two keys, two faults (failing
  loads and stores, cancelled workers; two are a failed load and its failed
  repetition), one repeated delivery.  For any number of faults the three
  properties are proved.
- `formats`: in each message one field differs from a base (everything given,
  for a call also nothing; a protocol message's type also without a name); fields of a table do not influence each other but
  for the conditions the tables name.  Texts have sizes 1 to 3 and those around
  128, 256, 65536 and 2^20, lists 255 and 256 elements.
- `requests`: one call of each operation, for an account that is a business and
  one that is not; or two calls that set the name, or the business's name, or
  send a file; one lost connection.  Two calls share nothing but the registry,
  the name and the media connection.
- `sending`: one contact with a session and one without, a group and a list of
  both, one message, two empty messages for one contact.

Deadlock checking is off: every model may come to rest (client disconnected,
bounds used up, message delivered).

### Fairness, and why the code justifies it

Weak fairness of tasks and callbacks: asyncio runs every ready task, and all
waits have a timeout or an event that ends them.

- `Bridge` also lets the client disconnect once an event started its handler.
  That is so while the emitter is not shut (`events.py:68`), on the client's first
  connection; after a `disconnect()` it is for good (`client.py:4045`), and
  `GracefulCloseHeard` says nothing (see `UpIsAnnounced` above).
- `PreKeys` assumes that the application connects again after a loss, and that
  the server answers what it receives and says when it has run out.
- `MessageLoop`: the receive loop's put succeeds or times out after 0.1 s, and
  each worker goes on; an `ask` ends with its answer or its timeout.
- `Uploads` with `Requests`: what a call does next, its timeout of 30 s
  included; the callback that has its answer; the clean-up every 5 s; a POST
  ends after at most 300 s.  The server need not answer, no connection need come
  back, and nobody need cancel.

Nothing forces the peer to send, close or reset, or a message to arrive.
`Ratchet`, `SessionTasks`, `Inbox`, `SenderKeys`, `Sending` and `Delivery` only
state safety.

## Proofs

TLC checks small instances; TLAPS proves, for every value of the constants:

| Module | Theorems |
|---|---|
| `PreKeys_proofs` | `TypeOK`, `KeyKept`, `ReadsSendersKey`, `MissOnlyAfterOpen` |
| `Bridge_proofs` | `InboundFifo`, `OutboundFifo`: both directions implement `SegmentChannel`; its `InOrder` for both |
| `Lifecycle_proofs` | `TypeOK`, `Released`, `OneSocket` |
| `SessionTasks_proofs` | `RowKept`; `AloneIsAtomic`, the refinement of `Ratchet`; `NoReplay`, `UnreadIsNoDuplicate` and `Readable` of `Ratchet`, and that its two ends stay in step; the limits of archived states and receiver chains |
| `Inbox_proofs` | `TypeOK`, `AloneIsEmitted`, `Freed` |
| `SenderKeys_proofs` | `TypeOK`, `KeyPerMessage`, `PromisedIsRead`, `ReadOnce` |
| `Sending_proofs` | `TypeOK`, `SentOnce`, `Distributed`, `SessionKept`, `Freed` |
| `Uploads_proofs` | `TypeOK`, `Answered`, `NameSaved`, `OneMediaRequest`, `TempRemoved` |

Each of them proves `Spec => []IInv` (`Invariance`) for an inductive invariant
`IInv`, and derives the properties; `Bridge_proofs` has one for each direction.
Hardly any property is inductive by itself.  What has to be added:

- **`PreKeys`.**  A flush may upload keys it loaded before they were consumed,
  and a worker removes a row it looked up some steps earlier.  `IdsUnique` (what
  `Taken` enforces), `UploadsKnown` (a key a flush holds is in the store or was
  opened), `ServerKeys` (so are those the server offers or gave away) and
  `WorkersHold` (a worker past its read holds its sender's row and removes it
  only after opening).
- **`Bridge`, from the server.**  `Underway`: the bytes in the bridge's buffer,
  in the reader, on the wire and those a reset discarded, put together, are the
  next segments up to the last one sent, and begin at the start of one.  `Runs`
  says this of a sequence of bytes without a recursive definition: each byte is
  followed by the one after it.  `Queued`: the read queue holds the segments
  that follow those the reader took.
- **`Bridge`, to the server.**  `Pending`: as long as the write loop lives and
  the transport is open, the numbered segments in the write queue are those that
  follow the ones delivered, all of them and in order, whatever over-long ones and
  `None` stand between them.  A dropped segment ends the loop, one that is lost in a failed write
  the transport; neither comes back, which is what `OutOrNot` is about.
- **`Lifecycle`.**  While no two `reconnect()` have met, one coroutine at most
  claims the references (`OneClaim`); what is up is what they name
  (`Referenced`); a coroutine that is going to replace them has brought down what
  they name, step by step (`BroughtDown`); and what is up while the client is
  down has a coroutine that still has to bring it down (`SocketsOwed`,
  `BridgesOwed`, `StreamsOwed`, `ClosingIsWaited`).
- **`SessionTasks`.**  `RowIsComing`: a missing row is one a task is about to
  insert, and what it inserts is not empty.  That rests on what every operator of
  `SessionState` returns for any record, also one loaded long ago (`Typed`).
  For the refinement: while no operations overlap a task works on the row as it
  is (`OneAtATime`); a party's ratchet and base keys are its own (`Owned`), so a
  message and a pre-key that are not committed yet are none the peer deals with
  meanwhile; copies of a message are numbered (`Numbered`), so each is a new one
  and the bound on messages is the abstract bound.  `Views` gives the abstract
  state at each label, and each action is then a step of `Ratchet` or a stutter.
- **`Ratchet`.**  `RInv`, in `SessionTasks_proofs` (`SessionTasks` extends
  `Ratchet`), next to the lemmas about `SessionState` that both rest on.  A message is `Spent` for a state
  when the chain it belongs to is past its key, was evicted, or never can be one
  of the state's.  `ReadSpent`: a message that was read is spent for every state
  of the reader's record, archived ones included, or is the first of a session
  that was archived out.  What a state or a message is made of
  (`StateFits`, `MsgsFit`: each root extends the one before it, the keys of two
  chains differ, no key pair is named before it is generated) makes that last:
  states only grow, a new ratchet key is in no earlier message, and a session that
  is built anew shares its base key with no other state.  `OffersFit`, `Anew` and
  `LostFits` say when a session can be built again: it was archived out of a full
  record and had no one-time pre-key, since that was removed when it was first met.
- **`Ratchet`, both ends.**  `UnreadIsNoDuplicate` and `Readable` relate the
  chains of one end to the roots of the other.  `SInv`, kept together with `RInv`,
  has these parts.  `StatesShaped`: the chains of a state belong to every other
  root that led to its own, the oldest dropped beyond `MaxChains`.  `ReadMarked`:
  a key a chain no longer has was used for the message with that number, and
  `Counted` and `Apart` make it the only one: ratchet keys differ (`EphsDiffer`),
  and a state counts what was sent with its own.  So a message that was not read is
  no duplicate.  `InStep`: of the states two ends have of a session that neither
  archived out, one has made exactly one agreement more, with both ratchet keys;
  `KeysFollow`: a message was sent from its sender's root or one an even number of
  agreements before it.  So the receiver has its chain, makes it in one ratchet
  step, or has `MaxChains` newer ones; the last is `OlderThanAll`.  A session the
  receiver does not have yet (`Unanswered`: its sender has made no step) is built
  from the message itself (`FirstIsRead`), whose one-time pre-key is still there,
  as only who met a session used its key (`Begins`).  Reading is possible then,
  and the state that is found is the one that reads (`ReadableFollows`).
- **`Inbox`.**  `Alone`: while nobody has disturbed the row it has the contact's
  session once the pre-key is used, nothing that is to arrive is marked as read,
  and a message that is due was emitted or is being read by a worker that can.
  `Entered` is `Freed` without its hypothesis.
- **`SenderKeys`.**  `ChainMovesOn`: the row is past every key that is out;
  `JobIsCurrent` and `RecordServes`: what a worker is about to store is made of
  the row as it is, and the row reads whatever was promised and neither read nor
  given up at a failing store.
- **`Sending`.**  `WrittenIsSpent` and `BuiltIsSpent`: a message that may be out
  has no content left to build it from again; `MembersAccounted`: at each stage
  every member is to do, done, lacking or refused; `MissingIsRepaired`: a missing
  session has a call that is going to put it back, was cancelled or has failed to.
- **`Uploads`.**  `CallInv` follows the life of one call: at most one message of
  it under way, of which the answer agrees with what the server did; `LockInv`:
  who asks for the media connection has the lock; `NameInv`: where the name is at
  each moment.  `OpInv` states what is true of each operation of `Queries`.

**Recursion.**  `Framed` and `Rest`, which cut a buffer into segments, are
recursive functions on sequences.  `Bridge_proofs` proves that such functions
exist (`Recursion`) and what they return: induction over numbers is used as a
statement about sets (`Induction`: a set of numbers that contains each number
whose predecessors it contains is `Nat`), which the provers can instantiate.
`CutAll` is the result: of bytes that run from the start of segment i, `Framed`
returns the segments that are complete, in order, and `Rest` what remains.

**Assumptions** on constants, evaluated by TLC on the runs: sizes and bounds are
numbers; there are two parties; an id of a message is not one of an empty
message; workers are not calls; `None` in a queue is not a segment, an over-long
one is neither that nor one of the others; an application asks for operations of `core/builders`.  Beyond them the theorems
rest on the model of what is outside the code: the server gives each pre-key to
at most one peer and answers a request once, a socket delivers bytes in order.
As in the properties, exceptions are named: `rivals`, `sendsMet`, `workersMet`,
`forgot`, `disturbed`, `torn`, `replaced`, `unsaved`, `unrestored`, `shut`.

**Only model-checked:**

- liveness under fairness (`LossEndsBridge`, `GracefulCloseHeard`,
  `InboundDelivered`, `KeysReachServer`, `CallsReturn`, `CloseBringsDown`,
  `Served`, `StuckIsBrief`, `Settles`), which is out of the prover's reach;
- `Kept`, `Arrives`, `Recognised` and `Intact`: they are statements about finite
  tables, which TLC enumerates, and about the recursive operators of `Stanzas`,
  which are checked on bounded inputs;
- `BestFirst`, an action property over the heap of `MessageLoop`.

## What the models leave out

- `Bridge`: what the server makes of the segments behind an over-long one, whose
  place in the cipher's count is taken; the buffer of the transport beyond "drain may wait", proxies; a
  `wait_closed()` that never returns (`client.py:4028` has no timeout).
- `Lifecycle`: calls of the application that overlap each other; a network that
  is dead without a reset, which the keepalive does not notice (`client.py:1388`).
- `PreKeys`: signed pre-keys, which are only loaded.
- `SessionTasks`: database errors other than the unique index.
- `Inbox`: receipts and retry counts; messages of several contacts, whose rows
  and conversations are apart.  A message stays pending for good when the request
  for keys fails; no property asks for more.
- `Sending`: messages of category peer; `_sync_devices_and_send`,
  `_send_as_pkmsg` and others that nobody calls; the queue of sent messages,
  whose resend is commented out (`receipt.py:54`); devices beyond the account,
  which the code never addresses because of `jidDecode` (`tools.py:124-142`); reads
  of the database that fail with an empty answer, as `get_all_contacts` may; what
  an encryption with an empty record that was put back makes of its message.
- `Formats` and `Composing`: encoders of locations, buttons and lists, accessors
  and wrappers without a decision of their own, the cryptography of poll votes;
  mentions are ignored by the code, and so here.
- `Stanzas`: `streamStart` and `readNibble`, which nobody calls; inflating.
- `Queries` and `Requests`: the trust requests that `sync_contacts` starts, the
  second request of `get_config` (whose callback is never unregistered), pictures
  that cannot be resized, the app state patch of a name (always of version 0,
  `profile_handler.py:504`), a profile that is not written because there is no
  session maker (`tools.py:464-472`), the answer's sender as the group of
  `create_group` and `join_with_code` when no group is in it, presence, chat states and calls.  Adding and removing
  participants report each participant's answer; promoting, demoting and approving
  answer `True` whatever each one's answer says, and `Answered` asks no more of them.
- `Uploads`: the cipher, resizing and thumbnails, downloads, cancelling a task
  while it waits for the lock, a temporary file whose writing fails
  (`image_builder.py:252-254`, before the `try` that removes it).
- Not modelled: the Noise handshake (modes IK, XX, fallback are the business of
  the noise library), registration (one HTTP request each), `lthash`, `hash_state`
  and `patch_builder` (arithmetic over bytes), configuration files, the public
  API (delegation), `consonance` (superseded by `noise`).

Hazards without a property are listed in `PROJECT.json` with the reason: three
are the refuted statements above, the others are the loss of whole segments after an
EOF (what was not acknowledged is sent again), a session lost with the process
between delete and insert, and the guard of `groupcipher.py:81` that never holds.

## Plan

1. Proofs: `BestFirst` of `MessageLoop` from the heap order.
2. Overlapping calls of the application in `Lifecycle`; two sends in
   `SessionTasks`, where they use one message key twice.
3. An abstract specification of the inbox (each message is emitted at most once,
   in some order), implemented by `Inbox` while nobody disturbs the row.
4. The composition of `Sending` with `KeyRequests` on real session rows.
5. The answers of app state patches: `hash_state` as a fold over abstract sums.
