# Formal models of Couchbase Lite Core's replication core

TLA+ modules, TLC configurations and TLAPS proofs for the part of Couchbase Lite
Core that decides *what has been replicated, which revision wins and who has been
told about it*: the sets of sequences, the checkpoint and its order of remote
sequences, the autosave machinery with its timer and threads, the protocol that
keeps the checkpoint on two sides through crashes and restores, the list of changes
from which every observer reads, the Pusher and the Puller, the life of a
replicator from start to stop, the BLIP connection under it, and the version
vectors, clocks and conflicts of documents.

Contents: 1 the system, 2 plan, 3 modules and code, 4 runs, 5 bounds, 6 fairness,
7 proofs, 8 disagreements found, 9 not modelled.

## 1. The system

Couchbase Lite Core is an embedded document database (on SQLite) with a replicator
that synchronises collections with a server or another device over BLIP messages on
a WebSocket. Its objects are mostly actors: each has a mailbox, handles one message
at a time on some thread of a pool, and calls others by enqueueing. A few classes
are shared between threads under a mutex instead: `Checkpointer`, `Timer`,
`SequenceTracker`, `DBAccess`.

| Component | State it keeps | Operations | Talks to | What is hard | What makes it correct |
|---|---|---|---|---|---|
| `SequenceSet` | map from the first to the end of each range | add, remove (one or a range), union, intersection, difference, encode, read | `Checkpoint` | merging at range boundaries, 64-bit ends | it is a set; equal sets are equal maps |
| `Checkpoint`, `RemoteSequence`, `ParsedSequenceID` | completed local sequences, remote sequence, last sequence checked | complete, add pending, set remote, to and from JSON, validateWith | `Checkpointer` | sparse sets, three formats of remote sequences, old JSON | never claims more than either copy does; reports what it changes |
| `Checkpointer`, `Timer` | `_checkpoint`, `_changed`, `_saving`, `_overdueForSave`, `_timer` | saveSoon, save, saveCompleted, enable and stop autosave | workers, timer thread, Replicator | three kinds of threads, a destructor that waits under a mutex | one save at a time, no change forgotten, clean stop |
| `Replicator` | per collection: checkpoint, its revision on the peer, the JSON waiting to be saved, status | connect, get, validate and set the checkpoint, conflict, close | everything of the replicator | two copies of one fact; messages that arrive after their connection died | a checkpoint never claims what was not transferred |
| `Pusher`, `ChangesFeed` | revisions queued, in flight, to retry; feed position, `_notifyOnChanges` | read changes, propose, send, on progress, retry | `DBAccess`, observers, BLIP | callbacks from other threads, several revisions of a document, back-pressure | every change is sent, or is on the peer, or was refused |
| `Puller`, `RevFinder`, `IncomingRev`, `Inserter` | missing remote sequences, counters of pending revisions | changes, rev, insert in batches, finished | BLIP, `DBAccess` | out-of-order completion, batches that roll back, counters | the remote sequence never passes a missing revision |
| `SequenceTracker`, observers | `_changes` with placeholders, `_idle`, `_byDocID` | begin, end, changed, purged, external transaction, read | every writer and every observer | many readers at different positions in one list, abort, trimming | no observer misses a change or a callback |
| `DatabaseImpl`, `CollectionImpl`, `DataFile` | open collections, transaction depth, file lock | transactions, save, purge, expire | SQLite, `SequenceTracker` | several connections to a file | isolation, notification after commit |
| `Worker`, `Replicator`, `C4Replicator` | activity levels, status, stop and suspend flags, retry count and timer | start, stop, suspend, resume, retry, reachability | each other, the client | status computed from asynchronous children; three threads and calls back to the client outside the lock | the client is told what goes on; stopping wins and ends |
| BLIP, WebSockets | out-box, icebox, pending requests and responses, send buffer | send, respond, acknowledge, close | sockets | multiplexing, windows, wake-ups, closing half-way | no message lost or starved, one outcome per request |
| `LiveQuerier`, `Housekeeper`, `Batcher`, mailboxes | timers and pending flags | run, change, expire, push | observers, `BackgroundDB` | a wake-up that gets lost | every change is eventually seen |
| `HybridClock`, `VersionVector`, `VectorDocument` | last logical time; a vector per revision; a document's current and remote revisions | stamp, see, compare, merge, put, resolve, purge | every database with every other | wall clocks that disagree, crosswise resolutions, redelivery | no edit lost, equal versions mean equal bodies, convergence |
| `RevTree`, `TreeDocument` | the older form of a document's history | insert, prune, resolve | documents | conflicts, pruning | leaves survive |
| Query, blobs, logging, REST, cryptography | - | translation, file and network I/O | libraries | - | - |

`PROJECT.json` lists every component with its sources and status, the hazards at
their lines with the properties that cover them, and for each definition the lines
it models.

How the modelled parts interact. A local change is saved in a transaction;
`SequenceTracker` puts it in its list and calls the observers that were up to date,
of which the replicator's `ChangesFeed` is one. The feed reads changes in order of
sequence, tells `Checkpointer` which are pending and which are skipped, and the
Pusher completes the others as the peer answers. On the other side the Puller keeps
the set of remote sequences that are missing, and `since()` of it becomes the
checkpoint's remote sequence. Each change of the checkpoint makes `Checkpointer`
set its timer; the timer's callback hands the JSON to the Replicator, which first
stores it on the peer (compare-and-swap on its revision) and then, unchanged, in
the local database. When the next connection opens the two copies are compared with
`validateWith()`, and replication starts from what both of them claim. All of that
goes on inside a `Replicator` that a `C4Replicator` creates, and creates again after
a transient error, and that ends when its BLIP connection has closed and its workers
have nothing left to do. What a revision that arrives does to the document is
decided by its version vector, stamped by the hybrid clock of the database that
made it.

## 2. Plan

Order: what decides whether a user's changes are lost comes first, then what wakes
up whom, then the rest.

1. *Done*: `SequenceSet`, `SequenceSetObjects`; `ParsedSequenceID`, `Checkpoint`;
   `Autosave` (abstract), `Checkpointer`; `CheckpointSync`; `ChangeObservers`
   (abstract), `SequenceTracker`; `Pusher` (with `ChangesFeed`); `RemoteSequenceSet`,
   `Puller` (with RevFinder, IncomingRev and Inserter); `Replication`, `Lifecycle`;
   `BLIPIO`; `HybridClock`, `VersionVector`, `VectorDocuments`; with
   `AlgorithmProofs` (about `SequenceSet`, `Checkpoint`, `Checkpointer` and
   `HybridClock`), `CheckpointSyncProofs`, `SequenceTrackerProofs`, `PusherProofs`,
   `PullerProofs` (with `PullerInvariant`), `LifecycleProofs`, `BLIPIOProofs`, `BLIPFlowProofs`.
2. *Next, the proofs*: `NoStall` of `Puller`, whose counters are now proved right; that
   `trivialMerge` leaves no author with an earlier time.
3. *Then, the model*: revision trees; one-shot push and the closing of its
   connection in `Pusher`; the WebSocket closing handshake and its timeouts;
   `LiveQuerier` and `Batcher`. An abstract one-way transfer, of which `Pusher` and
   `Puller` would be the implementations and `CheckpointSync` the composition.

## 3. Modules and code

**SequenceSet** is the representation (a function from the start of each range to
its end, the `std::map`) and each method as an operator on it, in the order in which
the method searches, erases and inserts. **SequenceSetObjects** is the state
machine of several such objects: each call is an action, and alongside the map each
object carries the mathematical set that its calls should have produced. 64-bit
ends are reduced to a modulus when a set is read from JSON.

**ParsedSequenceID** has Sync Gateway's three formats of sequences (`seq`,
`triggeredBy:seq`, `lowSeq:triggeredBy:seq`) as tuples of their parts, with what
parses, what an ID means and `before()`. **Checkpoint** has a checkpoint (completed
sequences, remote sequence, last sequence checked), a saved one, and the object's
methods; its JSON is a record with the fields that are written, and is read with
both the current and the older rules. Its specification is called `CheckpointSpec`, and
so on, so that one module can extend it together with `Checkpointer`.

**Autosave** is the promise, in four actions: a checkpoint changes, one save begins,
one ends, autosave is disabled. **Checkpointer** is the code: every method is a
critical section of `_mutex` and one step, except `stopAutosave()`, which holds the
mutex while `~Timer` waits (`StopAutosave`, then `AutosaveStopped`). The timer
manager's thread is `TimerFires`, `TimerSaves`, `TimerCallsBack`, `TimerDone`, since
`Timer::Manager::run` unlocks around the callback; the Replicator's is `ReplSaves`,
`ReplCallsBack`, `ReplSends`, `SaveCompleted`. `enabled <- timer # "null"` is the
refinement mapping.

**CheckpointSync** is an active push-and-pull replication of one collection. A
database is the sequence of revisions added to it; each revision is of a document of
its own. Its actions are the Replicator's handlers (`Connect`,
`GotRemoteCheckpoint`, `SaveCheckpoint`, `CheckpointSaved`, `CheckpointNotSaved`,
`CheckpointConflict`, `CheckpointRefreshed`, `GetCheckpointFailed`, `LocalWriteFailed`,
`Disconnect`), the
changes feed and Pusher (`ReadChange`, `PushCompleted`, `PushFailed`,
`MarkRevsSynced`), RevFinder, Inserter and Puller (`PullChange`, `InsertRev`,
`RevFinished`, `CommitFailed`), the passive peer (`PeerGetsCheckpoint`,
`PeerHandlesRev`, `PeerSetsCheckpoint`) and the world (`EditLocal`, `EditRemote`,
`LateSetCheckpoint`, the backups). Every flush of the deferred "synced" marks that a
handler makes is part of its action. Of the unbounded faults `faults` says which may
happen in a behaviour: the local database restored from a backup, the peer's, or a
failing insert transaction.

**ChangeObservers** is the promise to observers: each has a set of documents that
changed and that it has not read, and one that was up to date is called back when a
document changes. **SequenceTracker** is the code: the list of documents and
placeholders (`changes`), `_idle`, the entry of each document, and every method as
one step under the tracker's lock, with `DocumentChanged` and
`RemoveObsoleteEntries` as operators on the tracker's value, since other methods
call them several times. The database's own contents (`db`, `committedDB`) are there
so that what observers read can be compared with them. `unread <- the documents
after the observer's placeholder` is the refinement mapping. `Notified` is whom a change calls back: an observer may be called again before it
has read, which `ChangeObservers` allows and the class's comment does not (section 8).
Calls of a document's observers are represented by their membership in the entry: it
is what decides whether they are called.

**Pusher** is continuous push, between writers' threads, which commit and then
announce a revision to the observer (`Commit`, `Announce` with `_dbChanged()`), and
the peer. A revision is named by its sequence. The Pusher is an actor, so that `pc`
says which of its handlers is running where one takes several steps: the feed's read
(`GetHistoricalChanges`, or `GetObservedChanges`, `ReadObserver`, `ObserveChange`,
`ObservedAll`, since writers come in between), `gotChanges()` and `sendChanges()`
(`GotChange`, `SendChanges`), the reply to a list (`ChangesReply`, and one of
`WantRev`, `DontWantRev`, `ProposeAgain`, `Conflict` for each revision; or
`ListRefused`, an error, and `DropRev` for each, which leaves it to a later
replication), a feed whose query throws (`FeedFailed`, after which `gotChanges()` drops
the batch and asks for no more),
`maybeSendMoreRevs()` (`SendRevision`, `SendNoRev`). `onRevProgress()` is
`RevTransmitted`, `RevReply`, `RetryLater` (403) and `RetryNow` (delta error);
`_docRemoteAncestorChanged()` is `RemoteAncestorChanged`; `afterEvent()` is
`RetryRevs`, before which no other event is handled once its condition holds.
`DoneWithRev` is what they share. `mailbox` counts the calls that the actor has
enqueued to itself or got from writers.

**RemoteSequenceSet** is the Puller's set of outstanding sequences: entries with the
order in which they were added and the sequence before each. **Puller** is an
active pull of one collection by four classes. RevFinder and Puller are actors, each
with its mailbox; an IncomingRev is a record that goes through its states on the
Puller's thread or on its own (`HandleRevMessage`, `ParseAndInsert`, `DeltaFails`,
`FailWithError`, `Return`); the Inserter takes what has been queued in one batch
(`InsertRevisionsNow`, `InsertOne`, `InsertFails`, `Commit`) and tells the Puller of
each revision twice, by way of the batchers (`HandledProvisionally`,
`RevWasHandled`), which the Puller handles in `RevsWereProvisionallyHandled` and
`RevsFinished`. The peer answers `subChanges` first (`SubChangesReply`: an error makes the
Puller `_fatalError`, and it counts as stopped) and then announces its changes: those
up to `backlog`, an empty list, and, if the pull is continuous, more when they are made.
Every handler ends with `AfterEvent`, where the activity level is
computed and a Puller that has stopped lets go of the RevFinder. The loop of
`maybeStartIncomingRevs()` and that of the RevFinder over its waiting messages take
a step per message.

**Replication** is one `Replicator` as operators on its state: what it makes of an
event and the level it then has. The answers to its own requests are among the events:
`OnCollections` (a collection the peer does not have is an error and closes the
connection), `OnCheckpointSet` (a 409 makes it ask for the peer's checkpoint again) and
`OnCheckpointGot` (an error that does not stop the replication leaves the save unended).
`saves` says which collections' checkpoints are being saved, without which a connected
Replicator would not be Busy (`isUnsaved`). **Lifecycle** is the `C4Replicator` around it. What
is done under `C4ReplicatorImpl::_mutex` is one step; where the code has dropped the
mutex, or has not taken it yet, `pc` says how far a thread has come: a client's
(`ClientStart`, `ClientRetry`, `ClientStop`, `SetSuspended`, `SetHostReachable`), the
timer's (`TimerFires`, `TimerRetries`), the Replicator's (`HandleEvent`,
`StatusChanged`, `CallClient`, `AfterCall`, `Resume`) and that of a Replicator which
has been let go of and is still calling back. `told` is what the client was told
since the last start.

**BLIPIO** is both ends of a connection: the actor's queues and maps, the WebSocket's
send buffer and the frames under way. `QueueMessage`, `WriteFrame`, `WriteComplete`
and `OnWriteable` send; `OnRequest`, `OnResponse`, `OnAck` receive; `Close`, `Lost`,
`CloseWithError`, `OnClose` and `Closed` end it. A frame of a damaged message makes
`Accept` throw, with what `_onWebSocketMessages` does then (`PutBack`).

**HybridClock** is the clock as functions of the last time, the wall clock and the
time seen, with the 16-bit counter as `CounterMod`. **VersionVector** is the algebra:
comparison, new versions, `merge`, `trivialMerge`, and the two forms in which a
vector travels. **VectorDocuments** puts them to work: one document in several
databases, each with its clock, its current revision and the last one known of every
remote. A body is the set of edits that went into it, so that "lost" can be said.
`Pull` and `Push` are what RevFinder, the peer and Inserter make of the document, by
way of the text of a "rev" message (`Sent`, `Received`), with `putExistingRevision` and
`resolveConflict` in full. A revision that is refused for its timestamp is `refused` for
good: its sequence is completed and it is not sent again.

MC modules give constants their values. Operators named `Bad...` are plausible
mistakes in the definition after them, used to check that properties notice.

## 4. Runs

Where a run has a type invariant it is a conjunct of its first structural invariant
(`LocalMinIsLastContiguous`, `EntriesAreKept`, `NothingStranded`, `CountersMatch`,
`ClientIsTold`, `FlowIsControlled`, `VectorsValid`, `MethodsAreSetOperations`).

- `checkpoint`: three parts, of which one runs in each behaviour (`part`).
  - Two `SequenceSet` objects under every sequence of calls. The maps stay
    canonical (no empty, touching or overlapping ranges), `==` is set equality, every
    query and method is the set operation of its name, and encoding round-trips.
  - A `Checkpoint` and a saved one. `localMinSequence()` is the end of the contiguous
    prefix and the pending count is the size of the gaps, JSON round-trips,
    `validateWith()` never leaves more than either side claimed. (That it reports each
    change it makes is proved, section 7.)
  - The `Checkpointer`. One save at a time, the refinement of `Autosave`, and that a
    change made during a save is saved after it.
- `sync`: two sessions with crashes at every point, transient errors, failed and
  late saves, and each of the three faults. Unless the peer itself was
  restored, no completed sequence is missing on the peer; unless a transaction
  failed, nothing up to the remote sequence is missing locally, restores included;
  and what is written locally is always what the peer saved.
- `sync_live`: a last session that stays up brings both sides to the same
  revisions, but for one that is refused, whatever an earlier session left behind;
  and each save of the checkpoint ends, in spite of conflicts and errors, unless the
  error answers the `getCheckpoint` that follows a conflict (section 8).
- `tracker`: two observers of a collection and one of a document, with commits,
  aborts, purges and other connections' transactions: the refinement of
  `ChangeObservers`, no missed callback, observed entries survive, others do not
  pile up.
- `tracker_once`: a disagreement, section 8: an observer that has not read is called
  again.
- `pusher`: writers commit while the Pusher pushes, and the peer accepts, refuses,
  conflicts, fails, asks for a retry, or answers a whole list with an error. No
  revision that was read is stranded, whatever becomes of the one that holds it back:
  what is neither completed nor in work was left to a later replication by a transient
  error or a refused list. None that is current is completed before the peer has
  answered; and if nothing is left that would call the Pusher, everything announced has
  been read, and nothing is queued or waits for a retry. The feed may fail too, and
  after that none of the three is claimed (section 8).
- `puller`: changes of every kind with one fault of any kind, and changes that the peer
  announces after the pull has caught up. The eight counters of
  Puller and RevFinder are what they count, at every step of either actor, messages
  under way included; changes are handled in the order they came; the checkpoint
  passes no revision that may still arrive (but for section 8); nothing waits when
  nothing is left to happen; and Idle and Stopped are true when they are said: nothing
  that the Puller has been told of, and nothing of the backlog, is left to do. Changes
  announced later may be in a mailbox while it says Idle, as in the code.
- `puller_oneshot`: the same of a one-shot pull, which stops by itself after the
  backlog and then lets go of the RevFinder, on which the end of a one-shot replication
  rests.
- `lifecycle`: up to three calls of a client at any point, with retries, the timer,
  and one or two faults: of a worker, in an answer (to `getCollections`,
  `setCheckpoint` or `getCheckpoint`), or of the connection, which the peer may itself
  close with the two codes that a Replicator uses. There is a Replicator exactly while
  the client is told of one, rest is announced, the overall level is the busiest
  collection's; it is let go only when all is done; once `stop()` has returned, nothing
  but a call of the client's starts it again, the timer included; stopping ends. A
  Replicator that closed because of an error ends with an error, and never with one of
  those codes; and a one-shot replication ends, unless a save is lost (section 8).
- `blip`: a long request with a long reply, an urgent one in the other direction and
  one without a reply, with one damaged frame, close or loss of the connection.
  Well-behaved ends never see a protocol error; what is under way of a message stays
  below the window plus a frame, and yet, when both ends are idle, no request is frozen
  and nothing is unwritten (`FlowIsControlled`); each request has one outcome, whole and
  its own; everyone is told when it closes; and every request comes to an end, so that
  no reply stays frozen either.
- `documents`: two clients of a server, or two peers, under the modes that
  `MCVectorDocuments` lists. Vectors pass `validate()` and both encodings; equal
  versions mean equal bodies; no edit is lost except by a deletion, a purge or a
  resolver's choice; resolving never goes back in an author's time; and databases
  whose resolvers agree converge, but for a revision that one of them refused because
  its timestamp was too far ahead.
- `documents_merge`: a disagreement, section 8.

Every property of a passing run has a mutant in `PROJECT.json`: a mistake in one
definition under which TLC finds that property violated.

## 5. Bounds, and why they are enough

- `checkpoint`, the sets: sequences 0..5 and two objects: three separate ranges fit, so
  that an insertion can touch none, one or two, and a range call can cover several.
  Arrays that were not written by the code are read too. The proofs (section 7)
  remove the bound for all but union, intersection and encoding. The checkpoint:
  sequences 0..4, remote sequences of each format with ties, an alias,
  an unparseable one and null. Its saving: 4 changes; a save in each place (timer
  thread, mailbox, peer), one change during it and one after it need 3. The proofs
  remove the bound.
- `sync`: 2 revisions (which both may be on either side, giving two sequences to
  complete out of order), 2 sessions (what one leaves behind and the next finds) and
  3 saves on the peer (a first, one that replaces it, and a late one between them).
  Symmetry in the revisions is sound, since nothing in that run is a liveness
  property; the view leaves out backups in the last session, when they can no longer
  be restored. Behaviours in which a fault may happen include those in which it does
  not. The proofs remove all bounds for `PushSound`, `PullSound` and `SavedAlike`.
- `sync_live`: the same with 2 saves and without symmetry; `MaxGen` bounds the saves, so `SaveEnds`
  excuses a save that the bound, not the code, keeps from being stored.
- `tracker`: 2 documents, 2 observers, reads of 1 or 2 changes, 4 sequences, other
  connections' transactions of 1 or 2 documents (`MaxExternal`), and a list trimmed
  to 1 entry (`kMinChangesToKeep` is 100 in the code, and is set to a small number in
  its own tests): each relative order of two documents and three placeholders is
  reached, and entries are dropped, kept idle and revived. A document that is older
  than the tracker is among the initial states.
- `pusher`: 2 documents, 3 revisions (one pushed, one held back, one that replaces
  it), of which an earlier replication may have pushed any, any of the documents
  filtered out; lists of 2 revisions read 1 at a time, 2 lists in flight, a queue that
  is full with 1 revision, 1 being transmitted, and none sent with more than 1 waiting
  for its reply: every limit of the code is met, each from both sides. A reply is
  handled when fewer than 2 calls of each method are in the mailbox: the mailbox is a
  queue, so that calls cannot pile up behind replies that come after them. Symmetry in
  the documents, and a view that leaves out what became of superseded revisions, on
  which no action depends.
- `puller`: 3 changes in lists of 2, 1 active and 2 unfinished revisions, a RevFinder
  that takes no more messages with one revision outstanding: every limit is met, by
  revisions and by revocations, and a third change waits behind both. Both kinds of
  deltas, which are the revisions that can fail in most ways (`SomeForms`: one
  kind between two of the other, so that either may come first); one fault of
  nine kinds. Any number of the three may be the backlog.
- `puller_oneshot`: lists of 1, so that each waits or is handled by itself, and changes
  that the database has already; the faults of a connection and of single revisions. The
  Inserter's are in `puller`.
- `tracker_once`: the bounds of `tracker`.
- `lifecycle`: one thread of the client, whose calls meet every state of the other
  threads. A configuration (`mode`) has its own bounds on calls and faults. With one
  fault (`ManyCalls`): two calls where there is a retry or a second collection, which is
  enough to stop a replicator that is waiting to retry; three without, which is enough
  to start, stop and start again, or suspend and resume, while the first Replicator is
  still on its way out. With two faults (`ManyFaults`), so that one may come after the
  error that closes the connection: one-shot replications, a remote one with a retry
  and a local one, which are started and left alone. Errors: a transient one
  that stops the Replicator, a permanent one that does, and one that does not; all five
  ways of closing. One Replicator at a time may be on its way out and still calling
  back; a second waits for it.
- `blip`: frames of 1 or 2 units, a window of 2 and a socket that buffers 1: messages
  of 3 and 5 units freeze and thaw, and the socket is full after each frame.
- `documents`: two or three databases, up to 3 edits or 3 wall-clock ticks, up to 3
  merges, in eight modes; `CounterMod` is 8 instead of 2^16, which no mode uses up
  (section 7 has what happens then), and the allowed skew is 1 tick, which walls of 1
  to 3 exceed. In the mode with 3 ticks 2 edits, one by a clock ahead and one that
  has to win or lose against it.
- `CHECK_DEADLOCK FALSE` where the bounds on changes, sessions or sequences stop
  the system; the replicator may also really stop.

## 6. Fairness

- `Checkpointer`: weak fairness of the timer thread, of the Replicator's handling of
  its mailbox, of the peer's answer (BLIP answers every request or fails it when the
  connection closes), of `~Timer`'s return once the callback is done. None for
  changes, for `save()` on the Replicator's thread (it happens when a worker changes
  status), or for the connection's closing. That a save completes once it was sent is an
  assumption here; `CheckpointSync` has the one case in which it does not
  (section 8). The step back into `save()` from
  `saveCompleted()` is in the same handler and so is fair.
- `CheckpointSync`: weak fairness of delivering and answering each kind of message
  on a connection that is up, of the actors' own work, and of reconnecting. None for
  starting a save (a change may stay unsaved, section 8), for edits, faults or
  disconnections; transient errors and disconnections stop in the last session,
  which is the hypothesis of `EventuallyInSync`.
- `Lifecycle`: weak fairness of all threads that have something to do and of the
  closing of a connection, which WebSocketImpl limits in time; none for the client,
  the retry timer, new work, faults, or the opening of a connection. `OneShotEnds`
  also needs that the peer answers, as its comment says, and begins when `getCollections`
  has been answered (section 8).
- `BLIPIO`: weak fairness of both actors and sockets as a whole, and of a handler's
  answering the request it was given. None for sending or closing. That no single
  message starves under it is what `EveryRequestEnds` checks.
- `VectorDocuments`: in the modes that `Converges` is about, replicators keep pulling
  and pushing, conflicts are resolved, and wall clocks advance. None for edits. A
  revision refused for its timestamp is not retried, however fair the replicators are:
  its sequence is completed on both sides (`Inserter.cc:67`, `Pusher+Revs.cc:268`), so
  that two databases may stay apart until the document is edited again. `Converges`
  names that exception (`RefusedAt`).

## 7. Proofs

All by TLAPS (SMT, Zenon, LS4). `PROJECT.json` lists the main theorems.

- **AlgorithmProofs.** Of SequenceSet, for all maps of natural numbers: if a map is
  canonical, adding or removing a sequence or a range gives a canonical map of exactly
  the right members; `contains` is inclusion of the interval; canonical maps with the
  same members are equal. The argument compares maps range by range, with
  `LowerContains` (what the range found by the search says about membership) and
  least elements of sets of naturals as lemmas. Of Checkpoint: `before()` is total and
  transitive on parsed sequences of all formats; the remote sequence that
  `validateWith()` leaves is not after either of the two; every change it makes is
  reported. Of HybridClock, for every counter width: `NowIsLater`, a time that the clock
  stamps is later than any it has stamped or seen, unless the counter is full and the
  wall clock has not moved on; `NowWrapsAround`, then it is earlier; and
  `SeeReachesTheTime`, `see()` of an acceptable time brings the clock to it and never
  turns it back, and a refusal changes nothing. The argument is on quotients and
  remainders, with the order of two times as a lemma.
  Of Checkpointer's autosave: the inductive invariant `IInv` adds to the checked
  invariants what each thread's place implies about the locks and flags (`Threads`:
  the callback runs exactly while `_triggered`, the mutex is held exactly in
  stopAutosave) and that the JSON handed out is not newer than the checkpoint. From
  it: `AutosaveIsSafe`, and `RefinesAutosave`, step by step. Assumption: the bound on
  changes is a natural number.
- **CheckpointSyncProofs.** In four layers, each with an inductive invariant.
  `Control`, beside the types, says which requests exist in which phase of a
  session. `PushSound` is not inductive, because a checkpoint outlives its session:
  `PushInv` adds that the checkpoint is right for the two databases wherever the
  next session may get it from (the local copy, its backup together with the log
  backed up with it, the one waiting to be saved, the one in a request), that
  acknowledged revisions are on the peer, and that the marks of synced revisions are
  true. `PullInv` says the same of remote sequences, with `Awaited` (every change
  announced is here or missing) for the running session; since either database may
  be restored, it keeps one of the two saved copies right: the local one if the peer
  is not restored (`LocalRight`), else the peer's (`RemoteRight`), and
  `validateWith()` takes the earlier one. `SaveInv` is the compare-and-swap: no
  request is ahead of the peer, and an answer "ok" means that the peer has our JSON
  at the next revision, which no late request can overwrite any more; it gives
  `SavedAlike`. For any number of revisions, sessions and saves. Assumptions:
  `Refused` is a set of revisions, and a behaviour does not restore *both* databases
  (then two old copies can agree on something that is no longer true, and the code
  does not claim otherwise).
- **SequenceTrackerProofs.** `IInv` says that the list has each element once and that
  the entries agree with it (`Consistent`), that it is `Trimmed`, that watchers have
  their entries, and, for aborts, that whatever an open transaction has changed in the
  database comes after its placeholder (`Agrees`): without that, an abort might leave
  an observer with nothing to read though the document changed back. Everything is
  said with one relation, `Before(list, x, y)`: the first lemmas say what appending,
  removing, splicing and dropping do to it, the next ones (`Follows`) what
  `_documentChanged()`, `removeObsoleteEntries()` and the loops over them do, and the
  actions need only those. From it: `NoCallbackMissed`, `EntriesAlwaysKept`, and
  `RefinesObservers`, where each action is a stuttering step or one step of
  `ChangeObservers`; an abort that finds nothing to revert is a stuttering step. For
  any number of documents and observers, any list length that is kept, and any reads.
  Assumptions: documents, observers and the transaction are different things, and at
  least one change is kept.
- **PusherProofs.** For any documents and revisions, and any limits of batches, lists,
  queue and transmissions: `NothingIsStranded`, `NeverStalls` and
  `CompletedAreDealtWith`. `IInv`, for the first two, has three parts. `Work`: a document is marked as being pushed, and a revision holds another one
  back, only while it is itself in work (`PushingInWork`, `HoldersInWork`), that is
  while `doneWithRev()` will yet be called for it; without that, what is held back
  could be forgotten. `Observed` and `ReadInOrder`: once the feed has read the history,
  what was announced after `maxSequence` is unread by the observer or being read; while
  it is read, changes come in order, and what was read already is not after the
  sequence where the reading began, so that `maxSequence` never passes over a change.
  `Woken`: a handler ends only when nothing more can be sent; if changes are to be read,
  a call is in the mailbox, or a list is in flight or the queue full, and both of these
  lead to a call; if all were read, `_notifyOnChanges` is set or the notification is in
  the mailbox. The lemmas say what each handler does to these; the one for
  `doneWithRev()` (`DoneKeeps`) serves all the replies. The third theorem needs more,
  `DInv`: a sequence is completed by mistake if the Pusher forgets that the same
  revision is also somewhere else, so each revision that was not refused before is in
  one place only (a list, the queue, being sent or awaited, held back, to be retried,
  or in the hands of a handler), there only once (`OnceThere`), and there pending
  (`Placed`); what `gotChanges()` goes through is later than what is held back, so that
  what it drops is not current (`GotInOrder`); and what the feed passes over need not be
  pushed (`KeptAll`; for the history, `HistoricalIs`, where a batch that is not full is
  shown to hold all there is). Each step moves revisions from one place to another
  (`Goes`). The peer may refuse a list: its revisions are then dropped one by one and
  stay pending, each marked as such, which is what `NothingStranded` names. The feed may
  fail: the invariants proved are `feedFailed \/ IInv` and `feedFailed \/ DInv`, because
  what the failing query leaves behind breaks them (section 8). Assumption of all three: the limits are not
  zero.
- **PullerProofs.** For any number of changes, limits, forms of revisions and faults:
  `ChangesStayInOrder` and `CheckpointPassesSettled`. Neither invariant is inductive,
  because what the checkpoint may pass is decided by four actors whose messages cross.
  `IInv` says, beside the types of the messages: the list of outstanding sequences is
  ascending and `first` its least (`GoodSet`), so that `since()` is below everything
  missing; the lists of changes that wait or are on their way to the Puller are in order
  and beyond what the Puller knows (`ListsInOrder`, `ListsKnown`), without which adding a
  list could put a sequence below one that was passed; every sequence announced is
  settled, missing, or in a list on its way (`AllCovered`); a revision is in one place
  only (`ComingOnce`, `OnePlace`): it is sent a second time only after a delta that could
  not be applied, and only then may its sequence be done with before it arrives; and the
  Inserter's queues agree with what the IncomingRevs say of themselves, of which a
  finished one without a transient error is settled (`WorkersKnown`). `Starting` says
  that the loop of `maybeStartIncomingRevs()` goes on only with something to start. The
  loop of `_expectSequences()` is the recursive function in `AddAll`, about which the
  lemmas are proved by its least counterexample. `CountersAlwaysMatch` is
  all of `CountersMatch`. For the requests: what the RevFinder throttles itself by is
  what the Puller waits for, and neither counter goes below zero. Its inductive invariant
  `Accounts` gives each message a weight (`Wants`, `Again`, `Comes`, ...) and compares the
  counters with the totals of the two mailboxes; that a counter never passes zero needs
  more than the totals, namely that no prefix of the mailbox takes it there (`Running`),
  and that a revision the peer owes is in one place only. For the IncomingRevs:
  `WorkersAccounted` is inductive once `RevokedOnce` is known, that a revoked document is
  handled once, so that no IncomingRev is started for it while another is at work and
  would be counted twice; the two batchers may report "provisionally handled" and
  "finished" in either order, which is why `provisional`, what is on its way, is part of
  the sum. `PullerInvariant` has the definitions of the invariant and of what the steps
  do to its parts. No assumption beyond those of the module.
- **LifecycleProofs.** For any number of client threads, calls, collections, retries
  and faults: `ClientAlwaysTold`, `StoppingErrorAlwaysKept`, `LetGoIsAlwaysDone` and
  `StopAlwaysOverridesRetry`. `IInv` adds to the types: of a Replicator (`Sound`), that
  the overall level is the busiest collection's, that a connection is gone when the
  Replicator says so, that it has an error whenever it closes, or has in its mailbox
  that it was closed, with the code for that error (`ClosesForItsError`: an error that
  comes later may take the place of this one, but a close code does not, since
  `onError()` leaves an error alone when such a code comes after it), and that it has
  nothing to do when it has stopped, and no answer in its mailbox that would give it
  something (`StoppedIsDone`); that the start message comes first and once (`StartsOnce`), since a
  later one would connect again; that what is let go of is replaced by a new one; that
  when the replicator is at rest and the client does not know, some thread is about to
  say so (`WillBeTold`); and that after `stop()` the level is one from which no retry
  begins (`StopIsFinal`). Assumption: the workers' errors are not the codes that only
  a Replicator closes with; the peer may close with those.
- **BLIPIOProofs.** For any requests and replies, frame sizes, limits and faults:
  `NoProtocolErrorEver`, `OneOutcomeOnly`, `ClosingSettlesAll`. `IInv` counts: a
  request is in one place (unsent, held by its end, awaited, or settled), a number is
  given once, and for each number at most one answer exists, from the request's last
  frame, by way of the in-box of the one who answers, to the answer's last frame
  (`OneAnswer`); and it says that what is under way is what its receiver expects next
  (`RequestsArrive`, `RequestsGoOn`, `AnswersMatch`: the frames of a request or an answer
  are in order, about the same thing, and with what has been got make what was sent).
  The counts are sums over the queues, whose lemmas come first. `ClosingSettlesAll` has
  the hypothesis that no frame of an error reply is damaged, because the code does not
  put such a message back (section 8).
- **BLIPFlowProofs.** For any requests and replies, frame sizes, windows, buffers and
  faults: `FlowAlwaysControlled`, and `ShortRepliesNeverStall`. The limit is not
  inductive, because a sender counts what it has not seen acknowledged and the receiver
  what it has not acknowledged, with frames and acknowledgements under way between them.
  `FlowInv` goes on from the `IInv` of `BLIPIOProofs`. Of each end it says that a message
  is frozen just when its window is full (`Windows`), and that whoever has something to
  write waits for a socket that is full or has called (`Wakes`). Of the two together, as
  long as both are open: what the sender has sent of a request is what has arrived plus
  what is under way; what it takes for acknowledged has arrived; and what has arrived is
  known to it, or below the receiver's threshold, or in an acknowledgement that is under
  way (`RequestFlow`); of an answer, only that what is taken for acknowledged has arrived
  (`AnswerFlow`). The third part is missing for answers because it is false: an
  acknowledgement of an answer can be given to the wrong message (`Message.hh:84` in
  section 8), which is why `NoStall` cannot be proved of all requests. So no request is ever left
  frozen, and if all replies fit in the window nothing is: that hypothesis of
  `ShortRepliesNeverStall` is on the requests, and none is made on order or timing. The
  module's own assumption is that a receiver acknowledges no later than the window
  demands (`AckThreshold <= MaxUnacked`; 50000 and 128000 in the code).

An invariant about what a recursive function computes (the sums of `BLIPIOProofs` and `BLIPFlowProofs`, the
loop of `DocumentsChanged`) is proved by looking at the least index for which it fails:
the library's induction theorems cannot be used, but the least element of a set of
naturals can.

Only model-checked:
- liveness (`ChangeDuringSaveIsSaved`, `EventuallyInSync`, `SaveEnds`, `StoppingEnds`,
  `OneShotEnds`, `EveryRequestEnds`, `Converges`), which is beyond this prover;
- what is defined with folds, which are opaque to it, or is about encodings:
  `MethodsAreSetOperations` (union, intersection, JSON; the other methods are proved),
  `JSONRoundTrips`, `LocalMinIsLastContiguous`, `ValidationIsFailsafe` (for its remote
  half, see `ValidRemoteIsEarlier`);
- that replies longer than BLIP's window do not stay frozen: with the requests of the run
  `blip` they do not (`EveryRequestEnds`), but it is not true in general (section 8);
- `NoStall` and `LevelIsTrue` of `Puller`; `puller_oneshot` has the latter for one-shot
  pulls;
- the invariants of `VectorDocuments`, which are about folds over vectors and sorted
  sequences, and which the code keeps only in the modes the runs name (a purge followed by
  reopening the database can stamp a version twice, and so can a full counter).

## 8. Disagreements found

With a run:
- `tracker_once`: `SequenceTracker.cc:257`. An observer that has been called and has not
  read is called again when the document it has to read changes in another transaction,
  or when another observer's placeholder has come between; `SequenceTracker.hh:164` says
  "_once_", and `SequenceTrackerTest.cc:142` expects it.
- `documents_merge`: `VersionVector::merge()` keeps the times of the two current versions
  for their authors even where the other vector has a later one. Two databases that
  resolved one conflict crosswise have such vectors, and merging them loses the later
  time, though `VersionVector.hh:227` promises "the larger of the two timestamps".

Without a run of their own; the properties are stated so that they hold without them,
and each can be seen by leaving the exception out.

Checkpoints and their saving:
- `Replicator.cc:759`: when a save met a conflict and the peer
  answers the `getCheckpoint` that follows with an error other than 404, the handler
  returns `gotError()` and nothing calls `saveCompleted()`: nothing is saved any more
  and the Replicator stays Busy as long as it is connected, if the error is not one that
  stops it. `Replicator.cc:967` says why a save that fails must be marked as saved. A
  one-shot replication then does not end (`SaveIsLost` in `OneShotEnds`).
  (`SaveAlwaysEnds` in place of `SaveEnds` in `MCCheckpointSync_live.cfg` is violated.)
- `Checkpointer.cc:116`: `stopAutosave()` destroys the timer while it holds the mutex
  that the timer's callback needs in `save()`; if the callback has just fired, both
  threads wait for ever. (`StopAutosave` and the fairness of `AutosaveStopped`.)
- `Checkpointer.cc:124`: `Timer::scheduled()` is also true while the callback is on
  its way out, so that a change made then sets `_changed` and no timer.
- `ChangesFeed.cc:280`: a server restored from a backup that still holds the client's
  checkpoint lost the revisions pushed since; the client skips them because they are
  marked as synced. (`AllPushed` with the peer restored.)
- `Inserter.cc:85`: the error of a failed insert transaction is not marked transient,
  so that its sequences count as pulled. (`AllPulled` with a failing commit.)
- `Checkpoint.hh:91` says of `pendingSequenceCount()`: "uncompleted sequences up through
  the last sequence checked". The code counts every gap, also those after the last one
  checked when that is behind the last completed sequence (as it can be after reading a
  checkpoint); `LocalMinIsLastContiguous` states what the code counts.
- The comment on `validateWith()` in `Checkpointer.hh` says that a mismatch resets the
  checkpoint; the code rolls back to what the two have in common, which is better.

Observers and the Pusher:
- `ChangesFeed.cc:110`, `Pusher.cc:116`: an exception in the query of the
  history: `_maxSequence` has moved and `_caughtUp` is set, what was passed over is marked
  as completed, `gotChanges()` drops the batch and asks for no more. The rest of the
  history is completed by the next change, unpushed; `Checkpointer.hh:61` says that all
  sequences up to the checkpoint are pushed. Until then the Pusher has stalled, which is
  why `NoStall` and `NothingStranded` are about feeds that do not fail.
  (`PushedUpToCheckpoint` in `MCPusher.cfg`, with `Errors = {"feed"}` and without the
  view, is violated.)
- `SequenceTracker.cc:182`: the change that reports an abort carries the aborted
  revision's ID, and sequence 0, which means a purge, for a document that was not in
  the list before.
- `CompletedIsDealtWith` counts a 403 as an answer, though the code is to retry it
  once: retries arrive in the order in which they failed, and `gotChanges()` takes the
  one that arrives for newer than the one held back.
- `Pusher.cc:287`: the revisions of a list that the peer refuses stay pending, and are
  not offered again in this replication; `RevFinder.cc:160` of this repository is one that
  answers so.

The Puller:
- `IncomingRev.cc:230`: a delta that fails while it is parsed is asked for again, but
  only the Inserter sets `errorIsTransient`, so its sequence is completed at once
  (`askedAgain` in `CheckpointedIsSettled`). The same goes for a blob that fails.
- `RevFinder.cc:222`: the sequence of a revoked document is completed before the
  document is purged.
- `Puller.cc:320`: a `_revReRequested` that is still queued when the Puller has
  stopped uses `_revFinder`, which `computeActivityLevel()` has cleared (444).

The life of a replicator:
- `c4ReplicatorImpl.cc:110`: suspending a replicator that is offline does not cancel
  its retry timer, though `c4Replicator.h:117` says that it "will not attempt to
  reconnect while it's suspended"; and one that becomes reachable while it is
  suspended is not retried when it is resumed.
- `c4ReplicatorImpl.cc:369-371`: `_selfRetain` is cleared, and a resumed replicator
  started, after the mutex has been released: a `stop()` in between is overtaken, though
  a comment of the class says that stop() overrides any suspending or unsuspending
  (CBL-722). The proof of `StopOverridesRetry` met this: suspend, unsuspend while it is
  stopping, and `stop()` between the Replicator's end and its `start()`. The property
  counts that `start()` as one the client asked for. With two client threads, `stop()`'s
  `cancelScheduledRetry()`, which runs before the mutex is taken, can also write back
  flags that the other has changed since. Notifications are sent without the mutex too, and may come out of order.
- `c4RemoteReplicator.hh:60`: `start()` during the stopping that a `stop()` began is
  ignored.
- `Replicator.cc:522`: `onError()` keeps the first error only against the codes of a close
  (CBL-1178). Any other that follows, a late answer or the loss of the link, takes its
  place, and a transient one may make the replicator retry what a fatal one had ended.
  `StoppingErrorIsKept` says what remains: it ends with an error that occurred.
- `Replicator.cc:838`: an error in answer to `getCollections` that is not a stopping
  error leaves the Replicator busy with nothing to do (`OneShotEnds` starts after it).

BLIP:
- `Message.hh:84`: an ACK counts as a response, so that `findMessage` may match an
  incoming ACK of a response with an outgoing ACK of the same number that is still in
  the out-box. The ACK is then lost, and if it was the last one the response stays frozen
  for ever, though `BLIPConnection.cc:500` says that an ACK is handled "by unfreezing the
  associated outgoing message", and the protocol's document that a suspended message
  waits "until an ACK with a sufficiently high byte count is received". (`Requests <-
  BothWays`, `MaxUnacked = 2`, `AckThreshold = 1`, `SendBuffer = 1`, `BigFrame = 2`,
  `SmallFrame = 1` and no faults violate `NoStall` in seconds.) A request cannot be
  mistaken in this way (`FlowAlwaysControlled`), and a reply that fits in the window
  needs no ACK (`ShortRepliesNeverStall`).
- `BLIPConnection.cc:468`: the comment says that a message whose last frame cannot be
  read is put back so that it can be told; one of type ERR is not. (`"ERR" \in
  Damaged` violates `ClosedSettlesAll`.)
- `MessageOut.hh:82-84` count in 32 bits what the receiver acknowledges in 64.

Documents:
- A conflict flag that outlives its conflict: when the current revision has moved on
  to one that contains the remote's, `resolveConflict()` still resolves, and can make
  two revisions of one version with different bodies; with equal current versions it
  fails with "That's the same revision".
- `HybridClock.cc:83`: the counter wraps without the wall time's advancing (theorem
  `NowWrapsAround`); and a reopened database starts from `none`, so that only
  `addNewVersion`'s look at its own last version keeps its times in order, which
  fails when that is more than the allowed skew ahead of the wall clock.
- `VersionVector.hh` says of `updateClock` the reverse of what its flag does, and of
  `trivialMerge` that its result is not a merge; it is if the winner is.

## 9. Not modelled

- `Checkpointer`: the checkpoint's document ID, `pendingDocumentIDs()` and
  `isDocumentPending()` (queries of the database).
- `CheckpointSync`: several collections (each has its own checkpoint; only
  `getCollections` is shared), one-way and passive replication, several revisions of
  a document, blobs and deltas, filters; the peer's database pool.
- `Pusher`: one-shot and passive push, blobs, the contents of messages, the change from
  `changes` to `proposeChanges` after a 409 (the same list is sent again, and a second
  409 ends the replication), purging, and errors that end the replication, with the
  closing of the connection; exceptions while the observer is read, and a document that
  `shouldPushRev()` cannot read, which is passed over as one that is filtered out. A
  Pusher whose feed failed is not caught up, hence Busy; levels are `Lifecycle`'s.
- `Puller`: passive pull (`proposeChanges`), several collections, what a blob download
  sends and receives, progress counts; what `gotError()` does when `subChanges` is refused,
  which is `Lifecycle`'s. The peer is taken to answer `subChanges` before it announces
  anything, as `Pusher.cc:91` does.
- `Lifecycle`: saves begun by the autosave timer, which are `Checkpointer`'s: here one
  begins when a worker goes idle or stops, and its request is sent at once instead of
  by way of the mailbox. Incoming and local replicators beyond what all classes share, options,
  authentication, progress, document-ended notifications; the pull side of the status,
  which the same code keeps.
- `BLIPIO`: compression, checksums, the table of handlers, the WebSocket's handshake,
  heartbeat and timeouts. Of its closing handshake only that it comes to an end: an end
  that got a CLOSE echoes it and sends nothing more, where the model lets it go on until
  it has closed, which allows more.
- `VectorDocuments`: legacy revision IDs and their conversion (a good part of
  `findAncestors`, `putExistingRevision` and `resolveConflict`), the record's encoding,
  more than one document (nothing relates two), pruning of vectors, which nothing calls.
  A merge that throws has moved the clock; no mode of the runs gets there. The upper
  limit of `HybridClock::validTime` is left out, since `seenTime()` refuses such times
  as too far ahead; so is the exception of `replaceAuthor`, for vectors that
  `TypeOK` excludes.
- `SequenceTracker`: observers that start at an older sequence (`_since()`), which no
  caller in the library asks for; body sizes and flags.
- `Timer`: `fireEarlierAfter` and self-deleting timers, which `Checkpointer` does not
  use.
- Revision trees, `LiveQuerier`, `Housekeeper`, mailboxes and the transaction lock of
  `DataFile`: planned (section 2) or assumed. Query translation, the blob store,
  logging, HTTP, TLS, REST and cryptography are input and output, or wrappers of
  third-party libraries, with little state of their own; the generated N1QL parser and
  the ICU headers are not the program's own logic. They are most of the repository's
  lines, and there is nothing in them that changes over time for a model to check.
