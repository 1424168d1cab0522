------------------------------- MODULE Pusher -------------------------------
(***************************************************************************)
(* Continuous push of one collection: the threads that commit changes, the *)
(* ChangesFeed that reads them, first from the database's history and then *)
(* from an observer, and the Pusher, an actor, which proposes them to the  *)
(* peer, queues and sends those it wants, and retries what failed.         *)
(*                                                                         *)
(* A revision is named by its sequence: log[s] is the document whose       *)
(* revision has sequence s, and the document's last one is current.        *)
(*                                                                         *)
(* Handlers of the Pusher are split into steps (`pc') where they loop or   *)
(* where another thread may come in between; the actor handles nothing     *)
(* else before pc is "idle" again.  Other handlers are one step each.      *)
(***************************************************************************)
EXTENDS Naturals, Sequences, FiniteSets

CONSTANTS Docs,
          Errors,        \* the errors that happen: the peer's answers, and the feed's
          MaxSequence,   \* bound on the number of revisions
          BatchSize,     \* kDefaultChangeBatchSize
          MaxObserved,   \* kMaxChanges of getObservedChanges
          MaxLists,      \* kMaxChangeListsInFlight
          MaxQueued,     \* kMaxRevsQueued
          MaxInFlight,   \* maxRevsInFlight
          MaxAwaiting,   \* kMaxRevBytesAwaitingReply, in revisions
          MaxMessages    \* bound on the number of equal messages in the mailbox

AllErrors == {"transient", "forbidden", "delta", "permanent", "conflict", "list", "feed"}

ASSUME PusherAssumption ==
    /\ Errors \subseteq AllErrors
    /\ \A n \in {BatchSize, MaxObserved, MaxLists, MaxQueued, MaxInFlight, MaxMessages} : n \in Nat \ {0}
    /\ MaxSequence \in Nat /\ MaxAwaiting \in Nat

VARIABLES
    log,           \* the database: the document of each sequence
    announced,     \* the sequence up to which observers have been told
    skipped,       \* documents the push filter rejects, or that are only pulled
    \* ChangesFeed:
    observer,      \* _changeObserver exists
    unread,        \* what it has not read: the last sequence of each document
    notify,        \* _notifyOnChanges
    maxSequence, feedCaughtUp,
    \* Pusher:
    caughtUp,
    continuousCaughtUp,
    mailbox,       \* number of queued calls, by method
    pushing,       \* _pushingDocs
    nextRev,       \* RevToSend::nextRev
    lists,         \* change lists sent and not answered
    queue,         \* _revQueue
    flying,        \* revs being transmitted: _revisionsInFlight
    awaiting,      \* revs whose reply is awaited
    toRetry,       \* _revsToRetry
    mightRetry,    \* _conflictsIMightRetry
    retryCount,    \* the revs whose RevToSend::retryCount is not 0
    noDelta,       \* the revs whose RevToSend::deltaOK has been cleared
    pc, todo, kept, start,   \* the handler that is running, and its locals
    \* The Checkpointer, and what the peer has said of each revision:
    completed, fate,
    feedFailed     \* history: ChangesFeed has returned an error

db == <<log, announced, skipped>>
feed == <<observer, unread, notify, maxSequence, feedCaughtUp>>
flags == <<caughtUp, continuousCaughtUp>>
docs == <<pushing, nextRev, lists>>
revs == <<queue, flying, awaiting>>
retries == <<toRetry, mightRetry, retryCount, noDelta>>
locals == <<todo, kept, start>>
vars == <<db, feed, flags, mailbox, docs, revs, retries, pc, locals, completed, fate, feedFailed>>

Revs == 1 .. MaxSequence
Current(s) == \A t \in s + 1 .. Len(log) : log[t] # log[s]
Elements(q) == {q[i] : i \in DOMAIN q}
Greatest(S) == CHOOSE s \in S : \A t \in S : t <= s
FirstOf(S, n) == {s \in S : Cardinality({t \in S : t <= s}) <= n}
InOrder(S) == CHOOSE q \in [1 .. Cardinality(S) -> S] : Elements(q) = S /\ \A i, j \in DOMAIN q : i < j => q[i] < q[j]

Enqueue(method) == [mailbox EXCEPT ![method] = @ + 1]

(* Every variable has its type. *)
TypeOK ==
    /\ Len(log) \in 0 .. MaxSequence /\ Elements(log) \subseteq Docs /\ announced \in 0 .. Len(log)
    /\ skipped \subseteq Docs
    /\ observer \in BOOLEAN /\ notify \in BOOLEAN /\ feedCaughtUp \in BOOLEAN
    /\ unread \subseteq Revs /\ maxSequence \in 0 .. MaxSequence
    /\ caughtUp \in BOOLEAN /\ continuousCaughtUp \in BOOLEAN
    /\ mailbox \in [{"maybeGetMoreChanges", "dbHasNewChanges", "maybeSendMoreRevs"} -> Nat]
    /\ pushing \in [Docs -> Revs \cup {0}] /\ nextRev \in [Revs -> Revs \cup {0}]
    /\ \A l \in lists : Elements(l) \subseteq Revs
    /\ \A q \in {queue, toRetry, todo, kept} : Elements(q) \subseteq Revs
    /\ \A S \in {flying, awaiting, retryCount, noDelta, completed} : S \subseteq Revs
    /\ mightRetry \in [Docs -> Revs \cup {0}]
    /\ pc \in {"idle", "reading", "observing", "got", "replying", "failing", "sending"}
    /\ start \in 0 .. MaxSequence
    /\ fate \in [Revs -> {"none", "pushed", "transient", "dropped", "permanent", "conflict"}]
    /\ feedFailed \in BOOLEAN

(* _start(): an earlier replication may have pushed some revisions. *)
Init ==
    /\ \E n \in 0 .. MaxSequence : log \in [1 .. n -> Docs]
    /\ announced = Len(log) /\ skipped \in SUBSET Docs
    /\ observer = FALSE /\ unread = {} /\ notify = FALSE /\ feedCaughtUp = FALSE
    /\ caughtUp = FALSE /\ continuousCaughtUp = TRUE
    /\ mailbox = [maybeGetMoreChanges |-> 1, dbHasNewChanges |-> 0, maybeSendMoreRevs |-> 0]   \* _start()
    /\ pushing = [d \in Docs |-> 0] /\ nextRev = [s \in Revs |-> 0] /\ lists = {}
    /\ queue = << >> /\ flying = {} /\ awaiting = {}
    /\ toRetry = << >> /\ mightRetry = [d \in Docs |-> 0] /\ retryCount = {} /\ noDelta = {}
    /\ pc = "idle" /\ todo = << >> /\ kept = << >> /\ start = 0
    /\ completed \in SUBSET (1 .. Len(log))
    /\ maxSequence = Greatest({n \in 0 .. Len(log) : 1 .. n \subseteq completed})   \* localMinSequence()
    /\ fate = [s \in Revs |-> IF s \in completed THEN "pushed" ELSE "none"]
    /\ feedFailed = FALSE

(* isBusy() *)
Busy ==
    \/ \E method \in DOMAIN mailbox : mailbox[method] > 0
    \/ ~caughtUp \/ ~continuousCaughtUp
    \/ lists # {} \/ flying # {} \/ awaiting # {} \/ queue # << >>
    \/ \E d \in Docs : pushing[d] # 0

(* afterEvent() retries before the actor handles another event. *)
MustRetry == toRetry # << >> /\ ~Busy
Ready == pc = "idle" /\ ~MustRetry

-----------------------------------------------------------------------------
(* A writer commits a revision; it holds the transaction lock until it has *)
(* told the observers.                                                     *)
Commit(d) ==
    /\ announced = Len(log) /\ Len(log) < MaxSequence
    /\ log' = Append(log, d)
    /\ UNCHANGED <<announced, skipped, feed, flags, mailbox, docs, revs, retries, pc, locals, completed, fate, feedFailed>>

(* SequenceTracker calls the observer if it was up to date, and perhaps    *)
(* again if all it had not read is an earlier change of the same document. *)
(* _dbChanged() tests and clears _notifyOnChanges.                         *)
Announce(again) ==
    LET s == Len(log)
        others == {t \in unread : log[t] # log[s]}
        calls == observer /\ others = {} /\ (unread = {} \/ again)
    IN  /\ announced < Len(log)
        /\ announced' = s
        /\ unread' = IF observer THEN others \cup {s} ELSE unread
        /\ notify' = (notify /\ ~calls)
        /\ mailbox' = IF calls /\ notify THEN Enqueue("dbHasNewChanges") ELSE mailbox
        /\ UNCHANGED <<log, skipped, observer, maxSequence, feedCaughtUp, flags, docs, revs, retries, pc, locals, completed, fate, feedFailed>>

-----------------------------------------------------------------------------
(* _maybeGetMoreChanges(), given the value of _continuousCaughtUp; the     *)
(* feed creates its observer before it reads anything.                     *)
MaybeGetMoreChanges(upToDate) ==
    IF /\ ~caughtUp \/ ~upToDate
       /\ Cardinality(lists) < (IF caughtUp THEN 1 ELSE MaxLists)
       /\ Len(queue) < MaxQueued
    THEN /\ continuousCaughtUp' = TRUE
         /\ observer' = TRUE
         /\ pc' = "reading"
    ELSE /\ continuousCaughtUp' = upToDate
         /\ UNCHANGED <<observer, pc>>

HandleMaybeGetMoreChanges ==
    /\ Ready /\ mailbox.maybeGetMoreChanges > 0
    /\ mailbox' = [mailbox EXCEPT !.maybeGetMoreChanges = @ - 1]
    /\ MaybeGetMoreChanges(continuousCaughtUp)
    /\ UNCHANGED <<db, unread, notify, maxSequence, feedCaughtUp, caughtUp, docs, revs, retries, locals, completed, fate, feedFailed>>

DBHasNewChanges ==
    /\ Ready /\ mailbox.dbHasNewChanges > 0
    /\ mailbox' = [mailbox EXCEPT !.dbHasNewChanges = @ - 1]
    /\ MaybeGetMoreChanges(FALSE)
    /\ UNCHANGED <<db, unread, notify, maxSequence, feedCaughtUp, caughtUp, docs, revs, retries, locals, completed, fate, feedFailed>>

(* addPendingSequences(): what was passed over counts as completed. *)
BadAddPendingSequences(changes, first, last) ==
    completed' = (completed \ Elements(changes)) \cup (first .. last)

AddPendingSequences(changes, first, last) ==
    completed' = (completed \cup (first .. last)) \ Elements(changes)

(* getHistoricalChanges(): a query of the current revisions by sequence. *)
GetHistoricalChanges ==
    LET found == {s \in maxSequence + 1 .. Len(log) : Current(s)}
        pushable == FirstOf({s \in found : log[s] \notin skipped /\ s \notin completed}, BatchSize)
        full == Cardinality(pushable) = BatchSize
        last == Greatest(IF full THEN pushable ELSE found \cup {maxSequence})
    IN  /\ pc = "reading" /\ ~feedCaughtUp
        /\ feedCaughtUp' = ~full
        /\ maxSequence' = last
        /\ todo' = InOrder(pushable)
        /\ AddPendingSequences(todo', maxSequence + 1, last)
        /\ continuousCaughtUp' = FALSE   \* changes.askAgain
        /\ pc' = "got"
        /\ UNCHANGED <<db, observer, unread, notify, caughtUp, mailbox, docs, revs, retries, kept, start, fate, feedFailed>>

(* An exception ends the query early, having read up to `last', whose      *)
(* makeRevToSend() may be what threw.  What was read is pending, but       *)
(* gotChanges() drops it, and schedules nothing; and since the batch is not*)
(* full the feed believes that it has caught up with the database.         *)
FeedFailed(last, threw) ==
    LET found == {s \in maxSequence + 1 .. Len(log) : Current(s)}
        got == {s \in found : s <= last /\ (s = last => ~threw) /\ log[s] \notin skipped /\ s \notin completed}
        full == Cardinality(got) = BatchSize
    IN  /\ pc = "reading" /\ ~feedCaughtUp /\ "feed" \in Errors
        /\ last \in found \cup {maxSequence}
        /\ Cardinality(got) <= BatchSize /\ (full => last \in got)
        /\ feedCaughtUp' = ~full
        /\ maxSequence' = last
        /\ AddPendingSequences(InOrder(got), maxSequence + 1, last)
        /\ pc' = "idle"
        /\ feedFailed' = TRUE
        /\ UNCHANGED <<db, observer, unread, notify, flags, mailbox, docs, revs, retries, locals, fate>>

(* getObservedChanges(): _notifyOnChanges is set before the first read. *)
GetObservedChanges ==
    /\ pc = "reading" /\ feedCaughtUp
    /\ notify' = TRUE
    /\ pc' = "observing" /\ start' = maxSequence
    /\ UNCHANGED <<db, observer, unread, maxSequence, feedCaughtUp, flags, mailbox, docs, revs, retries, todo, kept, completed, fate, feedFailed>>

(* The observer's getChanges(). *)
ReadObserver ==
    LET room == BatchSize - Len(kept)
        read == FirstOf(FirstOf(unread, room), MaxObserved)
    IN  /\ pc = "observing" /\ todo = << >> /\ room > 0 /\ unread # {}
        /\ todo' = InOrder(read)
        /\ unread' = unread \ read
        /\ UNCHANGED <<db, observer, notify, maxSequence, feedCaughtUp, flags, mailbox, docs, revs, retries, pc, kept, start, completed, fate, feedFailed>>

(* Each change that was read: makeRevToSend() may find that the document   *)
(* has a newer revision.  An older one in the list is removed.             *)
ObserveChange(push) ==
    LET s == Head(todo)
        known == s <= start
        others == {t \in Elements(kept) : log[t] # log[s]}
    IN  /\ pc = "observing" /\ todo # << >>
        /\ push => ~known /\ log[s] \notin skipped
        /\ ~push => known \/ log[s] \in skipped \/ ~Current(s)
        /\ todo' = Tail(todo)
        /\ maxSequence' = IF known THEN maxSequence ELSE s
        /\ kept' = IF push THEN Append(InOrder(others), s) ELSE kept
        /\ UNCHANGED <<db, observer, unread, notify, feedCaughtUp, flags, mailbox, docs, revs, retries, pc, start, completed, fate, feedFailed>>

(* A full list means that the Pusher will ask again; else                  *)
(* _notifyOnChanges stays set.                                             *)
ObservedAll ==
    LET full == Len(kept) = BatchSize
    IN  /\ pc = "observing" /\ todo = << >> /\ (full \/ unread = {})
        /\ notify' = (notify /\ ~full)
        /\ AddPendingSequences(kept, start + 1, maxSequence)
        /\ caughtUp' = (caughtUp \/ ~full)
        /\ continuousCaughtUp' = (continuousCaughtUp /\ caughtUp /\ ~full)
        /\ pc' = "got" /\ todo' = kept /\ kept' = << >>
        /\ UNCHANGED <<db, observer, unread, maxSequence, feedCaughtUp, mailbox, docs, revs, retries, start, fate, feedFailed>>

BadGotChange ==
    LET s == Head(todo)
        earlier == pushing[log[s]]
    IN  /\ pc = "got" /\ todo # << >>
        /\ todo' = Tail(todo)
        /\ IF earlier = 0
           THEN /\ pushing' = [pushing EXCEPT ![log[s]] = s]
                /\ kept' = Append(kept, s)
           ELSE UNCHANGED <<pushing, kept>>   \* the later change is erased, and not held back
        /\ UNCHANGED <<db, feed, flags, mailbox, nextRev, lists, revs, retries, pc, start, completed, fate, feedFailed>>

(* gotChanges(): a document that is being pushed already holds its newer   *)
(* revision back; one that was held back before counts as obsolete.        *)
GotChange ==
    LET s == Head(todo)
        earlier == pushing[log[s]]
    IN  /\ pc = "got" /\ todo # << >>
        /\ todo' = Tail(todo)
        /\ IF earlier = 0
           THEN /\ pushing' = [pushing EXCEPT ![log[s]] = s]
                /\ kept' = Append(kept, s)
                /\ UNCHANGED <<nextRev, completed>>
           ELSE /\ nextRev' = [nextRev EXCEPT ![earlier] = s]
                /\ completed' = completed \cup ({nextRev[earlier]} \ {0})
                /\ UNCHANGED <<pushing, kept>>
        /\ UNCHANGED <<db, feed, flags, mailbox, lists, revs, retries, pc, start, fate, feedFailed>>

(* sendChanges(): an empty list needs no reply. *)
SendChanges ==
    /\ pc = "got" /\ todo = << >>
    /\ lists' = lists \cup ({kept} \ {<< >>})
    /\ mailbox' = Enqueue("maybeGetMoreChanges")
    /\ pc' = "idle" /\ kept' = << >>
    /\ UNCHANGED <<db, feed, flags, pushing, nextRev, revs, retries, todo, start, completed, fate, feedFailed>>

-----------------------------------------------------------------------------
(* doneWithRev(): the document is no longer being pushed, except that a    *)
(* revision may be sent `again'; the revision it held back is proposed     *)
(* (gotOutOfOrderChange()), or dropped: if it is not current, or if it     *)
(* would conflict with the one just pushed.                                *)
DoneWithRev(s, says, done, again) ==
    \E propose \in BOOLEAN :
        LET d == log[s]
            next == nextRev[s]
            told == [fate EXCEPT ![s] = says]
            ended == IF done THEN completed \cup {s} ELSE completed
        IN  /\ propose => next # 0
            /\ ~propose /\ next # 0 /\ Current(next) => says = "pushed"
            /\ nextRev' = [nextRev EXCEPT ![s] = 0]
            /\ pushing' = [pushing EXCEPT ![d] = IF propose THEN next ELSE IF again THEN s ELSE 0]
            /\ IF propose
               THEN lists' = lists \cup {<<next>>} /\ completed' = ended \ {next} /\ fate' = told
               ELSE /\ lists' = lists
                    /\ completed' = ended \cup ({next} \ {0})
                    /\ fate' = IF next # 0 /\ Current(next) THEN [told EXCEPT ![next] = "conflict"] ELSE told

(* The loops of maybeSendMoreRevs() and handleChangesResponse(), which     *)
(* ends in a call of the former.                                           *)
CanSend == Cardinality(flying) < MaxInFlight /\ Cardinality(awaiting) <= MaxAwaiting /\ queue # << >>
MaybeSendMoreRevs == pc' = IF CanSend' THEN "sending" ELSE "idle"
NextResponse ==
    /\ todo' = Tail(todo)
    /\ IF todo' # << >> THEN UNCHANGED pc ELSE MaybeSendMoreRevs

(* Replies and notifications the actor may handle next. *)
CanReceive == Ready /\ \A method \in DOMAIN mailbox : mailbox[method] < MaxMessages

(* handleChangesResponse(): each revision may be sent as a delta again.    *)
ChangesReply(list) ==
    /\ CanReceive /\ list \in lists
    /\ lists' = lists \ {list}
    /\ mailbox' = Enqueue("maybeGetMoreChanges")
    /\ noDelta' = noDelta \ Elements(list)
    /\ pc' = "replying" /\ todo' = list
    /\ UNCHANGED <<db, feed, flags, pushing, nextRev, revs, toRetry, mightRetry, retryCount, kept, start, completed, fate, feedFailed>>

(* The reply is an error: the revisions are done with, and not completed.  *)
ListRefused(list) ==
    /\ CanReceive /\ list \in lists /\ "list" \in Errors
    /\ lists' = lists \ {list}
    /\ mailbox' = Enqueue("maybeGetMoreChanges")
    /\ pc' = "failing" /\ todo' = list
    /\ UNCHANGED <<db, feed, flags, pushing, nextRev, revs, retries, kept, start, completed, fate, feedFailed>>

DropRev ==
    /\ pc = "failing" /\ todo # << >>
    /\ DoneWithRev(Head(todo), "dropped", FALSE, FALSE)
    /\ todo' = Tail(todo)
    /\ pc' = IF todo' # << >> THEN "failing" ELSE "idle"
    /\ UNCHANGED <<db, feed, flags, mailbox, revs, retries, kept, start, feedFailed>>

(* handleChangeResponse(), handleProposedChangeResponse(): the peer wants  *)
(* a revision,                                                             *)
WantRev ==
    /\ pc = "replying" /\ todo # << >>
    /\ queue' = Append(queue, Head(todo))
    /\ UNCHANGED <<db, feed, flags, mailbox, docs, flying, awaiting, retries, kept, start, completed, fate, feedFailed>>
    /\ NextResponse

(* has it already or refuses it,                                           *)
DontWantRev(says) ==
    /\ pc = "replying" /\ todo # << >>
    /\ says \in {"pushed"} \cup (Errors \cap {"permanent"})
    /\ DoneWithRev(Head(todo), says, TRUE, FALSE)
    /\ UNCHANGED <<db, feed, flags, mailbox, revs, retries, kept, start, feedFailed>>
    /\ NextResponse

(* or has one that conflicts with it.  The peer or the database may know a *)
(* later ancestor, and it is proposed again at once;                       *)
ProposeAgain ==
    /\ pc = "replying" /\ todo # << >> /\ "conflict" \in Errors
    /\ Current(Head(todo))
    /\ lists' = lists \cup {<<Head(todo)>>}
    /\ UNCHANGED <<db, feed, flags, mailbox, pushing, nextRev, revs, retries, kept, start, completed, fate, feedFailed>>
    /\ NextResponse

(* or it may be proposed again when the puller finds the ancestor; the     *)
(* sequence counts as completed anyway.                                    *)
Conflict(mightBeRetried) ==
    LET s == Head(todo)
        d == log[s]
    IN  /\ pc = "replying" /\ todo # << >> /\ "conflict" \in Errors
        /\ mightBeRetried => Current(s)
        /\ mightRetry' = IF mightBeRetried /\ mightRetry[d] < s THEN [mightRetry EXCEPT ![d] = s] ELSE mightRetry
        /\ DoneWithRev(s, "conflict", TRUE, FALSE)
        /\ UNCHANGED <<db, feed, flags, mailbox, revs, toRetry, retryCount, noDelta, kept, start, feedFailed>>
        /\ NextResponse

(* _docRemoteAncestorChanged(), called by the Puller *)
RemoteAncestorChanged(d, retry) ==
    LET s == mightRetry[d]
    IN  /\ CanReceive /\ s # 0
        /\ retry => Current(s)
        /\ mightRetry' = [mightRetry EXCEPT ![d] = 0]
        /\ IF retry
           THEN /\ pushing' = [pushing EXCEPT ![d] = IF @ = 0 THEN s ELSE @]
                /\ completed' = completed \ {s}
                /\ lists' = lists \cup {<<s>>}
                /\ fate' = [fate EXCEPT ![s] = "none"]
           ELSE UNCHANGED <<pushing, completed, lists, fate>>
        /\ UNCHANGED <<db, feed, flags, mailbox, nextRev, revs, toRetry, retryCount, noDelta, pc, locals, feedFailed>>

-----------------------------------------------------------------------------
(* maybeSendMoreRevs() *)
HandleMaybeSendMoreRevs ==
    /\ Ready /\ mailbox.maybeSendMoreRevs > 0
    /\ mailbox' = [mailbox EXCEPT !.maybeSendMoreRevs = @ - 1]
    /\ UNCHANGED <<db, feed, flags, docs, revs, retries, locals, completed, fate, feedFailed>>
    /\ MaybeSendMoreRevs

(* The queue falls below its limit: the Pusher may read more changes. *)
BadWakeFeed == Len(queue) = MaxQueued + 1
WakeFeed == Len(queue) = MaxQueued

(* sendRevision() *)
SendRevision ==
    /\ pc = "sending" /\ CanSend
    /\ queue' = Tail(queue)
    /\ mailbox' = IF WakeFeed THEN Enqueue("maybeGetMoreChanges") ELSE mailbox
    /\ flying' = flying \cup {Head(queue)}
    /\ UNCHANGED <<db, feed, flags, docs, awaiting, retries, locals, completed, fate, feedFailed>>
    /\ MaybeSendMoreRevs

(* It has no body to send, because there is a newer revision (a superseded *)
(* one may have kept its body, though), or because the encryption callback *)
(* failed.                                                                 *)
SendNoRev(says) ==
    LET s == Head(queue)
    IN  /\ pc = "sending" /\ CanSend
        /\ \/ says = "none" /\ ~Current(s)
           \/ says = "permanent" /\ says \in Errors
        /\ queue' = Tail(queue)
        /\ mailbox' = [(IF WakeFeed THEN Enqueue("maybeGetMoreChanges") ELSE mailbox) EXCEPT !.maybeSendMoreRevs = @ + 1]
        /\ DoneWithRev(s, says, TRUE, FALSE)
        /\ UNCHANGED <<db, feed, flags, flying, awaiting, retries, locals, feedFailed>>
        /\ MaybeSendMoreRevs

(* onRevProgress() *)
RevTransmitted(s) ==
    /\ CanReceive /\ s \in flying
    /\ flying' = flying \ {s} /\ awaiting' = awaiting \cup {s}
    /\ UNCHANGED <<db, feed, flags, mailbox, docs, queue, retries, locals, completed, fate, feedFailed>>
    /\ MaybeSendMoreRevs

(* A reply that ends the revision: a second 403 or delta error included. *)
RevReply(s, e) ==
    /\ CanReceive /\ s \in awaiting
    /\ e \in {"pushed"} \cup (Errors \ {"conflict", "list", "feed"})
    /\ e = "forbidden" => s \in retryCount
    /\ e = "delta" => s \in noDelta
    /\ awaiting' = awaiting \ {s}
    /\ DoneWithRev(s, IF e \in {"pushed", "transient"} THEN e ELSE "permanent", e # "transient", FALSE)
    /\ UNCHANGED <<db, feed, flags, mailbox, queue, flying, retries, locals, feedFailed>>
    /\ MaybeSendMoreRevs

(* A first 403 is retried when the Pusher would otherwise be idle. *)
RetryLater(s) ==
    /\ CanReceive /\ s \in awaiting
    /\ "forbidden" \in Errors /\ s \notin retryCount
    /\ retryCount' = retryCount \cup {s}
    /\ toRetry' = Append(toRetry, s)
    /\ awaiting' = awaiting \ {s}
    /\ DoneWithRev(s, "none", FALSE, FALSE)
    /\ UNCHANGED <<db, feed, flags, mailbox, queue, flying, mightRetry, noDelta, locals, feedFailed>>
    /\ MaybeSendMoreRevs

(* After a delta error the revision is sent again, in full. *)
RetryNow(s) ==
    /\ CanReceive /\ s \in awaiting
    /\ "delta" \in Errors /\ s \notin noDelta
    /\ noDelta' = noDelta \cup {s}
    /\ awaiting' = awaiting \ {s}
    /\ DoneWithRev(s, "none", FALSE, TRUE)
    /\ queue' = <<s>> \o queue
    /\ UNCHANGED <<db, feed, flags, mailbox, flying, toRetry, mightRetry, retryCount, locals, feedFailed>>
    /\ MaybeSendMoreRevs

(* afterEvent() and retryRevs(): as changes that have just been read, with *)
(* _caughtUp cleared and set again.                                        *)
RetryRevs ==
    /\ pc = "idle" /\ MustRetry
    /\ toRetry' = << >>
    /\ continuousCaughtUp' = FALSE
    /\ pc' = "got" /\ todo' = toRetry
    /\ UNCHANGED <<db, feed, caughtUp, mailbox, docs, revs, mightRetry, retryCount, noDelta, kept, start, completed, fate, feedFailed>>

-----------------------------------------------------------------------------
Writer == (\E d \in Docs : Commit(d)) \/ \E again \in BOOLEAN : Announce(again)

ChangesFeed ==
    \/ GetHistoricalChanges
    \/ GetObservedChanges \/ ReadObserver \/ ObservedAll
    \/ \E push \in BOOLEAN : ObserveChange(push)

Handler ==
    \/ HandleMaybeGetMoreChanges \/ DBHasNewChanges \/ HandleMaybeSendMoreRevs
    \/ GotChange \/ SendChanges
    \/ DropRev \/ WantRev \/ (\E says \in {"pushed", "permanent"} : DontWantRev(says))
    \/ ProposeAgain \/ (\E b \in BOOLEAN : Conflict(b))
    \/ SendRevision \/ (\E says \in {"none", "permanent"} : SendNoRev(says))
    \/ RetryRevs

Peer ==
    \/ \E list \in lists : ChangesReply(list) \/ ListRefused(list)
    \/ \E s \in flying : RevTransmitted(s)
    \/ \E s \in awaiting : \E e \in {"pushed"} \cup Errors : RevReply(s, e)
    \/ \E s \in awaiting : RetryLater(s) \/ RetryNow(s)
    \/ \E d \in Docs, retry \in BOOLEAN : RemoteAncestorChanged(d, retry)

Failure == \E last \in 0 .. MaxSequence, threw \in BOOLEAN : FeedFailed(last, threw)

Next == Writer \/ ChangesFeed \/ Handler \/ Peer \/ Failure

Spec == Init /\ [][Next]_vars

-----------------------------------------------------------------------------
(* The revisions the Pusher is working on, and those they hold back; and   *)
(* the sequences it has read.                                              *)
Working == (UNION {Elements(l) : l \in lists}) \cup Elements(queue) \cup flying \cup awaiting
           \cup Elements(todo) \cup Elements(kept)
HeldBack == {nextRev[s] : s \in Working} \ {0}
Read == 1 .. IF pc = "observing" THEN start ELSE maxSequence

(* No sequence stays pending for ever: one that has been read and is not   *)
(* completed is being worked on, or is held back by a revision that is, or *)
(* waits to be retried, or is left to a later replication, because the peer*)
(* failed transiently or answered its change list with an error.  In       *)
(* particular doneWithRev() never loses a nextRev, although _pushingDocs   *)
(* has one entry per document and retries may put two revisions of one     *)
(* document to work.  A feed that fails does strand what it has read.      *)
NothingStranded ==
    /\ TypeOK
    /\ ~feedFailed =>
           \A s \in Read \ completed :
               s \in Working \cup HeldBack \cup Elements(toRetry) \/ fate[s] \in {"transient", "dropped"}

(* If a completed sequence is the current revision of a document that is   *)
(* to be pushed, the peer has answered: it has the revision, or refused it *)
(* (a 403 included that is yet to be retried), or found it in conflict.    *)
PushedUpToCheckpoint ==
    \A s \in completed : Current(s) =>
        fate[s] \in {"pushed", "permanent", "conflict"} \/ s \in retryCount \/ log[s] \in skipped

(* A completed sequence is never pushed again, so nothing is completed that*)
(* the peer has not answered for, as long as the feed does not fail.       *)
CompletedIsDealtWith == feedFailed \/ PushedUpToCheckpoint

(* Nothing will call the Pusher: no reply, no transmission, no message. *)
Quiet == pc = "idle" /\ lists = {} /\ flying = {} /\ awaiting = {} /\ \A method \in DOMAIN mailbox : mailbox[method] = 0

(* No wake-up is lost.  The Pusher stops reading changes when too many     *)
(* lists are in flight or the queue is full, and stops sending when too    *)
(* much is in flight; every place that makes room must call it again, and  *)
(* so must the writers' threads that find _notifyOnChanges set.  So when   *)
(* nothing will call the Pusher, it has read all that was announced, and   *)
(* has nothing to send, to retry, or in progress, unless its feed failed:  *)
(* gotChanges() then returns without asking for more.                      *)
NoStall ==
    Quiet /\ ~MustRetry /\ ~feedFailed =>
        /\ \A s \in 1 .. announced : Current(s) => s \in Read
        /\ queue = << >> /\ toRetry = << >>
        /\ \A d \in Docs : pushing[d] = 0
=============================================================================
