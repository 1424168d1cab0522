--------------------------- MODULE SequenceTracker --------------------------
(***************************************************************************)
(* SequenceTracker: one collection's list of recent changes, in which each *)
(* observer (CollectionChangeNotifier) has a placeholder: what comes after *)
(* it is what the observer has not read.  A document that changes moves to *)
(* the end, and the placeholders directly before it are notified.  Entries *)
(* before the first placeholder are dropped, or kept aside as idle if they *)
(* have observers of their own (DocChangeNotifier).                        *)
(*                                                                         *)
(* Methods run under the tracker's lock, so each is one step.  A revision  *)
(* is named by the sequence number it was saved with; 0 is none.           *)
(***************************************************************************)
EXTENDS Naturals, Sequences, SequencesExt, FiniteSets, FiniteSetsExt

CONSTANTS Docs,
          Notifiers,          \* CollectionChangeNotifiers
          DocNotifiers,       \* DocChangeNotifiers
          Transaction,        \* the placeholder of the open transaction
          NoEntry, None,
          MinChangesToKeep,   \* kMinChangesToKeep
          MaxSequence,        \* bound on the database's sequences
          MaxRead,            \* bound on the size of a readChanges() buffer
          MaxExternal         \* bound on the documents of another connection's transaction

Entries == [sequence : Nat, rev : Nat, committed : Nat, external : BOOLEAN, observers : SUBSET DocNotifiers]

ASSUME KeepAssumption == MinChangesToKeep \in Nat \ {0}
ASSUME ElementsAssumption ==
    /\ Docs \cap Notifiers = {} /\ Transaction \notin Docs \cup Notifiers
    /\ None \notin Docs /\ NoEntry \notin Entries

VARIABLES
    changes,       \* _changes: documents and placeholders
    idle,          \* _idle
    entry,         \* _byDocID: the Entry of each document that has one
    lastSequence,  \* _lastSequence
    preTransactionLastSequence,
    called,        \* observers called back since they were last up to date
    watched,       \* the document of each DocChangeNotifier
    \* The database: its last sequence, each document's current one, and the
    \* same as of the last commit.
    db, committedDB

tracker == <<changes, idle, entry, lastSequence, called>>
vars == <<tracker, preTransactionLastSequence, watched, db, committedDB>>

-----------------------------------------------------------------------------
Placeholders(list) == Range(list) \ Docs
InTransaction(list) == Transaction \in Range(list)
Position(list, x) == CHOOSE i \in DOMAIN list : list[i] = x
Without(list, x) == IF x \in Range(list) THEN RemoveAt(list, Position(list, x)) ELSE list
After(list, x) == SubSeq(list, Position(list, x) + 1, Len(list))
DocsAfter(list, x) == Range(After(list, x)) \cap Docs

(* The tracker as a value, for methods that call others. *)
Tracker == [changes |-> changes, idle |-> idle, entry |-> entry, last |-> lastSequence, called |-> called]

Becomes(t) ==
    /\ changes' = t.changes /\ idle' = t.idle /\ entry' = t.entry
    /\ lastSequence' = t.last /\ called' = t.called

(* Drops the first n elements of the list, which are documents: an entry   *)
(* that has observers becomes idle, others are removed.                    *)
Drop(t, n) ==
    LET docs == Range(SubSeq(t.changes, 1, n))
    IN  [t EXCEPT !.changes = SubSeq(@, n + 1, Len(@)),
                  !.idle    = @ \cup {d \in docs : t.entry[d].observers # {}},
                  !.entry   = [d \in Docs |-> IF d \in docs /\ @[d].observers = {} THEN NoEntry ELSE @[d]]]

(* removeObsoleteEntries(): those before the first placeholder, but for    *)
(* the last few.                                                           *)
RemoveObsoleteEntries(t) ==
    LET keep == MinChangesToKeep + Cardinality(Placeholders(t.changes))
        first == Min({Len(t.changes) + 1} \cup {i \in DOMAIN t.changes : t.changes[i] \notin Docs})
        n == Min({first - 1, Max({0, Len(t.changes) - keep})})
    IN  IF InTransaction(t.changes) THEN t ELSE Drop(t, n)

(* The placeholders at the end of a list: those who are up to date. *)
BadUpToDate(list) == IF list # << >> /\ Last(list) \notin Docs THEN {Last(list)} ELSE {}

UpToDate(list) ==
    {list[i] : i \in {i \in DOMAIN list : \A j \in i .. Len(list) : list[j] \notin Docs}}

(* Those whom a change of document d calls back, unless d is last already. *)
Notified(list, d) ==
    IF list = << >> \/ Last(list) # d THEN UpToDate(Without(list, d)) ELSE {}

(* _documentChanged(). *)
DocumentChanged(t, d, rev, sequence) ==
    LET old == IF t.entry[d] # NoEntry THEN t.entry[d] ELSE [committed |-> 0, observers |-> {}]
        inTransaction == InTransaction(t.changes)
        notified == Notified(t.changes, d)
        changed == [t EXCEPT
            !.changes  = Append(Without(t.changes, d), d),
            !.idle     = @ \ {d},
            !.entry[d] = [sequence  |-> sequence, rev |-> rev,
                          committed |-> IF inTransaction THEN old.committed ELSE sequence,
                          external  |-> ~inTransaction,
                          observers |-> old.observers],
            !.called   = @ \cup (notified \cap Notifiers)]
    IN  IF notified = {} THEN changed ELSE RemoveObsoleteEntries(changed)

(* The same for each document of a list in turn, with its rev and sequence *)
DocumentsChanged(t, list, rev, sequence) ==
    LET upTo[i \in 0 .. Len(list)] ==
            IF i = 0 THEN t
            ELSE IF list[i] \notin Docs THEN upTo[i - 1]
            ELSE DocumentChanged(upTo[i - 1], list[i], rev[list[i]], sequence[list[i]])
    IN  upTo[Len(list)]

-----------------------------------------------------------------------------
Init ==
    /\ changes = << >> /\ idle = {} /\ entry = [d \in Docs |-> NoEntry] /\ lastSequence = 0
    /\ preTransactionLastSequence = 0
    /\ called = {} /\ watched = [w \in DocNotifiers |-> None]
    /\ \E old \in {{}} \cup {{d} : d \in Docs} :   \* a document may be older than the tracker
           db = [last |-> Cardinality(old), doc |-> [d \in Docs |-> IF d \in old THEN 1 ELSE 0]]
    /\ committedDB = db

(* beginTransaction(): a placeholder at the end. *)
BeginTransaction ==
    /\ ~InTransaction(changes)
    /\ changes' = Append(changes, Transaction)
    /\ preTransactionLastSequence' = lastSequence
    /\ UNCHANGED <<idle, entry, lastSequence, called, watched, db, committedDB>>

(* documentChanged(), after the document was saved. *)
SaveDocument(d) ==
    LET s == db.last + 1
    IN  /\ InTransaction(changes) /\ s <= MaxSequence
        /\ db' = [last |-> s, doc |-> [db.doc EXCEPT ![d] = s]]
        /\ Becomes(DocumentChanged([Tracker EXCEPT !.last = s], d, s, s))
        /\ UNCHANGED <<preTransactionLastSequence, watched, committedDB>>

(* documentPurged(). *)
PurgeDocument(d) ==
    /\ InTransaction(changes) /\ db.doc[d] # 0
    /\ db' = [db EXCEPT !.doc[d] = 0]
    /\ Becomes(DocumentChanged(Tracker, d, 0, 0))
    /\ UNCHANGED <<preTransactionLastSequence, watched, committedDB>>

(* endTransaction(): _transaction.reset() removes its placeholder. *)
Ended(t) == RemoveObsoleteEntries([t EXCEPT !.changes = Without(@, Transaction)])

Commit ==
    LET docs == DocsAfter(changes, Transaction)
    IN  /\ InTransaction(changes)
        /\ committedDB' = db
        /\ Becomes(Ended([Tracker EXCEPT !.entry =
               [d \in Docs |-> IF d \in docs THEN [@[d] EXCEPT !.committed = entry[d].sequence] ELSE @[d]]]))
        /\ UNCHANGED <<preTransactionLastSequence, watched, db>>

Abort ==
    LET docs == DocsAfter(changes, Transaction)
    IN  /\ InTransaction(changes)
        /\ db' = committedDB
        /\ Becomes(Ended(DocumentsChanged([Tracker EXCEPT !.last = preTransactionLastSequence],
               After(changes, Transaction), [d \in docs |-> entry[d].rev], [d \in docs |-> entry[d].committed])))
        /\ UNCHANGED <<preTransactionLastSequence, watched, committedDB>>

(* addExternalTransaction(): another connection committed; `docs' are the  *)
(* documents it changed, in order, of which some were purged.              *)
AddExternalTransaction(docs, purged) ==
    LET last == db.last + Cardinality(Range(docs) \ purged)
        sequence == [d \in Range(docs) |->
            IF d \in purged THEN 0
            ELSE db.last + Cardinality({j \in 1 .. Position(docs, d) : docs[j] \notin purged})]
    IN  /\ ~InTransaction(changes) /\ last <= MaxSequence
        /\ \A d \in purged : db.doc[d] # 0
        /\ db' = [last |-> last, doc |-> [d \in Docs |-> IF d \in Range(docs) THEN sequence[d] ELSE db.doc[d]]]
        /\ committedDB' = db'
        /\ IF changes # << >> \/ \E w \in DocNotifiers : watched[w] # None
           THEN Becomes(RemoveObsoleteEntries(DocumentsChanged(
                    [Tracker EXCEPT !.last = IF Range(docs) \subseteq purged THEN @ ELSE last],
                    docs, sequence, sequence)))
           ELSE UNCHANGED tracker
        /\ UNCHANGED <<preTransactionLastSequence, watched>>

-----------------------------------------------------------------------------
(* CollectionChangeNotifier(): addPlaceholderAfter(), at the end of the    *)
(* list, since C4CollectionObserver always asks for later changes only.    *)
AddNotifier(n) ==
    /\ n \notin Range(changes)
    /\ changes' = Append(changes, n)
    /\ UNCHANGED <<idle, entry, lastSequence, called, preTransactionLastSequence, watched, db, committedDB>>

(* A mistake: the changes only this one had not read are kept. *)
BadRemoveNotifier(n) ==
    /\ n \in Range(changes)
    /\ Becomes([Tracker EXCEPT !.changes = Without(@, n), !.called = @ \ {n}])
    /\ UNCHANGED <<preTransactionLastSequence, watched, db, committedDB>>

(* ~CollectionChangeNotifier(): removePlaceholder(). *)
RemoveNotifier(n) ==
    /\ n \in Range(changes)
    /\ Becomes(RemoveObsoleteEntries([Tracker EXCEPT !.changes = Without(@, n), !.called = @ \ {n}]))
    /\ UNCHANGED <<preTransactionLastSequence, watched, db, committedDB>>

(* Moves the element at position p to just before position i > p. *)
BadSplice(list, p, i) == Append(SubSeq(list, 1, p - 1) \o SubSeq(list, p + 1, Len(list)), list[p])

Splice(list, p, i) ==
    SubSeq(list, 1, p - 1) \o SubSeq(list, p + 1, i - 1) \o <<list[p]>> \o SubSeq(list, i, Len(list))

(* readChanges(): up to `max' changes, all external or none.  The          *)
(* placeholder moves to where reading stopped.                             *)
ReadChanges(n, max) ==
    LET p == Position(changes, n)
        DocsIn(i) == {j \in p + 1 .. i - 1 : changes[j] \in Docs}
        External(j) == entry[changes[j]].external
        Stops(i) == \/ i = Len(changes) + 1
                    \/ Cardinality(DocsIn(i)) = max
                    \/ changes[i] \in Docs /\ \E j \in DocsIn(i) : External(j) # External(i)
        stop == Min({i \in p + 1 .. Len(changes) + 1 : Stops(i)})
        unreadAfter == {i \in stop .. Len(changes) : changes[i] \in Docs}
    IN  /\ n \in Range(changes)
        /\ DocsIn(stop) # {}
        /\ Becomes(RemoveObsoleteEntries([Tracker EXCEPT
               !.changes = Splice(@, p, stop),
               !.called  = IF unreadAfter = {} THEN @ \ {n} ELSE @]))
        /\ UNCHANGED <<preTransactionLastSequence, watched, db, committedDB>>

(* addDocChangeNotifier(). *)
AddDocNotifier(w, d) ==
    /\ watched[w] = None
    /\ watched' = [watched EXCEPT ![w] = d]
    /\ idle' = IF entry[d] = NoEntry THEN idle \cup {d} ELSE idle
    /\ entry' = [entry EXCEPT ![d] =
           IF @ = NoEntry
           THEN [sequence |-> 0, rev |-> 0, committed |-> 0, external |-> FALSE, observers |-> {w}]
           ELSE [entry[d] EXCEPT !.observers = @ \cup {w}]]
    /\ UNCHANGED <<changes, lastSequence, called, preTransactionLastSequence, db, committedDB>>

(* removeDocChangeNotifier(). *)
RemoveDocNotifier(w) ==
    LET d == watched[w]
        gone == d \in idle /\ entry[d].observers = {w}
    IN  /\ d # None
        /\ watched' = [watched EXCEPT ![w] = None]
        /\ idle' = IF gone THEN idle \ {d} ELSE idle
        /\ entry' = [entry EXCEPT ![d] = IF gone THEN NoEntry ELSE [entry[d] EXCEPT !.observers = @ \ {w}]]
        /\ UNCHANGED <<changes, lastSequence, called, preTransactionLastSequence, db, committedDB>>

-----------------------------------------------------------------------------
(* What another connection's transaction may change. *)
ExternalChanges == {docs \in SeqOf(Docs, MaxExternal) : docs # << >> /\ IsInjective(docs)}

Next ==
    \/ BeginTransaction \/ Commit \/ Abort
    \/ \E d \in Docs : SaveDocument(d) \/ PurgeDocument(d)
    \/ \E docs \in ExternalChanges : \E purged \in SUBSET Range(docs) : AddExternalTransaction(docs, purged)
    \/ \E n \in Notifiers :
           AddNotifier(n) \/ RemoveNotifier(n) \/ \E max \in 1 .. MaxRead : ReadChanges(n, max)
    \/ \E w \in DocNotifiers : RemoveDocNotifier(w) \/ \E d \in Docs : AddDocNotifier(w, d)

Spec == Init /\ [][Next]_vars
-----------------------------------------------------------------------------
(* Type invariant, with what the methods assert: a new sequence is later   *)
(* than the last one.                                                      *)
TypeOK ==
    /\ changes \in Seq(Docs \cup Notifiers \cup {Transaction}) /\ IsInjective(changes)
    /\ idle \subseteq Docs /\ entry \in [Docs -> Entries \cup {NoEntry}]
    /\ lastSequence \in Nat /\ preTransactionLastSequence \in Nat
    /\ called \subseteq Notifiers \cap Range(changes)
    /\ watched \in [DocNotifiers -> Docs \cup {None}]
    /\ db \in [last : Nat, doc : [Docs -> Nat]] /\ committedDB \in [last : Nat, doc : [Docs -> Nat]]
    /\ lastSequence <= db.last

Unread(n) == IF n \in Range(changes) THEN DocsAfter(changes, n) ELSE {}

(* The list of changes gives each observer what it is promised: every      *)
(* document that changed, whether it was saved, purged, reverted or        *)
(* changed by another connection, until it has read it.                    *)
Promised == INSTANCE ChangeObservers WITH
    Observers <- Notifiers, latest <- db.doc, observers <- Notifiers \cap Range(changes),
    unread <- [n \in Notifiers |-> Unread(n)]
ImplementsObservers == Promised!Spec

(* An observer that has something to read has been called back since it    *)
(* last had nothing: it never waits for a call that does not come.         *)
NoMissedCallback == \A n \in Notifiers : Unread(n) # {} => n \in called

(* What CollectionChangeNotifier says of its callback: that it "will be    *)
(* invoked _once_ when new changes arrive", and again only when all of     *)
(* them have been read.  In this code an observer that has not read can be *)
(* called again: the document it has to read changes and moves to the end, *)
(* and nothing is left between the observer and the end of the list.       *)
CalledOnce ==
    [][\A d \in Docs : SaveDocument(d) => Notified(changes, d) \cap called = {}]_vars

(* The entry a DocChangeNotifier points to is there, and will notify it:   *)
(* it is neither dropped with the obsolete ones nor made anew.             *)
WatchersHaveEntries ==
    \A w \in DocNotifiers : watched[w] # None =>
        entry[watched[w]] # NoEntry /\ w \in entry[watched[w]].observers

(* Each entry is in one of the two lists; the idle ones are those kept for *)
(* an observer, which finds its entry there.  What no observer is going to *)
(* read is not kept for ever.                                              *)
EntriesAreKept ==
    /\ TypeOK /\ WatchersHaveEntries
    /\ \A d \in Docs : entry[d] = NoEntry <=> d \notin Range(changes) \cup idle
    /\ idle \cap Range(changes) = {} /\ \A d \in idle : entry[d].observers # {}
    /\ InTransaction(changes) \/ changes = << >> \/ Head(changes) \notin Docs
         \/ Len(changes) <= MinChangesToKeep + Cardinality(Placeholders(changes))

=============================================================================
