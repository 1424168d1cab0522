------------------------------- MODULE Puller -------------------------------
(***************************************************************************)
(* An active pull of one collection.  The peer announces sequences in      *)
(* "changes" messages; the RevFinder asks for the revisions the database   *)
(* lacks; the peer sends each in a "rev" message, or a "norev"; the Puller *)
(* hands it to an IncomingRev, which parses it and gives it to the         *)
(* Inserter, which inserts revisions in batches, a transaction each.  Then *)
(* the Puller may move the checkpoint.                                     *)
(*                                                                         *)
(* Puller and RevFinder are actors: each handles the messages in its       *)
(* mailbox one by one.  IncomingRevs and the Inserter run on threads of    *)
(* their own, and call the Puller through its batchers.                    *)
(*                                                                         *)
(* Remote sequences are the numbers 1 .. N.  A delta that cannot be        *)
(* applied is sent again, whole: <<s, 1>> and <<s, 2>> are the first and   *)
(* the second time that the revision of sequence s is sent.                *)
(***************************************************************************)
EXTENDS RemoteSequenceSet, Sequences, FiniteSets

CONSTANTS N,             \* bound on the number of changes
          ListSize,      \* kChangesBatchSize
          MaxActive,     \* kMaxActiveIncomingRevs
          MaxIncoming,   \* maxIncomingRevs()
          MaxRequested,  \* maxRevsBeingRequested()
          Continuous,    \* whether the pull goes on when it has caught up
          Kinds,         \* the kinds of changes the peer announces
          Forms,         \* the forms in which it may send each revision at first
          Faults,        \* what may go wrong
          MaxFaults      \* bound on how often it does

AllForms == {"plain",        \* small: parsed by the Puller's thread
             "later",        \* parsed by the IncomingRev's: it is large, or has blobs, or there is a filter
             "delta",        \* a delta, to be applied as the revision is inserted
             "deltaLater",   \* a delta that has to be applied when it is parsed
             "error"}        \* the peer could not send it
AllFaults == {"subscribe",   \* the peer refuses the "subChanges" request
              "lookup",      \* findDocAncestors() throws
              "norev", "invalid", "blob", "delta", "insert", "commit", "close"}

ASSUME PullerAssumption ==
    /\ Kinds \subseteq {"rev", "revoked", "have"} /\ Faults \subseteq AllFaults
    /\ \A s \in 1 .. N : Forms[s] \subseteq AllForms
    /\ N \in Nat /\ MaxFaults \in Nat /\ MaxRequested \in Nat /\ Continuous \in BOOLEAN
    /\ \A n \in {ListSize, MaxActive, MaxIncoming} : n \in Nat \ {0}
    /\ None \notin Nat

VARIABLES
    \* The peer and the connection:
    announced,   \* the last sequence announced
    backlog,     \* those before the empty list, which says that it has no more for now; N + 1 until it is sent
    kind,        \* what each change is: wanted, revoked, or in the database already
    owed,        \* the revisions it has been asked for
    link,        \* "open", "closing" until the Puller has been told, "closed"
    \* RevFinder:
    finderBox,   \* its mailbox
    finder,      \* _waitingChangesMessages, _numRevsBeingRequested, _numRevokedBeingHandled;
                 \* and whether it is in the loop that handles the waiting messages
    \* Puller:
    pullerBox,
    count,       \* _pendingRevMessages, _activeIncomingRevs, _unfinishedIncomingRevs and so on
    waiting,     \* _waitingRevMessages and _waitingRevoked
    missing, lastSequence,
    subChanges,  \* its request: "asked", then "accepted" or "refused" by the peer; then, as the Puller
                 \* knows of it, "active" or "failed" (_fatalError)
    caughtUp, connected, level,
    released,    \* _revFinder and _parent have been cleared
    pc,          \* "starting" in the loop of maybeStartIncomingRevs()
    \* IncomingRevs, and the batchers through which they call the Puller:
    inc, provisional, returning,
    \* Inserter: _revsToInsert, the batch being inserted, and what has been inserted of it
    toInsert, batch, inserted,
    \* What became of each revision, those asked for again before they were inserted, faults so far:
    fate, askedAgain, faults

peer == <<announced, backlog, kind, owed, link>>
puller == <<pullerBox, count, waiting, missing, lastSequence, subChanges, caughtUp, connected, level, released, pc>>
workers == <<inc, provisional, returning, toInsert, batch, inserted>>
history == <<fate, askedAgain, faults>>
vars == <<peer, finderBox, finder, puller, workers, history>>

Seqs == 1 .. N
Ids == Seqs \X {1, 2}
Elements(q) == {q[i] : i \in DOMAIN q}
NoInc == [st |-> "none", delta |-> FALSE, prov |-> FALSE, transient |-> FALSE]

(* Every variable has its type; no counter is negative. *)
TypeOK ==
    /\ announced \in 0 .. N /\ backlog \in 0 .. N + 1 /\ kind \in [Seqs -> {"none"} \cup Kinds] /\ owed \subseteq Ids
    /\ link \in {"open", "closing", "closed"}
    /\ finder.requested \in Nat /\ finder.revoked \in Nat /\ finder.draining \in BOOLEAN
    /\ \A c \in DOMAIN count : count[c] \in Nat
    /\ \A m \in Elements(waiting.revs) : m.id \in Ids
    /\ Elements(waiting.revoked) \subseteq Seqs
    /\ lastSequence \in 0 .. N
    /\ subChanges \in {"asked", "accepted", "refused", "active", "failed"}
    /\ {caughtUp, connected, released} \subseteq BOOLEAN /\ level \in {"busy", "idle", "stopped"}
    /\ pc \in {"idle", "starting"}
    /\ inc \in [Ids -> [st : {"none", "parsing", "queued", "inserted", "finishing", "returned"},
                        delta : BOOLEAN, prov : BOOLEAN, transient : BOOLEAN]]
    /\ provisional.revs \in Nat /\ provisional.revoked \in Nat
    /\ returning \subseteq Ids
    /\ Elements(toInsert) \cup Elements(batch) \cup Elements(inserted) \subseteq Ids
    /\ fate \in [Seqs -> {"none", "stored", "purged", "refused", "lost"}]
    /\ askedAgain \subseteq Seqs /\ faults \in 0 .. MaxFaults

(* _start(), from the first sequence *)
Init ==
    /\ announced = 0 /\ backlog = N + 1 /\ kind = [s \in Seqs |-> "none"] /\ owed = {} /\ link = "open"
    /\ finderBox = << >>
    /\ finder = [waiting |-> << >>, requested |-> 0, revoked |-> 0, draining |-> FALSE]
    /\ pullerBox = << >>
    /\ count = [pending |-> 0, active |-> 0, unfinished |-> 0, activeRevoked |-> 0, unfinishedRevoked |-> 0]
    /\ waiting = [revs |-> << >>, revoked |-> << >>]
    /\ missing = NewSet(0) /\ lastSequence = 0
    /\ subChanges = "asked" /\ caughtUp = FALSE /\ connected = TRUE /\ level = "busy" /\ released = FALSE /\ pc = "idle"
    /\ inc = [id \in Ids |-> NoInc]
    /\ provisional = [revs |-> 0, revoked |-> 0] /\ returning = {}
    /\ toInsert = << >> /\ batch = << >> /\ inserted = << >>
    /\ fate = [s \in Seqs |-> "none"] /\ askedAgain = {} /\ faults = 0

Fault(f) == f \in Faults /\ faults < MaxFaults /\ faults' = faults + 1

-----------------------------------------------------------------------------
(* The peer answers "subChanges" before it announces anything, or the      *)
(* connection closes first: then the Puller is told that there will be no  *)
(* reply, which is no error.                                               *)
Reply ==
    \E ok \in BOOLEAN :
        /\ subChanges = "asked"
        /\ IF ok THEN UNCHANGED faults ELSE link = "open" /\ Fault("subscribe")
        /\ subChanges' = IF ok THEN "accepted" ELSE "refused"
        /\ pullerBox' = Append(pullerBox, [t |-> "subChangesReply"])
        /\ UNCHANGED <<peer, finderBox, finder, count, waiting, missing, lastSequence, caughtUp, connected, level,
                       released, pc, workers, fate, askedAgain>>

(* It announces the changes that it has, then sends an empty list.  If the *)
(* pull is continuous it announces others later, as they are made.         *)
MayAnnounce == link = "open" /\ subChanges \in {"accepted", "active"} /\ (backlog = N + 1 \/ Continuous)

Announce ==
    \E n \in 1 .. ListSize : \E k \in [announced + 1 .. announced + n -> Kinds] :
        /\ MayAnnounce /\ announced + n <= N
        /\ announced' = announced + n
        /\ kind' = [s \in Seqs |-> IF s \in DOMAIN k THEN k[s] ELSE kind[s]]
        /\ finderBox' = Append(finderBox, [t |-> "changes", first |-> announced + 1, last |-> announced + n])
        /\ UNCHANGED <<backlog, owed, link, finder, puller, workers, history>>

AnnounceEnd ==
    /\ MayAnnounce /\ backlog = N + 1
    /\ backlog' = announced
    /\ finderBox' = Append(finderBox, [t |-> "changes", first |-> announced + 1, last |-> announced])
    /\ UNCHANGED <<announced, kind, owed, link, finder, puller, workers, history>>

(* Messages are multiplexed: revisions may arrive in any order.  What was  *)
(* asked for again is sent whole.                                          *)
SendRev(id, form) ==
    /\ id \in owed
    /\ form \in IF id[2] = 1 THEN Forms[id[1]] ELSE AllForms \ {"delta", "deltaLater"}
    /\ owed' = owed \ {id}
    /\ pullerBox' = Append(pullerBox, [t |-> "rev", id |-> id, form |-> form])
    /\ UNCHANGED <<announced, backlog, kind, link, finderBox, finder, count, waiting, missing, lastSequence, subChanges, caughtUp,
                   connected, level, released, pc, workers, history>>

SendNoRev(id) ==
    /\ id \in owed /\ Fault("norev")
    /\ owed' = owed \ {id}
    /\ pullerBox' = Append(pullerBox, [t |-> "norev", id |-> id])
    /\ UNCHANGED <<announced, backlog, kind, link, finderBox, finder, count, waiting, missing, lastSequence, subChanges, caughtUp,
                   connected, level, released, pc, workers, fate, askedAgain>>

(* The connection closes; later Replicator::_onClose() tells the Puller. *)
Close ==
    /\ link = "open" /\ Fault("close")
    /\ link' = "closing" /\ owed' = {}
    /\ UNCHANGED <<announced, backlog, kind, finderBox, finder, puller, workers, fate, askedAgain>>

OnClose ==
    /\ link = "closing"
    /\ link' = "closed"
    /\ pullerBox' = Append(pullerBox, [t |-> "connectionClosed"])
    /\ UNCHANGED <<announced, backlog, kind, owed, finderBox, finder, count, waiting, missing, lastSequence, subChanges, caughtUp,
                   connected, level, released, pc, workers, history>>

-----------------------------------------------------------------------------
(* RevFinder                                                               *)

PullerHasCapacity == finder.requested + finder.revoked <= MaxRequested

(* handleChangesNow() and findRevs(): revoked documents are passed on      *)
(* first; if the lookup then fails the peer gets an error, and nothing is  *)
(* expected.                                                               *)
HandleChangesNow(m, others) ==
    LET list == m.first .. m.last
        Of(k) == {s \in list : kind[s] = k}
        revoked == IF Of("revoked") = {} THEN << >> ELSE <<[t |-> "documentsRevoked", seqs |-> Of("revoked")]>>
        wanted == Of("rev")
    IN  /\ UNCHANGED <<announced, backlog, kind, link, count, waiting, missing, lastSequence, subChanges, caughtUp, connected, level,
                       released, pc, workers, askedAgain>>
        /\ \/ /\ list = {}
              /\ pullerBox' = Append(pullerBox, [t |-> "caughtUp"])
              /\ finder' = others
              /\ UNCHANGED <<owed, fate, faults>>
           \/ /\ list # {}
              /\ pullerBox' = pullerBox \o revoked
                                \o <<[t |-> "expectSequences", first |-> m.first, last |-> m.last, wanted |-> wanted]>>
              /\ finder' = [others EXCEPT !.requested = @ + Cardinality(wanted),
                                          !.revoked = @ + Cardinality(Of("revoked"))]
              /\ owed' = IF link = "open" THEN owed \cup (wanted \X {1}) ELSE owed
              /\ UNCHANGED <<fate, faults>>
           \/ /\ list # {} /\ Fault("lookup")
              /\ pullerBox' = pullerBox \o revoked
              /\ finder' = [others EXCEPT !.revoked = @ + Cardinality(Of("revoked"))]
              /\ fate' = [s \in Seqs |-> IF s \in wanted THEN "lost" ELSE fate[s]]
              /\ UNCHANGED owed

BadHandleChanges ==
    LET m == Head(finderBox)
    IN  /\ ~finder.draining /\ finderBox # << >> /\ m.t = "changes"
        /\ finderBox' = Tail(finderBox)
        /\ IF PullerHasCapacity \/ m.last < m.first   \* the empty list overtakes those that wait
           THEN HandleChangesNow(m, finder)
           ELSE /\ finder' = [finder EXCEPT !.waiting = Append(@, m)]
                /\ UNCHANGED <<peer, puller, workers, history>>

HandleChanges ==
    /\ ~finder.draining /\ finderBox # << >> /\ Head(finderBox).t = "changes"
    /\ finderBox' = Tail(finderBox)
    /\ IF PullerHasCapacity
       THEN HandleChangesNow(Head(finderBox), finder)
       ELSE /\ finder' = [finder EXCEPT !.waiting = Append(@, Head(finderBox))]
            /\ UNCHANGED <<peer, puller, workers, history>>

(* _reRequestingRev(), _revReceived(), _revokedHandled(): the latter two   *)
(* handle waiting messages as long as there is capacity.                   *)
BadRevReceived ==
    /\ ~finder.draining /\ finderBox # << >> /\ Head(finderBox).t # "changes"
    /\ finderBox' = Tail(finderBox)
    /\ LET m == Head(finderBox)
       IN  finder' = CASE m.t = "reRequestingRev" -> [finder EXCEPT !.requested = @ + 1]
                       [] m.t = "revReceived"     -> [finder EXCEPT !.requested = @ - 1, !.draining = TRUE]
                       [] m.t = "revokedHandled"  -> [finder EXCEPT !.revoked = @ - m.n]   \* and no more
    /\ UNCHANGED <<peer, puller, workers, history>>

RevReceived ==
    /\ ~finder.draining /\ finderBox # << >> /\ Head(finderBox).t # "changes"
    /\ finderBox' = Tail(finderBox)
    /\ LET m == Head(finderBox)
       IN  finder' = CASE m.t = "reRequestingRev" -> [finder EXCEPT !.requested = @ + 1]
                       [] m.t = "revReceived"     -> [finder EXCEPT !.requested = @ - 1, !.draining = TRUE]
                       [] m.t = "revokedHandled"  -> [finder EXCEPT !.revoked = @ - m.n, !.draining = TRUE]
    /\ UNCHANGED <<peer, puller, workers, history>>

HandleWaitingChanges ==
    /\ finder.draining
    /\ UNCHANGED finderBox
    /\ IF finder.waiting # << >> /\ PullerHasCapacity
       THEN HandleChangesNow(Head(finder.waiting), [finder EXCEPT !.waiting = Tail(@)])
       ELSE /\ finder' = [finder EXCEPT !.draining = FALSE]
            /\ UNCHANGED <<peer, puller, workers, history>>

-----------------------------------------------------------------------------
(* IncomingRev                                                             *)

(* finish() hands the IncomingRev back to the Puller: `box' is the         *)
(* Puller's mailbox, which gets a call of _revsFinished() unless one is    *)
(* waiting there already.                                                  *)
RevWasHandled(id, box) ==
    /\ returning' = returning \cup {id}
    /\ pullerBox' = IF returning = {} THEN Append(box, [t |-> "revsFinished"]) ELSE box

Become(id, st) == [inc EXCEPT ![id] = [NoInc EXCEPT !.st = st]]

(* insertRevision() *)
InsertRevision(id, delta, box) ==
    /\ inc' = [inc EXCEPT ![id] = [NoInc EXCEPT !.st = "queued", !.delta = delta]]
    /\ toInsert' = Append(toInsert, id)
    /\ pullerBox' = box
    /\ UNCHANGED <<returning, fate, faults>>

(* failWithError(), on the Puller's thread or the IncomingRev's *)
FailWithError(id, causes, box) ==
    \E f \in causes :
        /\ Fault(f)
        /\ inc' = Become(id, "returned")
        /\ RevWasHandled(id, box)
        /\ fate' = [fate EXCEPT ![id[1]] = IF f = "invalid" THEN "refused" ELSE "lost"]
        /\ UNCHANGED toInsert

(* handleRev(), called by the Puller *)
HandleRevMessage(m, box) ==
    /\ UNCHANGED <<provisional, batch, inserted, askedAgain>>
    /\ \/ /\ m.form = "error"
          /\ inc' = Become(m.id, "returned")
          /\ RevWasHandled(m.id, box)
          /\ fate' = [fate EXCEPT ![m.id[1]] = "refused"]
          /\ UNCHANGED <<toInsert, faults>>
       \/ /\ m.form \in {"plain", "delta"}
          /\ InsertRevision(m.id, m.form = "delta", box) \/ FailWithError(m.id, {"invalid"}, box)
       \/ /\ m.form \in {"later", "deltaLater"}
          /\ inc' = [inc EXCEPT ![m.id] = [NoInc EXCEPT !.st = "parsing", !.delta = (m.form = "deltaLater")]]
          /\ pullerBox' = box
          /\ UNCHANGED <<returning, toInsert, fate, faults>>

(* handleRevokedDoc(), called by the Puller: the document may be kept,     *)
(* because auto-purge is disabled or the filter says so.                   *)
HandleRevokedDoc(id, box) ==
    /\ UNCHANGED <<provisional, batch, inserted, askedAgain>>
    /\ InsertRevision(id, FALSE, box) \/ FailWithError(id, {"invalid"}, box)

(* finish() when the delta cannot be applied: the Puller is told before    *)
(* the peer, which will send the revision again.                           *)
ReRequest(id) ==
    /\ pullerBox' = Append(pullerBox, [t |-> "revReRequested"])
    /\ owed' = IF link = "open" THEN owed \cup {<<id[1], 2>>} ELSE owed

(* parseAndInsert() on the IncomingRev's thread, and the blobs it fetches *)
ParseAndInsert(id) ==
    /\ inc[id].st = "parsing"
    /\ InsertRevision(id, FALSE, pullerBox) \/ FailWithError(id, {"invalid", "blob"}, pullerBox)
    /\ UNCHANGED <<peer, finderBox, finder, count, waiting, missing, lastSequence, subChanges, caughtUp, connected, level,
                   released, pc, provisional, batch, inserted, askedAgain>>

BadDeltaFails(id) ==
    /\ inc[id].st = "parsing" /\ inc[id].delta /\ Fault("delta")
    /\ inc' = Become(id, "finishing")
    /\ owed' = IF link = "open" THEN owed \cup {<<id[1], 2>>} ELSE owed   \* revReRequested() is not called
    /\ askedAgain' = askedAgain \cup {id[1]}
    /\ UNCHANGED <<announced, backlog, kind, link, finderBox, finder, puller, provisional, returning,
                   toInsert, batch, inserted, fate>>

DeltaFails(id) ==
    /\ inc[id].st = "parsing" /\ inc[id].delta /\ Fault("delta")
    /\ inc' = Become(id, "finishing")
    /\ ReRequest(id)
    /\ askedAgain' = askedAgain \cup {id[1]}
    /\ UNCHANGED <<announced, backlog, kind, link, finderBox, finder, count, waiting, missing, lastSequence, subChanges, caughtUp,
                   connected, level, released, pc, provisional, returning, toInsert, batch, inserted, fate>>

(* The last call of finish(), or of afterEvent() if that runs on the       *)
(* IncomingRev's thread                                                    *)
Return(id) ==
    /\ inc[id].st = "finishing"
    /\ inc' = [inc EXCEPT ![id].st = "returned"]
    /\ RevWasHandled(id, pullerBox)
    /\ UNCHANGED <<peer, finderBox, finder, count, waiting, missing, lastSequence, subChanges, caughtUp, connected, level,
                   released, pc, provisional, toInsert, batch, inserted, history>>

-----------------------------------------------------------------------------
(* Inserter                                                                *)

(* _insertRevisionsNow() takes what is queued.  The revisions of the last  *)
(* batch have been handed back.                                            *)
InsertRevisionsNow ==
    /\ batch = << >> /\ inserted = << >> /\ toInsert # << >>
    /\ \A id \in Ids : inc[id].st # "finishing"
    /\ batch' = toInsert /\ toInsert' = << >>
    /\ UNCHANGED <<peer, finderBox, finder, puller, inc, provisional, returning, inserted, history>>

Revoked(id) == kind[id[1]] = "revoked"
HandledProvisionally(id) == IF Revoked(id) THEN "revoked" ELSE "revs"

(* revisionProvisionallyInserted(): the Puller is called if the count it   *)
(* takes was zero.                                                         *)
InsertOne ==
    LET id == Head(batch)
        c == HandledProvisionally(id)
    IN  /\ batch # << >>
        /\ batch' = Tail(batch) /\ inserted' = Append(inserted, id)
        /\ inc' = [inc EXCEPT ![id].st = "inserted", ![id].prov = TRUE]
        /\ provisional' = [provisional EXCEPT ![c] = @ + 1]
        /\ pullerBox' = IF provisional[c] = 0 THEN Append(pullerBox, [t |-> "provisionallyHandled"]) ELSE pullerBox
        /\ UNCHANGED <<peer, finderBox, finder, count, waiting, missing, lastSequence, subChanges, caughtUp, connected, level,
                       released, pc, returning, toInsert, history>>

(* insertRevisionNow() fails: for good, or because of the delta *)
InsertFails ==
    LET id == Head(batch)
    IN  /\ batch # << >>
        /\ batch' = Tail(batch)
        /\ UNCHANGED <<announced, backlog, kind, link, finderBox, finder, count, waiting, missing, lastSequence, subChanges, caughtUp,
                       connected, level, released, pc, provisional, returning, toInsert, inserted, askedAgain>>
        /\ \/ /\ Fault("insert")
              /\ inc' = Become(id, "finishing")
              /\ fate' = [fate EXCEPT ![id[1]] = "refused"]
              /\ UNCHANGED <<owed, pullerBox>>
           \/ /\ inc[id].delta /\ Fault("delta")
              /\ inc' = [inc EXCEPT ![id] = [NoInc EXCEPT !.st = "finishing", !.transient = TRUE]]
              /\ ReRequest(id)
              /\ UNCHANGED fate

(* The transaction commits or fails, and the revisions it inserted are     *)
(* done with: revisionInserted().                                          *)
Commit(ok) ==
    LET all == Elements(inserted)
        Result(id) == IF ~ok THEN "lost" ELSE IF Revoked(id) THEN "purged" ELSE "stored"
    IN  /\ batch = << >> /\ inserted # << >>
        /\ IF ok THEN UNCHANGED faults ELSE Fault("commit")
        /\ inserted' = << >>
        /\ inc' = [id \in Ids |-> IF id \in all THEN [inc[id] EXCEPT !.st = "finishing"] ELSE inc[id]]
        /\ fate' = [s \in Seqs |-> IF \E id \in all : id[1] = s THEN Result(CHOOSE id \in all : id[1] = s) ELSE fate[s]]
        /\ UNCHANGED <<peer, finderBox, finder, puller, provisional, returning, toInsert, batch, askedAgain>>

-----------------------------------------------------------------------------
(* Puller                                                                  *)

(* computeActivityLevel(), called after every event: Worker's part of it   *)
(* is that messages wait, or that a response is awaited.  It lets go of    *)
(* the RevFinder when the Puller stops.                                    *)
BadComputeActivityLevel ==
    IF subChanges = "failed" \/ ~connected THEN "stopped"   \* though IncomingRevs have not finished
    ELSE IF count.unfinished + count.unfinishedRevoked > 0 THEN "busy"
    ELSE IF pullerBox # << >> \/ subChanges # "active" \/ ~caughtUp \/ count.pending > 0 THEN "busy"
    ELSE IF Continuous THEN "idle" ELSE "stopped"

ComputeActivityLevel ==
    IF count.unfinished + count.unfinishedRevoked > 0 THEN "busy"
    ELSE IF subChanges = "failed" \/ ~connected THEN "stopped"
    ELSE IF pullerBox # << >> \/ subChanges # "active" \/ ~caughtUp \/ count.pending > 0 THEN "busy"
    ELSE IF Continuous THEN "idle" ELSE "stopped"

AfterEvent ==
    /\ level' = IF pc' = "idle" THEN ComputeActivityLevel' ELSE level
    /\ released' = (released \/ level' = "stopped")

(* maybeStartIncomingRevs() *)
RoomForRev == count.active < MaxActive /\ count.unfinished < MaxIncoming
RoomForRevoked == count.activeRevoked < MaxActive /\ count.unfinishedRevoked < MaxIncoming
BadCanStart == connected /\ waiting.revs # << >> /\ RoomForRev   \* revoked documents stay
CanStart == \/ connected /\ waiting.revs # << >> /\ RoomForRev
            \/ waiting.revoked # << >> /\ RoomForRevoked
MaybeStartIncomingRevs == pc' = IF CanStart' THEN "starting" ELSE "idle"

Receive(type) == pc = "idle" /\ pullerBox # << >> /\ Head(pullerBox).t = type

(* startIncomingRev() and startRevoked(): without a connection there is no *)
(* IncomingRev.                                                            *)
StartIncomingRev(m, box) ==
    /\ finderBox' = Append(finderBox, [t |-> "revReceived"])
    /\ IF connected
       THEN /\ count' = [count EXCEPT !.pending = @ - 1, !.active = @ + 1, !.unfinished = @ + 1]
            /\ HandleRevMessage(m, box)
       ELSE /\ count' = [count EXCEPT !.pending = @ - 1]
            /\ pullerBox' = box
            /\ UNCHANGED <<workers, history>>

StartRevoked(s, box) ==
    /\ UNCHANGED finderBox
    /\ IF connected
       THEN /\ count' = [count EXCEPT !.activeRevoked = @ + 1, !.unfinishedRevoked = @ + 1]
            /\ HandleRevokedDoc(<<s, 1>>, box)
       ELSE /\ pullerBox' = box
            /\ UNCHANGED <<count, workers, history>>

HandleRev ==
    LET m == Head(pullerBox)
    IN  /\ Receive("rev")
        /\ IF RoomForRev
           THEN StartIncomingRev(m, Tail(pullerBox)) /\ UNCHANGED waiting
           ELSE /\ waiting' = [waiting EXCEPT !.revs = Append(@, m)]
                /\ pullerBox' = Tail(pullerBox)
                /\ UNCHANGED <<finderBox, count, workers, history>>
        /\ UNCHANGED <<peer, finder, missing, lastSequence, subChanges, caughtUp, connected, pc>>
        /\ AfterEvent

(* _documentsRevoked(), one document after the other *)
DocumentsRevoked ==
    LET m == Head(pullerBox)
        s == CHOOSE r \in m.seqs : \A q \in m.seqs : r <= q
        rest == IF m.seqs = {s} THEN Tail(pullerBox) ELSE <<[m EXCEPT !.seqs = @ \ {s}]>> \o Tail(pullerBox)
    IN  /\ Receive("documentsRevoked")
        /\ IF RoomForRevoked
           THEN StartRevoked(s, rest) /\ UNCHANGED waiting
           ELSE /\ waiting' = [waiting EXCEPT !.revoked = Append(@, s)]
                /\ pullerBox' = rest
                /\ UNCHANGED <<finderBox, count, workers, history>>
        /\ UNCHANGED <<peer, finder, missing, lastSequence, subChanges, caughtUp, connected, pc>>
        /\ IF m.seqs = {s} THEN AfterEvent ELSE UNCHANGED <<level, released>>

StartWaitingRev ==
    /\ pc = "starting" /\ connected /\ waiting.revs # << >> /\ RoomForRev
    /\ waiting' = [waiting EXCEPT !.revs = Tail(@)]
    /\ StartIncomingRev(Head(waiting.revs), pullerBox)
    /\ UNCHANGED <<peer, finder, missing, lastSequence, subChanges, caughtUp, connected>>
    /\ MaybeStartIncomingRevs
    /\ AfterEvent

StartWaitingRevoked ==
    /\ pc = "starting" /\ ~(connected /\ waiting.revs # << >> /\ RoomForRev)
    /\ waiting' = [waiting EXCEPT !.revoked = Tail(@)]
    /\ StartRevoked(Head(waiting.revoked), pullerBox)
    /\ UNCHANGED <<peer, finder, missing, lastSequence, subChanges, caughtUp, connected>>
    /\ MaybeStartIncomingRevs
    /\ AfterEvent

(* _expectSequences(): what has not been requested is complete at once. *)
AddAll(set, first, last) ==
    LET Added[s \in first - 1 .. last] == IF s < first THEN set ELSE Add(Added[s - 1], s)
    IN  Added[last]

ExpectSequences ==
    LET m == Head(pullerBox)
        set == Remove(AddAll(missing, m.first, m.last), (m.first .. m.last) \ m.wanted)
    IN  /\ Receive("expectSequences")
        /\ pullerBox' = Tail(pullerBox)
        /\ missing' = set
        /\ lastSequence' = IF m.wanted # m.first .. m.last THEN Since(set) ELSE lastSequence
        /\ count' = [count EXCEPT !.pending = @ + Cardinality(m.wanted)]
        /\ UNCHANGED <<peer, finderBox, finder, waiting, subChanges, caughtUp, connected, pc, workers, history>>
        /\ AfterEvent

HandleNoRev ==
    LET s == Head(pullerBox).id[1]
        set == Remove(missing, {s})
    IN  /\ Receive("norev")
        /\ pullerBox' = Tail(pullerBox)
        /\ finderBox' = Append(finderBox, [t |-> "revReceived"])
        /\ count' = [count EXCEPT !.pending = @ - 1]
        /\ missing' = set
        /\ lastSequence' = IF missing.first = s THEN Since(set) ELSE lastSequence
        /\ fate' = [fate EXCEPT ![s] = "refused"]
        /\ UNCHANGED <<peer, finder, waiting, subChanges, caughtUp, connected, pc, workers, askedAgain, faults>>
        /\ AfterEvent

RevReRequested ==
    /\ Receive("revReRequested")
    /\ pullerBox' = Tail(pullerBox)
    /\ finderBox' = Append(finderBox, [t |-> "reRequestingRev"])
    /\ count' = [count EXCEPT !.pending = @ + 1]
    /\ UNCHANGED <<peer, finder, waiting, missing, lastSequence, subChanges, caughtUp, connected, pc, workers, history>>
    /\ AfterEvent

(* _revsWereProvisionallyHandled() *)
RevsWereProvisionallyHandled ==
    /\ Receive("provisionallyHandled")
    /\ pullerBox' = Tail(pullerBox)
    /\ count' = [count EXCEPT !.active = @ - provisional.revs, !.activeRevoked = @ - provisional.revoked]
    /\ provisional' = [revs |-> 0, revoked |-> 0]
    /\ UNCHANGED <<peer, finderBox, finder, waiting, missing, lastSequence, subChanges, caughtUp, connected, inc, returning,
                   toInsert, batch, inserted, history>>
    /\ MaybeStartIncomingRevs
    /\ AfterEvent

(* _revsFinished(): a transient error leaves the sequence missing. *)
RevsFinished ==
    LET revoked == {id \in returning : Revoked(id)}
        revs == returning \ revoked
        Active(S) == Cardinality({id \in S : ~inc[id].prov})
    IN  /\ Receive("revsFinished")
        /\ pullerBox' = Tail(pullerBox)
        /\ count' = [count EXCEPT !.active = @ - Active(revs), !.unfinished = @ - Cardinality(revs),
                                  !.activeRevoked = @ - Active(revoked),
                                  !.unfinishedRevoked = @ - Cardinality(revoked)]
        /\ missing' = Remove(missing, {id[1] : id \in {r \in revs : ~inc[r].transient}})
        /\ lastSequence' = Since(missing')
        /\ finderBox' = IF revoked = {} THEN finderBox
                        ELSE Append(finderBox, [t |-> "revokedHandled", n |-> Cardinality(revoked)])
        /\ inc' = [id \in Ids |-> IF id \in returning THEN NoInc ELSE inc[id]]
        /\ returning' = {}
        /\ UNCHANGED <<peer, finder, waiting, subChanges, caughtUp, connected, provisional, toInsert, batch, inserted, history>>
        /\ MaybeStartIncomingRevs
        /\ AfterEvent

(* The handler of the reply to "subChanges" *)
SubChangesReply ==
    /\ Receive("subChangesReply")
    /\ pullerBox' = Tail(pullerBox)
    /\ subChanges' = IF subChanges = "refused" THEN "failed" ELSE "active"
    /\ UNCHANGED <<peer, finderBox, finder, count, waiting, missing, lastSequence, caughtUp, connected, pc, workers, history>>
    /\ AfterEvent

(* _setCaughtUp(), _connectionClosed() *)
SetCaughtUp ==
    /\ Receive("caughtUp")
    /\ pullerBox' = Tail(pullerBox)
    /\ caughtUp' = TRUE
    /\ UNCHANGED <<peer, finderBox, finder, count, waiting, missing, lastSequence, subChanges, connected, pc, workers, history>>
    /\ AfterEvent

ConnectionClosed ==
    /\ Receive("connectionClosed")
    /\ pullerBox' = Tail(pullerBox)
    /\ connected' = FALSE
    /\ UNCHANGED <<peer, finderBox, finder, count, waiting, missing, lastSequence, subChanges, caughtUp, pc, workers, history>>
    /\ AfterEvent

-----------------------------------------------------------------------------
PeerNext ==
    \/ Reply \/ Announce \/ AnnounceEnd
    \/ \E id \in Ids : SendNoRev(id) \/ \E form \in AllForms : SendRev(id, form)
    \/ Close \/ OnClose

FinderNext == HandleChanges \/ RevReceived \/ HandleWaitingChanges

WorkerNext ==
    \/ \E id \in Ids : ParseAndInsert(id) \/ DeltaFails(id) \/ Return(id)
    \/ InsertRevisionsNow \/ InsertOne \/ InsertFails
    \/ \E ok \in BOOLEAN : Commit(ok)

PullerNext ==
    \/ HandleRev \/ DocumentsRevoked \/ StartWaitingRev \/ StartWaitingRevoked
    \/ ExpectSequences \/ HandleNoRev \/ RevReRequested
    \/ RevsWereProvisionallyHandled \/ RevsFinished \/ SubChangesReply \/ SetCaughtUp \/ ConnectionClosed

Next == PeerNext \/ FinderNext \/ WorkerNext \/ PullerNext
Spec == Init /\ [][Next]_vars

-----------------------------------------------------------------------------
Sum(f) == LET S[i \in 0 .. Len(f)] == IF i = 0 THEN 0 ELSE S[i - 1] + f[i] IN S[Len(f)]
Number(box, types) == Sum([i \in DOMAIN box |-> IF box[i].t \in types THEN 1 ELSE 0])
WantedIn(box) == Sum([i \in DOMAIN box |-> IF box[i].t = "expectSequences" THEN Cardinality(box[i].wanted) ELSE 0])

Unfinished(revoked) == {id \in Ids : inc[id].st # "none" /\ Revoked(id) = revoked}

(* Every request is accounted for in both actors: what the RevFinder       *)
(* throttles itself by is what the Puller waits for, messages in their     *)
(* mailboxes included; and what the Puller waits for is what the peer      *)
(* still owes it.  _revReRequested() (CBL-936) and revReceived() keep it   *)
(* so; a difference would stall the pull or let a counter wrap around.     *)
RequestsAccounted ==
    LET expected == count.pending + WantedIn(pullerBox)
        again == Number(pullerBox, {"revReRequested"})
        coming == Cardinality(owed) + Number(pullerBox, {"rev", "norev"}) + Len(waiting.revs)
    IN  /\ finder.requested + Number(finderBox, {"reRequestingRev"}) = expected + Number(finderBox, {"revReceived"})
        /\ IF link = "open" THEN expected + again = coming ELSE expected + again >= coming

(* _activeIncomingRevs and _unfinishedIncomingRevs, and their counterparts *)
(* for revoked documents, count the IncomingRevs, those not yet taken from *)
(* the batcher of provisionally handled ones included: an IncomingRev may  *)
(* return before that has been taken.                                      *)
WorkersAccounted ==
    /\ count.unfinished = Cardinality(Unfinished(FALSE))
    /\ count.unfinishedRevoked = Cardinality(Unfinished(TRUE))
    /\ count.active = Cardinality({id \in Unfinished(FALSE) : ~inc[id].prov}) + provisional.revs
    /\ count.activeRevoked = Cardinality({id \in Unfinished(TRUE) : ~inc[id].prov}) + provisional.revoked
    /\ count.active <= MaxActive /\ count.unfinished <= MaxIncoming

(* All the counters by which the two actors throttle themselves and each   *)
(* other are right, at every step of either.                               *)
CountersMatch == TypeOK /\ RequestsAccounted /\ WorkersAccounted

(* The RevFinder handles "changes" messages in the order in which they     *)
(* came, which RemoteSequenceSet relies on: one that finds room finds no   *)
(* other waiting.                                                          *)
ChangesInOrder == finder.waiting # << >> /\ ~finder.draining => ~PullerHasCapacity

(* The checkpoint passes no revision that may still arrive or be inserted, *)
(* except one that an IncomingRev asked for again because it could not     *)
(* apply the delta itself: only the Inserter sets errorIsTransient.        *)
CheckpointedIsSettled ==
    \A s \in 1 .. lastSequence : kind[s] = "rev" /\ fate[s] = "none" => s \in askedAgain

(* When all is quiet after the backlog, nothing waits: back-pressure has   *)
(* been let off, the sequence set is empty, and the Puller is idle or, in  *)
(* a one-shot replication, has stopped.                                    *)
Quiescent ==
    /\ link = "open" /\ backlog <= N /\ owed = {}
    /\ finderBox = << >> /\ ~finder.draining /\ pullerBox = << >> /\ pc = "idle"
    /\ \A id \in Ids : inc[id].st = "none"

NoStall ==
    Quiescent =>
        /\ finder.waiting = << >> /\ waiting.revs = << >> /\ waiting.revoked = << >>
        /\ missing.entries = {} /\ lastSequence = Since(missing)
        /\ finder.requested = 0 /\ finder.revoked = 0
        /\ level = IF Continuous THEN "idle" ELSE "stopped"

(* The Puller says that it is idle, or has stopped, only when every        *)
(* revision that it has been told of has been dealt with, and all those of *)
(* the backlog have: a one-shot replication closes the connection then.    *)
(* What the peer of a continuous one announces later may be on its way to  *)
(* the RevFinder, or from it to the Puller, which goes on being idle.      *)
OnItsWay(s) == \E m \in Elements(finderBox) \cup Elements(finder.waiting) \cup Elements(pullerBox) :
                  m.t \in {"changes", "expectSequences"} /\ s \in m.first .. m.last

IdleIsDone ==
    level # "busy" /\ connected =>
        \A s \in Seqs : kind[s] = "rev" /\ fate[s] = "none" => s > backlog /\ OnItsWay(s)

(* When the Puller has stopped it has let go of the RevFinder and of its   *)
(* parent (CBL-221): no "rev" or "norev" and no IncomingRev that would use *)
(* them can come any more.                                                 *)
ReleasedIsDone ==
    released => /\ count.unfinished = 0 /\ count.unfinishedRevoked = 0
                /\ \A m \in Elements(pullerBox) : m.t \notin {"rev", "norev", "revsFinished"}

(* So the activity level, on which the Replicator acts, tells the truth.   *)
LevelIsTrue == IdleIsDone /\ ReleasedIsDone

=============================================================================
