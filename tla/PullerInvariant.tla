-------------------------- MODULE PullerInvariant ---------------------------
(***************************************************************************)
(* What the proofs about Puller speak of: the inductive invariant, which   *)
(* is IInv, Starting and RevokedOnce, with Accounts, OthersTyped and       *)
(* WorkersAccounted for the counters; and what the steps of the system do  *)
(* to the parts of it.                                                     *)
(***************************************************************************)
EXTENDS Puller, Integers

-----------------------------------------------------------------------------
(***************************************************************************)
(* The order of the lists of changes, and the places of the revisions.     *)
(* First, the types of the messages and of the variables.                  *)
(***************************************************************************)
Statuses == {"none", "parsing", "queued", "inserted", "finishing", "returned"}
Fates == {"none", "stored", "purged", "refused", "lost"}
ChangesMail == [t : {"changes"}, first : Nat, last : Nat]
FinderMail == ChangesMail \cup [t : {"reRequestingRev", "revReceived"}] \cup [t : {"revokedHandled"}, n : Nat]
RevMail == [t : {"rev"}, id : Ids, form : AllForms]
ExpectMail == [t : {"expectSequences"}, first : Nat, last : Nat, wanted : SUBSET Seqs]
RevokedMail == [t : {"documentsRevoked"}, seqs : (SUBSET Seqs) \ {{}}]
LightTypes == {"subChangesReply", "caughtUp", "connectionClosed", "provisionallyHandled", "revsFinished"}
PlainTypes == {"revReRequested"} \cup LightTypes
PlainMail == [t : PlainTypes]
PullerMail == RevMail \cup [t : {"norev"}, id : Ids] \cup ExpectMail \cup RevokedMail \cup PlainMail

Typed ==
    /\ announced \in 0 .. N /\ kind \in [Seqs -> {"none"} \cup Kinds] /\ owed \in SUBSET Ids
    /\ finderBox \in Seq(FinderMail)
    /\ finder \in [waiting : Seq(ChangesMail), requested : Int, revoked : Int, draining : BOOLEAN]
    /\ pullerBox \in Seq(PullerMail)
    /\ waiting \in [revs : Seq(RevMail), revoked : Seq(Seqs)]
    /\ lastSequence \in Nat
    /\ inc \in [Ids -> [st : Statuses, delta : BOOLEAN, prov : BOOLEAN, transient : BOOLEAN]]
    /\ returning \in SUBSET Ids
    /\ toInsert \in Seq(Ids) /\ batch \in Seq(Ids) /\ inserted \in Seq(Ids)
    /\ fate \in [Seqs -> Fates] /\ askedAgain \in SUBSET Seqs

(* The set of missing sequences: an entry's `prev' is not before any entry *)
(* that comes earlier, and `first' is the earliest.                        *)
Entries == [seq : Nat, order : Nat, prev : Nat]
MissingSeqs(set) == {e.seq : e \in set.entries}

Ascending(set) ==
    /\ \A e \in set.entries : e.order < set.nextOrder /\ e.seq <= set.lastAdded /\ e.prev < e.seq
    /\ \A e, f \in set.entries :
          /\ e.order < f.order => e.seq < f.seq
          /\ e.seq < f.seq => e.order < f.order /\ e.seq <= f.prev
          /\ e.seq = f.seq => e = f

FirstIsFirst(set) ==
    /\ set.entries = {} => set.first = None
    /\ set.entries # {} => \E e \in set.entries : set.first = e.seq /\ \A f \in set.entries : e.seq <= f.seq

GoodSet(set) ==
    /\ set \in [entries : SUBSET Entries, nextOrder : Nat, lastAdded : Nat, first : Nat \cup {None}]
    /\ Ascending(set) /\ FirstIsFirst(set)

(* Nothing more will happen to the revision of a sequence, or it may only  *)
(* because it was asked for again.                                         *)
Settled(s) == kind[s] = "rev" /\ fate[s] = "none" => s \in askedAgain

(* The lists of changes, as they come to the RevFinder and as it passes    *)
(* them on, are in order; the sequences that a list has yet to bring are   *)
(* beyond those the Puller knows.                                          *)
IsList(m) == m.t \in {"changes", "expectSequences"}
Lists(q) == {m \in Elements(q) : IsList(m)}
InOrder(q) == \A i, j \in DOMAIN q : i < j /\ IsList(q[i]) /\ IsList(q[j]) => q[i].last < q[j].first
Before(Q, R) == \A m \in Q, n \in R : m.last < n.first
Pending == Elements(finder.waiting) \cup Lists(finderBox)
Expected == Lists(pullerBox)

ListsKnown ==
    /\ \A m \in Pending \cup Expected :
          1 <= m.first /\ m.first <= m.last + 1 /\ m.last <= N /\ m.last <= announced /\ missing.lastAdded < m.first
    /\ \A m \in Expected : m.first <= m.last /\ m.wanted = {s \in m.first .. m.last : kind[s] = "rev"}
    /\ \A s \in Seqs : kind[s] # "none" => s <= announced
    /\ missing.lastAdded <= N /\ missing.lastAdded <= announced

ListsInOrder ==
    /\ InOrder(finder.waiting) /\ InOrder(finderBox) /\ InOrder(pullerBox)
    /\ Before(Elements(finder.waiting), Lists(finderBox)) /\ Before(Expected, Pending)

(* Every sequence that was announced is settled, or missing, or on its way *)
(* to become so.                                                           *)
Covers(m, s) == s \in m.first .. m.last

AllCovered ==
    \A s \in Seqs : s <= announced =>
        Settled(s) \/ s \in MissingSeqs(missing) \/ \E m \in Pending \cup Expected : Covers(m, s)

(* A revision is sent once, and a second time only after its delta has     *)
(* failed: it is owed, or in a message, or with an IncomingRev.            *)
IsRev(m) == m.t \in {"rev", "norev"}
RevIds(q) == {m.id : m \in {n \in Elements(q) : IsRev(n)}}
RevokedSeqs(q) == UNION {m.seqs : m \in {n \in Elements(q) : n.t = "documentsRevoked"}}
Distinct(q) == \A i, j \in DOMAIN q : i # j /\ IsRev(q[i]) /\ IsRev(q[j]) => q[i].id # q[j].id
Coming == owed \cup RevIds(pullerBox) \cup RevIds(waiting.revs)
WantedIds == {id \in Ids : kind[id[1]] = "rev"}
MayFail(id) == inc[id].st \in {"parsing", "queued"} /\ inc[id].delta
WholeSecond(q) == \A m \in Elements(q) : m.t = "rev" /\ m.id[2] = 2 => m.form \notin {"delta", "deltaLater"}

ComingOnce ==
    /\ Distinct(pullerBox) /\ Distinct(waiting.revs)
    /\ owed \cap RevIds(pullerBox) = {} /\ owed \cap RevIds(waiting.revs) = {}
    /\ RevIds(pullerBox) \cap RevIds(waiting.revs) = {}
    /\ WholeSecond(pullerBox) /\ WholeSecond(waiting.revs)

OnePlace ==
    /\ \A id \in Coming : id \in WantedIds /\ inc[id].st = "none"
    /\ \A id \in Ids : inc[id].st # "none" => id[1] <= announced
    /\ \A id \in Ids : MayFail(id) => id[2] = 1 /\ id \in WantedIds
    /\ \A s \in Seqs : <<s, 1>> \in Coming \/ MayFail(<<s, 1>>) => <<s, 2>> \notin Coming /\ inc[<<s, 2>>].st = "none"
    /\ \A m \in Pending : \A s \in Seqs : Covers(m, s) /\ kind[s] = "rev" =>
          \A i \in {1, 2} : <<s, i>> \notin Coming /\ inc[<<s, i>>].st = "none"

(* The IncomingRevs that the Inserter has are those that wait for it, and  *)
(* one that has finished has settled its revision, unless the error was    *)
(* transient.                                                              *)
Once(q) == \A i, j \in DOMAIN q : i # j => q[i] # q[j]
AreAll(S, st) == \A id \in S : inc[id].st = st
ProvIsRight(x) == x.prov => x.st \in {"inserted", "finishing", "returned"}

WorkersKnown ==
    /\ Once(toInsert) /\ Once(batch) /\ Once(inserted)
    /\ Elements(toInsert) \cap Elements(batch) = {}
    /\ AreAll(Elements(toInsert), "queued") /\ AreAll(Elements(batch), "queued")
    /\ AreAll(Elements(inserted), "inserted")
    /\ AreAll(returning, "returned")
    /\ \A id \in Ids : inc[id].st \in {"finishing", "returned"} /\ ~inc[id].transient => Settled(id[1])
    /\ \A id \in Ids : (inc[id].delta => id \in WantedIds) /\ ProvIsRight(inc[id])
    /\ \A s \in RevokedSeqs(pullerBox) \cup Elements(waiting.revoked) : kind[s] = "revoked"

(* A revoked document is handled once: nothing else holds its sequence.    *)
RevokedOf(x) == IF x.t = "documentsRevoked" THEN x.seqs ELSE {}
Apart(q) == \A i, j \in DOMAIN q : i # j => RevokedOf(q[i]) \cap RevokedOf(q[j]) = {}
NotStarted == RevokedSeqs(pullerBox) \cup Elements(waiting.revoked)

RevokedOnce ==
    /\ Apart(pullerBox) /\ Once(waiting.revoked) /\ RevokedSeqs(pullerBox) \cap Elements(waiting.revoked) = {}
    /\ \A s \in NotStarted : inc[<<s, 1>>].st = "none" /\ \A m \in Pending : ~Covers(m, s)
    /\ \A m \in Pending : \A s \in Seqs : Covers(m, s) /\ kind[s] = "revoked" => inc[<<s, 1>>].st = "none"

CheckpointKnown == GoodSet(missing) /\ lastSequence <= missing.lastAdded /\ CheckpointedIsSettled

IInv ==
    /\ Typed /\ CheckpointKnown
    /\ ListsKnown /\ ListsInOrder /\ AllCovered /\ ChangesInOrder
    /\ ComingOnce /\ OnePlace /\ WorkersKnown

(* The loop of maybeStartIncomingRevs() goes round only while there is     *)
(* something to start.                                                     *)
Starting == pc = "starting" => CanStart

(* The types of what the other invariants do not mention.                  *)
OthersTyped ==
    /\ backlog \in 0 .. N + 1 /\ subChanges \in {"asked", "accepted", "refused", "active", "failed"}
    /\ link \in {"open", "closing", "closed"} /\ pc \in {"idle", "starting"} /\ level \in {"busy", "idle", "stopped"}
    /\ caughtUp \in BOOLEAN /\ connected \in BOOLEAN /\ released \in BOOLEAN
    /\ provisional \in [revs : Nat, revoked : Nat] /\ faults \in 0 .. MaxFaults

-----------------------------------------------------------------------------
(***************************************************************************)
(* The counters of the requests.                                           *)
(***************************************************************************)
(* The sum of the weights w of the messages of a mailbox, and its partial  *)
(* sums, starting from b.                                                  *)
Total(w, q) == Sum([i \in DOMAIN q |-> w[q[i]]])
SumsOf(b, w, q) == {g \in [0 .. Len(q) -> Int] : g[0] = b /\ \A k \in 1 .. Len(q) : g[k] = g[k - 1] + w[q[k]]}

(* A counter that starts at b stays a number as the messages are handled.  *)
Running(b, w, q) == \E g \in SumsOf(b, w, q) : \A k \in 0 .. Len(q) : g[k] >= 0

(* What a message adds to, or takes from, the revisions to come, ...       *)
Wants == [m \in PullerMail |-> IF m.t = "expectSequences" THEN Cardinality(m.wanted) ELSE 0]
Again == [m \in PullerMail |-> IF m.t = "revReRequested" THEN 1 ELSE 0]
Comes == [m \in PullerMail |-> IF m.t \in {"rev", "norev"} THEN 1 ELSE 0]
Due == [m \in PullerMail |-> Wants[m] + Again[m] - Comes[m]]
Asks == [m \in FinderMail |-> IF m.t = "reRequestingRev" THEN 1 ELSE 0]
Receives == [m \in FinderMail |-> IF m.t = "revReceived" THEN 1 ELSE 0]
FinderDue == [m \in FinderMail |-> Asks[m] - Receives[m]]

(* ... and the revoked documents that are to be handled.                   *)
Revokes == [m \in PullerMail |-> IF m.t = "documentsRevoked" THEN Cardinality(m.seqs) ELSE 0]
Handles == [m \in FinderMail |-> IF m.t = "revokedHandled" THEN m.n ELSE 0]
CountType == [pending : Int, active : Int, unfinished : Int, activeRevoked : Int, unfinishedRevoked : Int]

(* The revisions that the Puller waits for, those not in a message to it.  *)
Base == count.pending - Len(waiting.revs)

(* The two actors agree on how many revisions are to come, which are those *)
(* the peer owes while the connection is open; and no message takes one of *)
(* them off a counter that is zero.  The RevFinder may count more revoked  *)
(* documents than there are: those of a closed connection are not handled. *)
Accounts ==
    /\ count \in CountType
    /\ finder.requested + Total(FinderDue, finderBox) = count.pending + Total(Wants, pullerBox)
    /\ Base + Total(Due, pullerBox) >= Cardinality(owed)
    /\ link = "open" => Base + Total(Due, pullerBox) = Cardinality(owed)
    /\ Running(Base, Due, pullerBox) /\ Running(finder.requested, FinderDue, finderBox)
    /\ finder.revoked >= Total(Revokes, pullerBox) + Len(waiting.revoked) + count.unfinishedRevoked + Total(Handles, finderBox)

-----------------------------------------------------------------------------
(***************************************************************************)
(* What the steps do.                                                      *)
(***************************************************************************)
(* Adding the sequences of a list, one after the other: the function that  *)
(* AddAll defines.                                                         *)
Adds(g, set, first, last) == g = [s \in first - 1 .. last |-> IF s < first THEN set ELSE Add(g[s - 1], s)]
AddsExist(set, first, last) == \E g : Adds(g, set, first, last)

(* What is in the set after the sequences up to k have been added.         *)
AddedUpTo(new, set, first, k) ==
    /\ GoodSet(new) /\ new.lastAdded = (IF k < first THEN set.lastAdded ELSE k)
    /\ MissingSeqs(new) = MissingSeqs(set) \cup (first .. k)

(* What a message adds to a mailbox.                                       *)
ListOf(x) == IF IsList(x) THEN {x} ELSE {}
RevIdOf(x) == IF IsRev(x) THEN {x.id} ELSE {}
HasBesides(q, r, x) == Elements(q) = {x} \cup Elements(r)

(* Mailboxes that differ in messages with neither lists nor revisions.     *)
SameLists(old, new) == Lists(new) = Lists(old) /\ (InOrder(old) => InOrder(new))

SameRevs(old, new) ==
    /\ RevIds(new) = RevIds(old) /\ (Distinct(old) => Distinct(new)) /\ (WholeSecond(old) => WholeSecond(new))
    /\ RevokedSeqs(new) = RevokedSeqs(old)

SameMail(old, new) == new \in Seq(PullerMail) /\ SameLists(old, new) /\ SameRevs(old, new)
FinderSame(old, new) == new \in Seq(FinderMail) /\ SameLists(old, new)

(* The invariant in two parts: the lists, and the places of revisions.     *)
ListsInv == CheckpointKnown /\ ListsKnown /\ ListsInOrder /\ AllCovered /\ ChangesInOrder
PlacesInv == ComingOnce /\ OnePlace /\ WorkersKnown

(* What is settled stays so.                                               *)
FatesStay ==
    /\ \A s \in Seqs : s <= announced => kind'[s] = kind[s]
    /\ \A s \in Seqs : fate[s] # "none" => fate'[s] # "none"
    /\ \A s \in askedAgain : s \in askedAgain'

(* The lists are as before.                                                *)
ListsKept ==
    /\ announced' = announced /\ kind' = kind /\ finder'.waiting = finder.waiting
    /\ FinderSame(finderBox, finderBox') /\ SameLists(pullerBox, pullerBox')

(* One IncomingRev has changed, and so have the queues that may hold it.   *)
Moved(id, x) == inc' = [inc EXCEPT ![id] = x] /\ kind' = kind /\ announced' = announced

QueuesMoved(id) ==
    /\ \A j \in Elements(toInsert') : j = id \/ j \in Elements(toInsert)
    /\ \A j \in Elements(batch') : j = id \/ j \in Elements(batch)
    /\ \A j \in Elements(inserted') : j = id \/ j \in Elements(inserted)
    /\ \A j \in returning' : j = id \/ j \in returning

QueuesRight(id, st) ==
    /\ id \in Elements(toInsert') \cup Elements(batch') => st = "queued"
    /\ id \in Elements(inserted') => st = "inserted"
    /\ id \in returning' => st = "returned"
    /\ ~(id \in Elements(toInsert') /\ id \in Elements(batch'))

(* A step that changes neither the lists nor the revisions.                *)
QuietStep ==
    /\ finder' \in [waiting : Seq(ChangesMail), requested : Int, revoked : Int, draining : BOOLEAN]
    /\ finder'.waiting = finder.waiting /\ ChangesInOrder'
    /\ FinderSame(finderBox, finderBox') /\ SameMail(pullerBox, pullerBox')
    /\ \A id \in owed' : id \in owed
    /\ UNCHANGED <<announced, kind, waiting, missing, lastSequence, inc, returning, toInsert, batch, inserted, fate, askedAgain>>

FinderType == [waiting : Seq(ChangesMail), requested : Int, revoked : Int, draining : BOOLEAN]

(* The list that is first in line is handled: `others' is the RevFinder    *)
(* without it.                                                             *)
After(others) == Elements(others.waiting) \cup Lists(finderBox')

TakesFirst(m, others) ==
    /\ m \in ChangesMail /\ m \in Pending /\ others \in FinderType /\ finderBox' \in Seq(FinderMail)
    /\ \A p \in Pending : p = m \/ p \in After(others)
    /\ \A p \in After(others) : p \in Pending /\ m.last < p.first
    /\ InOrder(others.waiting) /\ InOrder(finderBox') /\ Before(Elements(others.waiting), Lists(finderBox'))
    /\ others.draining \/ others.waiting = << >>

(* What the Puller has been told before that of the list's changes.        *)
ToldRevoked(box) ==
    /\ box \in Seq(PullerMail) /\ SameLists(pullerBox, box)
    /\ RevIds(box) = RevIds(pullerBox) /\ (Distinct(pullerBox) => Distinct(box)) /\ (WholeSecond(pullerBox) => WholeSecond(box))
    /\ \A s \in RevokedSeqs(box) : s \in RevokedSeqs(pullerBox) \/ kind[s] = "revoked"

(* What the RevFinder tells the Puller of a list: first the revoked        *)
(* documents, then the sequences to expect.                                *)
RevokedOnes(m) == {s \in m.first .. m.last : kind[s] = "revoked"}
RevokedMessage(m) == [t |-> "documentsRevoked", seqs |-> RevokedOnes(m)]
RevokedFirst(m) == IF RevokedOnes(m) = {} THEN << >> ELSE <<RevokedMessage(m)>>

ExpectsAll(x, m) ==
    x.first = m.first /\ x.last = m.last /\ m.first <= m.last /\ x.wanted = {s \in m.first .. m.last : kind[s] = "rev"}

AsksFor(id, m) == id \in Ids /\ id[2] = 1 /\ Covers(m, id[1]) /\ kind[id[1]] = "rev"

(* A list has been handled.                                                *)
Handled(m, others) ==
    /\ TakesFirst(m, others) /\ finder' \in FinderType
    /\ finder'.waiting = others.waiting /\ finder'.draining = others.draining
    /\ UNCHANGED <<announced, kind, waiting, missing, lastSequence, inc, returning, toInsert, batch, inserted, askedAgain>>
    /\ fate' \in [Seqs -> Fates] /\ FatesStay
    /\ \A id \in owed' : id \in owed \/ AsksFor(id, m)
    /\ pullerBox' \in Seq(PullerMail) /\ RevIds(pullerBox') = RevIds(pullerBox)
    /\ Distinct(pullerBox') /\ WholeSecond(pullerBox') /\ InOrder(pullerBox')
    /\ \A s \in RevokedSeqs(pullerBox') : s \in RevokedSeqs(pullerBox) \/ kind[s] = "revoked"
    /\ \A x \in Expected : x \in Expected'
    /\ \A x \in Expected' : x \in Expected \/ ExpectsAll(x, m)
    /\ \A s \in Seqs : Covers(m, s) => Settled(s)' \/ \E x \in Expected' : Covers(x, s)

(* The three ways in which a list may be handled.                          *)
WantedOnes(m) == {s \in m.first .. m.last : kind[s] = "rev"}
ExpectMessage(m) == [t |-> "expectSequences", first |-> m.first, last |-> m.last, wanted |-> WantedOnes(m)]

ListIsEmpty(m, others) ==
    m.first .. m.last = {} /\ pullerBox' = Append(pullerBox, [t |-> "caughtUp"]) /\ finder' = others /\ owed' = owed /\ fate' = fate

ListIsPassedOn(m, others) ==
    /\ m.first .. m.last # {} /\ pullerBox' = pullerBox \o RevokedFirst(m) \o <<ExpectMessage(m)>>
    /\ finder' = [others EXCEPT !.requested = @ + Cardinality(WantedOnes(m)), !.revoked = @ + Cardinality(RevokedOnes(m))]
    /\ owed' = (IF link = "open" THEN owed \cup (WantedOnes(m) \X {1}) ELSE owed) /\ fate' = fate

ListIsLost(m, others) ==
    /\ pullerBox' = pullerBox \o RevokedFirst(m)
    /\ finder' = [others EXCEPT !.revoked = @ + Cardinality(RevokedOnes(m))]
    /\ fate' = [s \in Seqs |-> IF s \in WantedOnes(m) THEN "lost" ELSE fate[s]] /\ owed' = owed

(* A list has come.                                                        *)
IsNew(p) == p.first = announced + 1 /\ p.first <= p.last + 1 /\ p.last <= N /\ p.last <= announced'

Arrival ==
    /\ announced' \in 0 .. N /\ announced <= announced' /\ kind' \in [Seqs -> {"none"} \cup Kinds]
    /\ \A s \in Seqs : s <= announced => kind'[s] = kind[s]
    /\ \A s \in Seqs : kind'[s] # "none" => s <= announced'
    /\ finder' \in FinderType /\ finderBox' \in Seq(FinderMail) /\ ChangesInOrder'
    /\ InOrder(finder'.waiting) /\ InOrder(finderBox') /\ Before(Elements(finder'.waiting), Lists(finderBox'))
    /\ \A p \in Pending : p \in Pending'
    /\ \A p \in Pending' : p \in Pending \/ IsNew(p)
    /\ \A s \in Seqs : announced < s /\ s <= announced' => \E p \in Pending' : Covers(p, s)
    /\ UNCHANGED <<owed, pullerBox, waiting, missing, lastSequence, inc, returning, toInsert, batch, inserted, fate, askedAgain>>

(* One IncomingRev has moved.                                              *)
IncType == [st : Statuses, delta : BOOLEAN, prov : BOOLEAN, transient : BOOLEAN]

MoveIsRight(id, x) ==
    /\ id[1] <= announced /\ QueuesMoved(id) /\ QueuesRight(id, x.st)
    /\ Once(toInsert') /\ Once(batch') /\ Once(inserted') /\ ProvIsRight(x)
    /\ x.st \in {"finishing", "returned"} /\ ~x.transient => Settled(id[1])'
    /\ x.delta => id \in WantedIds
    /\ \A s \in RevokedSeqs(pullerBox') \cup Elements(waiting'.revoked) :
          s \in RevokedSeqs(pullerBox) \cup Elements(waiting.revoked) \/ kind[s] = "revoked"

(* It has been handed a revision, or has parsed one: it passes the         *)
(* revision on to the Inserter, or returns.                                *)
Dispatch(id, x, box) ==
    /\ x \in IncType /\ inc' = [inc EXCEPT ![id] = x] /\ x.st \in {"parsing", "queued", "returned"} /\ x.prov = FALSE
    /\ toInsert' = (IF x.st = "queued" THEN Append(toInsert, id) ELSE toInsert)
    /\ returning' = (IF x.st = "returned" THEN returning \cup {id} ELSE returning)
    /\ fate' \in [Seqs -> Fates] /\ (\A s \in Seqs : fate[s] # "none" => fate'[s] # "none")
    /\ x.st = "returned" => fate'[id[1]] # "none"
    /\ SameMail(box, pullerBox')

(* The same for one that starts, with the rest of the state.               *)
Started(id, x, box) ==
    /\ Dispatch(id, x, box) /\ id[1] <= announced /\ id \notin Coming'
    /\ id \in Coming \/ inc[id].st = "parsing" \/ (id \notin WantedIds /\ inc[id].st = "none")
    /\ x.delta => id[2] = 1 /\ (id \in Coming \/ MayFail(id))
    /\ UNCHANGED <<announced, kind, missing, lastSequence, finder, batch, inserted, askedAgain>>
    /\ ListsKept /\ ComingOnce' /\ (\A j \in Coming' : j \in Coming)
    /\ owed' \in SUBSET Ids /\ waiting' \in [revs : Seq(RevMail), revoked : Seq(Seqs)]
    /\ \A s \in RevokedSeqs(pullerBox') \cup Elements(waiting'.revoked) :
          s \in RevokedSeqs(pullerBox) \cup Elements(waiting.revoked)

(* No revoked document, and no revision, is new.                           *)
RevokedKnown ==
    \A s \in RevokedSeqs(pullerBox') \cup Elements(waiting'.revoked) :
        s \in RevokedSeqs(pullerBox) \cup Elements(waiting.revoked) \/ kind[s] = "revoked"

NoneCome == \A j \in Coming' : j \in Coming

(* The mailbox without the revision, or without the sequence, that is      *)
(* dealt with.                                                             *)
WithoutRev(id, box) ==
    /\ box \in Seq(PullerMail) /\ SameLists(pullerBox, box) /\ Distinct(box) /\ WholeSecond(box)
    /\ RevIds(box) \subseteq RevIds(pullerBox) /\ RevokedSeqs(box) \subseteq RevokedSeqs(pullerBox)
    /\ waiting' \in [revs : Seq(RevMail), revoked : Seq(Seqs)] /\ Distinct(waiting'.revs) /\ WholeSecond(waiting'.revs)
    /\ RevIds(waiting'.revs) \subseteq RevIds(waiting.revs)
    /\ \A s \in Elements(waiting'.revoked) : s \in Elements(waiting.revoked)
    /\ id \notin RevIds(box) /\ id \notin RevIds(waiting'.revs) /\ id \notin owed

(* What is left of a message when its first document has been dealt with.  *)
RestOf(m, s, tail) == IF m.seqs = {s} THEN tail ELSE <<[m EXCEPT !.seqs = m.seqs \ {s}]>> \o tail

(* _documentsRevoked() takes the first document of the message.            *)
RevokedTaken(s, rest) ==
    /\ pullerBox # << >> /\ Head(pullerBox).t = "documentsRevoked" /\ UNCHANGED <<peer, finder, missing, lastSequence>>
    /\ s \in Head(pullerBox).seqs /\ rest = RestOf(Head(pullerBox), s, Tail(pullerBox))
    /\ IF RoomForRevoked
       THEN StartRevoked(s, rest) /\ waiting' = waiting
       ELSE /\ waiting' = [waiting EXCEPT !.revoked = Append(waiting.revoked, s)]
            /\ pullerBox' = rest /\ UNCHANGED <<finderBox, count, workers, history>>

(* Messages about anything else make no difference.                        *)
BoxApart(old, new) == (Apart(old) => Apart(new)) /\ RevokedSeqs(new) \subseteq RevokedSeqs(old)

(* No IncomingRev starts for a revoked document.                           *)
OnlyRevsStart == \A s \in Seqs : kind[s] = "revoked" /\ inc[<<s, 1>>].st = "none" => inc'[<<s, 1>>].st = "none"

(* A weight that is made of others.                                        *)
Combines(S, w, a, c, e) ==
    /\ w \in [S -> Int] /\ a \in [S -> Int] /\ c \in [S -> Int] /\ e \in [S -> Int]
    /\ \A x \in S : w[x] = a[x] + c[x] - e[x]

(* The counters agree with a mailbox that has grown or shrunk.             *)
Adds3(old, new, w, d, r) ==
    /\ Total(Wants, new) = Total(Wants, old) + w /\ Total(Due, new) = Total(Due, old) + d
    /\ Total(Revokes, new) = Total(Revokes, old) + r

Adds2(old, new, d, h) ==
    Total(FinderDue, new) = Total(FinderDue, old) + d /\ Total(Handles, new) = Total(Handles, old) + h

(* Messages that make no difference to the counters.                       *)
SameDue(old, new) ==
    Adds3(old, new, 0, 0, 0) /\ \A b \in Int : Running(b, Due, old) => Running(b, Due, new)

(* A message that makes none.                                              *)
IsLight(m) == m \in PullerMail /\ Wants[m] = 0 /\ Due[m] = 0 /\ Revokes[m] = 0

SameFinderDue(old, new) ==
    Adds2(old, new, 0, 0) /\ \A b \in Int : Running(b, FinderDue, old) => Running(b, FinderDue, new)

(* What a step does to each part of the accounts.                          *)
Changes(r, f, p, w, b, d) ==
    /\ finder'.requested = finder.requested + r /\ Total(FinderDue, finderBox') = Total(FinderDue, finderBox) + f
    /\ count'.pending = count.pending + p /\ Total(Wants, pullerBox') = Total(Wants, pullerBox) + w
    /\ Base' = Base + b /\ Total(Due, pullerBox') = Total(Due, pullerBox) + d

OwedChanges(o) ==
    Cardinality(owed') <= Cardinality(owed) + o /\ (link' = "open" => link = "open" /\ Cardinality(owed') = Cardinality(owed) + o)

RevokedCounted ==
    finder.revoked >= Total(Revokes, pullerBox) + Len(waiting.revoked) + count.unfinishedRevoked + Total(Handles, finderBox)

(* Steps that only concern revoked documents.                              *)
SameRequests(old, new) ==
    /\ Total(Wants, new) = Total(Wants, old) /\ Total(Due, new) = Total(Due, old)
    /\ \A b \in Int : Running(b, Due, old) => Running(b, Due, new)

(* What _revsFinished() takes off the counters.                            *)
Returned(revoked) == {id \in returning : Revoked(id) = revoked}
ReturnedActive(revoked) == {id \in Returned(revoked) : ~inc[id].prov}

(* The IncomingRevs not yet counted as provisionally handled.              *)
ActiveOnes(revoked) == {id \in Unfinished(revoked) : ~inc[id].prov}

WorkersFinite ==
    \A r \in BOOLEAN : /\ IsFiniteSet(Unfinished(r)) /\ Cardinality(Unfinished(r)) \in Nat
                       /\ IsFiniteSet(ActiveOnes(r)) /\ Cardinality(ActiveOnes(r)) \in Nat

(* What a step adds to a counter it adds to what is counted.               *)
CountMoves(u, v, a, b) ==
    /\ count'.unfinished = count.unfinished + u /\ count'.unfinishedRevoked = count.unfinishedRevoked + v
    /\ count'.active + provisional.revs = count.active + provisional'.revs + a
    /\ count'.activeRevoked + provisional.revoked = count.activeRevoked + provisional'.revoked + b

WorkersMove(u, v, a, b) ==
    /\ Cardinality(Unfinished(FALSE)') = Cardinality(Unfinished(FALSE)) + u
    /\ Cardinality(Unfinished(TRUE)') = Cardinality(Unfinished(TRUE)) + v
    /\ Cardinality(ActiveOnes(FALSE)') = Cardinality(ActiveOnes(FALSE)) + a
    /\ Cardinality(ActiveOnes(TRUE)') = Cardinality(ActiveOnes(TRUE)) + b

CountsTyped == count \in CountType /\ provisional \in [revs : Nat, revoked : Nat]

(* A step that starts no IncomingRev and finishes none.                    *)
SameCounts ==
    /\ count'.active = count.active /\ count'.unfinished = count.unfinished
    /\ count'.activeRevoked = count.activeRevoked /\ count'.unfinishedRevoked = count.unfinishedRevoked

SameWorkers ==
    \A id \in Ids : /\ inc[id].st = "none" <=> inc'[id].st = "none"
                    /\ inc[id].st # "none" => inc'[id].prov = inc[id].prov /\ kind'[id[1]] = kind[id[1]]
=============================================================================
