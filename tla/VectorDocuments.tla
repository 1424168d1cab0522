-------------------------- MODULE VectorDocuments --------------------------
(***************************************************************************)
(* One document in several databases that replicate with each other        *)
(* (LiteCore/Database/VectorDocument.cc, LiteCore/RevTrees/VectorRecord.cc *)
(* and the clock of DatabaseImpl).  A database keeps the document's        *)
(* current revision and, for every remote database it replicates with, the *)
(* last revision known to be there, which may be marked as a conflict.     *)
(*                                                                         *)
(* A revision's body is the set of the edits that went into it.  `dropped` *)
(* is history the program does not keep: the edits that a deletion, or the *)
(* choice of a winner in a conflict, took out of the body on purpose.      *)
(***************************************************************************)
EXTENDS VersionVector

CONSTANTS
    Databases,      \* their SourceIDs, numbers above kMe
    Modes           \* what a behaviour may do and its bounds; see ModeType

ASSUME DatabasesAssumption == Databases \subseteq Nat \ {kMe}

VARIABLES
    current,        \* each database's revision of the document
    remote,         \* [Databases -> [Databases -> revision]]: the last synced ones
    wall,           \* the wall clock of each database's machine
    clock,          \* _versionClock's last time
    edits,          \* how many edits were saved
    merges,         \* how many merges were saved
    refused,        \* revisions that were refused, and are past the checkpoint since
    purged,         \* the edits that some database purged (history)
    mode            \* what this behaviour may do

vars == <<current, remote, wall, clock, edits, merges, refused, purged, mode>>

(***************************************************************************)
(* What differs from one behaviour to the next: which database runs a      *)
(* replicator with which remote and whether it pushes, whether the         *)
(* applications' conflict resolvers do as they like, let the later version *)
(* win or merge the bodies, whether documents are purged and databases     *)
(* reopened, and the bounds on the revisions that applications save, on    *)
(* those that merge two bodies, and on the wall clocks.                    *)
(***************************************************************************)
ModeType == [remotes: SUBSET (Databases \X Databases), pushes: BOOLEAN,
             resolver: {"any", "latest", "merge"}, purges: BOOLEAN, reopens: BOOLEAN,
             edits: Nat, merges: Nat, walls: Nat]

Revision(vec, body, deleted, dropped) ==
    [vec |-> vec, body |-> body, deleted |-> deleted, dropped |-> dropped,
     conflicted |-> FALSE]

NoRevision == Revision(EmptyVector, {}, FALSE, {})

exists(r) == ~IsEmpty(r.vec)

Init ==
    /\ mode \in Modes
    /\ current = [d \in Databases |-> NoRevision]
    /\ remote = [d \in Databases |-> [e \in Databases |-> NoRevision]]
    /\ wall \in [Databases -> 1 .. mode.walls]
    /\ clock = [d \in Databases |-> none]
    /\ edits = 0
    /\ merges = 0
    /\ refused = {}
    /\ purged = {}

-----------------------------------------------------------------------------
(***************************************************************************)
(* updateClock: see the time of every version of a vector but this         *)
(* database's own, stopping at the first that is refused.                  *)
(***************************************************************************)
updateClock(d, vec) ==
    FoldLeft(LAMBDA c, x : IF c.ok /\ x.author # kMe THEN see(c.last, wall[d], x.time)
                                                     ELSE c,
             [ok |-> TRUE, last |-> clock[d]], vec.vers)

(***************************************************************************)
(* putNewRevision: an application saves or deletes the document, on top of *)
(* the current revision.  addNewVersion makes sure first that the clock is *)
(* past this database's own last version, and fails when that is too far   *)
(* ahead of the wall clock.                                                *)
(***************************************************************************)
addNewVersion(d, vec) ==
    LET mine == timeOfAuthor(vec, kMe)
        seen == IF mine = none THEN [ok |-> TRUE, last |-> clock[d]]
                               ELSE see(clock[d], wall[d], mine)
        time == now(seen.last, wall[d])
    IN  [ok |-> seen.ok, time |-> time, vec |-> Add(vec, Version(time, kMe))]

putNewRevision(d, deleted) ==
    /\ edits < mode.edits
    /\ deleted => exists(current[d]) /\ ~current[d].deleted
    /\ LET new == addNewVersion(d, current[d].vec)
           old == current[d]
       IN  /\ new.ok
           /\ clock' = [clock EXCEPT ![d] = new.time]
           /\ current' = [current EXCEPT ![d] =
                  IF deleted THEN Revision(new.vec, {}, TRUE, old.dropped \cup old.body)
                  ELSE Revision(new.vec, old.body \cup {edits + 1}, FALSE, old.dropped)]
    /\ edits' = edits + 1
    /\ UNCHANGED <<remote, wall, merges, refused, purged, mode>>

-----------------------------------------------------------------------------
(***************************************************************************)
(* The "rev" message by which database `e` sends its revision, with its    *)
(* vector in absolute form, and what the receiver `d` reads from it: its   *)
(* own ID becomes "*".                                                     *)
(***************************************************************************)
Sent(e) == RevMessage(makeAbsolute(current[e].vec, e))

Received(e, d, message) == [current[e] EXCEPT !.vec = makeLocal(History(message), d)]

(***************************************************************************)
(* CBL-7841: a tombstone that is just what the remote had gives way to a   *)
(* revision that has no version in common with it.                         *)
(***************************************************************************)
Resurrected(d, e, new) ==
    /\ current[d].deleted
    /\ exists(remote[d][e]) /\ remote[d][e].vec = current[d].vec
    /\ ~sharesVersion(current[d].vec, new.vec)

BadPutOrder(d, e, fromRemote, new) ==   \* a remote with a later time wins
    LET order == compareTo(new.vec, current[d].vec)
    IN  IF order = kConflicting /\ fromRemote
             /\ Current(new.vec).time > Current(current[d].vec).time
        THEN kNewer ELSE order

PutOrder(d, e, fromRemote, new) ==
    LET cur == current[d]
        order == compareTo(new.vec, cur.vec)
    IN  IF mergesSameVersions(new.vec, cur.vec) /\ new.body = cur.body THEN kSame
        ELSE IF order = kConflicting /\ fromRemote /\ Resurrected(d, e, new) THEN kNewer
        ELSE order

(***************************************************************************)
(* putExistingRevision: the Inserter stores a revision that came from `e`. *)
(* A client also keeps it as its remote's (fromRemote), marked when it is  *)
(* in conflict; a passive peer refuses a conflict.  A bad timestamp makes  *)
(* it fail, when it may already have moved the clock.                      *)
(***************************************************************************)
putExistingRevision(d, e, fromRemote, new) ==
    LET seen == updateClock(d, new.vec)
        order == PutOrder(d, e, fromRemote, new)
    IN  [ok      |-> seen.ok /\ (fromRemote \/ order # kConflicting),
         clock   |-> seen.last,
         current |-> IF seen.ok /\ order = kNewer THEN new ELSE current[d],
         remote  |-> IF seen.ok /\ fromRemote
                     THEN [new EXCEPT !.conflicted = order = kConflicting]
                     ELSE remote[d][e]]

(***************************************************************************)
(* setRemoteAncestorRevID: record that the remote has this revision, found *)
(* among those of this database by its current version; a revision that is *)
(* not here is recorded without a body.                                    *)
(***************************************************************************)
setRemoteAncestor(d, e, vec) ==
    LET here == {r \in {current[d]} \cup {remote[d][x] : x \in Databases} :
                     exists(r) /\ Current(r.vec) = Current(vec)}
    IN  IF current[d] \in here THEN current[d]
        ELSE IF here # {} THEN CHOOSE r \in here : TRUE
        ELSE Revision(vec, {}, FALSE, {})

(***************************************************************************)
(* A revision that the receiver refuses for its timestamps is done with:   *)
(* the checkpoint passes it, and it is neither asked for nor offered       *)
(* again, even if the clocks have come to agree.                           *)
(***************************************************************************)
Refusal(way, from, to) == [way |-> way, from |-> from, to |-> to, vec |-> current[from].vec]

CompletedSequence(ok, refusal) == refused' = IF ok THEN refused ELSE refused \cup {refusal}

(***************************************************************************)
(* Pull: the client `d` learns of the revision `e` has.  The RevFinder     *)
(* (findAncestors) asks for one that is newer or in conflict; of the       *)
(* others it at most notes that the remote has them.                       *)
(***************************************************************************)
Pull(d, e) ==
    /\ <<d, e>> \in mode.remotes /\ exists(current[e]) /\ Refusal("pull", e, d) \notin refused
    /\ \E message \in {Sent(e)} : \E new \in {Received(e, d, message)} :
       IF compareTo(current[d].vec, new.vec) \in {kOlder, kConflicting}
       THEN \E put \in {putExistingRevision(d, e, TRUE, new)} :
               /\ clock' = [clock EXCEPT ![d] = put.clock]
               /\ current' = [current EXCEPT ![d] = put.current]
               /\ remote' = [remote EXCEPT ![d][e] = put.remote]
               /\ CompletedSequence(put.ok, Refusal("pull", e, d))
       ELSE /\ compareTo(remote[d][e].vec, new.vec) # kSame
            /\ remote' = [remote EXCEPT ![d][e] = setRemoteAncestor(d, e, new.vec)]
            /\ UNCHANGED <<current, clock, refused>>
    /\ UNCHANGED <<wall, edits, merges, purged, mode>>

(***************************************************************************)
(* Push: the client `e` offers its revision to the passive peer `d`, which *)
(* asks for a newer one and answers 409 to a conflict.  A client whose     *)
(* revision is at the peer afterwards marks it as synced.                  *)
(***************************************************************************)
Push(e, d) ==
    /\ mode.pushes /\ <<e, d>> \in mode.remotes /\ exists(current[e]) /\ Refusal("push", e, d) \notin refused
    /\ \E message \in {Sent(e)} : \E new \in {Received(e, d, message)} :
       \E order \in {compareTo(current[d].vec, new.vec)} :
       /\ order # kConflicting
       /\ IF order = kOlder
          THEN \E put \in {putExistingRevision(d, e, FALSE, new)} :
                  /\ clock' = [clock EXCEPT ![d] = put.clock]
                  /\ current' = [current EXCEPT ![d] = put.current]
                  /\ remote' = IF put.ok THEN [remote EXCEPT ![e][d] = current[e]]
                               ELSE remote
                  /\ CompletedSequence(put.ok, Refusal("push", e, d))
          ELSE /\ remote' = [remote EXCEPT ![e][d] = current[e]]
               /\ UNCHANGED <<current, clock, refused>>
    /\ UNCHANGED <<wall, edits, merges, purged, mode>>

-----------------------------------------------------------------------------
(***************************************************************************)
(* resolveConflict: the application's conflict resolver has chosen a       *)
(* winner, or merged the two bodies.  A merged body equal to the winner's  *)
(* is ignored, and then no new version is made.                            *)
(***************************************************************************)
TrivialResolution(won, lost) ==
    Revision(trivialMerge(won.vec, lost.vec), won.body, won.deleted,
             (won.dropped \cup lost.dropped \cup lost.body) \ won.body)

MergedResolution(won, lost, time) ==
    LET body == won.body \cup lost.body
    IN  Revision(merge(won.vec, lost.vec, time), body, FALSE,
                 (won.dropped \cup lost.dropped) \ body)

\* Both current versions are seen before the new one is stamped; one that is
\* refused makes the merge fail, as do two of one author.  All that a failed
\* merge leaves behind is a clock that has moved on.  Both versions were accepted
\* before, or are the database's own, and no mode of the runs gets there.
MergeStamp(d, won, lost) ==
    LET first == see(clock[d], wall[d], Current(won.vec).time)
        second == see(first.last, wall[d], Current(lost.vec).time)
    IN  [ok |-> first.ok /\ second.ok, time |-> now(second.last, wall[d])]

BadResolve(d, won, lost, merged) ==     \* merges the bodies, not the versions
    /\ current' = [current EXCEPT ![d] =
           IF merged THEN [TrivialResolution(won, lost) EXCEPT !.body = @ \cup lost.body]
           ELSE TrivialResolution(won, lost)]
    /\ merges' = IF merged THEN merges + 1 ELSE merges
    /\ UNCHANGED clock

Resolve(d, won, lost, merged) ==
    IF merged /\ won.body \cup lost.body # won.body
    THEN \E stamp \in {MergeStamp(d, won, lost)} :
            /\ stamp.ok /\ CanMerge(won.vec, lost.vec)
            /\ current' = [current EXCEPT ![d] = MergedResolution(won, lost, stamp.time)]
            /\ clock' = [clock EXCEPT ![d] = stamp.time]
            /\ merges' = merges + 1
    ELSE /\ current' = [current EXCEPT ![d] = TrivialResolution(won, lost)]
         /\ UNCHANGED <<clock, merges>>

\* The resolver that every database agrees on: the later version wins.
Later(d, r, s) ==
    LET x == Current(makeAbsolute(r.vec, d))
        y == Current(makeAbsolute(s.vec, d))
    IN  x.time > y.time \/ (x.time = y.time /\ x.author > y.author)

resolveConflict(d, e) ==
    LET mine == current[d]
        theirs == remote[d][e]
    IN  /\ theirs.conflicted
        /\ Current(mine.vec) # Current(theirs.vec)
        /\ \E won \in {mine, theirs}, merged \in BOOLEAN :
              LET lost == IF won = mine THEN theirs ELSE mine
              IN  /\ mode.resolver = "latest" => Later(d, won, lost)
                  /\ mode.resolver = "merge" => merged
                  /\ merged => merges < mode.merges
                  /\ Resolve(d, won, lost, merged)
        /\ remote' = [remote EXCEPT ![d][e].conflicted = FALSE]
        /\ UNCHANGED <<wall, edits, refused, purged, mode>>

-----------------------------------------------------------------------------
\* purgeDocument: the document is forgotten, with all that is known of it.
purgeDocument(d) ==
    /\ mode.purges /\ exists(current[d])
    /\ current' = [current EXCEPT ![d] = NoRevision]
    /\ purged' = purged \cup current[d].body \cup current[d].dropped
    /\ remote' = [remote EXCEPT ![d] = [e \in Databases |-> NoRevision]]
    /\ UNCHANGED <<wall, clock, edits, merges, refused, mode>>

\* The database is closed and opened again; its clock starts from nothing.
Reopen(d) ==
    /\ mode.reopens /\ clock[d] # none
    /\ clock' = [clock EXCEPT ![d] = none]
    /\ UNCHANGED <<current, remote, wall, edits, merges, refused, purged, mode>>

Tick(d) ==
    /\ wall[d] < mode.walls
    /\ wall' = [wall EXCEPT ![d] = @ + 1]
    /\ UNCHANGED <<current, remote, clock, edits, merges, refused, purged, mode>>

Replicate == \E d, e \in Databases : Pull(d, e) \/ Push(d, e) \/ resolveConflict(d, e)

Next ==
    \/ \E d \in Databases, deleted \in BOOLEAN : putNewRevision(d, deleted)
    \/ Replicate
    \/ \E d \in Databases : purgeDocument(d) \/ Reopen(d) \/ Tick(d)

Spec == Init /\ [][Next]_vars

\* Continuous replication keeps pulling and pushing, conflicts are resolved and
\* time passes.  (Only asked of the behaviours that Converges is about.)
FairSpec ==
    /\ Spec
    /\ WF_vars(mode.resolver = "latest" /\ Replicate)
    /\ WF_vars(mode.resolver = "latest" /\ \E d \in Databases : Tick(d))

-----------------------------------------------------------------------------
Absolute(d) == makeAbsolute(current[d].vec, d)

Stored(d) == {r \in {current[d]} \cup {remote[d][e] : e \in Databases} : exists(r)}

\* Revisions are well formed and the clocks are numbers.
TypeOK ==
    /\ mode \in ModeType
    /\ \A d \in Databases : clock[d] \in Nat /\ wall[d] \in 1 .. mode.walls
    /\ edits \in 0 .. mode.edits /\ merges \in 0 .. mode.merges
    /\ purged \subseteq 1 .. edits
    /\ \A d \in Databases : ~current[d].conflicted
    /\ \A d \in Databases : \A r \in Stored(d) :
          /\ r.body \subseteq 1 .. edits /\ r.dropped \subseteq 1 .. edits
          /\ \A x \in Versions(r.vec) :
                validTime(x.time) /\ x.author \in (Databases \cup {kMe}) \ {d}

(***************************************************************************)
(* Every vector a database stores would pass validate(), which release     *)
(* builds run only when one is read back; and the text form of a "rev"     *)
(* message and the stored binary form both bring back the vector that was  *)
(* written, merged versions included.                                      *)
(***************************************************************************)
VectorsValid ==
    /\ TypeOK
    /\ \A d \in Databases : \A r \in Stored(d) :
          /\ validate(r.vec)
          /\ History(RevMessage(r.vec)) = r.vec
          /\ readBinary(asBinary(r.vec)) = r.vec

(***************************************************************************)
(* Two databases whose revisions compare as the same have the same body:   *)
(* the replicator never sends either of them to the other again.           *)
(***************************************************************************)
SameVersionSameBody ==
    \A d, e \in Databases :
        compareTo(Absolute(d), Absolute(e)) = kSame =>
            current[d].body = current[e].body /\ current[d].deleted = current[e].deleted

(***************************************************************************)
(* Every revision pulled from a remote and not marked as a conflict has    *)
(* been taken into the current one, or was dropped from it on purpose.     *)
(***************************************************************************)
NothingForgotten ==
    \A d, e \in Databases :
        exists(remote[d][e]) /\ ~remote[d][e].conflicted =>
            remote[d][e].body \subseteq current[d].body \cup current[d].dropped \cup purged

(***************************************************************************)
(* No edit is lost: a revision is never overwritten by one that does not   *)
(* know its edits, and none that was pulled is forgotten.                  *)
(***************************************************************************)
NoEditIsLost ==
    []NothingForgotten /\ [][\A d \in Databases :
           exists(current'[d]) =>
               current[d].body \subseteq current'[d].body \cup current'[d].dropped \cup purged]_vars

(***************************************************************************)
(* Resolving a conflict leaves every author of the two vectors with at     *)
(* least the later of its two times, so the result is newer than both.     *)
(***************************************************************************)
ResolvedIsNewer ==
    [][\A d, e \in Databases :
           /\ remote[d][e].conflicted /\ ~remote'[d][e].conflicted
           /\ remote'[d][e].vec = remote[d][e].vec
           => \A x \in Versions(current[d].vec) \cup Versions(remote[d][e].vec) :
                  timeOfAuthor(current'[d].vec, x.author) >= x.time]_vars

(***************************************************************************)
(* When all databases agree on which of two versions wins, and keep        *)
(* replicating, a client and its remote end up with the same document,     *)
(* unless one of them has refused what the other has, for a timestamp too  *)
(* far ahead of its wall clock: that revision is not sent again.           *)
(***************************************************************************)
RefusedAt(d, e) == \E x \in refused : {x.from, x.to} = {d, e} /\ x.vec = current[x.from].vec

Converges ==
    mode.resolver = "latest" =>
        <>[](\A r \in mode.remotes : current[r[1]].body = current[r[2]].body \/ RefusedAt(r[1], r[2]))
=============================================================================
