--------------------------- MODULE VersionVector ---------------------------
(***************************************************************************)
(* Version vectors (LiteCore/RevTrees/VersionVector.cc and Version.cc):    *)
(* the revision IDs of documents in a version-vector database.  A vector   *)
(* is a sequence of versions, each a logical time and the author that      *)
(* stamped it.  The first is the current one; after a merge the next n - 1 *)
(* are the versions that were merged; the rest are older ones.             *)
(*                                                                         *)
(* A SourceID is a number.  0 is kMeSourceID, "*": a database stores its   *)
(* own versions under that name and puts its real ID in when it sends one. *)
(***************************************************************************)
EXTENDS HybridClock, Sequences, SequencesExt

kMe == 0

kSame == "same"
kOlder == "older"
kNewer == "newer"
kConflicting == "conflicting"

Version(time, author) == [time |-> time, author |-> author]
Vector(vers, n) == [vers |-> vers, n |-> n]
EmptyVector == Vector(<<>>, 0)

IsEmpty(v) == v.vers = <<>>
Current(v) == v.vers[1]
Versions(v) == ToSet(v.vers)
Authors(v) == {x.author : x \in Versions(v)}
Merges(v) == SubSeq(v.vers, 2, v.n)

\* findPeerIter: where the author first appears, or 0.
FindPeer(v, author) == SelectInSeq(v.vers, LAMBDA x : x.author = author)

timeOfAuthor(v, author) ==
    LET i == FindPeer(v, author) IN IF i = 0 THEN none ELSE v.vers[i].time

(***************************************************************************)
(* validate: no author appears twice, except that a merge may also list an *)
(* earlier version by the current author.                                  *)
(***************************************************************************)
validate(v) ==
    /\ IsEmpty(v) <=> v.n = 0
    /\ \A i, j \in DOMAIN v.vers : i < j /\ v.vers[i].author = v.vers[j].author =>
           i = 1 /\ j <= v.n /\ v.vers[1].time > v.vers[j].time
    /\ Cardinality({j \in DOMAIN v.vers : v.vers[j].author = v.vers[1].author}) <= 2

(***************************************************************************)
(* compareTo, of a vector with one version and with another vector.  Only  *)
(* the two current versions count.                                         *)
(***************************************************************************)
CompareToVersion(v, x) ==
    LET i == FindPeer(v, x.author)
    IN  CASE i = 0 \/ timeOfAuthor(v, x.author) < x.time -> kOlder
          [] i = 1 /\ v.vers[1].time = x.time -> kSame
          [] OTHER -> kNewer

compareTo(v, other) ==
    IF IsEmpty(v) THEN IF IsEmpty(other) THEN kSame ELSE kOlder
    ELSE IF IsEmpty(other) THEN kNewer
    ELSE LET mine == CompareToVersion(v, Current(other))
             theirs == CompareToVersion(other, Current(v))
         IN  IF mine # kSame /\ mine = theirs THEN kConflicting ELSE mine

sharesVersion(v, other) == Versions(v) \cap Versions(other) # {}

(***************************************************************************)
(* _add: a new current version replaces its author's earlier ones, and the *)
(* previous current author keeps only its latest.                          *)
(***************************************************************************)
BadAdd(v, x) ==             \* forgets the second version of a merging author
    Vector(<<x>> \o SelectSeq(v.vers, LAMBDA y : y.author # x.author), 1)

Add(v, x) ==
    LET keep(i) == /\ v.vers[i].author # x.author
                   /\ i = 1 \/ v.vers[i].author # v.vers[1].author
        kept == SelectSeq([i \in DOMAIN v.vers |-> i], keep)
    IN  Vector(<<x>> \o [i \in DOMAIN kept |-> v.vers[kept[i]]], 1)

\* replaceAuthor, by which makeLocal and makeAbsolute rename an author.  They
\* throw when the vector has the new one already: a stored vector never has its
\* own database's ID (TypeOK of VectorDocuments), nor does a sent one have "*".
ReplaceAuthor(v, old, new) ==
    [v EXCEPT !.vers = [i \in DOMAIN v.vers |->
        IF v.vers[i].author = old THEN [v.vers[i] EXCEPT !.author = new]
                                  ELSE v.vers[i]]]

makeAbsolute(v, myID) == ReplaceAuthor(v, kMe, myID)
makeLocal(v, myID) == ReplaceAuthor(v, myID, kMe)

\* Version::byDescendingTimes, with byAuthor as the tiebreaker.
ByDescendingTimes(S) ==
    SetToSortSeq(S, LAMBDA x, y : \/ x.time > y.time
                                  \/ x.time = y.time /\ x.author < y.author)

\* compareBySource as merge uses it: the newest version of each author.
Newest(v1, v2, authors) ==
    {Version(Max({timeOfAuthor(v1, a), timeOfAuthor(v2, a)}), a) : a \in authors}

(***************************************************************************)
(* merge: a new version by this database, then the two current versions it *)
(* merges, then the newest version of every other author.  The caller has  *)
(* stamped the new version with a time later than both current ones.       *)
(***************************************************************************)
CanMerge(v1, v2) == Current(v1).author # Current(v2).author

merge(v1, v2, time) ==
    LET conflict == {Current(v1), Current(v2)}
        others == (Authors(v1) \cup Authors(v2)) \ ({kMe} \cup {x.author : x \in conflict})
    IN  Vector(<<Version(time, kMe)>> \o ByDescendingTimes(conflict)
                   \o ByDescendingTimes(Newest(v1, v2, others)), 3)

(***************************************************************************)
(* trivialMerge: the winner's versions brought up to date with the         *)
(* loser's, with no new version.  A winner that is itself a merge stays    *)
(* one if the loser has nothing newer by an author it merged.              *)
(***************************************************************************)
BadTrivialMerge(winner, loser) ==   \* keeps the winner's time for every author
    LET new == {x \in Versions(loser) : x.author \notin Authors(winner)}
    IN  Vector(winner.vers \o ByDescendingTimes(new), winner.n)

BadWinner(winner, loser) == winner  \* the loser's versions are not added

trivialMerge(winner, loser) ==
    LET newest == Newest(winner, loser, Authors(winner) \cup Authors(loser))
        front == SubSeq(winner.vers, 1, winner.n)
        stays == winner.n > 1 /\ \A x \in ToSet(front) :
                     x.author # front[1].author \/ x = front[1] => x \in newest
        current == IF stays THEN front
                   ELSE <<CHOOSE x \in newest : x.author = Current(winner).author>>
    IN  Vector(current \o ByDescendingTimes(
                   {x \in newest : \A i \in DOMAIN current : current[i].author # x.author}),
               Len(current))

mergesSameVersions(v, other) ==
    /\ v.n > 1 /\ other.n > 1
    /\ ToSet(Merges(v)) = ToSet(Merges(other))

-----------------------------------------------------------------------------
(***************************************************************************)
(* How a vector travels.  Its text separates the versions by commas, with  *)
(* a semicolon after the current and merged ones, left out after a single  *)
(* version: `semi` is the version that it follows, 0 when there is none.   *)
(***************************************************************************)
writeASCII(v) ==
    [vers |-> v.vers, semi |-> IF v.n < Len(v.vers) \/ v.n > 1 THEN v.n ELSE 0]

\* Without a semicolon all versions are current.
readASCII(text) == Vector(text.vers, IF text.semi = 0 THEN Len(text.vers) ELSE text.semi)

\* A "rev" message has the first version as its revision, and as its history
\* what follows that version and the mark after it, which may be the semicolon.
RevMessage(v) ==
    LET text == writeASCII(v)
    IN  [rev     |-> Head(text.vers),
         history |-> Tail(text.vers),
         semi    |-> IF text.semi > 1 THEN text.semi - 1 ELSE 0]

\* RevToInsert::history puts the two together again, with a comma when there is
\* a semicolon further on and with a semicolon when not, and readASCII reads it.
History(m) ==
    readASCII([vers |-> <<m.rev>> \o m.history,
               semi |-> IF m.history = << >> THEN 0
                        ELSE IF m.semi > 0 THEN m.semi + 1 ELSE 1])

\* The sign-preserving shift of each time that goes into the binary form.
compress(i) == IF i % CounterMod # 0 THEN 2 * i + 1 ELSE i \div (CounterMod \div 2)
decompress(i) == IF i % 2 = 1 THEN i \div 2 ELSE i * (CounterMod \div 2)

\* asBinary: the first time and then the differences between neighbours.
asBinary(v) ==
    [i \in DOMAIN v.vers |->
        [time    |-> compress(IF i = 1 THEN v.vers[1].time
                              ELSE v.vers[i - 1].time - v.vers[i].time),
         author  |-> v.vers[i].author,
         current |-> i <= v.n]]

\* readBinary: the running difference of the times read.
readBinary(b) ==
    LET time[i \in DOMAIN b] ==
            IF i = 1 THEN decompress(b[1].time) ELSE time[i - 1] - decompress(b[i].time)
    IN  Vector([i \in DOMAIN b |-> Version(time[i], b[i].author)],
               Cardinality({i \in DOMAIN b : b[i].current}))
=============================================================================
