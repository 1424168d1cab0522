----------------------------- MODULE Checkpoint -----------------------------
(***************************************************************************)
(* The class repl::Checkpoint: what has been pushed (the set of completed  *)
(* local sequences) and pulled (the last remote sequence), its JSON form,  *)
(* and how the local copy is validated against the server's.               *)
(*                                                                         *)
(* `mine' is the live object of a Replicator, and `saved' a JSON document  *)
(* that it, or another Checkpoint of the same class, was saved to.  When   *)
(* the Replicator saves and reads is module CheckpointSync; here the calls *)
(* may come in any order, so that `mine' and `saved' can be any two.       *)
(***************************************************************************)
EXTENDS SequenceSet, ParsedSequenceID

CONSTANTS MaxSeq,       \* bound on local sequences
          RemoteSeqs,   \* the remote sequences a server may give
          Modulus,      \* 2^w, w the width of the integers in JSON
          NoJSON        \* there is no such document

VARIABLES mine,    \* the Checkpoint: _completed, _lastChecked, _remote
          saved    \* the JSON document

checkpointVars == <<mine, saved>>

(* resetLocal() and the default constructor. *)
NewCheckpoint == [completed |-> AddRange(Empty, 0, 1), lastChecked |-> 0, remote |-> NullSequence]

-----------------------------------------------------------------------------
(* localMinSequence(), and the number of uncompleted sequences. *)
LocalMinSequence(c) == Ranges(c.completed)[1][2] - 1

PendingSequenceCount(c) ==
    LET ranges == Ranges(c.completed)
        end(i) == IF i = 0 THEN 0 ELSE ranges[i][2]
        gaps   == FoldLeft(LAMBDA count, i : count + (ranges[i][1] - end(i - 1)), 0,
                           [i \in DOMAIN ranges |-> i])
        last   == end(Len(ranges)) - 1
    IN  IF c.lastChecked > last THEN gaps + (c.lastChecked - last) ELSE gaps

(* toJSON() writes the completed ranges only if there are several; else    *)
(* the end of the one range is enough.                                     *)
BadToJSON(c) ==
    [local     |-> LocalMinSequence(c),
     completed |-> << >>,
     remote    |-> c.remote]

ToJSON(c) ==
    [local     |-> LocalMinSequence(c),
     completed |-> IF Cardinality(DOMAIN c.completed) > 1 THEN Encode(c.completed) ELSE << >>,
     remote    |-> c.remote]

(* readJSON(). *)
BadReadJSON(json) ==
    IF json = NoJSON
    THEN NewCheckpoint
    ELSE [completed   |-> IF json.completed # << >>
                          THEN Read(NewCheckpoint.completed, json.completed, Modulus).set
                          ELSE AddRange(Empty, 1, json.local + 1),
          lastChecked |-> 0,
          remote      |-> json.remote]

ReadJSON(json) ==
    IF json = NoJSON
    THEN NewCheckpoint
    ELSE [completed   |-> IF json.completed # << >>
                          THEN Read(NewCheckpoint.completed, json.completed, Modulus).set
                          ELSE AddRange(NewCheckpoint.completed, 0, json.local + 1),
          lastChecked |-> 0,
          remote      |-> json.remote]

-----------------------------------------------------------------------------
(* The remote sequence that validateWith() leaves, given mine and the      *)
(* server's; a null one of mine is not even compared.                      *)
KeepsRemote(r, other) ==
    \/ r = NullSequence \/ r = other
    \/ Parseable(r) /\ Parseable(other) /\ ~Before(Parsed(other), Parsed(r))

BadValidRemote(r, other) == IF KeepsRemote(r, other) THEN r ELSE other

ValidRemote(r, other) ==
    CASE KeepsRemote(r, other) -> r
      [] ~KeepsRemote(r, other) /\ Parseable(r) /\ Parseable(other) -> other
      [] ~KeepsRemote(r, other) /\ ~(Parseable(r) /\ Parseable(other)) -> NullSequence

(* validateWith(): the checkpoint it leaves, and what it returns. *)
Validated(c, other) ==
    [c EXCEPT !.completed = IF c.completed = other.completed
                            THEN c.completed
                            ELSE Intersection(c.completed, other.completed),
              !.remote = ValidRemote(c.remote, other.remote)]

Matches(c, other) ==
    c.completed = other.completed /\ KeepsRemote(c.remote, other.remote)

-----------------------------------------------------------------------------
CheckpointInit == mine = NewCheckpoint /\ saved = NoJSON

AddPendingSequence(s) ==
    /\ mine' = [mine EXCEPT !.lastChecked = Max({@, s}),
                            !.completed = RemoveSeq(@, s)]
    /\ UNCHANGED saved

CompletedSequence(s) ==
    /\ mine' = [mine EXCEPT !.completed = AddSeq(@, s)]
    /\ UNCHANGED saved

AddPendingSequences(revs, first, last) ==
    /\ last >= mine.lastChecked   \* asserted by the code
    /\ mine' = [mine EXCEPT !.lastChecked = last,
                            !.completed = FoldSet(LAMBDA s, m : RemoveSeq(m, s),
                                                  AddRange(@, first, last + 1), revs)]
    /\ UNCHANGED saved

SetRemoteMinSequence(r) ==
    /\ mine' = [mine EXCEPT !.remote = r]
    /\ UNCHANGED saved

Save == saved' = ToJSON(mine) /\ UNCHANGED mine

ReadSaved == mine' = ReadJSON(saved) /\ UNCHANGED saved

ValidateWithSaved == mine' = Validated(mine, ReadJSON(saved)) /\ UNCHANGED saved

CheckpointNext ==
    \/ \E s \in 1 .. MaxSeq : AddPendingSequence(s) \/ CompletedSequence(s)
    \/ \E last \in 1 .. MaxSeq : \E first \in 1 .. last : \E revs \in SUBSET (first .. last) :
          AddPendingSequences(revs, first, last)
    \/ \E r \in RemoteSeqs : SetRemoteMinSequence(r)
    \/ Save \/ ReadSaved \/ ValidateWithSaved

CheckpointSpec == CheckpointInit /\ [][CheckpointNext]_checkpointVars
-----------------------------------------------------------------------------
JSONs == {NoJSON} \cup [local : 0 .. MaxSeq, completed : Seq(0 .. MaxSeq + 1), remote : RemoteSeqs]

(* Type invariant. *)
CheckpointTypeOK ==
    /\ Members(mine.completed) \subseteq 0 .. MaxSeq
    /\ mine.lastChecked \in 0 .. MaxSeq
    /\ mine.remote \in RemoteSeqs
    /\ saved \in JSONs

(* localMinSequence(), from which the Pusher starts reading changes, is    *)
(* the largest n with every sequence up to n completed.  It looks at the   *)
(* first range only, so that range must always begin at 0, whatever was    *)
(* marked pending, read from JSON or intersected.  pendingSequenceCount()  *)
(* counts the gaps between the ranges.                                     *)
LocalMinIsLastContiguous ==
    /\ CheckpointTypeOK
    /\ 0 \in Members(mine.completed)
    /\ 0 .. LocalMinSequence(mine) \subseteq Members(mine.completed)
    /\ LocalMinSequence(mine) + 1 \notin Members(mine.completed)
    /\ PendingSequenceCount(mine) =
          Cardinality({s \in 1 .. MaxSeq : /\ s \notin Members(mine.completed)
                                           /\ s <= Max({mine.lastChecked, LastSeq(mine.completed)})})

(* A checkpoint survives being saved and read back, however sparse.        *)
JSONRoundTrips ==
    /\ ReadJSON(ToJSON(mine)).completed = mine.completed
    /\ ReadJSON(ToJSON(mine)).remote = mine.remote

(* validateWith()'s result claims no sequence that one of the two          *)
(* checkpoints does not: it is safe to trust if either of them was, and    *)
(* loses nothing that both agree on.                                       *)
ValidationIsFailsafe ==
    LET other == ReadJSON(saved)
        valid == Validated(mine, other)
    IN  /\ Members(valid.completed) = Members(mine.completed) \cap Members(other.completed)
        /\ valid.remote \in {mine.remote, other.remote, NullSequence}
        /\ valid.remote # NullSequence /\ mine.remote # other.remote =>
              \A r \in {mine.remote, other.remote} :
                  Parseable(r) /\ ~Before(Parsed(r), Parsed(valid.remote))

(* "If _completed or _remote changes in any way because of this method,    *)
(* this method must return false": the Pusher trusts the remote ancestors  *)
(* stored with documents unless it is told of a mismatch.                  *)
ChangeIsReported ==
    LET other == ReadJSON(saved)
    IN  Validated(mine, other) # mine => ~Matches(mine, other)
=============================================================================
