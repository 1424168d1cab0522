------------------------------ MODULE MCPusher ------------------------------
(* Small instances of Pusher. *)
EXTENDS Pusher, TLC

Symmetry == Permutations(Docs)

(* What became of a revision that is superseded and done with decides      *)
(* nothing any more, nor does the position of a reader that has finished.  *)
(* After the feed has failed the invariants only say that the variables    *)
(* have their types, which PusherProofs shows, and no step leaves there.   *)
Matters(s) == s <= Len(log) /\ (Current(s) \/ s \in Working \cup HeldBack \cup Elements(toRetry))
View ==
    IF feedFailed THEN <<"failed">>
    ELSE <<db, feed, flags, mailbox, docs, revs, toRetry, mightRetry, pc, todo, kept, completed,
           IF pc = "observing" THEN start ELSE 0,
           [s \in Revs |-> IF Matters(s) THEN <<fate[s], s \in retryCount, s \in noDelta>>
                                         ELSE <<fate[s] \in {"transient", "dropped"}>>]>>
=============================================================================
