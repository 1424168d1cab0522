-------------------------- MODULE RemoteSequenceSet --------------------------
(***************************************************************************)
(* The set of remote sequences a Puller still needs, in the order it heard *)
(* of them.  An entry remembers the sequence that was added before it, so  *)
(* that the earliest entry tells how far the pull is complete.             *)
(***************************************************************************)
EXTENDS Naturals

CONSTANT None   \* the end() iterator

NewSet(since) == [entries |-> {}, nextOrder |-> 0, lastAdded |-> since, first |-> None]

Since(set) == IF set.first = None THEN set.lastAdded
              ELSE (CHOOSE e \in set.entries : e.seq = set.first).prev

(* map::insert() leaves alone an entry that exists already. *)
BadAdd(set, s) ==
    LET entry == [seq |-> s, order |-> set.nextOrder, prev |-> s]   \* _lastAdded is assigned too early
    IN  [entries   |-> set.entries \cup {entry},
         nextOrder |-> set.nextOrder + 1,
         lastAdded |-> s,
         first     |-> IF set.entries = {} THEN s ELSE set.first]

Add(set, s) ==
    LET entry == [seq |-> s, order |-> set.nextOrder, prev |-> set.lastAdded]
    IN  [entries   |-> IF \E e \in set.entries : e.seq = s THEN set.entries ELSE set.entries \cup {entry},
         nextOrder |-> set.nextOrder + 1,
         lastAdded |-> s,
         first     |-> IF set.entries = {} THEN s ELSE set.first]

(* findFirst() *)
FirstOf(entries) ==
    IF entries = {} THEN None
    ELSE (CHOOSE e \in entries : \A f \in entries : e.order <= f.order).seq

(* remove(), for each sequence of a set *)
Remove(set, S) ==
    LET rest == {e \in set.entries : e.seq \notin S}
    IN  [set EXCEPT !.entries = rest, !.first = IF @ \in S THEN FirstOf(rest) ELSE @]
=============================================================================
