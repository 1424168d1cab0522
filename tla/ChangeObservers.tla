--------------------------- MODULE ChangeObservers --------------------------
(***************************************************************************)
(* What SequenceTracker promises to the observers of a collection, without *)
(* its list of changes: each observer has a set of documents that changed  *)
(* and that it has not read yet, and is called back when that set stops    *)
(* being empty.                                                            *)
(***************************************************************************)
CONSTANTS Docs, Observers

VARIABLES latest,     \* the state of each document, as the collection has it
          observers,  \* the observers there are
          unread,     \* what each has still to read
          called      \* those called back since they last were up to date

vars == <<latest, observers, unread, called>>

Init ==
    /\ observers = {}
    /\ unread = [n \in Observers |-> {}]
    /\ called = {}

AddObserver(n) ==
    /\ n \in Observers \ observers
    /\ observers' = observers \cup {n}
    /\ UNCHANGED <<latest, unread, called>>

RemoveObserver(n) ==
    /\ n \in observers
    /\ observers' = observers \ {n}
    /\ unread' = [unread EXCEPT ![n] = {}]
    /\ called' = called \ {n}
    /\ UNCHANGED latest

(* Some documents change.  Every observer that was up to date is called    *)
(* back.  Others may be called back again, though the comment on their     *)
(* callback says `once': CalledOnce in SequenceTracker is about that.      *)
Change(docs) ==
    /\ \A d \in Docs \ docs : latest'[d] = latest[d]
    /\ unread' = [n \in Observers |-> IF n \in observers THEN unread[n] \cup docs ELSE unread[n]]
    /\ called \cup {n \in observers : unread[n] = {}} \subseteq called'
    /\ called' \subseteq called \cup observers
    /\ UNCHANGED observers

(* An observer reads some of what it has not read yet. *)
Read(n, docs) ==
    /\ n \in observers
    /\ unread' = [unread EXCEPT ![n] = @ \ docs]
    /\ called' = IF unread[n] \subseteq docs THEN called \ {n} ELSE called
    /\ UNCHANGED <<latest, observers>>

Next ==
    \/ \E n \in Observers : AddObserver(n) \/ RemoveObserver(n)
    \/ \E docs \in (SUBSET Docs) \ {{}} :
           Change(docs) \/ \E n \in observers : docs \subseteq unread[n] /\ Read(n, docs)

Spec == Init /\ [][Next]_vars
=============================================================================
