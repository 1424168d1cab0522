--------------------------- MODULE CheckpointSync ---------------------------
(***************************************************************************)
(* How a Replicator keeps its checkpoint in two places, the local database *)
(* and the peer, and decides from the two what is still to be pushed and   *)
(* pulled: connecting and validating, reading local and remote changes,    *)
(* pushing and pulling revisions, and saving the checkpoint with a         *)
(* compare-and-swap on the peer - while either side crashes, messages of a *)
(* dead connection arrive late, and a database is restored from a backup.  *)
(*                                                                         *)
(* A database is the sequence of revisions added to it: sequence number n  *)
(* is the n-th.  Every revision is of a document of its own: what a later  *)
(* revision of a document does to an earlier one is abstracted away.       *)
(* Remote sequences are integers (module Checkpoint shows that their order *)
(* is total too); 0 is the null one.                                       *)
(***************************************************************************)
EXTENDS Naturals, Sequences, FiniteSets

CONSTANTS Revs,          \* all revisions there can be
          Refused,       \* those that the other side permanently refuses
          Faults,        \* what may go wrong for good: see `faults'
          MaxSessions,   \* bound on the number of connections
          MaxGen,        \* bound on the saves of the remote checkpoint
          None           \* no checkpoint, request or backup

ASSUME RefusedAssumption == Refused \subseteq Revs
(* With both databases restored the two checkpoints can agree on something *)
(* that is no longer true.                                                 *)
ASSUME FaultsAssumption ==
    \A f \in Faults : f \subseteq {"local", "remote", "commit"} /\ ~({"local", "remote"} \subseteq f)

VARIABLES
    \* The local database, and the peer's:
    localLog, synced, localCkpt,   \* `synced': revisions marked as on the peer
    remoteLog, remoteCkpt,         \* remoteCkpt = [gen, json]; gen 0: there is none
    \* The Replicator in memory:
    phase,        \* offline | validating | running
    ckpt, dirty,  \* the Checkpoint, and whether it changed since the last save
    valid, maxRead, sent, acked, toMark,   \* Pusher and ChangesFeed
    lastAdded, missing,                    \* Puller's RemoteSequenceSet
    received, revID, toSave,               \* the checkpoint fields of SubReplicator
    getReq, setReq,                        \* outstanding getCheckpoint, setCheckpoint
    \* The environment:
    fresh, sessions, late, localBackup, remoteBackup,
    faults        \* "local", "remote": that database may be restored from a backup;
                  \* "commit": the Inserter's transactions may fail

disk == <<localLog, synced, localCkpt>>
peer == <<remoteLog, remoteCkpt>>
live == <<phase, ckpt, dirty>>
push == <<valid, maxRead, sent, acked, toMark>>
pull == <<lastAdded, missing>>
saves == <<received, revID, toSave, getReq, setReq>>
backups == <<localBackup, remoteBackup, faults>>
env == <<fresh, sessions, late, backups>>
vars == <<disk, peer, live, push, pull, saves, env>>

-----------------------------------------------------------------------------
Completions == {seqs \in SUBSET Nat : 0 \in seqs /\ IsFiniteSet(seqs)}
Checkpoints == [completed : Completions, remote : Nat]
ASSUME NoneAssumption == None \notin Checkpoints
NewCheckpoint == [completed |-> {0}, remote |-> 0]

LocalMinSequence(c) == CHOOSE n \in c.completed : n + 1 \notin c.completed /\ 0 .. n \subseteq c.completed

(* Checkpoint::validateWith(): what it leaves, and whether it returns true.*)
(* Definitions named Bad... are plausible mistakes in the definition that  *)
(* follows them; they show that the properties would notice.               *)
BadValidated(c, other) ==
    [completed |-> c.completed \cap other.completed, remote |-> c.remote]

Validated(c, other) ==
    [completed |-> c.completed \cap other.completed,
     remote    |-> IF other.remote < c.remote THEN other.remote ELSE c.remote]

Matches(c, other) == c.completed = other.completed /\ Validated(c, other).remote = c.remote

Revisions(log) == {log[n] : n \in DOMAIN log}
OnPeer(r) == r \in Revisions(remoteLog) \cup Refused
OnLocal(r) == r \in Revisions(localLog) \cup Refused

(* RemoteSequenceSet::since(). *)
Since(added, seqs) ==
    IF seqs = {} THEN added ELSE (CHOOSE n \in seqs : \A m \in seqs : n <= m) - 1

Init ==
    /\ localLog = << >> /\ synced = {} /\ localCkpt = None
    /\ remoteLog = << >> /\ remoteCkpt = [gen |-> 0, json |-> NewCheckpoint]
    /\ phase = "offline" /\ ckpt = NewCheckpoint /\ dirty = FALSE
    /\ valid = TRUE /\ maxRead = 0 /\ sent = {} /\ acked = {} /\ toMark = {}
    /\ lastAdded = 0 /\ missing = {}
    /\ received = FALSE /\ revID = 0 /\ toSave = None /\ getReq = None /\ setReq = None
    /\ fresh = Revs /\ sessions = 0 /\ late = None
    /\ localBackup = None /\ remoteBackup = None /\ faults \in Faults

-----------------------------------------------------------------------------
(* The applications on either side add documents. *)
EditLocal(r) ==
    /\ r \in fresh
    /\ fresh' = fresh \ {r}
    /\ localLog' = Append(localLog, r)
    /\ UNCHANGED <<synced, localCkpt, peer, live, push, pull, saves, sessions, late, backups>>

EditRemote(r) ==
    /\ r \in fresh
    /\ fresh' = fresh \ {r}
    /\ remoteLog' = Append(remoteLog, r)
    /\ UNCHANGED <<disk, remoteCkpt, live, push, pull, saves, sessions, late, backups>>

(* startReplicating(): the Pusher and Puller start from checkpoint c. *)
StartReplicating(c) ==
    /\ phase' = "running"
    /\ maxRead' = LocalMinSequence(c)
    /\ lastAdded' = c.remote

(* The connection opens: getLocalCheckpoint() and getCollections().        *)
Connect ==
    /\ phase = "offline" /\ sessions < MaxSessions
    /\ phase' = "validating"
    /\ sessions' = sessions + 1
    /\ ckpt' = IF localCkpt = None THEN NewCheckpoint ELSE localCkpt
    /\ dirty' = FALSE /\ valid' = TRUE
    /\ sent' = {} /\ acked' = {} /\ toMark' = {} /\ missing' = {}
    /\ received' = FALSE /\ revID' = 0 /\ toSave' = None /\ setReq' = None
    /\ getReq' = [refresh |-> FALSE, answer |-> None]
    /\ UNCHANGED <<disk, peer, maxRead, lastAdded, fresh, late, backups>>

(* handleGetCheckpoint() or handleGetCollections() on the peer. *)
PeerGetsCheckpoint ==
    /\ getReq # None /\ getReq.answer = None
    /\ getReq' = [getReq EXCEPT !.answer = remoteCkpt]
    /\ UNCHANGED <<disk, peer, live, push, pull, received, revID, toSave, setReq, env>>

(* The peer answers with an error, other than that it has no checkpoint:   *)
(* gotError(), and the handler returns.  If it was getCollections the      *)
(* session gets no further; if it was a refresh, the save waiting for it   *)
(* is never sent, and saveCompleted() never called.  (getCollections      *)
(* succeeds in the last session, which is to show what then happens.)      *)
GetCheckpointFailed ==
    /\ getReq # None /\ getReq.answer = None
    /\ getReq.refresh \/ sessions < MaxSessions
    /\ getReq' = None
    /\ UNCHANGED <<disk, peer, live, push, pull, received, revID, toSave, setReq, env>>

(* saveCheckpointNow(): sends the checkpoint over revision `rev'. *)
SetCheckpoint(json, rev) == [json |-> json, rev |-> rev, answer |-> "none"]

(* The answer to getCollections(): validateWith(), and start; a save that  *)
(* was waiting for the answer is sent.                                     *)
GotRemoteCheckpoint ==
    LET theirs == getReq.answer
        matches == localCkpt = None \/ Matches(ckpt, theirs.json)
        checked == IF localCkpt = None THEN ckpt ELSE Validated(ckpt, theirs.json)
    IN  /\ getReq # None /\ getReq.answer # None /\ ~getReq.refresh
        /\ received' = TRUE
        /\ revID' = theirs.gen
        /\ getReq' = None
        /\ ckpt' = checked
        /\ dirty' = ~matches
        /\ valid' = matches
        /\ StartReplicating(checked)
        /\ IF toSave # None
           THEN toSave' = None /\ setReq' = SetCheckpoint(toSave, theirs.gen)
           ELSE UNCHANGED <<toSave, setReq>>
        /\ UNCHANGED <<disk, peer, sent, acked, toMark, missing, env>>

-----------------------------------------------------------------------------
(* ChangesFeed::getMoreChanges() (a batch of one): flush the marks, then   *)
(* skip the next sequence if it is completed, or marked as on the peer and *)
(* the checkpoints agreed; else it is pending and is sent.                 *)
Flushed == synced \cup (toMark \cap Revisions(localLog))
Skips(s) == s \in ckpt.completed \/ (valid /\ localLog[s] \in Flushed)

ReadChange ==
    LET s == maxRead + 1
    IN  /\ phase = "running" /\ s \in DOMAIN localLog
        /\ maxRead' = s
        /\ synced' = Flushed /\ toMark' = {}
        /\ IF Skips(s)
           THEN ckpt' = [ckpt EXCEPT !.completed = @ \cup {s}] /\ UNCHANGED sent
           ELSE ckpt' = [ckpt EXCEPT !.completed = @ \ {s}] /\ sent' = sent \cup {s}
        /\ dirty' = TRUE
        /\ UNCHANGED <<localLog, localCkpt, peer, phase, valid, acked, pull, saves, env>>

(* The peer receives a revision, and has it from now on, or had it before, *)
(* or refuses it for good.                                                 *)
PeerHandlesRev(s) ==
    /\ s \in sent
    /\ sent' = sent \ {s} /\ acked' = acked \cup {s}
    /\ remoteLog' = IF OnPeer(localLog[s]) THEN remoteLog ELSE Append(remoteLog, localLog[s])
    /\ UNCHANGED <<disk, remoteCkpt, live, valid, maxRead, toMark, pull, saves, env>>

(* The answer: completedSequence(), and markRevSynced() unless refused. *)
PushCompleted(s) ==
    /\ s \in acked
    /\ acked' = acked \ {s}
    /\ ckpt' = [ckpt EXCEPT !.completed = @ \cup {s}]
    /\ dirty' = TRUE
    /\ toMark' = IF localLog[s] \in Refused THEN toMark ELSE toMark \cup {localLog[s]}
    /\ UNCHANGED <<disk, peer, phase, valid, maxRead, sent, pull, saves, env>>

(* A mistake: the sequence counts as completed though the rev was lost to  *)
(* a transient error.                                                      *)
BadPushFailed(s) ==
    /\ s \in sent /\ sessions < MaxSessions
    /\ sent' = sent \ {s}
    /\ ckpt' = [ckpt EXCEPT !.completed = @ \cup {s}]
    /\ dirty' = TRUE
    /\ UNCHANGED <<disk, peer, phase, valid, maxRead, acked, toMark, pull, saves, env>>

(* A transient error: the sequence stays pending for the whole session.    *)
(* (Not in the last session, which is there to show what then happens.)    *)
PushFailed(s) ==
    /\ s \in sent /\ sessions < MaxSessions
    /\ sent' = sent \ {s}
    /\ UNCHANGED <<disk, peer, live, valid, maxRead, acked, toMark, pull, saves, env>>

(* DBAccess's timer: markRevsSyncedNow(). *)
MarkRevsSynced ==
    /\ toMark # {}
    /\ synced' = Flushed /\ toMark' = {}
    /\ UNCHANGED <<localLog, localCkpt, peer, live, valid, maxRead, sent, acked, pull, saves, env>>

-----------------------------------------------------------------------------
(* The peer announces its next change.  The RevFinder flushes the marks    *)
(* and marks a revision it has as on the peer; else the Puller expects it. *)
(* updateLastSequence() stores since() in the checkpoint.                  *)
UpdateLastSequence(since) ==
    /\ ckpt' = [ckpt EXCEPT !.remote = since]
    /\ dirty' = (dirty \/ since # ckpt.remote)

PullChange ==
    LET n == lastAdded + 1
        have == remoteLog[n] \in Revisions(localLog)
    IN  /\ phase = "running" /\ n \in DOMAIN remoteLog
        /\ lastAdded' = n
        /\ toMark' = {}
        /\ synced' = IF have THEN Flushed \cup {remoteLog[n]} ELSE Flushed
        /\ IF have
           THEN UNCHANGED missing /\ (IF missing = {} THEN UpdateLastSequence(n) ELSE UNCHANGED <<ckpt, dirty>>)
           ELSE missing' = missing \cup {n} /\ UNCHANGED <<ckpt, dirty>>
        /\ UNCHANGED <<localLog, localCkpt, peer, phase, valid, maxRead, sent, acked, saves, env>>

(* The Inserter flushes the marks and adds a revision, marked as on the    *)
(* peer, in one transaction.  (A transient error instead leaves the        *)
(* sequence in _missingSequences.)                                         *)
InsertRev(n) ==
    /\ n \in missing /\ ~OnLocal(remoteLog[n])
    /\ localLog' = Append(localLog, remoteLog[n])
    /\ synced' = Flushed \cup {remoteLog[n]} /\ toMark' = {}
    /\ UNCHANGED <<localCkpt, peer, live, valid, maxRead, sent, acked, pull, saves, env>>

(* A mistake: the checkpoint moves to the sequence that was finished.      *)
BadRevFinished(n) ==
    /\ n \in missing /\ OnLocal(remoteLog[n])
    /\ missing' = missing \ {n}
    /\ UpdateLastSequence(n)
    /\ UNCHANGED <<disk, peer, phase, push, lastAdded, saves, env>>

(* _revsFinished(): completedSequence(). *)
RevFinished(n) ==
    /\ n \in missing /\ OnLocal(remoteLog[n])
    /\ missing' = missing \ {n}
    /\ UpdateLastSequence(Since(lastAdded, missing \ {n}))
    /\ UNCHANGED <<disk, peer, phase, push, lastAdded, saves, env>>

(* The Inserter's transaction fails: the marks that were flushed in it are *)
(* lost, and as the error it gives the revision is not a transient one,    *)
(* _revsFinished() completes the sequence.                                 *)
CommitFailed(n) ==
    /\ "commit" \in faults
    /\ n \in missing /\ ~OnLocal(remoteLog[n])
    /\ missing' = missing \ {n}
    /\ toMark' = {}
    /\ UpdateLastSequence(Since(lastAdded, missing \ {n}))
    /\ UNCHANGED <<disk, peer, phase, valid, maxRead, sent, acked, lastAdded, saves, env>>

-----------------------------------------------------------------------------
(* Checkpointer::save() and _saveCheckpoint(): at most one at a time, and  *)
(* not before the remote checkpoint was received.                          *)
SaveCheckpoint ==
    /\ phase = "running" /\ dirty
    /\ toSave = None /\ setReq = None
    /\ dirty' = FALSE
    /\ IF received
       THEN setReq' = SetCheckpoint(ckpt, revID) /\ UNCHANGED toSave
       ELSE toSave' = ckpt /\ UNCHANGED setReq
    /\ UNCHANGED <<disk, peer, phase, ckpt, push, pull, received, revID, getReq, env>>

(* savePeerCheckpoint() on the peer. *)
Swap(json, rev) ==
    remoteCkpt' = IF rev = remoteCkpt.gen THEN [gen |-> rev + 1, json |-> json] ELSE remoteCkpt

PeerSetsCheckpoint ==
    /\ setReq # None /\ setReq.answer = "none"
    /\ remoteCkpt.gen < MaxGen
    /\ setReq' = [setReq EXCEPT !.answer = IF setReq.rev = remoteCkpt.gen THEN "ok" ELSE "conflict"]
    /\ Swap(setReq.json, setReq.rev)
    /\ UNCHANGED <<disk, remoteLog, live, push, pull, received, revID, toSave, getReq, env>>

(* Another error than a conflict: saveCompleted(), and nothing was saved.  *)
CheckpointNotSaved ==
    /\ setReq # None /\ setReq.answer = "none"
    /\ setReq' = None
    /\ UNCHANGED <<disk, peer, live, push, pull, received, revID, toSave, getReq, env>>

(* A mistake: what is written locally is the checkpoint as it is now.      *)
BadCheckpointSaved ==
    /\ setReq # None /\ setReq.answer = "ok"
    /\ setReq' = None
    /\ revID' = setReq.rev + 1
    /\ synced' = Flushed /\ toMark' = {}
    /\ localCkpt' = ckpt
    /\ UNCHANGED <<localLog, peer, live, valid, maxRead, sent, acked, pull, received, toSave, getReq, env>>

(* The peer saved it: flush the marks and write the same JSON locally. *)
CheckpointSaved ==
    /\ setReq # None /\ setReq.answer = "ok"
    /\ setReq' = None
    /\ revID' = setReq.rev + 1
    /\ synced' = Flushed /\ toMark' = {}
    /\ localCkpt' = setReq.json
    /\ UNCHANGED <<localLog, peer, live, valid, maxRead, sent, acked, pull, received, toSave, getReq, env>>

(* The same, but writing to the local database throws.                     *)
LocalWriteFailed ==
    /\ setReq # None /\ setReq.answer = "ok"
    /\ setReq' = None
    /\ revID' = setReq.rev + 1
    /\ synced' = Flushed /\ toMark' = {}
    /\ UNCHANGED <<localLog, localCkpt, peer, live, valid, maxRead, sent, acked, pull, received, toSave, getReq, env>>

(* A conflict (409): getRemoteCheckpoint(refresh = true), then save again. *)
CheckpointConflict ==
    /\ setReq # None /\ setReq.answer = "conflict"
    /\ setReq' = None
    /\ toSave' = setReq.json
    /\ received' = FALSE
    /\ getReq' = [refresh |-> TRUE, answer |-> None]
    /\ UNCHANGED <<disk, peer, live, push, pull, revID, env>>

(* A mistake: the revision ID that was just received is not used.          *)
BadCheckpointRefreshed ==
    /\ getReq # None /\ getReq.answer # None /\ getReq.refresh
    /\ getReq' = None
    /\ received' = TRUE
    /\ setReq' = SetCheckpoint(toSave, revID) /\ toSave' = None
    /\ UNCHANGED <<disk, peer, live, push, pull, revID, env>>

CheckpointRefreshed ==
    /\ getReq # None /\ getReq.answer # None /\ getReq.refresh
    /\ getReq' = None
    /\ received' = TRUE
    /\ revID' = getReq.answer.gen
    /\ setReq' = SetCheckpoint(toSave, getReq.answer.gen) /\ toSave' = None
    /\ UNCHANGED <<disk, peer, live, push, pull, env>>

-----------------------------------------------------------------------------
(* The connection is lost, or either process crashes.  A setCheckpoint     *)
(* that was on its way may still be handled, even in a later session.      *)
Disconnect ==
    /\ phase # "offline" /\ sessions < MaxSessions
    /\ phase' = "offline"
    /\ ckpt' = NewCheckpoint /\ dirty' = FALSE
    /\ valid' = TRUE /\ maxRead' = 0 /\ sent' = {} /\ acked' = {} /\ toMark' = {}
    /\ lastAdded' = 0 /\ missing' = {}
    /\ received' = FALSE /\ revID' = 0 /\ toSave' = None /\ getReq' = None /\ setReq' = None
    /\ late' \in {late} \cup (IF setReq # None /\ setReq.answer = "none" THEN {setReq} ELSE {})
    /\ UNCHANGED <<disk, peer, fresh, sessions, backups>>

LateSetCheckpoint ==
    /\ late # None
    /\ remoteCkpt.gen < MaxGen
    /\ late' = None
    /\ Swap(late.json, late.rev)
    /\ UNCHANGED <<disk, remoteLog, live, push, pull, saves, fresh, sessions, backups>>

BackUpLocal ==
    /\ "local" \in faults /\ localBackup = None /\ sessions < MaxSessions
    /\ localBackup' = [log |-> localLog, synced |-> synced, ckpt |-> localCkpt]
    /\ UNCHANGED <<disk, peer, live, push, pull, saves, fresh, sessions, late, remoteBackup, faults>>

RestoreLocal ==
    /\ phase = "offline" /\ localBackup # None
    /\ localLog' = localBackup.log
    /\ synced' = localBackup.synced
    /\ localCkpt' = localBackup.ckpt
    /\ localBackup' = None
    /\ UNCHANGED <<peer, live, push, pull, saves, fresh, sessions, late, remoteBackup, faults>>

BackUpRemote ==
    /\ "remote" \in faults /\ remoteBackup = None /\ sessions < MaxSessions
    /\ remoteBackup' = [log |-> remoteLog, ckpt |-> remoteCkpt]
    /\ UNCHANGED <<disk, peer, live, push, pull, saves, fresh, sessions, late, localBackup, faults>>

RestoreRemote ==
    /\ phase = "offline" /\ remoteBackup # None
    /\ remoteLog' = remoteBackup.log
    /\ remoteCkpt' = remoteBackup.ckpt
    /\ remoteBackup' = None
    /\ late' = None
    /\ UNCHANGED <<disk, live, push, pull, saves, fresh, sessions, localBackup, faults>>

-----------------------------------------------------------------------------
Pushing == ReadChange \/ (\E s \in sent : PeerHandlesRev(s)) \/ (\E s \in acked : PushCompleted(s))
Pulling == PullChange \/ (\E n \in missing : InsertRev(n) \/ RevFinished(n))
Saving == SaveCheckpoint \/ PeerSetsCheckpoint \/ CheckpointSaved \/ CheckpointConflict \/ CheckpointRefreshed

Next ==
    \/ \E r \in Revs : EditLocal(r) \/ EditRemote(r)
    \/ Connect
    \/ PeerGetsCheckpoint \/ GotRemoteCheckpoint \/ GetCheckpointFailed
    \/ Pushing \/ (\E s \in sent : PushFailed(s)) \/ MarkRevsSynced
    \/ Pulling \/ (\E n \in missing : CommitFailed(n))
    \/ Saving \/ CheckpointNotSaved \/ LocalWriteFailed
    \/ Disconnect \/ LateSetCheckpoint
    \/ BackUpLocal \/ RestoreLocal \/ BackUpRemote \/ RestoreRemote

Spec == Init /\ [][Next]_vars

(* Every message of a connection that stays up is delivered and answered,  *)
(* the actors run, and the client reconnects.  No fairness for saving the  *)
(* checkpoint (saveSoon() finds the timer's callback just returning).      *)
Fairness ==
    /\ WF_vars(Connect)
    /\ WF_vars(PeerGetsCheckpoint) /\ WF_vars(GotRemoteCheckpoint)
    /\ WF_vars(Pushing) /\ WF_vars(Pulling)
    /\ WF_vars(PeerSetsCheckpoint) /\ WF_vars(CheckpointSaved)
    /\ WF_vars(CheckpointConflict) /\ WF_vars(CheckpointRefreshed)

FairSpec == Spec /\ Fairness
-----------------------------------------------------------------------------
RemoteCheckpoints == [gen : Nat, json : Checkpoints]
SetRequests == [json : Checkpoints, rev : Nat, answer : {"none", "ok", "conflict"}]

(* Type invariant.  Of the requests it says what the code asserts: there   *)
(* is a JSON in every setCheckpoint, and the sequences in flight exist.    *)
TypeOK ==
    /\ localLog \in Seq(Revs) /\ synced \subseteq Revs
    /\ localCkpt \in Checkpoints \cup {None}
    /\ remoteLog \in Seq(Revs) /\ remoteCkpt \in RemoteCheckpoints
    /\ phase \in {"offline", "validating", "running"}
    /\ ckpt \in Checkpoints /\ dirty \in BOOLEAN
    /\ valid \in BOOLEAN /\ maxRead \in Nat
    /\ sent \subseteq DOMAIN localLog /\ acked \subseteq DOMAIN localLog /\ toMark \subseteq Revs
    /\ lastAdded \in Nat /\ missing \subseteq DOMAIN remoteLog
    /\ received \in BOOLEAN /\ revID \in Nat
    /\ toSave \in Checkpoints \cup {None} /\ setReq \in SetRequests \cup {None}
    /\ getReq \in [refresh : BOOLEAN, answer : RemoteCheckpoints \cup {None}] \cup {None}
    /\ fresh \subseteq Revs /\ sessions \in Nat /\ late \in SetRequests \cup {None}
    /\ localBackup \in [log : Seq(Revs), synced : SUBSET Revs, ckpt : Checkpoints \cup {None}] \cup {None}
    /\ remoteBackup \in [log : Seq(Revs), ckpt : RemoteCheckpoints] \cup {None}
    /\ faults \in Faults

(* Every sequence the running Replicator takes for completed is that of a  *)
(* revision the peer has, or refused: "All sequences up to this are        *)
(* pushed".  A checkpoint that claims more loses the user's changes, since *)
(* they are never read again.                                              *)
AllPushed ==
    phase = "running" =>
        \A s \in ckpt.completed \ {0} : s \in DOMAIN localLog /\ OnPeer(localLog[s])

(* That holds of this code unless the peer is restored from a backup.      *)
PushSound == "remote" \notin faults => AllPushed

(* Every remote change up to the checkpoint's remote sequence, "the last   *)
(* one up to which all is pulled", is in the local database, or refused.   *)
AllPulled ==
    phase = "running" =>
        \A n \in 1 .. ckpt.remote : n \in DOMAIN remoteLog /\ OnLocal(remoteLog[n])

(* That holds of this code unless a transaction of the Inserter fails.     *)
PullSound == "commit" \notin faults => AllPulled

(* Checkpointer::write: "It's important that the saved data be the same as *)
(* what was saved on the remote peer", though the checkpoint may change,   *)
(* and late requests may arrive, between the one save and the other.       *)
SavedAlike ==
    [][localCkpt' # localCkpt /\ localBackup' = localBackup => localCkpt' = remoteCkpt.json]_vars

(* Whatever was lost, repeated or left half-done in earlier sessions, a    *)
(* connection that stays up, without transient errors, brings both         *)
(* databases to the same revisions.                                        *)
InSync == (Revisions(localLog) \ Refused) = (Revisions(remoteLog) \ Refused)
EventuallyInSync == <>(sessions = MaxSessions) => <>[]InSync

(* A save waits for an answer that has come already, and was an error.     *)
SaveLost == toSave # None /\ getReq = None

(* A save that began ends, in spite of conflicts with late requests and of *)
(* errors of the peer and of the local database, or the connection is      *)
(* lost - unless the peer answers with an error when, after a conflict, it *)
(* is asked for its checkpoint.  (MaxGen stops the peer from saving.)      *)
SaveEnds ==
    (toSave # None \/ setReq # None)
        ~> ((toSave = None /\ setReq = None) \/ remoteCkpt.gen = MaxGen \/ SaveLost)

(* What saveCheckpointNow() says of a save that failed: "if we don't mark  *)
(* it as saved, the replicator will stay busy".  Every save is marked.     *)
(* This code does not after that error.                                    *)
SaveAlwaysEnds ==
    (toSave # None \/ setReq # None) ~> ((toSave = None /\ setReq = None) \/ remoteCkpt.gen = MaxGen)
=============================================================================
