------------------------ MODULE CheckpointSyncProofs ------------------------
(***************************************************************************)
(* The checkpoint protocol is safe for any number of revisions, sessions   *)
(* and saves.  In three layers, each resting on the one before: the types  *)
(* and the control state; that what counts as pushed is on the peer; that  *)
(* what counts as pulled is in the local database.                         *)
(***************************************************************************)
EXTENDS CheckpointSync, TLAPS, FiniteSetTheorems, NaturalsInduction, WellFoundedInduction

-----------------------------------------------------------------------------
(* A non-empty set of natural numbers has a least element. *)
LEMMA LeastNatural ==
    ASSUME NEW T \in SUBSET Nat, T # {}
    PROVE  \E d \in T : \A e \in T : d <= e
  <1> DEFINE R == OpToRel(<, Nat)
  <1>1. IsWellFoundedOn(R, Nat)
    BY NatLessThanWellFounded
  <1>2. \A x, y \in Nat : x < y => <<x, y>> \in R
    BY DEF OpToRel
  <1> HIDE DEF R
  <1>3. PICK d \in T : \A y \in T : ~(<<y, d>> \in R)
    <2>1. \E x \in T : \A y \in T : ~(<<y, x>> \in R)
      BY <1>1, WFMin
    <2>2. QED BY <2>1
  <1>4. ASSUME NEW e \in T PROVE d <= e
    <2>1. e \in Nat /\ d \in Nat
      OBVIOUS
    <2>2. ~(e < d)
      BY <1>2, <1>3, <2>1, Zenon
    <2>3. QED BY <2>1, <2>2
  <1>5. QED BY <1>4

(* A finite set of natural numbers that has 0 has a last contiguous one.   *)
LEMMA LocalMinExists ==
    ASSUME NEW c \in Checkpoints
    PROVE  /\ LocalMinSequence(c) \in c.completed
           /\ LocalMinSequence(c) \in Nat
           /\ 0 .. LocalMinSequence(c) \subseteq c.completed
  <1> DEFINE S == c.completed
  <1>1. S \subseteq Nat /\ 0 \in S /\ IsFiniteSet(S)
    BY DEF Checkpoints, Completions
  <1> HIDE DEF S
  <1>2. PICK k \in Nat : k = Cardinality(S)
    BY <1>1, FS_CardinalityType
  <1>3. ~(0 .. k \subseteq S)
    <2>1. IsFiniteSet(0 .. k) /\ Cardinality(0 .. k) = k + 1
      BY FS_Interval
    <2>2. 0 .. k \subseteq S => Cardinality(0 .. k) <= k
      BY <1>1, <1>2, FS_Subset
    <2>3. QED BY <2>1, <2>2
  <1>4. PICK m \in Nat \ S : \A e \in Nat \ S : m <= e
    <2>1. Nat \ S # {}
      BY <1>3
    <2>2. QED BY <2>1, LeastNatural
  <1>5. m - 1 \in S /\ (m - 1) + 1 \notin S /\ 0 .. (m - 1) \subseteq S
    <2>1. m # 0
      BY <1>1, <1>4
    <2>2. m - 1 \in Nat /\ m - 1 \in S
      BY <2>1, <1>4
    <2>3. ASSUME NEW i \in 0 .. (m - 1) PROVE i \in S
      BY <1>4, <2>3
    <2>4. QED BY <2>2, <2>3, <1>4
  <1>6. QED BY <1>1, <1>5 DEF LocalMinSequence, S

LEMMA SinceBound ==
    ASSUME NEW added \in Nat, NEW seqs \in SUBSET (Nat \ {0})
    PROVE  /\ Since(added, seqs) \in Nat
           /\ seqs = {} => Since(added, seqs) = added
           /\ \A n \in seqs : Since(added, seqs) < n
  <1>1. CASE seqs = {}
    BY <1>1 DEF Since
  <1>2. CASE seqs # {}
    <2>1. PICK d \in seqs : \A e \in seqs : d <= e
      BY <1>2, LeastNatural
    <2> DEFINE d0 == CHOOSE n \in seqs : \A m \in seqs : n <= m
    <2>2. d0 \in seqs /\ \A m \in seqs : d0 <= m
      BY <2>1
    <2>3. Since(added, seqs) = d0 - 1
      BY <1>2 DEF Since
    <2> HIDE DEF d0
    <2>4. QED BY <1>2, <2>2, <2>3
  <1>3. QED BY <1>1, <1>2

LEMMA NewCheckpointType == NewCheckpoint \in Checkpoints
  <1>1. IsFiniteSet({0})
    BY FS_Singleton
  <1>2. QED BY <1>1 DEF NewCheckpoint, Checkpoints, Completions

(* The checkpoints an operation makes are checkpoints. *)
LEMMA CheckpointOps ==
    ASSUME NEW c \in Checkpoints, NEW d \in Checkpoints
    PROVE  /\ Validated(c, d) \in Checkpoints
           /\ \A s \in Nat : [c EXCEPT !.completed = @ \cup {s}] \in Checkpoints
           /\ \A s \in Nat \ {0} : [c EXCEPT !.completed = @ \ {s}] \in Checkpoints
           /\ \A n \in Nat : [c EXCEPT !.remote = n] \in Checkpoints
  <1>1. c.completed \in Completions /\ d.completed \in Completions
    BY DEF Checkpoints
  <1>2. IsFiniteSet(c.completed) /\ IsFiniteSet(d.completed)
    BY <1>1 DEF Completions
  <1>3. c.completed \cap d.completed \in Completions
    <2>1. IsFiniteSet(c.completed \cap d.completed)
      BY <1>2, FS_Intersection
    <2>2. QED BY <2>1, <1>1 DEF Completions
  <1>4. Validated(c, d) \in Checkpoints
    BY <1>3 DEF Validated, Checkpoints
  <1>5. ASSUME NEW s \in Nat PROVE [c EXCEPT !.completed = @ \cup {s}] \in Checkpoints
    <2>1. IsFiniteSet(c.completed \cup {s})
      BY <1>2, FS_AddElement
    <2>2. c.completed \cup {s} \in Completions
      BY <2>1, <1>1 DEF Completions
    <2>3. QED BY <2>2 DEF Checkpoints
  <1>6. ASSUME NEW s \in Nat \ {0} PROVE [c EXCEPT !.completed = @ \ {s}] \in Checkpoints
    <2>1. IsFiniteSet(c.completed \ {s})
      BY <1>2, FS_RemoveElement
    <2>2. c.completed \ {s} \in Completions
      BY <2>1, <1>1 DEF Completions
    <2>3. QED BY <2>2 DEF Checkpoints
  <1>7. ASSUME NEW n \in Nat PROVE [c EXCEPT !.remote = n] \in Checkpoints
    BY DEF Checkpoints
  <1>8. QED BY <1>4, <1>5, <1>6, <1>7

-----------------------------------------------------------------------------
(* Layer 1: the types, and what goes with each phase of a session. *)
Control ==
    /\ phase # "running" => sent = {} /\ acked = {} /\ toMark = {} /\ missing = {}
                              /\ toSave = None /\ setReq = None
    /\ phase = "offline" => getReq = None
    /\ getReq # None /\ ~getReq.refresh => phase = "validating"
    /\ getReq # None /\ getReq.refresh => phase = "running" /\ toSave \in Checkpoints
    /\ phase = "validating" /\ localCkpt = None => ckpt = NewCheckpoint
    /\ phase = "validating" /\ localCkpt # None => ckpt = localCkpt
    /\ missing \subseteq 1 .. lastAdded
    /\ "local" \notin faults => localBackup = None
    /\ "remote" \notin faults => remoteBackup = None

TypeInv == TypeOK /\ Control

LEMMA TypeInit == Init => TypeInv
  <1> SUFFICES ASSUME Init PROVE TypeInv
    OBVIOUS
  <1>1. << >> \in Seq(Revs)
    OBVIOUS
  <1>2. [gen |-> 0, json |-> NewCheckpoint] \in RemoteCheckpoints
    BY NewCheckpointType DEF RemoteCheckpoints
  <1>3. TypeOK
    BY <1>1, <1>2, NewCheckpointType DEF Init, TypeOK
  <1>4. Control
    BY DEF Init, Control
  <1>5. QED BY <1>3, <1>4 DEF TypeInv

LEMMA LogFacts ==
    ASSUME NEW log \in Seq(Revs), NEW r \in Revs
    PROVE  /\ Append(log, r) \in Seq(Revs)
           /\ DOMAIN log \subseteq DOMAIN Append(log, r)
           /\ \A n \in DOMAIN log : Append(log, r)[n] = log[n]
           /\ Revisions(Append(log, r)) = Revisions(log) \cup {r}
  <1>1. Append(log, r) \in Seq(Revs) /\ Len(log) \in Nat
    OBVIOUS
  <1>2. DOMAIN log = 1 .. Len(log) /\ DOMAIN Append(log, r) = 1 .. Len(log) + 1
    OBVIOUS
  <1>3. \A n \in 1 .. Len(log) : Append(log, r)[n] = log[n]
    OBVIOUS
  <1>4. Append(log, r)[Len(log) + 1] = r
    OBVIOUS
  <1>5. Revisions(Append(log, r)) = Revisions(log) \cup {r}
    <2>1. ASSUME NEW x \in Revisions(Append(log, r)) PROVE x \in Revisions(log) \cup {r}
      <3>1. PICK n \in 1 .. Len(log) + 1 : x = Append(log, r)[n]
        BY <1>2 DEF Revisions
      <3>2. CASE n = Len(log) + 1
        BY <3>1, <3>2, <1>4
      <3>3. CASE n \in 1 .. Len(log)
        BY <3>1, <3>3, <1>2, <1>3 DEF Revisions
      <3>4. QED BY <3>2, <3>3, <1>1
    <2>2. ASSUME NEW n \in 1 .. Len(log) PROVE log[n] \in Revisions(Append(log, r))
      <3>1. n \in 1 .. Len(log) + 1
        BY <1>1
      <3>2. QED BY <3>1, <1>2, <1>3 DEF Revisions
    <2>3. r \in Revisions(Append(log, r))
      BY <1>1, <1>2, <1>4 DEF Revisions
    <2>4. QED BY <2>1, <2>2, <2>3, <1>2 DEF Revisions
  <1>6. QED BY <1>1, <1>2, <1>3, <1>5

LEMMA LogDomain ==
    ASSUME NEW log \in Seq(Revs)
    PROVE  /\ DOMAIN log \subseteq Nat \ {0}
           /\ \A n \in DOMAIN log : log[n] \in Revs
           /\ Revisions(log) \subseteq Revs
           /\ \A n \in DOMAIN log : log[n] \in Revisions(log)
  BY DEF Revisions

(* What the marks are, and what a step of the Puller makes of them. *)
LEMMA FlushedType ==
    ASSUME TypeOK
    PROVE  Flushed \subseteq Revs
  BY DEF TypeOK, Flushed

LEMMA TypeSessions ==
    ASSUME TypeInv,
           \/ \E r \in Revs : EditLocal(r) \/ EditRemote(r)
           \/ Connect \/ PeerGetsCheckpoint \/ GotRemoteCheckpoint \/ GetCheckpointFailed
           \/ Disconnect \/ LateSetCheckpoint
    PROVE  TypeInv'
  <1> USE DEF TypeInv, TypeOK, disk, peer, live, push, pull, saves, backups, env
  <1>1. ASSUME NEW r \in Revs, EditLocal(r) PROVE TypeInv'
    BY <1>1, LogFacts DEF EditLocal, Control
  <1>2. ASSUME NEW r \in Revs, EditRemote(r) PROVE TypeInv'
    BY <1>2, LogFacts DEF EditRemote, Control
  <1>3. CASE Connect
    <2>1. ckpt' \in Checkpoints
      BY <1>3, NewCheckpointType DEF Connect
    <2>2. TypeOK'
      <3>1. /\ phase' = "validating" /\ sessions' \in Nat
            /\ dirty' = FALSE /\ valid' = TRUE /\ sent' = {} /\ acked' = {} /\ toMark' = {}
            /\ missing' = {} /\ received' = FALSE /\ revID' = 0 /\ toSave' = None /\ setReq' = None
            /\ getReq' \in [refresh : BOOLEAN, answer : RemoteCheckpoints \cup {None}]
        BY <1>3 DEF Connect
      <3>2. UNCHANGED <<disk, peer, maxRead, lastAdded, fresh, late, backups>>
        BY <1>3 DEF Connect
      <3>3. QED BY <3>1, <3>2, <2>1
    <2>3. Control'
      BY <1>3 DEF Connect, Control
    <2>4. QED BY <2>2, <2>3
  <1>4. CASE PeerGetsCheckpoint
    BY <1>4 DEF PeerGetsCheckpoint, Control
  <1>5. CASE GotRemoteCheckpoint
    <2> DEFINE theirs == getReq.answer
               checked == IF localCkpt = None THEN ckpt ELSE Validated(ckpt, theirs.json)
    <2>1. theirs \in RemoteCheckpoints /\ theirs.json \in Checkpoints /\ theirs.gen \in Nat
      BY <1>5 DEF GotRemoteCheckpoint, RemoteCheckpoints
    <2>2. checked \in Checkpoints
      BY <2>1, CheckpointOps
    <2>3. checked.remote \in Nat /\ LocalMinSequence(checked) \in Nat
      BY <2>2, LocalMinExists DEF Checkpoints
    <2>4. /\ phase = "validating" /\ phase' = "running" /\ ckpt' = checked
          /\ dirty' \in BOOLEAN /\ valid' \in BOOLEAN /\ maxRead' \in Nat /\ lastAdded' \in Nat
      <3> DEFINE m == localCkpt = None \/ Matches(ckpt, theirs.json)
      <3>1. m \in BOOLEAN /\ (~m) \in BOOLEAN
        BY DEF Matches
      <3>2. dirty' = ~m /\ valid' = m
        BY <1>5 DEF GotRemoteCheckpoint
      <3> HIDE DEF m
      <3>3. phase = "validating" /\ phase' = "running" /\ ckpt' = checked
        BY <1>5 DEF GotRemoteCheckpoint, StartReplicating, Control
      <3>4. maxRead' = LocalMinSequence(checked) /\ lastAdded' = checked.remote
        BY <1>5 DEF GotRemoteCheckpoint, StartReplicating
      <3> HIDE DEF checked
      <3>5. dirty' \in BOOLEAN /\ valid' \in BOOLEAN
        BY <3>1, <3>2
      <3>6. QED BY <3>3, <3>4, <3>5, <2>3
    <2>5. toSave' \in Checkpoints \cup {None} /\ setReq' \in SetRequests \cup {None}
      <3>1. CASE toSave # None
        <4>1. toSave' = None /\ setReq' = SetCheckpoint(toSave, theirs.gen)
          BY <1>5, <3>1 DEF GotRemoteCheckpoint
        <4>2. QED BY <4>1, <3>1, <2>1 DEF SetCheckpoint, SetRequests
      <3>2. CASE toSave = None
        BY <1>5, <3>2 DEF GotRemoteCheckpoint
      <3>3. QED BY <3>1, <3>2
    <2>6. toSave = None => toSave' = None /\ setReq' = setReq
      BY <1>5 DEF GotRemoteCheckpoint
    <2> HIDE DEF checked
    <2>7. TypeOK'
      BY <1>5, <2>1, <2>2, <2>4, <2>5 DEF GotRemoteCheckpoint
    <2>8. Control'
      BY <1>5, <2>4, <2>6 DEF GotRemoteCheckpoint, Control
    <2>9. QED BY <2>7, <2>8
  <1>6. CASE Disconnect
    BY <1>6, NewCheckpointType DEF Disconnect, Control
  <1>7. CASE LateSetCheckpoint
    BY <1>7 DEF LateSetCheckpoint, Control, Swap, SetRequests, RemoteCheckpoints
  <1>8. CASE GetCheckpointFailed
    BY <1>8 DEF GetCheckpointFailed, Control
  <1>9. QED BY <1>1, <1>2, <1>3, <1>4, <1>5, <1>6, <1>7, <1>8

LEMMA TypePushing ==
    ASSUME TypeInv,
           Pushing \/ (\E s \in sent : PushFailed(s)) \/ MarkRevsSynced
    PROVE  TypeInv'
  <1> USE DEF TypeInv, TypeOK, disk, peer, live, push, pull, saves, backups, env
  <1>1. CASE ReadChange
    <2> DEFINE s == maxRead + 1
    <2>1. s \in Nat \ {0} /\ phase = "running"
      BY <1>1 DEF ReadChange
    <2>2. ckpt' \in Checkpoints
      <3>1. CASE Skips(s)
        BY <1>1, <2>1, <3>1, CheckpointOps DEF ReadChange
      <3>2. CASE ~Skips(s)
        <4>1. ckpt' = [ckpt EXCEPT !.completed = @ \ {s}]
          BY <1>1, <3>2 DEF ReadChange
        <4> HIDE DEF s
        <4>2. QED BY <4>1, <2>1, CheckpointOps
      <3>3. QED BY <3>1, <3>2
    <2>3. sent' \subseteq DOMAIN localLog
      <3>1. s \in DOMAIN localLog /\ sent' \subseteq sent \cup {s}
        BY <1>1 DEF ReadChange
      <3>2. QED BY <3>1
    <2>4. maxRead' \in Nat /\ synced' \subseteq Revs /\ toMark' = {} /\ dirty' = TRUE
      BY <1>1, <2>1, FlushedType DEF ReadChange
    <2>5. UNCHANGED <<localLog, localCkpt, peer, phase, valid, acked, pull, saves, env>>
      BY <1>1 DEF ReadChange
    <2>6. TypeOK'
      BY <2>2, <2>3, <2>4, <2>5
    <2>7. Control'
      BY <2>1, <2>4, <2>5 DEF Control
    <2>8. QED BY <2>6, <2>7
  <1>2. ASSUME NEW s \in sent, PeerHandlesRev(s) PROVE TypeInv'
    <2>1. localLog[s] \in Revs
      BY LogDomain
    <2>2. remoteLog' \in Seq(Revs) /\ DOMAIN remoteLog \subseteq DOMAIN remoteLog'
      <3>1. remoteLog' = remoteLog \/ remoteLog' = Append(remoteLog, localLog[s])
        BY <1>2 DEF PeerHandlesRev
      <3>2. remoteLog \in Seq(Revs)
        OBVIOUS
      <3>3. /\ Append(remoteLog, localLog[s]) \in Seq(Revs)
            /\ DOMAIN remoteLog \subseteq DOMAIN Append(remoteLog, localLog[s])
        BY <2>1, <3>2, LogFacts
      <3>4. QED BY <3>1, <3>2, <3>3
    <2>3. sent' \subseteq sent /\ acked' \subseteq acked \cup {s}
          /\ UNCHANGED <<disk, remoteCkpt, live, valid, maxRead, toMark, pull, saves, env>>
      BY <1>2 DEF PeerHandlesRev
    <2>4. phase = "running"
      BY <1>2 DEF Control
    <2>5. TypeOK'
      BY <2>2, <2>3
    <2>6. Control'
      BY <2>3, <2>4 DEF Control
    <2>7. QED BY <2>5, <2>6
  <1>3. ASSUME NEW s \in acked, PushCompleted(s) PROVE TypeInv'
    <2>1. localLog[s] \in Revs /\ s \in Nat
      BY LogDomain
    <2>2. ckpt' \in Checkpoints
      BY <1>3, <2>1, CheckpointOps DEF PushCompleted
    <2>3. toMark' \subseteq Revs
      BY <1>3, <2>1 DEF PushCompleted
    <2>4. phase = "running"
      BY <1>3 DEF Control
    <2>5. acked' = acked \ {s} /\ dirty' = TRUE
          /\ UNCHANGED <<disk, peer, phase, valid, maxRead, sent, pull, saves, env>>
      BY <1>3 DEF PushCompleted
    <2>6. TypeOK'
      BY <2>2, <2>3, <2>5
    <2>7. Control'
      BY <2>4, <2>5 DEF Control
    <2>8. QED BY <2>6, <2>7
  <1>4. ASSUME NEW s \in sent, PushFailed(s) PROVE TypeInv'
    BY <1>4 DEF PushFailed, Control
  <1>5. CASE MarkRevsSynced
    BY <1>5, FlushedType DEF MarkRevsSynced, Control
  <1>6. QED BY <1>1, <1>2, <1>3, <1>4, <1>5 DEF Pushing

LEMMA TypePulling ==
    ASSUME TypeInv, Pulling \/ (\E n \in missing : CommitFailed(n))
    PROVE  TypeInv'
  <1> USE DEF TypeInv, TypeOK, disk, peer, live, push, pull, saves, backups, env
  <1>1. CASE PullChange
    <2> DEFINE n == lastAdded + 1
    <2>1. n \in Nat \ {0} /\ n \in DOMAIN remoteLog /\ phase = "running" /\ lastAdded' = n
      BY <1>1 DEF PullChange
    <2>2. remoteLog[n] \in Revs
      BY <2>1, LogDomain
    <2>3. synced' \subseteq Revs /\ toMark' = {}
      BY <1>1, <2>2, FlushedType DEF PullChange
    <2>4. missing' \subseteq missing \cup {n}
      BY <1>1 DEF PullChange
    <2>5. ckpt' \in Checkpoints /\ dirty' \in BOOLEAN
      <3>1. \/ ckpt' = ckpt /\ dirty' = dirty
            \/ UpdateLastSequence(n)
        BY <1>1 DEF PullChange
      <3>2. CASE UpdateLastSequence(n)
        BY <2>1, <3>2, CheckpointOps DEF UpdateLastSequence
      <3>3. QED BY <3>1, <3>2
    <2>6. UNCHANGED <<localLog, localCkpt, peer, phase, valid, maxRead, sent, acked, saves, env>>
      BY <1>1 DEF PullChange
    <2>7. missing' \subseteq 1 .. lastAdded'
      <3>1. missing \subseteq 1 .. lastAdded
        BY DEF Control
      <3>2. QED BY <3>1, <2>1, <2>4
    <2>8. TypeOK'
      BY <2>1, <2>3, <2>4, <2>5, <2>6
    <2>9. Control'
      BY <2>1, <2>6, <2>7 DEF Control
    <2>10. QED BY <2>8, <2>9
  <1>2. ASSUME NEW n \in missing, InsertRev(n) PROVE TypeInv'
    <2>1. remoteLog[n] \in Revs
      BY LogDomain
    <2>2. localLog' \in Seq(Revs) /\ DOMAIN localLog \subseteq DOMAIN localLog'
      BY <1>2, <2>1, LogFacts DEF InsertRev
    <2>3. synced' \subseteq Revs /\ toMark' = {}
      BY <1>2, <2>1, FlushedType DEF InsertRev
    <2>4. UNCHANGED <<localCkpt, peer, live, valid, maxRead, sent, acked, pull, saves, env>>
      BY <1>2 DEF InsertRev
    <2>5. TypeOK'
      BY <2>2, <2>3, <2>4
    <2>6. Control'
      BY <2>4 DEF Control
    <2>7. QED BY <2>5, <2>6
  <1>3. ASSUME NEW n \in missing, RevFinished(n) \/ CommitFailed(n) PROVE TypeInv'
    <2>1. missing' = missing \ {n} /\ UpdateLastSequence(Since(lastAdded, missing \ {n}))
          /\ toMark' \in {toMark, {}}
          /\ UNCHANGED <<disk, peer, phase, valid, maxRead, sent, acked, lastAdded, saves, env>>
      BY <1>3 DEF RevFinished, CommitFailed
    <2>2. Since(lastAdded, missing \ {n}) \in Nat
      <3>1. missing \ {n} \subseteq Nat \ {0}
        BY LogDomain
      <3>2. QED BY <3>1, SinceBound
    <2>3. ckpt' \in Checkpoints /\ dirty' \in BOOLEAN
      BY <2>1, <2>2, CheckpointOps DEF UpdateLastSequence
    <2>4. phase = "running"
      BY <1>3 DEF Control
    <2>5. TypeOK'
      BY <2>1, <2>3
    <2>6. Control'
      BY <2>1, <2>4 DEF Control
    <2>7. QED BY <2>5, <2>6
  <1>4. QED BY <1>1, <1>2, <1>3 DEF Pulling

LEMMA TypeSaving ==
    ASSUME TypeInv, Saving \/ CheckpointNotSaved \/ LocalWriteFailed
    PROVE  TypeInv'
  <1> USE DEF TypeInv, TypeOK, disk, peer, live, push, pull, saves, backups, env
  <1>0. setReq # None => setReq.json \in Checkpoints /\ setReq.rev \in Nat /\ phase = "running"
    BY DEF SetRequests, Control
  <1>1. CASE SaveCheckpoint
    <2>1. SetCheckpoint(ckpt, revID) \in SetRequests
      BY DEF SetCheckpoint, SetRequests
    <2>2. phase = "running" /\ dirty' = FALSE
          /\ toSave' \in Checkpoints \cup {None} /\ setReq' \in SetRequests \cup {None}
          /\ (toSave' = toSave \/ toSave' = ckpt)
      BY <1>1, <2>1 DEF SaveCheckpoint
    <2>3. UNCHANGED <<disk, peer, phase, ckpt, push, pull, received, revID, getReq, env>>
      BY <1>1 DEF SaveCheckpoint
    <2>4. TypeOK'
      BY <2>2, <2>3
    <2>5. Control'
      BY <2>2, <2>3 DEF Control
    <2>6. QED BY <2>4, <2>5
  <1>2. CASE PeerSetsCheckpoint
    <2>1. remoteCkpt' \in RemoteCheckpoints
      BY <1>0, <1>2 DEF PeerSetsCheckpoint, Swap, RemoteCheckpoints
    <2>2. setReq' \in SetRequests
      BY <1>2 DEF PeerSetsCheckpoint, SetRequests
    <2>3. UNCHANGED <<disk, remoteLog, live, push, pull, received, revID, toSave, getReq, env>>
      BY <1>2 DEF PeerSetsCheckpoint
    <2>4. phase = "running"
      BY <1>0, <1>2 DEF PeerSetsCheckpoint
    <2>5. TypeOK'
      BY <2>1, <2>2, <2>3
    <2>6. Control'
      BY <2>3, <2>4 DEF Control
    <2>7. QED BY <2>5, <2>6
  <1>3. CASE CheckpointSaved
    BY <1>0, <1>3, FlushedType DEF CheckpointSaved, Control
  <1>4. CASE CheckpointConflict
    BY <1>0, <1>4 DEF CheckpointConflict, Control
  <1>5. CASE CheckpointRefreshed
    <2>1. toSave \in Checkpoints /\ getReq.answer.gen \in Nat
      BY <1>5 DEF CheckpointRefreshed, Control, RemoteCheckpoints
    <2>2. setReq' \in SetRequests
      BY <1>5, <2>1 DEF CheckpointRefreshed, SetCheckpoint, SetRequests
    <2>3. getReq' = None /\ toSave' = None /\ received' = TRUE /\ revID' \in Nat
          /\ UNCHANGED <<disk, peer, live, push, pull, env>>
      BY <1>5, <2>1 DEF CheckpointRefreshed
    <2>4. TypeOK'
      BY <2>2, <2>3
    <2>5. phase = "running"
      BY <1>5 DEF CheckpointRefreshed, Control
    <2>6. QED BY <2>3, <2>4, <2>5 DEF Control
  <1>6. CASE CheckpointNotSaved
    BY <1>6 DEF CheckpointNotSaved, Control
  <1>7. CASE LocalWriteFailed
    BY <1>0, <1>7, FlushedType DEF LocalWriteFailed, Control
  <1>8. QED BY <1>1, <1>2, <1>3, <1>4, <1>5, <1>6, <1>7 DEF Saving

LEMMA TypeBackups ==
    ASSUME TypeInv, BackUpLocal \/ RestoreLocal \/ BackUpRemote \/ RestoreRemote
    PROVE  TypeInv'
  <1> USE DEF TypeInv, TypeOK, disk, peer, live, push, pull, saves, backups, env
  <1>1. CASE BackUpLocal
    BY <1>1 DEF BackUpLocal, Control
  <1>2. CASE RestoreLocal
    BY <1>2 DEF RestoreLocal, Control
  <1>3. CASE BackUpRemote
    BY <1>3 DEF BackUpRemote, Control
  <1>4. CASE RestoreRemote
    BY <1>4 DEF RestoreRemote, Control
  <1>5. QED BY <1>1, <1>2, <1>3, <1>4

LEMMA TypeStep ==
    ASSUME TypeInv, [Next]_vars
    PROVE  TypeInv'
  <1>1. CASE Next
    BY <1>1, TypeSessions, TypePushing, TypePulling, TypeSaving, TypeBackups DEF Next
  <1>2. CASE UNCHANGED vars
    BY <1>2 DEF TypeInv, TypeOK, Control, vars, disk, peer, live, push, pull, saves, backups, env
  <1>3. QED BY <1>1, <1>2

(* Which faults may occur does not change. *)
LEMMA FaultsFixed ==
    ASSUME [Next]_vars
    PROVE  faults' = faults
  BY DEF Next, vars, disk, peer, live, push, pull, saves, backups, env, Pushing, Pulling, Saving,
         EditLocal, EditRemote, Connect, PeerGetsCheckpoint, GotRemoteCheckpoint,
         GetCheckpointFailed, ReadChange, PeerHandlesRev, PushCompleted, PushFailed, MarkRevsSynced, PullChange, InsertRev,
         RevFinished, CommitFailed, SaveCheckpoint, PeerSetsCheckpoint, CheckpointNotSaved,
         CheckpointSaved, LocalWriteFailed, CheckpointConflict, CheckpointRefreshed, Disconnect,
         LateSetCheckpoint, BackUpLocal, RestoreLocal, BackUpRemote, RestoreRemote

LEMMA TypeInvariance == Spec => []TypeInv
  BY TypeInit, TypeStep, PTL DEF Spec

(* The state of the Replicator, the peer and their messages has its type:  *)
(* a setCheckpoint always carries a JSON (the Assert in saveCheckpointNow),*)
(* and every sequence in flight exists.                                    *)
THEOREM TypeCorrect == Spec => []TypeOK
  BY TypeInvariance, PTL DEF TypeInv

-----------------------------------------------------------------------------
(* Logs only grow, unless they are restored. *)
Grows(a, b) ==
    /\ DOMAIN a \subseteq DOMAIN b
    /\ \A n \in DOMAIN a : b[n] = a[n]
    /\ Revisions(a) \subseteq Revisions(b)

LEMMA GrowsAppend ==
    ASSUME NEW log \in Seq(Revs), NEW r \in Revs
    PROVE  Grows(log, log) /\ Grows(log, Append(log, r))
  BY LogFacts DEF Grows

LEMMA LogsGrow ==
    ASSUME TypeInv, [Next]_vars, ~RestoreLocal, ~RestoreRemote
    PROVE  Grows(localLog, localLog') /\ Grows(remoteLog, remoteLog')
  <1> USE DEF TypeInv, TypeOK, disk, peer, live, push, pull, saves, backups, env
  <1>0. Grows(localLog, localLog) /\ Grows(remoteLog, remoteLog)
    BY DEF Grows
  <1>1. ASSUME NEW r \in Revs, EditLocal(r) \/ EditRemote(r)
        PROVE  Grows(localLog, localLog') /\ Grows(remoteLog, remoteLog')
    BY <1>0, <1>1, GrowsAppend DEF EditLocal, EditRemote
  <1>2. ASSUME NEW s \in sent, PeerHandlesRev(s)
        PROVE  Grows(localLog, localLog') /\ Grows(remoteLog, remoteLog')
    <2>1. localLog[s] \in Revs
      BY LogDomain
    <2>2. remoteLog' = remoteLog \/ remoteLog' = Append(remoteLog, localLog[s])
      BY <1>2 DEF PeerHandlesRev
    <2>3. localLog' = localLog
      BY <1>2 DEF PeerHandlesRev
    <2>4. QED BY <1>0, <2>1, <2>2, <2>3, GrowsAppend
  <1>3. ASSUME NEW n \in missing, InsertRev(n)
        PROVE  Grows(localLog, localLog') /\ Grows(remoteLog, remoteLog')
    <2>1. remoteLog[n] \in Revs
      BY LogDomain
    <2>2. QED BY <1>0, <1>3, <2>1, GrowsAppend DEF InsertRev
  <1>4. CASE UNCHANGED <<localLog, remoteLog>>
    BY <1>0, <1>4
  <1>5. CASE \/ Connect \/ PeerGetsCheckpoint \/ GotRemoteCheckpoint \/ GetCheckpointFailed
             \/ Disconnect \/ LateSetCheckpoint
             \/ BackUpLocal \/ BackUpRemote \/ UNCHANGED vars
    BY <1>4, <1>5 DEF Connect, PeerGetsCheckpoint, GotRemoteCheckpoint, GetCheckpointFailed, Disconnect,
                      LateSetCheckpoint, BackUpLocal, BackUpRemote, vars
  <1>6. CASE \/ ReadChange \/ (\E s \in acked : PushCompleted(s))
             \/ (\E s \in sent : PushFailed(s)) \/ MarkRevsSynced
             \/ PullChange \/ (\E n \in missing : RevFinished(n) \/ CommitFailed(n))
    BY <1>4, <1>6 DEF ReadChange, PushCompleted, PushFailed, MarkRevsSynced, PullChange,
                      RevFinished, CommitFailed
  <1>7. CASE Saving \/ CheckpointNotSaved \/ LocalWriteFailed
    BY <1>4, <1>7 DEF Saving, SaveCheckpoint, PeerSetsCheckpoint, CheckpointSaved,
                      CheckpointConflict, CheckpointRefreshed, CheckpointNotSaved, LocalWriteFailed
  <1>8. QED BY <1>1, <1>2, <1>3, <1>5, <1>6, <1>7 DEF Next, Pushing, Pulling

-----------------------------------------------------------------------------
(* Layer 2: what counts as pushed is on the peer, as long as the peer is   *)
(* not restored from a backup.  Checkpoint c is right for local database   *)
(* `log' and remote database `other':                                      *)
Pushed(c, log, other) ==
    \A s \in c.completed \ {0} : s \in DOMAIN log /\ log[s] \in Revisions(other) \cup Refused

(* PushSound alone is not inductive.  It also takes that the marks are     *)
(* true, and that a checkpoint is right wherever the next session may get  *)
(* it from: the local database or its backup (the intersection with the    *)
(* peer's checkpoint claims no more), and the saves on their way there.    *)
PushInv ==
    /\ synced \subseteq Revisions(remoteLog) /\ toMark \subseteq Revisions(remoteLog)
    /\ \A s \in acked : OnPeer(localLog[s])
    /\ localCkpt # None => Pushed(localCkpt, localLog, remoteLog)
    /\ phase = "running" => Pushed(ckpt, localLog, remoteLog)
    /\ toSave # None => Pushed(toSave, localLog, remoteLog)
    /\ setReq # None => Pushed(setReq.json, localLog, remoteLog)
    /\ localBackup # None => localBackup.synced \subseteq Revisions(remoteLog)
    /\ localBackup # None /\ localBackup.ckpt # None
           => Pushed(localBackup.ckpt, localBackup.log, remoteLog)

LEMMA PushedGrows ==
    ASSUME NEW c, NEW a, NEW a2, NEW b, NEW b2,
           Grows(a, a2), Grows(b, b2), Pushed(c, a, b)
    PROVE  Pushed(c, a2, b2)
  BY DEF Pushed, Grows

LEMMA PushedNew ==
    ASSUME NEW a, NEW b
    PROVE  Pushed(NewCheckpoint, a, b)
  BY DEF Pushed, NewCheckpoint

LEMMA PushedLess ==
    ASSUME NEW c, NEW d, NEW a, NEW b, Pushed(c, a, b), d.completed \subseteq c.completed
    PROVE  Pushed(d, a, b)
  BY DEF Pushed

LEMMA PushedMore ==
    ASSUME NEW c \in Checkpoints, NEW s, NEW a, NEW b, Pushed(c, a, b),
           s \in DOMAIN a, a[s] \in Revisions(b) \cup Refused
    PROVE  Pushed([c EXCEPT !.completed = @ \cup {s}], a, b)
  <1>1. [c EXCEPT !.completed = @ \cup {s}].completed = c.completed \cup {s}
    BY DEF Checkpoints
  <1>2. QED BY <1>1 DEF Pushed

LEMMA PushInit == Init => PushInv
  BY DEF Init, PushInv

(* What a step that does not restore a database leaves true. *)
LEMMA PushStable ==
    ASSUME TypeInv, PushInv, [Next]_vars, ~RestoreLocal, ~RestoreRemote
    PROVE  /\ \A c : Pushed(c, localLog, remoteLog) => Pushed(c, localLog', remoteLog')
           /\ \A c, a : Pushed(c, a, remoteLog) => Pushed(c, a, remoteLog')
           /\ \A s \in acked : OnPeer(localLog[s]) /\ OnPeer(localLog[s])'
           /\ Revisions(remoteLog) \subseteq Revisions(remoteLog')
  <1>1. Grows(localLog, localLog') /\ Grows(remoteLog, remoteLog')
    BY LogsGrow
  <1>2. \A a : Grows(a, a)
    BY DEF Grows
  <1>3. ASSUME NEW s \in acked PROVE OnPeer(localLog[s]) /\ OnPeer(localLog[s])'
    BY <1>1 DEF PushInv, OnPeer, Grows, TypeInv, TypeOK
  <1>4. \A c : Pushed(c, localLog, remoteLog) => Pushed(c, localLog', remoteLog')
    BY <1>1, PushedGrows
  <1>5. \A c, a : Pushed(c, a, remoteLog) => Pushed(c, a, remoteLog')
    BY <1>1, <1>2, PushedGrows
  <1>6. QED BY <1>1, <1>3, <1>4, <1>5 DEF Grows

LEMMA PushSessions ==
    ASSUME TypeInv, PushInv, Next, ~RestoreLocal, ~RestoreRemote,
           \/ \E r \in Revs : EditLocal(r) \/ EditRemote(r)
           \/ Connect \/ PeerGetsCheckpoint \/ GotRemoteCheckpoint \/ GetCheckpointFailed
           \/ Disconnect \/ LateSetCheckpoint \/ BackUpLocal \/ BackUpRemote
    PROVE  PushInv'
  <1> USE PushStable DEF PushInv, disk, peer, live, push, pull, saves, backups, env
  <1>1. ASSUME NEW r \in Revs, EditLocal(r) \/ EditRemote(r) PROVE PushInv'
    BY <1>1 DEF EditLocal, EditRemote
  <1>2. CASE Connect
    BY <1>2 DEF Connect
  <1>3. CASE PeerGetsCheckpoint
    BY <1>3 DEF PeerGetsCheckpoint
  <1>4. CASE GotRemoteCheckpoint
    <2>1. Pushed(ckpt', localLog, remoteLog)
      <3>0. phase = "validating"
        BY <1>4 DEF GotRemoteCheckpoint, TypeInv, Control
      <3>1. CASE localCkpt = None
        BY <1>4, <3>0, <3>1, PushedNew DEF GotRemoteCheckpoint, TypeInv, Control
      <3>2. CASE localCkpt # None
        <4>1. ckpt = localCkpt /\ Pushed(ckpt, localLog, remoteLog)
          BY <3>0, <3>2 DEF TypeInv, Control
        <4>2. ckpt'.completed \subseteq ckpt.completed
          BY <1>4, <3>2 DEF GotRemoteCheckpoint, Validated
        <4>3. QED BY <4>1, <4>2, PushedLess
      <3>3. QED BY <3>1, <3>2
    <2>2. /\ toSave' # None => Pushed(toSave', localLog, remoteLog)
          /\ setReq' # None => Pushed(setReq'.json, localLog, remoteLog)
      BY <1>4 DEF GotRemoteCheckpoint, SetCheckpoint
    <2>3. UNCHANGED <<disk, peer, acked, toMark, backups>>
      BY <1>4 DEF GotRemoteCheckpoint
    <2>4. QED BY <2>1, <2>2, <2>3
  <1>5. CASE Disconnect
    BY <1>5 DEF Disconnect
  <1>6. CASE LateSetCheckpoint
    BY <1>6 DEF LateSetCheckpoint
  <1>7. CASE BackUpLocal \/ BackUpRemote
    BY <1>7 DEF BackUpLocal, BackUpRemote
  <1>8. CASE GetCheckpointFailed
    BY <1>8 DEF GetCheckpointFailed
  <1>9. QED BY <1>1, <1>2, <1>3, <1>4, <1>5, <1>6, <1>7, <1>8

LEMMA PushPushing ==
    ASSUME TypeInv, PushInv, Next, ~RestoreLocal, ~RestoreRemote,
           Pushing \/ (\E s \in sent : PushFailed(s)) \/ MarkRevsSynced
    PROVE  PushInv'
  <1> USE PushStable DEF PushInv, disk, peer, live, push, pull, saves, backups, env
  <1>0. Flushed \subseteq Revisions(remoteLog)
    BY DEF Flushed
  <1>1. CASE ReadChange
    <2> DEFINE s == maxRead + 1
    <2>1. phase = "running" /\ s \in DOMAIN localLog /\ ckpt \in Checkpoints
      BY <1>1 DEF ReadChange, TypeInv, TypeOK
    <2>2. Pushed(ckpt', localLog, remoteLog)
      <3>1. CASE s \in ckpt.completed /\ Skips(s)
        <4>1. ckpt'.completed = ckpt.completed
          BY <1>1, <2>1, <3>1 DEF ReadChange, Checkpoints
        <4>2. QED BY <2>1, <4>1, PushedLess
      <3>2. CASE s \notin ckpt.completed /\ Skips(s)
        <4>1. localLog[s] \in Revisions(remoteLog)
          BY <1>0, <3>2 DEF Skips
        <4>2. ckpt' = [ckpt EXCEPT !.completed = @ \cup {s}]
          BY <1>1, <3>2 DEF ReadChange
        <4> HIDE DEF s
        <4>3. QED BY <2>1, <4>1, <4>2, PushedMore
      <3>3. CASE ~Skips(s)
        <4>1. ckpt'.completed \subseteq ckpt.completed
          BY <1>1, <2>1, <3>3 DEF ReadChange, Checkpoints
        <4>2. QED BY <2>1, <4>1, PushedLess
      <3>4. QED BY <3>1, <3>2, <3>3
    <2>3. synced' = Flushed /\ toMark' = {}
          /\ UNCHANGED <<localLog, localCkpt, peer, phase, acked, saves, backups>>
      BY <1>1 DEF ReadChange
    <2>4. QED BY <1>0, <2>2, <2>3
  <1>2. ASSUME NEW s \in sent, PeerHandlesRev(s) PROVE PushInv'
    <2>1. localLog[s] \in Revs
      BY LogDomain DEF TypeInv, TypeOK
    <2>2. OnPeer(localLog[s])'
      <3>1. CASE OnPeer(localLog[s])
        BY <1>2, <3>1 DEF PeerHandlesRev, OnPeer
      <3>2. CASE ~OnPeer(localLog[s])
        <4>1. remoteLog' = Append(remoteLog, localLog[s]) /\ localLog' = localLog
          BY <1>2, <3>2 DEF PeerHandlesRev
        <4>2. QED BY <2>1, <4>1, LogFacts DEF OnPeer, TypeInv, TypeOK
      <3>3. QED BY <3>1, <3>2
    <2>3. acked' = acked \cup {s} /\ UNCHANGED <<disk, live, toMark, saves, backups>>
      BY <1>2 DEF PeerHandlesRev
    <2>4. QED BY <2>2, <2>3
  <1>3. ASSUME NEW s \in acked, PushCompleted(s) PROVE PushInv'
    <2>1. s \in DOMAIN localLog /\ OnPeer(localLog[s]) /\ phase = "running" /\ ckpt \in Checkpoints
      BY <1>3 DEF TypeInv, TypeOK, Control
    <2>2. Pushed(ckpt', localLog, remoteLog)
      BY <1>3, <2>1, PushedMore DEF PushCompleted, OnPeer
    <2>3. toMark' \subseteq Revisions(remoteLog)
      BY <1>3, <2>1 DEF PushCompleted, OnPeer
    <2>4. acked' \subseteq acked /\ UNCHANGED <<disk, peer, phase, saves, backups>>
      BY <1>3 DEF PushCompleted
    <2>5. QED BY <2>2, <2>3, <2>4
  <1>4. ASSUME NEW s \in sent, PushFailed(s) PROVE PushInv'
    BY <1>4 DEF PushFailed
  <1>5. CASE MarkRevsSynced
    BY <1>0, <1>5 DEF MarkRevsSynced
  <1>6. QED BY <1>1, <1>2, <1>3, <1>4, <1>5 DEF Pushing

LEMMA PushPulling ==
    ASSUME TypeInv, PushInv, Next, ~RestoreLocal, ~RestoreRemote,
           Pulling \/ (\E n \in missing : CommitFailed(n))
    PROVE  PushInv'
  <1> USE PushStable DEF PushInv, disk, peer, live, push, pull, saves, backups, env
  <1>0. ASSUME NEW n, UpdateLastSequence(n) PROVE ckpt'.completed \subseteq ckpt.completed
    BY <1>0 DEF UpdateLastSequence, TypeInv, TypeOK, Checkpoints
  <1>1. CASE PullChange
    <2>1. remoteLog[lastAdded + 1] \in Revisions(remoteLog)
      BY <1>1 DEF PullChange, Revisions
    <2>2. synced' \subseteq Revisions(remoteLog) /\ toMark' = {}
      BY <1>1, <2>1 DEF PullChange, Flushed
    <2>3. ckpt'.completed \subseteq ckpt.completed
      BY <1>0, <1>1 DEF PullChange
    <2>4. UNCHANGED <<localLog, localCkpt, peer, phase, acked, saves, backups>>
      BY <1>1 DEF PullChange
    <2>5. phase = "running" => Pushed(ckpt', localLog, remoteLog)
      BY <2>3, PushedLess
    <2>6. QED BY <2>2, <2>4, <2>5
  <1>2. ASSUME NEW n \in missing, InsertRev(n) PROVE PushInv'
    <2>1. remoteLog[n] \in Revisions(remoteLog)
      BY DEF Revisions, TypeInv, TypeOK
    <2>2. synced' \subseteq Revisions(remoteLog) /\ toMark' = {}
      BY <1>2, <2>1 DEF InsertRev, Flushed
    <2>3. QED BY <1>2, <2>2 DEF InsertRev
  <1>3. ASSUME NEW n \in missing, RevFinished(n) \/ CommitFailed(n) PROVE PushInv'
    <2>1. ckpt'.completed \subseteq ckpt.completed
      BY <1>0, <1>3 DEF RevFinished, CommitFailed
    <2>2. toMark' \in {toMark, {}} /\ UNCHANGED <<disk, peer, phase, acked, saves, backups>>
      BY <1>3 DEF RevFinished, CommitFailed
    <2>3. phase = "running" => Pushed(ckpt', localLog, remoteLog)
      BY <2>1, PushedLess
    <2>4. QED BY <2>2, <2>3
  <1>4. QED BY <1>1, <1>2, <1>3 DEF Pulling

LEMMA PushSaving ==
    ASSUME TypeInv, PushInv, Next, ~RestoreLocal, ~RestoreRemote,
           Saving \/ CheckpointNotSaved \/ LocalWriteFailed
    PROVE  PushInv'
  <1> USE PushStable DEF PushInv, disk, peer, live, push, pull, saves, backups, env
  <1>0. Flushed \subseteq Revisions(remoteLog)
    BY DEF Flushed
  <1>1. CASE SaveCheckpoint
    BY <1>1 DEF SaveCheckpoint, SetCheckpoint
  <1>2. CASE PeerSetsCheckpoint
    <2>1. setReq'.json = setReq.json
      BY <1>2 DEF PeerSetsCheckpoint, TypeInv, TypeOK, SetRequests
    <2>2. QED BY <1>2, <2>1 DEF PeerSetsCheckpoint
  <1>3. CASE CheckpointSaved
    BY <1>0, <1>3 DEF CheckpointSaved
  <1>4. CASE CheckpointConflict
    BY <1>4 DEF CheckpointConflict
  <1>5. CASE CheckpointRefreshed
    <2>1. toSave # None
      BY <1>5, NoneAssumption DEF CheckpointRefreshed, TypeInv, Control
    <2>2. QED BY <1>5, <2>1 DEF CheckpointRefreshed, SetCheckpoint
  <1>6. CASE CheckpointNotSaved
    BY <1>6 DEF CheckpointNotSaved
  <1>7. CASE LocalWriteFailed
    BY <1>0, <1>7 DEF LocalWriteFailed
  <1>8. QED BY <1>1, <1>2, <1>3, <1>4, <1>5, <1>6, <1>7 DEF Saving

LEMMA PushStep ==
    ASSUME "remote" \notin faults, TypeInv, PushInv, [Next]_vars
    PROVE  PushInv'
  <1> USE DEF disk, peer, live, push, pull, saves, backups, env
  <1>1. CASE RestoreLocal
    BY <1>1 DEF RestoreLocal, PushInv, TypeInv, Control
  <1>2. ~RestoreRemote
    BY DEF RestoreRemote, TypeInv, Control
  <1>3. CASE Next /\ ~RestoreLocal
    BY <1>2, <1>3, PushSessions, PushPushing, PushPulling, PushSaving DEF Next
  <1>4. CASE UNCHANGED vars
    BY <1>4 DEF PushInv, OnPeer, vars
  <1>5. QED BY <1>1, <1>3, <1>4

(* Whatever order messages, saves, crashes and restores of the local       *)
(* database come in, a sequence that a running Replicator takes for        *)
(* completed is that of a revision the peer has or refused: the            *)
(* checkpoint never makes it forget a local change, unless the peer was    *)
(* restored from a backup.                                                 *)
THEOREM PushIsSound == Spec => []PushSound
  <1> DEFINE Inv == "remote" \notin faults => PushInv
  <1>1. Init => Inv
    BY PushInit
  <1>2. Inv /\ TypeInv /\ [Next]_vars => Inv'
    BY PushStep, FaultsFixed
  <1>3. Inv => PushSound
    BY DEF PushInv, PushSound, AllPushed, Pushed, OnPeer
  <1> HIDE DEF Inv
  <1>4. QED BY <1>1, <1>2, <1>3, TypeInvariance, PTL DEF Spec

-----------------------------------------------------------------------------
(* Layer 3: what counts as pulled is in the local database, as long as     *)
(* the Inserter's transactions succeed.                                    *)
Pulled(c, log, other) ==
    \A n \in 1 .. c.remote : n \in DOMAIN other /\ other[n] \in Revisions(log) \cup Refused

(* Every change the peer has announced in this session is here or awaited. *)
Awaited ==
    \A n \in 1 .. lastAdded :
        n \in missing \/ (n \in DOMAIN remoteLog /\ remoteLog[n] \in Revisions(localLog) \cup Refused)

(* One of the two saved checkpoints is right, wherever it may come from:   *)
(* the local one if the peer is not restored, else the peer's.  The        *)
(* Replicator starts from the earlier one.                                 *)
LocalRight ==
    /\ localCkpt # None => Pulled(localCkpt, localLog, remoteLog)
    /\ localBackup # None /\ localBackup.ckpt # None
           => Pulled(localBackup.ckpt, localBackup.log, remoteLog)

RemoteRight ==
    /\ Pulled(remoteCkpt.json, localLog, remoteLog)
    /\ getReq # None /\ getReq.answer # None => Pulled(getReq.answer.json, localLog, remoteLog)
    /\ late # None => Pulled(late.json, localLog, remoteLog)
    /\ remoteBackup # None => Pulled(remoteBackup.ckpt.json, localLog, remoteBackup.log)

PullInv ==
    /\ phase = "running" => Pulled(ckpt, localLog, remoteLog) /\ Awaited
    /\ toSave # None => Pulled(toSave, localLog, remoteLog)
    /\ setReq # None => Pulled(setReq.json, localLog, remoteLog)
    /\ "remote" \notin faults => LocalRight
    /\ "local" \notin faults => RemoteRight

LEMMA PulledGrows ==
    ASSUME NEW c, NEW a, NEW a2, NEW b, NEW b2,
           Grows(a, a2), Grows(b, b2), Pulled(c, a, b)
    PROVE  Pulled(c, a2, b2)
  BY DEF Pulled, Grows

LEMMA PulledNew ==
    ASSUME NEW c, c.remote = 0, NEW a, NEW b
    PROVE  Pulled(c, a, b)
  BY DEF Pulled

LEMMA PulledLess ==
    ASSUME NEW c \in Checkpoints, NEW d \in Checkpoints, NEW a, NEW b,
           Pulled(c, a, b), d.remote <= c.remote
    PROVE  Pulled(d, a, b)
  <1>1. c.remote \in Nat /\ d.remote \in Nat
    BY DEF Checkpoints
  <1>2. 1 .. d.remote \subseteq 1 .. c.remote
    BY <1>1
  <1>3. QED BY <1>2 DEF Pulled

LEMMA PullInit == Init => PullInv
  BY PulledNew DEF Init, PullInv, LocalRight, RemoteRight, NewCheckpoint

(* What a step that does not restore a database leaves true. *)
LEMMA PullStable ==
    ASSUME TypeInv, PullInv, [Next]_vars, ~RestoreLocal, ~RestoreRemote
    PROVE  /\ \A c : Pulled(c, localLog, remoteLog) => Pulled(c, localLog', remoteLog')
           /\ \A c, a : Pulled(c, a, remoteLog) => Pulled(c, a, remoteLog')
           /\ \A c, b : Pulled(c, localLog, b) => Pulled(c, localLog', b)
           /\ missing' = missing /\ lastAdded' = lastAdded /\ Awaited => Awaited'
  <1>1. Grows(localLog, localLog') /\ Grows(remoteLog, remoteLog')
    BY LogsGrow
  <1>2. \A a : Grows(a, a)
    BY DEF Grows
  <1>3. \A c : Pulled(c, localLog, remoteLog) => Pulled(c, localLog', remoteLog')
    BY <1>1, PulledGrows
  <1>4. \A c, a : Pulled(c, a, remoteLog) => Pulled(c, a, remoteLog')
    BY <1>1, <1>2, PulledGrows
  <1>5. \A c, b : Pulled(c, localLog, b) => Pulled(c, localLog', b)
    BY <1>1, <1>2, PulledGrows
  <1>6. missing' = missing /\ lastAdded' = lastAdded /\ Awaited => Awaited'
    BY <1>1 DEF Awaited, Grows
  <1>7. QED BY <1>3, <1>4, <1>5, <1>6

LEMMA PullSessions ==
    ASSUME TypeInv, PullInv, Next, ~RestoreLocal, ~RestoreRemote,
           \/ \E r \in Revs : EditLocal(r) \/ EditRemote(r)
           \/ Connect \/ PeerGetsCheckpoint \/ GotRemoteCheckpoint \/ GetCheckpointFailed
           \/ Disconnect \/ LateSetCheckpoint \/ BackUpLocal \/ BackUpRemote
    PROVE  PullInv'
  <1> USE PullStable DEF PullInv, LocalRight, RemoteRight, disk, peer, live, push, pull, saves, backups, env
  <1>0. NewCheckpoint.remote = 0
    BY DEF NewCheckpoint
  <1>1. ASSUME NEW r \in Revs, EditLocal(r) \/ EditRemote(r) PROVE PullInv'
    BY <1>1 DEF EditLocal, EditRemote
  <1>2. CASE Connect
    <2>1. phase' # "running" /\ toSave' = None /\ setReq' = None /\ getReq'.answer = None
          /\ UNCHANGED <<disk, peer, late, backups>>
      BY <1>2 DEF Connect
    <2>2. QED BY <2>1
  <1>3. CASE PeerGetsCheckpoint
    <2>1. getReq'.answer = remoteCkpt
      BY <1>3 DEF PeerGetsCheckpoint, TypeInv, TypeOK
    <2>2. QED BY <1>3, <2>1 DEF PeerGetsCheckpoint
  <1>4. CASE GotRemoteCheckpoint
    <2>1. phase' = "running" => Pulled(ckpt', localLog', remoteLog') /\ Awaited'
      <3>0. UNCHANGED <<localLog, remoteLog, missing>>
        BY <1>4 DEF GotRemoteCheckpoint
      <3>1. Pulled(ckpt', localLog, remoteLog)
        <4>0. phase = "validating"
          BY <1>4 DEF GotRemoteCheckpoint, TypeInv, Control
        <4>1. CASE localCkpt = None
          BY <1>0, <1>4, <4>0, <4>1, PulledNew DEF GotRemoteCheckpoint, TypeInv, Control
        <4>2. CASE localCkpt # None
          <5> DEFINE theirs == getReq.answer.json
          <5>1. ckpt = localCkpt /\ ckpt' = Validated(ckpt, theirs)
            BY <1>4, <4>0, <4>2 DEF GotRemoteCheckpoint, TypeInv, Control
          <5>2. ckpt \in Checkpoints /\ theirs \in Checkpoints
            BY <1>4 DEF GotRemoteCheckpoint, TypeInv, TypeOK, RemoteCheckpoints
          <5>3. ckpt' \in Checkpoints
            BY <5>1, <5>2, CheckpointOps
          <5>4. "remote" \notin faults => Pulled(ckpt, localLog, remoteLog)
            BY <4>2, <5>1
          <5>5. "remote" \in faults => Pulled(theirs, localLog, remoteLog)
            BY <1>4, FaultsAssumption DEF GotRemoteCheckpoint, TypeInv, TypeOK
          <5>6. ckpt'.remote <= ckpt.remote /\ ckpt'.remote <= theirs.remote
            BY <5>1, <5>2 DEF Validated, Checkpoints
          <5> HIDE DEF theirs
          <5>7. QED BY <5>2, <5>3, <5>4, <5>5, <5>6, PulledLess
        <4>3. QED BY <4>1, <4>2
      <3>2. lastAdded' = ckpt'.remote
        BY <1>4 DEF GotRemoteCheckpoint, StartReplicating
      <3>3. QED BY <3>0, <3>1, <3>2 DEF Pulled, Awaited
    <2>2. /\ toSave' # None => Pulled(toSave', localLog, remoteLog)
          /\ setReq' # None => Pulled(setReq'.json, localLog, remoteLog)
      BY <1>4 DEF GotRemoteCheckpoint, SetCheckpoint
    <2>3. getReq' = None /\ UNCHANGED <<disk, peer, late, backups>>
      BY <1>4 DEF GotRemoteCheckpoint
    <2>4. QED BY <2>1, <2>2, <2>3
  <1>5. CASE Disconnect
    <2>1. late' = late \/ (late' = setReq /\ setReq # None)
      BY <1>5 DEF Disconnect
    <2>2. phase' # "running" /\ toSave' = None /\ setReq' = None /\ getReq' = None
          /\ UNCHANGED <<disk, peer, backups>>
      BY <1>5 DEF Disconnect
    <2>3. QED BY <2>1, <2>2
  <1>6. CASE LateSetCheckpoint
    <2>1. remoteCkpt' = remoteCkpt \/ remoteCkpt'.json = late.json
      BY <1>6 DEF LateSetCheckpoint, Swap
    <2>2. QED BY <1>6, <2>1 DEF LateSetCheckpoint
  <1>7. CASE BackUpLocal \/ BackUpRemote
    BY <1>7 DEF BackUpLocal, BackUpRemote
  <1>8. CASE GetCheckpointFailed
    BY <1>8 DEF GetCheckpointFailed
  <1>9. QED BY <1>1, <1>2, <1>3, <1>4, <1>5, <1>6, <1>7, <1>8

LEMMA PullPushing ==
    ASSUME TypeInv, PullInv, Next, ~RestoreLocal, ~RestoreRemote,
           Pushing \/ (\E s \in sent : PushFailed(s)) \/ MarkRevsSynced
    PROVE  PullInv'
  <1> USE PullStable DEF PullInv, LocalRight, RemoteRight, disk, peer, live, push, pull, saves, backups, env
  <1>1. UNCHANGED <<phase, pull, localCkpt, remoteCkpt, saves, env>>
    BY DEF Pushing, ReadChange, PeerHandlesRev, PushCompleted, PushFailed, MarkRevsSynced
  <1>2. ckpt' \in Checkpoints /\ ckpt'.remote <= ckpt.remote
    <2>1. ckpt'.remote = ckpt.remote
      BY DEF Pushing, ReadChange, PeerHandlesRev, PushCompleted, PushFailed, MarkRevsSynced,
             TypeInv, TypeOK, Checkpoints
    <2>2. ckpt' \in Checkpoints /\ ckpt \in Checkpoints
      BY TypeStep DEF TypeInv, TypeOK
    <2>3. QED BY <2>1, <2>2 DEF Checkpoints
  <1>3. phase = "running" => Pulled(ckpt', localLog, remoteLog)
    BY <1>2, PulledLess DEF TypeInv, TypeOK
  <1>4. QED BY <1>1, <1>3

LEMMA PullPulling ==
    ASSUME TypeInv, PullInv, Next, ~RestoreLocal, ~RestoreRemote, Pulling
    PROVE  PullInv'
  <1> USE PullStable DEF PullInv, LocalRight, RemoteRight, disk, peer, live, push, pull, saves, backups, env
  <1>1. CASE PullChange
    <2> DEFINE n == lastAdded + 1
    <2>1. lastAdded \in Nat /\ missing \subseteq 1 .. lastAdded
      BY DEF TypeInv, TypeOK, Control
    <2>2. phase = "running" /\ n \in DOMAIN remoteLog /\ lastAdded' = n
          /\ UNCHANGED <<localLog, localCkpt, peer, phase, saves, env>>
      BY <1>1 DEF PullChange
    <2>3. n \in missing' \/ (missing' = missing /\ remoteLog[n] \in Revisions(localLog))
      BY <1>1 DEF PullChange
    <2>4. missing \subseteq missing'
      BY <1>1 DEF PullChange
    <2>5. Awaited'
      <3>1. ASSUME NEW i \in 1 .. n
            PROVE  i \in missing' \/ (i \in DOMAIN remoteLog /\ remoteLog[i] \in Revisions(localLog) \cup Refused)
        <4>1. CASE i = n
          BY <2>2, <2>3, <4>1
        <4>2. CASE i \in 1 .. lastAdded
          BY <2>2, <2>4, <4>2 DEF Awaited
        <4>3. QED BY <2>1, <4>1, <4>2
      <3>2. QED BY <2>2, <3>1 DEF Awaited
    <2>6. Pulled(ckpt', localLog, remoteLog)
      <3>1. CASE ckpt' = ckpt
        BY <2>2, <3>1
      <3>2. CASE ckpt' # ckpt
        <4>1. missing' = {} /\ ckpt' = [ckpt EXCEPT !.remote = n]
          BY <1>1, <3>2 DEF PullChange, UpdateLastSequence
        <4>2. ckpt'.remote = n
          BY <4>1 DEF TypeInv, TypeOK, Checkpoints
        <4>3. QED BY <2>2, <2>5, <4>1, <4>2 DEF Awaited, Pulled
      <3>3. QED BY <3>1, <3>2
    <2>7. QED BY <2>2, <2>5, <2>6
  <1>2. ASSUME NEW n \in missing, InsertRev(n) PROVE PullInv'
    BY <1>2 DEF InsertRev
  <1>3. ASSUME NEW n \in missing, RevFinished(n) PROVE PullInv'
    <2> DEFINE since == Since(lastAdded, missing \ {n})
    <2>1. missing' = missing \ {n} /\ ckpt' = [ckpt EXCEPT !.remote = since]
          /\ remoteLog[n] \in Revisions(localLog) \cup Refused
          /\ UNCHANGED <<disk, peer, phase, lastAdded, saves, env>>
      BY <1>3 DEF RevFinished, UpdateLastSequence, OnLocal
    <2>2. phase = "running" /\ lastAdded \in Nat /\ missing \subseteq 1 .. lastAdded
          /\ missing \subseteq DOMAIN remoteLog
      BY <1>3 DEF TypeInv, TypeOK, Control
    <2>3. Awaited'
      BY <2>1, <2>2 DEF Awaited
    <2>4. since \in Nat /\ since <= lastAdded /\ \A m \in missing' : since < m
      <3>1. missing \ {n} \subseteq Nat \ {0}
        BY <2>2
      <3>2. /\ since \in Nat
            /\ missing \ {n} = {} => since = lastAdded
            /\ \A m \in missing \ {n} : since < m
        BY <2>2, <3>1, SinceBound
      <3>3. since <= lastAdded
        <4>1. CASE missing \ {n} = {}
          BY <2>2, <3>2, <4>1
        <4>2. CASE missing \ {n} # {}
          <5>1. PICK m \in missing \ {n} : since < m
            BY <3>2, <4>2
          <5>2. m \in 1 .. lastAdded
            BY <2>2
          <5>3. QED BY <5>1, <5>2, <3>2, <2>2
        <4>3. QED BY <4>1, <4>2
      <3>4. QED BY <2>1, <3>2, <3>3
    <2>5. ckpt'.remote = since
      BY <2>1 DEF TypeInv, TypeOK, Checkpoints
    <2> HIDE DEF since
    <2>6. ASSUME NEW i \in 1 .. since
          PROVE  i \in DOMAIN remoteLog /\ remoteLog[i] \in Revisions(localLog) \cup Refused
      <3>1. i \in 1 .. lastAdded /\ i \notin missing'
        BY <2>2, <2>4
      <3>2. QED BY <3>1, <2>1, <2>3 DEF Awaited
    <2>7. Pulled(ckpt', localLog, remoteLog)
      BY <2>5, <2>6 DEF Pulled
    <2>8. QED BY <2>1, <2>2, <2>3, <2>7
  <1>4. QED BY <1>1, <1>2, <1>3 DEF Pulling

LEMMA PullSaving ==
    ASSUME TypeInv, PullInv, Next, ~RestoreLocal, ~RestoreRemote,
           Saving \/ CheckpointNotSaved \/ LocalWriteFailed
    PROVE  PullInv'
  <1> USE PullStable DEF PullInv, LocalRight, RemoteRight, disk, peer, live, push, pull, saves, backups, env
  <1>1. CASE SaveCheckpoint
    BY <1>1 DEF SaveCheckpoint, SetCheckpoint
  <1>2. CASE PeerSetsCheckpoint
    <2>1. setReq'.json = setReq.json
      BY <1>2 DEF PeerSetsCheckpoint, TypeInv, TypeOK, SetRequests
    <2>2. remoteCkpt' = remoteCkpt \/ remoteCkpt'.json = setReq.json
      BY <1>2 DEF PeerSetsCheckpoint, Swap
    <2>3. QED BY <1>2, <2>1, <2>2 DEF PeerSetsCheckpoint
  <1>3. CASE CheckpointSaved
    BY <1>3 DEF CheckpointSaved
  <1>4. CASE CheckpointConflict
    BY <1>4 DEF CheckpointConflict
  <1>5. CASE CheckpointRefreshed
    <2>1. toSave # None
      BY <1>5, NoneAssumption DEF CheckpointRefreshed, TypeInv, Control
    <2>2. QED BY <1>5, <2>1 DEF CheckpointRefreshed, SetCheckpoint
  <1>6. CASE CheckpointNotSaved
    BY <1>6 DEF CheckpointNotSaved
  <1>7. CASE LocalWriteFailed
    BY <1>7 DEF LocalWriteFailed
  <1>8. QED BY <1>1, <1>2, <1>3, <1>4, <1>5, <1>6, <1>7 DEF Saving

LEMMA PullStep ==
    ASSUME "commit" \notin faults, TypeInv, PullInv, [Next]_vars
    PROVE  PullInv'
  <1> USE DEF disk, peer, live, push, pull, saves, backups, env
  <1>1. CASE RestoreLocal
    BY <1>1 DEF RestoreLocal, PullInv, LocalRight, RemoteRight, TypeInv, Control
  <1>2. CASE RestoreRemote
    BY <1>2 DEF RestoreRemote, PullInv, LocalRight, RemoteRight, TypeInv, Control
  <1>3. CASE Next /\ ~RestoreLocal /\ ~RestoreRemote
    BY <1>3, PullSessions, PullPushing, PullPulling, PullSaving DEF Next, CommitFailed
  <1>4. CASE UNCHANGED vars
    BY <1>4 DEF PullInv, LocalRight, RemoteRight, Awaited, vars
  <1>5. QED BY <1>1, <1>2, <1>3, <1>4

(* A running Replicator has every remote change up to the sequence it      *)
(* would ask the peer to continue after, even if one of the databases, the *)
(* local or the remote, was restored from a backup in the meantime, unless *)
(* a transaction of the Inserter failed.                                   *)
THEOREM PullIsSound == Spec => []PullSound
  <1> DEFINE Inv == "commit" \notin faults => PullInv
  <1>1. Init => Inv
    BY PullInit
  <1>2. Inv /\ TypeInv /\ [Next]_vars => Inv'
    BY PullStep, FaultsFixed
  <1>3. Inv => PullSound
    BY DEF PullInv, PullSound, AllPulled, Pulled, OnLocal
  <1> HIDE DEF Inv
  <1>4. QED BY <1>1, <1>2, <1>3, TypeInvariance, PTL DEF Spec

-----------------------------------------------------------------------------
(* Layer 4: the compare-and-swap.  No request is ahead of the peer, and    *)
(* once the peer has saved ours, a late one can no longer overwrite it.    *)
SaveInv ==
    /\ phase = "offline" => ~received
    /\ received => revID <= remoteCkpt.gen
    /\ getReq # None /\ getReq.answer # None => getReq.answer.gen <= remoteCkpt.gen
    /\ late # None => late.rev <= remoteCkpt.gen
    /\ setReq # None => setReq.rev <= remoteCkpt.gen
    /\ setReq # None /\ setReq.answer = "ok" =>
           /\ remoteCkpt = [gen |-> setReq.rev + 1, json |-> setReq.json]
           /\ late # None => late.rev < remoteCkpt.gen

LEMMA SaveInit == Init => SaveInv
  BY DEF Init, SaveInv

LEMMA SaveStep ==
    ASSUME TypeInv, SaveInv, [Next]_vars
    PROVE  SaveInv'
  <1> USE DEF SaveInv, TypeInv, TypeOK, disk, peer, live, push, pull, saves, backups, env
  <1>0. /\ remoteCkpt.gen \in Nat
        /\ setReq # None => setReq.rev \in Nat
        /\ late # None => late.rev \in Nat
        /\ getReq # None /\ getReq.answer # None => getReq.answer.gen \in Nat
    BY DEF RemoteCheckpoints, SetRequests
  <1>1. CASE UNCHANGED <<phase, received, revID, remoteCkpt, getReq, late, setReq>>
    BY <1>1
  <1>2. CASE \/ \E r \in Revs : EditLocal(r) \/ EditRemote(r)
             \/ BackUpLocal \/ RestoreLocal \/ BackUpRemote \/ UNCHANGED vars
    BY <1>1, <1>2 DEF EditLocal, EditRemote, BackUpLocal, RestoreLocal, BackUpRemote, vars
  <1>3. CASE \/ Pushing \/ (\E s \in sent : PushFailed(s)) \/ MarkRevsSynced
             \/ Pulling \/ (\E n \in missing : CommitFailed(n))
    BY <1>1, <1>3 DEF Pushing, ReadChange, PeerHandlesRev, PushCompleted, PushFailed, MarkRevsSynced,
                      Pulling, PullChange, InsertRev, RevFinished, CommitFailed
  <1>4. CASE Connect
    BY <1>0, <1>4 DEF Connect, Control
  <1>5. CASE PeerGetsCheckpoint
    BY <1>0, <1>5 DEF PeerGetsCheckpoint
  <1>6. CASE GotRemoteCheckpoint
    <2>1. /\ getReq' = None /\ revID' = getReq.answer.gen /\ revID' <= remoteCkpt.gen
          /\ phase' # "offline" /\ UNCHANGED <<remoteCkpt, late>>
      BY <1>6 DEF GotRemoteCheckpoint, Control, StartReplicating
    <2>2. setReq' = setReq \/ (setReq'.rev = revID' /\ setReq'.answer = "none")
      BY <1>6 DEF GotRemoteCheckpoint, SetCheckpoint
    <2>3. QED BY <1>0, <2>1, <2>2
  <1>7. CASE SaveCheckpoint
    BY <1>0, <1>7 DEF SaveCheckpoint, SetCheckpoint
  <1>8. CASE PeerSetsCheckpoint
    <2>1. setReq'.rev = setReq.rev /\ setReq'.json = setReq.json
          /\ setReq'.answer = (IF setReq.rev = remoteCkpt.gen THEN "ok" ELSE "conflict")
          /\ UNCHANGED <<phase, received, revID, getReq, late>>
      BY <1>8 DEF PeerSetsCheckpoint, SetRequests
    <2>2. CASE setReq.rev = remoteCkpt.gen
      <3>1. remoteCkpt' = [gen |-> setReq.rev + 1, json |-> setReq.json]
        BY <1>8, <2>2 DEF PeerSetsCheckpoint, Swap
      <3>2. remoteCkpt'.gen = remoteCkpt.gen + 1
        BY <2>2, <3>1
      <3>3. setReq # None
        BY <1>8 DEF PeerSetsCheckpoint
      <3>4. QED BY <1>0, <2>1, <2>2, <3>1, <3>2, <3>3
    <2>3. CASE setReq.rev # remoteCkpt.gen
      BY <1>8, <2>1, <2>3 DEF PeerSetsCheckpoint, Swap
    <2>4. QED BY <2>2, <2>3
  <1>9. CASE CheckpointSaved \/ LocalWriteFailed
    <2>1. revID' = setReq.rev + 1 /\ setReq' = None /\ remoteCkpt.gen = setReq.rev + 1
          /\ UNCHANGED <<phase, received, remoteCkpt, getReq, late>>
      BY <1>9 DEF CheckpointSaved, LocalWriteFailed
    <2>2. QED BY <1>0, <2>1
  <1>10. CASE CheckpointConflict
    BY <1>10 DEF CheckpointConflict
  <1>11. CASE CheckpointRefreshed
    <2>1. phase = "running" /\ revID' = getReq.answer.gen /\ setReq'.rev = revID'
          /\ setReq'.answer = "none" /\ getReq' = None /\ UNCHANGED <<phase, remoteCkpt, late>>
          /\ getReq # None /\ getReq.answer # None
      BY <1>11 DEF CheckpointRefreshed, SetCheckpoint, Control
    <2>2. QED BY <1>0, <2>1
  <1>12. CASE CheckpointNotSaved
    BY <1>12 DEF CheckpointNotSaved
  <1>13. CASE Disconnect
    <2>1. late' = late \/ (late' = setReq /\ setReq # None)
      BY <1>13 DEF Disconnect
    <2>2. setReq' = None /\ getReq' = None /\ received' = FALSE /\ UNCHANGED remoteCkpt
      BY <1>13 DEF Disconnect
    <2>3. QED BY <2>1, <2>2
  <1>14. CASE LateSetCheckpoint
    <2>1. late # None /\ late' = None /\ UNCHANGED <<phase, received, revID, getReq, setReq>>
      BY <1>14 DEF LateSetCheckpoint
    <2>2. CASE late.rev = remoteCkpt.gen
      <3>1. remoteCkpt'.gen = remoteCkpt.gen + 1
        BY <1>14, <2>2 DEF LateSetCheckpoint, Swap
      <3>2. ~(setReq # None /\ setReq.answer = "ok")
        BY <1>0, <2>1, <2>2
      <3>3. QED BY <1>0, <2>1, <3>1, <3>2
    <2>3. CASE late.rev # remoteCkpt.gen
      BY <1>14, <2>1, <2>3 DEF LateSetCheckpoint, Swap
    <2>4. QED BY <2>2, <2>3
  <1>15. CASE RestoreRemote
    BY <1>15 DEF RestoreRemote, Control
  <1>16. CASE GetCheckpointFailed
    BY <1>16 DEF GetCheckpointFailed
  <1>17. QED
    BY <1>2, <1>3, <1>4, <1>5, <1>6, <1>7, <1>8, <1>9, <1>10, <1>11, <1>12, <1>13, <1>14, <1>15, <1>16
       DEF Next, Saving

(* What is written to the local database is what the peer has at that      *)
(* moment, in spite of late requests: unless a database is restored, the   *)
(* local checkpoint never holds what the peer was not given first.         *)
THEOREM SavesAreAlike == Spec => SavedAlike
  <1>1. TypeInv /\ SaveInv /\ [Next]_vars
            => [localCkpt' # localCkpt /\ localBackup' = localBackup
                    => localCkpt' = remoteCkpt.json]_vars
    <2> SUFFICES ASSUME TypeInv, SaveInv, Next, localCkpt' # localCkpt, localBackup' = localBackup
                 PROVE  localCkpt' = remoteCkpt.json
      OBVIOUS
    <2> USE DEF disk, peer, live, push, pull, saves, backups, env
    <2>1. CASE CheckpointSaved
      BY <2>1 DEF CheckpointSaved, SaveInv
    <2>2. ~RestoreLocal
      BY DEF RestoreLocal
    <2>3. ~Saving \/ CheckpointSaved
      BY DEF Saving, SaveCheckpoint, PeerSetsCheckpoint, CheckpointConflict, CheckpointRefreshed
    <2>4. ~Pushing /\ ~Pulling
      BY DEF Pushing, ReadChange, PeerHandlesRev, PushCompleted,
             Pulling, PullChange, InsertRev, RevFinished
    <2>5. QED
      BY <2>1, <2>2, <2>3, <2>4
         DEF Next, EditLocal, EditRemote, Connect, PeerGetsCheckpoint, GotRemoteCheckpoint, GetCheckpointFailed,
             PushFailed, MarkRevsSynced, CommitFailed, CheckpointNotSaved, LocalWriteFailed,
             Disconnect, LateSetCheckpoint, BackUpLocal, BackUpRemote, RestoreRemote
  <1>2. SaveInv /\ TypeInv /\ [Next]_vars => SaveInv'
    BY SaveStep
  <1>3. QED BY <1>1, <1>2, SaveInit, TypeInvariance, PTL DEF Spec, SavedAlike

=============================================================================
