---------------------------- MODULE Replication -----------------------------
(***************************************************************************)
(* One repl::Replicator, as a function of its own state: what it makes of  *)
(* the events in its mailbox, and the activity level it then has.          *)
(*                                                                         *)
(* Levels are numbers, as in C4ReplicatorActivityLevel.  Errors are the    *)
(* classes that the code tells apart.  The state of a Replicator is a      *)
(* record; an operator takes the state before and gives the state after.   *)
(* Only one direction (push) is represented: the other one is handled by   *)
(* the same code.                                                          *)
(***************************************************************************)
EXTENDS Naturals, Sequences, FiniteSets

Stopped == 0
Offline == 1
Connecting == 2
Idle == 3
Busy == 4
Stopping == 5          \* only the front end is ever `stopping'

Errors == {"none",
           "overload",     \* 503: transient; stops the replicator
           "denied",       \* 403, 400, an exception...: stops the replicator
           "other",        \* reported, and no more
           "transient",    \* the connection was reset, or timed out...
           "network",      \* no such host, network down...
           "goingAway",    \* the peer closed the connection
           "appTransient", "appPermanent"}   \* codes with which a Replicator closes it

AppCodes == {"appTransient", "appPermanent"}

(* C4Error::mayBeTransient(); mayBeNetworkDependent() is e = "network" *)
MayBeTransient(e) == e \in {"overload", "transient", "appTransient"}

(* `sub' and `subErr': pushStatus of each collection; `overall' and        *)
(* `overallErr': _pushStatus.  `close': the code with which the connection *)
(* has been told to close.  `started': startReplicating() has been called. *)
(* `waiting': _waitingToCallDelegate; `delayed': calls of reportStatus()   *)
(* that a timer will put in the mailbox.  `pending': the requests that     *)
(* have not been answered.  `saves', of the Checkpointers: 1 if _saving,   *)
(* 2 if the checkpoint has changed again and _overdueForSave as well.      *)
NewReplicator(colls) ==
    [conn |-> "closed", linked |-> TRUE, level |-> Connecting, err |-> "none", changed |-> FALSE,
     pending |-> {}, started |-> FALSE, waiting |-> FALSE, delayed |-> 0, lastLevel |-> Stopped,
     close |-> "none", saves |-> [c \in colls |-> 0],
     sub |-> [c \in colls |-> Busy], overall |-> Busy, overallErr |-> "none", box |-> << >>]

Enqueue(q, m) == [q EXCEPT !.box = Append(@, m)]
MaxLevel(f) == CHOOSE l \in {f[c] : c \in DOMAIN f} : \A c \in DOMAIN f : l >= f[c]

-----------------------------------------------------------------------------
(* _disconnect(): a second call of close() changes nothing *)
BadDisconnect(q, code) ==
    IF q.linked /\ q.conn = "connected"
    THEN [q EXCEPT !.conn = "closing", !.close = IF @ = "none" THEN code ELSE @]
    ELSE q

Disconnect(q, code) ==
    IF q.linked
    THEN [q EXCEPT !.conn = "closing", !.close = IF @ = "none" THEN code ELSE @]
    ELSE q

(* onError(): an error that is reported already is not replaced by the     *)
(* code with which the connection closes because of it.                    *)
BadOnError(q, e) ==
    LET r == [q EXCEPT !.err = e, !.changed = TRUE]
    IN  CASE e = "denied" -> Disconnect(r, "appPermanent")
          [] e = "overload" -> Disconnect(r, "appTransient")
          [] OTHER -> r

OnError(q, e) ==
    LET r == [q EXCEPT !.err = e, !.changed = TRUE]
    IN  CASE q.err # "none" /\ e \in AppCodes -> q
          [] e = "denied" -> Disconnect(r, "appPermanent")
          [] e = "overload" -> Disconnect(r, "appTransient")
          [] OTHER -> r

(* updatePushStatus() *)
BadUpdateStatus(q, c, l, e) ==
    LET levels == [q.sub EXCEPT ![c] = l]
    IN  [q EXCEPT !.sub = levels,
                  !.overall = IF l >= q.overall THEN l ELSE q.overall,   \* never goes down
                  !.overallErr = IF @ = "none" \/ (MayBeTransient(@) /\ ~MayBeTransient(e)) THEN e ELSE @]

UpdateStatus(q, c, l, e) ==
    LET levels == [q.sub EXCEPT ![c] = l]
    IN  [q EXCEPT !.sub = levels,
                  !.overall = IF l >= q.overall THEN l
                              ELSE IF q.sub[c] >= q.overall THEN MaxLevel(levels)
                              ELSE q.overall,
                  !.overallErr = IF @ = "none" \/ (MayBeTransient(@) /\ ~MayBeTransient(e)) THEN e ELSE @]

-----------------------------------------------------------------------------
(* The handlers.  _start(), of an active Replicator; `e' is the error that *)
(* reading the local checkpoints ended with.                               *)
Start(q, e) ==
    LET r == [q EXCEPT !.conn = "connecting"]
    IN  IF e = "none" THEN r ELSE Enqueue(OnError(r, e), [t |-> "stop"])

(* _onConnect() and getCollections(), which is about all of them *)
GetCollections == <<"getCollections", "all">>

OnConnect(q) ==
    IF q.conn # "connecting" THEN q
    ELSE [q EXCEPT !.conn = "connected", !.pending = @ \cup {GetCollections}]

(* _onClose() *)
OnClose(q, status) ==
    LET closedByPeer == q.conn # "closing"
        e == IF status = "normal" THEN (IF closedByPeer THEN "goingAway" ELSE "none") ELSE status
        r == [q EXCEPT !.conn = IF status = "normal" THEN "closed" ELSE "disconnected", !.linked = FALSE]
    IN  IF e = "none" THEN r ELSE OnError(r, e)

(* Checkpointer::save(), of a checkpoint that has changed, and             *)
(* _saveCheckpoint(); then Checkpointer::saveCompleted().                  *)
Send(q, req) == [q EXCEPT !.pending = @ \cup {req}]
Save(q, c) ==
    IF q.linked /\ q.saves[c] = 0 THEN Send([q EXCEPT !.saves[c] = 1], <<"setCheckpoint", c>>)
    ELSE IF q.linked THEN [q EXCEPT !.saves[c] = 2]
    ELSE q

SaveCompleted(q, c) ==
    LET r == [q EXCEPT !.saves[c] = 0]
    IN  IF q.saves[c] = 2 THEN Save(r, c) ELSE r

(* The answers to getCollections; to setCheckpoint, where a conflict makes *)
(* it ask for the checkpoint and save it again; and to that getCheckpoint. *)
(* An error there ends neither the save nor, by itself, the replication.   *)
OnCollections(q, result) ==
    CASE result = "ok" -> [q EXCEPT !.started = TRUE]
      [] result = "missing" -> Disconnect(OnError(q, "other"), "normal")
      [] OTHER -> OnError(q, result)

OnCheckpointSet(q, c, result) ==
    CASE result = "ok" -> SaveCompleted(q, c)
      [] result = "conflict" -> IF q.conn = "connected" THEN Send(q, <<"getCheckpoint", c>>) ELSE q
      [] OTHER -> SaveCompleted(OnError(q, result), c)

OnCheckpointGot(q, c, result) ==
    IF result = "ok" THEN Send(q, <<"setCheckpoint", c>>) ELSE OnError(q, result)

(* "lost": the connection closed first *)
OnResponse(q, m) ==
    LET r == [q EXCEPT !.pending = @ \ {m.req}]
    IN  CASE m.result = "lost" -> r
          [] m.result # "lost" /\ m.req[1] = "getCollections" -> OnCollections(r, m.result)
          [] m.result # "lost" /\ m.req[1] = "setCheckpoint"  -> OnCheckpointSet(r, m.req[2], m.result)
          [] m.result # "lost" /\ m.req[1] = "getCheckpoint"  -> OnCheckpointGot(r, m.req[2], m.result)

(* _childChangedStatus(); `save': there is a checkpoint to be saved *)
ChildChangedStatus(q, m, save) ==
    LET r == UpdateStatus(q, m.coll, m.level, m.err)
        s == IF r.overallErr # "none" THEN OnError(r, r.overallErr) ELSE r
    IN  IF q.level = Stopped THEN q
        ELSE IF save /\ m.level \in {Stopped, Idle} THEN Save(s, m.coll) ELSE s

-----------------------------------------------------------------------------
(* Worker::computeActivityLevel(): `others' is the number of events still  *)
(* in the mailbox.                                                         *)
WorkerLevel(q, others) == IF others > 0 \/ q.delayed > 0 \/ q.pending # {} THEN Busy ELSE Idle

(* Replicator::computeActivityLevel(), and the end of a one-shot           *)
(* replication, which it decides.  `Unsaved': of some Checkpointer         *)
(* isUnsaved() is true.                                                    *)
Unsaved(q) == \E c \in DOMAIN q.saves : q.saves[c] > 0

BadAfterClose(q, others) == IF WorkerLevel(q, others) = Busy THEN Busy ELSE Stopped

AfterClose(q, others) ==
    LET w == WorkerLevel(q, others)
        l == IF w < q.overall THEN q.overall ELSE w
    IN  IF l < Busy THEN Stopped
        ELSE IF q.level = Connecting THEN Connecting ELSE Busy

ComputeActivityLevel(q, others, continuous) ==
    LET w == IF Unsaved(q) THEN Busy ELSE WorkerLevel(q, others)
        l == IF w < q.overall THEN q.overall ELSE w
        done == q.conn = "connected" /\ l = Idle /\ ~continuous
    IN  IF q.level = Stopped THEN [q |-> q, level |-> Stopped]
        ELSE CASE q.conn = "connecting" -> [q |-> q, level |-> Connecting]
               [] q.conn = "connected"  -> IF done THEN [q |-> Disconnect(q, "normal"), level |-> Busy]
                                                   ELSE [q |-> q, level |-> l]
               [] q.conn = "closing"    -> [q |-> q, level |-> Busy]
               [] OTHER                 -> [q |-> q, level |-> AfterClose(q, others)]

(* reportStatus() *)
ReportStatus(q) == [q EXCEPT !.waiting = FALSE, !.lastLevel = q.level]

(* Worker::afterEvent() and Replicator::changedStatus().  `now' tells      *)
(* whether the delegate has not been called for a while; the result says   *)
(* whether it is called.                                                   *)
AfterEvent(q, continuous, now) ==
    LET a == ComputeActivityLevel(q, Len(q.box), continuous)
        changed == q.changed \/ a.level # q.level
        r == [a.q EXCEPT !.level = a.level, !.changed = FALSE]
        report == changed /\ (now \/ r.level # r.lastLevel)
    IN  [report |-> report,
         q |-> IF report THEN ReportStatus(r)
               ELSE IF changed /\ ~r.waiting THEN [r EXCEPT !.waiting = TRUE, !.delayed = @ + 1]
               ELSE r]
=============================================================================
