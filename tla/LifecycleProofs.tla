-------------------------- MODULE LifecycleProofs ---------------------------
(***************************************************************************)
(* Proofs about Lifecycle: for any number of client threads, calls,        *)
(* collections, retries and faults, the client is told what goes on, a     *)
(* Replicator is let go only when it is done, and with an error if one     *)
(* stopped it, and stop() is not undone by a retry.                        *)
(***************************************************************************)
EXTENDS Lifecycle, SequenceTheorems, TLAPS

(* The messages in the mailbox of a Replicator of the collections C, and   *)
(* its states.                                                             *)
Codes == {"none", "normal", "transient", "network"} \cup AppCodes
Reported == Errors \ AppCodes
Real(e) == e \notin AppCodes \cup {"none"}
Results == (Reported \ {"none"}) \cup {"ok", "lost", "missing", "conflict"}
Asks(C) == {GetCollections} \cup {"setCheckpoint", "getCheckpoint"} \X C
Answers(req, result) == result \in {"missing", "conflict"} => result \in Refusals(req[1])
Messages(C) ==
    [t : {"start", "stop", "connect"}] \cup [t : {"close"}, status : Codes \ {"none"}]
    \cup {m \in [t : {"response"}, req : Asks(C), result : Results] : Answers(m.req, m.result)}
    \cup [t : {"child"}, coll : C, level : Stopped .. Busy, err : Reported]
Replicators(C) ==
    [conn : {"closed", "connecting", "connected", "closing", "disconnected"}, linked : BOOLEAN,
     level : {Stopped, Connecting, Idle, Busy}, err : Errors, changed : BOOLEAN,
     pending : SUBSET Asks(C), started : BOOLEAN, waiting : BOOLEAN, delayed : Nat,
     lastLevel : Stopped .. Busy, close : Codes, saves : [C -> 0 .. 2], sub : [C -> Stopped .. Busy],
     overall : Stopped .. Busy, overallErr : Reported, box : Seq(Messages(C))]

Locals == [stopped : BOOLEAN, resume : BOOLEAN, finish : BOOLEAN, level : Stopped .. Busy, flags : SUBSET Flags]

(* It has not handled the start message yet. *)
Fresh(q) == q.conn = "closed" /\ q.linked

(* What holds of a Replicator at any time: `overall' is the level of the   *)
(* busiest collection; the connection is gone when it says so; the code    *)
(* with which it closes the connection because of an error says that it    *)
(* has one; and when it has stopped it has nothing more to do.             *)
OverallIsBusiest(q, C) == (\A c \in C : q.sub[c] <= q.overall) /\ \E c \in C : q.sub[c] = q.overall
ConnectionAgrees(q) ==
    /\ q.conn = "disconnected" => ~q.linked
    /\ ~q.linked => q.conn \in {"closed", "disconnected"}
ClosesForItsError(q) == q.close \in AppCodes => Real(q.err)
StoppedIsDone(q, C) ==
    q.level = Stopped => /\ ~q.linked /\ q.pending = {} /\ \A c \in C : q.sub[c] # Busy
                         /\ \A i \in 1 .. Len(q.box) : q.box[i].t # "response"
Sound(q, C) ==
    /\ q \in Replicators(C)
    /\ OverallIsBusiest(q, C) /\ ConnectionAgrees(q) /\ ClosesForItsError(q) /\ StoppedIsDone(q, C)

(* The start message comes first. *)
StartsOnce ==
    /\ \A i \in 1 .. Len(r.box) : r.box[i].t = "start" => i = 1 /\ Fresh(r)
    /\ Fresh(r) => /\ r.delayed = 0 /\ pc["repl"] = "idle"
                   /\ repl => link = "none" /\ r.box # << >> /\ r.box[1].t = "start"
ClosedIsClosed ==
    /\ ~r.linked => link = "closed"
    /\ \A i \in 1 .. Len(r.box) : r.box[i].t = "close" => link = "closed"
GoneIsNew == ~repl => r = NewReplicator(Colls) /\ pc["repl"] = "idle"

(* Someone is about to tell the client that the replicator is at rest. *)
WillBeTold ==
    level <= Offline => \/ level \in told
                        \/ \E t \in Threads : \/ pc[t] = "notify"
                                              \/ pc[t] = "call" /\ local[t].level = level

(* A stopped replicator is not offline, from where it might be retried. *)
StopIsFinal ==
    stopAsked => \/ \E c \in Clients : pc[c] \in {"cancel", "lock"}
                 \/ level \in {Stopped, Stopping} /\ "suspended" \notin flags

Types ==
    /\ mode \in Modes
    /\ level \in Stopped .. Stopping /\ err \in Errors /\ flags \subseteq Flags
    /\ repl \in BOOLEAN /\ cancelStop \in BOOLEAN /\ activeWhenSuspended \in BOOLEAN /\ selfRetain \in BOOLEAN
    /\ timer \in BOOLEAN /\ stopAsked \in BOOLEAN
    /\ retryCount \in 0 .. mode.maxRetries
    /\ pc \in [Threads -> {"idle", "cancel", "lock", "report", "notify", "call", "after", "afterEvent"}]
    /\ local \in [Threads -> Locals]
    /\ link \in {"none", "opening", "open", "closed"}
    /\ child \in [Colls -> [level : Stopped .. Busy, err : Reported]]
    /\ told \subseteq Stopped .. Busy
    /\ calls \in 0 .. mode.maxCalls /\ faults \in 0 .. mode.maxFaults

Works == Sound(r, Colls) /\ StartsOnce /\ ClosedIsClosed /\ GoneIsNew

IInv == Types /\ Works /\ LevelMatchesReplicator /\ WillBeTold /\ StopIsFinal

-----------------------------------------------------------------------------
(* What the Replicator makes of an event (module Replication).             *)

USE DEF Stopped, Offline, Connecting, Idle, Busy, Stopping

(* The maximum of the collections' levels exists. *)
LEMMA MaxLevelIsMax ==
    ASSUME NEW C, C # {}, NEW f \in [C -> 0 .. 4]
    PROVE  /\ MaxLevel(f) \in 0 .. 4
           /\ \A c \in C : f[c] <= MaxLevel(f)
           /\ \E c \in C : f[c] = MaxLevel(f)
  <1>1. \E c \in C : \A d \in C : f[d] <= f[c]
    <2>1. CASE \E c \in C : f[c] = 4
      BY <2>1
    <2>2. CASE (\A c \in C : f[c] \in 0 .. 3) /\ \E c \in C : f[c] = 3
      BY <2>2
    <2>3. CASE (\A c \in C : f[c] \in 0 .. 2) /\ \E c \in C : f[c] = 2
      BY <2>3
    <2>4. CASE (\A c \in C : f[c] \in 0 .. 1) /\ \E c \in C : f[c] = 1
      BY <2>4
    <2>5. CASE \A c \in C : f[c] = 0
      BY <2>5
    <2> QED
      BY <2>1, <2>2, <2>3, <2>4, <2>5
  <1>2. \E l \in {f[c] : c \in DOMAIN f} : \A c \in DOMAIN f : l >= f[c]
    BY <1>1
  <1>3. MaxLevel(f) \in {f[c] : c \in DOMAIN f} /\ \A c \in DOMAIN f : MaxLevel(f) >= f[c]
    BY <1>2 DEF MaxLevel
  <1> QED
    BY <1>3

(* The same Replicator but for its errors and the state of its connection. *)
Follows(p, q, C) ==
    /\ Sound(p, C) /\ ~Fresh(p)
    /\ p.box = q.box /\ p.linked = q.linked /\ p.level = q.level
    /\ Real(q.err) => Real(p.err)

LEMMA DisconnectIsSound ==
    ASSUME NEW C, NEW q, Sound(q, C), ~Fresh(q), NEW code \in Codes,
           code \in AppCodes => Real(q.err)
    PROVE  Follows(Disconnect(q, code), q, C)
  <1> DEFINE p == [q EXCEPT !.conn = "closing", !.close = IF @ = "none" THEN code ELSE @]
  <1>1. CASE q.linked
    <2>1. p \in Replicators(C)
      BY DEF Sound, Replicators, Codes
    <2>2. /\ p.conn = "closing" /\ p.close = (IF q.close = "none" THEN code ELSE q.close)
          /\ p.linked = q.linked /\ p.level = q.level /\ p.err = q.err /\ p.pending = q.pending /\ p.sub = q.sub
          /\ p.overall = q.overall /\ p.box = q.box
      BY DEF Sound, Replicators
    <2> HIDE DEF p
    <2>3. OverallIsBusiest(p, C) /\ ConnectionAgrees(p)
      BY <1>1, <2>2 DEF OverallIsBusiest, ConnectionAgrees, Sound
    <2>4. ClosesForItsError(p) /\ StoppedIsDone(p, C)
      BY <2>2 DEF ClosesForItsError, StoppedIsDone, Sound
    <2>5. Follows(p, q, C)
      BY <2>1, <2>2, <2>3, <2>4 DEF Follows, Sound, Fresh
    <2> QED
      BY <1>1, <2>5 DEF Disconnect, p
  <1>2. CASE ~q.linked
    BY <1>2 DEF Disconnect, Follows
  <1> QED
    BY <1>1, <1>2

LEMMA OnErrorIsSound ==
    ASSUME NEW C, NEW q, Sound(q, C), ~Fresh(q), NEW e \in Errors \ {"none"}
    PROVE  Follows(OnError(q, e), q, C)
  <1> DEFINE p == [q EXCEPT !.err = e, !.changed = TRUE]
  <1>1. CASE e \in AppCodes /\ q.err # "none"
    <2>1. OnError(q, e) = q
      BY <1>1 DEF OnError, AppCodes
    <2>2. Follows(q, q, C)
      BY DEF Follows
    <2> QED
      BY <2>1, <2>2
  <1>2. CASE Real(q.err) => Real(e)
    <2>1. p \in Replicators(C)
      BY DEF Sound, Replicators
    <2>2. /\ p.err = e /\ p.conn = q.conn /\ p.close = q.close
          /\ p.linked = q.linked /\ p.level = q.level /\ p.pending = q.pending /\ p.sub = q.sub
          /\ p.overall = q.overall /\ p.box = q.box
      BY DEF Sound, Replicators
    <2> HIDE DEF p
    <2>3. OverallIsBusiest(p, C) /\ ConnectionAgrees(p)
      BY <2>2 DEF OverallIsBusiest, ConnectionAgrees, Sound
    <2>4. ClosesForItsError(p) /\ StoppedIsDone(p, C)
      BY <1>2, <2>2 DEF ClosesForItsError, StoppedIsDone, Sound
    <2>5. Follows(p, q, C)
      BY <1>2, <2>1, <2>2, <2>3, <2>4 DEF Follows, Sound, Fresh
    <2>6. Real(e) => Follows(Disconnect(p, "appPermanent"), p, C) /\ Follows(Disconnect(p, "appTransient"), p, C)
      BY <2>2, <2>5, DisconnectIsSound DEF Follows, Codes, AppCodes
    <2>7. Real(e) => Follows(Disconnect(p, "appPermanent"), q, C) /\ Follows(Disconnect(p, "appTransient"), q, C)
      BY <2>5, <2>6 DEF Follows
    <2>8. OnError(q, e) \in {q, p} \/ (Real(e) /\ OnError(q, e) \in {Disconnect(p, "appPermanent"), Disconnect(p, "appTransient")})
      BY DEF OnError, p, Real, AppCodes
    <2>9. Follows(q, q, C)
      BY DEF Follows
    <2> QED
      BY <2>5, <2>7, <2>8, <2>9
  <1> QED
    BY <1>1, <1>2 DEF Real

(* What a handler makes of the Replicator q, from whose mailbox it has     *)
(* taken a message: it has started, and may have sent itself a message.    *)
Handled(p, q, C) ==
    /\ Sound(p, C) /\ ~Fresh(p)
    /\ p.box = q.box \/ p.box = Append(q.box, [t |-> "stop"])

(* One more message is as good as those that are there. *)
Received(p, q, m, C) ==
    /\ Sound(p, C) /\ p.box = Append(q.box, m)
    /\ p.conn = q.conn /\ p.linked = q.linked /\ p.level = q.level /\ p.delayed = q.delayed

LEMMA EnqueueIsSound ==
    ASSUME NEW C, NEW q, Sound(q, C), NEW m \in Messages(C),
           m.t = "response" => q.level # Stopped
    PROVE  Received(Enqueue(q, m), q, m, C)
  <1> DEFINE p == Enqueue(q, m)
  <1>1. q.box \in Seq(Messages(C)) /\ Append(q.box, m) \in Seq(Messages(C))
    BY DEF Sound, Replicators
  <1>2. p \in Replicators(C)
    BY <1>1 DEF Enqueue, Sound, Replicators
  <1>3. /\ p.err = q.err /\ p.conn = q.conn /\ p.close = q.close /\ p.delayed = q.delayed
        /\ p.linked = q.linked /\ p.level = q.level /\ p.pending = q.pending /\ p.sub = q.sub
        /\ p.overall = q.overall /\ p.box = Append(q.box, m)
    BY DEF Enqueue, Sound, Replicators
  <1> HIDE DEF p
  <1>4. OverallIsBusiest(p, C) /\ ConnectionAgrees(p) /\ ClosesForItsError(p)
    BY <1>3 DEF OverallIsBusiest, ConnectionAgrees, ClosesForItsError, Sound
  <1>5. StoppedIsDone(p, C)
    <2>1. ASSUME NEW i \in 1 .. Len(p.box)
          PROVE  p.box[i] = m \/ (i \in 1 .. Len(q.box) /\ p.box[i] = q.box[i])
      BY <1>1, <1>3
    <2> QED
      BY <1>3, <2>1 DEF StoppedIsDone, Sound
  <1>6. Sound(p, C)
    BY <1>2, <1>4, <1>5 DEF Sound
  <1> QED
    BY <1>3, <1>6 DEF p, Received

LEMMA StartIsSound ==
    ASSUME NEW C, NEW q, Sound(q, C), NEW e \in {"none", "other"}, q.linked
    PROVE  Handled(Start(q, e), q, C) /\ Start(q, e).linked
  <1> DEFINE p == [q EXCEPT !.conn = "connecting"]
  <1>1. p \in Replicators(C)
    BY DEF Sound, Replicators
  <1>2. /\ p.err = q.err /\ p.conn = "connecting" /\ p.close = q.close
        /\ p.linked = q.linked /\ p.level = q.level /\ p.pending = q.pending /\ p.sub = q.sub
        /\ p.overall = q.overall /\ p.box = q.box
    BY DEF Sound, Replicators
  <1> HIDE DEF p
  <1>3. OverallIsBusiest(p, C) /\ ConnectionAgrees(p)
    BY <1>2 DEF OverallIsBusiest, ConnectionAgrees, Sound
  <1>4. ClosesForItsError(p) /\ StoppedIsDone(p, C)
    BY <1>2 DEF ClosesForItsError, StoppedIsDone, Sound
  <1>5. Sound(p, C) /\ ~Fresh(p)
    BY <1>1, <1>2, <1>3, <1>4 DEF Sound, Fresh
  <1>6. CASE e = "none"
    BY <1>2, <1>5, <1>6 DEF Start, Handled, p
  <1>7. CASE e = "other"
    <2>1. Follows(OnError(p, e), p, C)
      BY <1>5, <1>7, OnErrorIsSound DEF Errors, AppCodes
    <2>2. [t |-> "stop"] \in Messages(C)
      BY DEF Messages
    <2> DEFINE o == OnError(p, e)
               m == [t |-> "stop"]
    <2>3. Sound(o, C) /\ ~Fresh(o) /\ o.box = q.box /\ o.linked
      BY <1>2, <2>1 DEF Follows
    <2>4. m.t # "response"
      OBVIOUS
    <2> HIDE DEF o, m
    <2>5. Received(Enqueue(o, m), o, m, C)
      BY <2>2, <2>3, <2>4, EnqueueIsSound DEF m
    <2>6. Handled(Enqueue(o, m), q, C) /\ Enqueue(o, m).linked
      BY <2>3, <2>5 DEF Received, Handled, Fresh, m
    <2> QED
      BY <1>7, <2>6 DEF Start, o, m, p
  <1> QED
    BY <1>6, <1>7

LEMMA OnConnectIsSound ==
    ASSUME NEW C, NEW q, Sound(q, C), ~Fresh(q)
    PROVE  Handled(OnConnect(q), q, C) /\ OnConnect(q).linked = q.linked
  <1> DEFINE p == [q EXCEPT !.conn = "connected", !.pending = @ \cup {GetCollections}]
  <1>1. CASE q.conn = "connecting"
    <2>1. p \in Replicators(C)
      BY DEF Sound, Replicators, Asks
    <2>2. /\ p.err = q.err /\ p.conn = "connected" /\ p.close = q.close
          /\ p.linked = q.linked /\ p.level = q.level /\ p.sub = q.sub
          /\ p.overall = q.overall /\ p.box = q.box
      BY DEF Sound, Replicators
    <2> HIDE DEF p
    <2>3. OverallIsBusiest(p, C) /\ ConnectionAgrees(p) /\ q.linked
      BY <1>1, <2>2 DEF OverallIsBusiest, ConnectionAgrees, Sound
    <2>4. ClosesForItsError(p) /\ StoppedIsDone(p, C)
      BY <2>2, <2>3 DEF ClosesForItsError, StoppedIsDone, Sound
    <2>5. Handled(p, q, C)
      BY <2>1, <2>2, <2>3, <2>4 DEF Handled, Sound, Fresh
    <2> QED
      BY <1>1, <2>2, <2>5 DEF OnConnect, p
  <1>2. CASE q.conn # "connecting"
    BY <1>2 DEF OnConnect, Handled
  <1> QED
    BY <1>1, <1>2

LEMMA OnCloseIsSound ==
    ASSUME NEW C, NEW q, Sound(q, C), NEW status \in Codes \ {"none"}
    PROVE  Handled(OnClose(q, status), q, C)
  <1> DEFINE p == [q EXCEPT !.conn = IF status = "normal" THEN "closed" ELSE "disconnected", !.linked = FALSE]
             e == IF status = "normal" THEN (IF q.conn # "closing" THEN "goingAway" ELSE "none") ELSE status
  <1>1. p \in Replicators(C)
    BY DEF Sound, Replicators
  <1>2. /\ p.err = q.err /\ p.conn \in {"closed", "disconnected"} /\ p.close = q.close
        /\ p.linked = FALSE /\ p.level = q.level /\ p.pending = q.pending /\ p.sub = q.sub
        /\ p.overall = q.overall /\ p.box = q.box
    BY DEF Sound, Replicators
  <1>3. e \in Errors
    BY DEF Codes, Errors, AppCodes
  <1>4. OnClose(q, status) = IF e = "none" THEN p ELSE OnError(p, e)
    BY DEF OnClose
  <1> HIDE DEF p, e
  <1>5. OverallIsBusiest(p, C) /\ ConnectionAgrees(p)
    BY <1>2 DEF OverallIsBusiest, ConnectionAgrees, Sound
  <1>6. ClosesForItsError(p) /\ StoppedIsDone(p, C)
    BY <1>2 DEF ClosesForItsError, StoppedIsDone, Sound
  <1>7. Sound(p, C) /\ ~Fresh(p)
    BY <1>1, <1>2, <1>5, <1>6 DEF Sound, Fresh
  <1>8. e # "none" => Follows(OnError(p, e), p, C)
    BY <1>3, <1>7, OnErrorIsSound
  <1> QED
    BY <1>2, <1>4, <1>7, <1>8 DEF Handled, Follows

(* Other requests and other saves, of a Replicator that has not stopped. *)
LEMMA RequestsOnly ==
    ASSUME NEW C, NEW q, Sound(q, C), ~Fresh(q), q.level # Stopped, NEW p \in Replicators(C),
           p.err = q.err, p.conn = q.conn, p.close = q.close, p.linked = q.linked, p.level = q.level,
           p.sub = q.sub, p.overall = q.overall, p.box = q.box
    PROVE  Follows(p, q, C)
  <1>1. OverallIsBusiest(p, C) /\ ConnectionAgrees(p) /\ ClosesForItsError(p)
    BY DEF OverallIsBusiest, ConnectionAgrees, ClosesForItsError, Sound
  <1>2. StoppedIsDone(p, C)
    BY DEF StoppedIsDone
  <1> QED
    BY <1>1, <1>2 DEF Follows, Sound, Fresh

LEMMA FollowsTrans ==
    ASSUME NEW C, NEW q, NEW p, NEW s, Follows(p, q, C), Follows(s, p, C)
    PROVE  Follows(s, q, C)
  BY DEF Follows

LEMMA SendIsSound ==
    ASSUME NEW C, NEW q, Sound(q, C), ~Fresh(q), q.level # Stopped, NEW req \in Asks(C)
    PROVE  Follows(Send(q, req), q, C)
  <1> DEFINE p == Send(q, req)
  <1>1. p \in Replicators(C)
    BY DEF Send, Sound, Replicators
  <1>2. /\ p.err = q.err /\ p.conn = q.conn /\ p.close = q.close /\ p.linked = q.linked /\ p.level = q.level
        /\ p.sub = q.sub /\ p.overall = q.overall /\ p.box = q.box
    BY DEF Send, Sound, Replicators
  <1> HIDE DEF p
  <1>3. Follows(p, q, C)
    BY <1>1, <1>2, RequestsOnly
  <1> QED
    BY <1>3 DEF p

Marked(q, c, n) == [q EXCEPT !.saves[c] = n]
LEMMA MarkedIsSound ==
    ASSUME NEW C, NEW q, Sound(q, C), ~Fresh(q), q.level # Stopped, NEW c \in C, NEW n \in 0 .. 2
    PROVE  Follows(Marked(q, c, n), q, C)
  <1> DEFINE p == Marked(q, c, n)
  <1>1. q.saves \in [C -> 0 .. 2] /\ [q.saves EXCEPT ![c] = n] \in [C -> 0 .. 2]
    BY DEF Sound, Replicators
  <1>2. p \in Replicators(C)
    BY <1>1 DEF Marked, Sound, Replicators
  <1>3. /\ p.err = q.err /\ p.conn = q.conn /\ p.close = q.close /\ p.linked = q.linked /\ p.level = q.level
        /\ p.sub = q.sub /\ p.overall = q.overall /\ p.box = q.box
    BY DEF Marked, Sound, Replicators
  <1> HIDE DEF p
  <1>4. Follows(p, q, C)
    BY <1>2, <1>3, RequestsOnly
  <1> QED
    BY <1>4 DEF p

LEMMA SaveIsSound ==
    ASSUME NEW C, NEW q, Sound(q, C), ~Fresh(q), q.level # Stopped, NEW c \in C
    PROVE  Follows(Save(q, c), q, C)
  <1> DEFINE one == Marked(q, c, 1)
             two == Marked(q, c, 2)
             req == <<"setCheckpoint", c>>
  <1>1. Follows(one, q, C) /\ Follows(two, q, C) /\ Follows(q, q, C)
    BY MarkedIsSound DEF Follows
  <1>2. req \in Asks(C)
    BY DEF Asks
  <1>3. Save(q, c) \in {Send(one, req), two, q}
    BY DEF Save, Marked
  <1> HIDE DEF one, two, req
  <1>4. Follows(Send(one, req), one, C)
    BY <1>1, <1>2, SendIsSound DEF Follows
  <1>5. Follows(Send(one, req), q, C)
    BY <1>1, <1>4, FollowsTrans
  <1> QED
    BY <1>1, <1>3, <1>5

LEMMA SaveCompletedIsSound ==
    ASSUME NEW C, NEW q, Sound(q, C), ~Fresh(q), q.level # Stopped, NEW c \in C
    PROVE  Follows(SaveCompleted(q, c), q, C)
  <1> DEFINE p == Marked(q, c, 0)
  <1>1. Follows(p, q, C)
    BY MarkedIsSound
  <1>2. SaveCompleted(q, c) \in {Save(p, c), p}
    BY DEF SaveCompleted, Marked
  <1> HIDE DEF p
  <1>3. Follows(Save(p, c), p, C)
    BY <1>1, SaveIsSound DEF Follows
  <1>4. Follows(Save(p, c), q, C)
    BY <1>1, <1>3, FollowsTrans
  <1> QED
    BY <1>1, <1>2, <1>4

LEMMA OnCollectionsIsSound ==
    ASSUME NEW C, NEW q, Sound(q, C), ~Fresh(q), q.level # Stopped, 
           NEW result \in Results \ {"lost", "conflict"}
    PROVE  Follows(OnCollections(q, result), q, C)
  <1> DEFINE p == [q EXCEPT !.started = TRUE]
  <1>1. p \in Replicators(C)
    BY DEF Sound, Replicators
  <1>2. /\ p.err = q.err /\ p.conn = q.conn /\ p.close = q.close /\ p.linked = q.linked /\ p.level = q.level
        /\ p.sub = q.sub /\ p.overall = q.overall /\ p.box = q.box
    BY DEF Sound, Replicators
  <1>3. CASE result = "ok"
    <2>1. OnCollections(q, result) = p
      BY <1>3 DEF OnCollections
    <2> HIDE DEF p
    <2>2. Follows(p, q, C)
      BY <1>1, <1>2, RequestsOnly
    <2> QED
      BY <2>1, <2>2
  <1>4. CASE result = "missing"
    <2> DEFINE o == OnError(q, "other")
    <2>1. Follows(o, q, C)
      BY OnErrorIsSound DEF Errors
    <2>2. OnCollections(q, result) = Disconnect(o, "normal")
      BY <1>4 DEF OnCollections
    <2> HIDE DEF o
    <2>3. Follows(Disconnect(o, "normal"), o, C)
      BY <2>1, DisconnectIsSound DEF Follows, Codes, AppCodes
    <2> QED
      BY <2>1, <2>2, <2>3, FollowsTrans
  <1>5. CASE result \in Reported \ {"none"}
    <2>1. OnCollections(q, result) = OnError(q, result)
      BY <1>5 DEF OnCollections, Reported, Errors
    <2>2. Follows(OnError(q, result), q, C)
      BY <1>5, OnErrorIsSound DEF Reported
    <2> QED
      BY <2>1, <2>2
  <1> QED
    BY <1>3, <1>4, <1>5 DEF Results

LEMMA OnCheckpointSetIsSound ==
    ASSUME NEW C, NEW q, Sound(q, C), ~Fresh(q), q.level # Stopped, NEW c \in C,
           NEW result \in Results \ {"lost", "missing"}
    PROVE  Follows(OnCheckpointSet(q, c, result), q, C)
  <1>1. CASE result = "ok"
    BY <1>1, SaveCompletedIsSound DEF OnCheckpointSet
  <1>2. CASE result = "conflict"
    <2> DEFINE req == <<"getCheckpoint", c>>
    <2>1. req \in Asks(C)
      BY DEF Asks
    <2>2. OnCheckpointSet(q, c, result) \in {Send(q, req), q}
      BY <1>2 DEF OnCheckpointSet
    <2> HIDE DEF req
    <2>3. Follows(Send(q, req), q, C) /\ Follows(q, q, C)
      BY <2>1, SendIsSound DEF Follows
    <2> QED
      BY <2>2, <2>3
  <1>3. CASE result \in Reported \ {"none"}
    <2> DEFINE o == OnError(q, result)
    <2>1. Follows(o, q, C)
      BY <1>3, OnErrorIsSound DEF Reported
    <2>2. OnCheckpointSet(q, c, result) = SaveCompleted(o, c)
      BY <1>3 DEF OnCheckpointSet, Reported, Errors
    <2> HIDE DEF o
    <2>3. Follows(SaveCompleted(o, c), o, C)
      BY <2>1, SaveCompletedIsSound DEF Follows
    <2> QED
      BY <2>1, <2>2, <2>3, FollowsTrans
  <1> QED
    BY <1>1, <1>2, <1>3 DEF Results

LEMMA OnCheckpointGotIsSound ==
    ASSUME NEW C, NEW q, Sound(q, C), ~Fresh(q), q.level # Stopped, NEW c \in C,
           NEW result \in Results \ {"lost", "missing", "conflict"}
    PROVE  Follows(OnCheckpointGot(q, c, result), q, C)
  <1>1. CASE result = "ok"
    <2> DEFINE req == <<"setCheckpoint", c>>
    <2>1. req \in Asks(C)
      BY DEF Asks
    <2>2. OnCheckpointGot(q, c, result) = Send(q, req)
      BY <1>1 DEF OnCheckpointGot
    <2> HIDE DEF req
    <2>3. Follows(Send(q, req), q, C)
      BY <2>1, SendIsSound
    <2> QED
      BY <2>2, <2>3
  <1>2. CASE result \in Reported \ {"none"}
    <2>1. OnCheckpointGot(q, c, result) = OnError(q, result)
      BY <1>2 DEF OnCheckpointGot, Reported, Errors
    <2>2. Follows(OnError(q, result), q, C)
      BY <1>2, OnErrorIsSound DEF Reported
    <2> QED
      BY <2>1, <2>2
  <1> QED
    BY <1>1, <1>2 DEF Results

LEMMA OnResponseIsSound ==
    ASSUME NEW C, NEW q, Sound(q, C), ~Fresh(q), q.level # Stopped,
           NEW m, m.req \in Asks(C), m.result \in Results, Answers(m.req, m.result)
    PROVE  Handled(OnResponse(q, m), q, C) /\ OnResponse(q, m).linked = q.linked
  <1> DEFINE p == [q EXCEPT !.pending = @ \ {m.req}]
             k == m.req[1]
             c == m.req[2]
  <1>1. p \in Replicators(C)
    BY DEF Sound, Replicators
  <1>2. /\ p.err = q.err /\ p.conn = q.conn /\ p.close = q.close /\ p.linked = q.linked /\ p.level = q.level
        /\ p.sub = q.sub /\ p.overall = q.overall /\ p.box = q.box
    BY DEF Sound, Replicators
  <1>3. k = "getCollections" \/ (k \in {"setCheckpoint", "getCheckpoint"} /\ c \in C)
    BY DEF Asks, GetCollections
  <1>4. /\ m.result = "missing" => k = "getCollections"
        /\ m.result = "conflict" => k = "setCheckpoint"
    BY DEF Answers, Refusals
  <1>5. \/ m.result = "lost" /\ OnResponse(q, m) = p
        \/ m.result # "lost" /\ k = "getCollections" /\ OnResponse(q, m) = OnCollections(p, m.result)
        \/ m.result # "lost" /\ k = "setCheckpoint" /\ OnResponse(q, m) = OnCheckpointSet(p, c, m.result)
        \/ m.result # "lost" /\ k = "getCheckpoint" /\ OnResponse(q, m) = OnCheckpointGot(p, c, m.result)
    BY <1>3 DEF OnResponse
  <1> HIDE DEF p, k, c
  <1>6. Follows(p, q, C)
    BY <1>1, <1>2, RequestsOnly
  <1>7. Sound(p, C) /\ ~Fresh(p) /\ p.level # Stopped
    BY <1>6 DEF Follows
  <1>8. Follows(OnResponse(q, m), p, C)
    <2>1. CASE m.result = "lost" /\ OnResponse(q, m) = p
      BY <1>7, <2>1 DEF Follows
    <2>2. CASE m.result # "lost" /\ k = "getCollections" /\ OnResponse(q, m) = OnCollections(p, m.result)
      BY <1>4, <1>7, <2>2, OnCollectionsIsSound
    <2>3. CASE m.result # "lost" /\ k = "setCheckpoint" /\ OnResponse(q, m) = OnCheckpointSet(p, c, m.result)
      BY <1>3, <1>4, <1>7, <2>3, OnCheckpointSetIsSound
    <2>4. CASE m.result # "lost" /\ k = "getCheckpoint" /\ OnResponse(q, m) = OnCheckpointGot(p, c, m.result)
      BY <1>3, <1>4, <1>7, <2>4, OnCheckpointGotIsSound
    <2> QED
      BY <1>5, <2>1, <2>2, <2>3, <2>4
  <1>9. Follows(OnResponse(q, m), q, C)
    BY <1>6, <1>8, FollowsTrans
  <1> QED
    BY <1>9 DEF Handled, Follows

LEMMA UpdateStatusIsSound ==
    ASSUME NEW C, C # {}, NEW q, Sound(q, C), ~Fresh(q), q.level # Stopped,
           NEW c \in C, NEW l \in Stopped .. Busy, NEW e \in Reported
    PROVE  Follows(UpdateStatus(q, c, l, e), q, C)
  <1> DEFINE p == UpdateStatus(q, c, l, e)
             levels == [q.sub EXCEPT ![c] = l]
  <1>1. levels \in [C -> 0 .. 4] /\ q.sub \in [C -> 0 .. 4] /\ q.overall \in 0 .. 4 /\ q.overallErr \in Reported
    BY DEF Sound, Replicators
  <1>2. /\ MaxLevel(levels) \in 0 .. 4
        /\ \A d \in C : levels[d] <= MaxLevel(levels)
        /\ \E d \in C : levels[d] = MaxLevel(levels)
    BY <1>1, MaxLevelIsMax
  <1> DEFINE overall == IF l >= q.overall THEN l
                        ELSE IF q.sub[c] >= q.overall THEN MaxLevel(levels) ELSE q.overall
             overallErr == IF q.overallErr = "none" \/ (MayBeTransient(q.overallErr) /\ ~MayBeTransient(e))
                           THEN e ELSE q.overallErr
  <1>3. p = [q EXCEPT !.sub = levels, !.overall = overall, !.overallErr = overallErr]
    BY DEF UpdateStatus
  <1>4. overall \in 0 .. 4 /\ overallErr \in Reported
    BY <1>1, <1>2
  <1>5. (\A d \in C : levels[d] <= overall) /\ \E d \in C : levels[d] = overall
    <2>1. (\A d \in C : q.sub[d] <= q.overall) /\ \E d \in C : q.sub[d] = q.overall
      BY DEF Sound, OverallIsBusiest
    <2>2. levels[c] = l /\ \A d \in C \ {c} : levels[d] = q.sub[d]
      BY <1>1
    <2>3. CASE l >= q.overall
      BY <1>1, <2>1, <2>2, <2>3
    <2>4. CASE l < q.overall /\ q.sub[c] >= q.overall
      BY <1>1, <1>2, <2>4
    <2>5. CASE l < q.overall /\ q.sub[c] < q.overall
      BY <1>1, <2>1, <2>2, <2>5
    <2> QED
      BY <1>1, <2>3, <2>4, <2>5
  <1> HIDE DEF levels, overall, overallErr
  <1>6. p \in Replicators(C)
    BY <1>1, <1>3, <1>4 DEF Sound, Replicators
  <1>7. /\ p.err = q.err /\ p.conn = q.conn /\ p.close = q.close /\ p.pending = q.pending
        /\ p.linked = q.linked /\ p.level = q.level /\ p.sub = levels
        /\ p.overall = overall /\ p.box = q.box
    BY <1>3 DEF Sound, Replicators
  <1> HIDE DEF p
  <1>8. OverallIsBusiest(p, C) /\ ConnectionAgrees(p)
    BY <1>5, <1>7 DEF OverallIsBusiest, ConnectionAgrees, Sound
  <1>9. ClosesForItsError(p) /\ StoppedIsDone(p, C)
    BY <1>7 DEF ClosesForItsError, StoppedIsDone, Sound
  <1>10. Sound(p, C) /\ ~Fresh(p)
    BY <1>6, <1>7, <1>8, <1>9 DEF Sound, Fresh
  <1> QED
    BY <1>7, <1>10 DEF p, Follows

LEMMA ChildChangedStatusIsSound ==
    ASSUME NEW C, C # {}, NEW q, Sound(q, C), ~Fresh(q),
           NEW m, m.coll \in C, m.level \in Stopped .. Busy, m.err \in Reported, NEW save \in BOOLEAN
    PROVE  Handled(ChildChangedStatus(q, m, save), q, C) /\ ChildChangedStatus(q, m, save).linked = q.linked
  <1>1. CASE q.level = Stopped
    BY <1>1 DEF ChildChangedStatus, Handled
  <1>2. CASE q.level # Stopped
    <2> DEFINE p == UpdateStatus(q, m.coll, m.level, m.err)
               s == IF p.overallErr # "none" THEN OnError(p, p.overallErr) ELSE p
    <2>1. Sound(p, C) /\ ~Fresh(p) /\ p.box = q.box /\ p.linked = q.linked /\ p.level = q.level
      <3>1. Follows(p, q, C)
        BY <1>2, UpdateStatusIsSound
      <3> HIDE DEF p
      <3> QED
        BY <3>1 DEF Follows
    <2>2. ChildChangedStatus(q, m, save) \in {Save(s, m.coll), s}
      BY <1>2 DEF ChildChangedStatus
    <2> HIDE DEF p
    <2>3. p.overallErr \in Reported
      BY <2>1 DEF Sound, Replicators
    <2>4. p.overallErr # "none" => Follows(OnError(p, p.overallErr), p, C)
      BY <2>1, <2>3, OnErrorIsSound DEF Reported
    <2>5. Sound(s, C) /\ ~Fresh(s) /\ s.box = q.box /\ s.linked = q.linked /\ s.level = q.level
      BY <2>1, <2>4 DEF Follows
    <2> HIDE DEF s
    <2>6. Follows(Save(s, m.coll), s, C)
      BY <1>2, <2>5, SaveIsSound
    <2> QED
      BY <2>2, <2>5, <2>6 DEF Handled, Follows
  <1> QED
    BY <1>1, <1>2

(* computeActivityLevel() says `stopped' only when the connection is gone  *)
(* and there is nothing more to do.                                        *)
LEMMA ComputeActivityLevelIsSound ==
    ASSUME NEW C, NEW q, Sound(q, C), ~Fresh(q), NEW others \in Nat, NEW continuous \in BOOLEAN
    PROVE  LET a == ComputeActivityLevel(q, others, continuous)
           IN  /\ Follows(a.q, q, C) /\ a.level \in {Stopped, Connecting, Idle, Busy}
               /\ a.level = Stopped => ~q.linked /\ q.pending = {} /\ \A c \in C : q.sub[c] # Busy
               /\ a.level = Stopped => a.q = q /\ (q.level = Stopped \/ others = 0)
  <1> DEFINE a == ComputeActivityLevel(q, others, continuous)
             w == WorkerLevel(q, others)
             l == IF w < q.overall THEN q.overall ELSE w
  <1>1. q.overall \in 0 .. 4 /\ q.level \in {0, 2, 3, 4} /\ q.delayed \in Nat /\ q.sub \in [C -> 0 .. 4]
        /\ q.conn \in {"closed", "connecting", "connected", "closing", "disconnected"}
    BY DEF Sound, Replicators
  <1>2. w \in {3, 4} /\ (w = 3 => q.pending = {} /\ others = 0)
    BY DEF WorkerLevel
  <1> HIDE DEF w
  <1>3. l \in {3, 4} /\ (l = 3 => q.pending = {} /\ others = 0 /\ \A c \in C : q.sub[c] # 4)
    BY <1>1, <1>2 DEF Sound, OverallIsBusiest
  <1>4. Follows(q, q, C) /\ Follows(Disconnect(q, "normal"), q, C)
    BY DisconnectIsSound DEF Follows, Codes, AppCodes
  <1>5. CASE q.level = Stopped
    BY <1>4, <1>5 DEF ComputeActivityLevel, Sound, StoppedIsDone
  <1>6. CASE q.level # Stopped /\ q.conn \in {"connecting", "connected", "closing"}
    <2> DEFINE v == IF Unsaved(q) THEN Busy ELSE w
               k == IF v < q.overall THEN q.overall ELSE v
    <2>1. k \in {3, 4}
      BY <1>1, <1>2
    <2>2. \/ a = [q |-> q, level |-> 2] \/ a = [q |-> q, level |-> k] \/ a = [q |-> q, level |-> 4]
          \/ a = [q |-> Disconnect(q, "normal"), level |-> 4]
      BY <1>6 DEF ComputeActivityLevel, w
    <2> HIDE DEF a, k
    <2> QED
      BY <1>4, <2>1, <2>2 DEF a
  <1>7. CASE q.level # Stopped /\ q.conn \in {"closed", "disconnected"}
    <2>1. ~q.linked
      BY <1>7 DEF Fresh, Sound, ConnectionAgrees
    <2>2. a.q = q /\ a.level = AfterClose(q, others)
      BY <1>7 DEF ComputeActivityLevel
    <2>3. /\ AfterClose(q, others) \in {0, 2, 4}
          /\ AfterClose(q, others) = 0 => l = 3
      BY <1>3 DEF AfterClose, w
    <2> QED
      BY <1>3, <1>4, <2>1, <2>2, <2>3
  <1> QED
    BY <1>1, <1>5, <1>6, <1>7

LEMMA AfterEventIsSound ==
    ASSUME NEW C, NEW q, Sound(q, C), ~Fresh(q), NEW continuous \in BOOLEAN, NEW now \in BOOLEAN
    PROVE  LET p == AfterEvent(q, continuous, now).q
           IN  Sound(p, C) /\ ~Fresh(p) /\ p.box = q.box /\ p.linked = q.linked
  <1> DEFINE a == ComputeActivityLevel(q, Len(q.box), continuous)
             p == [a.q EXCEPT !.level = a.level, !.changed = FALSE]
             s == ReportStatus(p)
             u == [p EXCEPT !.waiting = TRUE, !.delayed = @ + 1]
  <1>1. Len(q.box) \in Nat
    BY DEF Sound, Replicators
  <1>2. /\ Follows(a.q, q, C) /\ a.level \in {Stopped, Connecting, Idle, Busy}
        /\ a.level = Stopped => ~q.linked /\ q.pending = {} /\ \A c \in C : q.sub[c] # Busy
        /\ a.level = Stopped => a.q = q /\ (q.level = Stopped \/ Len(q.box) = 0)
    BY <1>1, ComputeActivityLevelIsSound
  <1>3. AfterEvent(q, continuous, now).q \in {p, s, u}
    BY DEF AfterEvent
  <1> DEFINE b == a.q
             v == a.level
  <1>4. Sound(b, C) /\ ~Fresh(b) /\ b.box = q.box /\ b.linked = q.linked
    BY <1>2 DEF Follows
  <1>5. /\ v \in {0, 2, 3, 4}
        /\ v = 0 => ~b.linked /\ b.pending = {} /\ \A c \in C : b.sub[c] # Busy
        /\ v = 0 => \A i \in 1 .. Len(b.box) : b.box[i].t # "response"
    <2>1. v = 0 => b = q /\ (q.level = Stopped \/ Len(q.box) = 0)
      BY <1>2
    <2>2. v \in {0, 2, 3, 4} /\ (v = 0 => ~q.linked /\ q.pending = {} /\ \A c \in C : q.sub[c] # Busy)
      BY <1>2
    <2> HIDE DEF a, b, v
    <2> QED
      BY <2>1, <2>2 DEF Sound, StoppedIsDone
  <1> HIDE DEF a, b, v
  <1>6. p \in Replicators(C)
    BY <1>4, <1>5 DEF Sound, Replicators, b, v
  <1>7. /\ p.err = b.err /\ p.conn = b.conn /\ p.close = b.close /\ p.pending = b.pending
        /\ p.linked = b.linked /\ p.level = v /\ p.sub = b.sub
        /\ p.overall = b.overall /\ p.box = b.box
    BY <1>4 DEF Sound, Replicators, b, v
  <1> HIDE DEF p
  <1>8. s \in Replicators(C) /\ u \in Replicators(C)
    <2>1. p.level \in 0 .. 4 /\ p.delayed + 1 \in Nat
      BY <1>6 DEF Replicators
    <2>2. s \in Replicators(C)
      BY <1>6, <2>1 DEF Replicators, ReportStatus
    <2>3. u \in Replicators(C)
      BY <1>6, <2>1 DEF Replicators
    <2> QED
      BY <2>2, <2>3
  <1>9. /\ s.err = b.err /\ s.conn = b.conn /\ s.close = b.close /\ s.pending = b.pending
        /\ s.linked = b.linked /\ s.level = v /\ s.sub = b.sub
        /\ s.overall = b.overall /\ s.box = b.box
    BY <1>6, <1>7 DEF Replicators, ReportStatus
  <1>10. /\ u.err = b.err /\ u.conn = b.conn /\ u.close = b.close /\ u.pending = b.pending
         /\ u.linked = b.linked /\ u.level = v /\ u.sub = b.sub
         /\ u.overall = b.overall /\ u.box = b.box
    BY <1>6, <1>7 DEF Replicators
  <1> HIDE DEF s, u
  <1>11. ASSUME NEW x \in {p, s, u} PROVE Sound(x, C) /\ ~Fresh(x) /\ x.box = q.box /\ x.linked = q.linked
    <2>1. OverallIsBusiest(x, C) /\ ConnectionAgrees(x)
      BY <1>4, <1>7, <1>9, <1>10 DEF OverallIsBusiest, ConnectionAgrees, Sound
    <2>2. ClosesForItsError(x)
      BY <1>4, <1>7, <1>9, <1>10 DEF ClosesForItsError, Sound
    <2>3. StoppedIsDone(x, C)
      BY <1>5, <1>7, <1>9, <1>10 DEF StoppedIsDone
    <2> QED
      BY <1>4, <1>6, <1>7, <1>8, <1>9, <1>10, <2>1, <2>2, <2>3 DEF Sound, Fresh
  <1> QED
    BY <1>3, <1>11

-----------------------------------------------------------------------------
(* What steps have in common. *)

LEMMA ModeFacts ==
    ASSUME Types
    PROVE  /\ Colls # {} /\ mode.remote \in BOOLEAN /\ mode.continuous \in BOOLEAN
           /\ mode.maxRetries \in Nat /\ mode.maxCalls \in Nat /\ mode.maxFaults \in Nat
  BY LifecycleAssumption DEF Types, Colls

LEMMA ThreadFacts ==
    /\ "repl" \in Threads /\ "old" \in Threads /\ "timer" \in Threads /\ Clients \subseteq Threads
    /\ \A c \in Clients : c # "repl" /\ c # "old" /\ c # "timer"
  BY LifecycleAssumption DEF Threads

LEMMA LocalFacts ==
    /\ NoLocal \in Locals
    /\ \A x \in Locals : \A b \in BOOLEAN :
          /\ [x EXCEPT !.stopped = b] \in Locals /\ [x EXCEPT !.resume = b] \in Locals
          /\ [x EXCEPT !.finish = b] \in Locals
    /\ \A x \in Locals : \A l \in Stopped .. Busy : [x EXCEPT !.level = l] \in Locals
  <1>1. NoLocal \in Locals
    BY DEF NoLocal, Locals, Flags
  <1>2. ASSUME NEW x \in Locals, NEW b \in BOOLEAN
        PROVE  /\ [x EXCEPT !.stopped = b] \in Locals /\ [x EXCEPT !.resume = b] \in Locals
               /\ [x EXCEPT !.finish = b] \in Locals
    BY DEF Locals
  <1>3. ASSUME NEW x \in Locals, NEW l \in Stopped .. Busy
        PROVE  [x EXCEPT !.level = l] \in Locals
    BY DEF Locals
  <1> QED
    BY <1>1, <1>2, <1>3

(* A step that does not concern the Replicator. *)
LEMMA WorksFrame ==
    ASSUME Works, mode' = mode, UNCHANGED worker, repl' = repl,
           pc'["repl"] = pc["repl"] \/ pc["repl"] # "idle"
    PROVE  Works'
  <1>1. r' = r /\ link' = link /\ Colls' = Colls
    BY DEF worker, Colls
  <1>2. Sound(r, Colls)'
    BY <1>1 DEF Works, Sound, Replicators, Messages, Reported, Asks, Answers, Refusals, Results, Codes,
                OverallIsBusiest,
                ConnectionAgrees, ClosesForItsError, StoppedIsDone
  <1>3. StartsOnce'
    BY <1>1 DEF Works, StartsOnce, Fresh
  <1>4. ClosedIsClosed'
    BY <1>1 DEF Works, ClosedIsClosed
  <1>5. GoneIsNew'
    BY <1>1 DEF Works, GoneIsNew
  <1> QED
    BY <1>2, <1>3, <1>4, <1>5 DEF Works

(* A new Replicator is sound. *)
LEMMA NewIsSound ==
    ASSUME NEW C, C # {}
    PROVE  Sound(NewReplicator(C), C) /\ Fresh(NewReplicator(C))
  <1> DEFINE p == NewReplicator(C)
  <1>1. p \in Replicators(C)
    BY DEF NewReplicator, Replicators, Reported, Errors, AppCodes, Codes
  <1>2. /\ p.conn = "closed" /\ p.linked = TRUE /\ p.level = 2 /\ p.close = "none" /\ p.box = << >>
        /\ p.sub = [c \in C |-> 4] /\ p.overall = 4
    BY DEF NewReplicator
  <1> HIDE DEF p
  <1>3. OverallIsBusiest(p, C) /\ ConnectionAgrees(p) /\ StoppedIsDone(p, C) /\ Fresh(p)
    BY <1>2 DEF OverallIsBusiest, ConnectionAgrees, StoppedIsDone, Fresh
  <1>4. ClosesForItsError(p)
    BY <1>2 DEF ClosesForItsError, AppCodes
  <1> QED
    BY <1>1, <1>3, <1>4 DEF Sound, p

(* The mailbox after a message has come in. *)
LEMMA AppendFacts ==
    ASSUME NEW S, NEW b \in Seq(S), NEW m \in S
    PROVE  /\ Len(Append(b, m)) = Len(b) + 1 /\ Len(b) \in Nat
           /\ \A i \in 1 .. Len(b) : Append(b, m)[i] = b[i]
           /\ Append(b, m)[Len(b) + 1] = m
           /\ Append(b, m) # << >>
  BY AppendProperties

LEMMA TailFacts ==
    ASSUME NEW S, NEW b \in Seq(S), b # << >>
    PROVE  /\ Head(b) \in S /\ Head(b) = b[1] /\ Tail(b) \in Seq(S)
           /\ Len(b) \in Nat /\ Len(b) >= 1 /\ Len(Tail(b)) = Len(b) - 1
           /\ \A i \in 1 .. Len(Tail(b)) : i + 1 \in 1 .. Len(b) /\ Tail(b)[i] = b[i + 1]
  BY HeadTailProperties, EmptySeq

(* Something comes in for the Replicator. *)
LEMMA WorksEnqueue ==
    ASSUME Types, Works, repl, repl' = repl, mode' = mode, pc'["repl"] = pc["repl"],
           NEW m \in Messages(Colls), m.t # "start", r' = Enqueue(r, m),
           m.t = "response" => r.level # Stopped,
           link = "closed" \/ m.t = "close" => link' = "closed",
           link = "none" => link' = "none"
    PROVE  Works'
  <1>0. Received(r', r, m, Colls)
    BY EnqueueIsSound DEF Works
  <1>1. /\ Sound(r', Colls) /\ r'.box = Append(r.box, m)
        /\ r'.conn = r.conn /\ r'.linked = r.linked /\ r'.level = r.level /\ r'.delayed = r.delayed
    BY <1>0 DEF Received
  <1>2. Sound(r, Colls)'
    BY <1>1 DEF Sound, Replicators, Messages, Reported, Asks, Answers, Refusals, Results, Codes,
                OverallIsBusiest,
                ConnectionAgrees, ClosesForItsError, StoppedIsDone, Colls
  <1>3. r.box \in Seq(Messages(Colls))
    BY DEF Works, Sound, Replicators
  <1>4. /\ Len(r'.box) = Len(r.box) + 1 /\ Len(r.box) \in Nat
        /\ \A i \in 1 .. Len(r.box) : r'.box[i] = r.box[i]
        /\ r'.box[Len(r.box) + 1] = m /\ r'.box # << >>
    BY <1>1, <1>3, AppendFacts
  <1>5. Fresh(r') <=> Fresh(r)
    BY <1>1 DEF Fresh
  <1>6. \A i \in 1 .. Len(r'.box) : r'.box[i] = m \/ (i \in 1 .. Len(r.box) /\ r'.box[i] = r.box[i])
    BY <1>4
  <1>7. StartsOnce'
    <2>1. \A i \in 1 .. Len(r'.box) : r'.box[i].t = "start" => i = 1 /\ Fresh(r')
      BY <1>5, <1>6 DEF Works, StartsOnce
    <2>2. ASSUME Fresh(r') PROVE r'.delayed = 0 /\ pc'["repl"] = "idle" /\ link' = "none" /\ r'.box # << >> /\ r'.box[1].t = "start"
      <3>1. r.delayed = 0 /\ pc["repl"] = "idle" /\ link = "none" /\ r.box # << >> /\ r.box[1].t = "start"
        BY <1>5, <2>2 DEF Works, StartsOnce
      <3>2. 1 \in 1 .. Len(r.box)
        BY <1>3, <3>1, EmptySeq
      <3> QED
        BY <1>1, <1>4, <3>1, <3>2
    <2> QED
      BY <2>1, <2>2 DEF StartsOnce, Fresh
  <1>8. ClosedIsClosed'
    BY <1>1, <1>6 DEF Works, ClosedIsClosed
  <1>9. GoneIsNew'
    BY DEF GoneIsNew
  <1> QED
    BY <1>2, <1>7, <1>8, <1>9 DEF Works

(* The Replicator has handled an event: p is what it made of it. *)
LEMMA WorksFinish ==
    ASSUME Types, Works, repl, repl' = repl, mode' = mode,
           NEW p, Sound(p, Colls), ~Fresh(p), Finish(p),
           \A i \in 1 .. Len(p.box) : p.box[i].t # "start" /\ (p.box[i].t = "close" => link' = "closed"),
           ~p.linked => link' = "closed"
    PROVE  Works' /\ \E v \in {"report", "idle"} : pc' = [pc EXCEPT !["repl"] = v]
  <1>1. PICK now \in BOOLEAN : LET a == AfterEvent(p, mode.continuous, now)
                               IN  r' = a.q /\ Goto("repl", IF a.report THEN "report" ELSE "idle")
    BY DEF Finish
  <1>2. Sound(r', Colls) /\ ~Fresh(r') /\ r'.box = p.box /\ r'.linked = p.linked
    BY <1>1, ModeFacts, AfterEventIsSound
  <1>3. Sound(r, Colls)'
    BY <1>2 DEF Sound, Replicators, Messages, Reported, Asks, Answers, Refusals, Results, Codes,
                OverallIsBusiest,
                ConnectionAgrees, ClosesForItsError, StoppedIsDone, Colls
  <1>4. StartsOnce'
    BY <1>2 DEF StartsOnce, Fresh
  <1>5. ClosedIsClosed'
    BY <1>2 DEF ClosedIsClosed
  <1>6. GoneIsNew'
    BY DEF GoneIsNew
  <1>7. \E v \in {"report", "idle"} : pc' = [pc EXCEPT !["repl"] = v]
    BY <1>1 DEF Goto
  <1> QED
    BY <1>3, <1>4, <1>5, <1>6, <1>7 DEF Works

LEMMA ToldFrame ==
    ASSUME WillBeTold, level' = level, told' = told,
           \A t \in Threads : pc[t] \in {"notify", "call"} => pc'[t] = pc[t] /\ local'[t].level = local[t].level
    PROVE  WillBeTold'
  BY DEF WillBeTold, Threads

LEMMA StopFrame ==
    ASSUME StopIsFinal, stopAsked' = stopAsked, level' = level,
           "suspended" \in flags' => "suspended" \in flags,
           \A c \in Clients : pc[c] \in {"cancel", "lock"} => pc'[c] \in {"cancel", "lock"}
    PROVE  StopIsFinal'
  BY DEF StopIsFinal

PCs == {"idle", "cancel", "lock", "report", "notify", "call", "after", "afterEvent"}

(* _start(), on thread t, while there is no Replicator. *)
Started(t) ==
    /\ Works' /\ LevelMatchesReplicator' /\ WillBeTold'
    /\ level' \in Stopped .. Stopping /\ err' \in Errors /\ flags' \in SUBSET Flags
    /\ repl' \in BOOLEAN /\ selfRetain' \in BOOLEAN /\ timer' \in BOOLEAN
    /\ link' \in {"none", "opening", "open", "closed"}
    /\ child' \in [Colls -> [level : Stopped .. Busy, err : Reported]]
    /\ told' \in SUBSET (Stopped .. Busy) /\ faults' \in 0 .. mode.maxFaults
    /\ pc' \in [Threads -> PCs] /\ \A u \in Threads \ {t} : pc'[u] = pc[u]

LEMMA DoStartIsSound ==
    ASSUME IInv, mode' = mode, ~repl, NEW t \in Threads \ {"repl"}, pc[t] \notin {"notify", "call"},
           NEW f \in SUBSET Flags, NEW tm \in BOOLEAN, DoStart(t, f, tm),
           \A u \in Threads \ {t} : local'[u] = local[u]
    PROVE  Started(t)
  <1>1. Colls' = Colls /\ Colls # {} /\ "none" \in Reported /\ "other" \in Errors /\ "none" \in Errors /\ mode.maxFaults \in Nat
    BY ModeFacts DEF IInv, Colls, Reported, Errors, AppCodes
  <1>2. pc \in [Threads -> PCs]
    BY DEF IInv, Types, PCs
  <1>3. r = NewReplicator(Colls) /\ pc["repl"] = "idle"
    BY DEF IInv, Works, GoneIsNew
  <1>4. CASE /\ faults < mode.maxFaults /\ faults' = faults + 1
             /\ err' = "other" /\ flags' = f /\ Goto(t, "notify")
             /\ UNCHANGED <<level, repl, selfRetain, worker, told>>
    <2>1. pc'[t] = "notify" /\ pc' \in [Threads -> PCs] /\ \A u \in Threads \ {t} : pc'[u] = pc[u]
      BY <1>2, <1>4 DEF Goto, PCs
    <2>2. Works'
      BY <1>4, <2>1, WorksFrame, ThreadFacts DEF IInv
    <2>3. LevelMatchesReplicator' /\ WillBeTold'
      BY <1>4, <2>1 DEF IInv, LevelMatchesReplicator, WillBeTold, Threads
    <2> QED
      BY <1>1, <1>4, <2>1, <2>2, <2>3 DEF IInv, Types, worker, DoStart, Started
  <1>5. CASE /\ repl' = TRUE /\ selfRetain' = TRUE
             /\ level' = Connecting /\ err' = "none" /\ flags' = f \ {"suspended"}
             /\ r' = Enqueue(NewReplicator(Colls), [t |-> "start"])
             /\ link' = "none" /\ child' = [c \in Colls |-> NewChild]
             /\ told' = {} /\ Goto(t, "idle") /\ UNCHANGED faults
    <2>1. pc'[t] = "idle" /\ pc' \in [Threads -> PCs] /\ \A u \in Threads \ {t} : pc'[u] = pc[u]
      BY <1>2, <1>5 DEF Goto, PCs
    <2> DEFINE p == NewReplicator(Colls)
               m == [t |-> "start"]
    <2>2. Sound(p, Colls) /\ Fresh(p) /\ p.box = << >> /\ p.delayed = 0 /\ p.linked
      BY <1>1, NewIsSound DEF NewReplicator
    <2>3. m \in Messages(Colls) /\ m.t = "start"
      BY DEF Messages
    <2> HIDE DEF p, m
    <2>4. Received(Enqueue(p, m), p, m, Colls) /\ Append(<< >>, m) = <<m>>
      BY <2>2, <2>3, EnqueueIsSound
    <2>5. r' = Enqueue(p, m)
      BY <1>5 DEF p, m
    <2>6. r'.box = <<m>> /\ Fresh(r') /\ r'.delayed = 0 /\ r'.linked /\ Sound(r', Colls)
      BY <2>2, <2>4, <2>5 DEF Fresh, Received
    <2>7. Sound(r, Colls)'
      BY <1>1, <2>6 DEF Sound, Replicators, Messages, Reported, Asks, Answers, Refusals, Results, Codes,
                OverallIsBusiest,
                        ConnectionAgrees, ClosesForItsError, StoppedIsDone
    <2>8. pc'["repl"] = "idle"
      BY <1>3, <2>1, ThreadFacts
    <2>9. StartsOnce'
      BY <1>5, <2>3, <2>6, <2>8 DEF StartsOnce, Fresh
    <2>10. ClosedIsClosed' /\ GoneIsNew' /\ LevelMatchesReplicator' /\ WillBeTold'
      BY <1>5, <2>3, <2>6 DEF ClosedIsClosed, GoneIsNew, LevelMatchesReplicator, WillBeTold
    <2>11. child' \in [Colls -> [level : Stopped .. Busy, err : Reported]]
      BY <1>1, <1>5 DEF NewChild
    <2> QED
      BY <1>1, <1>5, <2>1, <2>7, <2>9, <2>10, <2>11 DEF Works, IInv, Types, DoStart, Started
  <1> QED
    BY <1>4, <1>5 DEF DoStart, Fault

-----------------------------------------------------------------------------
(* The steps, one lemma for each group of actions. *)

(* start(), on thread t. *)
LEMMA StartNowStep ==
    ASSUME IInv, mode' = mode, NEW t \in Threads \ {"repl"}, pc[t] \notin {"notify", "call"}, StartNow(t),
           stopAsked' = FALSE, calls' \in 0 .. mode.maxCalls,
           local' \in [Threads -> Locals], \A u \in Threads \ {t} : local'[u] = local[u]
    PROVE  IInv'
  <1>1. pc \in [Threads -> PCs] /\ Colls' = Colls /\ mode.maxRetries \in Nat
    BY ModeFacts DEF IInv, Types, PCs, Colls
  <1>2. StopIsFinal'
    BY DEF StopIsFinal
  <1>3. CASE ~repl
    <2>1. PICK f \in SUBSET Flags, tm \in BOOLEAN : DoStart(t, f, tm)
      BY <1>3 DEF StartNow, Restart, IInv, Types
    <2>2. retryCount' \in 0 .. mode.maxRetries /\ cancelStop' \in BOOLEAN /\ activeWhenSuspended' \in BOOLEAN
      BY <1>1, <1>3 DEF StartNow, IInv, Types
    <2>3. Started(t)
      BY <1>3, <2>1, DoStartIsSound
    <2>4. Types'
      BY <1>1, <2>2, <2>3 DEF Started, IInv, Types, PCs, Threads
    <2> QED
      BY <1>2, <2>3, <2>4 DEF Started, IInv
  <1>4. CASE repl
    <2>1. /\ cancelStop' = (cancelStop \/ (~mode.remote /\ level = Stopping)) /\ Goto(t, "idle")
          /\ UNCHANGED <<level, err, flags, repl, activeWhenSuspended, selfRetain, retryCount, timer, worker, told, faults>>
      BY <1>4 DEF StartNow
    <2>2. pc' \in [Threads -> PCs] /\ pc'[t] = "idle" /\ \A u \in Threads \ {t} : pc'[u] = pc[u]
      BY <1>1, <2>1 DEF Goto, PCs
    <2>3. Works'
      BY <2>1, <2>2, WorksFrame, ThreadFacts DEF IInv
    <2>4. Types'
      BY <1>1, <2>1, <2>2 DEF IInv, Types, PCs, Threads, worker
    <2>5. LevelMatchesReplicator'
      BY <2>1 DEF IInv, LevelMatchesReplicator
    <2>6. WillBeTold'
      BY <1>4, <2>1, ToldFrame, <2>2 DEF IInv
    <2> QED
      BY <1>2, <2>3, <2>4, <2>5, <2>6 DEF IInv
  <1> QED
    BY <1>3, <1>4

(* retry(), on thread t. *)
LEMMA RetryNowStep ==
    ASSUME IInv, mode' = mode, NEW t \in Threads \ {"repl"}, pc[t] \notin {"notify", "call"},
           t \in Clients => pc[t] \notin {"cancel", "lock"},
           NEW resetCount \in BOOLEAN, RetryNow(t, resetCount),
           stopAsked' = stopAsked, calls' \in 0 .. mode.maxCalls, local' = local
    PROVE  IInv'
  <1>1. pc \in [Threads -> PCs] /\ Colls' = Colls /\ mode.maxRetries \in Nat
    BY ModeFacts DEF IInv, Types, PCs, Colls
  <1>2. retryCount' \in 0 .. mode.maxRetries /\ cancelStop' \in BOOLEAN /\ activeWhenSuspended' \in BOOLEAN
    BY <1>1 DEF RetryNow, IInv, Types
  <1>3. CASE level = Offline
    <2>1. ~repl
      BY <1>3 DEF IInv, LevelMatchesReplicator
    <2>2. PICK f \in SUBSET Flags, tm \in BOOLEAN : DoStart(t, f, tm)
      <3>1. Restart(t)
        BY <1>3 DEF RetryNow
      <3> QED
        BY <3>1 DEF Restart, IInv, Types
    <2>3. Started(t)
      BY <2>1, <2>2, DoStartIsSound
    <2>4. Types'
      BY <1>1, <1>2, <2>3 DEF Started, IInv, Types, PCs, Threads
    <2>5. stopAsked => \E c \in Clients \ {t} : pc[c] \in {"cancel", "lock"}
      BY <1>3 DEF IInv, StopIsFinal
    <2>6. StopIsFinal'
      BY <2>3, <2>5, ThreadFacts DEF Started, StopIsFinal
    <2> QED
      BY <2>3, <2>4, <2>6 DEF Started, IInv
  <1>4. CASE level # Offline
    <2>1. /\ Goto(t, "idle")
          /\ UNCHANGED <<level, err, flags, repl, selfRetain, timer, worker, told, faults>>
      BY <1>4 DEF RetryNow
    <2>2. pc' \in [Threads -> PCs] /\ pc'[t] = "idle" /\ \A u \in Threads \ {t} : pc'[u] = pc[u]
      BY <1>1, <2>1 DEF Goto, PCs
    <2>3. Works'
      BY <2>1, <2>2, WorksFrame, ThreadFacts DEF IInv, RetryNow
    <2>4. Types'
      BY <1>1, <1>2, <2>1, <2>2 DEF IInv, Types, PCs, Threads, worker
    <2>5. LevelMatchesReplicator'
      BY <2>1 DEF IInv, LevelMatchesReplicator
    <2>6. WillBeTold'
      BY <2>1, <2>2, ToldFrame DEF IInv
    <2>7. StopIsFinal'
      BY <2>1, <2>2, StopFrame, ThreadFacts DEF IInv
    <2> QED
      BY <2>3, <2>4, <2>5, <2>6, <2>7 DEF IInv
  <1> QED
    BY <1>3, <1>4

LEMMA CallFacts ==
    ASSUME IInv, NEW c \in Clients, NEW f, Call(c, f)
    PROVE  pc[c] = "idle" /\ mode' = mode /\ calls' \in 0 .. mode.maxCalls /\ c \in Threads \ {"repl"}
  BY ModeFacts, ThreadFacts DEF IInv, Types, Call

LEMMA ClientStartStep ==
    ASSUME IInv, NEW c \in Clients, ClientStart(c)
    PROVE  IInv'
  <1>1. pc[c] = "idle" /\ mode' = mode /\ calls' \in 0 .. mode.maxCalls /\ c \in Threads \ {"repl"}
    BY CallFacts DEF ClientStart
  <1>2. StartNow(c) /\ stopAsked' = FALSE /\ local' = local
    BY DEF ClientStart
  <1> QED
    BY <1>1, <1>2, StartNowStep DEF IInv, Types

LEMMA ClientRetryStep ==
    ASSUME IInv, NEW c \in Clients, ClientRetry(c)
    PROVE  IInv'
  <1>1. pc[c] = "idle" /\ mode' = mode /\ calls' \in 0 .. mode.maxCalls /\ c \in Threads \ {"repl"}
    BY CallFacts DEF ClientRetry
  <1>2. RetryNow(c, TRUE) /\ stopAsked' = stopAsked /\ local' = local
    BY DEF ClientRetry
  <1> QED
    BY <1>1, <1>2, RetryNowStep

LEMMA TimerRetriesStep ==
    ASSUME IInv, TimerRetries
    PROVE  IInv'
  <1>1. /\ pc["timer"] = "lock" /\ RetryNow("timer", FALSE)
        /\ mode' = mode /\ local' = local /\ stopAsked' = stopAsked /\ calls' = calls
    BY DEF TimerRetries
  <1>2. "timer" \in Threads \ {"repl"} /\ "timer" \notin Clients /\ calls' \in 0 .. mode.maxCalls
    BY <1>1, ThreadFacts DEF IInv, Types
  <1> QED
    BY <1>1, <1>2, RetryNowStep

LEMMA ResumeStep ==
    ASSUME IInv, Resume
    PROVE  IInv'
  <1>1. /\ pc["old"] = "lock" /\ StartNow("old") /\ stopAsked' = FALSE /\ mode' = mode /\ calls' = calls
        /\ local' = [local EXCEPT !["old"] = NoLocal]
    BY DEF Resume
  <1>2. NoLocal \in Locals
    BY DEF NoLocal, Locals
  <1>3. local' \in [Threads -> Locals] /\ \A u \in Threads \ {"old"} : local'[u] = local[u]
    BY <1>1, <1>2, ThreadFacts DEF IInv, Types
  <1>4. "old" \in Threads \ {"repl"} /\ calls' \in 0 .. mode.maxCalls
    BY <1>1, ThreadFacts DEF IInv, Types
  <1> QED
    BY <1>1, <1>3, <1>4, StartNowStep

LEMMA TimerFiresStep ==
    ASSUME IInv, TimerFires
    PROVE  IInv'
  <1>1. /\ pc["timer"] = "idle" /\ timer' = FALSE /\ pc' = [pc EXCEPT !["timer"] = "lock"]
        /\ UNCHANGED <<mode, level, err, flags, repl, cancelStop, activeWhenSuspended, selfRetain, retryCount, local,
                       r, link, child, told, stopAsked, calls, faults>>
    BY DEF TimerFires, Goto, worker, bounds
  <1>2. pc \in [Threads -> PCs]
    BY DEF IInv, Types, PCs
  <1>3. pc' \in [Threads -> PCs] /\ \A u \in Threads \ {"timer"} : pc'[u] = pc[u]
    BY <1>1, <1>2, ThreadFacts DEF PCs
  <1>4. Types'
    BY <1>1, <1>3 DEF IInv, Types, PCs, Threads, Colls
  <1>5. Works'
    BY <1>1, <1>3, WorksFrame, ThreadFacts DEF IInv, worker
  <1>6. LevelMatchesReplicator'
    BY <1>1 DEF IInv, LevelMatchesReplicator
  <1>7. WillBeTold'
    BY <1>1, <1>3, ToldFrame DEF IInv
  <1>8. StopIsFinal'
    BY <1>1, <1>3, StopFrame, ThreadFacts DEF IInv
  <1> QED
    BY <1>4, <1>5, <1>6, <1>7, <1>8 DEF IInv

(* stop(): before it has the mutex, and with it. *)
LEMMA ClientStopStep ==
    ASSUME IInv, NEW c \in Clients, ClientStop(c) \/ StopWritesFlags(c)
    PROVE  IInv'
  <1>1. pc \in [Threads -> PCs] /\ local \in [Threads -> Locals] /\ c \in Threads \ {"repl"} /\ flags \in SUBSET Flags
        /\ mode.remote \in BOOLEAN /\ mode.maxCalls \in Nat
    BY ThreadFacts, ModeFacts DEF IInv, Types, PCs
  <1>2. /\ mode' = mode /\ UNCHANGED <<level, err, repl, cancelStop, activeWhenSuspended, selfRetain, retryCount,
                                       r, link, child, told, stopAsked, faults>>
        /\ pc[c] \in {"idle", "cancel"}
    BY DEF ClientStop, StopWritesFlags, Call, worker, bounds
  <1>3. PICK v \in {"cancel", "lock"} : pc' = [pc EXCEPT ![c] = v]
    BY DEF ClientStop, StopWritesFlags, Goto
  <1>4. pc' \in [Threads -> PCs] /\ pc'[c] \in {"cancel", "lock"} /\ \A u \in Threads \ {c} : pc'[u] = pc[u]
    BY <1>1, <1>3 DEF PCs
  <1>5. calls' \in 0 .. mode.maxCalls
    BY <1>1 DEF ClientStop, StopWritesFlags, Call, IInv, Types, bounds
  <1>6. local' \in [Threads -> Locals] /\ \A u \in Threads \ {c} : local'[u] = local[u]
    BY <1>1 DEF ClientStop, StopWritesFlags, Locals
  <1>7. flags' \in SUBSET Flags /\ timer' \in BOOLEAN
    BY <1>1 DEF ClientStop, StopWritesFlags, Locals, IInv, Types
  <1>8. Types'
    BY <1>2, <1>4, <1>5, <1>6, <1>7 DEF IInv, Types, PCs, Threads, Colls
  <1>9. Works'
    BY <1>1, <1>2, <1>4, WorksFrame, ThreadFacts DEF IInv, worker
  <1>10. LevelMatchesReplicator'
    BY <1>2 DEF IInv, LevelMatchesReplicator
  <1>11. WillBeTold'
    BY <1>2, <1>4, <1>6, ToldFrame DEF IInv
  <1>12. StopIsFinal'
    BY <1>4 DEF StopIsFinal
  <1> QED
    BY <1>8, <1>9, <1>10, <1>11, <1>12 DEF IInv

LEMMA StopMessage == ASSUME NEW C PROVE [t |-> "stop"] \in Messages(C) /\ [t |-> "stop"].t = "stop"
  BY DEF Messages

LEMMA StopLockedStep ==
    ASSUME IInv, NEW c \in Clients, StopLocked(c)
    PROVE  IInv'
  <1>1. pc \in [Threads -> PCs] /\ local \in [Threads -> Locals] /\ c \in Threads \ {"repl"} /\ pc[c] = "lock"
        /\ level \in 0 .. 5
    BY ThreadFacts DEF IInv, Types, PCs, StopLocked
  <1>2. /\ cancelStop' = FALSE /\ flags' = flags \ {"suspended"} /\ stopAsked' = TRUE
        /\ UNCHANGED <<mode, err, repl, activeWhenSuspended, selfRetain, retryCount, timer, link, child, told, calls, faults>>
    BY DEF StopLocked, bounds
  <1>3. \E v \in {"idle", "notify"} : pc' = [pc EXCEPT ![c] = v]
    BY DEF StopLocked, Goto
  <1>4. pc' \in [Threads -> PCs] /\ \A u \in Threads \ {c} : pc'[u] = pc[u]
    BY <1>1, <1>3 DEF PCs
  <1>5. NoLocal \in Locals /\ [NoLocal EXCEPT !.stopped = TRUE] \in Locals
    BY LocalFacts
  <1>6. local' \in [Threads -> Locals] /\ \A u \in Threads \ {c} : local'[u] = local[u]
    BY <1>1, <1>5 DEF StopLocked
  <1>7. level' \in {Stopped, Stopping}
    BY DEF StopLocked
  <1>8. Types'
    <2>1. level' \in Stopped .. Stopping
      BY <1>7
    <2>2. stopAsked' \in BOOLEAN /\ cancelStop' \in BOOLEAN
      BY <1>2
    <2>3. flags' \subseteq Flags
      BY <1>2 DEF IInv, Types
    <2> QED
      BY <1>2, <1>4, <1>6, <2>1, <2>2, <2>3 DEF IInv, Types, PCs, Threads, Colls
  <1>9. StopIsFinal'
    BY <1>2, <1>7 DEF StopIsFinal
  <1>10. Works' /\ LevelMatchesReplicator' /\ WillBeTold'
    <2>1. CASE r' = r /\ level' = level
      <3>1. Works'
        BY <1>1, <1>2, <1>4, <2>1, WorksFrame, ThreadFacts DEF IInv, worker
      <3>2. LevelMatchesReplicator'
        BY <1>2, <2>1 DEF IInv, LevelMatchesReplicator
      <3>3. WillBeTold'
        BY <1>1, <1>2, <1>4, <1>6, <2>1, ToldFrame DEF IInv
      <3> QED
        BY <3>1, <3>2, <3>3
    <2>2. CASE repl /\ level' = Stopping /\ r' = Enqueue(r, [t |-> "stop"])
      <3>1. Works'
        <4> DEFINE m == [t |-> "stop"]
        <4>1. m \in Messages(Colls) /\ m.t = "stop"
          BY StopMessage
        <4> HIDE DEF m
        <4>2. r' = Enqueue(r, m) /\ m.t # "start" /\ m.t # "close" /\ link' = link
          BY <1>2, <2>2, <4>1 DEF m
        <4>3. pc'["repl"] = pc["repl"]
          BY <1>1, <1>4, ThreadFacts
        <4> QED
          BY <1>2, <2>2, <4>1, <4>2, <4>3, WorksEnqueue DEF IInv
      <3>2. LevelMatchesReplicator' /\ WillBeTold'
        BY <1>2, <2>2 DEF LevelMatchesReplicator, WillBeTold
      <3> QED
        BY <3>1, <3>2
    <2>3. CASE ~repl /\ level' = Stopped /\ r' = r /\ pc'[c] = "notify"
      <3>1. Works'
        BY <1>1, <1>2, <1>4, <2>3, WorksFrame, ThreadFacts DEF IInv, worker
      <3>2. LevelMatchesReplicator'
        BY <1>2, <2>3 DEF LevelMatchesReplicator
      <3>3. WillBeTold'
        BY <1>1, <2>3 DEF WillBeTold, Threads
      <3> QED
        BY <3>1, <3>2, <3>3
    <2> QED
      BY <1>1, <2>1, <2>2, <2>3 DEF StopLocked, Goto
  <1> QED
    BY <1>8, <1>9, <1>10 DEF IInv

LEMMA MaybeScheduleRetryFacts ==
    ASSUME Types, NEW f \in SUBSET Flags, MaybeScheduleRetry(f)
    PROVE  /\ flags' \in SUBSET Flags /\ flags' \subseteq f \cup {"willRetry"}
           /\ timer' \in BOOLEAN /\ retryCount' \in 0 .. mode.maxRetries
  <1> DEFINE P == level = Offline /\ "reachable" \in f /\ "suspended" \notin f
  <1>1. CASE P
    <2>1. flags' = f \cup {"willRetry"} /\ retryCount' = 0
      BY <1>1 DEF MaybeScheduleRetry
    <2>2. timer' = TRUE
      BY <1>1 DEF MaybeScheduleRetry
    <2>3. timer' \in BOOLEAN
      BY <2>2
    <2> QED
      BY <2>1, <2>3, ModeFacts DEF Flags
  <1>2. CASE ~P
    <2>1. flags' = f /\ timer' = timer /\ retryCount' = retryCount
      BY <1>2 DEF MaybeScheduleRetry
    <2> QED
      BY <2>1 DEF Types
  <1> QED
    BY <1>1, <1>2

LEMMA SetHostReachableStep ==
    ASSUME IInv, NEW c \in Clients, NEW b \in BOOLEAN, SetHostReachable(c, b)
    PROVE  IInv'
  <1>1. pc[c] = "idle" /\ mode' = mode /\ calls' \in 0 .. mode.maxCalls
    BY CallFacts DEF SetHostReachable
  <1>2. UNCHANGED <<level, err, repl, cancelStop, activeWhenSuspended, selfRetain, pc, local, r, link, child, told,
                    stopAsked, faults>>
    BY DEF SetHostReachable, threads, worker
  <1>3. /\ flags' \subseteq flags \cup {"reachable", "willRetry"}
        /\ timer' \in BOOLEAN /\ retryCount' \in 0 .. mode.maxRetries
    <2>1. CASE b
      <3>1. MaybeScheduleRetry(flags \cup {"reachable"}) /\ flags \cup {"reachable"} \in SUBSET Flags
        BY <2>1 DEF SetHostReachable, IInv, Types, Flags
      <3> QED
        BY <3>1, MaybeScheduleRetryFacts DEF IInv
    <2>2. CASE ~b
      <3>1. flags' = flags \ {"reachable", "willRetry"} /\ timer' = FALSE /\ retryCount' = retryCount
        BY <2>2 DEF SetHostReachable
      <3>2. timer' \in BOOLEAN
        BY <3>1
      <3> QED
        BY <3>1, <3>2 DEF IInv, Types
    <2> QED
      BY <2>1, <2>2
  <1>4. Types'
    <2>1. flags' \subseteq Flags
      BY <1>3 DEF IInv, Types, Flags
    <2> QED
      BY <1>1, <1>2, <1>3, <2>1 DEF IInv, Types, Threads, Colls
  <1>5. Works'
    BY <1>1, <1>2, WorksFrame DEF IInv, worker
  <1>6. LevelMatchesReplicator'
    BY <1>2 DEF IInv, LevelMatchesReplicator
  <1>7. WillBeTold'
    BY <1>2, ToldFrame DEF IInv
  <1>8. StopIsFinal'
    BY <1>2, <1>3, StopFrame DEF IInv
  <1> QED
    BY <1>4, <1>5, <1>6, <1>7, <1>8 DEF IInv

LEMMA SetSuspendedStep ==
    ASSUME IInv, NEW c \in Clients, NEW b \in BOOLEAN, SetSuspended(c, b)
    PROVE  IInv'
  <1>1. pc[c] = "idle" /\ mode' = mode /\ calls' \in 0 .. mode.maxCalls /\ c \in Threads \ {"repl"}
    BY CallFacts DEF SetSuspended
  <1>2. local' = local /\ stopAsked' = stopAsked /\ level # Stopped /\ Colls' = Colls
    BY <1>1 DEF SetSuspended, Colls
  <1>3. level \in 0 .. 5 /\ flags \in SUBSET Flags /\ mode.remote \in BOOLEAN /\ mode.maxRetries \in Nat
    BY ModeFacts DEF IInv, Types
  <1>4. CASE /\ level = Stopping /\ "suspended" \in flags /\ cancelStop' = ~b
             /\ UNCHANGED <<level, err, flags, repl, activeWhenSuspended, selfRetain, retryCount, timer, pc, worker,
                            told, faults>>
    <2>1. Types'
      BY <1>1, <1>2, <1>4 DEF IInv, Types, Threads, worker
    <2>2. Works' /\ LevelMatchesReplicator'
      BY <1>1, <1>2, <1>4, WorksFrame DEF IInv, LevelMatchesReplicator
    <2>3. WillBeTold' /\ StopIsFinal'
      BY <1>1, <1>2, <1>4, ToldFrame, StopFrame DEF IInv
    <2> QED
      BY <2>1, <2>2, <2>3 DEF IInv
  (* All else takes place when stop() has not been called, or has not yet got the mutex. *)
  <1>5. level # Stopping /\ stopAsked => \E d \in Clients \ {c} : pc[d] \in {"cancel", "lock"}
    BY <1>1, <1>2 DEF IInv, StopIsFinal
  <1>6. CASE /\ level >= Connecting /\ level # Stopping
             /\ flags' = (flags \ (IF mode.remote THEN {"willRetry"} ELSE {})) \cup {"suspended"}
             /\ timer' = (timer /\ ~mode.remote) /\ activeWhenSuspended' = (level >= Connecting)
             /\ level' = Stopping /\ r' = Enqueue(r, [t |-> "stop"])
             /\ UNCHANGED <<err, repl, cancelStop, selfRetain, retryCount, pc, link, child, told, faults>>
    <2>1. Types'
      <3>1. flags' \subseteq Flags /\ level' \in Stopped .. Stopping
        BY <1>3, <1>6 DEF Flags
      <3>2. timer' \in BOOLEAN /\ activeWhenSuspended' \in BOOLEAN
        BY <1>6
      <3> QED
        BY <1>1, <1>2, <1>6, <3>1, <3>2 DEF IInv, Types, Threads
    <2>2. repl
      BY <1>6 DEF IInv, LevelMatchesReplicator
    <2>3. Works'
      <3> DEFINE m == [t |-> "stop"]
      <3>1. m \in Messages(Colls) /\ m.t = "stop"
        BY StopMessage
      <3> HIDE DEF m
      <3>2. r' = Enqueue(r, m) /\ m.t # "start" /\ m.t # "close" /\ link' = link /\ pc' = pc
        BY <1>6, <3>1 DEF m
      <3> QED
        BY <1>1, <1>6, <2>2, <3>1, <3>2, WorksEnqueue DEF IInv
    <2>4. LevelMatchesReplicator' /\ WillBeTold'
      BY <1>6, <2>2 DEF LevelMatchesReplicator, WillBeTold
    <2>5. StopIsFinal'
      BY <1>2, <1>5, <1>6 DEF StopIsFinal
    <2> QED
      BY <2>1, <2>3, <2>4, <2>5 DEF IInv
  <1>7. CASE /\ level # Stopping
             /\ flags' \in SUBSET Flags /\ timer' \in BOOLEAN /\ retryCount' \in 0 .. mode.maxRetries
             /\ activeWhenSuspended' \in BOOLEAN
             /\ UNCHANGED <<level, err, repl, cancelStop, selfRetain, pc, r, link, child, told, faults>>
    <2>1. Types'
      BY <1>1, <1>2, <1>7 DEF IInv, Types, Threads
    <2>2. Works' /\ LevelMatchesReplicator'
      BY <1>1, <1>2, <1>7, WorksFrame DEF IInv, LevelMatchesReplicator, worker
    <2>3. WillBeTold'
      BY <1>1, <1>2, <1>7, ToldFrame DEF IInv
    <2>4. StopIsFinal'
      BY <1>2, <1>5, <1>7 DEF StopIsFinal
    <2> QED
      BY <2>1, <2>2, <2>3, <2>4 DEF IInv
  <1>8. CASE /\ level = Offline /\ DoStart(c, flags \ {"suspended"}, timer)
             /\ UNCHANGED <<cancelStop, activeWhenSuspended, retryCount>>
    <2>1. ~repl
      BY <1>8 DEF IInv, LevelMatchesReplicator
    <2>2. flags \ {"suspended"} \in SUBSET Flags /\ timer \in BOOLEAN
      BY DEF IInv, Types
    <2>3. Started(c)
      BY <1>1, <1>2, <1>8, <2>1, <2>2, DoStartIsSound
    <2>4. Types'
      BY <1>1, <1>2, <1>8, <2>3 DEF Started, IInv, Types, PCs, Threads
    <2>5. StopIsFinal'
      BY <1>2, <1>5, <1>8, <2>3, ThreadFacts DEF Started, StopIsFinal
    <2> QED
      BY <2>3, <2>4, <2>5 DEF Started, IInv
  <1> QED
    <2>1. CASE level = Stopping
      BY <1>4, <2>1 DEF SetSuspended
    <2>2. CASE level # Stopping /\ b
      <3>1. CASE level >= Connecting
        BY <1>6, <2>2, <3>1 DEF SetSuspended
      <3>2. CASE ~(level >= Connecting)
        <4>1. /\ flags' = flags \cup {"suspended"} /\ activeWhenSuspended' = (level >= Connecting)
              /\ UNCHANGED <<timer, level, r, err, repl, cancelStop, selfRetain, retryCount, pc, link, child, told, faults>>
          BY <2>2, <3>2 DEF SetSuspended
        <4>2. flags' \in SUBSET Flags
          BY <1>3, <4>1 DEF Flags
        <4>3. activeWhenSuspended' \in BOOLEAN
          BY <4>1
        <4> QED
          BY <1>7, <2>2, <4>1, <4>2, <4>3 DEF IInv, Types
      <3> QED
        BY <3>1, <3>2
    <2>3. CASE level # Stopping /\ ~b
      <3>1. CASE level = Offline /\ activeWhenSuspended /\ ~mode.remote
        BY <1>8, <2>3, <3>1 DEF SetSuspended
      <3>2. CASE level = Offline /\ activeWhenSuspended /\ mode.remote
        <4>1. /\ MaybeScheduleRetry(flags \ {"suspended"}) /\ UNCHANGED <<cancelStop, activeWhenSuspended>>
              /\ UNCHANGED <<level, err, repl, selfRetain, pc, r, link, child, told, faults>>
          BY <2>3, <3>2 DEF SetSuspended, worker
        <4>2. flags' \in SUBSET Flags /\ timer' \in BOOLEAN /\ retryCount' \in 0 .. mode.maxRetries
          BY <1>3, <4>1, MaybeScheduleRetryFacts DEF IInv
        <4> QED
          BY <1>7, <2>3, <4>1, <4>2 DEF IInv, Types
      <3>3. CASE ~(level = Offline /\ activeWhenSuspended)
        <4>1. /\ flags' = flags \ {"suspended"} /\ UNCHANGED <<cancelStop, activeWhenSuspended>>
              /\ UNCHANGED <<level, err, repl, selfRetain, retryCount, timer, pc, r, link, child, told, faults>>
          BY <2>3, <3>3 DEF SetSuspended, worker
        <4>2. flags' \in SUBSET Flags
          BY <1>3, <4>1
        <4> QED
          BY <1>7, <2>3, <4>1, <4>2 DEF IInv, Types
      <3> QED
        BY <1>3, <3>1, <3>2, <3>3
    <2> QED
      BY <2>1, <2>2, <2>3

(* Thread t tells the client. *)
LEMMA NotifyStep ==
    ASSUME IInv, NEW t \in Threads, Notify(t)
    PROVE  IInv'
  <1>1. pc \in [Threads -> PCs] /\ local \in [Threads -> Locals] /\ level \in 0 .. 5 /\ pc[t] = "notify"
    BY DEF IInv, Types, PCs, Notify
  <1>2. UNCHANGED <<mode, level, err, flags, repl, cancelStop, activeWhenSuspended, selfRetain, retryCount, timer,
                    r, link, child, told, stopAsked, calls, faults>>
    BY DEF Notify, front, worker, bounds
  <1>3. PICK v \in {"after", "call"} : pc' = [pc EXCEPT ![t] = v]
    BY DEF Notify, Goto
  <1>4. pc' \in [Threads -> PCs] /\ \A u \in Threads \ {t} : pc'[u] = pc[u]
    BY <1>1, <1>3 DEF PCs
  <1>5. /\ local' \in [Threads -> Locals] /\ \A u \in Threads \ {t} : local'[u] = local[u]
        /\ level <= Offline => pc'[t] = "call" /\ local'[t].level = level
    <2>1. CASE err # "none" /\ level > Offline
      BY <1>1, <2>1 DEF Notify
    <2>2. CASE ~(err # "none" /\ level > Offline)
      <3> DEFINE l == IF level = Stopping THEN Busy ELSE level
      <3>1. local' = [local EXCEPT ![t].level = l] /\ pc' = [pc EXCEPT ![t] = "call"]
        BY <2>2 DEF Notify, Goto
      <3>2. l \in 0 .. 4 /\ (level <= Offline => l = level)
        BY <1>1
      <3> HIDE DEF l
      <3>3. [local[t] EXCEPT !.level = l] \in Locals /\ [local[t] EXCEPT !.level = l].level = l
        BY <1>1, <3>2 DEF Locals
      <3>4. local' = [local EXCEPT ![t] = [local[t] EXCEPT !.level = l]]
        BY <3>1
      <3> QED
        BY <1>1, <3>1, <3>2, <3>3, <3>4
    <2> QED
      BY <2>1, <2>2
  <1>6. Types'
    BY <1>2, <1>4, <1>5 DEF IInv, Types, PCs, Threads, Colls
  <1>7. Works'
    BY <1>1, <1>2, <1>4, WorksFrame, ThreadFacts DEF IInv, worker
  <1>8. LevelMatchesReplicator'
    BY <1>2 DEF IInv, LevelMatchesReplicator
  <1>9. WillBeTold'
    BY <1>1, <1>2, <1>5 DEF WillBeTold, Threads
  <1>10. StopIsFinal'
    BY <1>1, <1>2, <1>4, StopFrame, ThreadFacts DEF IInv
  <1> QED
    BY <1>6, <1>7, <1>8, <1>9, <1>10 DEF IInv

LEMMA CallClientStep ==
    ASSUME IInv, NEW t \in Threads, CallClient(t)
    PROVE  IInv'
  <1>1. pc \in [Threads -> PCs] /\ local \in [Threads -> Locals] /\ pc[t] = "call"
    BY DEF IInv, Types, PCs, CallClient
  <1>2. /\ UNCHANGED <<mode, level, err, flags, repl, cancelStop, activeWhenSuspended, selfRetain, retryCount, timer,
                       local, r, link, child, stopAsked, calls, faults>>
        /\ told' = told \cup {local[t].level} /\ pc' = [pc EXCEPT ![t] = "after"]
    BY DEF CallClient, front, worker, bounds, Goto
  <1>3. pc' \in [Threads -> PCs] /\ \A u \in Threads \ {t} : pc'[u] = pc[u]
    BY <1>1, <1>2 DEF PCs
  <1>4. Types'
    <2>1. told' \subseteq Stopped .. Busy
      BY <1>1, <1>2 DEF IInv, Types, Locals
    <2> QED
      BY <1>2, <1>3, <2>1 DEF IInv, Types, PCs, Threads, Colls
  <1>5. Works'
    BY <1>1, <1>2, <1>3, WorksFrame, ThreadFacts DEF IInv, worker
  <1>6. LevelMatchesReplicator'
    BY <1>2 DEF IInv, LevelMatchesReplicator
  <1>7. WillBeTold'
    <2>1. CASE level > Offline \/ level \in told'
      BY <1>2, <2>1 DEF WillBeTold, IInv, Types
    <2>2. CASE level <= Offline /\ level \notin told'
      <3>1. PICK u \in Threads : pc[u] = "notify" \/ (pc[u] = "call" /\ local[u].level = level)
        BY <1>2, <2>2 DEF IInv, WillBeTold
      <3>2. u # t
        BY <1>1, <1>2, <2>2, <3>1
      <3> QED
        BY <1>2, <1>3, <3>1, <3>2 DEF WillBeTold, Threads
    <2> QED
      BY <2>1, <2>2 DEF IInv, Types
  <1>8. StopIsFinal'
    BY <1>1, <1>2, <1>3, StopFrame, ThreadFacts DEF IInv
  <1> QED
    BY <1>4, <1>5, <1>6, <1>7, <1>8 DEF IInv

LEMMA AfterCallStep ==
    ASSUME IInv, NEW t \in Threads, AfterCall(t)
    PROVE  IInv'
  <1>1. pc \in [Threads -> PCs] /\ local \in [Threads -> Locals] /\ pc[t] = "after"
        /\ selfRetain \in BOOLEAN /\ local[t].stopped \in BOOLEAN /\ local[t].resume \in BOOLEAN
    BY DEF IInv, Types, PCs, AfterCall, Locals
  <1>2. UNCHANGED <<mode, level, err, flags, repl, cancelStop, activeWhenSuspended, retryCount, timer,
                    r, link, child, told, stopAsked, calls, faults>>
    BY DEF AfterCall, worker, bounds
  <1>3. PICK v \in {"lock", "idle"} : pc' = [pc EXCEPT ![t] = v]
    BY DEF AfterCall, Goto
  <1>4. pc' \in [Threads -> PCs] /\ \A u \in Threads \ {t} : pc'[u] = pc[u]
    BY <1>1, <1>3 DEF PCs
  <1>5. local' \in [Threads -> Locals] /\ \A u \in Threads \ {t} : local'[u] = local[u]
    <2>1. [NoLocal EXCEPT !.resume = local[t].resume] \in Locals
      BY <1>1, LocalFacts
    <2> QED
      BY <1>1, <2>1 DEF AfterCall
  <1>6. selfRetain' \in BOOLEAN
    BY <1>1 DEF AfterCall
  <1>7. Types'
    BY <1>2, <1>4, <1>5, <1>6 DEF IInv, Types, PCs, Threads, Colls
  <1>8. Works'
    BY <1>1, <1>2, <1>4, WorksFrame, ThreadFacts DEF IInv, worker
  <1>9. LevelMatchesReplicator'
    BY <1>2 DEF IInv, LevelMatchesReplicator
  <1>10. WillBeTold'
    BY <1>1, <1>2, <1>4, <1>5, ToldFrame DEF IInv
  <1>11. StopIsFinal'
    BY <1>1, <1>2, <1>4, StopFrame, ThreadFacts DEF IInv
  <1> QED
    BY <1>7, <1>8, <1>9, <1>10, <1>11 DEF IInv

(* handleStopped() leaves the replicator stopped, or offline with at most  *)
(* maxRetries() retries behind it.                                         *)
Rest(h) ==
    /\ h.level \in {Stopped, Offline} /\ h.flags \in SUBSET Flags /\ h.timer \in BOOLEAN
    /\ h.retryCount \in 0 .. mode.maxRetries

LEMMA HandleStoppedFacts ==
    ASSUME Types, NEW e
    PROVE  Rest(HandleStopped(e))
  <1> DEFINE asIs == [level |-> Stopped, flags |-> flags, timer |-> timer, retryCount |-> retryCount]
             again == [level |-> Offline, flags |-> flags \cup {"willRetry"}, timer |-> TRUE, retryCount |-> retryCount + 1]
  <1>1. flags \in SUBSET Flags /\ timer \in BOOLEAN /\ retryCount \in 0 .. mode.maxRetries /\ mode.maxRetries \in Nat
    BY ModeFacts DEF Types
  <1>2. flags \cup {"willRetry"} \in SUBSET Flags /\ TRUE \in BOOLEAN
    BY <1>1 DEF Flags
  <1>3. Rest(asIs) /\ Rest([asIs EXCEPT !.level = Offline])
    BY <1>1 DEF Rest
  <1>4. retryCount < mode.maxRetries => Rest(again)
    BY <1>1, <1>2 DEF Rest
  <1>5. \/ HandleStopped(e) = asIs
        \/ retryCount < mode.maxRetries /\ HandleStopped(e) = again
        \/ HandleStopped(e) = [asIs EXCEPT !.level = Offline]
    BY DEF HandleStopped
  <1> HIDE DEF asIs, again
  <1> QED
    BY <1>3, <1>4, <1>5

LEMMA StatusChangedStep ==
    ASSUME IInv, StatusChanged
    PROVE  IInv'
  <1>1. pc \in [Threads -> PCs] /\ local \in [Threads -> Locals] /\ pc["repl"] = "report" /\ repl
    BY DEF IInv, Types, PCs, StatusChanged
  <1>2. UNCHANGED <<mode, activeWhenSuspended, selfRetain, link, child, told, stopAsked, calls, faults>>
    BY DEF StatusChanged, bounds
  <1>3. r \in Replicators(Colls) /\ ~Fresh(r) /\ level \in 2 .. 5
    BY <1>1 DEF IInv, Types, LevelMatchesReplicator, Works, Sound, StartsOnce
  <1>4. r.err \in Errors /\ r.level \in {0, 2, 3, 4}
    BY <1>3 DEF Replicators
  <1>5. CASE r.level # Stopped
    <2>1. /\ UNCHANGED <<flags, repl, cancelStop, timer, local, r>>
          /\ pc' = [pc EXCEPT !["repl"] = "notify"]
      BY <1>5 DEF StatusChanged
    <2>2. /\ level' \in 2 .. 5 /\ err' \in Errors /\ retryCount' \in 0 .. mode.maxRetries
          /\ level = Stopping => level' = Stopping
      <3>1. CASE level = Stopping
        BY <1>3, <1>5, <3>1 DEF StatusChanged, IInv, Types
      <3>2. CASE level # Stopping
        <4>1. level' = r.level /\ err' = r.err /\ retryCount' \in {0, retryCount}
          BY <1>5, <3>2 DEF StatusChanged
        <4> QED
          BY <1>4, <1>5, <3>2, <4>1, ModeFacts DEF IInv, Types
      <3> QED
        BY <3>1, <3>2
    <2>3. pc' \in [Threads -> PCs] /\ \A u \in Threads \ {"repl"} : pc'[u] = pc[u]
      BY <1>1, <2>1 DEF PCs
    <2>4. Types'
      <3>1. level' \in Stopped .. Stopping
        BY <2>2
      <3> QED
        BY <1>2, <2>1, <2>2, <2>3, <3>1 DEF IInv, Types, PCs, Threads, Colls
    <2>5. Works'
      BY <1>1, <1>2, <2>1, WorksFrame DEF IInv, worker
    <2>6. LevelMatchesReplicator' /\ WillBeTold'
      BY <1>1, <2>1, <2>2 DEF LevelMatchesReplicator, WillBeTold
    <2>7. StopIsFinal'
      <3>1. CASE \E c \in Clients : pc[c] \in {"cancel", "lock"}
        BY <2>3, <3>1, ThreadFacts DEF StopIsFinal
      <3>2. CASE stopAsked => level = Stopping /\ "suspended" \notin flags
        BY <1>2, <2>1, <2>2, <3>2 DEF StopIsFinal
      <3> QED
        BY <1>3, <3>1, <3>2 DEF IInv, StopIsFinal
    <2> QED
      BY <2>4, <2>5, <2>6, <2>7 DEF IInv
  <1>6. CASE r.level = Stopped
    <2> DEFINE h == IF "suspended" \in flags
                    THEN [level |-> Offline, flags |-> flags, timer |-> timer, retryCount |-> retryCount]
                    ELSE IF level # Stopping THEN HandleStopped(r.err)
                    ELSE [level |-> Stopped, flags |-> flags, timer |-> timer, retryCount |-> retryCount]
    <2>1. /\ pc["old"] = "idle"
          /\ level' = h.level /\ flags' = h.flags /\ timer' = h.timer /\ retryCount' = h.retryCount
          /\ local' = [local EXCEPT !["old"] = [NoLocal EXCEPT !.stopped = (h.level = Stopped), !.resume = cancelStop]]
          /\ err' = r.err /\ repl' = FALSE /\ cancelStop' = FALSE /\ r' = NewReplicator(Colls)
          /\ pc' = [pc EXCEPT !["repl"] = "idle", !["old"] = "notify"]
      BY <1>6 DEF StatusChanged
    <2>2. Rest(h)
      <3>1. Rest(HandleStopped(r.err))
        BY HandleStoppedFacts DEF IInv
      <3>2. Rest([level |-> Offline, flags |-> flags, timer |-> timer, retryCount |-> retryCount])
            /\ Rest([level |-> Stopped, flags |-> flags, timer |-> timer, retryCount |-> retryCount])
        BY DEF Rest, IInv, Types
      <3> QED
        BY <3>1, <3>2
    <2>3. level = Stopping /\ "suspended" \notin flags => h.level = Stopped /\ h.flags = flags
      OBVIOUS
    <2> HIDE DEF h
    <2>4. pc' \in [Threads -> PCs] /\ pc'["repl"] = "idle" /\ pc'["old"] = "notify"
          /\ \A u \in Threads \ {"repl", "old"} : pc'[u] = pc[u]
      BY <1>1, <2>1, ThreadFacts DEF PCs
    <2>5. local' \in [Threads -> Locals]
      <3>1. (h.level = Stopped) \in BOOLEAN /\ cancelStop \in BOOLEAN
        BY DEF IInv, Types
      <3>2. [NoLocal EXCEPT !.stopped = (h.level = Stopped), !.resume = cancelStop] \in Locals
        BY <3>1, LocalFacts
      <3> QED
        BY <1>1, <2>1, <3>2
    <2>6. Types'
      <3>1. level' \in Stopped .. Stopping /\ flags' \subseteq Flags /\ timer' \in BOOLEAN
            /\ retryCount' \in 0 .. mode.maxRetries
        BY <2>1, <2>2 DEF Rest
      <3>2. repl' \in BOOLEAN /\ cancelStop' \in BOOLEAN
        BY <2>1
      <3> QED
        BY <1>2, <1>4, <2>1, <2>4, <2>5, <3>1, <3>2 DEF IInv, Types, PCs, Threads, Colls
    <2>7. Works'
      <3> DEFINE p == NewReplicator(Colls)
      <3>1. Colls' = Colls
        BY <1>2 DEF Colls
      <3>2. Sound(p, Colls) /\ Fresh(p) /\ p.box = << >> /\ p.delayed = 0 /\ p.linked = TRUE
        BY ModeFacts, NewIsSound DEF NewReplicator, IInv
      <3>3. r' = p
        BY <2>1
      <3> HIDE DEF p
      <3>4. Sound(r, Colls)'
        BY <3>1, <3>2, <3>3 DEF Sound, Replicators, Messages, Reported, Asks, Answers, Refusals, Results, Codes,
                OverallIsBusiest,
                               ConnectionAgrees, ClosesForItsError, StoppedIsDone
      <3>5. StartsOnce' /\ ClosedIsClosed'
        BY <2>1, <2>4, <3>2, <3>3 DEF StartsOnce, ClosedIsClosed, Fresh
      <3>6. GoneIsNew'
        BY <2>4, <3>1, <3>3 DEF GoneIsNew, NewReplicator, p
      <3> QED
        BY <3>4, <3>5, <3>6 DEF Works
    <2>8. LevelMatchesReplicator'
      BY <2>1, <2>2 DEF LevelMatchesReplicator, Rest
    <2>9. WillBeTold'
      BY <2>4, ThreadFacts DEF WillBeTold, Threads
    <2>10. StopIsFinal'
      <3>1. CASE \E c \in Clients : pc[c] \in {"cancel", "lock"}
        BY <2>4, <3>1, ThreadFacts DEF StopIsFinal
      <3>2. CASE stopAsked => level = Stopping /\ "suspended" \notin flags
        BY <1>2, <2>1, <2>3, <3>2 DEF StopIsFinal
      <3> QED
        BY <1>3, <3>1, <3>2 DEF IInv, StopIsFinal
    <2> QED
      BY <2>6, <2>7, <2>8, <2>9, <2>10 DEF IInv
  <1> QED
    BY <1>5, <1>6

(* A step of the Replicator's thread, or of what it waits for, that leaves *)
(* the front end alone.                                                    *)
LEMMA WorkerStep ==
    ASSUME IInv, UNCHANGED <<mode, front, told, stopAsked, calls>>, Works',
           NEW v \in PCs, pc["repl"] \notin {"notify", "call"}, pc' = [pc EXCEPT !["repl"] = v] \/ pc' = pc,
           local' \in [Threads -> Locals], \A u \in Threads \ {"repl"} : local'[u] = local[u],
           link' \in {"none", "opening", "open", "closed"},
           child' \in [Colls -> [level : Stopped .. Busy, err : Reported]], faults' \in 0 .. mode.maxFaults
    PROVE  IInv'
  <1>1. UNCHANGED <<mode, level, err, flags, repl, cancelStop, activeWhenSuspended, selfRetain, retryCount, timer,
                    told, stopAsked, calls>>
    BY DEF front
  <1>2. pc \in [Threads -> PCs]
    BY DEF IInv, Types, PCs
  <1>3. pc' \in [Threads -> PCs] /\ \A u \in Threads \ {"repl"} : pc'[u] = pc[u]
    BY <1>2
  <1>4. Types'
    BY <1>1, <1>3 DEF IInv, Types, PCs, Threads, Colls
  <1>5. LevelMatchesReplicator'
    BY <1>1 DEF IInv, LevelMatchesReplicator
  <1>6. WillBeTold'
    BY <1>1, <1>3, ToldFrame DEF IInv
  <1>7. StopIsFinal'
    BY <1>1, <1>3, StopFrame, ThreadFacts DEF IInv
  <1> QED
    BY <1>4, <1>5, <1>6, <1>7 DEF IInv

LEMMA TailIsSound ==
    ASSUME NEW C, NEW q, Sound(q, C), q.box # << >>
    PROVE  LET p == [q EXCEPT !.box = Tail(@)]
           IN  Sound(p, C) /\ (Fresh(p) <=> Fresh(q)) /\ p.box = Tail(q.box) /\ p.linked = q.linked
               /\ p.level = q.level
  <1> DEFINE p == [q EXCEPT !.box = Tail(@)]
  <1>1. q.box \in Seq(Messages(C))
    BY DEF Sound, Replicators
  <1>2. /\ Tail(q.box) \in Seq(Messages(C))
        /\ \A i \in 1 .. Len(Tail(q.box)) : i + 1 \in 1 .. Len(q.box) /\ Tail(q.box)[i] = q.box[i + 1]
    BY <1>1, TailFacts
  <1>3. p \in Replicators(C)
    BY <1>2 DEF Sound, Replicators
  <1>4. /\ p.err = q.err /\ p.conn = q.conn /\ p.close = q.close
        /\ p.linked = q.linked /\ p.level = q.level /\ p.pending = q.pending /\ p.sub = q.sub
        /\ p.overall = q.overall /\ p.box = Tail(q.box)
    BY DEF Sound, Replicators
  <1> HIDE DEF p
  <1>5. OverallIsBusiest(p, C) /\ ConnectionAgrees(p) /\ ClosesForItsError(p)
    BY <1>4 DEF OverallIsBusiest, ConnectionAgrees, ClosesForItsError, Sound
  <1>6. StoppedIsDone(p, C)
    BY <1>2, <1>4 DEF StoppedIsDone, Sound
  <1>7. Sound(p, C) /\ (Fresh(p) <=> Fresh(q))
    BY <1>3, <1>4, <1>5, <1>6 DEF Sound, Fresh
  <1> QED
    BY <1>4, <1>7 DEF p

LEMMA HandleEventStep ==
    ASSUME IInv, HandleEvent
    PROVE  IInv'
  <1> DEFINE m == Head(r.box)
             q == [r EXCEPT !.box = Tail(@)]
  <1>1. /\ repl /\ pc["repl"] = "idle" /\ r.box # << >>
        /\ UNCHANGED <<mode, front, local, child, told, stopAsked, calls>>
    BY DEF HandleEvent
  <1>2. Sound(q, Colls) /\ (Fresh(q) <=> Fresh(r)) /\ q.box = Tail(r.box) /\ q.linked = r.linked /\ q.level = r.level
    BY <1>1, TailIsSound DEF IInv, Works
  <1>3. r.box \in Seq(Messages(Colls))
    BY DEF IInv, Works, Sound, Replicators
  <1>4. /\ m \in Messages(Colls) /\ m = r.box[1] /\ 1 \in 1 .. Len(r.box)
        /\ \A i \in 1 .. Len(q.box) : i + 1 \in 1 .. Len(r.box) /\ i + 1 # 1 /\ q.box[i] = r.box[i + 1]
    BY <1>1, <1>2, <1>3, TailFacts
  <1>5. \A i \in 1 .. Len(q.box) : q.box[i].t # "start" /\ (q.box[i].t = "close" => link = "closed")
    BY <1>4 DEF IInv, Works, StartsOnce, ClosedIsClosed
  <1>6. /\ m.t = "start" => Fresh(r)
        /\ m.t # "start" => ~Fresh(r)
        /\ m.t = "close" => link = "closed"
        /\ m.t = "response" => r.level # Stopped
    BY <1>1, <1>4 DEF IInv, Works, StartsOnce, ClosedIsClosed, Sound, StoppedIsDone
  <1>7. ~q.linked => link = "closed"
    BY <1>2 DEF IInv, Works, ClosedIsClosed
  <1>8. \E p : /\ Finish(p) /\ Handled(p, q, Colls)
               /\ m.t = "start" => p.linked /\ link' = "opening"
               /\ m.t # "start" => link' = link /\ (~p.linked => link = "closed")
    <2> HIDE DEF m, q
    <2>1. \/ m.t = "start" /\ link' = "opening" /\ \E e \in {"none", "other"} : Finish(Start(q, e))
          \/ m.t = "stop" /\ Finish(Disconnect(q, "normal")) /\ link' = link
          \/ m.t = "connect" /\ Finish(OnConnect(q)) /\ link' = link
          \/ m.t = "close" /\ Finish(OnClose(q, m.status)) /\ link' = link
          \/ m.t = "response" /\ Finish(OnResponse(q, m)) /\ link' = link
          \/ m.t = "child" /\ (\E save \in BOOLEAN : Finish(ChildChangedStatus(q, m, save))) /\ link' = link
      BY SMTT(60) DEF HandleEvent, m, q
    <2>2. CASE m.t = "start"
      <3>1. PICK e \in {"none", "other"} : Finish(Start(q, e)) /\ link' = "opening"
        BY <2>1, <2>2
      <3>2. Handled(Start(q, e), q, Colls) /\ Start(q, e).linked
        BY <1>2, <1>6, <2>2, StartIsSound DEF Fresh
      <3> QED
        BY <2>2, <3>1, <3>2
    <2>3. CASE m.t = "stop"
      <3>1. Follows(Disconnect(q, "normal"), q, Colls)
        BY <1>2, <1>6, <2>3, DisconnectIsSound DEF Codes, AppCodes
      <3>2. Finish(Disconnect(q, "normal")) /\ link' = link
        BY <2>1, <2>3
      <3> DEFINE p == Disconnect(q, "normal")
      <3>3. Handled(p, q, Colls) /\ p.linked = q.linked
        BY <3>1 DEF Handled, Follows
      <3> HIDE DEF p
      <3>4. Finish(p)
        BY <3>2 DEF p
      <3> QED
        BY <1>7, <2>3, <3>2, <3>3, <3>4
    <2>4. CASE m.t = "connect"
      <3> DEFINE p == OnConnect(q)
      <3>1. Handled(p, q, Colls) /\ p.linked = q.linked
        BY <1>2, <1>6, <2>4, OnConnectIsSound
      <3>2. Finish(p) /\ link' = link
        BY <2>1, <2>4
      <3> HIDE DEF p
      <3> QED
        BY <1>7, <2>4, <3>1, <3>2
    <2>5. CASE m.t = "close"
      <3> DEFINE p == OnClose(q, m.status)
      <3>1. m.status \in Codes \ {"none"}
        BY <1>4, <2>5 DEF Messages, m
      <3>2. Handled(p, q, Colls)
        BY <1>2, <1>6, <2>5, <3>1, OnCloseIsSound
      <3>3. Finish(p) /\ link' = link
        BY <2>1, <2>5
      <3> HIDE DEF p
      <3> QED
        BY <1>6, <2>5, <3>2, <3>3
    <2>6. CASE m.t = "response"
      <3> DEFINE p == OnResponse(q, m)
      <3>1. m.req \in Asks(Colls) /\ m.result \in Results /\ Answers(m.req, m.result)
        BY <1>4, <2>6 DEF Messages, m
      <3>2. Handled(p, q, Colls) /\ p.linked = q.linked
        BY <1>2, <1>6, <2>6, <3>1, OnResponseIsSound
      <3>3. Finish(p) /\ link' = link
        BY <2>1, <2>6
      <3> HIDE DEF p
      <3> QED
        BY <1>7, <2>6, <3>2, <3>3
    <2>7. CASE m.t = "child"
      <3>1. PICK save \in BOOLEAN : Finish(ChildChangedStatus(q, m, save)) /\ link' = link
        BY <2>1, <2>7
      <3> DEFINE p == ChildChangedStatus(q, m, save)
      <3>2. m.coll \in Colls /\ m.level \in Stopped .. Busy /\ m.err \in Reported
        BY <1>4, <2>7 DEF Messages, m
      <3>3. Handled(p, q, Colls) /\ p.linked = q.linked
        BY <1>2, <1>6, <2>7, <3>2, ModeFacts, ChildChangedStatusIsSound DEF IInv
      <3>4. Finish(p)
        BY <3>1
      <3> HIDE DEF p
      <3> QED
        BY <1>7, <2>7, <3>1, <3>3, <3>4
    <2> QED
      BY <2>1, <2>2, <2>3, <2>4, <2>5, <2>6, <2>7
  <1>9. PICK p : /\ Finish(p) /\ Handled(p, q, Colls)
                 /\ m.t = "start" => p.linked /\ link' = "opening"
                 /\ m.t # "start" => link' = link /\ (~p.linked => link = "closed")
    BY <1>8
  <1> HIDE DEF m, q
  <1>10. \A i \in 1 .. Len(p.box) : p.box[i].t # "start" /\ (p.box[i].t = "close" => link = "closed")
    <2>1. CASE p.box = q.box
      BY <1>5, <2>1
    <2>2. CASE p.box = Append(q.box, [t |-> "stop"])
      <3> DEFINE x == [t |-> "stop"]
      <3>1. x \in Messages(Colls) /\ x.t = "stop" /\ q.box \in Seq(Messages(Colls))
        BY <1>2, StopMessage DEF Sound, Replicators
      <3> HIDE DEF x
      <3>2. p.box = Append(q.box, x)
        BY <2>2 DEF x
      <3>3. \A i \in 1 .. Len(p.box) : p.box[i] = x \/ (i \in 1 .. Len(q.box) /\ p.box[i] = q.box[i])
        BY <3>1, <3>2, AppendFacts
      <3> QED
        BY <1>5, <3>1, <3>3
    <2> QED
      BY <1>9, <2>1, <2>2 DEF Handled
  (* A connection that is yet to be opened has not been closed. *)
  <1>11. (\A i \in 1 .. Len(p.box) : p.box[i].t # "start" /\ (p.box[i].t = "close" => link' = "closed"))
         /\ (~p.linked => link' = "closed")
    <2>1. CASE m.t = "start"
      BY <1>1, <1>6, <1>9, <1>10, <2>1 DEF IInv, Works, StartsOnce
    <2>2. CASE m.t # "start"
      BY <1>9, <1>10, <2>2
    <2> QED
      BY <2>1, <2>2
  <1>12. Works' /\ \E v \in {"report", "idle"} : pc' = [pc EXCEPT !["repl"] = v]
    BY <1>1, <1>9, <1>11, WorksFinish DEF IInv, Handled, front
  <1>13. link' \in {"none", "opening", "open", "closed"} /\ faults' \in 0 .. mode.maxFaults
    BY <1>9, ModeFacts DEF HandleEvent, Fault, IInv, Types
  <1> QED
    BY <1>1, <1>12, <1>13, WorkerStep DEF IInv, Types, PCs

(* A delayed call of reportStatus(), and what follows a report. *)
LEMMA DelayedReportStep ==
    ASSUME IInv, DelayedReport
    PROVE  IInv'
  <1>1. /\ repl /\ pc["repl"] = "idle" /\ r.delayed > 0 /\ r' = [ReportStatus(r) EXCEPT !.delayed = @ - 1]
        /\ local' = [local EXCEPT !["repl"].finish = TRUE] /\ pc' = [pc EXCEPT !["repl"] = "report"]
        /\ UNCHANGED <<mode, front, link, child, told, stopAsked, calls, faults>>
    BY DEF DelayedReport, Goto, bounds
  <1>2. r \in Replicators(Colls) /\ Sound(r, Colls) /\ repl' = repl /\ Colls' = Colls
    BY <1>1 DEF IInv, Works, Sound, front, Colls
  <1> DEFINE p == [r EXCEPT !.waiting = FALSE, !.lastLevel = r.level]
             s == [p EXCEPT !.delayed = @ - 1]
  <1>3. p \in Replicators(Colls) /\ p.delayed = r.delayed
    <2>1. r.level \in 0 .. 4
      BY <1>2 DEF Replicators
    <2> QED
      BY <1>2, <2>1 DEF Replicators
  <1>4. r.delayed - 1 \in Nat
    BY <1>1, <1>2 DEF Replicators
  <1>5. s \in Replicators(Colls)
    BY <1>3, <1>4 DEF Replicators
  <1>6. /\ s.err = r.err /\ s.conn = r.conn /\ s.close = r.close
        /\ s.linked = r.linked /\ s.level = r.level /\ s.pending = r.pending /\ s.sub = r.sub
        /\ s.overall = r.overall /\ s.box = r.box
    BY <1>2 DEF Replicators
  <1>7. r' = s
    BY <1>1 DEF ReportStatus
  <1> HIDE DEF p, s
  <1>8. Sound(r, Colls)'
    <2>1. OverallIsBusiest(s, Colls) /\ ConnectionAgrees(s) /\ StoppedIsDone(s, Colls)
      BY <1>2, <1>6 DEF OverallIsBusiest, ConnectionAgrees, StoppedIsDone, Sound
    <2>2. ClosesForItsError(s)
      BY <1>2, <1>6 DEF ClosesForItsError, Sound
    <2> QED
      BY <1>2, <1>5, <1>7, <2>1, <2>2
         DEF Sound, Replicators, Messages, Reported, Asks, Answers, Refusals, Results, Codes,
             OverallIsBusiest, ConnectionAgrees,
             ClosesForItsError, StoppedIsDone
  <1>9. ~Fresh(r)
    BY <1>1 DEF IInv, Works, StartsOnce
  <1>10. StartsOnce' /\ ClosedIsClosed' /\ GoneIsNew'
    BY <1>1, <1>2, <1>6, <1>7, <1>9 DEF IInv, Works, StartsOnce, Fresh, ClosedIsClosed, GoneIsNew
  <1>11. local' \in [Threads -> Locals] /\ \A u \in Threads \ {"repl"} : local'[u] = local[u]
    <2>1. [local["repl"] EXCEPT !.finish = TRUE] \in Locals
      BY LocalFacts, ThreadFacts DEF IInv, Types
    <2>2. local' = [local EXCEPT !["repl"] = [local["repl"] EXCEPT !.finish = TRUE]]
      BY <1>1
    <2> QED
      BY <2>1, <2>2, ThreadFacts DEF IInv, Types
  <1>12. Works'
    BY <1>8, <1>10 DEF Works
  <1> QED
    BY <1>1, <1>11, <1>12, WorkerStep DEF IInv, Types, PCs

LEMMA AfterReportStep ==
    ASSUME IInv, AfterReport
    PROVE  IInv'
  <1>1. /\ pc["repl"] = "after" /\ local' = [local EXCEPT !["repl"] = NoLocal]
        /\ UNCHANGED <<mode, front, link, child, told, stopAsked, calls, faults>>
    BY DEF AfterReport, bounds
  <1>2. repl /\ ~Fresh(r) /\ repl' = repl
    BY <1>1 DEF IInv, Works, StartsOnce, GoneIsNew, front
  <1>3. Works' /\ \E v \in {"report", "idle"} : pc' = [pc EXCEPT !["repl"] = v]
    <2>1. CASE local["repl"].finish
      <3>1. Finish(r)
        BY <2>1 DEF AfterReport
      <3>2. (\A i \in 1 .. Len(r.box) : r.box[i].t # "start" /\ (r.box[i].t = "close" => link' = "closed"))
            /\ (~r.linked => link' = "closed") /\ Sound(r, Colls)
        BY <1>1, <1>2 DEF IInv, Works, StartsOnce, ClosedIsClosed
      <3> QED
        BY <1>1, <1>2, <3>1, <3>2, WorksFinish DEF IInv
    <2>2. CASE ~local["repl"].finish
      <3>1. r' = r /\ pc' = [pc EXCEPT !["repl"] = "idle"]
        BY <2>2 DEF AfterReport, Goto
      <3>2. Works'
        BY <1>1, <1>2, <3>1, WorksFrame DEF IInv, worker
      <3> QED
        BY <3>1, <3>2
    <2> QED
      BY <2>1, <2>2
  <1>4. local' \in [Threads -> Locals] /\ \A u \in Threads \ {"repl"} : local'[u] = local[u]
    BY <1>1, LocalFacts, ThreadFacts DEF IInv, Types
  <1> QED
    BY <1>1, <1>3, <1>4, WorkerStep DEF IInv, Types, PCs

(* Something comes in from the connection, the peer or a worker. *)
LEMMA IncomingStep ==
    ASSUME IInv, repl, UNCHANGED <<mode, front, threads, told, stopAsked, calls>>,
           NEW m \in Messages(Colls), m.t # "start", r' = Enqueue(r, m),
           m.t = "response" => r.level # Stopped,
           link = "closed" \/ m.t = "close" => link' = "closed",
           link = "none" => link' = "none",
           link' \in {"none", "opening", "open", "closed"},
           child' \in [Colls -> [level : Stopped .. Busy, err : Reported]], faults' \in 0 .. mode.maxFaults
    PROVE  IInv'
  <1>1. UNCHANGED <<mode, level, err, flags, repl, cancelStop, activeWhenSuspended, selfRetain, retryCount, timer,
                    pc, local, told, stopAsked, calls>>
    BY DEF front, threads
  <1>2. Works'
    BY <1>1, WorksEnqueue DEF IInv
  <1>3. Types'
    BY <1>1 DEF IInv, Types, Threads, Colls
  <1>4. LevelMatchesReplicator'
    BY <1>1 DEF IInv, LevelMatchesReplicator
  <1>5. WillBeTold'
    BY <1>1, ToldFrame DEF IInv
  <1>6. StopIsFinal'
    BY <1>1, StopFrame DEF IInv
  <1> QED
    BY <1>2, <1>3, <1>4, <1>5, <1>6 DEF IInv

LEMMA FaultFacts ==
    ASSUME Types, Fault
    PROVE  faults' \in 0 .. mode.maxFaults
  BY ModeFacts DEF Types, Fault

LEMMA LinkStep ==
    ASSUME IInv, LinkConnects \/ LinkCloses \/ LinkFails
    PROVE  IInv'
  <1>1. child \in [Colls -> [level : Stopped .. Busy, err : Reported]] /\ faults \in 0 .. mode.maxFaults
        /\ r.close \in Codes
    BY DEF IInv, Types, Works, Sound, Replicators
  <1>2. CASE LinkConnects
    <2> DEFINE m == [t |-> "connect"]
    <2>1. m \in Messages(Colls) /\ m.t = "connect"
      BY DEF Messages
    <2>2. /\ repl /\ link = "opening" /\ link' = "open" /\ r' = Enqueue(r, m)
          /\ UNCHANGED <<mode, front, threads, child, told, stopAsked, calls, faults>>
      BY <1>2 DEF LinkConnects, bounds
    <2> HIDE DEF m
    <2> QED
      BY <1>1, <2>1, <2>2, IncomingStep
  <1>3. CASE LinkCloses \/ LinkFails
    <2>1. PICK st \in Codes \ {"none"} :
             /\ repl /\ link \in {"opening", "open"} /\ CloseLink(st) /\ faults' \in 0 .. mode.maxFaults
      <3>1. CASE LinkCloses
        BY <1>1, <3>1 DEF LinkCloses
      <3>2. CASE LinkFails
        BY <3>2, LifecycleAssumption, FaultFacts DEF LinkFails, Codes, AppCodes, IInv
      <3> QED
        BY <1>3, <3>1, <3>2
    <2> DEFINE m == [t |-> "close", status |-> st]
    <2>2. m \in Messages(Colls) /\ m.t = "close" /\ m.status = st
      BY DEF Messages
    <2>3. /\ link' = "closed" /\ r' = Enqueue(r, m)
          /\ UNCHANGED <<mode, front, threads, child, told, stopAsked, calls>>
      BY <2>1 DEF CloseLink
    <2> HIDE DEF m
    <2> QED
      BY <1>1, <2>1, <2>2, <2>3, IncomingStep
  <1> QED
    BY <1>2, <1>3

LEMMA RespondStep ==
    ASSUME IInv, NEW req \in Requests, Reply(req) \/ ReplyError(req) \/ GiveUp(req)
    PROVE  IInv'
  <1>1. PICK result \in Results : Respond(req, result) /\ Answers(req, result) /\ faults' \in 0 .. mode.maxFaults
    <2>1. CASE Reply(req) \/ GiveUp(req)
      BY <2>1 DEF Reply, GiveUp, Results, Answers, IInv, Types
    <2>2. CASE ReplyError(req)
      <3>1. PICK e \in ChildErrors \cup Refusals(req[1]) : Fault /\ Respond(req, e)
        BY <2>2 DEF ReplyError
      <3>2. ChildErrors \subseteq Reported \ {"none"}
        BY LifecycleAssumption DEF Reported
      <3>3. Refusals(req[1]) \subseteq {"missing", "conflict"}
        BY DEF Refusals
      <3>4. e \in Results /\ Answers(req, e)
        BY <3>1, <3>2, <3>3 DEF Results, Answers, Reported, Errors
      <3> QED
        BY <3>1, <3>4, FaultFacts DEF IInv
    <2> QED
      BY <2>1, <2>2
  <1> DEFINE m == [t |-> "response", req |-> req, result |-> result]
  <1>2. m \in Messages(Colls) /\ m.t = "response"
    <2>1. req \in Asks(Colls)
      BY DEF Asks, Requests
    <2> QED
      BY <1>1, <2>1 DEF Messages
  <1>4. r.level # Stopped
    BY <1>1 DEF Respond, Unanswered, IInv, Works, Sound, StoppedIsDone
  <1>3. repl /\ r' = Enqueue(r, m) /\ UNCHANGED <<mode, front, threads, link, child, told, stopAsked, calls>>
    BY <1>1 DEF Respond, Unanswered
  <1> HIDE DEF m
  <1> QED
    BY <1>1, <1>2, <1>3, <1>4, IncomingStep DEF IInv, Types

LEMMA ChildStep ==
    ASSUME IInv, NEW c \in Colls, ChildDone(c) \/ ChildBusy(c) \/ ChildCloses(c)
    PROVE  IInv'
  <1>1. child \in [Colls -> [level : Stopped .. Busy, err : Reported]] /\ mode.continuous \in BOOLEAN
    BY ModeFacts DEF IInv, Types
  <1>2. child[c].err \in Reported /\ ChildErrors \subseteq Reported
    BY <1>1, LifecycleAssumption DEF Reported
  <1>3. PICK l \in Stopped .. Busy, e \in Reported : repl /\ ChildReports(c, l, e) /\ faults' \in 0 .. mode.maxFaults
    <2>1. CASE ChildDone(c)
      BY <1>1, <1>2, <2>1 DEF ChildDone, IInv, Types
    <2>2. CASE ChildBusy(c)
      BY <1>2, <2>2, FaultFacts DEF ChildBusy, IInv
    <2>3. CASE ChildCloses(c)
      BY <1>2, <2>3 DEF ChildCloses, IInv, Types
    <2> QED
      BY <2>1, <2>2, <2>3
  <1> DEFINE m == [t |-> "child", coll |-> c, level |-> l, err |-> e]
  <1>4. m \in Messages(Colls) /\ m.t = "child"
    BY DEF Messages
  <1>5. /\ child' = [child EXCEPT ![c] = [level |-> l, err |-> e]]
        /\ r' = Enqueue(r, m) /\ UNCHANGED <<mode, front, threads, link, told, stopAsked, calls>>
    BY <1>3 DEF ChildReports
  <1>6. child' \in [Colls -> [level : Stopped .. Busy, err : Reported]]
    BY <1>1, <1>5
  <1> HIDE DEF m
  <1> QED
    BY <1>3, <1>4, <1>5, <1>6, IncomingStep DEF IInv, Types

-----------------------------------------------------------------------------
(* The invariant holds. *)
LEMMA InitIInv == Init => IInv
  <1> SUFFICES ASSUME Init PROVE IInv
    OBVIOUS
  <1>1. mode \in Modes
    BY DEF Init
  <1>2. Colls # {} /\ mode.maxRetries \in Nat /\ mode.maxCalls \in Nat /\ mode.maxFaults \in Nat
    BY <1>1, LifecycleAssumption DEF Colls
  <1>3. repl = FALSE /\ cancelStop = FALSE /\ activeWhenSuspended = FALSE /\ selfRetain = FALSE
        /\ timer = FALSE /\ stopAsked = FALSE
    BY DEF Init
  <1>4. repl \in BOOLEAN /\ cancelStop \in BOOLEAN /\ activeWhenSuspended \in BOOLEAN /\ selfRetain \in BOOLEAN
        /\ timer \in BOOLEAN /\ stopAsked \in BOOLEAN
    BY <1>3
  <1>5. Types
    BY <1>2, <1>4, LocalFacts DEF Init, Types, NewChild, Reported, Errors, AppCodes, Flags
  <1> DEFINE p == NewReplicator(Colls)
  <1>6. Sound(p, Colls) /\ Fresh(p) /\ p.box = << >> /\ p.delayed = 0 /\ p.linked = TRUE
    BY <1>2, NewIsSound DEF NewReplicator
  <1>7. r = p /\ link = "none" /\ pc["repl"] = "idle"
    BY ThreadFacts DEF Init
  <1> HIDE DEF p
  <1>8. Sound(r, Colls) /\ StartsOnce /\ ClosedIsClosed
    BY <1>3, <1>6, <1>7 DEF StartsOnce, ClosedIsClosed
  <1>9. GoneIsNew
    BY <1>7 DEF GoneIsNew, p
  <1>10. LevelMatchesReplicator /\ WillBeTold /\ StopIsFinal
    BY <1>3 DEF Init, LevelMatchesReplicator, WillBeTold, StopIsFinal
  <1> QED
    BY <1>5, <1>8, <1>9, <1>10 DEF IInv, Works

LEMMA StutterIInv == IInv /\ UNCHANGED vars => IInv'
  <1> SUFFICES ASSUME IInv, UNCHANGED vars PROVE IInv'
    OBVIOUS
  <1>1. UNCHANGED <<mode, level, err, flags, repl, cancelStop, activeWhenSuspended, selfRetain, retryCount, timer,
                    pc, local, r, link, child, told, stopAsked, calls, faults>>
    BY DEF vars, front, threads, worker, bounds
  <1>2. Types'
    BY <1>1 DEF IInv, Types, Threads, Colls
  <1>3. Works' /\ LevelMatchesReplicator'
    BY <1>1, WorksFrame DEF IInv, LevelMatchesReplicator, worker
  <1>4. WillBeTold' /\ StopIsFinal'
    BY <1>1, ToldFrame, StopFrame DEF IInv
  <1> QED
    BY <1>2, <1>3, <1>4 DEF IInv

LEMMA NextIInv == IInv /\ [Next]_vars => IInv'
  <1> SUFFICES ASSUME IInv, Next PROVE IInv'
    BY StutterIInv
  <1>1. ASSUME NEW c \in Clients, ClientCalls(c) PROVE IInv'
    BY <1>1, ClientStartStep, ClientRetryStep, ClientStopStep, SetHostReachableStep, SetSuspendedStep DEF ClientCalls
  <1>2. CASE System
    <2>1. ASSUME NEW c \in Clients, StopWritesFlags(c) \/ StopLocked(c) PROVE IInv'
      BY <2>1, ClientStopStep, StopLockedStep
    <2>2. ASSUME NEW t \in Threads, Notify(t) \/ CallClient(t) \/ AfterCall(t) PROVE IInv'
      BY <2>2, NotifyStep, CallClientStep, AfterCallStep
    <2>3. CASE TimerRetries \/ Resume \/ StatusChanged \/ HandleEvent \/ DelayedReport \/ AfterReport
      BY <2>3, TimerRetriesStep, ResumeStep, StatusChangedStep, HandleEventStep, DelayedReportStep, AfterReportStep
    <2>4. CASE LinkCloses
      BY <2>4, LinkStep
    <2>5. ASSUME NEW c \in Colls, ChildDone(c) \/ ChildCloses(c) PROVE IInv'
      BY <2>5, ChildStep
    <2>6. ASSUME NEW q \in Requests, GiveUp(q) \/ Reply(q) PROVE IInv'
      BY <2>6, RespondStep
    <2> QED
      BY <1>2, <2>1, <2>2, <2>3, <2>4, <2>5, <2>6 DEF System, Requests
  <1>3. CASE Environment
    <2>1. CASE TimerFires
      BY <2>1, TimerFiresStep
    <2>2. CASE LinkConnects \/ LinkFails
      BY <2>2, LinkStep
    <2>3. ASSUME NEW q \in Requests, Reply(q) \/ ReplyError(q) PROVE IInv'
      BY <2>3, RespondStep
    <2>4. ASSUME NEW c \in Colls, ChildBusy(c) PROVE IInv'
      BY <2>4, ChildStep
    <2> QED
      BY <1>3, <2>1, <2>2, <2>3, <2>4 DEF Environment, Requests
  <1> QED
    BY <1>1, <1>2, <1>3 DEF Next

(* The inductive invariant: the types, what holds of a Replicator and its  *)
(* mailbox, and what the front end and its threads know.                   *)
THEOREM Invariant == Spec => []IInv
  BY InitIInv, NextIInv, PTL DEF Spec

(* The client is told what goes on (C4ReplicatorImpl's status): there is a *)
(* Replicator exactly while the level says so, the Replicator's own level  *)
(* comes from its busiest collection, and when the replicator has come to  *)
(* rest the client has been told of it since it was started.               *)
THEOREM ClientAlwaysTold == Spec => []ClientIsTold
  <1>1. ASSUME IInv PROVE ClientIsTold
    <2>1. r \in Replicators(Colls) /\ OverallIsBusiest(r, Colls)
      BY <1>1 DEF IInv, Works, Sound
    <2>2. TypeOK
      <3>1. r.conn \in {"closed", "connecting", "connected", "closing", "disconnected"}
            /\ r.level \in Stopped .. Busy /\ r.err \in Errors
            /\ r.overall \in Stopped .. Busy /\ r.sub \in [Colls -> Stopped .. Busy]
        BY <2>1 DEF Replicators, Reported
      <3>2. {repl, cancelStop, activeWhenSuspended, selfRetain, timer, stopAsked} \subseteq BOOLEAN
        BY <1>1 DEF IInv, Types
      <3>3. child \in [Colls -> [level : Stopped .. Busy, err : Errors]] /\ err \in Errors
        BY <1>1 DEF IInv, Types, Reported
      <3> QED
        BY <1>1, <3>1, <3>2, <3>3 DEF IInv, Types, TypeOK
    <2>3. OverallLevelIsMax
      <3>1. r.sub \in [Colls -> 0 .. 4] /\ r.overall \in 0 .. 4
        BY <2>1 DEF Replicators
      <3>2. /\ MaxLevel(r.sub) \in 0 .. 4
            /\ \A c \in Colls : r.sub[c] <= MaxLevel(r.sub)
            /\ \E c \in Colls : r.sub[c] = MaxLevel(r.sub)
        BY <1>1, <3>1, MaxLevelIsMax, ModeFacts DEF IInv
      <3> QED
        BY <2>1, <3>1, <3>2 DEF OverallIsBusiest, OverallLevelIsMax
    <2>4. RestIsAnnounced
      BY <1>1 DEF IInv, WillBeTold, RestIsAnnounced
    <2> QED
      BY <1>1, <2>2, <2>3, <2>4 DEF IInv, ClientIsTold
  <1> QED
    BY <1>1, Invariant, PTL

(* Which steps let a Replicator go, and which create one. *)
LEMMA OnlyStatusChangedLetsGo ==
    ASSUME Types, Next, repl, ~repl'
    PROVE  StatusChanged
  <1>1. ASSUME NEW t, NEW f, NEW tm, DoStart(t, f, tm) PROVE FALSE
    BY <1>1 DEF DoStart
  <1>2. ASSUME NEW c \in Clients, ClientCalls(c) PROVE FALSE
    <2>1. CASE ClientStart(c)
      BY <2>1, <1>1 DEF ClientStart, StartNow, Restart
    <2>2. CASE ClientRetry(c)
      BY <2>2, <1>1 DEF ClientRetry, RetryNow, Restart
    <2>3. CASE ClientStop(c)
      BY <2>3 DEF ClientStop
    <2>4. ASSUME NEW b \in BOOLEAN, SetHostReachable(c, b) PROVE FALSE
      BY <2>4 DEF SetHostReachable
    <2>5. ASSUME NEW b \in BOOLEAN, SetSuspended(c, b) PROVE FALSE
      BY <2>5, <1>1 DEF SetSuspended
    <2> QED
      BY <1>2, <2>1, <2>2, <2>3, <2>4, <2>5 DEF ClientCalls
  <1>3. CASE System
    <2>1. ASSUME NEW c \in Clients, StopWritesFlags(c) \/ StopLocked(c) PROVE FALSE
      BY <2>1 DEF StopWritesFlags, StopLocked
    <2>2. ASSUME NEW t \in Threads, Notify(t) \/ CallClient(t) \/ AfterCall(t) PROVE FALSE
      BY <2>2 DEF Notify, CallClient, AfterCall, front
    <2>3. CASE TimerRetries \/ Resume
      BY <2>3, <1>1 DEF TimerRetries, Resume, RetryNow, StartNow, Restart
    <2>4. CASE HandleEvent \/ DelayedReport \/ AfterReport \/ LinkCloses
      BY <2>4 DEF HandleEvent, DelayedReport, AfterReport, LinkCloses, CloseLink, front
    <2>5. ASSUME NEW c \in Colls, ChildDone(c) \/ ChildCloses(c) PROVE FALSE
      BY <2>5 DEF ChildDone, ChildCloses, ChildReports, front
    <2>6. ASSUME NEW q \in Requests, GiveUp(q) \/ Reply(q) PROVE FALSE
      BY <2>6 DEF GiveUp, Reply, Respond, front
    <2> QED
      BY <1>3, <2>1, <2>2, <2>3, <2>4, <2>5, <2>6 DEF System, Requests
  <1>4. CASE Environment
    <2>1. CASE TimerFires \/ LinkConnects \/ LinkFails
      BY <2>1 DEF TimerFires, LinkConnects, LinkFails, CloseLink, front
    <2>2. ASSUME NEW q \in Requests, Reply(q) \/ ReplyError(q) PROVE FALSE
      BY <2>2 DEF ReplyError, Reply, Respond, front
    <2>3. ASSUME NEW c \in Colls, ChildBusy(c) PROVE FALSE
      BY <2>3 DEF ChildBusy, ChildReports, front
    <2> QED
      BY <1>4, <2>1, <2>2, <2>3 DEF Environment, Requests
  <1> QED
    BY <1>2, <1>3, <1>4 DEF Next

(* A Replicator is let go (replicatorStatusChanged) only when its          *)
(* connection has closed, its requests have been answered or given up and  *)
(* no worker says that it is busy.                                         *)
THEOREM LetGoIsAlwaysDone == Spec => LetGoIsDone
  <1>1. ASSUME IInv, [Next]_vars, repl, ~repl'
        PROVE  link = "closed" /\ r.pending = {} /\ \A c \in Colls : r.sub[c] # Busy
    <2>1. Next
      BY <1>1 DEF vars, front
    <2>2. StatusChanged
      BY <1>1, <2>1, OnlyStatusChangedLetsGo DEF IInv
    <2>3. r.level = Stopped
      BY <1>1, <2>2 DEF StatusChanged
    <2> QED
      BY <1>1, <2>3 DEF IInv, Works, Sound, StoppedIsDone, ClosedIsClosed
  <1>2. IInv /\ [Next]_vars
        => [repl /\ ~repl' => link = "closed" /\ r.pending = {} /\ \A c \in Colls : r.sub[c] # Busy]_vars
    BY <1>1
  <1> QED
    BY <1>2, Invariant, PTL DEF Spec, LetGoIsDone

(* CBL-1178 (Replicator::onError): a Replicator that closed its connection *)
(* because of an error is let go with an error to show for it, and not the *)
(* code that it, or the peer, has closed the connection with.              *)
THEOREM StoppingErrorAlwaysKept == Spec => StoppingErrorIsKept
  <1>1. ASSUME IInv, [Next]_vars, repl, ~repl', r.close \in AppCodes
        PROVE  err' \notin AppCodes \cup {"none"}
    <2>1. Next
      BY <1>1 DEF vars, front
    <2>2. StatusChanged
      BY <1>1, <2>1, OnlyStatusChangedLetsGo DEF IInv
    <2>3. err' = r.err
      BY <1>1, <2>2 DEF StatusChanged
    <2> QED
      BY <1>1, <2>3 DEF IInv, Works, Sound, ClosesForItsError, Real
  <1>2. IInv /\ [Next]_vars
        => [repl /\ ~repl' /\ r.close \in AppCodes => err' \notin AppCodes \cup {"none"}]_vars
    BY <1>1
  <1> QED
    BY <1>2, Invariant, PTL DEF Spec, StoppingErrorIsKept

LEMMA OnlyStartCreates ==
    ASSUME IInv, Next, ~repl, repl'
    PROVE  (stopAsked' = FALSE) \/ level = Offline
  <1>1. ASSUME NEW c \in Clients, ClientCalls(c) PROVE stopAsked' = FALSE \/ level = Offline
    <2>1. CASE ClientStart(c)
      BY <2>1 DEF ClientStart
    <2>2. CASE ClientRetry(c)
      BY <2>2 DEF ClientRetry, RetryNow
    <2>3. CASE ClientStop(c)
      BY <2>3 DEF ClientStop
    <2>4. ASSUME NEW b \in BOOLEAN, SetHostReachable(c, b) PROVE FALSE
      BY <2>4 DEF SetHostReachable
    <2>5. ASSUME NEW b \in BOOLEAN, SetSuspended(c, b) PROVE level = Offline
      BY <2>5 DEF SetSuspended
    <2> QED
      BY <1>1, <2>1, <2>2, <2>3, <2>4, <2>5 DEF ClientCalls
  <1>2. CASE System
    <2>1. ASSUME NEW c \in Clients, StopWritesFlags(c) \/ StopLocked(c) PROVE FALSE
      BY <2>1 DEF StopWritesFlags, StopLocked
    <2>2. ASSUME NEW t \in Threads, Notify(t) \/ CallClient(t) \/ AfterCall(t) PROVE FALSE
      BY <2>2 DEF Notify, CallClient, AfterCall, front
    <2>3. CASE TimerRetries
      BY <2>3 DEF TimerRetries, RetryNow
    <2>4. CASE Resume
      BY <2>4 DEF Resume
    <2>5. CASE StatusChanged \/ HandleEvent \/ DelayedReport \/ AfterReport \/ LinkCloses
      BY <2>5 DEF StatusChanged, HandleEvent, DelayedReport, AfterReport, LinkCloses, CloseLink, front
    <2>6. ASSUME NEW c \in Colls, ChildDone(c) \/ ChildCloses(c) PROVE FALSE
      BY <2>6 DEF ChildDone, ChildCloses, ChildReports, front
    <2>7. ASSUME NEW q \in Requests, GiveUp(q) \/ Reply(q) PROVE FALSE
      BY <2>7 DEF GiveUp, Reply, Respond, front
    <2> QED
      BY <1>2, <2>1, <2>2, <2>3, <2>4, <2>5, <2>6, <2>7 DEF System, Requests
  <1>3. CASE Environment
    <2>1. CASE TimerFires \/ LinkConnects \/ LinkFails
      BY <2>1 DEF TimerFires, LinkConnects, LinkFails, CloseLink, front
    <2>2. ASSUME NEW q \in Requests, Reply(q) \/ ReplyError(q) PROVE FALSE
      BY <2>2 DEF ReplyError, Reply, Respond, front
    <2>3. ASSUME NEW c \in Colls, ChildBusy(c) PROVE FALSE
      BY <2>3 DEF ChildBusy, ChildReports, front
    <2> QED
      BY <1>3, <2>1, <2>2, <2>3 DEF Environment, Requests
  <1> QED
    BY <1>1, <1>2, <1>3 DEF Next

(* When stop() has been called, and no client is within it any more, only  *)
(* start() (or the restart that was asked for while it was stopping)       *)
(* creates a Replicator: not the retry timer, retry() or setSuspended().   *)
THEOREM StopAlwaysOverridesRetry == Spec => StopOverridesRetry
  <1>1. ASSUME IInv, [Next]_vars, HasBeenStopped, ~repl, repl'
        PROVE  ~stopAsked'
    <2>1. Next
      BY <1>1 DEF vars, front
    <2>2. level # Offline
      BY <1>1 DEF IInv, StopIsFinal, HasBeenStopped
    <2>3. stopAsked' = FALSE
      BY <1>1, <2>1, <2>2, OnlyStartCreates
    <2> QED
      BY <2>3
  <1>2. IInv /\ [Next]_vars => [HasBeenStopped /\ ~repl /\ repl' => ~stopAsked']_vars
    BY <1>1
  <1> QED
    BY <1>2, Invariant, PTL DEF Spec, StopOverridesRetry
=============================================================================
