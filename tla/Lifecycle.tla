----------------------------- MODULE Lifecycle ------------------------------
(***************************************************************************)
(* The life of a C4Replicator: the object that clients start, stop,        *)
(* suspend and tell about the network, and that creates a Replicator, and  *)
(* later another one, to do the work.                                      *)
(*                                                                         *)
(* Threads: the clients', the timer's, the Replicator's, and that of a     *)
(* Replicator that has stopped and is still calling back ("old").  What is *)
(* done under C4ReplicatorImpl::_mutex is one step.  Where the code drops  *)
(* the mutex to call back, or has not taken it yet, `pc' says how far the  *)
(* thread has come.                                                        *)
(*                                                                         *)
(* `mode' is the configuration.  mode.remote: a C4RemoteReplicator;        *)
(* otherwise only what all classes of C4Replicator share.  mode.calls are  *)
(* the functions that clients call, and mode.maxCalls bounds how often;    *)
(* mode.maxFaults bounds how often something goes wrong, or there is new   *)
(* work.                                                                   *)
(***************************************************************************)
EXTENDS Replication

CONSTANTS Clients,      \* the client's threads
          Modes,        \* how the replicator is configured, and bounds on calls and faults
          CloseStatus,  \* the ways in which a connection ends by itself
          ChildErrors,  \* what the workers and the peer report
          MaxDelayed    \* bound on the delayed calls of reportStatus()

AllCalls == {"start", "stop", "retry", "reachable", "unreachable", "suspend", "unsuspend"}

ASSUME LifecycleAssumption ==
    /\ \A m \in Modes : {m.remote, m.continuous} \subseteq BOOLEAN /\ m.colls # {}
                         /\ m.maxRetries \in Nat /\ m.maxCalls \in Nat /\ m.maxFaults \in Nat
                         /\ m.calls \subseteq AllCalls
    /\ CloseStatus \subseteq {"normal", "transient", "network"} \cup AppCodes
    /\ ChildErrors \subseteq Errors \ ({"none"} \cup AppCodes)
    /\ MaxDelayed \in Nat
    /\ Clients \cap {"timer", "repl", "old"} = {}

VARIABLES
    mode,
    \* C4ReplicatorImpl and C4RemoteReplicator:
    level, err,             \* _status
    flags,                  \* _status.flags: of "reachable", "suspended", "willRetry"
    repl,                   \* _replicator is not null
    cancelStop, activeWhenSuspended, selfRetain, retryCount,
    timer,                  \* _retryTimer is scheduled
    \* The threads:
    pc,
    local,                  \* what a thread has read: status or flags; or what it has to do next
    \* The Replicator, its connection and its Pushers:
    r, link, child,
    \* What the client has been told since the last start; whether stop() has been called since
    \* it asked for a start, or since the start took place that it had asked for; and bounds:
    told, stopAsked, calls, faults

front == <<level, err, flags, repl, cancelStop, activeWhenSuspended, selfRetain, retryCount, timer>>
threads == <<pc, local>>
worker == <<r, link, child>>
bounds == <<calls, faults>>
vars == <<mode, front, threads, worker, told, stopAsked, bounds>>

Colls == mode.colls
Threads == Clients \cup {"timer", "repl", "old"}
Flags == {"reachable", "suspended", "willRetry"}
NewChild == [level |-> Busy, err |-> "none"]
NoLocal == [stopped |-> FALSE, resume |-> FALSE, finish |-> FALSE, level |-> Stopped, flags |-> {}]

(* Every variable has its type; a retry is counted at most maxRetries()    *)
(* times.                                                                  *)
TypeOK ==
    /\ mode \in Modes
    /\ level \in Stopped .. Stopping /\ err \in Errors /\ flags \subseteq Flags
    /\ {repl, cancelStop, activeWhenSuspended, selfRetain, timer, stopAsked} \subseteq BOOLEAN
    /\ retryCount \in 0 .. mode.maxRetries
    /\ pc \in [Threads -> {"idle", "cancel", "lock", "report", "notify", "call", "after", "afterEvent"}]
    /\ r.conn \in {"closed", "connecting", "connected", "closing", "disconnected"}
    /\ r.level \in Stopped .. Busy /\ r.err \in Errors
    /\ r.overall \in Stopped .. Busy /\ r.sub \in [Colls -> Stopped .. Busy]
    /\ link \in {"none", "opening", "open", "closed"}
    /\ child \in [Colls -> [level : Stopped .. Busy, err : Errors]]
    /\ told \subseteq Stopped .. Busy
    /\ calls \in 0 .. mode.maxCalls /\ faults \in 0 .. mode.maxFaults

Init ==
    /\ mode \in Modes
    /\ level = Stopped /\ err = "none" /\ flags = {"reachable"} /\ repl = FALSE
    /\ cancelStop = FALSE /\ activeWhenSuspended = FALSE /\ selfRetain = FALSE /\ retryCount = 0
    /\ timer = FALSE
    /\ pc = [t \in Threads |-> "idle"] /\ local = [t \in Threads |-> NoLocal]
    /\ r = NewReplicator(Colls) /\ link = "none" /\ child = [c \in Colls |-> NewChild]
    /\ told = {Stopped} /\ stopAsked = FALSE /\ calls = 0 /\ faults = 0

Goto(t, p) == pc' = [pc EXCEPT ![t] = p]
Fault == faults < mode.maxFaults /\ faults' = faults + 1

-----------------------------------------------------------------------------
(* C4ReplicatorImpl::_start(), on thread t: createReplicator() may throw,  *)
(* and the caller then tells the client.  `f' are the flags and `tm' the   *)
(* timer that the caller leaves.                                           *)
DoStart(t, f, tm) ==
    /\ timer' = tm
    /\ \/ /\ Fault
          /\ err' = "other" /\ flags' = f
          /\ Goto(t, "notify")
          /\ UNCHANGED <<level, repl, selfRetain, worker, told>>
       \/ /\ repl' = TRUE /\ selfRetain' = TRUE
          /\ level' = Connecting /\ err' = "none" /\ flags' = f \ {"suspended"}
          /\ r' = Enqueue(NewReplicator(Colls), [t |-> "start"])
          /\ link' = "none" /\ child' = [c \in Colls |-> NewChild]
          /\ told' = {}
          /\ Goto(t, "idle")
          /\ UNCHANGED faults

(* C4RemoteReplicator::_restart(), or _start() of the base class *)
Restart(t) ==
    IF mode.remote THEN DoStart(t, flags \ {"willRetry"}, FALSE) ELSE DoStart(t, flags, timer)

(* start() *)
StartNow(t) ==
    \/ /\ ~repl
       /\ Restart(t)
       /\ retryCount' = IF mode.remote THEN 0 ELSE retryCount
       /\ UNCHANGED <<cancelStop, activeWhenSuspended>>
    \/ /\ repl
       /\ cancelStop' = (cancelStop \/ (~mode.remote /\ level = Stopping))
       /\ Goto(t, "idle")
       /\ UNCHANGED <<level, err, flags, repl, activeWhenSuspended, selfRetain, retryCount, timer, worker, told, faults>>

Call(c, f) ==
    /\ pc[c] = "idle" /\ f \in mode.calls /\ calls < mode.maxCalls
    /\ calls' = calls + 1
    /\ UNCHANGED mode

ClientStart(c) ==
    /\ Call(c, "start")
    /\ StartNow(c)
    /\ stopAsked' = FALSE
    /\ UNCHANGED local

(* retry(), on a client's thread or the timer's *)
BadRetryNow(t, resetCount) ==
    /\ retryCount' = IF resetCount THEN 0 ELSE retryCount
    /\ UNCHANGED <<cancelStop, activeWhenSuspended>>
    /\ \/ /\ level >= Connecting   \* and if it is Stopped it starts
          /\ Goto(t, "idle")
          /\ UNCHANGED <<level, err, flags, repl, selfRetain, timer, worker, told, faults>>
       \/ level < Connecting /\ Restart(t)

RetryNow(t, resetCount) ==
    /\ retryCount' = IF resetCount THEN 0 ELSE retryCount
    /\ UNCHANGED <<cancelStop, activeWhenSuspended>>
    /\ \/ /\ level >= Connecting \/ level = Stopped   \* the latter is an exception
          /\ Goto(t, "idle")
          /\ UNCHANGED <<level, err, flags, repl, selfRetain, timer, worker, told, faults>>
       \/ level = Offline /\ Restart(t)

ClientRetry(c) ==
    /\ mode.remote
    /\ Call(c, "retry")
    /\ RetryNow(c, TRUE)
    /\ UNCHANGED <<local, stopAsked>>

(* Timer::Manager::run(): the callback has yet to lock the mutex. *)
TimerFires ==
    /\ timer /\ pc["timer"] = "idle"
    /\ timer' = FALSE
    /\ Goto("timer", "lock")
    /\ UNCHANGED <<mode, level, err, flags, repl, cancelStop, activeWhenSuspended, selfRetain, retryCount, local,
                   worker, told, stopAsked, bounds>>

TimerRetries ==
    /\ pc["timer"] = "lock"
    /\ RetryNow("timer", FALSE)
    /\ UNCHANGED <<mode, local, stopAsked, calls>>

-----------------------------------------------------------------------------
(* C4RemoteReplicator::stop() begins with cancelScheduledRetry(), without  *)
(* the mutex: it stops the timer and reads the flags; it writes them; then *)
(* it locks.                                                               *)
ClientStop(c) ==
    /\ Call(c, "stop")
    /\ UNCHANGED <<level, err, flags, repl, cancelStop, activeWhenSuspended, selfRetain, retryCount, worker, told,
                   stopAsked, faults>>
    /\ timer' = (timer /\ ~mode.remote)
    /\ local' = [local EXCEPT ![c].flags = flags]
    /\ Goto(c, IF mode.remote /\ "willRetry" \in flags THEN "cancel" ELSE "lock")

StopWritesFlags(c) ==
    /\ pc[c] = "cancel"
    /\ flags' = local[c].flags \ {"willRetry"}
    /\ Goto(c, "lock")
    /\ UNCHANGED <<mode, level, err, repl, cancelStop, activeWhenSuspended, selfRetain, retryCount, timer, local,
                   worker, told, stopAsked, bounds>>

(* C4ReplicatorImpl::stop() *)
BadStopLocked(c) ==
    /\ pc[c] = "lock" /\ c \in Clients
    /\ cancelStop' = FALSE
    /\ flags' = flags \ {"suspended"}
    /\ stopAsked' = TRUE
    /\ UNCHANGED <<mode, err, repl, activeWhenSuspended, selfRetain, retryCount, timer, link, child, told, bounds>>
    /\ local' = [local EXCEPT ![c] = NoLocal]
    /\ \/ /\ level = Stopping
          /\ Goto(c, "idle") /\ UNCHANGED <<level, r>>
       \/ /\ level # Stopping /\ repl
          /\ level' = Stopping /\ r' = Enqueue(r, [t |-> "stop"])
          /\ Goto(c, "idle")
       \/ /\ level # Stopping /\ ~repl
          /\ level' = Stopped
          /\ Goto(c, "idle")           \* nobody is told
          /\ UNCHANGED r

StopLocked(c) ==
    /\ pc[c] = "lock" /\ c \in Clients
    /\ cancelStop' = FALSE
    /\ flags' = flags \ {"suspended"}
    /\ stopAsked' = TRUE
    /\ UNCHANGED <<mode, err, repl, activeWhenSuspended, selfRetain, retryCount, timer, link, child, told, bounds>>
    /\ \/ /\ level = Stopping \/ (~repl /\ level = Stopped)
          /\ Goto(c, "idle") /\ UNCHANGED <<level, r>>
          /\ local' = [local EXCEPT ![c] = NoLocal]
       \/ /\ level # Stopping /\ repl
          /\ level' = Stopping /\ r' = Enqueue(r, [t |-> "stop"])
          /\ Goto(c, "idle")
          /\ local' = [local EXCEPT ![c] = NoLocal]
       \/ /\ level \notin {Stopping, Stopped} /\ ~repl
          /\ level' = Stopped
          /\ Goto(c, "notify")
          /\ local' = [local EXCEPT ![c] = [NoLocal EXCEPT !.stopped = TRUE]]
          /\ UNCHANGED r

-----------------------------------------------------------------------------
(* setHostReachable() *)
MaybeScheduleRetry(f) ==
    IF level = Offline /\ "reachable" \in f /\ "suspended" \notin f
    THEN flags' = f \cup {"willRetry"} /\ timer' = TRUE /\ retryCount' = 0
    ELSE flags' = f /\ UNCHANGED <<timer, retryCount>>

SetHostReachable(c, reachable) ==
    /\ mode.remote
    /\ Call(c, IF reachable THEN "reachable" ELSE "unreachable")
    /\ reachable # ("reachable" \in flags)
    /\ IF reachable
       THEN MaybeScheduleRetry(flags \cup {"reachable"})
       ELSE flags' = flags \ {"reachable", "willRetry"} /\ timer' = FALSE /\ UNCHANGED retryCount
    /\ UNCHANGED <<level, err, repl, cancelStop, activeWhenSuspended, selfRetain, threads, worker, told, stopAsked, faults>>

(* setSuspended(), with _suspend() and _unsuspend() *)
SetSuspended(c, suspend) ==
    /\ Call(c, IF suspend THEN "suspend" ELSE "unsuspend")
    /\ level # Stopped
    /\ UNCHANGED <<local, stopAsked>>
    /\ \/ /\ level = Stopping /\ "suspended" \in flags
          /\ cancelStop' = ~suspend
          /\ UNCHANGED <<level, err, flags, repl, activeWhenSuspended, selfRetain, retryCount, timer, pc, worker, told, faults>>
       \/ /\ level # Stopping /\ suspend /\ "suspended" \notin flags
          /\ activeWhenSuspended' = (level >= Connecting)
          /\ IF level >= Connecting
             THEN /\ flags' = (flags \ (IF mode.remote THEN {"willRetry"} ELSE {})) \cup {"suspended"}
                  /\ timer' = (timer /\ ~mode.remote)
                  /\ level' = Stopping /\ r' = Enqueue(r, [t |-> "stop"])
             ELSE flags' = flags \cup {"suspended"} /\ UNCHANGED <<timer, level, r>>
          /\ UNCHANGED <<err, repl, cancelStop, selfRetain, retryCount, pc, link, child, told, faults>>
       \/ /\ level # Stopping /\ ~suspend /\ "suspended" \in flags
          /\ UNCHANGED <<cancelStop, activeWhenSuspended>>
          /\ CASE level = Offline /\ activeWhenSuspended /\ ~mode.remote ->
                     DoStart(c, flags \ {"suspended"}, timer) /\ UNCHANGED retryCount
               [] level = Offline /\ activeWhenSuspended /\ mode.remote ->
                     /\ MaybeScheduleRetry(flags \ {"suspended"})
                     /\ UNCHANGED <<level, err, repl, selfRetain, pc, worker, told, faults>>
               [] OTHER ->
                     /\ flags' = flags \ {"suspended"}
                     /\ UNCHANGED <<level, err, repl, selfRetain, retryCount, timer, pc, worker, told, faults>>

-----------------------------------------------------------------------------
(* Calling back.  notifyStateChanged() reads the status under the mutex,   *)
(* and calls the client without it.                                        *)
Notify(t) ==
    /\ pc[t] = "notify"
    /\ IF err # "none" /\ level > Offline
       THEN Goto(t, "after") /\ UNCHANGED local
       ELSE /\ local' = [local EXCEPT ![t].level = IF level = Stopping THEN Busy ELSE level]
            /\ Goto(t, "call")
    /\ UNCHANGED <<mode, front, worker, told, stopAsked, bounds>>

CallClient(t) ==
    /\ pc[t] = "call"
    /\ told' = told \cup {local[t].level}
    /\ Goto(t, "after")
    /\ UNCHANGED <<mode, front, local, worker, stopAsked, bounds>>

(* What follows in stop(), a start that failed, and                        *)
(* replicatorStatusChanged(): the reference to itself is dropped, and the  *)
(* restart that was asked for meanwhile takes place.                       *)
AfterCall(t) ==
    /\ pc[t] = "after" /\ t # "repl"
    /\ selfRetain' = (selfRetain /\ ~local[t].stopped)
    /\ local' = [local EXCEPT ![t] = [NoLocal EXCEPT !.resume = local[t].resume]]
    /\ Goto(t, IF local[t].resume THEN "lock" ELSE "idle")
    /\ UNCHANGED <<mode, level, err, flags, repl, cancelStop, activeWhenSuspended, retryCount, timer, worker, told,
                   stopAsked, bounds>>

Resume ==
    /\ pc["old"] = "lock"
    /\ local' = [local EXCEPT !["old"] = NoLocal]
    /\ StartNow("old")
    /\ stopAsked' = FALSE
    /\ UNCHANGED <<mode, calls>>

-----------------------------------------------------------------------------
(* handleStopped(): [level, flags, timer, retryCount] after it *)
HandleStopped(e) ==
    LET transient == MayBeTransient(e)
        mayRetry == mode.remote /\ (transient \/ (mode.continuous /\ e = "network")) /\ retryCount < mode.maxRetries
        asIs == [level |-> Stopped, flags |-> flags, timer |-> timer, retryCount |-> retryCount]
    IN  CASE ~mayRetry -> asIs
          [] mayRetry /\ (transient \/ "reachable" \in flags) ->
                [level |-> Offline, flags |-> flags \cup {"willRetry"}, timer |-> TRUE, retryCount |-> retryCount + 1]
          [] OTHER -> [asIs EXCEPT !.level = Offline]

(* replicatorStatusChanged(), called by reportStatus(): the part under the *)
(* mutex.  A Replicator that has stopped is let go.  "old" stands for one  *)
(* that is still calling back: a second one waits for it to finish.        *)
StatusChanged ==
    /\ pc["repl"] = "report" /\ repl
    /\ UNCHANGED <<mode, activeWhenSuspended, selfRetain, link, child, told, stopAsked, bounds>>
    /\ \/ /\ r.level # Stopped
          /\ pc' = [pc EXCEPT !["repl"] = "notify"]
          /\ IF level = Stopping
             THEN UNCHANGED <<level, err, retryCount>>
             ELSE /\ level' = r.level /\ err' = r.err
                  /\ retryCount' = IF mode.remote /\ r.level > Connecting /\ level <= Connecting
                                   THEN 0 ELSE retryCount
          /\ UNCHANGED <<flags, repl, cancelStop, timer, local, r>>
       \/ /\ r.level = Stopped /\ pc["old"] = "idle"
          /\ LET h == IF "suspended" \in flags
                      THEN [level |-> Offline, flags |-> flags, timer |-> timer, retryCount |-> retryCount]
                      ELSE IF level # Stopping THEN HandleStopped(r.err)
                      ELSE [level |-> Stopped, flags |-> flags, timer |-> timer, retryCount |-> retryCount]
             IN  /\ level' = h.level /\ flags' = h.flags /\ timer' = h.timer /\ retryCount' = h.retryCount
                 /\ local' = [local EXCEPT !["old"] = [NoLocal EXCEPT !.stopped = (h.level = Stopped),
                                                                     !.resume = cancelStop]]
          /\ err' = r.err
          /\ repl' = FALSE /\ cancelStop' = FALSE
          /\ r' = NewReplicator(Colls)
          /\ pc' = [pc EXCEPT !["repl"] = "idle", !["old"] = "notify"]

(* The Replicator handles the next event, and reports if its status has    *)
(* changed.                                                                *)
Finish(handled) ==
    \E now \in BOOLEAN, q \in {handled} :
        \E a \in {AfterEvent(q, mode.continuous, now)} :
            /\ a.q.delayed <= MaxDelayed
            /\ r' = a.q
            /\ Goto("repl", IF a.report THEN "report" ELSE "idle")

HandleEvent ==
    /\ repl /\ pc["repl"] = "idle" /\ r.box # << >>
    /\ UNCHANGED <<mode, front, local, child, told, stopAsked, calls>>
    /\ \E m \in {Head(r.box)}, q \in {[r EXCEPT !.box = Tail(@)]} :
        \/ m.t = "start" /\ link' = "opening" /\ Finish(Start(q, "none")) /\ UNCHANGED faults
        \/ m.t = "start" /\ link' = "opening" /\ Fault /\ Finish(Start(q, "other"))
        \/ m.t = "stop" /\ Finish(Disconnect(q, "normal")) /\ UNCHANGED <<link, faults>>
        \/ m.t = "connect" /\ Finish(OnConnect(q)) /\ UNCHANGED <<link, faults>>
        \/ m.t = "close" /\ Finish(OnClose(q, m.status)) /\ UNCHANGED <<link, faults>>
        \/ m.t = "response" /\ Finish(OnResponse(q, m)) /\ UNCHANGED <<link, faults>>
        \/ /\ m.t = "child"
           /\ \E save \in BOOLEAN : Finish(ChildChangedStatus(q, m, save))
           /\ UNCHANGED <<link, faults>>

(* A delayed reportStatus(); afterEvent() follows it. *)
DelayedReport ==
    /\ repl /\ pc["repl"] = "idle" /\ r.delayed > 0
    /\ r' = [ReportStatus(r) EXCEPT !.delayed = @ - 1]
    /\ local' = [local EXCEPT !["repl"].finish = TRUE]
    /\ Goto("repl", "report")
    /\ UNCHANGED <<mode, front, link, child, told, stopAsked, bounds>>

AfterReport ==
    /\ pc["repl"] = "after"
    /\ local' = [local EXCEPT !["repl"] = NoLocal]
    /\ IF local["repl"].finish THEN Finish(r) ELSE Goto("repl", "idle") /\ UNCHANGED r
    /\ UNCHANGED <<mode, front, link, child, told, stopAsked, bounds>>

-----------------------------------------------------------------------------
(* The connection.  It may succeed although the Replicator has asked to    *)
(* close it, and ends when that is asked, or by itself.                    *)
LinkConnects ==
    /\ repl /\ link = "opening"
    /\ link' = "open"
    /\ r' = Enqueue(r, [t |-> "connect"])
    /\ UNCHANGED <<mode, front, threads, child, told, stopAsked, bounds>>

CloseLink(status) ==
    /\ link' = "closed"
    /\ r' = Enqueue(r, [t |-> "close", status |-> status])
    /\ UNCHANGED <<mode, front, threads, child, told, stopAsked, calls>>

LinkCloses ==
    /\ repl /\ link \in {"opening", "open"} /\ r.close # "none"
    /\ CloseLink(r.close)
    /\ UNCHANGED faults

LinkFails ==
    \E status \in CloseStatus :
        /\ repl /\ link \in {"opening", "open"} /\ (status = "normal" => link = "open")
        /\ Fault
        /\ CloseLink(status)

(* The peer answers a request; or BLIPIO gives it up, because the          *)
(* connection has closed.  It may lack a collection, or have another       *)
(* version of the checkpoint than the one that is to be replaced.          *)
Requests == {GetCollections} \cup {"setCheckpoint", "getCheckpoint"} \X Colls
Refusals(kind) ==
    {e \in {"missing", "conflict"} : kind = IF e = "missing" THEN "getCollections" ELSE "setCheckpoint"}

Unanswered(req) ==
    /\ repl /\ req \in r.pending
    /\ ~\E i \in DOMAIN r.box : r.box[i].t = "response" /\ r.box[i].req = req

Respond(req, result) ==
    /\ Unanswered(req)
    /\ r' = Enqueue(r, [t |-> "response", req |-> req, result |-> result])
    /\ UNCHANGED <<mode, front, threads, link, child, told, stopAsked, calls>>

Reply(req) == link = "open" /\ Respond(req, "ok") /\ UNCHANGED faults
ReplyError(req) == \E e \in ChildErrors \cup Refusals(req[1]) : link = "open" /\ Fault /\ Respond(req, e)
GiveUp(req) == link = "closed" /\ Respond(req, "lost") /\ UNCHANGED faults

(* A Pusher works: once started it goes idle (continuous) or stops, and    *)
(* when the connection has closed it stops.  An error that it has had      *)
(* stays in its status.                                                    *)
ChildReports(c, l, e) ==
    /\ child' = [child EXCEPT ![c] = [level |-> l, err |-> e]]
    /\ r' = Enqueue(r, [t |-> "child", coll |-> c, level |-> l, err |-> e])
    /\ UNCHANGED <<mode, front, threads, link, told, stopAsked, calls>>

ChildDone(c) ==
    /\ repl /\ child[c].level = Busy /\ r.started /\ r.linked
    /\ ChildReports(c, IF mode.continuous THEN Idle ELSE Stopped, child[c].err)
    /\ UNCHANGED faults

ChildBusy(c) ==
    /\ repl /\ child[c].level # Stopped /\ r.started
    /\ \E e \in {child[c].err} \cup ChildErrors :
          /\ <<Busy, e>> # <<child[c].level, child[c].err>>
          /\ Fault
          /\ ChildReports(c, Busy, e)

ChildCloses(c) ==
    /\ repl /\ ~r.linked /\ child[c].level # Stopped
    /\ ChildReports(c, Stopped, child[c].err)
    /\ UNCHANGED faults

(* What clients call; what the threads, once they have begun, have to do,  *)
(* with the connection that closes when it is told to and workers that do  *)
(* their work; and what the timer and the network do in their own time.    *)
ClientCalls(c) ==
    \/ ClientStart(c) \/ ClientRetry(c) \/ ClientStop(c)
    \/ \E b \in BOOLEAN : SetHostReachable(c, b) \/ SetSuspended(c, b)

System ==
    \/ \E c \in Clients : StopWritesFlags(c) \/ StopLocked(c)
    \/ \E t \in Threads : Notify(t) \/ CallClient(t) \/ AfterCall(t)
    \/ TimerRetries \/ Resume \/ StatusChanged \/ HandleEvent \/ DelayedReport \/ AfterReport
    \/ LinkCloses
    \/ \E c \in Colls : ChildDone(c) \/ ChildCloses(c)
    \/ \E q \in Requests : GiveUp(q)
    \/ \E q \in Requests \ {GetCollections} : Reply(q)

Environment ==
    \/ TimerFires
    \/ LinkConnects \/ LinkFails
    \/ Reply(GetCollections) \/ \E q \in Requests : ReplyError(q)
    \/ \E c \in Colls : ChildBusy(c)

Next == System \/ Environment \/ \E c \in Clients : ClientCalls(c)

Spec == Init /\ [][Next]_vars

(* The scheduler runs the threads that have something to do; WebSocketImpl *)
(* closes the connection within a time limit; and (only OneShotEnds needs  *)
(* it) the peer answers when a checkpoint is saved.                        *)
FairSpec == Spec /\ WF_vars(System)

-----------------------------------------------------------------------------
(* What the client is told and what is going on agree: there is a          *)
(* Replicator exactly while the level says connecting, idle, busy or       *)
(* stopping.                                                               *)
LevelMatchesReplicator == repl <=> level >= Connecting

(* The level that counts for the whole replicator, which updatePushStatus  *)
(* keeps up to date as collections come and go, is the busiest             *)
(* collection's.                                                           *)
OverallLevelIsMax == r.overall = MaxLevel(r.sub)

(* A Replicator is let go only when its connection has closed, its         *)
(* requests have been answered or given up, and no worker says that it is  *)
(* busy: nothing goes on behind the client's back.                         *)
LetGoIsDone ==
    [][repl /\ ~repl' => link = "closed" /\ r.pending = {} /\ \A c \in Colls : r.sub[c] # Busy]_vars

(* Whenever the replicator has come to rest, stopped or offline, the       *)
(* client has been told so since it was started, however the calls of      *)
(* stop(), start() and the Replicator's own end interleaved.               *)
RestIsAnnounced ==
    level <= Offline /\ (\A t \in Threads : pc[t] = "idle") => level \in told

(* So the client knows what is going on. *)
ClientIsTold == TypeOK /\ LevelMatchesReplicator /\ OverallLevelIsMax /\ RestIsAnnounced

(* CBL-1178: when the Replicator has closed the connection because of an   *)
(* error, the client ends up with an error, that one or one that occurred  *)
(* later, and not with the code that the connection was closed with,       *)
(* whichever of the two ends was first to close it.                        *)
StoppingErrorIsKept ==
    [][repl /\ ~repl' /\ r.close \in AppCodes => err' \notin AppCodes \cup {"none"}]_vars

(* Once no client is within stop() any more, a replicator stays stopped    *)
(* until start() runs: neither the retry timer, even if the retry was      *)
(* scheduled while stop() was waiting for the mutex, nor a call of retry() *)
(* or setSuspended() starts it again.                                      *)
HasBeenStopped == stopAsked /\ \A c \in Clients : pc[c] \notin {"cancel", "lock"}
StopOverridesRetry ==
    [][HasBeenStopped /\ ~repl /\ repl' => ~stopAsked']_vars

(* A replicator that is stopping does stop (or goes offline, if it was     *)
(* suspended).                                                             *)
StoppingEnds == level = Stopping ~> level # Stopping

(* A one-shot replication that has begun comes to an end, if the peer      *)
(* answers, whatever errors the workers of its collections or the peer     *)
(* report; except that a save whose refresh was answered by an error, one  *)
(* that does not stop the replication, is never completed.                 *)
SaveIsLost ==
    r.conn = "connected" /\ \E c \in Colls : r.saves[c] > 0 /\ \A q \in r.pending : q[2] # c
OneShotEnds == ~mode.continuous /\ repl /\ r.started ~> level <= Offline \/ SaveIsLost

=============================================================================
