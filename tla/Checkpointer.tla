---------------------------- MODULE Checkpointer ----------------------------
(***************************************************************************)
(* The autosave machinery of repl::Checkpointer, with the actor::Timer it  *)
(* uses and the Replicator that carries out the saves.                     *)
(*                                                                         *)
(* Three kinds of threads: the timer manager's thread (`tpc'), the         *)
(* Replicator's actor thread (`rpc'), and the Pusher's and Puller's, which *)
(* only change the checkpoint.  Every Checkpointer method is a critical    *)
(* section of Checkpointer::_mutex and one step here, except that          *)
(* stopAutosave() holds the mutex (`held') while ~Timer waits.  The        *)
(* contents of the checkpoint are abstracted to `version', the number of   *)
(* changes made to it; its JSON is the version it was made of.             *)
(***************************************************************************)
EXTENDS Naturals, Sequences

CONSTANT MaxVersion   \* bound on the number of changes

ASSUME MaxVersionAssumption == MaxVersion \in Nat

VARIABLES
    version,     \* the state of _checkpoint
    changed,     \* _changed
    saving,      \* _saving
    overdue,     \* _overdueForSave
    timer,       \* "null": no _timer; else the Timer's _state
    triggered,   \* Timer::_triggered: its callback is being called
    held,        \* _mutex is held by stopAutosave()
    tpc,         \* timer thread: waiting | calling | handing | returned
    rpc,         \* Replicator thread: idle | handing | saveAgain | stopping | closed
    json,        \* the JSON that the save() in progress made
    mailbox,     \* saveCheckpoint messages queued for the Replicator
    inFlight     \* versions sent to the peer, not yet answered

cvars == <<version, changed, saving, overdue, timer, triggered, held>>
vars == <<cvars, tpc, rpc, json, mailbox, inFlight>>

Init ==   \* after enableAutosave()
    /\ version = 0 /\ json = 0
    /\ changed = FALSE /\ saving = FALSE /\ overdue = FALSE
    /\ timer = "unscheduled" /\ triggered = FALSE
    /\ held = FALSE
    /\ tpc = "waiting" /\ rpc = "idle"
    /\ mailbox = << >> /\ inFlight = {}

-----------------------------------------------------------------------------
(* Timer::scheduled() and Timer::fireAfter(), which refuses once ~Timer    *)
(* has begun.                                                              *)
Scheduled == timer = "scheduled" \/ triggered
FireAfter == timer' = IF timer = "deleted" THEN timer ELSE "scheduled"

(* saveSoon(), given that the checkpoint changed. *)
SaveSoon ==
    \/ /\ timer = "null"
       /\ UNCHANGED <<changed, timer>>
    \/ /\ timer # "null"
       /\ changed' = TRUE
       /\ IF ~saving /\ ~Scheduled THEN FireAfter ELSE UNCHANGED timer

(* completedSequence, addPendingSequence(s), setRemoteMinSequence and      *)
(* validateWith, called on any thread.                                     *)
Change ==
    /\ ~held
    /\ version < MaxVersion
    /\ version' = version + 1
    /\ SaveSoon
    /\ UNCHANGED <<saving, overdue, triggered, held, tpc, rpc, json, mailbox, inFlight>>

(* The critical section of save(): it returns early, or takes the JSON     *)
(* that is then passed to the save callback.                               *)
SaveReturns ==
    /\ ~held
    /\ ~changed \/ timer = "null" \/ saving
    /\ overdue' = (overdue \/ (changed /\ timer # "null"))
    /\ UNCHANGED <<version, changed, saving, timer, held, json>>

(* The missing test of _saving; the missing test of _changed; a version    *)
(* that counts the save as a change.                                       *)
BadSaveBeginsTwice ==
    /\ ~held /\ changed /\ timer # "null"
    /\ changed' = FALSE /\ saving' = TRUE /\ json' = version
    /\ UNCHANGED <<version, overdue, timer, held>>
BadSaveBeginsUnchanged ==
    /\ ~held /\ timer # "null" /\ ~saving
    /\ changed' = FALSE /\ saving' = TRUE /\ json' = version
    /\ UNCHANGED <<version, overdue, timer, held>>
SaveBegins ==
    /\ ~held
    /\ changed /\ timer # "null" /\ ~saving
    /\ changed' = FALSE
    /\ saving' = TRUE
    /\ json' = version
    /\ UNCHANGED <<version, overdue, timer, held>>

(* _saveCallback(json) is Replicator::saveCheckpoint, which enqueues a     *)
(* call of _saveCheckpoint on the Replicator's mailbox.                    *)
Callback ==
    /\ mailbox' = Append(mailbox, json)
    /\ UNCHANGED <<cvars, json, inFlight>>

-----------------------------------------------------------------------------
(* The timer manager's thread: Timer::Manager::run(). *)
TimerFires ==
    /\ tpc = "waiting" /\ timer = "scheduled"
    /\ triggered' = TRUE
    /\ timer' = "unscheduled"
    /\ tpc' = "calling"
    /\ UNCHANGED <<version, changed, saving, overdue, held, rpc, json, mailbox, inFlight>>

TimerSaves ==
    /\ tpc = "calling"
    /\ \/ SaveReturns /\ tpc' = "returned"
       \/ SaveBegins /\ tpc' = "handing"
    /\ UNCHANGED <<triggered, rpc, mailbox, inFlight>>

TimerCallsBack == tpc = "handing" /\ tpc' = "returned" /\ Callback /\ UNCHANGED rpc

TimerDone ==
    /\ tpc = "returned"
    /\ triggered' = FALSE
    /\ tpc' = "waiting"
    /\ UNCHANGED <<version, changed, saving, overdue, timer, held, rpc, json, mailbox, inFlight>>

-----------------------------------------------------------------------------
(* The Replicator's thread.  Its actor handles one message at a time.      *)

(* save(): when the Pusher or Puller goes idle or stops (perhaps after the *)
(* connection closed), and again from saveCompleted() if it was overdue.   *)
ReplSaves ==
    /\ rpc \in {"idle", "saveAgain", "closed"}
    /\ \/ SaveReturns /\ rpc' = (IF rpc = "closed" THEN "closed" ELSE "idle")
       \/ SaveBegins /\ rpc' = "handing"
    /\ UNCHANGED <<triggered, tpc, mailbox, inFlight>>

ReplCallsBack == rpc = "handing" /\ rpc' = "idle" /\ Callback /\ UNCHANGED tpc

(* _saveCheckpoint(json): sends it to the peer, or ignores it if the       *)
(* connection is closed.                                                   *)
ReplSends ==
    /\ rpc \in {"idle", "closed"}
    /\ mailbox # << >>
    /\ mailbox' = Tail(mailbox)
    /\ inFlight' = IF rpc = "closed" THEN inFlight ELSE inFlight \cup {Head(mailbox)}
    /\ UNCHANGED <<cvars, tpc, rpc, json>>

(* The timer is not restarted for what changed during the save. *)
BadSaveCompleted(v) ==
    /\ rpc = "idle" /\ ~held
    /\ v \in inFlight
    /\ inFlight' = inFlight \ {v}
    /\ saving' = FALSE
    /\ rpc' = IF saving /\ overdue THEN "saveAgain" ELSE rpc
    /\ UNCHANGED <<version, changed, overdue, timer, triggered, held, tpc, json, mailbox>>

(* The peer answered (success or an error other than 409) and the          *)
(* Replicator calls saveCompleted().                                       *)
SaveCompleted(v) ==
    /\ rpc = "idle" /\ ~held
    /\ v \in inFlight
    /\ inFlight' = inFlight \ {v}
    /\ saving' = FALSE
    /\ IF saving /\ overdue
       THEN rpc' = "saveAgain" /\ UNCHANGED timer
       ELSE /\ IF saving /\ changed THEN FireAfter ELSE UNCHANGED timer
            /\ UNCHANGED rpc
    /\ UNCHANGED <<version, changed, overdue, triggered, held, tpc, json, mailbox>>

(* _onClose: stopAutosave() locks the mutex and destroys the Timer; ~Timer *)
(* unschedules it, then waits for a callback that is already running.      *)
StopAutosave ==
    /\ rpc = "idle" /\ ~held
    /\ held' = TRUE
    /\ timer' = "deleted"
    /\ rpc' = "stopping"
    /\ UNCHANGED <<version, changed, saving, overdue, triggered, tpc, json, mailbox, inFlight>>

AutosaveStopped ==
    /\ rpc = "stopping" /\ ~triggered
    /\ timer' = "null"
    /\ changed' = FALSE
    /\ held' = FALSE
    /\ rpc' = "closed"
    /\ UNCHANGED <<version, saving, overdue, triggered, tpc, json, mailbox, inFlight>>

-----------------------------------------------------------------------------
TimerThread == TimerFires \/ TimerSaves \/ TimerCallsBack \/ TimerDone
Next ==
    \/ Change
    \/ TimerThread
    \/ ReplSaves \/ ReplCallsBack \/ ReplSends
    \/ \E v \in inFlight : SaveCompleted(v)
    \/ StopAutosave \/ AutosaveStopped

Spec == Init /\ [][Next]_vars

(* The threads run, the peer answers what it is sent, and an actor handles *)
(* what is in its mailbox.  Nothing makes a child go idle, a worker change *)
(* the checkpoint or the connection close.                                 *)
Fairness ==
    /\ WF_vars(TimerThread)
    /\ WF_vars(ReplCallsBack)
    /\ WF_vars(ReplSends)
    /\ WF_vars(\E v \in inFlight : SaveCompleted(v))
    /\ WF_vars(rpc = "saveAgain" /\ ReplSaves)
    /\ WF_vars(AutosaveStopped)

FairSpec == Spec /\ Fairness
-----------------------------------------------------------------------------
(* Type invariant. *)
TypeOK ==
    /\ version \in 0 .. MaxVersion /\ json \in 0 .. MaxVersion
    /\ changed \in BOOLEAN /\ saving \in BOOLEAN /\ overdue \in BOOLEAN
    /\ timer \in {"null", "unscheduled", "scheduled", "deleted"}
    /\ triggered \in BOOLEAN /\ held \in BOOLEAN
    /\ tpc \in {"waiting", "calling", "handing", "returned"}
    /\ rpc \in {"idle", "handing", "saveAgain", "stopping", "closed"}
    /\ mailbox \in Seq(0 .. MaxVersion)
    /\ inFlight \in SUBSET (0 .. MaxVersion)

(* saveCompleted() dereferences _timer whenever it finds _changed set, and *)
(* saveSoon() is the only other place that decides to use it: _changed     *)
(* must never outlive the timer that stopAutosave() destroys.              *)
ChangedHasTimer == changed => timer # "null"

(* Where there is a JSON checkpoint between save() and the answer to it.   *)
Saves == {place \in {"timer thread", "Replicator thread", "mailbox", "peer"} :
             \/ place = "timer thread" /\ tpc = "handing"
             \/ place = "Replicator thread" /\ rpc = "handing"
             \/ place = "mailbox" /\ mailbox # << >>
             \/ place = "peer" /\ inFlight # {}}

(* Two saves never overlap, whichever threads call save() (the Replicator  *)
(* has one checkpointJSONToSave and one remote revision ID, so a second    *)
(* save would be sent over a stale revision), and _saving is never left    *)
(* set with no save on its way to reset it.                                *)
OneSaveAtATime ==
    /\ Len(mailbox) <= 1
    /\ \A u, v \in inFlight : u = v
    /\ rpc # "closed" => /\ \A p, q \in Saves : p = q
                         /\ saving <=> Saves # {}

(* Until autosave is stopped, _changed says exactly whether the checkpoint *)
(* differs from the JSON last handed out: a change made while a save is    *)
(* being prepared, sent or answered on another thread is not forgotten.    *)
NoChangeForgotten == timer # "null" => (changed <=> version # json)

(* When stopAutosave() has returned, the timer's callback (which holds a   *)
(* pointer to the Checkpointer) is not running and will not run again.     *)
NoCallbackAfterStop == rpc = "closed" => tpc = "waiting" /\ timer # "scheduled"

(* Checkpointer's autosave implements the abstract Autosave.               *)
Abstract == INSTANCE Autosave WITH enabled <- timer # "null"
ImplementsAutosave == Abstract!Spec

(* A change made while a save is in progress is saved after it, either at  *)
(* once (if the save was overdue) or when the timer that saveCompleted()   *)
(* starts fires, unless autosave is being stopped.                         *)
ChangeDuringSaveIsSaved ==
    (changed /\ saving) ~> (~changed \/ rpc \in {"stopping", "closed"})

=============================================================================
