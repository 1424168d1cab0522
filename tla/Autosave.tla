------------------------------ MODULE Autosave ------------------------------
(***************************************************************************)
(* What Checkpointer's autosave promises the Replicator, with no timer,    *)
(* thread or lock in sight: saves are of the current state, one at a time, *)
(* never of a state that was already saved, and none begins once autosave  *)
(* has been stopped.                                                       *)
(***************************************************************************)
EXTENDS Naturals

CONSTANT MaxVersion   \* bound on the number of changes

VARIABLES version,    \* how often the checkpoint has changed
          json,       \* the version last handed out to be saved
          saving,     \* a save is in progress
          enabled     \* autosave has not been stopped

vars == <<version, json, saving, enabled>>

Init == version = 0 /\ json = 0 /\ saving = FALSE /\ enabled = TRUE

Change ==
    /\ version < MaxVersion
    /\ version' = version + 1
    /\ UNCHANGED <<json, saving, enabled>>

BeginSave ==
    /\ enabled /\ ~saving /\ json # version
    /\ json' = version
    /\ saving' = TRUE
    /\ UNCHANGED <<version, enabled>>

EndSave ==
    /\ saving
    /\ saving' = FALSE
    /\ UNCHANGED <<version, json, enabled>>

Stop ==
    /\ enabled' = FALSE
    /\ UNCHANGED <<version, json, saving>>

Next == Change \/ BeginSave \/ EndSave \/ Stop

Spec == Init /\ [][Next]_vars
=============================================================================
