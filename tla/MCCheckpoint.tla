---------------------------- MODULE MCCheckpoint ----------------------------
(***************************************************************************)
(* What a checkpoint is made of, each by itself: SequenceSet objects, the  *)
(* Checkpoint that has one, and the Checkpointer that saves it.  In a      *)
(* behaviour one of the three, `part`, runs and the others stay as they    *)
(* were created.                                                           *)
(***************************************************************************)
EXTENDS SequenceSetObjects, Checkpoint, Checkpointer

VARIABLE part

PartsInit == ObjectsInit /\ CheckpointInit /\ Init /\ part \in {"sets", "checkpoint", "autosave"}

PartsNext ==
    \/ part = "sets" /\ ObjectsNext /\ UNCHANGED <<checkpointVars, vars, part>>
    \/ part = "checkpoint" /\ CheckpointNext /\ UNCHANGED <<sequences, vars, part>>
    \/ part = "autosave" /\ Next /\ UNCHANGED <<sequences, checkpointVars, part>>

(* Fairness is Checkpointer's; nothing of it is enabled before it runs. *)
PartsSpec == PartsInit /\ [][PartsNext]_<<sequences, checkpointVars, vars, part>> /\ Fairness

-----------------------------------------------------------------------------
(* Encodings of sets, and arrays nothing in the code wrote: odd lengths,   *)
(* empty ranges, and ranges that overflow the modulus.                     *)
MCArrays == {<<0>>, <<1, 2>>, <<3, 1, 0, 1>>, <<1, 2, 0, 2>>,
             <<0, 1, 2, 0, 4, 1>>, <<2, 1, 4, 5>>, <<1, 1, 3>>}

(* Two plain sequences, a backfill and a low-sequence one that tie with    *)
(* one of them, an alias ("0:2" means "2"), and an unparseable one.        *)
MCRemoteSeqs == {NullSequence, <<1>>, <<2>>, <<0, 2>>, <<2, 1>>, <<2, Blank, 1>>, <<1, Blank>>}
=============================================================================
