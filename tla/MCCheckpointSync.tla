-------------------------- MODULE MCCheckpointSync --------------------------
EXTENDS CheckpointSync, TLC

Symmetry == Permutations(Revs \ Refused)

(* Behaviours with each of the faults.  None of them has to happen, so     *)
(* these include the behaviours without faults.                            *)
EachFault == {{"local"}, {"remote"}, {"commit"}}

(* States of the last session that differ only in a backup, which can no   *)
(* longer be restored, are the same.                                       *)
View == <<disk, peer, live, push, pull, saves, fresh, sessions, late, faults,
          IF sessions < MaxSessions THEN backups ELSE << >>>>
=============================================================================
