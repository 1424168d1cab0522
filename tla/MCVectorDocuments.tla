------------------------- MODULE MCVectorDocuments -------------------------
(***************************************************************************)
(* Instances of VectorDocuments for TLC.                                   *)
(***************************************************************************)
EXTENDS VectorDocuments

\* Two clients of one server, and two peers that are each other's clients.
Three == 1 .. 3
Star == {<<1, 3>>, <<2, 3>>}
Mesh == {<<1, 2>>, <<2, 1>>}

Quiet == [remotes |-> Star, pushes |-> TRUE,
          resolver |-> "any", purges |-> FALSE, reopens |-> FALSE,
          edits |-> 3, merges |-> 0, walls |-> 1]

Agreeing == [Quiet EXCEPT !.resolver = "latest"]
AgreeingLate == [Agreeing EXCEPT !.edits = 2, !.walls = 3]
AgreeingPeers == [Agreeing EXCEPT !.remotes = Mesh]
MergingPeers == [Quiet EXCEPT !.resolver = "merge", !.remotes = Mesh,
                              !.pushes = FALSE, !.merges = 3]
Purging == [Quiet EXCEPT !.purges = TRUE]
Reopening == [Quiet EXCEPT !.reopens = TRUE]
Merging == [Quiet EXCEPT !.merges = 1]
Skewed == [Quiet EXCEPT !.edits = 2, !.merges = 1, !.walls = 3]

AllModes == {Agreeing, AgreeingLate, AgreeingPeers, MergingPeers,
             Purging, Reopening, Merging, Skewed}
Disagreeing == {[Quiet EXCEPT !.remotes = Mesh, !.pushes = FALSE, !.merges = 1]}
=============================================================================
