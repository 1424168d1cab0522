-------------------------- MODULE ParsedSequenceID --------------------------
(***************************************************************************)
(* repl::RemoteSequence and repl::ParsedSequenceID: the sequences a server *)
(* gives the Puller, and the order in which checkpoints compare them.      *)
(*                                                                         *)
(* A RemoteSequence is opaque text.  Here it is the sequence of its parts  *)
(* between colons: "42" is <<42>>, "100:35" is <<100, 35>>, "20::35" is    *)
(* <<20, Blank, 35>>, and the null RemoteSequence is << >>.                *)
(***************************************************************************)
EXTENDS Naturals, Sequences

CONSTANTS Blank,   \* the empty string between two colons
          Junk     \* a part that is not a decimal number

NullSequence == << >>

ID(seq, triggeredBy, lowSeq) ==
    [seq |-> seq, triggeredBy |-> triggeredBy, lowSeq |-> lowSeq]

ParsedIDs == [seq : Nat, triggeredBy : Nat, lowSeq : Nat]

IsNumber(part) == part \notin {Blank, Junk}

(* parse(): Seq, TriggeredBy:Seq, LowSeq:TriggeredBy:Seq or LowSeq::Seq.   *)
Parseable(parts) ==
    /\ Len(parts) \in 1 .. 3
    /\ IsNumber(parts[1]) /\ IsNumber(parts[Len(parts)])
    /\ Len(parts) = 3 => parts[2] # Junk

Parsed(parts) ==
    CASE Len(parts) = 1 -> ID(parts[1], 0, 0)
      [] Len(parts) = 2 -> ID(parts[2], parts[1], 0)
      [] Len(parts) = 3 -> ID(parts[3], IF parts[2] = Blank THEN 0 ELSE parts[2], parts[1])

-----------------------------------------------------------------------------
IsLowSeq(a) == a.lowSeq > 0
IsTriggered(a) == a.lowSeq = 0 /\ a.triggeredBy > 0
IsSimple(a) == a.lowSeq = 0 /\ a.triggeredBy = 0

(* before(), for two sequences neither of which has a lowSeq. *)
InnerBefore(a, b) ==
    \/ IsTriggered(a) /\ IsTriggered(b) /\ a.triggeredBy # b.triggeredBy
          /\ a.triggeredBy < b.triggeredBy
    \/ IsTriggered(a) /\ IsTriggered(b) /\ a.triggeredBy = b.triggeredBy /\ a.seq < b.seq
    \/ IsTriggered(a) /\ IsSimple(b) /\ a.triggeredBy <= b.seq
    \/ IsSimple(a) /\ IsTriggered(b) /\ a.seq < b.triggeredBy
    \/ IsSimple(a) /\ IsSimple(b) /\ a.seq < b.seq

(* before(). *)
Before(a, b) ==
    \/ IsLowSeq(a) /\ IsLowSeq(b) /\ a.lowSeq # b.lowSeq /\ a.lowSeq < b.lowSeq
    \/ IsLowSeq(a) /\ IsLowSeq(b) /\ a.lowSeq = b.lowSeq
          /\ InnerBefore(ID(a.seq, a.triggeredBy, 0), ID(b.seq, b.triggeredBy, 0))
    \/ IsLowSeq(a) /\ IsTriggered(b) /\ a.lowSeq < b.triggeredBy
    \/ IsLowSeq(a) /\ IsSimple(b) /\ a.lowSeq < b.seq
    \/ IsTriggered(a) /\ IsLowSeq(b) /\ a.triggeredBy <= b.lowSeq
    \/ IsSimple(a) /\ IsLowSeq(b) /\ a.seq <= b.lowSeq
    \/ ~IsLowSeq(a) /\ ~IsLowSeq(b) /\ InnerBefore(a, b)
=============================================================================
