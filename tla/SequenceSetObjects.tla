------------------------- MODULE SequenceSetObjects -------------------------
(***************************************************************************)
(* A few SequenceSet objects under every sequence of operations: the       *)
(* operators of module SequenceSet as the methods of a class, one action   *)
(* per method.  The objects live in one thread at a time (their owners     *)
(* guard them with a mutex, see Checkpointer), so methods do not overlap.  *)
(***************************************************************************)
EXTENDS SequenceSet

CONSTANTS Objects,        \* the SequenceSet instances
          LargestSeq,     \* bound on the sequence numbers passed in
          ArrayModulus,   \* 2^w, w the width of the integers read from an array
          Arrays          \* arrays that may be handed to read_fleece

VARIABLE sequences   \* sequences[o]: the map _sequences of object o

ObjectsInit == sequences = [o \in Objects |-> Empty]

Becomes(o, m) == sequences' = [sequences EXCEPT ![o] = m]

AddOp(o, s) == Becomes(o, AddSeq(sequences[o], s))
AddRangeOp(o, s0, s1) == s0 <= s1 /\ Becomes(o, AddRange(sequences[o], s0, s1))
RemoveOp(o, s) == Becomes(o, RemoveSeq(sequences[o], s))
RemoveRangeOp(o, s0, s1) == s0 <= s1 /\ Becomes(o, RemoveRange(sequences[o], s0, s1))
ClearOp(o) == Becomes(o, Empty)
UnionOp(o, p) == Becomes(o, UnionOf(sequences[o], sequences[p]))
IntersectionOp(o, p) == Becomes(o, Intersection(sequences[o], sequences[p]))
DifferenceOp(o, p) == Becomes(o, Difference(sequences[o], sequences[p]))
ReadOp(o, array) == Becomes(o, Read(sequences[o], array, ArrayModulus).set)

ObjectsNext ==
    \E o \in Objects :
        \/ ClearOp(o)
        \/ \E s \in 0 .. LargestSeq : AddOp(o, s) \/ RemoveOp(o, s)
        \/ \E s0, s1 \in 0 .. LargestSeq + 1 : AddRangeOp(o, s0, s1) \/ RemoveRangeOp(o, s0, s1)
        \/ \E p \in Objects : UnionOp(o, p) \/ IntersectionOp(o, p) \/ DifferenceOp(o, p)
        \/ \E array \in Arrays : ReadOp(o, array)

ObjectsSpec == ObjectsInit /\ [][ObjectsNext]_sequences

-----------------------------------------------------------------------------
(* Type invariant: every object is a finite map from sequences to the ends *)
(* of their ranges.                                                        *)
ObjectsTypeOK ==
    /\ DOMAIN sequences = Objects
    /\ \A o \in Objects : /\ DOMAIN sequences[o] \subseteq 0 .. LargestSeq
                          /\ \A a \in DOMAIN sequences[o] : sequences[o][a] \in 1 .. LargestSeq + 1

(* No sequence of add/remove/union/intersection/difference/read_fleece     *)
(* calls leaves two ranges overlapping or touching, or a range empty: each *)
(* method relies on it (upper_bound finds one candidate range only), and   *)
(* operator== compares maps, so two equal sets must have equal maps.       *)
RangesCanonical == ObjectsTypeOK /\ \A o \in Objects : Canonical(sequences[o])

(* operator== on the maps is equality of the sets (Checkpoint::validateWith*)
(* depends on it to decide whether two checkpoints agree).                 *)
EqualityIsSetEquality ==
    \A o, p \in Objects :
        Members(sequences[o]) = Members(sequences[p]) => sequences[o] = sequences[p]

(* contains(begin, end), size, first and last answer what the plain set    *)
(* would.                                                                  *)
QueriesAgree ==
    \A o \in Objects :
        LET m == sequences[o]
            S == Members(m)
        IN  /\ \A b \in 0 .. LargestSeq : \A e \in b + 1 .. LargestSeq + 1 :
                  ContainsRange(m, b, e) <=> b .. e - 1 \subseteq S
            /\ Size(m) = Cardinality(S)
            /\ S # {} => /\ FirstSeq(m) \in S /\ \A n \in S : FirstSeq(m) <= n
                         /\ LastSeq(m) \in S /\ \A n \in S : n <= LastSeq(m)

(* Reading back what encode_fleece wrote succeeds and gives the same set,  *)
(* whatever set it is (a checkpoint survives being saved).                 *)
EncodingRoundTrips ==
    \A o \in Objects : Read(Empty, Encode(sequences[o]), ArrayModulus) = [ok |-> TRUE, set |-> sequences[o]]

(* Every method has on the members exactly the effect its name says,       *)
(* whatever sets it is applied to: the iterator surgery of add, remove and *)
(* the two-iterator walk of intersection() lose and invent no sequence,    *)
(* the maps stay canonical, and the queries and the JSON form agree.       *)
MethodsAreSetOperations ==
    RangesCanonical /\ EqualityIsSetEquality /\ QueriesAgree /\ EncodingRoundTrips /\
    \A o, p \in Objects :
        LET m == sequences[o]
            n == sequences[p]
            S == Members(m)
            T == Members(n)
            interval(s0, s1) == {x \in s0 .. s1 : x < s1}
        IN  /\ \A s \in 0 .. LargestSeq : /\ Members(AddSeq(m, s)) = S \cup {s}
                                      /\ Members(RemoveSeq(m, s)) = S \ {s}
            /\ \A s1 \in 0 .. LargestSeq + 1 : \A s0 \in 0 .. s1 :
                  /\ Members(AddRange(m, s0, s1)) = S \cup interval(s0, s1)
                  /\ Members(RemoveRange(m, s0, s1)) = S \ interval(s0, s1)
            /\ Members(UnionOf(m, n)) = S \cup T
            /\ Members(Intersection(m, n)) = S \cap T
            /\ Members(Difference(m, n)) = S \ T
=============================================================================
