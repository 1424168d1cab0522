---------------------------- MODULE SequenceSet ----------------------------
(***************************************************************************)
(* The data structure litecore::SequenceSet: a set of sequence numbers     *)
(* stored as a std::map from the start of each run of consecutive members  *)
(* to the end of that run (exclusive).  A map is a function from starts to *)
(* ends.  The operators below follow the iterator code case by case; what  *)
(* they mean as sets is stated in SequenceSetObjects and                   *)
(* AlgorithmProofs.                                                        *)
(***************************************************************************)
EXTENDS Naturals, SequencesExt

Empty == << >>

(* The sequence numbers a map stands for. *)
Members(m) == UNION {a .. (m[a] - 1) : a \in DOMAIN m}

(* The representation invariant: runs are non-empty, disjoint, and never   *)
(* adjacent (adjacent runs are always merged).                             *)
Canonical(m) ==
    \A a \in DOMAIN m : /\ a < m[a]
                        /\ \A b \in DOMAIN m : a < b => m[a] < b

(***************************************************************************)
(* Map iterators.  upper_bound(s) is the first range that starts after s;  *)
(* prev(upper_bound(s)), the last range that starts at or before s, exists *)
(* iff upper_bound(s) is not begin().                                      *)
(***************************************************************************)
HasLower(m, s) == \E a \in DOMAIN m : a <= s
Lower(m, s) == CHOOSE a \in DOMAIN m :
                  /\ a <= s
                  /\ \A b \in DOMAIN m : b <= s => b <= a

Erase(m, starts) == [a \in DOMAIN m \ starts |-> m[a]]
Put(m, start, end) == [a \in DOMAIN m \cup {start} |->
                          IF a = start THEN end ELSE m[a]]

(* Definitions named Bad... are plausible mistakes in the operator that    *)
(* follows them; they show that the properties would notice.               *)
ContainsRange(m, begin, end) == HasLower(m, begin) /\ end <= m[Lower(m, begin)]
Size(m) == FoldSet(LAMBDA a, total : (m[a] - a) + total, 0, DOMAIN m)
FirstSeq(m) == IF m = Empty THEN 0 ELSE Min(DOMAIN m)
LastSeq(m) == IF m = Empty THEN 0 ELSE m[Max(DOMAIN m)] - 1

(***************************************************************************)
(* _add(s).  "s just before upper" is s + 1 \in DOMAIN m.                  *)
(***************************************************************************)
AddSeq(m, s) ==
    LET beforeUpper == s + 1 \in DOMAIN m
        afterLower  == HasLower(m, s) /\ m[Lower(m, s)] = s
        inLower     == HasLower(m, s) /\ s < m[Lower(m, s)]
    IN  CASE beforeUpper /\ afterLower  -> Put(Erase(m, {s + 1}), Lower(m, s), m[s + 1])
          [] beforeUpper /\ ~afterLower -> Put(Erase(m, {s + 1}), s, m[s + 1])
          [] ~beforeUpper /\ inLower    -> m
          [] ~beforeUpper /\ afterLower -> Put(m, Lower(m, s), s + 1)
          [] OTHER                      -> Put(m, s, s + 1)

(* add(s0, s1): add both ends of [s0, s1), then merge the two ranges they  *)
(* landed in and discard what lies in between.                             *)
MergeBetween(m, lower, upper) ==
    Put(Erase(m, {a \in DOMAIN m : lower < a /\ a <= upper}), lower, m[upper])

AddRange(m, s0, s1) ==
    LET ends == AddSeq(AddSeq(m, s0), s1 - 1)
        lo   == Lower(ends, s0)
        up   == Lower(ends, s1 - 1)
    IN  CASE s1 <= s0     -> m
          [] s1 = s0 + 1  -> AddSeq(m, s0)
          [] s1 > s0 + 1  -> IF up # lo THEN MergeBetween(ends, lo, up) ELSE ends

(* remove(s). *)
RemoveSeq(m, s) ==
    LET i == Lower(m, s)
        atStart == s = i
        atEnd   == s = m[i] - 1
    IN  CASE ~ContainsRange(m, s, s + 1) -> m
          [] ContainsRange(m, s, s + 1) /\ atStart /\ atEnd   -> Erase(m, {s})
          [] ContainsRange(m, s, s + 1) /\ atStart /\ ~atEnd  -> Put(Erase(m, {s}), s + 1, m[s])
          [] ContainsRange(m, s, s + 1) /\ ~atStart /\ atEnd  -> Put(m, i, s)
          [] ContainsRange(m, s, s + 1) /\ ~atStart /\ ~atEnd -> Put(Put(m, i, s), s + 1, m[i])

(* remove(s0, s1): remove both ends of [s0, s1), then erase the run of     *)
(* ranges that start after s0 and end by s1.                               *)
RemoveRange(m, s0, s1) ==
    LET ends   == RemoveSeq(RemoveSeq(m, s0), s1 - 1)
        inside == {a \in DOMAIN ends :
                      a > s0 /\ \A b \in DOMAIN ends : s0 < b /\ b <= a => ends[b] <= s1}
    IN  CASE s1 <= s0    -> m
          [] s1 = s0 + 1 -> RemoveSeq(m, s0)
          [] s1 = s0 + 2 -> ends
          [] s1 > s0 + 2 -> Erase(ends, inside)

(***************************************************************************)
(* Operations on two sets.  The iteration order is that of the map.        *)
(***************************************************************************)
Ranges(m) == [i \in 1 .. Cardinality(DOMAIN m) |->
                 LET start == SetToSortSeq(DOMAIN m, <)[i] IN <<start, m[start]>>]

UnionOf(m1, m2) == FoldLeft(LAMBDA m, r : AddRange(m, r[1], r[2]), m1, Ranges(m2))
Difference(m1, m2) == FoldLeft(LAMBDA m, r : RemoveRange(m, r[1], r[2]), m1, Ranges(m2))

(* The iterator whose range ends last is the one that advances. *)
BadOverlaps(r1, r2) ==
    LET walk[i \in 1 .. Len(r1) + 1, j \in 1 .. Len(r2) + 1] ==
          IF i > Len(r1) \/ j > Len(r2)
          THEN << >>
          ELSE LET start == Max({r1[i][1], r2[j][1]})
                   end   == Min({r1[i][2], r2[j][2]})
                   nextI == IF r1[i][2] >= r2[j][2] THEN i + 1 ELSE i
                   nextJ == IF r1[i][2] <= r2[j][2] THEN j + 1 ELSE j
               IN  (IF start < end THEN << <<start, end>> >> ELSE << >>) \o walk[nextI, nextJ]
    IN  walk[1, 1]

(* The two-iterator walk of intersection(): the overlaps it adds to its    *)
(* result, in order, from the positions i and j on.                        *)
Overlaps(r1, r2) ==
    LET walk[i \in 1 .. Len(r1) + 1, j \in 1 .. Len(r2) + 1] ==
          IF i > Len(r1) \/ j > Len(r2)
          THEN << >>
          ELSE LET start == Max({r1[i][1], r2[j][1]})
                   end   == Min({r1[i][2], r2[j][2]})
                   nextI == IF r1[i][2] <= r2[j][2] THEN i + 1 ELSE i
                   nextJ == IF r1[i][2] >= r2[j][2] THEN j + 1 ELSE j
               IN  (IF start < end THEN << <<start, end>> >> ELSE << >>) \o walk[nextI, nextJ]
    IN  walk[1, 1]

Intersection(m1, m2) ==
    FoldLeft(LAMBDA m, r : AddRange(m, r[1], r[2]), Empty, Overlaps(Ranges(m1), Ranges(m2)))

(***************************************************************************)
(* The encoded form: an array <<first, length, first, length, ...>> of     *)
(* unsigned integers of the given modulus (2^64 in the code).  Reading     *)
(* adds ranges to the set until the array ends or an empty or overflowing  *)
(* range makes the read fail; what was added before the failure stays.     *)
(***************************************************************************)
Encode(m) == FlattenSeq([i \in DOMAIN Ranges(m) |->
                            <<Ranges(m)[i][1], Ranges(m)[i][2] - Ranges(m)[i][1]>>])

ReadRange(read, first, length, modulus) ==
    LET end == (first + length) % modulus
    IN  IF ~read.ok \/ end <= first
        THEN [read EXCEPT !.ok = FALSE]
        ELSE [read EXCEPT !.set = AddRange(@, first, end)]

Read(m, array, modulus) ==
    IF Len(array) % 2 # 0
    THEN [ok |-> FALSE, set |-> m]
    ELSE FoldLeft(LAMBDA read, k : ReadRange(read, array[2 * k - 1], array[2 * k], modulus),
                  [ok |-> TRUE, set |-> m],
                  [k \in 1 .. (Len(array) \div 2) |-> k])
=============================================================================
