-------------------------- MODULE AlgorithmProofs ---------------------------
(***************************************************************************)
(* Proofs about the algorithms that the components share: SequenceSet, the *)
(* Checkpoint and its autosave, and the hybrid clock.                      *)
(*                                                                         *)
(* For every map and every sequence number the methods of SequenceSet keep *)
(* the representation invariant and have the set-theoretic effect their    *)
(* names promise.                                                          *)
(*                                                                         *)
(* The order of remote sequences is a strict total order for all           *)
(* sequences, so that a mismatch of two remote sequences is always         *)
(* resolved to the earlier one; and validateWith never changes a           *)
(* checkpoint without saying so.                                           *)
(*                                                                         *)
(* The hybrid clock goes forward for every modulus of its counter, all     *)
(* times and every wall clock, except when its counter wraps around.       *)
(*                                                                         *)
(* The autosave of Checkpointer is safe for any number of changes, and     *)
(* implements Autosave.                                                    *)
(***************************************************************************)
EXTENDS Checkpoint, Checkpointer, HybridClock, TLAPS, SequenceTheorems, WellFoundedInduction

-----------------------------------------------------------------------------
(***************************************************************************)
(* SequenceSet.                                                            *)
(***************************************************************************)
IsMap(m) == DOMAIN m \subseteq Nat /\ m \in [DOMAIN m -> Nat]

(* A non-empty set of natural numbers has a least element. *)
LEMMA LeastNatural ==
    ASSUME NEW T \in SUBSET Nat, T # {}
    PROVE  \E d \in T : \A e \in T : d <= e
  <1> DEFINE R == OpToRel(<, Nat)
  <1>1. IsWellFoundedOn(R, Nat)
    BY NatLessThanWellFounded
  <1>2. \A x, y \in Nat : x < y => <<x, y>> \in R
    BY DEF OpToRel
  <1> HIDE DEF R
  <1>3. PICK d \in T : \A y \in T : ~(<<y, d>> \in R)
    <2>1. \E x \in T : \A y \in T : ~(<<y, x>> \in R)
      BY <1>1, WFMin
    <2>2. QED BY <2>1
  <1>4. ASSUME NEW e \in T PROVE d <= e
    <2>1. e \in Nat /\ d \in Nat
      OBVIOUS
    <2>2. ~(e < d)
      BY <1>2, <1>3, <2>1, Zenon
    <2>3. QED BY <2>1, <2>2
  <1>5. QED BY <1>4

(* The members of a map, without the interval notation. *)
LEMMA MembersDef ==
    ASSUME NEW m, IsMap(m), NEW n
    PROVE  n \in Members(m) <=> n \in Nat /\ \E a \in DOMAIN m : a <= n /\ n < m[a]
  <1>1. ASSUME n \in Members(m)
        PROVE  n \in Nat /\ \E a \in DOMAIN m : a <= n /\ n < m[a]
    <2>1. PICK a \in DOMAIN m : n \in a .. (m[a] - 1)
      BY <1>1 DEF Members
    <2>2. a \in Nat /\ m[a] \in Nat
      BY DEF IsMap
    <2>3. QED BY <2>1, <2>2
  <1>2. ASSUME n \in Nat, NEW a \in DOMAIN m, a <= n, n < m[a]
        PROVE  n \in Members(m)
    <2>1. a \in Nat /\ m[a] \in Nat
      BY DEF IsMap
    <2>2. n \in a .. (m[a] - 1)
      BY <1>2, <2>1
    <2>3. QED BY <2>2 DEF Members
  <1>3. QED BY <1>1, <1>2

(* prev(upper_bound(s)) is the last range that starts at or before s. *)
LEMMA LowerDef ==
    ASSUME NEW m, IsMap(m), NEW s \in Nat, HasLower(m, s)
    PROVE  /\ Lower(m, s) \in DOMAIN m
           /\ Lower(m, s) <= s
           /\ \A b \in DOMAIN m : b <= s => b <= Lower(m, s)
  <1> DEFINE T == {n \in Nat : \E a \in DOMAIN m : a <= s /\ n = s - a}
  <1>1. T # {}
    <2>1. PICK a \in DOMAIN m : a <= s
      BY DEF HasLower
    <2>2. s - a \in T
      BY <2>1 DEF IsMap
    <2>3. QED BY <2>2
  <1>2. PICK d \in T : \A e \in T : d <= e
    BY <1>1, LeastNatural
  <1>3. PICK a \in DOMAIN m : a <= s /\ d = s - a
    BY <1>2
  <1>4. \A b \in DOMAIN m : b <= s => b <= a
    <2>1. TAKE b \in DOMAIN m
    <2>2. HAVE b <= s
    <2>3. a \in Nat /\ b \in Nat
      BY DEF IsMap
    <2>4. s - b \in T
      BY <2>2, <2>3
    <2>5. s - a <= s - b
      BY <1>2, <1>3, <2>4
    <2>6. QED BY <2>2, <2>3, <2>5, <1>3
  <1>5. QED BY <1>3, <1>4 DEF Lower

(* What the pieces of a canonical map look like around s. *)
LEMMA LowerContains ==
    ASSUME NEW m, IsMap(m), Canonical(m), NEW s \in Nat
    PROVE  s \in Members(m) <=> HasLower(m, s) /\ s < m[Lower(m, s)]
  <1>1. ASSUME s \in Members(m)
        PROVE  HasLower(m, s) /\ s < m[Lower(m, s)]
    <2>1. PICK a \in DOMAIN m : a <= s /\ s < m[a]
      BY <1>1, MembersDef
    <2>2. HasLower(m, s)
      BY <2>1 DEF HasLower
    <2>3. Lower(m, s) \in DOMAIN m /\ Lower(m, s) <= s /\ a <= Lower(m, s)
      BY <2>1, <2>2, LowerDef
    <2>4. ~(a < Lower(m, s))
      BY <2>1, <2>3 DEF Canonical, IsMap
    <2>5. a = Lower(m, s)
      BY <2>3, <2>4 DEF IsMap
    <2>6. QED BY <2>1, <2>2, <2>5
  <1>2. ASSUME HasLower(m, s), s < m[Lower(m, s)]
        PROVE  s \in Members(m)
    BY <1>2, LowerDef, MembersDef
  <1>3. QED BY <1>1, <1>2

(* Map surgery gives maps. *)
LEMMA SurgeryIsMap ==
    ASSUME NEW m, IsMap(m), NEW a \in Nat, NEW e \in Nat, NEW K
    PROVE  IsMap(Put(m, a, e)) /\ IsMap(Erase(m, K))
  BY DEF IsMap, Put, Erase

(* A map described range by range: what the proofs below establish of the  *)
(* result of each method.                                                  *)
Represents(m, S) == IsMap(m) /\ Canonical(m) /\ Members(m) = S

LEMMA RepresentsByRanges ==
    ASSUME NEW m, IsMap(m), Canonical(m), NEW S \in SUBSET Nat,
           \A n \in Nat : n \in S <=> \E a \in DOMAIN m : a <= n /\ n < m[a]
    PROVE  Represents(m, S)
  <1>1. \A n : n \in Members(m) <=> n \in S
    BY MembersDef
  <1>2. QED BY <1>1 DEF Represents

(* add(s): the set gains s and nothing else, and stays canonical, in each  *)
(* of the five cases the code distinguishes.                               *)
THEOREM AddSeqCorrect ==
    ASSUME NEW m, IsMap(m), Canonical(m), NEW s \in Nat
    PROVE  Represents(AddSeq(m, s), Members(m) \cup {s})
  <1> DEFINE r == AddSeq(m, s)
             lo == Lower(m, s)
             beforeUpper == s + 1 \in DOMAIN m
             afterLower == HasLower(m, s) /\ m[lo] = s
             inLower == HasLower(m, s) /\ s < m[lo]
  <1>m. \A a \in DOMAIN m : a \in Nat /\ m[a] \in Nat /\ a < m[a]
    BY DEF IsMap, Canonical
  <1>c. \A a, b \in DOMAIN m : a < b => m[a] < b
    BY DEF Canonical
  <1>n. \A n \in Nat : n \in Members(m) <=> \E a \in DOMAIN m : a <= n /\ n < m[a]
    BY MembersDef
  <1>S. Members(m) \cup {s} \in SUBSET Nat
    BY MembersDef
  <1>l. HasLower(m, s) => /\ lo \in DOMAIN m /\ lo <= s
                          /\ \A b \in DOMAIN m : b <= s => b <= lo
    BY LowerDef
  <1> HIDE DEF lo
  <1>x. ~beforeUpper => \A b \in DOMAIN m : b <= s \/ b > s + 1
    BY <1>m
  <1>1. CASE beforeUpper /\ afterLower
    <2>1. r = Put(Erase(m, {s + 1}), lo, m[s + 1])
      BY <1>1 DEF AddSeq, lo
    <2>2. DOMAIN r = DOMAIN m \ {s + 1} /\ \A a \in DOMAIN r : r[a] = IF a = lo THEN m[s + 1] ELSE m[a]
      BY <2>1, <1>1, <1>l, <1>m DEF Put, Erase
    <2>3. IsMap(r)
      BY <2>1, <1>1, <1>m, <1>l, SurgeryIsMap
    <2>4. Canonical(r)
      BY <2>2, <1>1, <1>m, <1>c, <1>l DEF Canonical
    <2>5. \A n \in Nat : n \in Members(m) \cup {s} <=> \E a \in DOMAIN r : a <= n /\ n < r[a]
      <3>1. TAKE n \in Nat
      <3>2. ASSUME NEW a \in DOMAIN m, a <= n, n < m[a]
            PROVE  \E b \in DOMAIN r : b <= n /\ n < r[b]
        <4>1. CASE a = s + 1 \/ a = lo
          BY <4>1, <3>2, <2>2, <1>1, <1>m, <1>c, <1>l
        <4>2. CASE a # s + 1 /\ a # lo
          BY <4>2, <3>2, <2>2
        <4>3. QED BY <4>1, <4>2
      <3>3. ASSUME n = s
            PROVE  \E b \in DOMAIN r : b <= n /\ n < r[b]
        BY <3>3, <2>2, <1>1, <1>m, <1>l
      <3>4. ASSUME NEW b \in DOMAIN r, b <= n, n < r[b]
            PROVE  n = s \/ \E a \in DOMAIN m : a <= n /\ n < m[a]
        <4>1. CASE b = lo
          BY <4>1, <3>4, <2>2, <1>1, <1>m, <1>l
        <4>2. CASE b # lo
          BY <4>2, <3>4, <2>2
        <4>3. QED BY <4>1, <4>2
      <3>5. QED BY <3>2, <3>3, <3>4, <1>n
    <2>6. QED BY <2>3, <2>4, <2>5, <1>S, RepresentsByRanges
  <1>2. CASE beforeUpper /\ ~afterLower
    <2>1. r = Put(Erase(m, {s + 1}), s, m[s + 1])
      BY <1>2 DEF AddSeq, lo
    <2>2. s \notin DOMAIN m
      BY <1>2, <1>m, <1>c
    <2>3. DOMAIN r = (DOMAIN m \ {s + 1}) \cup {s} /\ \A a \in DOMAIN r : r[a] = IF a = s THEN m[s + 1] ELSE m[a]
      BY <2>1, <1>2, <1>m DEF Put, Erase
    <2>4. IsMap(r)
      BY <2>1, <1>2, <1>m, SurgeryIsMap
    <2>5. \A a \in DOMAIN m : a < s => m[a] < s
      BY <1>2, <1>m, <1>c, <1>l DEF HasLower
    <2>6. Canonical(r)
      BY <2>2, <2>3, <2>5, <1>2, <1>m, <1>c DEF Canonical
    <2>7. \A n \in Nat : n \in Members(m) \cup {s} <=> \E a \in DOMAIN r : a <= n /\ n < r[a]
      BY <2>2, <2>3, <1>2, <1>m, <1>n
    <2>8. QED BY <2>4, <2>6, <2>7, <1>S, RepresentsByRanges
  <1>3. CASE ~beforeUpper /\ inLower
    <2>1. r = m
      BY <1>3 DEF AddSeq, lo
    <2>2. s \in Members(m)
      BY <1>3, <1>l, <1>n
    <2>3. QED BY <2>1, <2>2 DEF Represents
  <1>4. CASE ~beforeUpper /\ afterLower
    <2>1. r = Put(m, lo, s + 1)
      BY <1>4 DEF AddSeq, lo
    <2>2. DOMAIN r = DOMAIN m /\ \A a \in DOMAIN r : r[a] = IF a = lo THEN s + 1 ELSE m[a]
      BY <2>1, <1>4, <1>l DEF Put
    <2>3. IsMap(r)
      BY <2>1, <1>4, <1>m, <1>l, SurgeryIsMap
    <2>4. Canonical(r)
      BY <2>2, <1>4, <1>m, <1>c, <1>l, <1>x DEF Canonical
    <2>5. \A n \in Nat : n \in Members(m) \cup {s} <=> \E a \in DOMAIN r : a <= n /\ n < r[a]
      BY <2>2, <1>4, <1>m, <1>n, <1>l
    <2>6. QED BY <2>3, <2>4, <2>5, <1>S, RepresentsByRanges
  <1>5. CASE ~beforeUpper /\ ~inLower /\ ~afterLower
    <2>1. r = Put(m, s, s + 1)
      BY <1>5 DEF AddSeq, lo
    <2>2. s \notin DOMAIN m
      BY <1>5, <1>m, <1>l DEF HasLower
    <2>3. DOMAIN r = DOMAIN m \cup {s} /\ \A a \in DOMAIN r : r[a] = IF a = s THEN s + 1 ELSE m[a]
      BY <2>1 DEF Put
    <2>4. IsMap(r)
      BY <2>1, <1>m, SurgeryIsMap
    <2>5. \A a \in DOMAIN m : a < s => m[a] < s
      BY <1>5, <1>m, <1>c, <1>l DEF HasLower
    <2>6. Canonical(r)
      BY <2>2, <2>3, <2>5, <1>m, <1>c, <1>x, <1>5 DEF Canonical
    <2>7. \A n \in Nat : n \in Members(m) \cup {s} <=> \E a \in DOMAIN r : a <= n /\ n < r[a]
      BY <2>2, <2>3, <1>m, <1>n
    <2>8. QED BY <2>4, <2>6, <2>7, <1>S, RepresentsByRanges
  <1>6. QED BY <1>1, <1>2, <1>3, <1>4, <1>5

(* contains(begin, end) says whether the whole interval [begin, end) is in *)
(* the set: one range of a canonical map holds all of it or none does.     *)
THEOREM ContainsRangeCorrect ==
    ASSUME NEW m, IsMap(m), Canonical(m), NEW begin \in Nat, NEW end \in Nat, begin < end
    PROVE  ContainsRange(m, begin, end)
             <=> \A n \in Nat : begin <= n /\ n < end => n \in Members(m)
  <1> DEFINE lo == Lower(m, begin)
  <1>m. \A a \in DOMAIN m : a \in Nat /\ m[a] \in Nat /\ a < m[a]
    BY DEF IsMap, Canonical
  <1>l. HasLower(m, begin) => /\ lo \in DOMAIN m /\ lo <= begin
                              /\ \A b \in DOMAIN m : b <= begin => b <= lo
    BY LowerDef
  <1>1. ASSUME ContainsRange(m, begin, end), NEW n \in Nat, begin <= n, n < end
        PROVE  n \in Members(m)
    <2>1. lo \in DOMAIN m /\ lo <= n /\ n < m[lo]
      BY <1>1, <1>l, <1>m DEF ContainsRange
    <2>2. QED BY <2>1, MembersDef
  <1>2. ASSUME \A n \in Nat : begin <= n /\ n < end => n \in Members(m)
        PROVE  ContainsRange(m, begin, end)
    <2>1. HasLower(m, begin) /\ begin < m[lo]
      BY <1>2, LowerContains
    <2>2. ASSUME m[lo] < end PROVE FALSE
      <3>1. m[lo] \in Nat /\ begin <= m[lo]
        BY <2>1, <1>l, <1>m
      <3>2. PICK a \in DOMAIN m : a <= m[lo] /\ m[lo] < m[a]
        BY <3>1, <2>2, <1>2, MembersDef
      <3>3. lo < a => m[lo] < a
        BY <2>1, <1>l DEF Canonical
      <3>4. a < lo => m[a] < lo
        BY <2>1, <1>l DEF Canonical
      <3>5. QED BY <3>1, <3>2, <3>3, <3>4, <2>1, <1>l, <1>m
    <2>3. end <= m[lo]
      BY <2>1, <2>2, <1>l, <1>m
    <2>4. QED BY <2>1, <2>3 DEF ContainsRange
  <1>3. QED BY <1>1, <1>2

(* Two canonical maps with the same members are the same map, so           *)
(* SequenceSet's operator==, which compares the maps, is set equality.     *)
THEOREM CanonicalMapsAreUnique ==
    ASSUME NEW m, IsMap(m), Canonical(m), NEW p, IsMap(p), Canonical(p),
           Members(m) = Members(p)
    PROVE  m = p
  <1>1. ASSUME NEW x, IsMap(x), Canonical(x), NEW y, IsMap(y), Canonical(y),
               Members(x) = Members(y), NEW a \in DOMAIN x
        PROVE  a \in DOMAIN y /\ x[a] <= y[a]
    <2>x. \A b \in DOMAIN x : b \in Nat /\ x[b] \in Nat /\ b < x[b]
      BY <1>1 DEF IsMap, Canonical
    <2>y. \A b \in DOMAIN y : b \in Nat /\ y[b] \in Nat /\ b < y[b]
      BY <1>1 DEF IsMap, Canonical
    <2>1. a \in Members(y)
      BY <1>1, <2>x, MembersDef
    <2>2. PICK b \in DOMAIN y : b <= a /\ a < y[b]
      BY <1>1, <2>1, MembersDef
    <2>3. b = a
      <3>1. SUFFICES ASSUME b < a PROVE FALSE
        BY <2>2, <2>x, <2>y
      <3>2. a - 1 \in Members(x)
        <4>1. a - 1 \in Members(y)
          BY <1>1, <2>2, <2>x, <2>y, <3>1, MembersDef
        <4>2. QED BY <4>1, <1>1
      <3>3. PICK c \in DOMAIN x : c <= a - 1 /\ a - 1 < x[c]
        BY <1>1, <3>2, MembersDef
      <3>4. x[c] < a
        BY <1>1, <3>3, <2>x DEF Canonical
      <3>5. QED BY <3>3, <3>4, <2>x
    <2>4. ASSUME y[a] < x[a] PROVE FALSE
      <3>1. y[a] \in Members(x)
        BY <1>1, <2>3, <2>4, <2>x, <2>y, MembersDef
      <3>2. y[a] \in Members(y)
        BY <3>1, <1>1
      <3>3. PICK c \in DOMAIN y : c <= y[a] /\ y[a] < y[c]
        BY <1>1, <3>2, MembersDef
      <3>4. a < c => y[a] < c
        BY <1>1, <2>3 DEF Canonical
      <3>5. c < a => y[c] < a
        BY <1>1, <2>3 DEF Canonical
      <3>6. QED BY <3>3, <3>4, <3>5, <2>y, <2>3
    <2>5. QED BY <2>3, <2>4, <2>x, <2>y
  <1>2. DOMAIN m = DOMAIN p
    BY <1>1
  <1>3. \A a \in DOMAIN m : m[a] = p[a]
    BY <1>1, <1>2 DEF IsMap
  <1>4. QED BY <1>2, <1>3 DEF IsMap

(* remove(s): the set loses s and nothing else, and stays canonical, in    *)
(* each of the five cases the code distinguishes.                          *)
THEOREM RemoveSeqCorrect ==
    ASSUME NEW m, IsMap(m), Canonical(m), NEW s \in Nat
    PROVE  Represents(RemoveSeq(m, s), Members(m) \ {s})
  <1> DEFINE r == RemoveSeq(m, s)
             i == Lower(m, s)
             contained == ContainsRange(m, s, s + 1)
  <1>m. \A a \in DOMAIN m : a \in Nat /\ m[a] \in Nat /\ a < m[a]
    BY DEF IsMap, Canonical
  <1>c. \A a, b \in DOMAIN m : a < b => m[a] < b
    BY DEF Canonical
  <1>n. \A n \in Nat : n \in Members(m) <=> \E a \in DOMAIN m : a <= n /\ n < m[a]
    BY MembersDef
  <1>S. Members(m) \ {s} \in SUBSET Nat
    BY MembersDef
  <1>i. contained => i \in DOMAIN m /\ i <= s /\ s < m[i]
    BY LowerDef, <1>m DEF ContainsRange
  <1>1. CASE ~contained
    <2>1. r = m
      BY <1>1 DEF RemoveSeq
    <2>2. s \notin Members(m)
      BY <1>1, LowerContains, LowerDef, <1>m DEF ContainsRange
    <2>3. QED BY <2>1, <2>2 DEF Represents
  <1>2. CASE contained /\ s = i /\ s = m[i] - 1
    <2>1. r = Erase(m, {s})
      BY <1>2 DEF RemoveSeq
    <2> HIDE DEF i, contained
    <2>2. DOMAIN r = DOMAIN m \ {s} /\ \A a \in DOMAIN r : r[a] = m[a]
      BY <2>1 DEF Erase
    <2>3. IsMap(r)
      BY <2>1, SurgeryIsMap
    <2>4. Canonical(r)
      BY <2>2, <1>m, <1>c DEF Canonical
    <2>5. \A n \in Nat : n \in Members(m) \ {s} <=> \E a \in DOMAIN r : a <= n /\ n < r[a]
      BY <2>2, <1>2, <1>i, <1>m, <1>n, <1>c
    <2>6. QED BY <2>3, <2>4, <2>5, <1>S, RepresentsByRanges
  <1>3. CASE contained /\ s = i /\ s # m[i] - 1
    <2>1. r = Put(Erase(m, {s}), s + 1, m[s])
      BY <1>3 DEF RemoveSeq
    <2> HIDE DEF i, contained
    <2>2. s + 1 < m[s] /\ s \in DOMAIN m /\ s + 1 \notin DOMAIN m
      BY <1>3, <1>i, <1>m, <1>c
    <2>3. DOMAIN r = (DOMAIN m \ {s}) \cup {s + 1} /\ \A a \in DOMAIN r : r[a] = IF a = s + 1 THEN m[s] ELSE m[a]
      BY <2>1, <2>2 DEF Put, Erase
    <2>4. IsMap(r)
      BY <2>1, <2>2, <1>m, SurgeryIsMap
    <2>5. Canonical(r)
      BY <2>2, <2>3, <1>m, <1>c DEF Canonical
    <2>6. \A n \in Nat : n \in Members(m) \ {s} <=> \E a \in DOMAIN r : a <= n /\ n < r[a]
      <3>1. ASSUME NEW n \in Nat, n # s, NEW a \in DOMAIN m, a <= n, n < m[a]
            PROVE  \E b \in DOMAIN r : b <= n /\ n < r[b]
        <4>1. CASE a = s
          BY <4>1, <3>1, <2>2, <2>3
        <4>2. CASE a # s
          BY <4>2, <3>1, <2>2, <2>3
        <4>3. QED BY <4>1, <4>2
      <3>2. ASSUME NEW n \in Nat, NEW b \in DOMAIN r, b <= n, n < r[b]
            PROVE  n # s /\ \E a \in DOMAIN m : a <= n /\ n < m[a]
        <4>1. CASE b = s + 1
          BY <4>1, <3>2, <2>2, <2>3, <1>m
        <4>2. CASE b # s + 1
          BY <4>2, <3>2, <2>2, <2>3, <1>m, <1>c
        <4>3. QED BY <4>1, <4>2
      <3>3. QED BY <3>1, <3>2, <1>n
    <2>7. QED BY <2>4, <2>5, <2>6, <1>S, RepresentsByRanges
  <1>4. CASE contained /\ s # i /\ s = m[i] - 1
    <2>1. r = Put(m, i, s)
      BY <1>4 DEF RemoveSeq
    <2> HIDE DEF i, contained
    <2>2. i \in DOMAIN m /\ i < s /\ m[i] = s + 1
      BY <1>4, <1>i, <1>m
    <2>3. DOMAIN r = DOMAIN m /\ \A a \in DOMAIN r : r[a] = IF a = i THEN s ELSE m[a]
      BY <2>1, <2>2 DEF Put
    <2>4. IsMap(r)
      BY <2>1, <2>2, <1>m, SurgeryIsMap
    <2>5. Canonical(r)
      BY <2>2, <2>3, <1>m, <1>c DEF Canonical
    <2>6. \A n \in Nat : n \in Members(m) \ {s} <=> \E a \in DOMAIN r : a <= n /\ n < r[a]
      BY <2>2, <2>3, <1>m, <1>c, <1>n
    <2>7. QED BY <2>4, <2>5, <2>6, <1>S, RepresentsByRanges
  <1>5. CASE contained /\ s # i /\ s # m[i] - 1
    <2>1. r = Put(Put(m, i, s), s + 1, m[i])
      BY <1>5 DEF RemoveSeq
    <2> HIDE DEF i, contained
    <2>2. i \in DOMAIN m /\ i < s /\ s + 1 < m[i] /\ s + 1 \notin DOMAIN m
      BY <1>5, <1>i, <1>m, <1>c
    <2>3. /\ DOMAIN r = DOMAIN m \cup {s + 1}
          /\ r[s + 1] = m[i] /\ r[i] = s
          /\ \A a \in DOMAIN m \ {i} : r[a] = m[a]
      BY <2>1, <2>2, <1>m DEF Put
    <2>4. IsMap(r)
      <3>1. IsMap(Put(m, i, s))
        BY <2>2, <1>m, SurgeryIsMap
      <3>2. QED BY <2>1, <2>2, <3>1, <1>m, SurgeryIsMap
    <2>5. Canonical(r)
      <3>1. ASSUME NEW a \in DOMAIN r
            PROVE  a < r[a]
        BY <2>2, <2>3, <1>m
      <3>2. ASSUME NEW a \in DOMAIN r, NEW b \in DOMAIN r, a < b
            PROVE  r[a] < b
        <4>1. CASE a = i /\ b = s + 1
          BY <4>1, <2>2, <2>3, <1>m
        <4>2. CASE a = i /\ b # s + 1
          BY <4>2, <3>2, <2>2, <2>3, <1>m, <1>c
        <4>3. CASE a = s + 1
          BY <4>3, <3>2, <2>2, <2>3, <1>m, <1>c
        <4>4. CASE a # i /\ a # s + 1
          BY <4>4, <3>2, <2>2, <2>3, <1>m, <1>c
        <4>5. QED BY <4>1, <4>2, <4>3, <4>4
      <3>3. QED BY <3>1, <3>2 DEF Canonical
    <2>6. \A n \in Nat : n \in Members(m) \ {s} <=> \E a \in DOMAIN r : a <= n /\ n < r[a]
      <3>1. ASSUME NEW n \in Nat, n # s, NEW a \in DOMAIN m, a <= n, n < m[a]
            PROVE  \E b \in DOMAIN r : b <= n /\ n < r[b]
        <4>1. CASE a = i /\ n < s
          BY <4>1, <3>1, <2>2, <2>3
        <4>2. CASE a = i /\ n > s
          BY <4>2, <3>1, <2>2, <2>3
        <4>3. CASE a # i
          BY <4>3, <3>1, <2>2, <2>3
        <4>4. QED BY <4>1, <4>2, <4>3, <3>1
      <3>2. ASSUME NEW n \in Nat, NEW b \in DOMAIN r, b <= n, n < r[b]
            PROVE  n # s /\ \E a \in DOMAIN m : a <= n /\ n < m[a]
        <4>1. CASE b = s + 1
          BY <4>1, <3>2, <2>2, <2>3, <1>m
        <4>2. CASE b = i
          BY <4>2, <3>2, <2>2, <2>3, <1>m
        <4>3. CASE b # s + 1 /\ b # i
          BY <4>3, <3>2, <2>2, <2>3, <1>m, <1>c
        <4>4. QED BY <4>1, <4>2, <4>3
      <3>3. QED BY <3>1, <3>2, <1>n
    <2>7. QED BY <2>4, <2>5, <2>6, <1>S, RepresentsByRanges
  <1>6. QED BY <1>1, <1>2, <1>3, <1>4, <1>5

(* A half-open interval of sequences [s0, s1). *)
Interval(s0, s1) == {n \in Nat : s0 <= n /\ n < s1}

(* add(s0, s1): adding the two ends and merging the ranges they landed in  *)
(* gives exactly the whole interval.                                       *)
THEOREM AddRangeCorrect ==
    ASSUME NEW m, IsMap(m), Canonical(m), NEW s0 \in Nat, NEW s1 \in Nat
    PROVE  Represents(AddRange(m, s0, s1), Members(m) \cup Interval(s0, s1))
  <1>1. CASE s1 <= s0
    <2>1. AddRange(m, s0, s1) = m
      BY <1>1 DEF AddRange
    <2>2. Interval(s0, s1) = {}
      BY <1>1 DEF Interval
    <2>3. QED BY <2>1, <2>2 DEF Represents
  <1>2. CASE s1 = s0 + 1
    <2>1. AddRange(m, s0, s1) = AddSeq(m, s0)
      BY <1>2 DEF AddRange
    <2>2. Interval(s0, s1) = {s0}
      BY <1>2 DEF Interval
    <2>3. QED BY <2>1, <2>2, AddSeqCorrect
  <1>3. CASE s1 > s0 + 1
    <2> DEFINE ends == AddSeq(AddSeq(m, s0), s1 - 1)
               lo == Lower(ends, s0)
               up == Lower(ends, s1 - 1)
               r == AddRange(m, s0, s1)
    <2>1. s1 - 1 \in Nat /\ s0 < s1 - 1
      BY <1>3
    <2>2. Represents(AddSeq(m, s0), Members(m) \cup {s0})
      BY AddSeqCorrect
    <2>3. Represents(ends, Members(m) \cup {s0, s1 - 1})
      <3>1. Represents(ends, Members(AddSeq(m, s0)) \cup {s1 - 1})
        BY <2>1, <2>2, AddSeqCorrect DEF Represents
      <3>2. QED BY <2>2, <3>1 DEF Represents
    <2>4. r = IF up # lo THEN MergeBetween(ends, lo, up) ELSE ends
      BY <1>3 DEF AddRange
    <2>5. IsMap(ends) /\ Canonical(ends) /\ s0 \in Members(ends) /\ s1 - 1 \in Members(ends)
      BY <2>3 DEF Represents
    <2>n. \A n \in Nat : n \in Members(m) \/ n = s0 \/ n = s1 - 1
                           <=> \E a \in DOMAIN ends : a <= n /\ n < ends[a]
      BY <2>3, MembersDef DEF Represents
    <2> HIDE DEF ends
    <2>6. /\ lo \in DOMAIN ends /\ lo <= s0 /\ s0 < ends[lo]
          /\ up \in DOMAIN ends /\ up <= s1 - 1 /\ s1 - 1 < ends[up]
          /\ \A b \in DOMAIN ends : b <= s1 - 1 => b <= up
          /\ \A b \in DOMAIN ends : b <= s0 => b <= lo
      BY <2>1, <2>5, LowerContains, LowerDef
    <2> HIDE DEF lo, up
    <2>m. \A a \in DOMAIN ends : a \in Nat /\ ends[a] \in Nat /\ a < ends[a]
      BY <2>5 DEF IsMap, Canonical
    <2>c. \A a, b \in DOMAIN ends : a < b => ends[a] < b
      BY <2>5 DEF Canonical
    <2>S. Members(m) \cup Interval(s0, s1) \in SUBSET Nat
      BY MembersDef DEF Interval
    <2>7. CASE up = lo
      <3>1. r = ends
        BY <2>4, <2>7
      <3>2. \A n \in Nat : n \in Members(m) \cup Interval(s0, s1)
                             <=> \E a \in DOMAIN ends : a <= n /\ n < ends[a]
        BY <2>n, <2>1, <2>6, <2>7, <2>m DEF Interval
      <3>3. QED BY <3>1, <3>2, <2>5, <2>S, RepresentsByRanges
    <2>8. CASE up # lo
      <3>1. r = Put(Erase(ends, {a \in DOMAIN ends : lo < a /\ a <= up}), lo, ends[up])
        BY <2>4, <2>8 DEF MergeBetween
      <3>2. lo < up
        BY <2>1, <2>6, <2>8, <2>m
      <3>3. /\ DOMAIN r = {a \in DOMAIN ends : a <= lo \/ a > up}
            /\ \A a \in DOMAIN r : r[a] = IF a = lo THEN ends[up] ELSE ends[a]
        BY <3>1, <2>6, <2>m DEF Put, Erase
      <3>4. IsMap(r)
        <4>1. IsMap(Erase(ends, {a \in DOMAIN ends : lo < a /\ a <= up}))
          BY <2>5, SurgeryIsMap
        <4>2. QED BY <4>1, <3>1, <2>6, <2>m, SurgeryIsMap
      <3>5. Canonical(r)
        BY <3>2, <3>3, <2>6, <2>m, <2>c DEF Canonical
      <3>6. \A n \in Nat : n \in Members(m) \cup Interval(s0, s1)
                             <=> \E a \in DOMAIN r : a <= n /\ n < r[a]
        <4>1. ASSUME NEW n \in Nat, s0 <= n, n < s1
              PROVE  \E a \in DOMAIN r : a <= n /\ n < r[a]
          BY <4>1, <3>2, <3>3, <2>1, <2>6, <2>m
        <4>2. ASSUME NEW n \in Nat, NEW a \in DOMAIN ends, a <= n, n < ends[a]
              PROVE  \E b \in DOMAIN r : b <= n /\ n < r[b]
          <5>1. CASE lo <= a /\ a <= up
            <6>1. n < ends[up]
              BY <5>1, <4>2, <2>6, <2>m, <2>c
            <6>2. QED BY <6>1, <5>1, <4>2, <3>2, <3>3, <2>6, <2>m
          <5>2. CASE a < lo \/ a > up
            BY <5>2, <4>2, <3>2, <3>3, <2>6, <2>m
          <5>3. QED BY <5>1, <5>2, <2>6, <2>m
        <4>3. ASSUME NEW n \in Nat, NEW a \in DOMAIN r, a <= n, n < r[a]
              PROVE  n \in Members(m) \cup Interval(s0, s1)
          <5>1. CASE a # lo
            BY <5>1, <4>3, <3>3, <2>n, <2>1 DEF Interval
          <5>2. CASE a = lo /\ n < s0
            BY <5>2, <4>3, <2>6, <2>m, <2>n, <2>1
          <5>3. CASE a = lo /\ n >= s1 - 1
            BY <5>3, <4>3, <3>3, <2>6, <2>m, <2>n, <2>1 DEF Interval
          <5>4. CASE a = lo /\ s0 <= n /\ n < s1 - 1
            BY <5>4, <2>1 DEF Interval
          <5>5. QED BY <5>1, <5>2, <5>3, <5>4, <2>1
        <4>4. QED BY <4>1, <4>2, <4>3, <2>n DEF Interval
      <3>7. QED BY <3>4, <3>5, <3>6, <2>S, RepresentsByRanges
    <2>9. QED BY <2>7, <2>8
  <1>4. QED BY <1>1, <1>2, <1>3

(* remove(s0, s1): removing the two ends and erasing the ranges in between *)
(* removes exactly the whole interval.                                     *)
THEOREM RemoveRangeCorrect ==
    ASSUME NEW m, IsMap(m), Canonical(m), NEW s0 \in Nat, NEW s1 \in Nat
    PROVE  Represents(RemoveRange(m, s0, s1), Members(m) \ Interval(s0, s1))
  <1>1. CASE s1 <= s0
    <2>1. RemoveRange(m, s0, s1) = m
      BY <1>1 DEF RemoveRange
    <2>2. Interval(s0, s1) = {}
      BY <1>1 DEF Interval
    <2>3. QED BY <2>1, <2>2 DEF Represents
  <1>2. CASE s1 = s0 + 1
    <2>1. RemoveRange(m, s0, s1) = RemoveSeq(m, s0)
      BY <1>2 DEF RemoveRange
    <2>2. Interval(s0, s1) = {s0}
      BY <1>2 DEF Interval
    <2>3. QED BY <2>1, <2>2, RemoveSeqCorrect
  <1>3. CASE s1 > s0 + 1
    <2> DEFINE ends == RemoveSeq(RemoveSeq(m, s0), s1 - 1)
               inside == {a \in DOMAIN ends :
                             a > s0 /\ \A b \in DOMAIN ends : s0 < b /\ b <= a => ends[b] <= s1}
               r == RemoveRange(m, s0, s1)
    <2>1. s1 - 1 \in Nat /\ s0 < s1 - 1
      BY <1>3
    <2>2. Represents(RemoveSeq(m, s0), Members(m) \ {s0})
      BY RemoveSeqCorrect
    <2>3. Represents(ends, Members(m) \ {s0, s1 - 1})
      <3>1. Represents(ends, Members(RemoveSeq(m, s0)) \ {s1 - 1})
        BY <2>1, <2>2, RemoveSeqCorrect DEF Represents
      <3>2. QED BY <2>2, <3>1 DEF Represents
    <2>4. CASE s1 = s0 + 2
      <3>1. r = ends
        BY <2>4 DEF RemoveRange
      <3>2. Interval(s0, s1) = {s0, s1 - 1}
        BY <2>4 DEF Interval
      <3>3. QED BY <3>1, <3>2, <2>3
    <2>5. CASE s1 > s0 + 2
      <3>1. r = Erase(ends, inside)
        BY <2>5 DEF RemoveRange
      <3>5. IsMap(ends) /\ Canonical(ends)
        BY <2>3 DEF Represents
      <3>n. \A n \in Nat : n \in Members(m) /\ n # s0 /\ n # s1 - 1
                             <=> \E a \in DOMAIN ends : a <= n /\ n < ends[a]
        BY <2>3, MembersDef DEF Represents
      <3> HIDE DEF ends
      <3>m. \A a \in DOMAIN ends : a \in Nat /\ ends[a] \in Nat /\ a < ends[a]
        BY <3>5 DEF IsMap, Canonical
      <3>c. \A a, b \in DOMAIN ends : a < b => ends[a] < b
        BY <3>5 DEF Canonical
      <3>S. Members(m) \ Interval(s0, s1) \in SUBSET Nat
        BY MembersDef
      <3>6. \A a \in DOMAIN ends : ends[a] <= s0 \/ a >= s1 \/ (s0 < a /\ ends[a] <= s1 - 1)
        <4>1. TAKE a \in DOMAIN ends
        <4>2. ~(a <= s0 /\ s0 < ends[a])
          BY <3>n
        <4>3. ~(a <= s1 - 1 /\ s1 - 1 < ends[a])
          BY <3>n, <2>1
        <4>4. QED BY <4>2, <4>3, <3>m, <2>1
      <3>7. inside = {a \in DOMAIN ends : s0 < a /\ ends[a] <= s1 - 1}
        BY <3>6, <3>m, <3>c, <2>1
      <3> HIDE DEF inside
      <3>8. DOMAIN r = DOMAIN ends \ inside /\ \A a \in DOMAIN r : r[a] = ends[a]
        BY <3>1 DEF Erase
      <3>9. IsMap(r)
        BY <3>1, <3>5, SurgeryIsMap
      <3>10. Canonical(r)
        BY <3>8, <3>5 DEF Canonical
      <3>11. \A n \in Nat : n \in Members(m) \ Interval(s0, s1)
                              <=> \E a \in DOMAIN r : a <= n /\ n < r[a]
        <4>1. ASSUME NEW n \in Nat, n \in Members(m), n < s0 \/ n >= s1
              PROVE  \E a \in DOMAIN r : a <= n /\ n < r[a]
          BY <4>1, <3>n, <3>6, <3>7, <3>8, <3>m, <2>1
        <4>2. ASSUME NEW n \in Nat, NEW a \in DOMAIN r, a <= n, n < r[a]
              PROVE  n \in Members(m) /\ (n < s0 \/ n >= s1)
          BY <4>2, <3>n, <3>6, <3>7, <3>8, <3>m, <2>1
        <4>3. QED BY <4>1, <4>2 DEF Interval
      <3>12. QED BY <3>9, <3>10, <3>11, <3>S, RepresentsByRanges
    <2>6. QED BY <2>4, <2>5, <1>3
  <1>4. QED BY <1>1, <1>2, <1>3

-----------------------------------------------------------------------------
(***************************************************************************)
(* Remote sequences and Checkpoint.                                        *)
(***************************************************************************)
(* A remote sequence whose text parses gives a triple of naturals. *)
WellFormed(r) == Parseable(r) => Parsed(r) \in ParsedIDs

(* ParsedSequenceID::before never says of a sequence that it is before     *)
(* itself, and of two that differ it says it of exactly one.               *)
THEOREM BeforeIsTotal ==
    ASSUME NEW a \in ParsedIDs, NEW b \in ParsedIDs
    PROVE  /\ ~Before(a, a)
           /\ a # b => (Before(a, b) <=> ~Before(b, a))
  <1>1. a = ID(a.seq, a.triggeredBy, a.lowSeq) /\ b = ID(b.seq, b.triggeredBy, b.lowSeq)
    BY DEF ParsedIDs, ID
  <1>2. /\ a.seq \in Nat /\ a.triggeredBy \in Nat /\ a.lowSeq \in Nat
        /\ b.seq \in Nat /\ b.triggeredBy \in Nat /\ b.lowSeq \in Nat
    BY DEF ParsedIDs
  <1>3. a # b => a.seq # b.seq \/ a.triggeredBy # b.triggeredBy \/ a.lowSeq # b.lowSeq
    BY <1>1
  <1>4. ~Before(a, a)
    BY <1>2 DEF Before, InnerBefore, ID, IsLowSeq, IsTriggered, IsSimple
  <1>5. Before(a, b) => ~Before(b, a)
    BY <1>2 DEF Before, InnerBefore, ID, IsLowSeq, IsTriggered, IsSimple
  <1>6. a # b => Before(a, b) \/ Before(b, a)
    BY <1>2, <1>3 DEF Before, InnerBefore, ID, IsLowSeq, IsTriggered, IsSimple
  <1> QED
    BY <1>4, <1>5, <1>6

(* Before is transitive, across the three formats. *)
THEOREM BeforeIsTransitive ==
    ASSUME NEW a \in ParsedIDs, NEW b \in ParsedIDs, NEW c \in ParsedIDs,
           Before(a, b), Before(b, c)
    PROVE  Before(a, c)
  <1>1. /\ a.seq \in Nat /\ a.triggeredBy \in Nat /\ a.lowSeq \in Nat
        /\ b.seq \in Nat /\ b.triggeredBy \in Nat /\ b.lowSeq \in Nat
        /\ c.seq \in Nat /\ c.triggeredBy \in Nat /\ c.lowSeq \in Nat
    BY DEF ParsedIDs
  <1> QED
    BY <1>1 DEF Before, InnerBefore, ID, IsLowSeq, IsTriggered, IsSimple

(* The remote sequence that validateWith leaves is not after either of the *)
(* two it was made from, unless one of them was null, or they are equal:   *)
(* pulling from it repeats work but skips nothing.                         *)
THEOREM ValidRemoteIsEarlier ==
    ASSUME NEW r, NEW other, WellFormed(r), WellFormed(other),
           ValidRemote(r, other) # NullSequence, r # other
    PROVE  /\ ValidRemote(r, other) \in {r, other}
           /\ Parseable(r) /\ Parseable(other)
           /\ ~Before(Parsed(r), Parsed(ValidRemote(r, other)))
           /\ ~Before(Parsed(other), Parsed(ValidRemote(r, other)))
  <1>1. CASE KeepsRemote(r, other)
    <2>1. ValidRemote(r, other) = r
      BY <1>1 DEF ValidRemote
    <2>2. Parseable(r) /\ Parseable(other) /\ ~Before(Parsed(other), Parsed(r))
      BY <1>1, <2>1 DEF KeepsRemote
    <2> QED
      BY <2>1, <2>2, BeforeIsTotal DEF WellFormed
  <1>2. CASE ~KeepsRemote(r, other)
    <2>1. Parseable(r) /\ Parseable(other) /\ ValidRemote(r, other) = other
      BY <1>2 DEF ValidRemote
    <2>2. Before(Parsed(other), Parsed(r))
      BY <1>2, <2>1 DEF KeepsRemote
    <2>3. Parsed(r) \in ParsedIDs /\ Parsed(other) \in ParsedIDs
      BY <2>1 DEF WellFormed
    <2>4. ~Before(Parsed(other), Parsed(other)) /\ Parsed(r) # Parsed(other)
      BY <2>2, <2>3, BeforeIsTotal
    <2>5. ~Before(Parsed(r), Parsed(other))
      BY <2>2, <2>3, <2>4, BeforeIsTotal
    <2> QED
      BY <2>1, <2>4, <2>5
  <1> QED
    BY <1>1, <1>2

-----------------------------------------------------------------------------
(* `mine' is a record of the class's three members. *)
IsRecord == mine = [completed |-> mine.completed, lastChecked |-> mine.lastChecked, remote |-> mine.remote]

(* validateWith() returns true only if it left the checkpoint as it was,   *)
(* after any sequence of calls on it.                                      *)
THEOREM ChangesAreReported == CheckpointSpec => []ChangeIsReported
  <1>1. CheckpointInit => IsRecord
    BY DEF CheckpointInit, IsRecord, NewCheckpoint
  <1>2. IsRecord /\ [CheckpointNext]_checkpointVars => IsRecord'
    <2> SUFFICES ASSUME IsRecord, [CheckpointNext]_checkpointVars PROVE IsRecord'
      OBVIOUS
    <2>1. ASSUME NEW s \in 1 .. MaxSeq, AddPendingSequence(s) \/ CompletedSequence(s) PROVE IsRecord'
      BY <2>1 DEF IsRecord, AddPendingSequence, CompletedSequence
    <2>2. ASSUME NEW revs, NEW first, NEW last, AddPendingSequences(revs, first, last) PROVE IsRecord'
      BY <2>2 DEF IsRecord, AddPendingSequences
    <2>3. ASSUME NEW r \in RemoteSeqs, SetRemoteMinSequence(r) PROVE IsRecord'
      BY <2>3 DEF IsRecord, SetRemoteMinSequence
    <2>4. CASE Save \/ UNCHANGED checkpointVars
      BY <2>4 DEF IsRecord, Save, checkpointVars
    <2>5. CASE ReadSaved
      BY <2>5 DEF IsRecord, ReadSaved, ReadJSON, NewCheckpoint
    <2>6. CASE ValidateWithSaved
      BY <2>6 DEF IsRecord, ValidateWithSaved, Validated
    <2> QED
      BY <2>1, <2>2, <2>3, <2>4, <2>5, <2>6 DEF CheckpointNext
  <1>3. IsRecord => ChangeIsReported
    <2> SUFFICES ASSUME IsRecord, NEW other, Matches(mine, other) PROVE Validated(mine, other) = mine
      BY DEF ChangeIsReported
    <2>1. KeepsRemote(mine.remote, other.remote) /\ mine.completed = other.completed
      BY DEF Matches
    <2>2. ValidRemote(mine.remote, other.remote) = mine.remote
      BY <2>1 DEF ValidRemote
    <2> QED
      BY <2>1, <2>2 DEF Validated, IsRecord
  <1> QED
    BY <1>1, <1>2, <1>3, PTL DEF CheckpointSpec

-----------------------------------------------------------------------------
(* The hybrid clock. *)
(***************************************************************************)
(* Packing and unpacking: a time is its wall part and its counter.         *)
(***************************************************************************)
LEMMA Unpack ==
    ASSUME NEW t \in Nat
    PROVE  /\ Wall(t) \in Nat
           /\ Counter(t) \in 0 .. CounterMod - 1
           /\ t = Wall(t) * CounterMod + Counter(t)
<1>1. CounterMod \in Nat /\ CounterMod > 0
    BY ClockAssumption
<1> QED
    BY <1>1, Z3 DEF Wall, Counter

LEMMA SmallMod ==
    ASSUME NEW c \in Nat, c < CounterMod
    PROVE  c % CounterMod = c
BY ClockAssumption, Z3

\* The product grows with the wall time.
LEMMA LaterWall ==
    ASSUME NEW v \in Nat, NEW w \in Nat, v < w, NEW m \in Nat
    PROVE  v * m + m <= w * m
<1>1. PICK k \in Nat : w = v + 1 + k
    <2>1. w - v - 1 \in Nat
        OBVIOUS
    <2> QED
        BY <2>1
<1>2. w * m = v * m + m + k * m
    BY <1>1, Z3
<1>3. k * m \in Nat /\ v * m \in Nat
    BY Z3
<1> QED
    BY <1>2, <1>3

\* The greatest of a few numbers is one of them and at least each of them.
LEMMA MaxOfThree ==
    ASSUME NEW a \in Nat, NEW b \in Nat, NEW c \in Nat
    PROVE  /\ Max({a, b, c}) \in {a, b, c}
           /\ Max({a, b, c}) >= a /\ Max({a, b, c}) >= b /\ Max({a, b, c}) >= c
<1>1. \E x \in {a, b, c} : \A y \in {a, b, c} : x >= y
    <2>1. CASE a >= b /\ a >= c
        BY <2>1
    <2>2. CASE b >= a /\ b >= c
        BY <2>2
    <2>3. CASE c >= a /\ c >= b
        BY <2>3
    <2> QED
        BY <2>1, <2>2, <2>3
<1> QED
    BY <1>1 DEF Max

(***************************************************************************)
(* HybridClock::now returns a time later than the last one, as its comment *)
(* promises, as long as the 16-bit counter is not at its largest value.    *)
(***************************************************************************)
THEOREM NowIsLater ==
    ASSUME NEW last \in Nat, NEW wall \in Nat, Counter(last) < CounterMod - 1
    PROVE  now(last, wall) \in Nat /\ now(last, wall) > last
<1> USE ClockAssumption
<1>1. /\ Wall(last) \in Nat /\ Counter(last) \in 0 .. CounterMod - 1
      /\ last = Wall(last) * CounterMod + Counter(last)
    BY Unpack
<1>2. CASE wall > Wall(last)
    <2>1. now(last, wall) = wall * CounterMod
        <3>1. 0 % CounterMod = 0
            BY SmallMod
        <3>2. wall * CounterMod \in Nat
            BY Z3
        <3> QED
            BY <1>2, <3>1, <3>2 DEF now, LogicalTime
    <2>2. Wall(last) * CounterMod + CounterMod <= wall * CounterMod
        BY <1>1, <1>2, LaterWall
    <2>3. wall * CounterMod \in Nat /\ Wall(last) * CounterMod \in Nat
        BY <1>1, Z3
    <2> HIDE DEF Wall, Counter
    <2> QED
        BY <1>1, <2>1, <2>2, <2>3
<1>3. CASE ~(wall > Wall(last))
    <2>1. (Counter(last) + 1) % CounterMod = Counter(last) + 1
        BY <1>1, SmallMod
    <2>2. now(last, wall) = Wall(last) * CounterMod + (Counter(last) + 1)
        BY <1>3, <2>1 DEF now, LogicalTime
    <2>3. Wall(last) * CounterMod \in Nat
        BY <1>1, Z3
    <2> QED
        BY <1>1, <2>2, <2>3
<1> QED
    BY <1>2, <1>3

(***************************************************************************)
(* At its largest value the counter wraps: the clock goes back, whatever   *)
(* the promise, until the wall clock has caught up.                        *)
(***************************************************************************)
THEOREM NowWrapsAround ==
    ASSUME NEW last \in Nat, NEW wall \in Nat,
           Counter(last) = CounterMod - 1, wall <= Wall(last)
    PROVE  now(last, wall) < last
<1> USE ClockAssumption
<1>1. /\ Wall(last) \in Nat /\ Counter(last) \in 0 .. CounterMod - 1
      /\ last = Wall(last) * CounterMod + Counter(last)
    BY Unpack
<1>2. CounterMod % CounterMod = 0
    BY Z3
<1>3. Counter(last) + 1 = CounterMod
    BY <1>1
<1>4. now(last, wall) = Wall(last) * CounterMod + 0
    BY <1>1, <1>2, <1>3 DEF now, LogicalTime
<1>5. Wall(last) * CounterMod \in Nat
    BY <1>1, Z3
<1> QED
    BY <1>1, <1>4, <1>5

\* A time made from a later wall time, or from the same one and a counter that
\* is not smaller, is not earlier.
LEMMA NotEarlier ==
    ASSUME NEW t \in Nat, NEW w \in Nat, NEW c \in 0 .. CounterMod - 1,
           Wall(t) <= w, Wall(t) = w => Counter(t) <= c
    PROVE  LogicalTime(w, c) \in Nat /\ LogicalTime(w, c) >= t
<1> USE ClockAssumption
<1>1. /\ Wall(t) \in Nat /\ Counter(t) \in 0 .. CounterMod - 1
      /\ t = Wall(t) * CounterMod + Counter(t)
    BY Unpack
<1>2. LogicalTime(w, c) = w * CounterMod + c
    BY SmallMod DEF LogicalTime
<1>3. w * CounterMod \in Nat /\ Wall(t) * CounterMod \in Nat
    BY <1>1, Z3
<1>4. CASE Wall(t) = w
    BY <1>1, <1>2, <1>3, <1>4
<1>5. CASE Wall(t) < w
    <2>1. Wall(t) * CounterMod + CounterMod <= w * CounterMod
        BY <1>1, <1>5, LaterWall
    <2> QED
        BY <1>1, <1>2, <1>3, <2>1
<1> QED
    BY <1>1, <1>4, <1>5

(***************************************************************************)
(* HybridClock::see never moves the clock back, and when it accepts a time *)
(* the clock has reached it: with NowIsLater, the next `now` is later.  A  *)
(* time that it refuses leaves the clock as it was.                        *)
(***************************************************************************)
THEOREM SeeReachesTheTime ==
    ASSUME NEW last \in Nat, NEW wall \in Nat, NEW seen \in Nat
    PROVE  /\ see(last, wall, seen).last \in Nat
           /\ see(last, wall, seen).last >= last
           /\ see(last, wall, seen).ok => see(last, wall, seen).last >= seen
           /\ ~see(last, wall, seen).ok => see(last, wall, seen).last = last
<1> DEFINE t == seenTime(last, wall, seen)
           latest == Max({Wall(seen), Wall(last), wall})
           counter(x) == IF Wall(x) = latest THEN Counter(x) ELSE 0
           c == Max({counter(last), counter(seen)})
<1>1. /\ Wall(last) \in Nat /\ Counter(last) \in 0 .. CounterMod - 1
      /\ Wall(seen) \in Nat /\ Counter(seen) \in 0 .. CounterMod - 1
    BY Unpack
<1>2. latest \in Nat /\ Wall(last) <= latest /\ Wall(seen) <= latest
    BY <1>1, MaxOfThree
<1>3. /\ c \in 0 .. CounterMod - 1
      /\ Wall(last) = latest => Counter(last) <= c
      /\ Wall(seen) = latest => Counter(seen) <= c
    <2> HIDE DEF latest
    <2>1. counter(last) \in 0 .. CounterMod - 1 /\ counter(seen) \in 0 .. CounterMod - 1
        BY <1>1, ClockAssumption
    <2>2. {counter(last), counter(seen)} = {counter(last), counter(seen), counter(seen)}
        OBVIOUS
    <2>3. counter(last) \in Nat /\ counter(seen) \in Nat
        BY <2>1, ClockAssumption
    <2>4. c \in {counter(last), counter(seen)} /\ c >= counter(last) /\ c >= counter(seen)
        BY <2>2, <2>3, MaxOfThree
    <2> QED
        BY <2>1, <2>4
<1>4. t = none \/ t = LogicalTime(latest, c)
    BY DEF seenTime
<1>5. t = none \/ (t \in Nat /\ t >= last /\ t >= seen)
    <2> HIDE DEF latest, c, t
    <2> QED
        BY <1>2, <1>3, <1>4, NotEarlier
<1>6. CASE ~validTime(seen)
    BY <1>6 DEF see
<1>7. CASE validTime(seen) /\ seen <= last
    <2>1. see(last, wall, seen) = [ok |-> validTime(seen), last |-> last]
        BY <1>7 DEF see
    <2> QED
        BY <1>7, <2>1
<1>8. CASE validTime(seen) /\ ~(seen <= last)
    <2>1. CASE t = none
        <3>1. see(last, wall, seen) = [ok |-> FALSE, last |-> last]
            BY <1>8, <2>1 DEF see
        <3> QED
            BY <3>1
    <2>2. CASE t # none
        <3>1. see(last, wall, seen) = [ok |-> TRUE, last |-> t]
            BY <1>8, <2>2 DEF see
        <3> HIDE DEF t
        <3> QED
            BY <1>5, <2>2, <3>1
    <2> QED
        BY <2>1, <2>2
<1> QED
    BY <1>6, <1>7, <1>8

-----------------------------------------------------------------------------
(***************************************************************************)
(* The autosave of Checkpointer: the inductive invariant IInv, the         *)
(* invariants of the runs as its consequences, and the refinement of       *)
(* Autosave.                                                               *)
(***************************************************************************)
(* How the threads' program counters, the mutex and the timer go together. *)
Threads ==
    /\ held <=> rpc = "stopping"
    /\ triggered <=> tpc # "waiting"
    /\ timer = "deleted" <=> rpc = "stopping"
    /\ timer = "null" <=> rpc = "closed"

IInv ==
    /\ TypeOK
    /\ Threads
    /\ ChangedHasTimer
    /\ OneSaveAtATime
    /\ NoChangeForgotten
    /\ NoCallbackAfterStop
    /\ json <= version

LEMMA InitIInv == Init => IInv
  <1> SUFFICES ASSUME Init PROVE IInv
    OBVIOUS
  <1>1. TypeOK
    <2>1. << >> \in Seq(0 .. MaxVersion) /\ 0 \in 0 .. MaxVersion
      BY MaxVersionAssumption
    <2>2. QED BY <2>1 DEF Init, TypeOK
  <1>2. OneSaveAtATime
    BY DEF Init, OneSaveAtATime, Saves
  <1>3. QED
    BY <1>1, <1>2 DEF Init, IInv, Threads, ChangedHasTimer, NoChangeForgotten, NoCallbackAfterStop

(* What a mailbox of at most one message looks like. *)
LEMMA MailboxFacts ==
    ASSUME NEW S, NEW q \in Seq(S), NEW e \in S
    PROVE  /\ Append(q, e) \in Seq(S) /\ Len(Append(q, e)) = Len(q) + 1
           /\ q # << >> => Head(q) \in S /\ Tail(q) \in Seq(S) /\ Len(Tail(q)) = Len(q) - 1
           /\ Len(q) \in Nat /\ (Len(q) = 0 <=> q = << >>)
  OBVIOUS

LEMMA NextTypeOK ==
    ASSUME IInv, [Next]_vars
    PROVE  TypeOK'
  <1> USE MaxVersionAssumption DEF IInv, TypeOK, cvars
  <1>1. CASE Change
    <2>1. version' \in 0 .. MaxVersion
      BY <1>1 DEF Change
    <2>2. changed' \in BOOLEAN /\ timer' \in {"null", "unscheduled", "scheduled", "deleted"}
      BY <1>1 DEF Change, SaveSoon, FireAfter
    <2>3. QED BY <1>1, <2>1, <2>2 DEF Change
  <1>2. CASE TimerFires
    BY <1>2 DEF TimerFires
  <1>3. CASE TimerSaves
    BY <1>3 DEF TimerSaves, SaveReturns, SaveBegins
  <1>4. CASE TimerCallsBack
    BY <1>4, MailboxFacts DEF TimerCallsBack, Callback
  <1>5. CASE TimerDone
    BY <1>5 DEF TimerDone
  <1>6. CASE ReplSaves
    BY <1>6 DEF ReplSaves, SaveReturns, SaveBegins
  <1>7. CASE ReplCallsBack
    BY <1>7, MailboxFacts DEF ReplCallsBack, Callback
  <1>8. CASE ReplSends
    BY <1>8, MailboxFacts DEF ReplSends
  <1>9. ASSUME NEW v \in inFlight, SaveCompleted(v) PROVE TypeOK'
    BY <1>9 DEF SaveCompleted, FireAfter
  <1>10. CASE StopAutosave
    BY <1>10 DEF StopAutosave
  <1>11. CASE AutosaveStopped
    BY <1>11 DEF AutosaveStopped
  <1>12. CASE UNCHANGED vars
    BY <1>12 DEF vars
  <1>13. QED
    BY <1>1, <1>2, <1>3, <1>4, <1>5, <1>6, <1>7, <1>8, <1>9, <1>10, <1>11, <1>12 DEF Next, TimerThread

LEMMA NextThreads ==
    ASSUME IInv, [Next]_vars
    PROVE  Threads' /\ ChangedHasTimer' /\ NoChangeForgotten' /\ NoCallbackAfterStop' /\ (json <= version)'
  <1> USE DEF IInv, TypeOK, Threads, ChangedHasTimer, NoChangeForgotten, NoCallbackAfterStop, cvars
  <1>1. CASE Change
    BY <1>1 DEF Change, SaveSoon, FireAfter
  <1>2. CASE TimerFires
    BY <1>2 DEF TimerFires
  <1>3. CASE TimerSaves
    BY <1>3 DEF TimerSaves, SaveReturns, SaveBegins
  <1>4. CASE TimerCallsBack
    BY <1>4 DEF TimerCallsBack, Callback
  <1>5. CASE TimerDone
    BY <1>5 DEF TimerDone
  <1>6. CASE ReplSaves
    BY <1>6 DEF ReplSaves, SaveReturns, SaveBegins
  <1>7. CASE ReplCallsBack
    BY <1>7 DEF ReplCallsBack, Callback
  <1>8. CASE ReplSends
    BY <1>8 DEF ReplSends
  <1>9. ASSUME NEW v \in inFlight, SaveCompleted(v)
        PROVE  Threads' /\ ChangedHasTimer' /\ NoChangeForgotten' /\ NoCallbackAfterStop' /\ (json <= version)'
    BY <1>9 DEF SaveCompleted, FireAfter
  <1>10. CASE StopAutosave
    BY <1>10 DEF StopAutosave
  <1>11. CASE AutosaveStopped
    BY <1>11 DEF AutosaveStopped
  <1>12. CASE UNCHANGED vars
    BY <1>12 DEF vars
  <1>13. QED
    BY <1>1, <1>2, <1>3, <1>4, <1>5, <1>6, <1>7, <1>8, <1>9, <1>10, <1>11, <1>12 DEF Next, TimerThread

(* OneSaveAtATime as a condition on the four places a save can be in. *)
LEMMA SavesByPlace ==
    ASSUME TypeOK
    PROVE  OneSaveAtATime <=>
             /\ Len(mailbox) <= 1
             /\ \A u, v \in inFlight : u = v
             /\ rpc # "closed" =>
                  /\ saving <=> \/ tpc = "handing" \/ rpc = "handing"
                                \/ mailbox # << >> \/ inFlight # {}
                  /\ tpc = "handing" => rpc # "handing" /\ mailbox = << >> /\ inFlight = {}
                  /\ rpc = "handing" => mailbox = << >> /\ inFlight = {}
                  /\ mailbox # << >> => inFlight = {}
  <1>1. /\ "timer thread" \in Saves <=> tpc = "handing"
        /\ "Replicator thread" \in Saves <=> rpc = "handing"
        /\ "mailbox" \in Saves <=> mailbox # << >>
        /\ "peer" \in Saves <=> inFlight # {}
    BY DEF Saves
  <1>2. Saves \subseteq {"timer thread", "Replicator thread", "mailbox", "peer"}
    BY DEF Saves
  <1> HIDE DEF Saves
  <1>3. QED BY <1>1, <1>2 DEF OneSaveAtATime, TypeOK

(* At most one save is between save() and its answer.  The interesting     *)
(* steps are the ones that move it along: into the mailbox, to the peer,   *)
(* and back.                                                               *)
LEMMA NextOneSave ==
    ASSUME IInv, [Next]_vars, TypeOK'
    PROVE  OneSaveAtATime'
  <1> DEFINE O == /\ Len(mailbox) <= 1
                  /\ \A u, v \in inFlight : u = v
                  /\ rpc # "closed" =>
                       /\ saving <=> \/ tpc = "handing" \/ rpc = "handing"
                                     \/ mailbox # << >> \/ inFlight # {}
                       /\ tpc = "handing" => rpc # "handing" /\ mailbox = << >> /\ inFlight = {}
                       /\ rpc = "handing" => mailbox = << >> /\ inFlight = {}
                       /\ mailbox # << >> => inFlight = {}
  <1>o. O
    BY SavesByPlace DEF IInv
  <1>s. SUFFICES O'
    <2>1. TypeOK' => (OneSaveAtATime' <=> O')
      BY SavesByPlace, PTL
    <2>2. QED BY <2>1
  <1>t. /\ mailbox \in Seq(0 .. MaxVersion) /\ Len(mailbox) \in Nat
        /\ Len(mailbox) = 0 <=> mailbox = << >>
        /\ json \in 0 .. MaxVersion
    BY MailboxFacts, MaxVersionAssumption DEF IInv, TypeOK
  <1>1. CASE Change
    BY <1>1, <1>o DEF Change
  <1>2. CASE TimerFires
    BY <1>2, <1>o DEF TimerFires
  <1>3. CASE TimerSaves
    BY <1>3, <1>o, <1>t DEF TimerSaves, SaveReturns, SaveBegins, IInv, Threads
  <1>4. CASE TimerCallsBack
    <2>1. mailbox' # << >> /\ Len(mailbox') = Len(mailbox) + 1
      BY <1>4, <1>t, MailboxFacts DEF TimerCallsBack, Callback
    <2>2. rpc # "closed"
      BY <1>4 DEF TimerCallsBack, IInv, NoCallbackAfterStop
    <2>3. QED BY <1>4, <2>1, <2>2, <1>o, <1>t DEF TimerCallsBack, Callback, cvars
  <1>5. CASE TimerDone
    BY <1>5, <1>o DEF TimerDone
  <1>6. CASE ReplSaves
    BY <1>6, <1>o, <1>t DEF ReplSaves, SaveReturns, SaveBegins, IInv, Threads
  <1>7. CASE ReplCallsBack
    <2>1. mailbox' # << >> /\ Len(mailbox') = Len(mailbox) + 1
      BY <1>7, <1>t, MailboxFacts DEF ReplCallsBack, Callback
    <2>2. QED BY <1>7, <2>1, <1>o, <1>t DEF ReplCallsBack, Callback, cvars
  <1>8. CASE ReplSends
    <2>1. mailbox' = << >> /\ Len(mailbox') = 0
      <3>1. mailbox # << >> /\ mailbox' = Tail(mailbox)
        BY <1>8 DEF ReplSends
      <3>2. Len(mailbox) <= 1
        BY <1>o
      <3> HIDE DEF O
      <3>3. Len(mailbox) = 1
        <4>1. Len(mailbox) \in Nat \ {0}
          BY <3>1, <1>t, EmptySeq, Zenon
        <4>2. QED BY <4>1, <3>2
      <3>4. Tail(mailbox) \in Seq(0 .. MaxVersion) /\ Len(Tail(mailbox)) = 0
        BY <3>1, <3>3, <1>t
      <3>5. Tail(mailbox) = << >>
        BY <3>4, EmptySeq, Zenon
      <3>6. QED BY <3>1, <3>4, <3>5
    <2>2. CASE rpc = "closed"
      BY <2>1, <2>2, <1>8, <1>o DEF ReplSends, cvars
    <2>3. CASE rpc # "closed"
      <3>1. inFlight' = {Head(mailbox)}
        BY <2>3, <1>8, <1>o DEF ReplSends
      <3>2. QED BY <2>1, <2>3, <3>1, <1>8, <1>o, <1>t DEF ReplSends, cvars
    <2>4. QED BY <2>2, <2>3
  <1>9. ASSUME NEW v \in inFlight, SaveCompleted(v) PROVE O'
    <2>1. inFlight = {v} /\ inFlight' = {}
      BY <1>9, <1>o DEF SaveCompleted
    <2>2. saving /\ tpc # "handing" /\ rpc = "idle" /\ mailbox = << >>
      BY <2>1, <1>9, <1>o, <1>t DEF SaveCompleted
    <2>3. QED BY <2>1, <2>2, <1>9, <1>t DEF SaveCompleted
  <1>10. CASE StopAutosave
    BY <1>10, <1>o DEF StopAutosave
  <1>11. CASE AutosaveStopped
    BY <1>11, <1>o DEF AutosaveStopped
  <1>12. CASE UNCHANGED vars
    BY <1>12, <1>o DEF vars, cvars
  <1>13. QED
    BY <1>1, <1>2, <1>3, <1>4, <1>5, <1>6, <1>7, <1>8, <1>9, <1>10, <1>11, <1>12 DEF Next, TimerThread

(* IInv is inductive, so it holds in every reachable state. *)
THEOREM Invariance == Spec => []IInv
  <1>1. IInv /\ [Next]_vars => IInv'
    BY NextTypeOK, NextThreads, NextOneSave DEF IInv
  <1>2. QED BY InitIInv, <1>1, PTL DEF Spec

(* _changed never outlives the timer, saves never overlap, no change is    *)
(* forgotten and no callback runs after stopAutosave() returned, for any   *)
(* number of changes and any interleaving of the threads.                  *)
THEOREM AutosaveIsSafe ==
    Spec => [](TypeOK /\ ChangedHasTimer /\ OneSaveAtATime /\ NoChangeForgotten /\ NoCallbackAfterStop)
  <1>1. IInv => TypeOK /\ ChangedHasTimer /\ OneSaveAtATime /\ NoChangeForgotten /\ NoCallbackAfterStop
    BY DEF IInv
  <1>2. QED BY Invariance, <1>1, PTL

LEMMA AbstractInit == Init => Abstract!Init
  BY DEF Init, Abstract!Init

(* Every step of the threads is a step of Autosave or leaves its variables *)
(* alone: save()'s critical section begins a save, the answer ends it, the *)
(* return of stopAutosave() stops it.                                      *)
LEMMA AbstractNext ==
    ASSUME IInv, [Next]_vars
    PROVE  [Abstract!Next]_(Abstract!vars)
  <1> USE DEF Abstract!vars, IInv, Threads, cvars
  <1>1. CASE Change
    <2>1. (timer = "null") <=> (timer' = "null")
      BY <1>1 DEF Change, SaveSoon, FireAfter
    <2>2. QED BY <1>1, <2>1 DEF Change, Abstract!Next, Abstract!Change
  <1>2. CASE TimerFires
    BY <1>2 DEF TimerFires
  <1>3. CASE TimerSaves \/ ReplSaves
    <2>1. CASE SaveReturns
      BY <2>1 DEF SaveReturns
    <2>2. CASE SaveBegins
      BY <2>2 DEF SaveBegins, NoChangeForgotten, Abstract!Next, Abstract!BeginSave
    <2>3. QED BY <1>3, <2>1, <2>2 DEF TimerSaves, ReplSaves
  <1>4. CASE TimerCallsBack \/ ReplCallsBack
    BY <1>4 DEF TimerCallsBack, ReplCallsBack, Callback
  <1>5. CASE TimerDone
    BY <1>5 DEF TimerDone
  <1>6. CASE ReplSends
    BY <1>6 DEF ReplSends
  <1>7. ASSUME NEW v \in inFlight, SaveCompleted(v)
        PROVE  [Abstract!Next]_(Abstract!vars)
    <2>1. timer # "null" /\ timer' # "null"
      BY <1>7 DEF SaveCompleted, FireAfter
    <2>2. saving
      <3>1. inFlight # {} /\ rpc # "closed"
        BY <1>7 DEF SaveCompleted
      <3>2. QED BY <3>1, SavesByPlace, Zenon
    <2>3. QED BY <1>7, <2>1, <2>2 DEF SaveCompleted, Abstract!Next, Abstract!EndSave
  <1>8. CASE StopAutosave
    BY <1>8 DEF StopAutosave
  <1>9. CASE AutosaveStopped
    BY <1>9 DEF AutosaveStopped, Abstract!Next, Abstract!Stop
  <1>10. CASE UNCHANGED vars
    BY <1>10 DEF vars
  <1>11. QED
    BY <1>1, <1>2, <1>3, <1>4, <1>5, <1>6, <1>7, <1>8, <1>9, <1>10 DEF Next, TimerThread

(* The timer, the mutex and the three threads implement the abstract       *)
(* Autosave.                                                               *)
THEOREM RefinesAutosave == Spec => ImplementsAutosave
  <1>1. Init => Abstract!Init
    BY AbstractInit
  <1>2. IInv /\ [Next]_vars => [Abstract!Next]_(Abstract!vars)
    BY AbstractNext
  <1>3. QED BY <1>1, <1>2, Invariance, PTL DEF Spec, ImplementsAutosave, Abstract!Spec
=============================================================================
