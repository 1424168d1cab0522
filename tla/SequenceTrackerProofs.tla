------------------------ MODULE SequenceTrackerProofs -----------------------
(***************************************************************************)
(* Proofs about SequenceTracker: for any documents, observers, length of   *)
(* the list that is kept and transactions of this and other connections,   *)
(* an observer that has something to read has been called, the entry of a  *)
(* document that is observed is kept, and the tracker implements           *)
(* ChangeObservers.                                                        *)
(*                                                                         *)
(* What matters of the list is which element comes before which: Before.   *)
(* The first part says what the operations on lists do to it, the second   *)
(* what the tracker's methods do, and the third takes the actions.         *)
(***************************************************************************)
EXTENDS SequenceTracker, FiniteSetTheorems, WellFoundedInduction, TLAPS

Elements == Docs \cup Notifiers \cup {Transaction}
IsList(list) == list \in Seq(Elements) /\ IsInjective(list)
Before(list, x, y) == \E i, j \in DOMAIN list : i < j /\ list[i] = x /\ list[j] = y

-----------------------------------------------------------------------------
LEMMA PositionIs ==
    ASSUME NEW list, IsList(list), NEW x \in Range(list)
    PROVE  /\ Position(list, x) \in 1 .. Len(list) /\ list[Position(list, x)] = x
           /\ \A i \in 1 .. Len(list) : list[i] = x => i = Position(list, x)
  <1>1. \E i \in DOMAIN list : list[i] = x
    BY DEF Range
  <1>2. Position(list, x) \in DOMAIN list /\ list[Position(list, x)] = x
    BY <1>1 DEF Position
  <1>3. list \in Seq(Elements) /\ DOMAIN list = 1 .. Len(list)
    BY DEF IsList
  <1> QED
    BY <1>2, <1>3 DEF IsList, IsInjective

(* What an observer has not read comes after it. *)
LEMMA DocsAfterIs ==
    ASSUME NEW list, IsList(list), NEW x \in Range(list)
    PROVE  DocsAfter(list, x) = {d \in Docs : Before(list, x, d)}
  <1> DEFINE p == Position(list, x)  tail == SubSeq(list, p + 1, Len(list))
  <1>1. /\ p \in 1 .. Len(list) /\ list[p] = x /\ list \in Seq(Elements)
        /\ \A i \in 1 .. Len(list) : list[i] = x => i = p
    BY PositionIs DEF IsList
  <1> HIDE DEF p
  <1>2. tail \in Seq(Elements) /\ Len(tail) = Len(list) - p /\ \A i \in 1 .. Len(tail) : tail[i] = list[p + i]
    BY <1>1
  <1> HIDE DEF tail
  <1>3. ASSUME NEW d PROVE d \in Range(tail) <=> \E j \in p + 1 .. Len(list) : list[j] = d
    <2>1. ASSUME d \in Range(tail) PROVE \E j \in p + 1 .. Len(list) : list[j] = d
      <3>1. PICK i \in 1 .. Len(tail) : tail[i] = d
        BY <1>2, <2>1 DEF Range
      <3>2. p + i \in p + 1 .. Len(list) /\ list[p + i] = d
        BY <1>1, <1>2, <3>1
      <3>3. QED BY <3>2
    <2>2. ASSUME NEW j \in p + 1 .. Len(list), list[j] = d PROVE d \in Range(tail)
      <3>1. j - p \in 1 .. Len(tail) /\ tail[j - p] = list[p + (j - p)] /\ p + (j - p) = j
        BY <1>1, <1>2
      <3>2. QED BY <1>2, <2>2, <3>1 DEF Range
    <2>3. QED BY <2>1, <2>2
  <1>4. ASSUME NEW d PROVE Before(list, x, d) <=> \E j \in p + 1 .. Len(list) : list[j] = d
    <2>1. DOMAIN list = 1 .. Len(list) /\ p + 1 .. Len(list) \subseteq 1 .. Len(list)
      BY <1>1
    <2>2. ASSUME Before(list, x, d) PROVE \E j \in p + 1 .. Len(list) : list[j] = d
      BY <1>1, <2>1, <2>2 DEF Before
    <2>3. ASSUME NEW j \in p + 1 .. Len(list), list[j] = d PROVE Before(list, x, d)
      BY <1>1, <2>1, <2>3 DEF Before
    <2>4. QED BY <2>2, <2>3
  <1>5. DocsAfter(list, x) = Range(tail) \cap Docs
    BY DEF DocsAfter, After, p, tail
  <1> QED
    BY <1>3, <1>4, <1>5

(* Adding an element at the end. *)
LEMMA Appended ==
    ASSUME NEW list, IsList(list), NEW x \in Elements \ Range(list)
    PROVE  /\ IsList(Append(list, x)) /\ Range(Append(list, x)) = Range(list) \cup {x}
           /\ Len(Append(list, x)) = Len(list) + 1
           /\ \A a, b : Before(Append(list, x), a, b) <=> Before(list, a, b) \/ (a \in Range(list) /\ b = x)
  <1> DEFINE new == Append(list, x)
  <1>1. /\ new \in Seq(Elements) /\ Len(new) = Len(list) + 1 /\ new[Len(list) + 1] = x
        /\ \A i \in 1 .. Len(list) : new[i] = list[i]
        /\ Len(list) \in Nat /\ DOMAIN new = 1 .. Len(new) /\ DOMAIN list = 1 .. Len(list)
    BY DEF IsList
  <1> HIDE DEF new
  <1>2. Range(new) = Range(list) \cup {x}
    BY <1>1 DEF Range
  <1>3. \A i \in 1 .. Len(list) : list[i] \in Range(list)
    BY <1>1 DEF Range
  <1>4. IsList(new)
    BY <1>1, <1>3 DEF IsList, IsInjective
  <1>5. ASSUME NEW a, NEW b PROVE Before(new, a, b) <=> Before(list, a, b) \/ (a \in Range(list) /\ b = x)
    <2>1. ASSUME Before(new, a, b) PROVE Before(list, a, b) \/ (a \in Range(list) /\ b = x)
      <3>1. PICK i \in 1 .. Len(new), j \in 1 .. Len(new) : i < j /\ new[i] = a /\ new[j] = b
        BY <1>1, <2>1 DEF Before
      <3>2. i \in 1 .. Len(list) /\ list[i] = a
        BY <1>1, <3>1
      <3>3. CASE j \in 1 .. Len(list)
        BY <1>1, <3>1, <3>2, <3>3 DEF Before
      <3>4. CASE j = Len(list) + 1
        BY <1>1, <1>3, <3>1, <3>2, <3>4
      <3>5. QED BY <1>1, <3>3, <3>4
    <2>2. ASSUME Before(list, a, b) PROVE Before(new, a, b)
      <3>1. PICK i \in 1 .. Len(list), j \in 1 .. Len(list) : i < j /\ list[i] = a /\ list[j] = b
        BY <1>1, <2>2 DEF Before
      <3>2. i \in DOMAIN new /\ j \in DOMAIN new /\ new[i] = a /\ new[j] = b
        BY <1>1, <3>1
      <3>3. QED BY <3>1, <3>2 DEF Before
    <2>3. ASSUME a \in Range(list), b = x PROVE Before(new, a, b)
      <3>1. PICK i \in 1 .. Len(list) : list[i] = a
        BY <1>1, <2>3 DEF Range
      <3>2. i \in DOMAIN new /\ Len(list) + 1 \in DOMAIN new /\ i < Len(list) + 1 /\ new[i] = a /\ new[Len(list) + 1] = b
        BY <1>1, <2>3, <3>1
      <3>3. QED BY <3>2 DEF Before
    <2>4. QED BY <2>1, <2>2, <2>3
  <1> QED
    BY <1>1, <1>2, <1>4, <1>5 DEF new

LEMMA SubSeqIs ==
    ASSUME NEW S, NEW s \in Seq(S), NEW m \in 1 .. Len(s) + 1, NEW n \in m - 1 .. Len(s)
    PROVE  /\ SubSeq(s, m, n) \in Seq(S) /\ Len(SubSeq(s, m, n)) = n - m + 1
           /\ \A i \in 1 .. n - m + 1 : SubSeq(s, m, n)[i] = s[m - 1 + i]
  OBVIOUS

LEMMA ConcatIs ==
    ASSUME NEW S, NEW a \in Seq(S), NEW b \in Seq(S)
    PROVE  /\ a \o b \in Seq(S) /\ Len(a \o b) = Len(a) + Len(b)
           /\ \A i \in 1 .. Len(a) : (a \o b)[i] = a[i]
           /\ \A i \in Len(a) + 1 .. Len(a) + Len(b) : (a \o b)[i] = b[i - Len(a)]
  OBVIOUS

(* Picking some of the elements of a list, in their order. *)
Picks(new, list, h, n) ==
    /\ new \in Seq(Elements) /\ Len(new) = n /\ n \in Nat /\ h \in [1 .. n -> 1 .. Len(list)]
    /\ \A i \in 1 .. n : new[i] = list[h[i]]
    /\ \A i, j \in 1 .. n : i < j => h[i] < h[j]
InOrder(new, list) ==
    \A a, b : Before(new, a, b) <=> Before(list, a, b) /\ a \in Range(new) /\ b \in Range(new)

LEMMA Picked ==
    ASSUME NEW list, IsList(list), NEW n, NEW h, NEW new, Picks(new, list, h, n)
    PROVE  IsList(new) /\ InOrder(new, list)
  <1>0. n \in Nat /\ h \in [1 .. n -> 1 .. Len(list)] /\ \A i, j \in 1 .. n : i < j => h[i] < h[j]
    BY DEF Picks
  <1>1. /\ list \in Seq(Elements) /\ DOMAIN list = 1 .. Len(list) /\ Len(list) \in Nat
        /\ \A i \in 1 .. Len(list) : list[i] \in Elements
    BY DEF IsList
  <1>2. new \in Seq(Elements) /\ Len(new) = n /\ DOMAIN new = 1 .. n /\ \A i \in 1 .. n : new[i] = list[h[i]]
    BY DEF Picks
  <1>3. \A i, j \in 1 .. n : new[i] = new[j] => i = j
    <2>1. ASSUME NEW i \in 1 .. n, NEW j \in 1 .. n, new[i] = new[j] PROVE i = j
      <3>1. h[i] = h[j]
        BY <1>0, <1>1, <1>2, <2>1 DEF IsList, IsInjective
      <3>2. ~(i < j) /\ ~(j < i)
        BY <1>0, <3>1
      <3>3. QED BY <3>2
    <2>2. QED BY <2>1
  <1>4. IsList(new)
    BY <1>2, <1>3 DEF IsList, IsInjective
  <1>6. ASSUME NEW a, NEW b
        PROVE  Before(new, a, b) <=> Before(list, a, b) /\ a \in Range(new) /\ b \in Range(new)
    <2>1. ASSUME Before(new, a, b) PROVE Before(list, a, b) /\ a \in Range(new) /\ b \in Range(new)
      <3>1. PICK i \in 1 .. n, j \in 1 .. n : i < j /\ new[i] = a /\ new[j] = b
        BY <1>2, <2>1 DEF Before
      <3>2. h[i] \in DOMAIN list /\ h[j] \in DOMAIN list /\ h[i] < h[j] /\ list[h[i]] = a /\ list[h[j]] = b
        BY <1>0, <1>1, <1>2, <3>1
      <3>3. Before(list, a, b)
        BY <3>2 DEF Before
      <3>4. QED BY <1>2, <3>1, <3>3 DEF Range
    <2>2. ASSUME Before(list, a, b), a \in Range(new), b \in Range(new) PROVE Before(new, a, b)
      <3>1. PICK k \in 1 .. Len(list), l \in 1 .. Len(list) : k < l /\ list[k] = a /\ list[l] = b
        BY <1>1, <2>2 DEF Before
      <3>2. PICK i \in 1 .. n : new[i] = a
        BY <1>2, <2>2 DEF Range
      <3>3. PICK j \in 1 .. n : new[j] = b
        BY <1>2, <2>2 DEF Range
      <3>4. h[i] = k
        BY <1>0, <1>1, <1>2, <3>1, <3>2 DEF IsList, IsInjective
      <3>41. h[j] = l
        BY <1>0, <1>1, <1>2, <3>1, <3>3 DEF IsList, IsInjective
      <3>5. i < j
        BY <1>0, <3>1, <3>4, <3>41
      <3>6. QED BY <1>2, <3>2, <3>3, <3>5 DEF Before
    <2>3. QED BY <2>1, <2>2
  <1> QED
    BY <1>4, <1>6 DEF InOrder

(* Taking an element out. *)
LEMMA Removed ==
    ASSUME NEW list, IsList(list), NEW x
    PROVE  /\ IsList(Without(list, x)) /\ Range(Without(list, x)) = Range(list) \ {x}
           /\ x \in Range(list) => Len(Without(list, x)) = Len(list) - 1
           /\ x \notin Range(list) => Without(list, x) = list
           /\ \A a, b : Before(Without(list, x), a, b) <=> Before(list, a, b) /\ a # x /\ b # x
  <1>0. /\ list \in Seq(Elements) /\ DOMAIN list = 1 .. Len(list) /\ Len(list) \in Nat
        /\ \A a, b : Before(list, a, b) => a \in Range(list) /\ b \in Range(list)
    BY DEF IsList, Before, Range
  <1>1. CASE x \notin Range(list)
    <2>1. Without(list, x) = list /\ Range(list) = Range(list) \ {x}
      BY <1>1 DEF Without
    <2>2. QED BY <1>0, <1>1, <2>1
  <1>2. CASE x \in Range(list)
    <2> DEFINE p == Position(list, x)  m == Len(list)
               h == [i \in 1 .. m - 1 |-> IF i < p THEN i ELSE i + 1]
               new == Without(list, x)
    <2>1. p \in 1 .. m /\ list[p] = x /\ \A i \in 1 .. m : list[i] = x => i = p
      BY <1>2, PositionIs
    <2> DEFINE front == SubSeq(list, 1, p - 1)  back == SubSeq(list, p + 1, m)
    <2>2. new = front \o back
      BY <1>2 DEF Without, RemoveAt
    <2> HIDE DEF p, new
    <2>21. front \in Seq(Elements) /\ Len(front) = p - 1 /\ \A i \in 1 .. p - 1 : front[i] = list[i]
      BY <1>0, <2>1
    <2>22. back \in Seq(Elements) /\ Len(back) = m - p /\ \A i \in 1 .. m - p : back[i] = list[p + i]
      <3> DEFINE k == p + 1
      <3>1. k \in 1 .. m + 1 /\ m \in k - 1 .. m /\ m - k + 1 = m - p /\ \A i \in 1 .. m - p : k - 1 + i = p + i
        BY <1>0, <2>1
      <3> HIDE DEF k
      <3>2. /\ SubSeq(list, k, m) \in Seq(Elements) /\ Len(SubSeq(list, k, m)) = m - k + 1
            /\ \A i \in 1 .. m - k + 1 : SubSeq(list, k, m)[i] = list[k - 1 + i]
        BY <1>0, <3>1, SubSeqIs
      <3>3. back = SubSeq(list, k, m)
        BY DEF k
      <3>4. QED BY <3>1, <3>2, <3>3
    <2> HIDE DEF front, back
    <2>23. /\ new \in Seq(Elements) /\ Len(new) = Len(front) + Len(back)
           /\ \A i \in 1 .. Len(front) : new[i] = front[i]
           /\ \A i \in Len(front) + 1 .. Len(front) + Len(back) : new[i] = back[i - Len(front)]
      BY <2>2, <2>21, <2>22, ConcatIs, ZenonT(60)
    <2>3. new \in Seq(Elements) /\ Len(new) = m - 1
      BY <1>0, <2>1, <2>21, <2>22, <2>23
    <2>4. ASSUME NEW i \in 1 .. m - 1 PROVE new[i] = list[h[i]]
      <3>1. CASE i < p
        BY <1>0, <2>1, <2>21, <2>23, <3>1
      <3>2. CASE i >= p
        <4>1. i - (p - 1) \in 1 .. m - p /\ p + (i - (p - 1)) = i + 1 /\ i \in (p - 1) + 1 .. (p - 1) + (m - p)
          BY <1>0, <2>1, <3>2
        <4>2. new[i] = back[i - (p - 1)]
          BY <2>21, <2>22, <2>23, <4>1
        <4>3. h[i] = i + 1
          BY <2>1, <3>2
        <4>4. QED BY <2>22, <4>1, <4>2, <4>3
      <3>3. QED BY <1>0, <2>1, <3>1, <3>2
    <2>5. m - 1 \in Nat /\ h \in [1 .. m - 1 -> 1 .. m] /\ \A i, j \in 1 .. m - 1 : i < j => h[i] < h[j]
      BY <1>0, <2>1
    <2> HIDE DEF h
    <2>6. Picks(new, list, h, m - 1)
      BY <2>3, <2>4, <2>5 DEF Picks
    <2>7. IsList(new) /\ InOrder(new, list)
      BY <2>6, Picked
    <2>71. Range(new) = {list[h[i]] : i \in 1 .. m - 1}
      BY <2>3, <2>4 DEF Range
    <2>8. Range(new) = Range(list) \ {x}
      <3>1. ASSUME NEW i \in 1 .. m - 1 PROVE list[h[i]] \in Range(list) \ {x}
        <4>1. h[i] # p /\ h[i] \in 1 .. m
          BY <2>1, <2>5 DEF h
        <4>2. QED BY <1>0, <2>1, <4>1 DEF Range
      <3>2. ASSUME NEW y \in Range(list) \ {x} PROVE \E i \in 1 .. m - 1 : list[h[i]] = y
        <4>1. PICK k \in 1 .. m : list[k] = y
          BY <1>0 DEF Range
        <4>2. k # p
          BY <2>1, <4>1
        <4>3. CASE k < p
          <5>1. k \in 1 .. m - 1 /\ h[k] = k
            BY <1>0, <2>1, <4>3 DEF h
          <5>2. QED BY <4>1, <5>1
        <4>4. CASE k > p
          <5>1. k - 1 \in 1 .. m - 1 /\ h[k - 1] = k
            BY <1>0, <2>1, <4>4 DEF h
          <5>2. QED BY <4>1, <5>1
        <4>5. QED BY <2>1, <4>2, <4>3, <4>4
      <3>3. QED BY <2>71, <3>1, <3>2
    <2>9. QED BY <1>0, <1>2, <2>3, <2>7, <2>8 DEF new, InOrder
  <1> QED
    BY <1>1, <1>2

(* Dropping the first n elements. *)
LEMMA Shortened ==
    ASSUME NEW list, IsList(list), NEW n \in 0 .. Len(list)
    PROVE  LET new == SubSeq(list, n + 1, Len(list))  dropped == Range(SubSeq(list, 1, n))
           IN  /\ IsList(new) /\ Len(new) = Len(list) - n /\ Range(new) = Range(list) \ dropped
               /\ dropped = {list[i] : i \in 1 .. n}
               /\ n < Len(list) => Head(new) = list[n + 1]
               /\ \A a, b : Before(new, a, b) <=> Before(list, a, b) /\ a \notin dropped
  <1> DEFINE m == Len(list)  h == [i \in 1 .. m - n |-> i + n]
             new == SubSeq(list, n + 1, m)  first == SubSeq(list, 1, n)  dropped == Range(first)
  <1>0. /\ list \in Seq(Elements) /\ DOMAIN list = 1 .. m /\ m \in Nat
        /\ \A a, b : Before(list, a, b) => a \in Range(list) /\ b \in Range(list)
    BY DEF IsList, Before, Range
  <1>1. new \in Seq(Elements) /\ Len(new) = m - n /\ \A i \in 1 .. m - n : new[i] = list[i + n]
    <2> DEFINE k == n + 1
    <2>1. k \in 1 .. m + 1 /\ m \in k - 1 .. m /\ m - k + 1 = m - n /\ \A i \in 1 .. m - n : k - 1 + i = i + n
      BY <1>0
    <2> HIDE DEF k
    <2>2. /\ SubSeq(list, k, m) \in Seq(Elements) /\ Len(SubSeq(list, k, m)) = m - k + 1
          /\ \A i \in 1 .. m - k + 1 : SubSeq(list, k, m)[i] = list[k - 1 + i]
      BY <1>0, <2>1, SubSeqIs
    <2>3. new = SubSeq(list, k, m)
      BY DEF k
    <2>4. QED BY <2>1, <2>2, <2>3
  <1>3. first \in Seq(Elements) /\ Len(first) = n /\ DOMAIN first = 1 .. n /\ \A i \in 1 .. n : first[i] = list[i]
    BY <1>0
  <1>4. dropped = {list[i] : i \in 1 .. n}
    BY <1>3 DEF Range
  <1>5. m - n \in Nat /\ h \in [1 .. m - n -> 1 .. m] /\ (\A i, j \in 1 .. m - n : i < j => h[i] < h[j])
        /\ \A i \in 1 .. m - n : h[i] = i + n
    BY <1>0
  <1> HIDE DEF new, h, first
  <1>2. ASSUME n < m PROVE Head(new) = list[n + 1]
    <2>1. Len(new) > 0 /\ 1 \in 1 .. m - n /\ 1 + n = n + 1
      BY <1>0, <1>1, <1>2
    <2>2. Head(new) = new[1]
      BY <1>1, <2>1
    <2>3. QED BY <1>1, <2>1, <2>2
  <1>6. Picks(new, list, h, m - n)
    BY <1>1, <1>5 DEF Picks
  <1>61. IsList(new) /\ InOrder(new, list)
    BY <1>6, Picked
  <1>7. Range(new) = {list[h[i]] : i \in 1 .. m - n}
    <2>1. DOMAIN new = 1 .. m - n
      BY <1>1
    <2>2. \A i \in 1 .. m - n : new[i] = list[h[i]]
      BY <1>6 DEF Picks
    <2>3. QED BY <2>1, <2>2 DEF Range
  <1>8. \A k \in 1 .. m : list[k] \in dropped <=> k <= n
    <2>1. ASSUME NEW k \in 1 .. m, list[k] \in dropped PROVE k <= n
      <3>1. PICK i \in 1 .. n : list[k] = list[i]
        BY <1>4, <2>1
      <3>2. k = i
        BY <1>0, <3>1 DEF IsList, IsInjective
      <3>3. QED BY <3>2
    <2>2. ASSUME NEW k \in 1 .. m, k <= n PROVE list[k] \in dropped
      BY <1>4, <2>2
    <2>3. QED BY <2>1, <2>2
  <1>9. \A k \in 1 .. m : list[k] \in Range(new) <=> k > n
    <2>1. ASSUME NEW k \in 1 .. m, list[k] \in Range(new) PROVE k > n
      <3>1. PICK i \in 1 .. m - n : list[h[i]] = list[k]
        BY <1>7, <2>1
      <3>2. h[i] = k
        BY <1>0, <1>5, <3>1 DEF IsList, IsInjective
      <3>3. QED BY <1>5, <3>2
    <2>2. ASSUME NEW k \in 1 .. m, k > n PROVE list[k] \in Range(new)
      <3>1. k - n \in 1 .. m - n /\ h[k - n] = k
        BY <1>0, <1>5, <2>2
      <3>2. QED BY <1>7, <3>1
    <2>3. QED BY <2>1, <2>2
  <1>10. Range(new) = Range(list) \ dropped
    <2>1. Range(new) \subseteq Range(list)
      BY <1>0, <1>5, <1>7 DEF Range
    <2>2. ASSUME NEW y \in Range(list) PROVE y \in Range(new) <=> y \notin dropped
      <3>1. PICK k \in 1 .. m : list[k] = y
        BY <1>0 DEF Range
      <3>2. QED BY <1>8, <1>9, <3>1
    <2>3. QED BY <2>1, <2>2
  <1>11. ASSUME NEW a, NEW b PROVE Before(new, a, b) <=> Before(list, a, b) /\ a \notin dropped
    <2>1. ASSUME Before(list, a, b), a \notin dropped PROVE b \in Range(new)
      <3>1. PICK k \in 1 .. m, l \in 1 .. m : k < l /\ list[k] = a /\ list[l] = b
        BY <1>0, <2>1 DEF Before
      <3>2. QED BY <1>8, <1>9, <2>1, <3>1
    <2>2. QED BY <1>0, <1>61, <1>10, <2>1 DEF InOrder
  <1> QED
    BY <1>1, <1>2, <1>4, <1>61, <1>10, <1>11 DEF new, first

(* The middle of a list. *)
LEMMA Middle ==
    ASSUME NEW S, NEW list \in Seq(S), NEW p \in 0 .. Len(list), NEW n \in p .. Len(list)
    PROVE  /\ SubSeq(list, p + 1, n) \in Seq(S) /\ Len(SubSeq(list, p + 1, n)) = n - p
           /\ \A k \in 1 .. n - p : SubSeq(list, p + 1, n)[k] = list[p + k]
  <1> DEFINE q == p + 1
  <1>1. q \in 1 .. Len(list) + 1 /\ n \in q - 1 .. Len(list) /\ n - q + 1 = n - p /\ \A k \in 1 .. n - p : q - 1 + k = p + k
    OBVIOUS
  <1> HIDE DEF q
  <1>2. /\ SubSeq(list, q, n) \in Seq(S) /\ Len(SubSeq(list, q, n)) = n - q + 1
        /\ \A k \in 1 .. n - q + 1 : SubSeq(list, q, n)[k] = list[q - 1 + k]
    BY <1>1, SubSeqIs
  <1> QED
    BY <1>1, <1>2 DEF q

(* Moving an element: where what is at k afterwards was before. *)
Was(p, i, k) == IF k < p \/ k >= i THEN k ELSE IF k = i - 1 THEN p ELSE k + 1
IsNow(p, i, k) == IF k < p \/ k >= i THEN k ELSE IF k = p THEN i - 1 ELSE k - 1

LEMMA SpliceIs ==
    ASSUME NEW list \in Seq(Elements), NEW p \in 1 .. Len(list), NEW i \in p + 1 .. Len(list) + 1
    PROVE  /\ Splice(list, p, i) \in Seq(Elements) /\ Len(Splice(list, p, i)) = Len(list)
           /\ \A k \in 1 .. Len(list) : Splice(list, p, i)[k] = list[Was(p, i, k)]
  <1> DEFINE m == Len(list)
             a == SubSeq(list, 1, p - 1)  b == SubSeq(list, p + 1, i - 1)  c == <<list[p]>>  d == SubSeq(list, i, m)
             ab == a \o b  abc == ab \o c
  <1>0. m \in Nat
    OBVIOUS
  <1>1. a \in Seq(Elements) /\ Len(a) = p - 1 /\ \A k \in 1 .. p - 1 : a[k] = list[k]
    BY <1>0
  <1>2. b \in Seq(Elements) /\ Len(b) = i - 1 - p /\ \A k \in 1 .. i - 1 - p : b[k] = list[p + k]
    <2>1. p \in 0 .. m /\ i - 1 \in p .. m
      BY <1>0
    <2>2. QED BY <2>1, Middle
  <1>3. c \in Seq(Elements) /\ Len(c) = 1 /\ c[1] = list[p]
    BY <1>0
  <1>4. d \in Seq(Elements) /\ Len(d) = m - i + 1 /\ \A k \in 1 .. m - i + 1 : d[k] = list[i - 1 + k]
    <2>1. i \in 1 .. m + 1 /\ m \in i - 1 .. m
      BY <1>0
    <2>2. QED BY <2>1, SubSeqIs
  <1> HIDE DEF a, b, c, d
  <1>5. /\ ab \in Seq(Elements) /\ Len(ab) = i - 2 /\ \A k \in 1 .. p - 1 : ab[k] = list[k]
        /\ \A k \in p .. i - 2 : ab[k] = list[k + 1]
    <2>1. /\ ab \in Seq(Elements) /\ Len(ab) = Len(a) + Len(b) /\ \A k \in 1 .. Len(a) : ab[k] = a[k]
          /\ \A k \in Len(a) + 1 .. Len(a) + Len(b) : ab[k] = b[k - Len(a)]
      BY <1>1, <1>2, ConcatIs, ZenonT(60)
    <2> HIDE DEF ab
    <2>2. Len(ab) = i - 2
      BY <1>0, <1>1, <1>2, <2>1
    <2>3. ASSUME NEW k \in p .. i - 2 PROVE ab[k] = list[k + 1]
      <3>1. k \in (p - 1) + 1 .. (p - 1) + (i - 1 - p) /\ k - (p - 1) \in 1 .. i - 1 - p /\ p + (k - (p - 1)) = k + 1
        BY <1>0
      <3>2. ab[k] = b[k - (p - 1)]
        BY <1>1, <1>2, <2>1, <3>1
      <3>3. QED BY <1>2, <3>1, <3>2
    <2>4. QED BY <1>1, <2>1, <2>2, <2>3
  <1> HIDE DEF ab
  <1>6. /\ abc \in Seq(Elements) /\ Len(abc) = i - 1 /\ (\A k \in 1 .. i - 2 : abc[k] = ab[k]) /\ abc[i - 1] = list[p]
    <2>1. /\ abc \in Seq(Elements) /\ Len(abc) = Len(ab) + Len(c) /\ \A k \in 1 .. Len(ab) : abc[k] = ab[k]
          /\ \A k \in Len(ab) + 1 .. Len(ab) + Len(c) : abc[k] = c[k - Len(ab)]
      BY <1>3, <1>5, ConcatIs, ZenonT(60)
    <2> HIDE DEF abc
    <2>2. Len(abc) = i - 1 /\ i - 1 \in (i - 2) + 1 .. (i - 2) + 1 /\ (i - 1) - (i - 2) = 1
      <3>1. Len(abc) = Len(ab) + Len(c) /\ Len(ab) = i - 2 /\ Len(c) = 1
        BY <1>3, <1>5, <2>1, Zenon
      <3>2. i \in Nat
        BY <1>0
      <3>3. QED BY <3>1, <3>2
    <2>3. abc[i - 1] = c[1]
      BY <1>3, <1>5, <2>1, <2>2
    <2>4. QED BY <1>3, <1>5, <2>1, <2>2, <2>3
  <1> HIDE DEF abc
  <1> DEFINE new == abc \o d
  <1>7. /\ new \in Seq(Elements) /\ Len(new) = m /\ (\A k \in 1 .. i - 1 : new[k] = abc[k])
        /\ \A k \in i .. m : new[k] = list[k]
    <2>1. /\ new \in Seq(Elements) /\ Len(new) = Len(abc) + Len(d) /\ \A k \in 1 .. Len(abc) : new[k] = abc[k]
          /\ \A k \in Len(abc) + 1 .. Len(abc) + Len(d) : new[k] = d[k - Len(abc)]
      BY <1>4, <1>6, ConcatIs, ZenonT(60)
    <2> HIDE DEF new
    <2>2. Len(new) = m
      BY <1>0, <1>4, <1>6, <2>1
    <2>3. ASSUME NEW k \in i .. m PROVE new[k] = list[k]
      <3>1. k \in (i - 1) + 1 .. (i - 1) + (m - i + 1) /\ k - (i - 1) \in 1 .. m - i + 1 /\ i - 1 + (k - (i - 1)) = k
        BY <1>0
      <3>2. new[k] = d[k - (i - 1)]
        BY <1>4, <1>6, <2>1, <3>1
      <3>3. QED BY <1>4, <3>1, <3>2
    <2>4. QED BY <1>6, <2>1, <2>2, <2>3
  <1>8. Splice(list, p, i) = new
    BY DEF Splice, new, abc, ab, a, b, c, d
  <1> HIDE DEF new
  <1>9. ASSUME NEW k \in 1 .. m PROVE new[k] = list[Was(p, i, k)]
    <2>1. CASE k < p
      <3>1. k \in 1 .. p - 1 /\ k \in 1 .. i - 2 /\ k \in 1 .. i - 1
        BY <1>0, <2>1
      <3>2. QED BY <1>5, <1>6, <1>7, <2>1, <3>1 DEF Was
    <2>2. CASE k >= i
      BY <1>0, <1>7, <2>2 DEF Was
    <2>3. CASE k = i - 1
      <3>1. k \in 1 .. i - 1 /\ ~(k < p) /\ ~(k >= i)
        BY <1>0, <2>3
      <3>2. QED BY <1>6, <1>7, <2>3, <3>1 DEF Was
    <2>4. CASE p <= k /\ k < i - 1
      <3>1. k \in p .. i - 2 /\ k \in 1 .. i - 2 /\ k \in 1 .. i - 1 /\ ~(k < p) /\ ~(k >= i) /\ k # i - 1
        BY <1>0, <2>4
      <3>2. QED BY <1>5, <1>6, <1>7, <3>1 DEF Was
    <2>5. QED BY <1>0, <2>1, <2>2, <2>3, <2>4
  <1> QED
    BY <1>7, <1>8, <1>9

LEMMA WasIs ==
    ASSUME NEW m \in Nat, NEW p \in 1 .. m, NEW i \in p + 1 .. m + 1
    PROVE  /\ \A k \in 1 .. m : Was(p, i, k) \in 1 .. m /\ IsNow(p, i, k) \in 1 .. m
           /\ \A k \in 1 .. m : Was(p, i, IsNow(p, i, k)) = k /\ IsNow(p, i, Was(p, i, k)) = k
           /\ \A k, l \in 1 .. m : k < l /\ Was(p, i, k) # p /\ Was(p, i, l) # p => Was(p, i, k) < Was(p, i, l)
           /\ \A k, l \in 1 .. m : k < l /\ k # p /\ l # p => IsNow(p, i, k) < IsNow(p, i, l)
           /\ IsNow(p, i, p) = i - 1 /\ Was(p, i, i - 1) = p /\ \A k \in 1 .. m : k > i - 1 => Was(p, i, k) = k
           /\ \A k \in 1 .. m : k >= i => IsNow(p, i, k) = k
  BY DEF Was, IsNow

(* Moving an element to a later place: what it comes before are the        *)
(* elements from there on, and all others stay in order.                   *)
LEMMA Spliced ==
    ASSUME NEW list, IsList(list), NEW p \in 1 .. Len(list), NEW i \in p + 1 .. Len(list) + 1
    PROVE  LET new == Splice(list, p, i)
           IN  /\ IsList(new) /\ Len(new) = Len(list) /\ Range(new) = Range(list)
               /\ \A a, b : a # list[p] /\ b # list[p] => (Before(new, a, b) <=> Before(list, a, b))
               /\ \A b : Before(new, list[p], b) <=> \E j \in i .. Len(list) : list[j] = b
  <1> DEFINE m == Len(list)  new == Splice(list, p, i)
  <1>0. list \in Seq(Elements) /\ m \in Nat /\ DOMAIN list = 1 .. m
    BY DEF IsList
  <1>1. new \in Seq(Elements) /\ Len(new) = m /\ \A k \in 1 .. m : new[k] = list[Was(p, i, k)]
    BY <1>0, SpliceIs
  <1> HIDE DEF new
  <1>2. DOMAIN new = 1 .. m
    BY <1>1
  <1>3. /\ \A k \in 1 .. m : Was(p, i, k) \in 1 .. m /\ IsNow(p, i, k) \in 1 .. m
        /\ \A k \in 1 .. m : Was(p, i, IsNow(p, i, k)) = k /\ IsNow(p, i, Was(p, i, k)) = k
        /\ \A k, l \in 1 .. m : k < l /\ Was(p, i, k) # p /\ Was(p, i, l) # p => Was(p, i, k) < Was(p, i, l)
        /\ \A k, l \in 1 .. m : k < l /\ k # p /\ l # p => IsNow(p, i, k) < IsNow(p, i, l)
        /\ IsNow(p, i, p) = i - 1 /\ Was(p, i, i - 1) = p /\ \A k \in 1 .. m : k > i - 1 => Was(p, i, k) = k
        /\ \A k \in 1 .. m : k >= i => IsNow(p, i, k) = k
    BY <1>0, WasIs
  <1>31. \A k \in 1 .. m : Was(p, i, k) \in 1 .. m
    BY <1>3
  <1>32. \A k \in 1 .. m : IsNow(p, i, k) \in 1 .. m
    BY <1>3
  <1>33. \A k \in 1 .. m : IsNow(p, i, Was(p, i, k)) = k
    BY <1>3
  <1>4. \A k \in 1 .. m : new[IsNow(p, i, k)] = list[k]
    BY <1>1, <1>3
  <1>5. \A k, l \in 1 .. m : list[k] = list[l] => k = l
    BY <1>0 DEF IsList, IsInjective
  <1>6. IsList(new)
    <2>1. ASSUME NEW k \in 1 .. m, NEW l \in 1 .. m, new[k] = new[l] PROVE k = l
      <3>1. Was(p, i, k) = Was(p, i, l)
        <4>1. list[Was(p, i, k)] = list[Was(p, i, l)]
          BY <1>1, <2>1
        <4>2. QED BY <1>5, <1>31, <4>1
      <3>2. QED BY <1>33, <3>1
    <2>2. QED BY <1>1, <1>2, <2>1 DEF IsList, IsInjective
  <1>7. Range(new) = Range(list)
    <2>1. \A k \in 1 .. m : new[k] \in Range(list)
      BY <1>0, <1>1, <1>31 DEF Range
    <2>2. \A k \in 1 .. m : list[k] \in Range(new)
      BY <1>2, <1>32, <1>4 DEF Range
    <2>3. QED BY <1>0, <1>2, <2>1, <2>2 DEF Range
  <1>8. ASSUME NEW a, NEW b, a # list[p], b # list[p] PROVE Before(new, a, b) <=> Before(list, a, b)
    <2>1. ASSUME Before(new, a, b) PROVE Before(list, a, b)
      <3>1. PICK k \in 1 .. m, l \in 1 .. m : k < l /\ new[k] = a /\ new[l] = b
        BY <1>2, <2>1 DEF Before
      <3>2. list[Was(p, i, k)] = a /\ list[Was(p, i, l)] = b /\ Was(p, i, k) # p /\ Was(p, i, l) # p
        BY <1>1, <1>8, <3>1
      <3>3. Was(p, i, k) < Was(p, i, l) /\ Was(p, i, k) \in DOMAIN list /\ Was(p, i, l) \in DOMAIN list
        BY <1>0, <1>3, <3>1, <3>2
      <3>4. QED BY <3>2, <3>3 DEF Before
    <2>2. ASSUME Before(list, a, b) PROVE Before(new, a, b)
      <3>1. PICK k \in 1 .. m, l \in 1 .. m : k < l /\ list[k] = a /\ list[l] = b
        BY <1>0, <2>2 DEF Before
      <3>2. k # p /\ l # p
        BY <1>8, <3>1
      <3>3. IsNow(p, i, k) < IsNow(p, i, l) /\ IsNow(p, i, k) \in DOMAIN new /\ IsNow(p, i, l) \in DOMAIN new
        BY <1>2, <1>3, <3>1, <3>2
      <3>4. new[IsNow(p, i, k)] = a /\ new[IsNow(p, i, l)] = b
        BY <1>4, <3>1
      <3>5. QED BY <3>3, <3>4 DEF Before
    <2>3. QED BY <2>1, <2>2
  <1>9. ASSUME NEW b PROVE Before(new, list[p], b) <=> \E j \in i .. m : list[j] = b
    <2>1. ASSUME Before(new, list[p], b) PROVE \E j \in i .. m : list[j] = b
      <3>1. PICK k \in 1 .. m, l \in 1 .. m : k < l /\ new[k] = list[p] /\ new[l] = b
        BY <1>2, <2>1 DEF Before
      <3>2. Was(p, i, k) = p
        <4>1. list[Was(p, i, k)] = list[p]
          BY <1>1, <3>1
        <4>2. QED BY <1>5, <1>31, <4>1
      <3>3. k = i - 1
        <4>1. IsNow(p, i, Was(p, i, k)) = k
          BY <1>33
        <4>2. QED BY <1>3, <3>2, <4>1
      <3>4. l \in i .. m /\ Was(p, i, l) = l
        BY <1>0, <1>3, <3>1, <3>3
      <3>5. list[l] = b
        BY <1>1, <3>1, <3>4
      <3>6. QED BY <3>4, <3>5
    <2>2. ASSUME NEW j \in i .. m, list[j] = b PROVE Before(new, list[p], b)
      <3>1. j \in 1 .. m /\ j > i - 1 /\ j >= i /\ i - 1 \in 1 .. m
        BY <1>0
      <3>2. new[j] = b /\ new[i - 1] = list[p]
        BY <1>3, <1>4, <2>2, <3>1
      <3>3. QED BY <1>2, <3>1, <3>2 DEF Before
    <2>3. QED BY <2>1, <2>2
  <1> QED
    BY <1>1, <1>6, <1>7, <1>8, <1>9 DEF new

-----------------------------------------------------------------------------
(* The tracker as a value.  It is consistent, and those who have something *)
(* to read have been called back.                                          *)
Trackers ==
    [changes : Seq(Elements), idle : SUBSET Docs, entry : [Docs -> Entries \cup {NoEntry}], last : Nat,
     called : SUBSET Notifiers]
EntriesMatch(t) ==
    /\ \A d \in Docs : t.entry[d] = NoEntry <=> d \notin Range(t.changes) \cup t.idle
    /\ t.idle \cap Range(t.changes) = {} /\ \A d \in t.idle : t.entry[d].observers # {}
CalledBack(t) ==
    /\ t.called \subseteq Range(t.changes)
    /\ \A n \in Notifiers, d \in Docs : Before(t.changes, n, d) => n \in t.called
Consistent(t) == t \in Trackers /\ IsList(t.changes) /\ EntriesMatch(t) /\ CalledBack(t)

Trimmed(list) ==
    InTransaction(list) \/ list = << >> \/ Head(list) \notin Docs
      \/ Len(list) <= MinChangesToKeep + Cardinality(Placeholders(list))

(* From t to u documents were added for every observer to read: no entry   *)
(* that is observed was lost, and no observer's call.                      *)
ObserversKept(t, u) ==
    \A d \in Docs : t.entry[d] # NoEntry /\ t.entry[d].observers # {} =>
        u.entry[d] # NoEntry /\ u.entry[d].observers = t.entry[d].observers
Gains(t, u, docs) ==
    \A n \in Placeholders(t.changes), b \in Docs :
        Before(u.changes, n, b) <=> Before(t.changes, n, b) \/ b \in docs
Follows(t, u, docs) ==
    /\ Consistent(u) /\ ObserversKept(t, u) /\ Gains(t, u, docs)
    /\ u.last = t.last /\ t.called \subseteq u.called /\ Placeholders(u.changes) = Placeholders(t.changes)
    /\ docs = {} => u.called = t.called

LEMMA FollowsItself == \A t : Consistent(t) => Follows(t, t, {})
  BY DEF Follows, ObserversKept, Gains

LEMMA FollowsOn ==
    ASSUME NEW t, NEW u, NEW v, NEW A, NEW B, Follows(t, u, A), Follows(u, v, B)
    PROVE  Follows(t, v, A \cup B)
  <1>1. ObserversKept(t, v)
    BY DEF Follows, ObserversKept
  <1>2. Gains(t, v, A \cup B)
    BY DEF Follows, Gains
  <1> QED
    BY <1>1, <1>2 DEF Follows

LEMMA LeastNatural ==
    ASSUME NEW T \in SUBSET Nat, T # {}
    PROVE  \E d \in T : \A e \in T : d <= e
  <1> DEFINE R == OpToRel(<, Nat)
  <1>1. IsWellFoundedOn(R, Nat)
    BY NatLessThanWellFounded
  <1>2. \A x, y \in Nat : x < y => <<x, y>> \in R
    BY DEF OpToRel
  <1> HIDE DEF R
  <1>3. PICK d \in T : \A y \in T : ~(<<y, d>> \in R)
    <2>1. \E x \in T : \A y \in T : ~(<<y, x>> \in R)
      BY <1>1, WFMin
    <2>2. QED BY <2>1
  <1>4. ASSUME NEW e \in T PROVE d <= e
    <2>1. e \in Nat /\ d \in Nat
      OBVIOUS
    <2>2. ~(e < d)
      BY <1>2, <1>3, <2>1, Zenon
    <2>3. QED BY <2>1, <2>2
  <1>5. QED BY <1>4

LEMMA MinIs ==
    ASSUME NEW S \in SUBSET Nat, S # {}
    PROVE  Min(S) \in S /\ \A j \in S : Min(S) <= j
  BY LeastNatural DEF Min

LEMMA MaxIs ==
    ASSUME NEW a \in Int, NEW b \in Int
    PROVE  Max({a, b}) \in {a, b} /\ Max({a, b}) >= a /\ Max({a, b}) >= b
  <1>1. \E x \in {a, b} : \A y \in {a, b} : x >= y
    OBVIOUS
  <1> QED
    BY <1>1 DEF Max

LEMMA RangeIsFinite ==
    ASSUME NEW list \in Seq(Elements)
    PROVE  IsFiniteSet(Range(list)) /\ \A S : IsFiniteSet(Range(list) \ S) /\ Cardinality(Range(list) \ S) \in Nat
  <1>1. IsFiniteSet(1 .. Len(list))
    BY FS_Interval
  <1>2. Range(list) = {list[i] : i \in 1 .. Len(list)}
    BY DEF Range
  <1> DEFINE f == [i \in 1 .. Len(list) |-> list[i]]
  <1>3. IsFiniteSet(Range(list))
    <2>1. f \in Surjection(1 .. Len(list), Range(list))
      BY <1>2 DEF Surjection
    <2>2. QED BY <1>1, <2>1, FS_Surjection
  <1>4. \A S : IsFiniteSet(Range(list) \ S)
    BY <1>3, FS_Subset
  <1> QED
    BY <1>3, <1>4, FS_CardinalityType

(* What Drop() does. *)
LEMMA Dropped ==
    ASSUME NEW t, Consistent(t), NEW n \in 0 .. Len(t.changes), \A i \in 1 .. n : t.changes[i] \in Docs
    PROVE  /\ Follows(t, Drop(t, n), {}) /\ Drop(t, n).called = t.called
           /\ Len(Drop(t, n).changes) = Len(t.changes) - n
           /\ n < Len(t.changes) => Head(Drop(t, n).changes) = t.changes[n + 1]
  <1> DEFINE list == t.changes  new == SubSeq(list, n + 1, Len(list))  docs == Range(SubSeq(list, 1, n))  u == Drop(t, n)
             Entry(d) == IF d \in docs /\ t.entry[d].observers = {} THEN NoEntry ELSE t.entry[d]
             kept == {d \in docs : t.entry[d].observers # {}}
  <1>1. t \in Trackers /\ IsList(list) /\ EntriesMatch(t) /\ CalledBack(t)
    BY DEF Consistent
  <1>2. /\ IsList(new) /\ Len(new) = Len(list) - n /\ Range(new) = Range(list) \ docs
        /\ docs = {list[i] : i \in 1 .. n}
        /\ n < Len(list) => Head(new) = list[n + 1]
        /\ \A a, b : Before(new, a, b) <=> Before(list, a, b) /\ a \notin docs
    BY <1>1, Shortened
  <1>3. /\ u.changes = new /\ u.idle = t.idle \cup kept /\ u.entry = [d \in Docs |-> Entry(d)]
        /\ u.last = t.last /\ u.called = t.called
        /\ u = [changes |-> u.changes, idle |-> u.idle, entry |-> u.entry, last |-> u.last, called |-> u.called]
    <2> DEFINE entries == [d \in Docs |-> Entry(d)]
    <2>1. u = [t EXCEPT !.changes = new, !.idle = t.idle \cup kept, !.entry = entries]
      BY DEF Drop
    <2> HIDE DEF new, kept, entries, u, docs
    <2>2. t \in Trackers
      BY <1>1
    <2>3. QED BY <2>1, <2>2 DEF Trackers, entries
  <1> HIDE DEF u, new
  <1>4. docs \subseteq Docs /\ docs \subseteq Range(list)
    <2>1. 1 .. n \subseteq DOMAIN list
      BY <1>1 DEF IsList
    <2>2. QED BY <1>2, <2>1 DEF Range
  <1> HIDE DEF docs
  <1>5. t.idle \subseteq Docs /\ t.entry \in [Docs -> Entries \cup {NoEntry}] /\ t.last \in Nat /\ t.called \subseteq Notifiers
    BY <1>1 DEF Trackers
  <1>6. u \in Trackers
    <2>1. u.changes \in Seq(Elements)
      BY <1>2, <1>3 DEF IsList
    <2>2. u.idle \subseteq Docs
      BY <1>3, <1>4, <1>5
    <2>3. u.entry \in [Docs -> Entries \cup {NoEntry}]
      BY <1>3, <1>5
    <2>4. QED BY <1>3, <1>5, <2>1, <2>2, <2>3 DEF Trackers
  <1>7. EntriesMatch(u)
    <2>1. ASSUME NEW d \in Docs PROVE u.entry[d] = NoEntry <=> d \notin Range(u.changes) \cup u.idle
      <3>1. u.entry[d] = Entry(d) /\ (t.entry[d] = NoEntry <=> d \notin Range(list) \cup t.idle)
        BY <1>1, <1>3 DEF EntriesMatch
      <3>2. CASE d \in docs
        BY <1>1, <1>2, <1>3, <1>4, <3>1, <3>2 DEF EntriesMatch
      <3>3. CASE d \notin docs
        BY <1>2, <1>3, <3>1, <3>3
      <3>4. QED BY <3>2, <3>3
    <2>2. u.idle \cap Range(u.changes) = {}
      BY <1>1, <1>2, <1>3 DEF EntriesMatch
    <2>3. ASSUME NEW d \in u.idle PROVE u.entry[d].observers # {}
      <3>1. t.entry[d].observers # {} /\ d \in Docs
        BY <1>1, <1>3, <1>4, <1>5 DEF EntriesMatch
      <3>2. u.entry[d] = t.entry[d]
        BY <1>3, <3>1
      <3>3. QED BY <3>1, <3>2
    <2>4. QED BY <2>1, <2>2, <2>3 DEF EntriesMatch
  <1>8. CalledBack(u)
    <2>1. u.called \subseteq Range(u.changes)
      BY <1>1, <1>2, <1>3, <1>4, <1>5, ElementsAssumption DEF CalledBack
    <2>2. QED BY <1>1, <1>2, <1>3, <2>1 DEF CalledBack
  <1>9. ObserversKept(t, u)
    BY <1>3 DEF ObserversKept
  <1>10. Placeholders(u.changes) = Placeholders(t.changes)
    BY <1>2, <1>3, <1>4 DEF Placeholders
  <1>11. Gains(t, u, {})
    <2>1. ASSUME NEW x \in Placeholders(list), NEW b \in Docs
          PROVE  Before(u.changes, x, b) <=> Before(list, x, b) \/ b \in {}
      <3>1. x \notin docs
        BY <1>4, <2>1 DEF Placeholders
      <3>2. Before(new, x, b) <=> Before(list, x, b) /\ x \notin docs
        BY <1>2
      <3>3. QED BY <1>3, <3>1, <3>2
    <2>2. QED BY <2>1 DEF Gains
  <1>12. Follows(t, u, {})
    BY <1>2, <1>3, <1>6, <1>7, <1>8, <1>9, <1>10, <1>11 DEF Follows, Consistent
  <1> QED
    BY <1>2, <1>3, <1>12 DEF u

(* removeObsoleteEntries() changes nothing for observers, and leaves a     *)
(* list with no more than what somebody has not read, and the last few.    *)
LEMMA ObsoleteRemoved ==
    ASSUME NEW t, Consistent(t)
    PROVE  LET u == RemoveObsoleteEntries(t)
           IN  Follows(t, u, {}) /\ u.called = t.called /\ Trimmed(u.changes)
  <1> DEFINE list == t.changes  m == Len(list)
             size == Cardinality(Placeholders(list))  keep == MinChangesToKeep + size
             ends == {m + 1} \cup {i \in DOMAIN list : list[i] \notin Docs}
             first == Min(ends)  extra == Max({0, m - keep})  n == Min({first - 1, extra})
             u == RemoveObsoleteEntries(t)
  <1>0. IsList(list) /\ list \in Seq(Elements) /\ m \in Nat /\ DOMAIN list = 1 .. m
    BY DEF Consistent, IsList
  <1>1. CASE InTransaction(list)
    <2>1. u = t
      BY <1>1 DEF RemoveObsoleteEntries
    <2>2. QED BY <1>1, <2>1, FollowsItself DEF Trimmed
  <1>2. CASE ~InTransaction(list)
    <2>1. u = Drop(t, n)
      BY <1>2 DEF RemoveObsoleteEntries
    <2>2. size \in Nat
      BY <1>0, RangeIsFinite DEF Placeholders
    <2> HIDE DEF size
    <2>3. keep \in Nat /\ m - keep \in Int
      BY <1>0, <2>2, KeepAssumption
    <2> HIDE DEF keep
    <2>4. ends \subseteq Nat /\ ends # {} /\ ends \subseteq 1 .. m + 1
      BY <1>0
    <2>5. first \in ends /\ \A j \in ends : first <= j
      BY <2>4, MinIs
    <2> HIDE DEF first
    <2>6. first \in 1 .. m + 1 /\ (\A i \in 1 .. first - 1 : list[i] \in Docs) /\ (first # m + 1 => list[first] \notin Docs)
      <3>1. first \in 1 .. m + 1
        BY <2>4, <2>5
      <3>2. ASSUME NEW i \in 1 .. first - 1 PROVE list[i] \in Docs
        <4>1. i \notin ends /\ i \in DOMAIN list
          BY <1>0, <2>5, <3>1
        <4>2. QED BY <4>1
      <3>3. QED BY <2>5, <3>1, <3>2
    <2> HIDE DEF ends
    <2>7. extra \in {0, m - keep} /\ extra >= 0 /\ extra >= m - keep
      <3> DEFINE most == m - keep
      <3> HIDE DEF most
      <3>1. most \in Int /\ 0 \in Int
        BY <2>3 DEF most
      <3>2. Max({0, most}) \in {0, most} /\ Max({0, most}) >= 0 /\ Max({0, most}) >= most
        BY <3>1, MaxIs
      <3>3. QED BY <3>2 DEF most
    <2> HIDE DEF extra
    <2>8. extra \in Nat /\ first - 1 \in Nat
      BY <2>3, <2>6, <2>7
    <2>9. n \in {first - 1, extra} /\ n <= first - 1
      BY <2>8, MinIs
    <2> HIDE DEF n
    <2>10. n \in 0 .. m /\ \A i \in 1 .. n : list[i] \in Docs
      BY <1>0, <2>6, <2>8, <2>9
    <2>11. /\ Follows(t, u, {}) /\ u.called = t.called
           /\ Len(u.changes) = m - n /\ (n < m => Head(u.changes) = list[n + 1])
      BY <2>1, <2>10, Dropped
    <2> HIDE DEF u
    <2>12. Trimmed(u.changes)
      <3>1. u.changes \in Seq(Elements)
        BY <2>11 DEF Follows, Consistent, IsList
      <3>2. CASE n = extra
        <4>1. m - n <= keep
          BY <1>0, <2>3, <2>7, <2>8, <3>2
        <4>2. Placeholders(u.changes) = Placeholders(list)
          BY <2>11 DEF Follows
        <4>3. QED BY <2>11, <4>1, <4>2 DEF Trimmed, keep, size
      <3>3. CASE n = first - 1 /\ first = m + 1
        <4>1. Len(u.changes) = 0
          BY <1>0, <2>11, <3>3
        <4>2. u.changes = << >>
          BY <3>1, <4>1
        <4>3. QED BY <4>2 DEF Trimmed
      <3>4. CASE n = first - 1 /\ first # m + 1
        <4>1. n < m /\ n + 1 = first
          BY <1>0, <2>6, <3>4
        <4>2. Head(u.changes) \notin Docs
          BY <2>6, <2>11, <3>4, <4>1
        <4>3. QED BY <4>2 DEF Trimmed
      <3>5. QED BY <2>9, <3>2, <3>3, <3>4
    <2>13. QED BY <2>11, <2>12 DEF u
  <1> QED
    BY <1>1, <1>2

(* Who is up to date: those after whom there are no documents. *)
LEMMA UpToDateIs ==
    ASSUME NEW list, IsList(list)
    PROVE  /\ UpToDate(list) \subseteq Range(list)
           /\ \A n \in Range(list) \ Docs : (\A b \in Docs : ~Before(list, n, b)) => n \in UpToDate(list)
  <1>1. list \in Seq(Elements) /\ DOMAIN list = 1 .. Len(list)
    BY DEF IsList
  <1>2. UpToDate(list) \subseteq Range(list)
    BY DEF UpToDate, Range
  <1>3. ASSUME NEW n \in Range(list) \ Docs, \A b \in Docs : ~Before(list, n, b) PROVE n \in UpToDate(list)
    <2>1. PICK i \in 1 .. Len(list) : list[i] = n
      BY <1>1 DEF Range
    <2>2. ASSUME NEW j \in i .. Len(list), list[j] \in Docs PROVE FALSE
      <3>1. j # i /\ i < j /\ j \in DOMAIN list /\ i \in DOMAIN list
        BY <1>1, <2>1, <2>2
      <3>2. Before(list, n, list[j])
        BY <2>1, <3>1 DEF Before
      <3>3. QED BY <1>3, <2>2, <3>2
    <2>3. i \in {k \in DOMAIN list : \A j \in k .. Len(list) : list[j] \notin Docs}
      BY <1>1, <2>2
    <2>4. QED BY <2>1, <2>3 DEF UpToDate
  <1> QED
    BY <1>2, <1>3

(* _documentChanged(): the document is what every observer has to read     *)
(* now, and those who had nothing to read are called.                      *)
LEMMA OneChanged ==
    ASSUME NEW t, Consistent(t), NEW d \in Docs, NEW rev \in Nat, NEW sequence \in Nat
    PROVE  Follows(t, DocumentChanged(t, d, rev, sequence), {d})
  <1> DEFINE list == t.changes
             old == IF t.entry[d] # NoEntry THEN t.entry[d] ELSE [committed |-> 0, observers |-> {}]
             listChanged == list = << >> \/ Last(list) # d
             others == Without(list, d)
             notified == IF listChanged THEN UpToDate(others) ELSE {}
             new == Append(others, d)
             it == [sequence  |-> sequence, rev |-> rev,
                    committed |-> IF InTransaction(list) THEN old.committed ELSE sequence,
                    external  |-> ~InTransaction(list),
                    observers |-> old.observers]
             u == [t EXCEPT !.changes = new, !.idle = @ \ {d}, !.entry[d] = it, !.called = @ \cup (notified \cap Notifiers)]
  <1>1. t \in Trackers /\ IsList(list) /\ EntriesMatch(t) /\ CalledBack(t)
    BY DEF Consistent
  <1>2. /\ IsList(others) /\ Range(others) = Range(list) \ {d}
        /\ \A a, b : Before(others, a, b) <=> Before(list, a, b) /\ a # d /\ b # d
    BY <1>1, Removed
  <1>3. /\ IsList(new) /\ Range(new) = Range(others) \cup {d}
        /\ \A a, b : Before(new, a, b) <=> Before(others, a, b) \/ (a \in Range(others) /\ b = d)
    <2>1. d \in Elements \ Range(others)
      BY <1>2 DEF Elements
    <2> HIDE DEF others
    <2>2. QED BY <1>2, <2>1, Appended
  <1>4. /\ t.idle \subseteq Docs /\ t.entry \in [Docs -> Entries \cup {NoEntry}] /\ t.last \in Nat
        /\ t.called \subseteq Notifiers
    BY <1>1 DEF Trackers
  <1>5. it \in Entries /\ (t.entry[d] # NoEntry => it.observers = t.entry[d].observers)
    <2>1. t.entry[d] # NoEntry => t.entry[d] \in Entries
      BY <1>4
    <2>2. old.committed \in Nat /\ old.observers \subseteq DocNotifiers
      BY <2>1 DEF Entries
    <2>3. t.entry[d] # NoEntry => old.observers = t.entry[d].observers
      OBVIOUS
    <2> HIDE DEF old
    <2>4. InTransaction(list) \in BOOLEAN
      BY DEF InTransaction
    <2>5. QED BY <2>2, <2>3, <2>4 DEF Entries
  <1>6. /\ UpToDate(others) \subseteq Range(others)
        /\ \A n \in Range(others) \ Docs : (\A b \in Docs : ~Before(others, n, b)) => n \in UpToDate(others)
    BY <1>2, UpToDateIs
  <1>7. notified \subseteq Range(others)
    BY <1>6
  <1>8. DocumentChanged(t, d, rev, sequence) = IF notified = {} THEN u ELSE RemoveObsoleteEntries(u)
    BY DEF DocumentChanged, Notified
  <1>9. ASSUME NEW n \in Notifiers, n \in Range(list), n \notin t.called PROVE n \in notified
    <2>1. \A b \in Docs : ~Before(list, n, b)
      BY <1>1, <1>9 DEF CalledBack
    <2>2. listChanged
      <3>1. ASSUME list # << >>, Last(list) = d PROVE FALSE
        <4>1. Len(list) \in 1 .. Len(list) /\ DOMAIN list = 1 .. Len(list) /\ list[Len(list)] = d
          BY <1>1, <3>1 DEF Last, IsList
        <4>2. PICK i \in 1 .. Len(list) : list[i] = n
          BY <1>9, <4>1 DEF Range
        <4>3. i # Len(list)
          BY <4>1, <4>2, ElementsAssumption
        <4>4. Before(list, n, d)
          BY <4>1, <4>2, <4>3 DEF Before
        <4>5. QED BY <2>1, <4>4
      <3>2. QED BY <3>1
    <2>3. n \in Range(others) \ Docs /\ \A b \in Docs : ~Before(others, n, b)
      BY <1>2, <1>9, <2>1, ElementsAssumption
    <2>4. QED BY <1>6, <2>2, <2>3
  <1>10. /\ u.changes = new /\ u.idle = t.idle \ {d} /\ u.entry = [t.entry EXCEPT ![d] = it]
         /\ u.last = t.last /\ u.called = t.called \cup (notified \cap Notifiers)
         /\ u = [changes |-> u.changes, idle |-> u.idle, entry |-> u.entry, last |-> u.last, called |-> u.called]
    <2> DEFINE entries == [t.entry EXCEPT ![d] = it]  callees == t.called \cup (notified \cap Notifiers)
    <2> HIDE DEF notified, new, it
    <2>1. u = [t EXCEPT !.changes = new, !.idle = t.idle \ {d}, !.entry = entries, !.called = callees]
      OBVIOUS
    <2>2. t \in Trackers
      BY <1>1
    <2> HIDE DEF u, entries, callees
    <2>3. /\ u.changes = new /\ u.idle = t.idle \ {d} /\ u.entry = entries /\ u.last = t.last /\ u.called = callees
          /\ u = [changes |-> u.changes, idle |-> u.idle, entry |-> u.entry, last |-> u.last, called |-> u.called]
      BY <2>1, <2>2 DEF Trackers
    <2>4. QED BY <2>3 DEF entries, callees
  <1> HIDE DEF u, notified, new, it, others
  <1>11. u \in Trackers
    <2>1. u.changes \in Seq(Elements)
      BY <1>3, <1>10 DEF IsList
    <2>2. u.entry \in [Docs -> Entries \cup {NoEntry}]
      BY <1>4, <1>5, <1>10
    <2>3. QED BY <1>4, <1>10, <2>1, <2>2 DEF Trackers
  <1>12. EntriesMatch(u)
    <2>1. ASSUME NEW c \in Docs PROVE u.entry[c] = NoEntry <=> c \notin Range(u.changes) \cup u.idle
      <3>1. CASE c = d
        <4>1. u.entry[c] = it /\ it # NoEntry
          BY <1>4, <1>5, <1>10, <3>1, ElementsAssumption
        <4>2. QED BY <1>3, <1>10, <3>1, <4>1
      <3>2. CASE c # d
        <4>1. u.entry[c] = t.entry[c]
          BY <1>4, <1>10, <3>2
        <4>2. c \in Range(u.changes) \cup u.idle <=> c \in Range(list) \cup t.idle
          BY <1>2, <1>3, <1>10, <3>2
        <4>3. QED BY <1>1, <4>1, <4>2 DEF EntriesMatch
      <3>3. QED BY <3>1, <3>2
    <2>2. u.idle \cap Range(u.changes) = {}
      BY <1>1, <1>2, <1>3, <1>10 DEF EntriesMatch
    <2>3. ASSUME NEW c \in u.idle PROVE u.entry[c].observers # {}
      <3>1. c \in t.idle /\ c # d /\ c \in Docs
        BY <1>4, <1>10
      <3>2. u.entry[c] = t.entry[c]
        BY <1>4, <1>10, <3>1
      <3>3. QED BY <1>1, <3>1, <3>2 DEF EntriesMatch
    <2>4. QED BY <2>1, <2>2, <2>3 DEF EntriesMatch
  <1>13. CalledBack(u)
    <2>1. u.called \subseteq Range(u.changes)
      BY <1>1, <1>2, <1>3, <1>4, <1>7, <1>10, ElementsAssumption DEF CalledBack
    <2>2. ASSUME NEW n \in Notifiers, NEW b \in Docs, Before(u.changes, n, b) PROVE n \in u.called
      <3>1. n \in Range(list)
        <4>1. Before(others, n, b) \/ n \in Range(others)
          BY <1>3, <1>10, <2>2
        <4>2. \A a, c : Before(others, a, c) => a \in Range(others)
          BY DEF Before, Range
        <4>3. QED BY <1>2, <4>1, <4>2
      <3>2. QED BY <1>9, <1>10, <3>1
    <2>3. QED BY <2>1, <2>2 DEF CalledBack
  <1>14. ObserversKept(t, u)
    <2>1. ASSUME NEW c \in Docs, t.entry[c] # NoEntry
          PROVE  u.entry[c] # NoEntry /\ u.entry[c].observers = t.entry[c].observers
      <3>1. CASE c = d
        BY <1>4, <1>5, <1>10, <2>1, <3>1, ElementsAssumption
      <3>2. CASE c # d
        BY <1>4, <1>10, <2>1, <3>2
      <3>3. QED BY <3>1, <3>2
    <2>2. QED BY <2>1 DEF ObserversKept
  <1>15. Placeholders(u.changes) = Placeholders(list)
    BY <1>2, <1>3, <1>10 DEF Placeholders
  <1>16. Gains(t, u, {d})
    <2>1. ASSUME NEW n \in Placeholders(list), NEW b \in Docs
          PROVE  Before(u.changes, n, b) <=> Before(list, n, b) \/ b = d
      <3>1. n # d /\ n \in Range(others)
        BY <1>2 DEF Placeholders
      <3>2. Before(u.changes, n, b) <=> Before(others, n, b) \/ b = d
        BY <1>3, <1>10, <3>1
      <3>3. Before(others, n, b) <=> Before(list, n, b) /\ b # d
        BY <1>2, <3>1
      <3>4. QED BY <3>2, <3>3
    <2>2. QED BY <2>1 DEF Gains
  <1>17. Follows(t, u, {d})
    BY <1>3, <1>10, <1>11, <1>12, <1>13, <1>14, <1>15, <1>16 DEF Follows, Consistent
  <1>18. Follows(t, RemoveObsoleteEntries(u), {d})
    <2>1. Follows(u, RemoveObsoleteEntries(u), {})
      BY <1>17, ObsoleteRemoved DEF Follows
    <2>2. Follows(t, RemoveObsoleteEntries(u), {d} \cup {})
      BY <1>17, <2>1, FollowsOn
    <2>3. QED BY <2>2
  <1> QED
    BY <1>8, <1>17, <1>18

(* The loops over several documents.  First, that the recursive definition *)
(* has a value: what is reached after so many steps.                       *)
ChangedAt(u, list, rev, sequence, i) ==
    IF list[i] \notin Docs THEN u ELSE DocumentChanged(u, list[i], rev[list[i]], sequence[list[i]])
Reached(g, t, list, rev, sequence, k) ==
    g = [i \in 0 .. k |-> IF i = 0 THEN t ELSE ChangedAt(g[i - 1], list, rev, sequence, i)]

LEMMA ReachedExists ==
    ASSUME NEW t, NEW list, NEW rev, NEW sequence, NEW m \in Nat
    PROVE  \E g : Reached(g, t, list, rev, sequence, m)
  <1> DEFINE T == {k \in Nat : ~\E g : Reached(g, t, list, rev, sequence, k)}
  <1>1. ASSUME T # {} PROVE FALSE
    <2>1. PICK k \in T : \A j \in T : k <= j
      BY <1>1, LeastNatural
    <2>2. k # 0
      <3> DEFINE g == [i \in 0 .. 0 |-> t]
      <3>1. g = [i \in 0 .. 0 |-> IF i = 0 THEN t ELSE ChangedAt(g[i - 1], list, rev, sequence, i)]
        OBVIOUS
      <3>2. Reached(g, t, list, rev, sequence, 0)
        BY <3>1 DEF Reached
      <3>3. QED BY <2>1, <3>2
    <2>3. k \in Nat /\ k - 1 \in Nat /\ k - 1 \notin T
      BY <2>1, <2>2
    <2>4. PICK g : Reached(g, t, list, rev, sequence, k - 1)
      BY <2>3
    <2> DEFINE last == ChangedAt(g[k - 1], list, rev, sequence, k)
               h == [i \in 0 .. k |-> IF i < k THEN g[i] ELSE last]
               Step(f, i) == IF i = 0 THEN t ELSE ChangedAt(f[i - 1], list, rev, sequence, i)
    <2>5. \A i \in 0 .. k - 1 : g[i] = Step(g, i)
      BY <2>3, <2>4 DEF Reached
    <2>6. \A i \in 0 .. k : h[i] = Step(h, i)
      <3>1. ASSUME NEW i \in 0 .. k PROVE h[i] = Step(h, i)
        <4>1. CASE i = 0
          <5>1. 0 \in 0 .. k /\ 0 < k /\ 0 \in 0 .. k - 1
            BY <2>2, <2>3
          <5>2. QED BY <2>5, <4>1, <5>1
        <4>2. CASE i # 0 /\ i < k
          <5>1. i - 1 \in 0 .. k /\ i - 1 < k /\ i \in 0 .. k - 1
            BY <2>3, <4>2
          <5>2. h[i] = g[i] /\ h[i - 1] = g[i - 1]
            BY <4>2, <5>1
          <5>3. g[i] = Step(g, i)
            BY <2>5, <5>1
          <5>4. QED BY <4>2, <5>2, <5>3
        <4>3. CASE i = k
          <5>1. k - 1 \in 0 .. k /\ k - 1 < k /\ ~(k < k) /\ k \in 0 .. k
            BY <2>2, <2>3
          <5>2. h[k] = last /\ h[k - 1] = g[k - 1]
            BY <5>1
          <5>3. QED BY <2>2, <4>3, <5>2
        <4>4. QED BY <2>3, <4>1, <4>2, <4>3
      <3>2. QED BY <3>1
    <2>7. h = [i \in 0 .. k |-> h[i]]
      OBVIOUS
    <2> HIDE DEF h
    <2>8. h = [i \in 0 .. k |-> Step(h, i)]
      BY <2>6, <2>7
    <2>9. Reached(h, t, list, rev, sequence, k)
      BY <2>8 DEF Reached
    <2>10. QED BY <2>1, <2>9
  <1> QED
    BY <1>1

LEMMA SeveralChanged ==
    ASSUME NEW t, Consistent(t), NEW list, list \in Seq(Elements), NEW rev, NEW sequence,
           \A d \in Range(list) \cap Docs : rev[d] \in Nat /\ sequence[d] \in Nat
    PROVE  Follows(t, DocumentsChanged(t, list, rev, sequence), Range(list) \cap Docs)
  <1> DEFINE m == Len(list)
             F == CHOOSE g : Reached(g, t, list, rev, sequence, m)
             docs(k) == {list[j] : j \in 1 .. k} \cap Docs
             T == {k \in Nat : k <= m /\ ~Follows(t, F[k], docs(k))}
  <1>0. m \in Nat /\ DOMAIN list = 1 .. m
    OBVIOUS
  <1>1. Reached(F, t, list, rev, sequence, m)
    BY <1>0, ReachedExists
  <1>2. DocumentsChanged(t, list, rev, sequence) = F[m]
    BY DEF DocumentsChanged, Reached, ChangedAt
  <1> HIDE DEF F
  <1>3. F[0] = t /\ \A i \in 1 .. m : F[i] = ChangedAt(F[i - 1], list, rev, sequence, i)
    BY <1>0, <1>1 DEF Reached
  <1>4. ASSUME T # {} PROVE FALSE
    <2>1. PICK k \in T : \A j \in T : k <= j
      BY <1>4, LeastNatural
    <2>2. k # 0
      <3>1. docs(0) = {}
        OBVIOUS
      <3>2. Follows(t, F[0], docs(0))
        BY <1>3, <3>1, FollowsItself
      <3>3. QED BY <2>1, <3>2
    <2>3. k \in 1 .. m /\ k - 1 \in Nat /\ k - 1 <= m
      <3>1. k \in Nat /\ k <= m
        BY <2>1
      <3>2. QED BY <1>0, <2>2, <3>1
    <2>31. k - 1 \notin T
      <3> HIDE DEF T
      <3>1. QED BY <2>1, <2>3
    <2>4. Follows(t, F[k - 1], docs(k - 1))
      <3> HIDE DEF docs
      <3>1. QED BY <2>3, <2>31
    <2>5. F[k] = ChangedAt(F[k - 1], list, rev, sequence, k)
      BY <1>3, <2>3
    <2>6. CASE list[k] \notin Docs
      <3>1. docs(k) = docs(k - 1)
        BY <2>3, <2>6
      <3>2. F[k] = F[k - 1]
        BY <2>5, <2>6 DEF ChangedAt
      <3> HIDE DEF docs
      <3>3. Follows(t, F[k], docs(k))
        BY <2>4, <3>1, <3>2
      <3>4. QED BY <2>1, <3>3
    <2>7. CASE list[k] \in Docs
      <3>1. docs(k) = docs(k - 1) \cup {list[k]}
        BY <2>3, <2>7
      <3>2. list[k] \in Range(list) \cap Docs
        BY <1>0, <2>3, <2>7 DEF Range
      <3>3. F[k] = DocumentChanged(F[k - 1], list[k], rev[list[k]], sequence[list[k]])
        BY <2>5, <2>7 DEF ChangedAt
      <3> HIDE DEF docs
      <3>4. Consistent(F[k - 1])
        BY <2>4 DEF Follows
      <3>5. Follows(F[k - 1], F[k], {list[k]})
        BY <2>7, <3>2, <3>3, <3>4, OneChanged
      <3>6. Follows(t, F[k], docs(k - 1) \cup {list[k]})
        BY <2>4, <3>5, FollowsOn
      <3>7. QED BY <2>1, <3>1, <3>6
    <2>8. QED BY <2>6, <2>7
  <1>5. Follows(t, F[m], docs(m))
    <2>1. m \notin T
      <3> HIDE DEF T
      <3>1. QED BY <1>4
    <2> HIDE DEF docs
    <2>2. m <= m
      BY <1>0
    <2> HIDE DEF m
    <2>3. QED BY <1>0, <2>1, <2>2
  <1>6. docs(m) = Range(list) \cap Docs
    BY <1>0 DEF Range
  <1> QED
    BY <1>2, <1>5, <1>6

-----------------------------------------------------------------------------
(* The inductive invariant: the tracker is consistent, and trimmed; those  *)
(* who watch a document have their entry; and while a transaction is open, *)
(* what it has changed in the database comes after its placeholder, so     *)
(* that an abort finds it.                                                 *)
Databases == [last : Nat, doc : [Docs -> Nat]]
Agrees(list, pre, now, committed) ==
    /\ ~InTransaction(list) => now = committed
    /\ InTransaction(list) =>
          /\ pre <= committed.last
          /\ \A d \in Docs : now.doc[d] # committed.doc[d] => Before(list, Transaction, d)
IInv ==
    /\ Consistent(Tracker) /\ Trimmed(changes)
    /\ watched \in [DocNotifiers -> Docs \cup {None}] /\ WatchersHaveEntries
    /\ preTransactionLastSequence \in Nat /\ db \in Databases /\ committedDB \in Databases
    /\ lastSequence <= db.last
    /\ Agrees(changes, preTransactionLastSequence, db, committedDB)

LEMMA TrackerIs ==
    /\ Tracker.changes = changes /\ Tracker.idle = idle /\ Tracker.entry = entry /\ Tracker.last = lastSequence
    /\ Tracker.called = called
  BY DEF Tracker

(* The tracker becomes a value. *)
LEMMA BecomesIs ==
    ASSUME NEW u, Becomes(u), u \in Trackers
    PROVE  /\ Tracker' = u /\ changes' = u.changes /\ idle' = u.idle /\ entry' = u.entry
           /\ lastSequence' = u.last /\ called' = u.called
  BY DEF Becomes, Tracker, Trackers

(* The observers of documents are still watching. *)
LEMMA StillWatched ==
    ASSUME IInv, NEW u, ObserversKept(Tracker, u), entry' = u.entry, UNCHANGED watched
    PROVE  WatchersHaveEntries'
  <1>1. ASSUME NEW w \in DocNotifiers, watched[w] # None
        PROVE  entry'[watched[w]] # NoEntry /\ w \in entry'[watched[w]].observers
    <2>1. watched[w] \in Docs /\ entry[watched[w]] # NoEntry /\ w \in entry[watched[w]].observers
      BY <1>1 DEF IInv, WatchersHaveEntries
    <2>2. entry[watched[w]].observers # {}
      BY <2>1
    <2>3. u.entry[watched[w]] # NoEntry /\ u.entry[watched[w]].observers = entry[watched[w]].observers
      BY <2>1, <2>2, TrackerIs DEF ObserversKept
    <2>4. QED BY <2>1, <2>3
  <1> QED
    BY <1>1 DEF WatchersHaveEntries

(* Only the list of changes, and who has been called, is new. *)
AllCalled(list, callees) ==
    /\ callees \subseteq Notifiers /\ callees \subseteq Range(list)
    /\ \A n \in Notifiers, d \in Docs : Before(list, n, d) => n \in callees
SameDocs(list, new) == \A d \in Docs : d \in Range(new) <=> d \in Range(list)
WithList(t, new, callees) == [t EXCEPT !.changes = new, !.called = callees]
LEMMA Relisted ==
    ASSUME NEW t, Consistent(t), NEW new, NEW callees, IsList(new), SameDocs(t.changes, new), AllCalled(new, callees)
    PROVE  LET u == WithList(t, new, callees)
           IN  /\ Consistent(u) /\ ObserversKept(t, u)
               /\ u.changes = new /\ u.called = callees /\ u.last = t.last /\ u.entry = t.entry /\ u.idle = t.idle
  <1> DEFINE u == WithList(t, new, callees)
  <1>1. t \in Trackers /\ EntriesMatch(t)
    BY DEF Consistent
  <1>2. new \in Seq(Elements)
    BY DEF IsList
  <1>21. callees \subseteq Notifiers
    BY DEF AllCalled
  <1>3. /\ u \in Trackers /\ u.changes = new /\ u.called = callees /\ u.last = t.last /\ u.entry = t.entry
        /\ u.idle = t.idle
    BY <1>1, <1>2, <1>21 DEF Trackers, WithList
  <1> HIDE DEF u
  <1>4. t.idle \subseteq Docs
    BY <1>1 DEF Trackers
  <1>5. EntriesMatch(u)
    <2>1. \A d \in Docs : d \in Range(new) <=> d \in Range(t.changes)
      BY DEF SameDocs
    <2>2. QED BY <1>1, <1>3, <1>4, <2>1 DEF EntriesMatch
  <1>6. CalledBack(u)
    BY <1>3 DEF CalledBack, AllCalled
  <1>7. ObserversKept(t, u)
    BY <1>3 DEF ObserversKept
  <1> QED
    BY <1>3, <1>5, <1>6, <1>7 DEF Consistent, u

LEMMA WithLast ==
    ASSUME NEW t, Consistent(t), NEW n \in Nat
    PROVE  LET u == [t EXCEPT !.last = n]
           IN  /\ Consistent(u) /\ ObserversKept(t, u)
               /\ u.changes = t.changes /\ u.called = t.called /\ u.last = n /\ u.entry = t.entry /\ u.idle = t.idle
  <1> DEFINE u == [t EXCEPT !.last = n]
  <1>1. t \in Trackers
    BY DEF Consistent
  <1>2. /\ u \in Trackers /\ u.changes = t.changes /\ u.called = t.called /\ u.last = n /\ u.entry = t.entry
        /\ u.idle = t.idle
    BY <1>1 DEF Trackers
  <1> HIDE DEF u
  <1>3. EntriesMatch(u) /\ CalledBack(u) /\ ObserversKept(t, u) /\ IsList(u.changes)
    BY <1>2 DEF Consistent, EntriesMatch, CalledBack, ObserversKept
  <1> QED
    BY <1>2, <1>3 DEF Consistent, u

LEMMA KeptOn ==
    ASSUME NEW t, NEW u, NEW v, ObserversKept(t, u), ObserversKept(u, v)
    PROVE  ObserversKept(t, v)
  BY DEF ObserversKept

-----------------------------------------------------------------------------
(* What the abstract specification says of a step, for the lists before    *)
(* and after it.                                                           *)
UnreadIn(list, n) == IF n \in Range(list) THEN {d \in Docs : Before(list, n, d)} ELSE {}
ObserversIn(list) == Notifiers \cap Range(list)

(* Nothing changes for observers. *)
Unnoticed(list, new, callees, callees2) ==
    /\ ObserversIn(new) = ObserversIn(list) /\ callees2 = callees
    /\ \A n \in Notifiers : UnreadIn(new, n) = UnreadIn(list, n)
(* They all have docs to read. *)
Noticed(list, new, callees, callees2, docs) ==
    /\ ObserversIn(new) = ObserversIn(list) /\ docs \subseteq Docs
    /\ callees \subseteq callees2 /\ callees2 \subseteq ObserversIn(list)
    /\ docs # {} => ObserversIn(list) \subseteq callees2
    /\ docs = {} => callees2 = callees
    /\ \A n \in Notifiers :
          UnreadIn(new, n) = IF n \in ObserversIn(list) THEN UnreadIn(list, n) \cup docs ELSE UnreadIn(list, n)

LEMMA FollowsIsNoticed ==
    ASSUME NEW t, NEW u, NEW docs, Consistent(t), Follows(t, u, docs), docs \subseteq Docs
    PROVE  Noticed(t.changes, u.changes, t.called, u.called, docs)
  <1>1. Placeholders(u.changes) = Placeholders(t.changes) /\ Consistent(u) /\ t.called \subseteq u.called
    BY DEF Follows
  <1>2. \A n \in Notifiers : n \in Range(u.changes) <=> n \in Range(t.changes)
    BY <1>1, ElementsAssumption DEF Placeholders
  <1>3. ObserversIn(u.changes) = ObserversIn(t.changes)
    BY <1>2 DEF ObserversIn
  <1>4. u.called \subseteq Range(u.changes) /\ u.called \subseteq Notifiers
        /\ \A n \in Notifiers, d \in Docs : Before(u.changes, n, d) => n \in u.called
    BY <1>1 DEF Consistent, CalledBack, Trackers
  <1>5. ASSUME NEW n \in ObserversIn(t.changes)
        PROVE  UnreadIn(u.changes, n) = UnreadIn(t.changes, n) \cup docs
    <2>1. n \in Placeholders(t.changes) /\ n \in Range(t.changes) /\ n \in Range(u.changes) /\ n \in Notifiers
      BY <1>2, ElementsAssumption DEF ObserversIn, Placeholders
    <2>2. \A b \in Docs : Before(u.changes, n, b) <=> Before(t.changes, n, b) \/ b \in docs
      BY <2>1 DEF Follows, Gains
    <2>3. QED BY <2>1, <2>2 DEF UnreadIn
  <1>6. ASSUME NEW n \in Notifiers, n \notin ObserversIn(t.changes)
        PROVE  UnreadIn(u.changes, n) = UnreadIn(t.changes, n)
    BY <1>2, <1>6 DEF UnreadIn, ObserversIn
  <1>7. ASSUME docs # {} PROVE ObserversIn(t.changes) \subseteq u.called
    <2>1. PICK d \in docs : TRUE
      BY <1>7
    <2>2. ASSUME NEW n \in ObserversIn(t.changes) PROVE n \in u.called
      <3>1. d \in UnreadIn(u.changes, n) /\ n \in Notifiers
        BY <1>5 DEF ObserversIn
      <3>2. Before(u.changes, n, d) /\ d \in Docs
        BY <3>1 DEF UnreadIn
      <3>3. QED BY <1>4, <3>1, <3>2
    <2>3. QED BY <2>2
  <1> QED
    <2>1. docs = {} => u.called = t.called
      BY DEF Follows
    <2>2. u.called \subseteq ObserversIn(t.changes)
      BY <1>3, <1>4 DEF ObserversIn
    <2>3. \A n \in Notifiers : UnreadIn(u.changes, n) =
            IF n \in ObserversIn(t.changes) THEN UnreadIn(t.changes, n) \cup docs ELSE UnreadIn(t.changes, n)
      BY <1>5, <1>6
    <2>4. QED BY <1>1, <1>3, <1>7, <2>1, <2>2, <2>3 DEF Noticed

LEMMA Concludes ==
    ASSUME IInv, NEW u, Consistent(u), Becomes(u), ObserversKept(Tracker, u), UNCHANGED watched, Trimmed(u.changes),
           preTransactionLastSequence' \in Nat, db' \in Databases, committedDB' \in Databases, u.last <= db'.last,
           Agrees(u.changes, preTransactionLastSequence', db', committedDB')
    PROVE  IInv' /\ changes' = u.changes /\ called' = u.called
  <1>1. /\ Tracker' = u /\ changes' = u.changes /\ entry' = u.entry /\ lastSequence' = u.last /\ called' = u.called
    BY BecomesIs DEF Consistent
  <1>2. WatchersHaveEntries'
    BY <1>1, StillWatched
  <1>3. watched' \in [DocNotifiers -> Docs \cup {None}]
    BY DEF IInv
  <1> QED
    BY <1>1, <1>2, <1>3 DEF IInv

(* Those whose elements are not documents do not come before anything new. *)
LEMMA PlaceholderAppended ==
    ASSUME IInv, NEW x \in Notifiers \cup {Transaction}, x \notin Range(changes)
    PROVE  LET new == Append(changes, x)  u == WithList(Tracker, new, called)
           IN  /\ Consistent(u) /\ ObserversKept(Tracker, u) /\ u.last = lastSequence
               /\ u.changes = new /\ u.called = called /\ u.idle = idle /\ u.entry = entry
               /\ IsList(new) /\ Range(new) = Range(changes) \cup {x} /\ Len(new) = Len(changes) + 1
               /\ \A n, d : d \in Docs => (Before(new, n, d) <=> Before(changes, n, d))
  <1> DEFINE new == Append(changes, x)
  <1>1. /\ Consistent(Tracker) /\ IsList(changes) /\ called \subseteq Notifiers /\ called \subseteq Range(changes)
        /\ \A n \in Notifiers, d \in Docs : Before(changes, n, d) => n \in called
    <2>1. Consistent(Tracker) /\ IsList(Tracker.changes) /\ CalledBack(Tracker) /\ Tracker \in Trackers
      BY DEF IInv, Consistent
    <2>2. Tracker.called \subseteq Notifiers
      BY <2>1 DEF Trackers
    <2>3. QED BY <2>1, <2>2, TrackerIs DEF CalledBack
  <1>2. x \in Elements \ Range(changes) /\ x \notin Docs
    BY ElementsAssumption DEF Elements
  <1>3. /\ IsList(new) /\ Range(new) = Range(changes) \cup {x} /\ Len(new) = Len(changes) + 1
        /\ \A a, b : Before(new, a, b) <=> Before(changes, a, b) \/ (a \in Range(changes) /\ b = x)
    BY <1>1, <1>2, Appended
  <1> HIDE DEF new
  <1>4. \A n, d : d \in Docs => (Before(new, n, d) <=> Before(changes, n, d))
    BY <1>2, <1>3
  <1>5. SameDocs(Tracker.changes, new)
    BY <1>2, <1>3, TrackerIs DEF SameDocs
  <1>6. AllCalled(new, called)
    BY <1>1, <1>3, <1>4 DEF AllCalled
  <1>7. LET u == WithList(Tracker, new, called)
        IN  /\ Consistent(u) /\ ObserversKept(Tracker, u)
            /\ u.changes = new /\ u.called = called /\ u.last = Tracker.last /\ u.entry = Tracker.entry
            /\ u.idle = Tracker.idle
    BY <1>1, <1>3, <1>5, <1>6, Relisted
  <1> QED
    BY <1>3, <1>4, <1>7, TrackerIs DEF new

LEMMA SameBefore ==
    ASSUME NEW list, NEW new, \A n \in Notifiers : n \in Range(new) <=> n \in Range(list),
           \A n \in Notifiers, d \in Docs : Before(new, n, d) <=> Before(list, n, d), NEW callees
    PROVE  Unnoticed(list, new, callees, callees)
  BY DEF Unnoticed, ObserversIn, UnreadIn

LEMMA BeginStep ==
    ASSUME IInv, BeginTransaction
    PROVE  IInv' /\ Unnoticed(changes, changes', called, called') /\ db' = db
  <1> DEFINE new == Append(changes, Transaction)  u == WithList(Tracker, new, called)
  <1>1. Transaction \notin Range(changes) /\ UNCHANGED <<idle, entry, lastSequence, called, watched, db, committedDB>>
        /\ changes' = new /\ preTransactionLastSequence' = lastSequence
    BY DEF BeginTransaction, InTransaction
  <1>2. /\ Consistent(u) /\ ObserversKept(Tracker, u) /\ u.last = lastSequence
        /\ u.changes = new /\ u.called = called /\ u.idle = idle /\ u.entry = entry
        /\ IsList(new) /\ Range(new) = Range(changes) \cup {Transaction}
        /\ \A n, d : d \in Docs => (Before(new, n, d) <=> Before(changes, n, d))
    BY <1>1, PlaceholderAppended
  <1> HIDE DEF new, u
  <1>3. Becomes(u)
    BY <1>1, <1>2 DEF Becomes
  <1>4. InTransaction(new)
    BY <1>2 DEF InTransaction
  <1>5. /\ db' \in Databases /\ committedDB' \in Databases /\ lastSequence <= db'.last /\ lastSequence \in Nat
        /\ db = committedDB
    BY <1>1, TrackerIs DEF IInv, Consistent, Trackers, Agrees, InTransaction
  <1>6. Agrees(new, preTransactionLastSequence', db', committedDB')
    BY <1>1, <1>4, <1>5 DEF Agrees
  <1>7. IInv'
    BY <1>1, <1>2, <1>3, <1>4, <1>5, <1>6, Concludes DEF Trimmed
  <1>8. \A n \in Notifiers : n \in Range(new) <=> n \in Range(changes)
    BY <1>2, ElementsAssumption
  <1>9. Unnoticed(changes, new, called, called)
    BY <1>2, <1>8, SameBefore
  <1> QED
    BY <1>1, <1>7, <1>9

(* A document is saved or purged, in a transaction. *)
LEMMA ChangeStep ==
    ASSUME IInv, NEW d \in Docs, NEW rev \in Nat, NEW sequence \in Nat, NEW last \in Nat, InTransaction(changes),
           Becomes(DocumentChanged([Tracker EXCEPT !.last = last], d, rev, sequence)),
           db' \in Databases, last <= db'.last, \A c \in Docs \ {d} : db'.doc[c] = db.doc[c],
           UNCHANGED <<preTransactionLastSequence, watched, committedDB>>
    PROVE  IInv' /\ Noticed(changes, changes', called, called', {d})
  <1> DEFINE t == [Tracker EXCEPT !.last = last]  u == DocumentChanged(t, d, rev, sequence)
  <1>1. Consistent(Tracker)
    BY DEF IInv
  <1>2. /\ Consistent(t) /\ ObserversKept(Tracker, t) /\ t.changes = changes /\ t.called = called /\ t.last = last
    BY <1>1, WithLast, TrackerIs
  <1> HIDE DEF t
  <1>3. Follows(t, u, {d})
    BY <1>2, OneChanged
  <1>4. Becomes(u)
    BY DEF u, t
  <1> HIDE DEF u
  <1>5. /\ Consistent(u) /\ ObserversKept(t, u) /\ u.last = last /\ Placeholders(u.changes) = Placeholders(changes)
        /\ \A n \in Placeholders(changes), b \in Docs : Before(u.changes, n, b) <=> Before(changes, n, b) \/ b \in {d}
    BY <1>2, <1>3 DEF Follows, Gains
  <1>6. ObserversKept(Tracker, u)
    BY <1>2, <1>5, KeptOn
  <1>7. Transaction \in Placeholders(changes) /\ InTransaction(u.changes)
    <2>1. Transaction \in Placeholders(changes)
      BY ElementsAssumption DEF Placeholders, InTransaction
    <2>2. QED BY <1>5, <2>1 DEF Placeholders, InTransaction
  <1>8. /\ preTransactionLastSequence' \in Nat /\ committedDB' \in Databases
        /\ preTransactionLastSequence' <= committedDB'.last
        /\ \A c \in Docs : db.doc[c] # committedDB'.doc[c] => Before(changes, Transaction, c)
    BY DEF IInv, Agrees
  <1>9. Agrees(u.changes, preTransactionLastSequence', db', committedDB')
    <2>1. ASSUME NEW c \in Docs, db'.doc[c] # committedDB'.doc[c] PROVE Before(u.changes, Transaction, c)
      <3>1. CASE c = d
        BY <1>5, <1>7, <3>1
      <3>2. CASE c # d
        BY <1>5, <1>7, <1>8, <2>1, <3>2
      <3>3. QED BY <3>1, <3>2
    <2>2. QED BY <1>7, <1>8, <2>1 DEF Agrees
  <1>10. IInv' /\ changes' = u.changes /\ called' = u.called
    BY <1>4, <1>5, <1>6, <1>7, <1>8, <1>9, Concludes DEF Trimmed
  <1>11. Noticed(t.changes, u.changes, t.called, u.called, {d})
    BY <1>2, <1>3, FollowsIsNoticed
  <1> QED
    BY <1>2, <1>10, <1>11

LEMMA SaveStep ==
    ASSUME IInv, NEW d \in Docs, SaveDocument(d)
    PROVE  IInv' /\ Noticed(changes, changes', called, called', {d}) /\ \A c \in Docs \ {d} : db'.doc[c] = db.doc[c]
  <1> DEFINE s == db.last + 1
  <1>1. db \in Databases
    BY DEF IInv
  <1>2. s \in Nat /\ db' = [last |-> s, doc |-> [db.doc EXCEPT ![d] = s]]
    BY <1>1 DEF SaveDocument, Databases
  <1>3. /\ InTransaction(changes) /\ Becomes(DocumentChanged([Tracker EXCEPT !.last = s], d, s, s))
        /\ UNCHANGED <<preTransactionLastSequence, watched, committedDB>>
    BY DEF SaveDocument
  <1> HIDE DEF s
  <1>4. db' \in Databases /\ s <= db'.last /\ \A c \in Docs \ {d} : db'.doc[c] = db.doc[c]
    BY <1>1, <1>2 DEF Databases
  <1> QED
    BY <1>2, <1>3, <1>4, ChangeStep

LEMMA PurgeStep ==
    ASSUME IInv, NEW d \in Docs, PurgeDocument(d)
    PROVE  IInv' /\ Noticed(changes, changes', called, called', {d}) /\ \A c \in Docs \ {d} : db'.doc[c] = db.doc[c]
  <1>1. db \in Databases /\ Tracker \in Trackers /\ lastSequence \in Nat /\ lastSequence <= db.last
    BY TrackerIs DEF IInv, Consistent, Trackers
  <1>2. /\ InTransaction(changes) /\ Becomes(DocumentChanged(Tracker, d, 0, 0)) /\ db' = [db EXCEPT !.doc[d] = 0]
        /\ UNCHANGED <<preTransactionLastSequence, watched, committedDB>>
    BY DEF PurgeDocument
  <1>3. Tracker = [Tracker EXCEPT !.last = lastSequence]
    BY <1>1, TrackerIs DEF Trackers
  <1>4. db' \in Databases /\ lastSequence <= db'.last /\ \A c \in Docs \ {d} : db'.doc[c] = db.doc[c]
    BY <1>1, <1>2 DEF Databases
  <1>5. Becomes(DocumentChanged([Tracker EXCEPT !.last = lastSequence], d, 0, 0))
    BY <1>2, <1>3
  <1> QED
    BY <1>1, <1>2, <1>4, <1>5, ChangeStep


-----------------------------------------------------------------------------
(* From t to u nothing changes for observers. *)
SameForObservers(t, u) ==
    /\ Consistent(u) /\ ObserversKept(t, u) /\ u.last = t.last /\ u.called = t.called
    /\ \A n \in Notifiers : n \in Range(u.changes) <=> n \in Range(t.changes)
    /\ \A n \in Notifiers, d \in Docs : Before(u.changes, n, d) <=> Before(t.changes, n, d)

LEMMA FollowsIsSame ==
    ASSUME NEW t, NEW u, Follows(t, u, {})
    PROVE  SameForObservers(t, u) /\ (InTransaction(u.changes) <=> InTransaction(t.changes))
  <1>1. /\ Placeholders(u.changes) = Placeholders(t.changes) /\ Consistent(u) /\ u.called = t.called /\ u.last = t.last
        /\ ObserversKept(t, u)
    BY DEF Follows
  <1>2. /\ \A n \in Notifiers : n \in Range(u.changes) <=> n \in Range(t.changes)
        /\ InTransaction(u.changes) <=> InTransaction(t.changes)
    BY <1>1, ElementsAssumption DEF Placeholders, InTransaction
  <1>3. ASSUME NEW n \in Notifiers, NEW d \in Docs PROVE Before(u.changes, n, d) <=> Before(t.changes, n, d)
    <2>1. CASE n \in Range(t.changes)
      <3>1. n \in Placeholders(t.changes)
        BY <2>1, ElementsAssumption DEF Placeholders
      <3>2. QED BY <3>1 DEF Follows, Gains
    <2>2. CASE n \notin Range(t.changes)
      BY <2>2, <1>2 DEF Before, Range
    <2>3. QED BY <2>1, <2>2
  <1> QED
    BY <1>1, <1>2, <1>3 DEF SameForObservers

(* The end of a transaction: its placeholder goes. *)
LEMMA EndedIs ==
    ASSUME NEW t, Consistent(t)
    PROVE  LET u == Ended(t) IN SameForObservers(t, u) /\ ~InTransaction(u.changes) /\ Trimmed(u.changes)
  <1> DEFINE new == Without(t.changes, Transaction)  w == WithList(t, new, t.called)  u == RemoveObsoleteEntries(w)
  <1>1. t \in Trackers /\ IsList(t.changes) /\ CalledBack(t) /\ t.called \subseteq Notifiers
    BY DEF Consistent, Trackers
  <1>2. /\ IsList(new) /\ Range(new) = Range(t.changes) \ {Transaction}
        /\ \A a, b : Before(new, a, b) <=> Before(t.changes, a, b) /\ a # Transaction /\ b # Transaction
    BY <1>1, Removed
  <1>3. w = [t EXCEPT !.changes = new]
    BY <1>1 DEF Trackers, WithList
  <1>4. u = Ended(t)
    BY <1>3 DEF Ended
  <1> HIDE DEF new
  <1>5. /\ \A n \in Notifiers : n \in Range(new) <=> n \in Range(t.changes)
        /\ \A n \in Notifiers, d \in Docs : Before(new, n, d) <=> Before(t.changes, n, d)
        /\ ~InTransaction(new)
    BY <1>2, ElementsAssumption DEF InTransaction
  <1>6. SameDocs(t.changes, new)
    BY <1>2, ElementsAssumption DEF SameDocs
  <1>7. AllCalled(new, t.called)
    BY <1>1, <1>5 DEF AllCalled, CalledBack
  <1>8. Consistent(w) /\ ObserversKept(t, w) /\ w.changes = new /\ w.called = t.called /\ w.last = t.last
    BY <1>2, <1>6, <1>7, Relisted
  <1> HIDE DEF w
  <1>9. Follows(w, u, {}) /\ Trimmed(u.changes)
    BY <1>8, ObsoleteRemoved
  <1> HIDE DEF u
  <1>10. SameForObservers(w, u) /\ ~InTransaction(u.changes)
    BY <1>5, <1>8, <1>9, FollowsIsSame
  <1>11. ObserversKept(t, u)
    BY <1>8, <1>10, KeptOn DEF SameForObservers
  <1>12. SameForObservers(t, u)
    BY <1>5, <1>8, <1>10, <1>11 DEF SameForObservers
  <1> QED
    BY <1>4, <1>9, <1>10, <1>12

LEMMA SameIsUnnoticed ==
    ASSUME NEW t, NEW u, SameForObservers(t, u)
    PROVE  Unnoticed(t.changes, u.changes, t.called, u.called)
  BY SameBefore DEF SameForObservers

LEMMA IsFunction ==
    ASSUME NEW f, NEW D, NEW R, f = [d \in D |-> f[d]], \A d \in D : f[d] \in R
    PROVE  f \in [D -> R]
  OBVIOUS

(* A commit. *)
LEMMA Committed ==
    ASSUME NEW t, Consistent(t), NEW docs, docs \subseteq Docs, docs \subseteq Range(t.changes), NEW f,
           f = [d \in Docs |-> IF d \in docs THEN [t.entry[d] EXCEPT !.committed = t.entry[d].sequence] ELSE t.entry[d]]
    PROVE  LET u == [t EXCEPT !.entry = f]
           IN  /\ Consistent(u) /\ ObserversKept(t, u)
               /\ u.changes = t.changes /\ u.called = t.called /\ u.last = t.last
  <1> DEFINE u == [t EXCEPT !.entry = f]
  <1>1. t \in Trackers /\ EntriesMatch(t) /\ CalledBack(t) /\ IsList(t.changes)
    BY DEF Consistent
  <1>2. ASSUME NEW d \in Docs
        PROVE  /\ f[d] \in Entries \cup {NoEntry} /\ (f[d] = NoEntry <=> t.entry[d] = NoEntry)
               /\ t.entry[d] # NoEntry => f[d].observers = t.entry[d].observers
    <2>1. CASE d \in docs
      <3>1. t.entry[d] # NoEntry
        BY <1>1, <2>1 DEF EntriesMatch
      <3>2. t.entry[d] \in Entries
        BY <1>1, <3>1 DEF Trackers
      <3>3. f[d] = [t.entry[d] EXCEPT !.committed = t.entry[d].sequence]
        BY <2>1
      <3>4. f[d] \in Entries /\ f[d].observers = t.entry[d].observers
        BY <3>2, <3>3 DEF Entries
      <3>5. QED BY <3>1, <3>4, ElementsAssumption
    <2>2. CASE d \notin docs
      <3>1. f[d] = t.entry[d]
        BY <2>2
      <3>2. QED BY <1>1, <3>1 DEF Trackers
    <2>3. QED BY <2>1, <2>2
  <1>3. f \in [Docs -> Entries \cup {NoEntry}]
    <2>1. DOMAIN f = Docs /\ f = [d \in Docs |-> f[d]]
      OBVIOUS
    <2>2. \A d \in Docs : f[d] \in Entries \cup {NoEntry}
      BY <1>2
    <2>3. QED BY <2>1, <2>2, IsFunction
  <1>4. /\ u \in Trackers /\ u.changes = t.changes /\ u.called = t.called /\ u.last = t.last /\ u.entry = f
        /\ u.idle = t.idle
    BY <1>1, <1>3 DEF Trackers
  <1> HIDE DEF u
  <1>5. t.idle \subseteq Docs
    BY <1>1 DEF Trackers
  <1>6. EntriesMatch(u)
    <2>1. \A d \in Docs : u.entry[d] = NoEntry <=> d \notin Range(u.changes) \cup u.idle
      BY <1>1, <1>2, <1>4 DEF EntriesMatch
    <2>2. u.idle \cap Range(u.changes) = {}
      BY <1>1, <1>4 DEF EntriesMatch
    <2>3. ASSUME NEW d \in t.idle PROVE u.entry[d].observers # {}
      <3>1. d \in Docs /\ t.entry[d] # NoEntry /\ t.entry[d].observers # {}
        BY <1>1, <1>5 DEF EntriesMatch
      <3>2. QED BY <1>2, <1>4, <3>1
    <2>4. QED BY <1>4, <2>1, <2>2, <2>3 DEF EntriesMatch
  <1>7. CalledBack(u)
    BY <1>1, <1>4 DEF CalledBack
  <1>8. ObserversKept(t, u)
    BY <1>2, <1>4 DEF ObserversKept
  <1> QED
    BY <1>1, <1>4, <1>6, <1>7, <1>8 DEF Consistent, u

LEMMA CommitStep ==
    ASSUME IInv, Commit
    PROVE  IInv' /\ Unnoticed(changes, changes', called, called') /\ db' = db
  <1> DEFINE docs == DocsAfter(changes, Transaction)
             f == [d \in Docs |-> IF d \in docs THEN [Tracker.entry[d] EXCEPT !.committed = Tracker.entry[d].sequence]
                                  ELSE Tracker.entry[d]]
             t == [Tracker EXCEPT !.entry = f]
             u == Ended(t)
  <1>1. Consistent(Tracker) /\ IsList(changes) /\ Transaction \in Range(changes)
    BY TrackerIs DEF IInv, Consistent, Commit, InTransaction
  <1>2. docs \subseteq Docs /\ docs \subseteq Range(Tracker.changes)
    <2>1. docs = {d \in Docs : Before(changes, Transaction, d)}
      BY <1>1, DocsAfterIs
    <2>2. ASSUME NEW d, Before(changes, Transaction, d) PROVE d \in Range(changes)
      BY <2>2 DEF Before, Range
    <2> HIDE DEF docs
    <2>3. QED BY <2>1, <2>2, TrackerIs
  <1>3. Becomes(u) /\ committedDB' = db /\ UNCHANGED <<preTransactionLastSequence, watched, db>>
    BY TrackerIs DEF Commit
  <1> HIDE DEF docs
  <1>4. Consistent(t) /\ ObserversKept(Tracker, t) /\ t.changes = changes /\ t.called = called /\ t.last = lastSequence
    <2>1. Consistent(t) /\ ObserversKept(Tracker, t) /\ t.changes = Tracker.changes /\ t.called = Tracker.called
          /\ t.last = Tracker.last
      <3> HIDE DEF f
      <3>1. f = [d \in Docs |-> IF d \in docs THEN [Tracker.entry[d] EXCEPT !.committed = Tracker.entry[d].sequence]
                                  ELSE Tracker.entry[d]]
        BY DEF f
      <3>2. QED BY <1>1, <1>2, <3>1, Committed, SMTT(60)
    <2>2. QED BY <2>1, TrackerIs
  <1> HIDE DEF t
  <1>5. SameForObservers(t, u) /\ ~InTransaction(u.changes) /\ Trimmed(u.changes)
    BY <1>4, EndedIs
  <1> HIDE DEF u
  <1>6. ObserversKept(Tracker, u) /\ Consistent(u) /\ u.last = lastSequence
    BY <1>4, <1>5, KeptOn DEF SameForObservers
  <1>7. /\ preTransactionLastSequence' \in Nat /\ db' \in Databases /\ committedDB' \in Databases
        /\ u.last <= db'.last /\ UNCHANGED watched
    BY <1>3, <1>6 DEF IInv
  <1>8. Agrees(u.changes, preTransactionLastSequence', db', committedDB')
    BY <1>3, <1>5 DEF Agrees
  <1>9. IInv' /\ changes' = u.changes /\ called' = u.called
    BY <1>3, <1>5, <1>6, <1>7, <1>8, Concludes
  <1>10. Unnoticed(t.changes, u.changes, t.called, u.called)
    BY <1>5, SameIsUnnoticed
  <1> QED
    BY <1>3, <1>4, <1>9, <1>10

LEMMA NoticedOn ==
    ASSUME NEW a, NEW b, NEW c, NEW x, NEW y, NEW z, NEW docs, Noticed(a, b, x, y, docs), Unnoticed(b, c, y, z)
    PROVE  Noticed(a, c, x, z, docs)
  BY DEF Noticed, Unnoticed

(* What comes after a placeholder. *)
LEMMA AfterIs ==
    ASSUME NEW list, IsList(list), NEW x \in Range(list)
    PROVE  After(list, x) \in Seq(Elements)
  <1> DEFINE p == Position(list, x)
  <1>1. p \in 1 .. Len(list) /\ list \in Seq(Elements) /\ Len(list) \in Nat
    BY PositionIs DEF IsList
  <1> HIDE DEF p
  <1>2. SubSeq(list, p + 1, Len(list)) \in Seq(Elements)
    BY <1>1, Middle
  <1> QED
    BY <1>2 DEF After, p

(* An abort: what the transaction changed changes back, and its            *)
(* placeholder goes.                                                       *)
LEMMA AbortStep ==
    ASSUME IInv, Abort
    PROVE  LET docs == DocsAfter(changes, Transaction)
           IN  /\ IInv' /\ Noticed(changes, changes', called, called', docs)
               /\ \A c \in Docs \ docs : db'.doc[c] = db.doc[c]
  <1> DEFINE docs == DocsAfter(changes, Transaction)
             list == After(changes, Transaction)
             rev == [d \in docs |-> entry[d].rev]
             sequence == [d \in docs |-> entry[d].committed]
             t == [Tracker EXCEPT !.last = preTransactionLastSequence]
             v == DocumentsChanged(t, list, rev, sequence)
             u == Ended(v)
  <1>1. Consistent(Tracker) /\ IsList(changes) /\ Transaction \in Range(changes) /\ Tracker \in Trackers
        /\ preTransactionLastSequence \in Nat
    BY TrackerIs DEF IInv, Consistent, Abort, InTransaction
  <1>2. docs = {d \in Docs : Before(changes, Transaction, d)} /\ docs = Range(list) \cap Docs /\ list \in Seq(Elements)
    BY <1>1, DocsAfterIs, AfterIs DEF DocsAfter
  <1>3. Becomes(u) /\ db' = committedDB /\ UNCHANGED <<preTransactionLastSequence, watched, committedDB>>
    BY DEF Abort
  <1> HIDE DEF docs, list
  <1>4. ASSUME NEW d \in Range(list) \cap Docs PROVE rev[d] \in Nat /\ sequence[d] \in Nat
    <2>1. d \in docs /\ d \in Docs /\ Before(changes, Transaction, d)
      BY <1>2
    <2>2. d \in Range(changes)
      BY <2>1 DEF Before, Range
    <2>3. entry[d] # NoEntry
      BY <1>1, <2>1, <2>2, TrackerIs DEF Consistent, EntriesMatch
    <2>4. entry[d] \in Entries
      BY <1>1, <2>1, <2>3, TrackerIs DEF Trackers
    <2>5. QED BY <2>1, <2>4 DEF Entries
  <1> HIDE DEF rev, sequence
  <1>5. /\ Consistent(t) /\ ObserversKept(Tracker, t) /\ t.changes = changes /\ t.called = called
        /\ t.last = preTransactionLastSequence
    BY <1>1, WithLast, TrackerIs
  <1> HIDE DEF t
  <1>6. Follows(t, v, docs)
    BY <1>2, <1>4, <1>5, SeveralChanged
  <1> HIDE DEF v
  <1>7. Consistent(v) /\ ObserversKept(t, v) /\ v.last = preTransactionLastSequence
    BY <1>5, <1>6 DEF Follows
  <1>8. SameForObservers(v, u) /\ ~InTransaction(u.changes) /\ Trimmed(u.changes)
    BY <1>7, EndedIs
  <1> HIDE DEF u
  <1>9. ObserversKept(Tracker, u) /\ Consistent(u) /\ u.last = preTransactionLastSequence
    BY <1>5, <1>7, <1>8, KeptOn DEF SameForObservers
  <1>10. /\ preTransactionLastSequence' \in Nat /\ db' \in Databases /\ committedDB' \in Databases
         /\ u.last <= db'.last /\ UNCHANGED watched
         /\ \A c \in Docs : db.doc[c] # committedDB.doc[c] => Before(changes, Transaction, c)
    BY <1>1, <1>3, <1>9 DEF IInv, Agrees, InTransaction
  <1>11. Agrees(u.changes, preTransactionLastSequence', db', committedDB')
    BY <1>3, <1>8 DEF Agrees
  <1>12. IInv' /\ changes' = u.changes /\ called' = u.called
    BY <1>3, <1>8, <1>9, <1>10, <1>11, Concludes
  <1>13. Noticed(changes, u.changes, called, u.called, docs)
    <2>1. Noticed(t.changes, v.changes, t.called, v.called, docs)
      BY <1>2, <1>5, <1>6, FollowsIsNoticed
    <2>2. Unnoticed(v.changes, u.changes, v.called, u.called)
      BY <1>8, SameIsUnnoticed
    <2>3. QED BY <1>5, <2>1, <2>2, NoticedOn
  <1>14. \A c \in Docs \ docs : db'.doc[c] = db.doc[c]
    BY <1>2, <1>3, <1>10
  <1> QED
    BY <1>12, <1>13, <1>14 DEF docs

(* What another connection changed: at least one document, and no more     *)
(* than once.                                                              *)
LEMMA ExternalIs ==
    ASSUME NEW docs \in ExternalChanges
    PROVE  IsList(docs) /\ docs \in Seq(Docs) /\ Range(docs) \subseteq Docs /\ Range(docs) # {}
  <1>1. PICK m \in 0 .. MaxExternal : docs \in [1 .. m -> Docs]
    BY DEF ExternalChanges, SeqOf
  <1>2. m \in Nat
    OBVIOUS
  <1>3. docs \in Seq(Docs)
    BY <1>1, <1>2
  <1>4. docs # << >> /\ IsInjective(docs)
    BY DEF ExternalChanges
  <1>5. docs \in Seq(Elements)
    BY <1>3 DEF Elements
  <1>6. Range(docs) \subseteq Docs /\ Range(docs) # {}
    <2>1. Len(docs) # 0 /\ Len(docs) \in Nat /\ DOMAIN docs = 1 .. Len(docs)
      BY <1>3, <1>4
    <2>2. 1 \in DOMAIN docs
      BY <2>1
    <2>3. \A i \in DOMAIN docs : docs[i] \in Docs
      BY <1>3
    <2>4. QED BY <2>2, <2>3 DEF Range
  <1> QED
    BY <1>3, <1>4, <1>5, <1>6 DEF IsList

LEMMA SequencesAreNumbers ==
    ASSUME NEW docs, IsList(docs), NEW d \in Range(docs), NEW purged
    PROVE  Cardinality({j \in 1 .. Position(docs, d) : docs[j] \notin purged}) \in Nat
  <1> DEFINE k == Position(docs, d)  S == {j \in 1 .. k : docs[j] \notin purged}
  <1>1. k \in Nat
    BY PositionIs
  <1> HIDE DEF k
  <1>2. IsFiniteSet(1 .. k) /\ S \subseteq 1 .. k
    BY <1>1, FS_Interval
  <1>3. Cardinality(S) \in Nat
    BY <1>2, FS_Subset, FS_CardinalityType
  <1> QED
    BY <1>3 DEF k

(* Another connection's transaction. *)
LEMMA ExternalStep ==
    ASSUME IInv, NEW docs \in ExternalChanges, NEW purged \in SUBSET Range(docs), AddExternalTransaction(docs, purged)
    PROVE  /\ IInv' /\ Noticed(changes, changes', called, called', Range(docs))
           /\ \A c \in Docs \ Range(docs) : db'.doc[c] = db.doc[c]
  <1> DEFINE last == db.last + Cardinality(Range(docs) \ purged)
             sequence == [d \in Range(docs) |->
                 IF d \in purged THEN 0
                 ELSE db.last + Cardinality({j \in 1 .. Position(docs, d) : docs[j] \notin purged})]
             l == IF Range(docs) \subseteq purged THEN lastSequence ELSE last
             t == [Tracker EXCEPT !.last = l]
             v == DocumentsChanged(t, docs, sequence, sequence)
             u == RemoveObsoleteEntries(v)
  <1>1. /\ Consistent(Tracker) /\ IsList(changes) /\ Tracker \in Trackers /\ db \in Databases /\ db.last \in Nat
        /\ db.doc \in [Docs -> Nat] /\ lastSequence \in Nat /\ lastSequence <= db.last
        /\ preTransactionLastSequence \in Nat
    BY TrackerIs DEF IInv, Consistent, Trackers, Databases
  <1>2. IsList(docs) /\ docs \in Seq(Elements) /\ Range(docs) \subseteq Docs /\ Range(docs) # {}
    BY ExternalIs DEF IsList
  <1>3. /\ ~InTransaction(changes) /\ UNCHANGED <<preTransactionLastSequence, watched>> /\ committedDB' = db'
        /\ db' = [last |-> last, doc |-> [d \in Docs |-> IF d \in Range(docs) THEN sequence[d] ELSE db.doc[d]]]
        /\ (changes # << >> \/ \E w \in DocNotifiers : watched[w] # None) => Becomes(u)
        /\ ~(changes # << >> \/ \E w \in DocNotifiers : watched[w] # None) => UNCHANGED tracker
    BY TrackerIs DEF AddExternalTransaction
  <1>4. last \in Nat /\ last >= db.last
    <2>1. Cardinality(Range(docs) \ purged) \in Nat
      BY <1>2, RangeIsFinite
    <2>2. QED BY <1>1, <2>1
  <1>5. ASSUME NEW d \in Range(docs) PROVE sequence[d] \in Nat
    <2>1. Cardinality({j \in 1 .. Position(docs, d) : docs[j] \notin purged}) \in Nat
      BY <1>2, SequencesAreNumbers
    <2>2. QED BY <1>1, <2>1
  <1> HIDE DEF last, sequence
  <1>6. db' \in Databases /\ db'.last = last /\ \A c \in Docs \ Range(docs) : db'.doc[c] = db.doc[c]
    <2> DEFINE f == [d \in Docs |-> IF d \in Range(docs) THEN sequence[d] ELSE db.doc[d]]
    <2>1. \A d \in Docs : f[d] \in Nat
      BY <1>1, <1>5
    <2>2. f = [d \in Docs |-> f[d]] /\ \A c \in Docs \ Range(docs) : f[c] = db.doc[c]
      OBVIOUS
    <2>3. db' = [last |-> last, doc |-> f]
      BY <1>3
    <2> HIDE DEF f
    <2>4. f \in [Docs -> Nat]
      BY <2>1, <2>2, IsFunction
    <2>5. QED BY <1>4, <2>2, <2>3, <2>4 DEF Databases
  <1>7. l \in Nat /\ l <= last
    BY <1>1, <1>4
  <1> HIDE DEF l
  <1>8. CASE changes # << >> \/ \E w \in DocNotifiers : watched[w] # None
    <2>1. Consistent(t) /\ ObserversKept(Tracker, t) /\ t.changes = changes /\ t.called = called /\ t.last = l
      BY <1>1, <1>7, WithLast, TrackerIs
    <2>2. Becomes(u)
      BY <1>3, <1>8
    <2> HIDE DEF t
    <2>3. Range(docs) \cap Docs = Range(docs)
      BY <1>2
    <2>4. Follows(t, v, Range(docs))
      <3>1. \A d \in Range(docs) \cap Docs : sequence[d] \in Nat /\ sequence[d] \in Nat
        BY <1>5
      <3>2. Follows(t, v, Range(docs) \cap Docs)
        BY <1>2, <2>1, <3>1, SeveralChanged
      <3>3. QED BY <2>3, <3>2
    <2> HIDE DEF v
    <2>5. Consistent(v)
      BY <2>4 DEF Follows
    <2>6. Follows(v, u, {}) /\ Trimmed(u.changes)
      BY <2>5, ObsoleteRemoved
    <2> HIDE DEF u
    <2>7. Follows(t, u, Range(docs))
      <3>1. Follows(t, u, Range(docs) \cup {})
        BY <2>4, <2>6, FollowsOn
      <3>2. Range(docs) \cup {} = Range(docs)
        OBVIOUS
      <3>3. QED BY <3>1, <3>2
    <2>8. Consistent(u) /\ ObserversKept(t, u) /\ u.last = l /\ ~InTransaction(u.changes)
      <3>1. Consistent(u) /\ ObserversKept(t, u) /\ u.last = l /\ Placeholders(u.changes) = Placeholders(changes)
        BY <2>1, <2>7 DEF Follows
      <3>2. ~InTransaction(u.changes)
        BY <1>3, <3>1, ElementsAssumption DEF Placeholders, InTransaction
      <3>3. QED BY <3>1, <3>2
    <2>9. ObserversKept(Tracker, u)
      BY <2>1, <2>8, KeptOn
    <2>10. Agrees(u.changes, preTransactionLastSequence', db', committedDB')
      BY <1>3, <2>8 DEF Agrees
    <2>11. /\ preTransactionLastSequence' \in Nat /\ committedDB' \in Databases
           /\ u.last <= db'.last /\ UNCHANGED watched
      BY <1>1, <1>3, <1>6, <1>7, <2>8
    <2>12. IInv' /\ changes' = u.changes /\ called' = u.called
      BY <1>6, <2>2, <2>6, <2>8, <2>9, <2>10, <2>11, Concludes
    <2>13. Noticed(t.changes, u.changes, t.called, u.called, Range(docs))
      BY <1>2, <2>1, <2>7, FollowsIsNoticed
    <2>14. QED BY <1>6, <2>1, <2>12, <2>13
  <1>9. CASE ~(changes # << >> \/ \E w \in DocNotifiers : watched[w] # None)
    <2>1. UNCHANGED <<changes, idle, entry, lastSequence, called, watched>> /\ changes = << >>
      BY <1>3, <1>9 DEF tracker
    <2>2. Becomes(Tracker) /\ ObserversKept(Tracker, Tracker)
      BY <2>1, TrackerIs DEF Becomes, ObserversKept
    <2>3. Trimmed(Tracker.changes) /\ Tracker.last <= db'.last
      BY <1>1, <1>4, <1>6, <2>1, TrackerIs DEF Trimmed
    <2>4. Agrees(Tracker.changes, preTransactionLastSequence', db', committedDB')
      BY <1>3, TrackerIs DEF Agrees
    <2>5. /\ preTransactionLastSequence' \in Nat /\ committedDB' \in Databases /\ UNCHANGED watched
      BY <1>1, <1>3, <1>6
    <2>6. IInv'
      BY <1>1, <1>6, <2>2, <2>3, <2>4, <2>5, Concludes
    <2>7. Noticed(changes, changes, called, called, Range(docs))
      <3>1. Range(changes) = {}
        BY <2>1 DEF Range
      <3>2. called = {}
        BY <1>1, <3>1, TrackerIs DEF Consistent, CalledBack
      <3>3. QED BY <1>2, <3>1, <3>2 DEF Noticed, ObserversIn
    <2>8. QED BY <1>6, <2>1, <2>6, <2>7
  <1> QED
    BY <1>8, <1>9

-----------------------------------------------------------------------------
(* The observers come, read and go. *)
LEMMA StaysTrimmed ==
    ASSUME NEW list, IsList(list), Trimmed(list), NEW x \in (Notifiers \cup {Transaction}) \ Range(list)
    PROVE  Trimmed(Append(list, x))
  <1> DEFINE new == Append(list, x)
  <1>1. x \in Elements \ Range(list) /\ x \notin Docs
    BY ElementsAssumption DEF Elements
  <1>2. Range(new) = Range(list) \cup {x} /\ Len(new) = Len(list) + 1 /\ list \in Seq(Elements) /\ new \in Seq(Elements)
    BY <1>1, Appended DEF IsList
  <1>3. CASE InTransaction(list)
    BY <1>2, <1>3 DEF Trimmed, InTransaction
  <1>4. CASE list = << >>
    <2>1. Head(new) = x
      BY <1>4
    <2>2. QED BY <1>1, <2>1 DEF Trimmed
  <1>5. CASE list # << >> /\ Head(list) \notin Docs
    <2>1. Head(new) = Head(list)
      BY <1>2, <1>5
    <2>2. QED BY <1>5, <2>1 DEF Trimmed
  <1>6. CASE Len(list) <= MinChangesToKeep + Cardinality(Placeholders(list))
    <2> DEFINE P == Placeholders(list)
    <2>1. IsFiniteSet(P) /\ x \notin P /\ Cardinality(P) \in Nat
      BY <1>1, <1>2, RangeIsFinite DEF Placeholders
    <2>2. Placeholders(new) = P \cup {x}
      BY <1>1, <1>2 DEF Placeholders
    <2> HIDE DEF P
    <2>3. Cardinality(P \cup {x}) = Cardinality(P) + 1
      BY <2>1, FS_AddElement
    <2>4. Len(list) \in Nat
      BY <1>2
    <2>5. Len(new) <= MinChangesToKeep + Cardinality(Placeholders(new))
      BY <1>2, <1>6, <2>1, <2>2, <2>3, <2>4, KeepAssumption DEF P
    <2>6. QED BY <2>5 DEF Trimmed
  <1> QED
    BY <1>3, <1>4, <1>5, <1>6 DEF Trimmed

Added(list, new, n) ==
    /\ n \in Notifiers \ ObserversIn(list) /\ ObserversIn(new) = ObserversIn(list) \cup {n}
    /\ \A m \in Notifiers : UnreadIn(new, m) = UnreadIn(list, m)
LEMMA AddStep ==
    ASSUME IInv, NEW x \in Notifiers, AddNotifier(x)
    PROVE  IInv' /\ Added(changes, changes', x) /\ called' = called /\ db' = db
  <1> DEFINE new == Append(changes, x)  u == WithList(Tracker, new, called)
  <1>1. /\ x \notin Range(changes) /\ changes' = new
        /\ UNCHANGED <<idle, entry, lastSequence, called, preTransactionLastSequence, watched, db, committedDB>>
    BY DEF AddNotifier
  <1>2. /\ Consistent(u) /\ ObserversKept(Tracker, u) /\ u.last = lastSequence
        /\ u.changes = new /\ u.called = called /\ u.idle = idle /\ u.entry = entry
        /\ IsList(new) /\ Range(new) = Range(changes) \cup {x}
        /\ \A n, d : d \in Docs => (Before(new, n, d) <=> Before(changes, n, d))
    BY <1>1, PlaceholderAppended
  <1>3. Trimmed(new)
    BY <1>1, StaysTrimmed, TrackerIs DEF IInv, Consistent
  <1> HIDE DEF new, u
  <1>4. Becomes(u)
    BY <1>1, <1>2 DEF Becomes
  <1>5. InTransaction(new) <=> InTransaction(changes)
    BY <1>2, ElementsAssumption DEF InTransaction
  <1>6. /\ preTransactionLastSequence' \in Nat /\ db' \in Databases /\ committedDB' \in Databases
        /\ u.last <= db'.last /\ UNCHANGED watched
        /\ Agrees(changes, preTransactionLastSequence', db', committedDB')
    BY <1>1, <1>2 DEF IInv
  <1>7. Agrees(new, preTransactionLastSequence', db', committedDB')
    BY <1>2, <1>5, <1>6 DEF Agrees
  <1>8. IInv'
    BY <1>2, <1>3, <1>4, <1>6, <1>7, Concludes
  <1>9. Added(changes, new, x)
    <2>1. x \in Notifiers \ ObserversIn(changes) /\ ObserversIn(new) = ObserversIn(changes) \cup {x}
      BY <1>1, <1>2 DEF ObserversIn
    <2>2. ASSUME NEW m \in Notifiers PROVE UnreadIn(new, m) = UnreadIn(changes, m)
      <3>1. CASE m = x
        <4>1. \A d \in Docs : ~Before(changes, x, d)
          BY <1>1 DEF Before, Range
        <4>2. QED BY <1>1, <1>2, <3>1, <4>1 DEF UnreadIn
      <3>2. CASE m # x
        BY <1>2, <3>2 DEF UnreadIn
      <3>3. QED BY <3>1, <3>2
    <2>3. QED BY <2>1, <2>2 DEF Added
  <1> QED
    BY <1>1, <1>8, <1>9

(* When what is left of an observer's changes, and who it is, does not     *)
(* matter to the transaction.                                              *)
SameForTransaction(list, new) ==
    /\ InTransaction(new) <=> InTransaction(list)
    /\ \A d \in Docs : Before(new, Transaction, d) <=> Before(list, Transaction, d)

LEMMA FollowsForTransaction ==
    ASSUME NEW t, NEW u, Follows(t, u, {})
    PROVE  SameForTransaction(t.changes, u.changes)
  <1>1. InTransaction(u.changes) <=> InTransaction(t.changes)
    BY FollowsIsSame
  <1>2. ASSUME NEW d \in Docs PROVE Before(u.changes, Transaction, d) <=> Before(t.changes, Transaction, d)
    <2>1. CASE InTransaction(t.changes)
      <3>1. Transaction \in Placeholders(t.changes)
        BY <2>1, ElementsAssumption DEF Placeholders, InTransaction
      <3>2. QED BY <3>1 DEF Follows, Gains
    <2>2. CASE ~InTransaction(t.changes)
      BY <2>2, <1>1 DEF Before, Range, InTransaction
    <2>3. QED BY <2>1, <2>2
  <1> QED
    BY <1>1, <1>2 DEF SameForTransaction

(* The list has a new order, for one observer; then what is obsolete goes. *)
LEMMA ObserverStep ==
    ASSUME IInv, NEW new, NEW callees, IsList(new), SameDocs(changes, new), AllCalled(new, callees),
           SameForTransaction(changes, new), Becomes(RemoveObsoleteEntries(WithList(Tracker, new, callees))),
           UNCHANGED <<preTransactionLastSequence, watched, db, committedDB>>
    PROVE  IInv' /\ Unnoticed(new, changes', callees, called')
  <1> DEFINE t == WithList(Tracker, new, callees)  u == RemoveObsoleteEntries(t)
  <1>1. Consistent(Tracker)
    BY DEF IInv
  <1>2. Consistent(t) /\ ObserversKept(Tracker, t) /\ t.changes = new /\ t.called = callees /\ t.last = lastSequence
    BY <1>1, Relisted, TrackerIs
  <1>3. Becomes(u)
    OBVIOUS
  <1> HIDE DEF t
  <1>4. Follows(t, u, {}) /\ Trimmed(u.changes)
    BY <1>2, ObsoleteRemoved
  <1> HIDE DEF u
  <1>5. SameForObservers(t, u) /\ SameForTransaction(new, u.changes)
    BY <1>2, <1>4, FollowsIsSame, FollowsForTransaction
  <1>6. ObserversKept(Tracker, u) /\ Consistent(u) /\ u.last = lastSequence
    BY <1>2, <1>5, KeptOn DEF SameForObservers
  <1>7. /\ preTransactionLastSequence' \in Nat /\ db' \in Databases /\ committedDB' \in Databases
        /\ u.last <= db'.last /\ UNCHANGED watched
        /\ Agrees(changes, preTransactionLastSequence', db', committedDB')
    BY <1>6 DEF IInv
  <1>8. Agrees(u.changes, preTransactionLastSequence', db', committedDB')
    BY <1>5, <1>7 DEF Agrees, SameForTransaction
  <1>9. IInv' /\ changes' = u.changes /\ called' = u.called
    BY <1>3, <1>4, <1>6, <1>7, <1>8, Concludes
  <1>10. Unnoticed(new, u.changes, callees, u.called)
    BY <1>2, <1>5, SameIsUnnoticed
  <1> QED
    BY <1>9, <1>10

Gone(list, new, callees, callees2, n) ==
    /\ n \in ObserversIn(list) /\ ObserversIn(new) = ObserversIn(list) \ {n} /\ callees2 = callees \ {n}
    /\ \A m \in Notifiers : UnreadIn(new, m) = IF m = n THEN {} ELSE UnreadIn(list, m)
LEMMA RemoveStep ==
    ASSUME IInv, NEW x \in Notifiers, RemoveNotifier(x)
    PROVE  IInv' /\ Gone(changes, changes', called, called', x) /\ db' = db
  <1> DEFINE new == Without(changes, x)  callees == called \ {x}
  <1>1. /\ Consistent(Tracker) /\ IsList(changes) /\ CalledBack(Tracker) /\ Tracker \in Trackers
        /\ called \subseteq Notifiers /\ called \subseteq Range(changes)
        /\ \A n \in Notifiers, d \in Docs : Before(changes, n, d) => n \in called
    <2>1. Consistent(Tracker) /\ IsList(Tracker.changes) /\ CalledBack(Tracker) /\ Tracker \in Trackers
      BY DEF IInv, Consistent
    <2>2. Tracker.called \subseteq Notifiers
      BY <2>1 DEF Trackers
    <2>3. QED BY <2>1, <2>2, TrackerIs DEF CalledBack
  <1>2. /\ x \in Range(changes) /\ UNCHANGED <<preTransactionLastSequence, watched, db, committedDB>>
        /\ Becomes(RemoveObsoleteEntries(WithList(Tracker, new, callees)))
    BY TrackerIs DEF RemoveNotifier, WithList
  <1>3. /\ IsList(new) /\ Range(new) = Range(changes) \ {x}
        /\ \A a, b : Before(new, a, b) <=> Before(changes, a, b) /\ a # x /\ b # x
    BY <1>1, Removed
  <1> HIDE DEF new
  <1>4. SameDocs(changes, new)
    BY <1>3, ElementsAssumption DEF SameDocs
  <1>5. AllCalled(new, callees)
    BY <1>1, <1>3 DEF AllCalled
  <1>6. SameForTransaction(changes, new)
    BY <1>3, ElementsAssumption DEF SameForTransaction, InTransaction
  <1>7. IInv' /\ Unnoticed(new, changes', callees, called')
    BY <1>2, <1>3, <1>4, <1>5, <1>6, ObserverStep
  <1>8. Gone(changes, new, called, callees, x)
    <2>1. x \in ObserversIn(changes) /\ ObserversIn(new) = ObserversIn(changes) \ {x}
      BY <1>2, <1>3 DEF ObserversIn
    <2>2. ASSUME NEW m \in Notifiers
          PROVE  UnreadIn(new, m) = IF m = x THEN {} ELSE UnreadIn(changes, m)
      <3>1. CASE m = x
        BY <1>3, <3>1 DEF UnreadIn
      <3>2. CASE m # x
        <4>1. \A d \in Docs : Before(new, m, d) <=> Before(changes, m, d)
          BY <1>3, <3>2, ElementsAssumption
        <4>2. QED BY <1>3, <3>2, <4>1 DEF UnreadIn
      <3>3. QED BY <3>1, <3>2
    <2>3. QED BY <2>1, <2>2 DEF Gone
  <1>9. Gone(changes, changes', called, called', x)
    BY <1>7, <1>8 DEF Gone, Unnoticed
  <1> QED
    BY <1>2, <1>7, <1>9

HasRead(list, new, callees, callees2, n, docs) ==
    /\ n \in ObserversIn(list) /\ ObserversIn(new) = ObserversIn(list)
    /\ docs # {} /\ docs \subseteq UnreadIn(list, n)
    /\ callees2 = IF UnreadIn(list, n) \subseteq docs THEN callees \ {n} ELSE callees
    /\ \A m \in Notifiers : UnreadIn(new, m) = IF m = n THEN UnreadIn(list, n) \ docs ELSE UnreadIn(list, m)

(* The observer at p has read up to `stop'. *)
LEMMA ReadUpTo ==
    ASSUME NEW list, IsList(list), NEW p \in 1 .. Len(list), NEW stop \in p + 1 .. Len(list) + 1,
           list[p] \in Notifiers, NEW callees, NEW callees2, AllCalled(list, callees),
           \E j \in p + 1 .. stop - 1 : list[j] \in Docs,
           callees2 = IF \A j \in stop .. Len(list) : list[j] \notin Docs THEN callees \ {list[p]} ELSE callees
    PROVE  LET new == Splice(list, p, stop)
           IN  /\ IsList(new) /\ SameDocs(list, new) /\ SameForTransaction(list, new) /\ AllCalled(new, callees2)
               /\ \E docs \in SUBSET Docs : HasRead(list, new, callees, callees2, list[p], docs)
  <1> DEFINE new == Splice(list, p, stop)
             n == list[p]
             docs == {d \in Docs : \E j \in p + 1 .. stop - 1 : list[j] = d}
  <1>1. /\ IsList(new) /\ Range(new) = Range(list)
        /\ \A a, b : a # n /\ b # n => (Before(new, a, b) <=> Before(list, a, b))
        /\ \A b : Before(new, n, b) <=> \E j \in stop .. Len(list) : list[j] = b
    BY Spliced
  <1> HIDE DEF new
  <1>2. /\ list \in Seq(Elements) /\ Len(list) \in Nat /\ DOMAIN list = 1 .. Len(list)
        /\ \A i, j \in 1 .. Len(list) : list[i] = list[j] => i = j
    BY DEF IsList, IsInjective
  <1>3. n \in Notifiers /\ n \in Range(list) /\ n \notin Docs /\ n # Transaction
    BY <1>2, ElementsAssumption DEF Range
  <1>4. \A b : Before(list, n, b) <=> \E j \in p + 1 .. Len(list) : list[j] = b
    <2>1. ASSUME NEW b, Before(list, n, b) PROVE \E j \in p + 1 .. Len(list) : list[j] = b
      <3>1. PICK i \in 1 .. Len(list), j \in 1 .. Len(list) : i < j /\ list[i] = n /\ list[j] = b
        BY <1>2, <2>1 DEF Before
      <3>2. i = p
        BY <1>2, <3>1
      <3>3. QED BY <1>2, <3>1, <3>2
    <2>2. ASSUME NEW b, NEW j \in p + 1 .. Len(list), list[j] = b PROVE Before(list, n, b)
      BY <1>2, <2>2 DEF Before
    <2>3. QED BY <2>1, <2>2
  <1>5. SameDocs(list, new)
    BY <1>1 DEF SameDocs
  <1>6. SameForTransaction(list, new)
    BY <1>1, <1>3 DEF SameForTransaction, InTransaction
  <1>7. ASSUME NEW d \in Docs
        PROVE  Before(new, n, d) <=> Before(list, n, d) /\ d \notin docs
    <2>1. ASSUME Before(new, n, d) PROVE Before(list, n, d) /\ d \notin docs
      <3>1. PICK j \in stop .. Len(list) : list[j] = d
        BY <1>1, <2>1
      <3>2. Before(list, n, d)
        BY <1>2, <1>4, <3>1
      <3>3. ASSUME NEW k \in p + 1 .. stop - 1, list[k] = d PROVE FALSE
        BY <1>2, <3>1, <3>3
      <3>4. QED BY <3>2, <3>3
    <2>2. ASSUME Before(list, n, d), d \notin docs PROVE Before(new, n, d)
      <3>1. PICK j \in p + 1 .. Len(list) : list[j] = d
        BY <1>4, <2>2
      <3>2. j \notin p + 1 .. stop - 1
        BY <2>2, <3>1
      <3>3. j \in stop .. Len(list)
        BY <1>2, <3>1, <3>2
      <3>4. QED BY <1>1, <3>1, <3>3
    <2>3. QED BY <2>1, <2>2
  <1>8. docs # {} /\ docs \subseteq {d \in Docs : Before(list, n, d)}
    BY <1>2, <1>4
  <1>9. (\A j \in stop .. Len(list) : list[j] \notin Docs) <=> (\A d \in Docs : ~Before(new, n, d))
    BY <1>1
  <1> HIDE DEF docs, n
  <1>10. (\A d \in Docs : ~Before(new, n, d)) <=> {d \in Docs : Before(list, n, d)} \subseteq docs
    BY <1>7
  <1>11. callees2 = IF \A d \in Docs : ~Before(new, n, d) THEN callees \ {n} ELSE callees
    BY <1>9 DEF n
  <1>12. AllCalled(new, callees2)
    <2>1. callees2 \subseteq callees
      BY <1>11
    <2>2. callees2 \subseteq Notifiers /\ callees2 \subseteq Range(new)
      BY <1>1, <2>1 DEF AllCalled
    <2>3. ASSUME NEW m \in Notifiers, NEW d \in Docs, Before(new, m, d) PROVE m \in callees2
      <3>1. CASE m = n
        <4>1. Before(list, n, d) /\ callees2 = callees
          BY <1>7, <1>11, <2>3, <3>1
        <4>2. QED BY <1>3, <3>1, <4>1 DEF AllCalled
      <3>2. CASE m # n
        <4>1. Before(list, m, d)
          BY <1>1, <1>3, <2>3, <3>2
        <4>2. m \in callees
          BY <4>1 DEF AllCalled
        <4>3. QED BY <1>11, <3>2, <4>2
      <3>3. QED BY <3>1, <3>2
    <2>4. QED BY <2>2, <2>3 DEF AllCalled
  <1>13. HasRead(list, new, callees, callees2, n, docs)
    <2>1. n \in ObserversIn(list) /\ ObserversIn(new) = ObserversIn(list)
      BY <1>1, <1>3 DEF ObserversIn
    <2>2. UnreadIn(list, n) = {d \in Docs : Before(list, n, d)}
      BY <1>3 DEF UnreadIn
    <2>3. callees2 = IF UnreadIn(list, n) \subseteq docs THEN callees \ {n} ELSE callees
      BY <1>10, <1>11, <2>2
    <2>4. ASSUME NEW m \in Notifiers
          PROVE  UnreadIn(new, m) = IF m = n THEN UnreadIn(list, n) \ docs ELSE UnreadIn(list, m)
      <3>1. CASE m = n
        <4>1. UnreadIn(new, n) = {d \in Docs : Before(new, n, d)}
          BY <1>1, <1>3 DEF UnreadIn
        <4>2. QED BY <1>7, <2>2, <3>1, <4>1
      <3>2. CASE m # n
        <4>1. \A d \in Docs : Before(new, m, d) <=> Before(list, m, d)
          BY <1>1, <1>3, <3>2
        <4>2. QED BY <1>1, <3>2, <4>1 DEF UnreadIn
      <3>3. QED BY <3>1, <3>2
    <2>5. QED BY <1>8, <2>1, <2>2, <2>3, <2>4 DEF HasRead
  <1>14. docs \in SUBSET Docs
    BY DEF docs
  <1> QED
    BY <1>1, <1>5, <1>6, <1>12, <1>13, <1>14 DEF new, n

LEMMA ReadStep ==
    ASSUME IInv, NEW n \in Notifiers, NEW max, ReadChanges(n, max)
    PROVE  /\ IInv' /\ db' = db
           /\ \E docs \in SUBSET Docs : HasRead(changes, changes', called, called', n, docs)
  <1> DEFINE p == Position(changes, n)
             DocsIn(i) == {j \in p + 1 .. i - 1 : changes[j] \in Docs}
             External(j) == entry[changes[j]].external
             Stops(i) == \/ i = Len(changes) + 1
                         \/ Cardinality(DocsIn(i)) = max
                         \/ changes[i] \in Docs /\ \E j \in DocsIn(i) : External(j) # External(i)
             S == {i \in p + 1 .. Len(changes) + 1 : Stops(i)}
             stop == Min(S)
             unreadAfter == {i \in stop .. Len(changes) : changes[i] \in Docs}
             callees == IF unreadAfter = {} THEN called \ {n} ELSE called
             new == Splice(changes, p, stop)
  <1>1. /\ Consistent(Tracker) /\ IsList(changes) /\ AllCalled(changes, called)
    <2>1. Consistent(Tracker) /\ IsList(Tracker.changes) /\ CalledBack(Tracker) /\ Tracker \in Trackers
      BY DEF IInv, Consistent
    <2>2. Tracker.called \subseteq Notifiers
      BY <2>1 DEF Trackers
    <2>3. QED BY <2>1, <2>2, TrackerIs DEF CalledBack, AllCalled
  <1>2. /\ n \in Range(changes) /\ DocsIn(stop) # {}
        /\ Becomes(RemoveObsoleteEntries(WithList(Tracker, new, callees)))
        /\ UNCHANGED <<preTransactionLastSequence, watched, db, committedDB>>
    BY TrackerIs DEF ReadChanges, WithList
  <1>3. p \in 1 .. Len(changes) /\ changes[p] = n /\ Len(changes) \in Nat
    BY <1>1, <1>2, PositionIs DEF IsList
  <1> HIDE DEF p
  <1>4. stop \in p + 1 .. Len(changes) + 1
    <2>1. Len(changes) + 1 \in S
      BY <1>3
    <2>2. S \in SUBSET Nat /\ S \subseteq p + 1 .. Len(changes) + 1
      BY <1>3
    <2> HIDE DEF S
    <2>3. stop \in S
      BY <2>1, <2>2, MinIs
    <2>4. QED BY <2>2, <2>3
  <1> HIDE DEF stop
  <1>5. \E j \in p + 1 .. stop - 1 : changes[j] \in Docs
    BY <1>2
  <1>6. callees = IF \A j \in stop .. Len(changes) : changes[j] \notin Docs THEN called \ {changes[p]} ELSE called
    BY <1>3
  <1> HIDE DEF callees
  <1>7. /\ IsList(new) /\ SameDocs(changes, new) /\ SameForTransaction(changes, new) /\ AllCalled(new, callees)
        /\ \E docs \in SUBSET Docs : HasRead(changes, new, called, callees, n, docs)
    BY <1>1, <1>3, <1>4, <1>5, <1>6, ReadUpTo
  <1> HIDE DEF new
  <1>8. IInv' /\ Unnoticed(new, changes', callees, called')
    BY <1>2, <1>7, ObserverStep
  <1>9. ASSUME NEW docs \in SUBSET Docs, HasRead(changes, new, called, callees, n, docs)
        PROVE  HasRead(changes, changes', called, called', n, docs)
    BY <1>8, <1>9 DEF HasRead, Unnoticed
  <1> QED
    BY <1>2, <1>7, <1>8, <1>9

-----------------------------------------------------------------------------
(* Observers of documents come and go: only their entries change. *)
LEMMA EntriesReplaced ==
    ASSUME IInv, NEW i \in SUBSET Docs, NEW f \in [Docs -> Entries \cup {NoEntry}],
           \A d \in Docs : f[d] = NoEntry <=> d \notin Range(changes) \cup i,
           i \cap Range(changes) = {}, \A d \in i : f[d].observers # {},
           idle' = i, entry' = f, WatchersHaveEntries', watched' \in [DocNotifiers -> Docs \cup {None}],
           UNCHANGED <<changes, lastSequence, called, preTransactionLastSequence, db, committedDB>>
    PROVE  IInv' /\ Unnoticed(changes, changes', called, called') /\ db' = db
  <1> DEFINE u == [Tracker EXCEPT !.idle = i, !.entry = f]
  <1>1. Consistent(Tracker) /\ Tracker \in Trackers /\ IsList(changes) /\ CalledBack(Tracker)
    BY TrackerIs DEF IInv, Consistent
  <1>2. /\ u \in Trackers /\ u.changes = changes /\ u.called = called /\ u.last = lastSequence /\ u.entry = f
        /\ u.idle = i
    BY <1>1, TrackerIs DEF Trackers
  <1> HIDE DEF u
  <1>3. EntriesMatch(u)
    BY <1>2 DEF EntriesMatch
  <1>4. CalledBack(u)
    BY <1>1, <1>2, TrackerIs DEF CalledBack
  <1>5. Consistent(u)
    BY <1>1, <1>2, <1>3, <1>4 DEF Consistent
  <1>6. Becomes(u)
    BY <1>2 DEF Becomes
  <1>7. Tracker' = u
    BY <1>2, <1>6, BecomesIs
  <1>8. IInv'
    BY <1>5, <1>7 DEF IInv
  <1>9. Unnoticed(changes, changes', called, called')
    BY DEF Unnoticed
  <1> QED
    BY <1>8, <1>9

LEMMA EntriesAre ==
    ASSUME IInv
    PROVE  /\ entry \in [Docs -> Entries \cup {NoEntry}] /\ idle \in SUBSET Docs
           /\ \A d \in Docs : entry[d] = NoEntry <=> d \notin Range(changes) \cup idle
           /\ idle \cap Range(changes) = {} /\ \A d \in idle : entry[d].observers # {}
           /\ watched \in [DocNotifiers -> Docs \cup {None}]
           /\ \A d \in Docs : entry[d] # NoEntry => entry[d] \in Entries /\ entry[d].observers \in SUBSET DocNotifiers
  <1>1. Tracker \in Trackers /\ EntriesMatch(Tracker)
    BY DEF IInv, Consistent
  <1>2. entry \in [Docs -> Entries \cup {NoEntry}] /\ idle \in SUBSET Docs
    BY <1>1, TrackerIs DEF Trackers
  <1>3. /\ \A d \in Docs : entry[d] = NoEntry <=> d \notin Range(changes) \cup idle
        /\ idle \cap Range(changes) = {} /\ \A d \in idle : entry[d].observers # {}
    BY <1>1, TrackerIs DEF EntriesMatch
  <1>4. ASSUME NEW d \in Docs, entry[d] # NoEntry
        PROVE  entry[d] \in Entries /\ entry[d].observers \in SUBSET DocNotifiers
    <2>1. entry[d] \in Entries
      BY <1>2, <1>4
    <2>2. QED BY <2>1 DEF Entries
  <1>5. watched \in [DocNotifiers -> Docs \cup {None}]
    BY DEF IInv
  <1> QED
    BY <1>2, <1>3, <1>4, <1>5

LEMMA AddDocStep ==
    ASSUME IInv, NEW w \in DocNotifiers, NEW d \in Docs, AddDocNotifier(w, d)
    PROVE  IInv' /\ Unnoticed(changes, changes', called, called') /\ db' = db
  <1> DEFINE e == IF entry[d] = NoEntry
                  THEN [sequence |-> 0, rev |-> 0, committed |-> 0, external |-> FALSE, observers |-> {w}]
                  ELSE [entry[d] EXCEPT !.observers = @ \cup {w}]
             f == [entry EXCEPT ![d] =
                      IF @ = NoEntry
                      THEN [sequence |-> 0, rev |-> 0, committed |-> 0, external |-> FALSE, observers |-> {w}]
                      ELSE [entry[d] EXCEPT !.observers = @ \cup {w}]]
             i == IF entry[d] = NoEntry THEN idle \cup {d} ELSE idle
  <1>1. /\ entry \in [Docs -> Entries \cup {NoEntry}] /\ idle \in SUBSET Docs
        /\ \A c \in Docs : entry[c] = NoEntry <=> c \notin Range(changes) \cup idle
        /\ idle \cap Range(changes) = {} /\ \A c \in idle : entry[c].observers # {}
        /\ watched \in [DocNotifiers -> Docs \cup {None}]
        /\ \A c \in Docs : entry[c] # NoEntry => entry[c] \in Entries /\ entry[c].observers \in SUBSET DocNotifiers
    BY EntriesAre
  <1>2. /\ watched' = [watched EXCEPT ![w] = d] /\ idle' = i /\ entry' = f
        /\ UNCHANGED <<changes, lastSequence, called, preTransactionLastSequence, db, committedDB>>
    BY DEF AddDocNotifier
  <1>21. f = [entry EXCEPT ![d] = e]
    BY Zenon
  <1> HIDE DEF f
  <1>3. e \in Entries /\ e # NoEntry /\ w \in e.observers
        /\ (entry[d] # NoEntry => entry[d].observers \subseteq e.observers)
    <2>1. CASE entry[d] = NoEntry
      <3>1. e = [sequence |-> 0, rev |-> 0, committed |-> 0, external |-> FALSE, observers |-> {w}]
        BY <2>1
      <3> HIDE DEF e
      <3>2. e \in Entries /\ e.observers = {w}
        BY <3>1 DEF Entries
      <3>3. QED BY <2>1, <3>2, ElementsAssumption
    <2>2. CASE entry[d] # NoEntry
      <3>1. e = [entry[d] EXCEPT !.observers = @ \cup {w}] /\ entry[d] \in Entries
        BY <1>1, <2>2
      <3> HIDE DEF e
      <3>2. e \in Entries /\ e.observers = entry[d].observers \cup {w}
        BY <3>1 DEF Entries
      <3>3. QED BY <3>2, ElementsAssumption
    <2>3. QED BY <2>1, <2>2
  <1> HIDE DEF e
  <1>4. f \in [Docs -> Entries \cup {NoEntry}] /\ f[d] = e /\ \A c \in Docs \ {d} : f[c] = entry[c]
    BY <1>1, <1>21, <1>3
  <1>5. i \in SUBSET Docs /\ i \cap Range(changes) = {} /\ i \subseteq idle \cup {d}
    BY <1>1
  <1>6. ASSUME NEW c \in Docs PROVE f[c] = NoEntry <=> c \notin Range(changes) \cup i
    BY <1>1, <1>3, <1>4
  <1>7. ASSUME NEW c \in i PROVE f[c].observers # {}
    <2>1. CASE c = d
      BY <1>3, <1>4, <2>1
    <2>2. CASE c # d
      BY <1>1, <1>4, <1>5, <2>2
    <2>3. QED BY <2>1, <2>2
  <1> HIDE DEF i
  <1>8. ASSUME NEW v \in DocNotifiers, watched'[v] # None
        PROVE  f[watched'[v]] # NoEntry /\ v \in f[watched'[v]].observers
    <2>1. CASE v = w
      BY <1>1, <1>2, <1>3, <1>4, <2>1
    <2>2. CASE v # w
      <3>1. watched'[v] = watched[v] /\ watched[v] \in Docs
        BY <1>1, <1>2, <1>8, <2>2
      <3>2. entry[watched[v]] # NoEntry /\ v \in entry[watched[v]].observers
        BY <1>8, <3>1 DEF IInv, WatchersHaveEntries
      <3>3. CASE watched[v] = d
        BY <1>3, <1>4, <3>1, <3>2, <3>3
      <3>4. CASE watched[v] # d
        BY <1>4, <3>1, <3>2, <3>4
      <3>5. QED BY <3>3, <3>4
    <2>3. QED BY <2>1, <2>2
  <1>9. WatchersHaveEntries'
    BY <1>2, <1>8 DEF WatchersHaveEntries
  <1>10. watched' \in [DocNotifiers -> Docs \cup {None}]
    BY <1>1, <1>2
  <1> QED
    BY <1>2, <1>4, <1>5, <1>6, <1>7, <1>9, <1>10, EntriesReplaced

LEMMA RemoveDocStep ==
    ASSUME IInv, NEW w \in DocNotifiers, RemoveDocNotifier(w)
    PROVE  IInv' /\ Unnoticed(changes, changes', called, called') /\ db' = db
  <1> DEFINE d == watched[w]
             gone == d \in idle /\ entry[d].observers = {w}
             e == IF gone THEN NoEntry ELSE [entry[d] EXCEPT !.observers = @ \ {w}]
             f == [entry EXCEPT ![d] = IF gone THEN NoEntry ELSE [entry[d] EXCEPT !.observers = @ \ {w}]]
             i == IF gone THEN idle \ {d} ELSE idle
  <1>1. /\ entry \in [Docs -> Entries \cup {NoEntry}] /\ idle \in SUBSET Docs
        /\ \A c \in Docs : entry[c] = NoEntry <=> c \notin Range(changes) \cup idle
        /\ idle \cap Range(changes) = {} /\ \A c \in idle : entry[c].observers # {}
        /\ watched \in [DocNotifiers -> Docs \cup {None}]
        /\ \A c \in Docs : entry[c] # NoEntry => entry[c] \in Entries /\ entry[c].observers \in SUBSET DocNotifiers
    BY EntriesAre
  <1>2. /\ d # None /\ watched' = [watched EXCEPT ![w] = None] /\ idle' = i /\ entry' = f
        /\ UNCHANGED <<changes, lastSequence, called, preTransactionLastSequence, db, committedDB>>
    BY DEF RemoveDocNotifier
  <1>3. d \in Docs /\ entry[d] # NoEntry /\ w \in entry[d].observers /\ entry[d] \in Entries
    BY <1>1, <1>2 DEF IInv, WatchersHaveEntries
  <1>31. f = [entry EXCEPT ![d] = e]
    BY Zenon
  <1> HIDE DEF d, f
  <1>4. /\ e \in Entries \cup {NoEntry} /\ (gone => e = NoEntry)
        /\ (~gone => e # NoEntry /\ e.observers = entry[d].observers \ {w})
    <2>1. CASE gone
      BY <2>1
    <2>2. CASE ~gone
      <3>1. e = [entry[d] EXCEPT !.observers = @ \ {w}]
        BY <2>2
      <3> HIDE DEF e, gone
      <3>2. e \in Entries /\ e.observers = entry[d].observers \ {w}
        BY <1>3, <3>1 DEF Entries
      <3>3. QED BY <2>2, <3>2, ElementsAssumption
    <2>3. QED BY <2>1, <2>2
  <1> HIDE DEF e
  <1>5. f \in [Docs -> Entries \cup {NoEntry}] /\ f[d] = e /\ \A c \in Docs \ {d} : f[c] = entry[c]
    BY <1>1, <1>3, <1>31, <1>4
  <1>6. i \in SUBSET Docs /\ i \cap Range(changes) = {} /\ i \subseteq idle
    BY <1>1
  <1>7. ASSUME NEW c \in Docs PROVE f[c] = NoEntry <=> c \notin Range(changes) \cup i
    <2>1. CASE c # d
      BY <1>1, <1>5, <2>1
    <2>2. CASE c = d /\ gone
      BY <1>1, <1>4, <1>5, <2>2
    <2>3. CASE c = d /\ ~gone
      BY <1>1, <1>3, <1>4, <1>5, <2>3
    <2>4. QED BY <2>1, <2>2, <2>3
  <1>8. ASSUME NEW c \in i PROVE f[c].observers # {}
    <2>1. CASE c = d
      <3>1. ~gone /\ d \in idle
        BY <2>1
      <3>2. entry[d].observers # {w} /\ f[d].observers = entry[d].observers \ {w}
        BY <1>4, <1>5, <3>1
      <3>3. QED BY <1>3, <2>1, <3>2
    <2>2. CASE c # d
      BY <1>1, <1>5, <1>6, <2>2
    <2>3. QED BY <2>1, <2>2
  <1> HIDE DEF i
  <1>9. ASSUME NEW v \in DocNotifiers, watched'[v] # None
        PROVE  f[watched'[v]] # NoEntry /\ v \in f[watched'[v]].observers
    <2>1. v # w /\ watched'[v] = watched[v] /\ watched[v] \in Docs
      BY <1>1, <1>2, <1>9
    <2>2. entry[watched[v]] # NoEntry /\ v \in entry[watched[v]].observers
      BY <1>9, <2>1 DEF IInv, WatchersHaveEntries
    <2>3. CASE watched[v] = d
      <3>1. ~gone
        BY <2>1, <2>2, <2>3
      <3>2. QED BY <1>4, <1>5, <2>1, <2>2, <2>3, <3>1
    <2>4. CASE watched[v] # d
      BY <1>5, <2>1, <2>2, <2>4
    <2>5. QED BY <2>3, <2>4
  <1>10. WatchersHaveEntries'
    BY <1>2, <1>9 DEF WatchersHaveEntries
  <1>11. watched' \in [DocNotifiers -> Docs \cup {None}]
    BY <1>1, <1>2
  <1> QED
    BY <1>2, <1>5, <1>6, <1>7, <1>8, <1>10, <1>11, EntriesReplaced

-----------------------------------------------------------------------------
LEMMA InitIsIInv ==
    Init => IInv
  <1> SUFFICES ASSUME Init PROVE IInv
    OBVIOUS
  <1>1. PICK old \in {{}} \cup {{d} : d \in Docs} :
          db = [last |-> Cardinality(old), doc |-> [d \in Docs |-> IF d \in old THEN 1 ELSE 0]]
    BY DEF Init
  <1>2. Cardinality(old) \in Nat
    <2>1. CASE old = {}
      BY <2>1, FS_EmptySet
    <2>2. CASE \E d \in Docs : old = {d}
      <3>1. PICK d \in Docs : old = {d}
        BY <2>2
      <3>2. \A x : Cardinality({x}) = 1
        BY FS_Singleton
      <3>3. Cardinality(old) = 1
        BY <3>1, <3>2
      <3>4. QED BY <3>3
    <2>3. QED BY <2>1, <2>2
  <1>3. db \in Databases /\ committedDB = db /\ db.last \in Nat
    <2> DEFINE n == Cardinality(old)  f == [d \in Docs |-> IF d \in old THEN 1 ELSE 0]
    <2>1. f \in [Docs -> Nat] /\ n \in Nat /\ db = [last |-> n, doc |-> f]
      BY <1>1, <1>2
    <2> HIDE DEF n, f
    <2>2. QED BY <2>1 DEF Databases, Init
  <1>4. /\ Tracker.changes = << >> /\ Tracker.idle = {} /\ Tracker.entry = [d \in Docs |-> NoEntry]
        /\ Tracker.last = 0 /\ Tracker.called = {} /\ changes = << >>
    BY TrackerIs DEF Init
  <1>5. Tracker \in Trackers
    BY DEF Tracker, Trackers, Init
  <1>6. Range(changes) = {} /\ IsList(changes) /\ \A x, y : ~Before(changes, x, y)
    BY <1>4 DEF Range, IsList, IsInjective, Before
  <1>7. EntriesMatch(Tracker) /\ CalledBack(Tracker)
    BY <1>4, <1>6 DEF EntriesMatch, CalledBack
  <1>8. Consistent(Tracker)
    BY <1>4, <1>5, <1>6, <1>7 DEF Consistent
  <1>9. Trimmed(changes)
    BY <1>4 DEF Trimmed
  <1>10. watched \in [DocNotifiers -> Docs \cup {None}] /\ WatchersHaveEntries
    BY DEF Init, WatchersHaveEntries
  <1>11. /\ preTransactionLastSequence \in Nat /\ lastSequence <= db.last
         /\ Agrees(changes, preTransactionLastSequence, db, committedDB)
    <2>1. preTransactionLastSequence = 0 /\ lastSequence = 0
      BY DEF Init
    <2>2. Agrees(changes, preTransactionLastSequence, db, committedDB)
      BY <1>3, <1>6 DEF Agrees, InTransaction
    <2>3. QED BY <1>3, <2>1, <2>2
  <1> QED
    BY <1>3, <1>8, <1>9, <1>10, <1>11 DEF IInv

LEMMA NextKeepsIInv ==
    IInv /\ [Next]_vars => IInv'
  <1> SUFFICES ASSUME IInv, [Next]_vars PROVE IInv'
    OBVIOUS
  <1>1. CASE BeginTransaction
    BY <1>1, BeginStep
  <1>2. CASE Commit
    BY <1>2, CommitStep
  <1>3. CASE Abort
    BY <1>3, AbortStep
  <1>4. CASE \E d \in Docs : SaveDocument(d) \/ PurgeDocument(d)
    BY <1>4, SaveStep, PurgeStep
  <1>5. CASE \E docs \in ExternalChanges : \E purged \in SUBSET Range(docs) : AddExternalTransaction(docs, purged)
    BY <1>5, ExternalStep
  <1>6. CASE \E n \in Notifiers : AddNotifier(n) \/ RemoveNotifier(n) \/ \E max \in 1 .. MaxRead : ReadChanges(n, max)
    BY <1>6, AddStep, RemoveStep, ReadStep
  <1>7. CASE \E w \in DocNotifiers : RemoveDocNotifier(w) \/ \E d \in Docs : AddDocNotifier(w, d)
    BY <1>7, RemoveDocStep, AddDocStep
  <1>8. CASE UNCHANGED vars
    BY <1>8 DEF IInv, vars, tracker, Tracker, WatchersHaveEntries
  <1> QED
    BY <1>1, <1>2, <1>3, <1>4, <1>5, <1>6, <1>7, <1>8 DEF Next

(* The tracker is always consistent: its list and its entries agree, an    *)
(* observer with unread changes has been called, an open transaction finds *)
(* what it changed after its placeholder, and the list is trimmed.         *)
THEOREM Invariant == Spec => []IInv
  BY InitIsIInv, NextKeepsIInv, PTL DEF Spec

(* What an observer has not read, by the order of the list. *)
LEMMA UnreadIs ==
    ASSUME IInv, NEW n \in Notifiers
    PROVE  Unread(n) = UnreadIn(changes, n)
  <1>1. IsList(changes)
    BY TrackerIs DEF IInv, Consistent
  <1> QED
    BY <1>1, DocsAfterIs DEF Unread, UnreadIn

LEMMA NextUnreadIs ==
    ASSUME IInv', NEW n \in Notifiers
    PROVE  Unread(n)' = UnreadIn(changes', n)
  <1>1. IsList(changes')
    BY DEF IInv, Consistent, Tracker
  <1>2. Unread(n)' = IF n \in Range(changes') THEN DocsAfter(changes', n) ELSE {}
    BY DEF Unread
  <1> QED
    BY <1>1, <1>2, DocsAfterIs DEF UnreadIn

(* However a transaction of this or another connection, the reading of     *)
(* other observers and the trimming of the list interleave, an observer    *)
(* that has changes to read has been called since it last had none.        *)
THEOREM NoCallbackMissed == Spec => []NoMissedCallback
  <1>1. IInv => NoMissedCallback
    <2> SUFFICES ASSUME IInv, NEW n \in Notifiers, Unread(n) # {} PROVE n \in called
      BY DEF NoMissedCallback
    <2>1. CalledBack(Tracker)
      BY DEF IInv, Consistent
    <2>2. UnreadIn(changes, n) # {}
      BY UnreadIs
    <2>3. PICK d \in Docs : Before(changes, n, d)
      BY <2>2 DEF UnreadIn
    <2>4. QED BY <2>1, <2>3, TrackerIs DEF CalledBack
  <1> QED
    BY <1>1, Invariant, PTL

(* The entry a document's observer points to is in one of the two lists    *)
(* and knows the observer; the list keeps no more than what an observer    *)
(* has not read, and the last few.                                         *)
THEOREM EntriesAlwaysKept == Spec => []EntriesAreKept
  <1>1. IInv => EntriesAreKept
    <2> SUFFICES ASSUME IInv PROVE EntriesAreKept
      OBVIOUS
    <2>1. /\ entry \in [Docs -> Entries \cup {NoEntry}] /\ idle \in SUBSET Docs
          /\ \A d \in Docs : entry[d] = NoEntry <=> d \notin Range(changes) \cup idle
          /\ idle \cap Range(changes) = {} /\ \A d \in idle : entry[d].observers # {}
          /\ watched \in [DocNotifiers -> Docs \cup {None}]
      BY EntriesAre
    <2>2. /\ Consistent(Tracker) /\ IsList(changes) /\ lastSequence \in Nat /\ called \subseteq Notifiers
          /\ called \subseteq Range(changes)
      <3>1. Tracker \in Trackers /\ IsList(Tracker.changes) /\ CalledBack(Tracker)
        BY DEF IInv, Consistent
      <3>2. Tracker.last \in Nat /\ Tracker.called \subseteq Notifiers
        BY <3>1 DEF Trackers
      <3>3. QED BY <3>1, <3>2, TrackerIs DEF IInv, CalledBack
    <2>3. TypeOK
      BY <2>1, <2>2 DEF TypeOK, IInv, IsList, Elements, Databases
    <2>4. QED BY <2>1, <2>3 DEF EntriesAreKept, IInv, Trimmed
  <1> QED
    BY <1>1, Invariant, PTL

-----------------------------------------------------------------------------
(* The refinement.  Each observer's unread changes are the documents after *)
(* its placeholder; of a step, only what it does to them matters.          *)
U(list) == [n \in Notifiers |-> UnreadIn(list, n)]

LEMMA Mapped ==
    ASSUME IInv, IInv'
    PROVE  /\ [n \in Notifiers |-> Unread(n)] = U(changes)
           /\ ([n \in Notifiers |-> Unread(n)])' = U(changes')
  <1>1. [n \in Notifiers |-> Unread(n)] = U(changes)
    BY UnreadIs DEF U
  <1>2. ([n \in Notifiers |-> Unread(n)])' = U(changes')
    BY NextUnreadIs DEF U
  <1> QED
    BY <1>1, <1>2

LEMMA MapsToStutter ==
    ASSUME IInv, IInv', Unnoticed(changes, changes', called, called'), db'.doc = db.doc
    PROVE  UNCHANGED Promised!vars
  <1>1. U(changes') = U(changes)
    BY DEF Unnoticed, U
  <1>2. (Notifiers \cap Range(changes))' = Notifiers \cap Range(changes) /\ called' = called
    BY DEF Unnoticed, ObserversIn
  <1> QED
    BY <1>1, <1>2, Mapped DEF Promised!vars

LEMMA MapsToChange ==
    ASSUME IInv, IInv', NEW docs \in SUBSET Docs, docs # {}, Noticed(changes, changes', called, called', docs),
           \A d \in Docs \ docs : db'.doc[d] = db.doc[d]
    PROVE  Promised!Next
  <1>1. U(changes') = [n \in Notifiers |-> IF n \in Notifiers \cap Range(changes) THEN U(changes)[n] \cup docs
                                           ELSE U(changes)[n]]
    BY DEF Noticed, U, ObserversIn
  <1>2. (Notifiers \cap Range(changes))' = Notifiers \cap Range(changes)
    BY DEF Noticed, ObserversIn
  <1>3. /\ called \cup {n \in Notifiers \cap Range(changes) : U(changes)[n] = {}} \subseteq called'
        /\ called' \subseteq called \cup (Notifiers \cap Range(changes))
    BY DEF Noticed, ObserversIn
  <1>4. Promised!Change(docs)
    BY <1>1, <1>2, <1>3, Mapped DEF Promised!Change
  <1> QED
    BY <1>4 DEF Promised!Next

LEMMA MapsToAdd ==
    ASSUME IInv, IInv', NEW n \in Notifiers, Added(changes, changes', n), called' = called, db' = db
    PROVE  Promised!Next
  <1>1. U(changes') = U(changes)
    BY DEF Added, U
  <1>2. n \in Notifiers \ (Notifiers \cap Range(changes))
        /\ (Notifiers \cap Range(changes))' = (Notifiers \cap Range(changes)) \cup {n}
    BY DEF Added, ObserversIn
  <1>3. Promised!AddObserver(n)
    BY <1>1, <1>2, Mapped DEF Promised!AddObserver
  <1> QED
    BY <1>3 DEF Promised!Next

LEMMA MapsToRemove ==
    ASSUME IInv, IInv', NEW n \in Notifiers, Gone(changes, changes', called, called', n), db' = db
    PROVE  Promised!Next
  <1>1. U(changes') = [U(changes) EXCEPT ![n] = {}] /\ called' = called \ {n}
    BY DEF Gone, U
  <1>2. n \in Notifiers \cap Range(changes)
        /\ (Notifiers \cap Range(changes))' = (Notifiers \cap Range(changes)) \ {n}
    BY DEF Gone, ObserversIn
  <1>3. Promised!RemoveObserver(n)
    BY <1>1, <1>2, Mapped DEF Promised!RemoveObserver
  <1> QED
    BY <1>3 DEF Promised!Next

LEMMA MapsToRead ==
    ASSUME IInv, IInv', NEW n \in Notifiers, NEW docs \in SUBSET Docs,
           HasRead(changes, changes', called, called', n, docs), db' = db
    PROVE  Promised!Next
  <1>1. U(changes') = [U(changes) EXCEPT ![n] = @ \ docs] /\ docs # {} /\ docs \subseteq U(changes)[n]
        /\ called' = IF U(changes)[n] \subseteq docs THEN called \ {n} ELSE called
    BY DEF HasRead, U
  <1>2. n \in Notifiers \cap Range(changes)
        /\ (Notifiers \cap Range(changes))' = Notifiers \cap Range(changes)
    BY DEF HasRead, ObserversIn
  <1>3. Promised!Read(n, docs)
    BY <1>1, <1>2, Mapped DEF Promised!Read
  <1> QED
    BY <1>1, <1>2, <1>3, Mapped DEF Promised!Next

LEMMA InitIsPromised ==
    Init => Promised!Init
  <1> SUFFICES ASSUME Init PROVE Promised!Init
    OBVIOUS
  <1>1. changes = << >> /\ called = {} /\ Range(changes) = {}
    BY DEF Init, Range
  <1>2. \A n \in Notifiers : Unread(n) = {}
    BY <1>1 DEF Unread
  <1> QED
    BY <1>1, <1>2 DEF Promised!Init

LEMMA NextIsPromised ==
    IInv /\ [Next]_vars => [Promised!Next]_(Promised!vars)
  <1> SUFFICES ASSUME IInv, [Next]_vars PROVE Promised!Next \/ UNCHANGED Promised!vars
    OBVIOUS
  <1>0. IInv'
    BY NextKeepsIInv
  <1>1. CASE BeginTransaction
    BY <1>0, <1>1, BeginStep, MapsToStutter
  <1>2. CASE Commit
    BY <1>0, <1>2, CommitStep, MapsToStutter
  <1>3. CASE Abort
    <2> DEFINE docs == DocsAfter(changes, Transaction)
    <2>1. Noticed(changes, changes', called, called', docs) /\ \A c \in Docs \ docs : db'.doc[c] = db.doc[c]
      BY <1>3, AbortStep
    <2>2. docs \in SUBSET Docs
      BY DEF DocsAfter
    <2> HIDE DEF docs
    <2>3. CASE docs # {}
      BY <1>0, <2>1, <2>2, <2>3, MapsToChange
    <2>4. CASE docs = {}
      <3>1. Unnoticed(changes, changes', called, called')
        BY <2>1, <2>4 DEF Noticed, Unnoticed
      <3>2. db'.doc \in [Docs -> Nat] /\ db.doc \in [Docs -> Nat]
        BY <1>0 DEF IInv, Databases
      <3>3. db'.doc = db.doc
        BY <2>1, <2>4, <3>2
      <3>4. QED BY <1>0, <3>1, <3>3, MapsToStutter
    <2>5. QED BY <2>3, <2>4
  <1>4. ASSUME NEW d \in Docs, SaveDocument(d) \/ PurgeDocument(d) PROVE Promised!Next
    <2>1. Noticed(changes, changes', called, called', {d}) /\ \A c \in Docs \ {d} : db'.doc[c] = db.doc[c]
      BY <1>4, SaveStep, PurgeStep
    <2>2. {d} \in SUBSET Docs /\ {d} # {}
      OBVIOUS
    <2>3. QED BY <1>0, <2>1, <2>2, MapsToChange
  <1>5. ASSUME NEW docs \in ExternalChanges, NEW purged \in SUBSET Range(docs), AddExternalTransaction(docs, purged)
        PROVE  Promised!Next
    <2>1. /\ Noticed(changes, changes', called, called', Range(docs))
          /\ \A c \in Docs \ Range(docs) : db'.doc[c] = db.doc[c]
      BY <1>5, ExternalStep
    <2>2. Range(docs) \in SUBSET Docs /\ Range(docs) # {}
      BY ExternalIs
    <2>3. QED BY <1>0, <2>1, <2>2, MapsToChange
  <1>6. ASSUME NEW n \in Notifiers, AddNotifier(n) PROVE Promised!Next
    BY <1>0, <1>6, AddStep, MapsToAdd
  <1>7. ASSUME NEW n \in Notifiers, RemoveNotifier(n) PROVE Promised!Next
    BY <1>0, <1>7, RemoveStep, MapsToRemove
  <1>8. ASSUME NEW n \in Notifiers, NEW max \in 1 .. MaxRead, ReadChanges(n, max) PROVE Promised!Next
    <2>1. db' = db /\ \E docs \in SUBSET Docs : HasRead(changes, changes', called, called', n, docs)
      BY <1>8, ReadStep
    <2>2. QED BY <1>0, <2>1, MapsToRead
  <1>9. CASE \E w \in DocNotifiers : RemoveDocNotifier(w) \/ \E d \in Docs : AddDocNotifier(w, d)
    BY <1>0, <1>9, RemoveDocStep, AddDocStep, MapsToStutter
  <1>10. CASE UNCHANGED vars
    <2>1. changes' = changes /\ called' = called /\ db' = db
      BY <1>10 DEF vars, tracker
    <2>2. Unnoticed(changes, changes', called, called')
      BY <2>1 DEF Unnoticed
    <2>3. QED BY <1>0, <2>1, <2>2, MapsToStutter
  <1> QED
    BY <1>1, <1>2, <1>3, <1>4, <1>5, <1>6, <1>7, <1>8, <1>9, <1>10 DEF Next

(* The tracker's one list, with its placeholders, trimming and idle        *)
(* entries, gives every observer the set of changes ChangeObservers        *)
(* promises: each document that was saved, purged, reverted or changed by  *)
(* another connection, until it has read it.                               *)
THEOREM RefinesObservers == Spec => ImplementsObservers
  BY InitIsPromised, NextIsPromised, Invariant, PTL DEF Spec, ImplementsObservers, Promised!Spec
=============================================================================
