---------------------------- MODULE PullerProofs ----------------------------
(***************************************************************************)
(* Proofs about Puller: the RevFinder handles the lists of changes in      *)
(* order, the checkpoint passes no revision that may still arrive or be    *)
(* inserted, and the counters of both actors are right, whatever the       *)
(* limits, the number of changes, and the order in which revisions come,   *)
(* fail and come again.  PullerInvariant holds the inductive invariant.    *)
(***************************************************************************)
EXTENDS PullerInvariant, FiniteSetTheorems, WellFoundedInduction, TLAPS

USE DEF LightTypes, PlainTypes

-----------------------------------------------------------------------------
(***************************************************************************)
(* The set of missing sequences.                                           *)
(***************************************************************************)
LEMMA LeastNatural ==
    ASSUME NEW T \in SUBSET Nat, T # {}
    PROVE  \E d \in T : \A e \in T : d <= e
  <1> DEFINE R == OpToRel(<, Nat)
  <1>1. IsWellFoundedOn(R, Nat) BY NatLessThanWellFounded
  <1>2. \A x, y \in Nat : x < y => <<x, y>> \in R BY DEF OpToRel
  <1> HIDE DEF R
  <1>3. PICK d \in T : \A y \in T : ~(<<y, d>> \in R)
    <2>1. \E x \in T : \A y \in T : ~(<<y, x>> \in R) BY <1>1, WFMin
    <2>2. QED BY <2>1
  <1>4. ASSUME NEW e \in T PROVE d <= e
    <2>1. e \in Nat /\ d \in Nat OBVIOUS
    <2>2. ~(e < d) BY <1>2, <1>3, <2>1, Zenon
    <2>3. QED BY <2>1, <2>2
  <1>5. QED BY <1>4

(* The sequence before the earliest entry is below all that are missing.   *)
LEMMA SinceIsBelow ==
    ASSUME NEW set, GoodSet(set)
    PROVE  /\ Since(set) \in Nat /\ Since(set) <= set.lastAdded
           /\ \A s \in MissingSeqs(set) : Since(set) < s
  <1>1. set.lastAdded \in Nat /\ set.entries \subseteq Entries
    BY DEF GoodSet
  <1>2. CASE set.entries = {}
    <2>1. Since(set) = set.lastAdded
      BY <1>2 DEF GoodSet, FirstIsFirst, Since
    <2>2. MissingSeqs(set) = {} BY <1>2 DEF MissingSeqs
    <2>3. QED BY <1>1, <2>1, <2>2
  <1>3. CASE set.entries # {}
    <2>1. PICK e \in set.entries : set.first = e.seq /\ \A f \in set.entries : e.seq <= f.seq
      BY <1>3 DEF GoodSet, FirstIsFirst
    <2>2. e \in Entries BY <1>1
    <2>3. e.seq \in Nat /\ e.prev \in Nat BY <2>2 DEF Entries
    <2>4. set.first # None BY <2>1, <2>3, PullerAssumption
    <2>5. \A f \in set.entries : f.seq = set.first => f = e
      BY <2>1 DEF GoodSet, Ascending
    <2>6. (CHOOSE f \in set.entries : f.seq = set.first) = e BY <2>1, <2>5
    <2>7. Since(set) = e.prev BY <2>4, <2>6 DEF Since
    <2>8. e.prev < e.seq /\ e.seq <= set.lastAdded BY DEF GoodSet, Ascending
    <2>9. ASSUME NEW s \in MissingSeqs(set) PROVE e.prev < s
      <3>1. PICK f \in set.entries : s = f.seq BY DEF MissingSeqs
      <3>2. f.seq \in Nat BY <1>1 DEF Entries
      <3>3. e.seq <= f.seq BY <2>1
      <3>4. QED BY <2>3, <2>8, <3>1, <3>2, <3>3
    <2>10. QED BY <1>1, <2>3, <2>7, <2>8, <2>9
  <1>4. QED BY <1>2, <1>3

LEMMA NewSetIsGood == GoodSet(NewSet(0)) /\ MissingSeqs(NewSet(0)) = {}
  BY DEF GoodSet, NewSet, Ascending, FirstIsFirst, MissingSeqs

LEMMA AddIsGood ==
    ASSUME NEW set, GoodSet(set), NEW s \in Nat, set.lastAdded < s
    PROVE  /\ GoodSet(Add(set, s)) /\ Add(set, s).lastAdded = s
           /\ MissingSeqs(Add(set, s)) = MissingSeqs(set) \cup {s}
  <1> DEFINE entry == [seq |-> s, order |-> set.nextOrder, prev |-> set.lastAdded]
             new == Add(set, s)
  <1>1. set.nextOrder \in Nat /\ set.lastAdded \in Nat /\ set.entries \subseteq Entries /\ set.first \in Nat \cup {None}
    BY DEF GoodSet
  <1>2. \A e \in set.entries : e.seq \in Nat /\ e.order \in Nat /\ e.prev \in Nat
    BY <1>1 DEF Entries
  <1>3. \A e \in set.entries : e.order < set.nextOrder /\ e.seq <= set.lastAdded /\ e.prev < e.seq
    BY DEF GoodSet, Ascending
  <1>4. \A e \in set.entries : e.seq < s /\ e.seq # s BY <1>1, <1>2, <1>3
  <1>5. new = [entries |-> set.entries \cup {entry}, nextOrder |-> set.nextOrder + 1, lastAdded |-> s,
               first |-> IF set.entries = {} THEN s ELSE set.first]
    BY <1>4 DEF Add
  <1>6. entry \in Entries /\ entry.seq = s /\ entry.order = set.nextOrder /\ entry.prev = set.lastAdded
    BY <1>1 DEF Entries
  <1> HIDE DEF entry, new
  <1>7. new \in [entries : SUBSET Entries, nextOrder : Nat, lastAdded : Nat, first : Nat \cup {None}]
    BY <1>1, <1>5, <1>6
  <1>8. new.entries = set.entries \cup {entry} /\ new.nextOrder = set.nextOrder + 1 /\ new.lastAdded = s
        /\ new.first = IF set.entries = {} THEN s ELSE set.first
    BY <1>5
  <1>9. Ascending(new)
    <2>1. \A e \in new.entries : e.order < new.nextOrder /\ e.seq <= new.lastAdded /\ e.prev < e.seq
      BY <1>1, <1>2, <1>3, <1>4, <1>6, <1>8
    <2>2. ASSUME NEW e \in new.entries, NEW f \in new.entries
          PROVE  /\ e.order < f.order => e.seq < f.seq
                 /\ e.seq < f.seq => e.order < f.order /\ e.seq <= f.prev
                 /\ e.seq = f.seq => e = f
      <3>1. CASE e \in set.entries /\ f \in set.entries
        BY <3>1 DEF GoodSet, Ascending
      <3>2. CASE e \in set.entries /\ f = entry
        BY <1>1, <1>2, <1>3, <1>4, <1>6, <3>2
      <3>3. CASE e = entry /\ f \in set.entries
        <4>1. f.order < e.order /\ f.seq < e.seq /\ f.order \in Nat /\ e.order \in Nat /\ f.seq \in Nat /\ e.seq \in Nat
          BY <1>1, <1>2, <1>3, <1>4, <1>6, <3>3
        <4>2. ~(e.order < f.order) /\ ~(e.seq < f.seq) /\ e.seq # f.seq
          BY <4>1
        <4>3. QED BY <4>2
      <3>4. CASE e = entry /\ f = entry BY <1>1, <1>6, <3>4
      <3>5. QED BY <1>8, <3>1, <3>2, <3>3, <3>4
    <2>3. QED BY <2>1, <2>2 DEF Ascending
  <1>10. FirstIsFirst(new)
    <2>1. new.entries # {} BY <1>8
    <2>2. CASE set.entries = {}
      <3>1. new.first = entry.seq /\ new.entries = {entry}
        BY <1>6, <1>8, <2>2
      <3>2. QED BY <1>6, <2>1, <3>1 DEF FirstIsFirst
    <2>3. CASE set.entries # {}
      <3>1. PICK e \in set.entries : set.first = e.seq /\ \A f \in set.entries : e.seq <= f.seq
        BY <2>3 DEF GoodSet, FirstIsFirst
      <3>2. e \in new.entries /\ new.first = e.seq BY <1>8, <2>3, <3>1
      <3>3. \A f \in new.entries : e.seq <= f.seq
        BY <1>2, <1>4, <1>6, <1>8, <3>1
      <3>4. QED BY <2>1, <3>2, <3>3 DEF FirstIsFirst
    <2>4. QED BY <2>2, <2>3
  <1>11. MissingSeqs(new) = MissingSeqs(set) \cup {s}
    BY <1>6, <1>8 DEF MissingSeqs
  <1>12. QED BY <1>7, <1>8, <1>9, <1>10, <1>11 DEF GoodSet, new

LEMMA RemoveIs ==
    ASSUME NEW set \in [entries : SUBSET Entries, nextOrder : Nat, lastAdded : Nat, first : Nat \cup {None}], NEW A, NEW b
    PROVE  [set EXCEPT !.entries = A, !.first = b]
             = [entries |-> A, nextOrder |-> set.nextOrder, lastAdded |-> set.lastAdded, first |-> b]
  <1>1. PICK h : h = [set EXCEPT !.entries = A] OBVIOUS
  <1>2. h = [entries |-> A, nextOrder |-> set.nextOrder, lastAdded |-> set.lastAdded, first |-> set.first]
    BY <1>1
  <1>3. [set EXCEPT !.entries = A, !.first = b] = [h EXCEPT !.first = b]
    BY <1>1, Zenon
  <1>4. [h EXCEPT !.first = b] = [entries |-> A, nextOrder |-> set.nextOrder, lastAdded |-> set.lastAdded, first |-> b]
    BY <1>2
  <1>5. QED BY <1>3, <1>4, Zenon

LEMMA RemoveIsGood ==
    ASSUME NEW set, GoodSet(set), NEW S
    PROVE  /\ GoodSet(Remove(set, S)) /\ Remove(set, S).lastAdded = set.lastAdded
           /\ MissingSeqs(Remove(set, S)) = MissingSeqs(set) \ S
  <1> DEFINE rest == {e \in set.entries : e.seq \notin S}
             new == Remove(set, S)
             first == IF set.first \in S THEN FirstOf(rest) ELSE set.first
  <1>1. set.nextOrder \in Nat /\ set.lastAdded \in Nat /\ set.entries \subseteq Entries /\ set.first \in Nat \cup {None}
    BY DEF GoodSet
  <1>2. new = [entries |-> rest, nextOrder |-> set.nextOrder, lastAdded |-> set.lastAdded, first |-> first]
    <2>1. set \in [entries : SUBSET Entries, nextOrder : Nat, lastAdded : Nat, first : Nat \cup {None}]
      BY DEF GoodSet
    <2> DEFINE b == IF set.first \in S THEN FirstOf(rest) ELSE set.first
    <2>2. new = [set EXCEPT !.entries = rest, !.first = b] BY DEF Remove
    <2> HIDE DEF rest, b, new
    <2>3. new = [entries |-> rest, nextOrder |-> set.nextOrder, lastAdded |-> set.lastAdded, first |-> b]
      BY <2>1, <2>2, RemoveIs
    <2>4. QED BY <2>3 DEF b
  <1>3. rest \subseteq set.entries /\ \A e \in set.entries : e \in rest <=> e.seq \notin S
    OBVIOUS
  <1> HIDE DEF new, rest
  <1>4. new.entries = rest /\ new.nextOrder = set.nextOrder /\ new.lastAdded = set.lastAdded /\ new.first = first
    BY <1>2
  <1>5. \A e \in set.entries : e.seq \in Nat /\ e.order \in Nat /\ e.prev \in Nat
    BY <1>1 DEF Entries
  <1>6. Ascending(new) BY <1>3, <1>4 DEF GoodSet, Ascending
  <1>7. FirstIsFirst(new) /\ first \in Nat \cup {None}
    <2>1. CASE rest = {}
      <3>1. CASE set.first \in S
        BY <1>4, <2>1, <3>1 DEF FirstOf, FirstIsFirst
      <3>2. CASE set.first \notin S
        <4>1. set.entries = {}
          <5>1. SUFFICES ASSUME set.entries # {} PROVE FALSE OBVIOUS
          <5>2. PICK e \in set.entries : set.first = e.seq
            BY <5>1 DEF GoodSet, FirstIsFirst
          <5>3. QED BY <1>3, <2>1, <3>2, <5>2
        <4>2. set.first = None BY <4>1 DEF GoodSet, FirstIsFirst
        <4>3. QED BY <1>4, <2>1, <3>2, <4>2 DEF FirstIsFirst
      <3>3. QED BY <3>1, <3>2
    <2>2. CASE rest # {} /\ set.first \in S
      <3> DEFINE T == {e.order : e \in rest}
      <3>1. T \in SUBSET Nat /\ T # {} BY <1>3, <1>5, <2>2
      <3>2. PICK d \in T : \A x \in T : d <= x BY <3>1, LeastNatural
      <3>3. PICK e0 \in rest : d = e0.order BY <3>2
      <3>4. \A f \in rest : e0.order <= f.order BY <3>2, <3>3
      <3> DEFINE e == CHOOSE x \in rest : \A f \in rest : x.order <= f.order
      <3>5. e \in rest /\ \A f \in rest : e.order <= f.order BY <3>3, <3>4
      <3> HIDE DEF e, T
      <3>6. first = e.seq BY <2>2 DEF FirstOf, e
      <3>7. ASSUME NEW f \in rest PROVE e.seq <= f.seq
        <4>1. e \in set.entries /\ f \in set.entries /\ e.order <= f.order
          BY <1>3, <3>5
        <4>2. f.seq < e.seq => f.order < e.order
          BY <4>1 DEF GoodSet, Ascending
        <4>3. e.seq \in Nat /\ f.seq \in Nat /\ e.order \in Nat /\ f.order \in Nat
          BY <1>5, <4>1
        <4>4. QED BY <4>1, <4>2, <4>3
      <3>8. e.seq \in Nat BY <1>3, <1>5, <3>5
      <3> HIDE DEF first
      <3>9. QED BY <1>4, <2>2, <3>5, <3>6, <3>7, <3>8 DEF FirstIsFirst
    <2>3. CASE rest # {} /\ set.first \notin S
      <3>1. set.entries # {} BY <1>3, <2>3
      <3>2. PICK e \in set.entries : set.first = e.seq /\ \A f \in set.entries : e.seq <= f.seq
        BY <3>1 DEF GoodSet, FirstIsFirst
      <3>3. e \in rest /\ \A f \in rest : e.seq <= f.seq BY <1>3, <2>3, <3>2
      <3>4. first = e.seq BY <2>3, <3>2
      <3> HIDE DEF first
      <3>5. QED BY <1>4, <1>5, <2>3, <3>2, <3>3, <3>4 DEF FirstIsFirst
    <2>4. QED BY <2>1, <2>2, <2>3
  <1> HIDE DEF first
  <1>8. new \in [entries : SUBSET Entries, nextOrder : Nat, lastAdded : Nat, first : Nat \cup {None}]
    BY <1>1, <1>2, <1>3, <1>7
  <1>9. MissingSeqs(new) = MissingSeqs(set) \ S
    BY <1>3, <1>4 DEF MissingSeqs
  <1>10. QED BY <1>4, <1>6, <1>7, <1>8, <1>9 DEF GoodSet, new

LEMMA AddedExists ==
    ASSUME NEW set, NEW first \in Nat \ {0}, NEW last \in Nat, first <= last + 1
    PROVE  AddsExist(set, first, last)
  <1> DEFINE T == {n \in Nat : first <= n + 1 /\ ~AddsExist(set, first, n)}
  <1>1. SUFFICES ASSUME T # {} PROVE FALSE BY DEF T
  <1>2. PICK d \in T : \A e \in T : d <= e BY <1>1, LeastNatural
  <1>3. d \in Nat /\ first <= d + 1 /\ ~AddsExist(set, first, d) BY <1>2
  <1>4. CASE first = d + 1
    <2> DEFINE g == [s \in first - 1 .. d |-> set]
    <2>1. \A s \in first - 1 .. d : s < first BY <1>3, <1>4
    <2>2. g = [s \in first - 1 .. d |-> IF s < first THEN set ELSE Add(g[s - 1], s)]
      BY <2>1
    <2>3. Adds(g, set, first, d) BY <2>2 DEF Adds
    <2>4. QED BY <1>3, <2>3 DEF AddsExist
  <1>5. CASE first # d + 1
    <2>1. d - 1 \in Nat /\ first <= (d - 1) + 1 /\ ~(d <= d - 1)
      BY <1>3, <1>5
    <2>2. AddsExist(set, first, d - 1)
      <3>1. d - 1 \notin T BY <1>2, <2>1
      <3>2. QED BY <2>1, <3>1
    <2>3. PICK g : Adds(g, set, first, d - 1) BY <2>2 DEF AddsExist
    <2> DEFINE D == first - 1 .. d
               h == [s \in D |-> IF s = d THEN Add(g[d - 1], d) ELSE g[s]]
    <2>4. /\ \A s \in first - 1 .. d - 1 : g[s] = IF s < first THEN set ELSE Add(g[s - 1], s)
          /\ DOMAIN g = first - 1 .. d - 1
      BY <2>3 DEF Adds
    <2>5. ASSUME NEW s \in D PROVE h[s] = IF s < first THEN set ELSE Add(h[s - 1], s)
      <3>1. CASE s = d
        <4>1. ~(s < first) /\ d - 1 \in D /\ d - 1 # d /\ s - 1 = d - 1
          BY <1>3, <1>5, <2>1, <3>1
        <4>2. h[s] = Add(g[d - 1], d) /\ h[s - 1] = g[d - 1] BY <3>1, <4>1
        <4>3. QED BY <3>1, <4>1, <4>2
      <3>2. CASE s # d
        <4>1. s \in first - 1 .. d - 1 BY <1>3, <3>2
        <4>2. h[s] = g[s] BY <3>2
        <4>3. CASE s < first BY <2>4, <4>1, <4>2, <4>3
        <4>4. CASE ~(s < first)
          <5>1. s - 1 \in D /\ s - 1 # d BY <4>1, <4>4
          <5>2. h[s - 1] = g[s - 1] BY <5>1
          <5> HIDE DEF h
          <5>3. QED BY <2>4, <4>1, <4>2, <4>4, <5>2
        <4>5. QED BY <4>3, <4>4
      <3>3. QED BY <3>1, <3>2
    <2>6. PICK f : f = h OBVIOUS
    <2>7. f = [s \in D |-> f[s]] BY <2>6
    <2>8. \A s \in D : f[s] = IF s < first THEN set ELSE Add(f[s - 1], s)
      BY <2>5, <2>6
    <2> HIDE DEF h
    <2>9. [s \in D |-> f[s]] = [s \in D |-> IF s < first THEN set ELSE Add(f[s - 1], s)]
      BY <2>8
    <2>10. Adds(f, set, first, d) BY <2>7, <2>9 DEF Adds
    <2>11. QED BY <1>3, <2>10 DEF AddsExist
  <1>6. QED BY <1>4, <1>5

LEMMA AddAllIs ==
    ASSUME NEW set, NEW first \in Nat \ {0}, NEW last \in Nat, first <= last + 1
    PROVE  \E g : Adds(g, set, first, last) /\ AddAll(set, first, last) = g[last]
  <1> DEFINE g == CHOOSE h : Adds(h, set, first, last)
  <1>1. Adds(g, set, first, last) BY AddedExists DEF AddsExist
  <1>2. AddAll(set, first, last) = g[last] BY DEF AddAll, Adds
  <1>3. QED BY <1>1, <1>2

LEMMA AddAllIsGood ==
    ASSUME NEW set, GoodSet(set), NEW first \in Nat \ {0}, NEW last \in Nat, first <= last, set.lastAdded < first
    PROVE  AddedUpTo(AddAll(set, first, last), set, first, last)
  <1>1. first <= last + 1 /\ set.lastAdded \in Nat BY DEF GoodSet
  <1>2. PICK g : Adds(g, set, first, last) /\ AddAll(set, first, last) = g[last]
    BY <1>1, AddAllIs
  <1>3. \A s \in first - 1 .. last : g[s] = IF s < first THEN set ELSE Add(g[s - 1], s)
    BY <1>2 DEF Adds
  <1> DEFINE T == {n \in Nat : n \in first - 1 .. last /\ ~AddedUpTo(g[n], set, first, n)}
  <1>4. T = {}
    <2>1. SUFFICES ASSUME T # {} PROVE FALSE OBVIOUS
    <2>2. PICK d \in T : \A e \in T : d <= e BY <2>1, LeastNatural
    <2>3. d \in Nat /\ d \in first - 1 .. last /\ ~AddedUpTo(g[d], set, first, d)
      BY <2>2
    <2>4. CASE d < first
      <3>1. g[d] = set /\ first .. d = {} BY <1>3, <2>3, <2>4
      <3>2. QED BY <2>3, <2>4, <3>1 DEF AddedUpTo
    <2>5. CASE ~(d < first)
      <3>1. d - 1 \in Nat /\ d - 1 \in first - 1 .. last /\ ~(d <= d - 1)
        BY <2>3, <2>5
      <3>2. AddedUpTo(g[d - 1], set, first, d - 1)
        <4>1. d - 1 \notin T BY <2>2, <3>1
        <4>2. QED BY <3>1, <4>1
      <3> DEFINE old == g[d - 1]
      <3>3. GoodSet(old) /\ old.lastAdded < d /\ MissingSeqs(old) = MissingSeqs(set) \cup (first .. d - 1)
        <4>1. old.lastAdded = (IF d - 1 < first THEN set.lastAdded ELSE d - 1)
          BY <3>2 DEF AddedUpTo
        <4>2. old.lastAdded < d BY <1>1, <2>3, <2>5, <4>1
        <4>3. QED BY <3>2, <4>2 DEF AddedUpTo
      <3>4. g[d] = Add(old, d) BY <1>3, <2>3, <2>5
      <3> HIDE DEF old
      <3>5. GoodSet(g[d]) /\ g[d].lastAdded = d /\ MissingSeqs(g[d]) = MissingSeqs(old) \cup {d}
        BY <2>3, <3>3, <3>4, AddIsGood
      <3>6. (first .. d - 1) \cup {d} = first .. d BY <2>3, <2>5
      <3>7. QED BY <2>3, <2>5, <3>3, <3>5, <3>6 DEF AddedUpTo
    <2>6. QED BY <2>4, <2>5
  <1>5. last \in first - 1 .. last OBVIOUS
  <1>6. QED BY <1>2, <1>4, <1>5

-----------------------------------------------------------------------------
(***************************************************************************)
(* Mailboxes.                                                              *)
(***************************************************************************)
LEMMA ElementsOf ==
    ASSUME NEW S, NEW q \in Seq(S)
    PROVE  Elements(q) \subseteq S /\ DOMAIN q = 1 .. Len(q) /\ Len(q) \in Nat
  BY DEF Elements

LEMMA EmptyBox ==
    /\ Elements(<< >>) = {} /\ Lists(<< >>) = {} /\ RevIds(<< >>) = {} /\ RevokedSeqs(<< >>) = {}
    /\ InOrder(<< >>) /\ Distinct(<< >>) /\ WholeSecond(<< >>)
  BY DEF Elements, Lists, RevIds, RevokedSeqs, InOrder, Distinct, WholeSecond

LEMMA AppendElements ==
    ASSUME NEW S, NEW q \in Seq(S), NEW x \in S
    PROVE  Append(q, x) \in Seq(S) /\ Elements(Append(q, x)) = Elements(q) \cup {x}
  <1> DEFINE r == Append(q, x)
             n == Len(q)
  <1>1. r \in Seq(S) /\ DOMAIN r = 1 .. n + 1 /\ DOMAIN q = 1 .. n /\ n \in Nat
    OBVIOUS
  <1>2. (\A i \in 1 .. n : r[i] = q[i]) /\ r[n + 1] = x OBVIOUS
  <1> HIDE DEF r, n
  <1>3. ASSUME NEW y \in Elements(r) PROVE y \in Elements(q) \cup {x}
    <2>1. PICK i \in 1 .. n + 1 : r[i] = y BY <1>1 DEF Elements
    <2>2. i \in 1 .. n \/ i = n + 1
      BY <1>1
    <2>3. QED BY <1>1, <1>2, <2>1, <2>2 DEF Elements
  <1>4. ASSUME NEW y \in Elements(q) \cup {x} PROVE y \in Elements(r)
    <2>1. CASE y = x
      <3>1. n + 1 \in DOMAIN r /\ r[n + 1] = y BY <1>1, <1>2, <2>1
      <3>2. QED BY <3>1 DEF Elements
    <2>2. CASE y \in Elements(q)
      <3>1. PICK i \in 1 .. n : q[i] = y BY <1>1, <2>2 DEF Elements
      <3>2. i \in DOMAIN r /\ r[i] = y BY <1>1, <1>2, <3>1
      <3>3. QED BY <3>2 DEF Elements
    <2>3. QED BY <1>4, <2>1, <2>2
  <1>5. Elements(r) = Elements(q) \cup {x} BY <1>3, <1>4
  <1>6. QED BY <1>1, <1>5 DEF r

LEMMA TailElements ==
    ASSUME NEW S, NEW q \in Seq(S), q # << >>
    PROVE  /\ Head(q) \in S /\ Head(q) \in Elements(q)
           /\ Tail(q) \in Seq(S) /\ Elements(q) = {Head(q)} \cup Elements(Tail(q))
  <1> DEFINE r == Tail(q)
             n == Len(q)
             h == Head(q)
  <1>1. r \in Seq(S) /\ DOMAIN r = 1 .. n - 1 /\ DOMAIN q = 1 .. n /\ n \in Nat \ {0}
    OBVIOUS
  <1>2. (\A i \in 1 .. n - 1 : r[i] = q[i + 1]) /\ h = q[1] /\ h \in S
    OBVIOUS
  <1> HIDE DEF r, n, h
  <1>3. ASSUME NEW y \in Elements(q) PROVE y \in {h} \cup Elements(r)
    <2>1. PICK i \in 1 .. n : q[i] = y BY <1>1 DEF Elements
    <2>2. CASE i = 1 BY <1>2, <2>1, <2>2
    <2>3. CASE i # 1
      <3>1. i - 1 \in 1 .. n - 1 /\ (i - 1) + 1 = i BY <1>1, <2>3
      <3>2. r[i - 1] = y BY <1>2, <2>1, <3>1
      <3>3. QED BY <1>1, <3>1, <3>2 DEF Elements
    <2>4. QED BY <2>2, <2>3
  <1>4. h \in Elements(q)
    <2>1. 1 \in DOMAIN q BY <1>1
    <2>2. QED BY <1>2, <2>1 DEF Elements
  <1>5. ASSUME NEW y \in Elements(r) PROVE y \in Elements(q)
    <2>1. PICK i \in 1 .. n - 1 : r[i] = y BY <1>1 DEF Elements
    <2>2. i + 1 \in DOMAIN q /\ q[i + 1] = y BY <1>1, <1>2, <2>1
    <2>3. QED BY <2>2 DEF Elements
  <1>6. Elements(q) = {h} \cup Elements(r) BY <1>3, <1>4, <1>5
  <1>7. QED BY <1>1, <1>2, <1>4, <1>6 DEF r, h

LEMMA BoxOf ==
    ASSUME NEW q, NEW r, NEW x, HasBesides(q, r, x)
    PROVE  /\ Lists(q) = Lists(r) \cup ListOf(x) /\ RevIds(q) = RevIds(r) \cup RevIdOf(x)
           /\ RevokedSeqs(q) = RevokedSeqs(r) \cup RevokedOf(x)
  <1>1. Lists(q) = Lists(r) \cup ListOf(x) BY DEF Lists, ListOf, HasBesides
  <1>2. RevIds(q) = RevIds(r) \cup RevIdOf(x)
    <2>1. CASE IsRev(x) BY <2>1 DEF RevIds, RevIdOf, HasBesides
    <2>2. CASE ~IsRev(x) BY <2>2 DEF RevIds, RevIdOf, HasBesides
    <2>3. QED BY <2>1, <2>2
  <1>3. RevokedSeqs(q) = RevokedSeqs(r) \cup RevokedOf(x)
    <2>1. ASSUME NEW s \in RevokedSeqs(q) PROVE s \in RevokedSeqs(r) \cup RevokedOf(x)
      BY DEF RevokedSeqs, RevokedOf, HasBesides
    <2>2. ASSUME NEW s \in RevokedSeqs(r) PROVE s \in RevokedSeqs(q)
      BY DEF RevokedSeqs, HasBesides
    <2>3. ASSUME NEW s \in RevokedOf(x) PROVE s \in RevokedSeqs(q)
      BY DEF RevokedSeqs, RevokedOf, HasBesides
    <2>4. QED BY <2>1, <2>2, <2>3
  <1>4. QED BY <1>1, <1>2, <1>3

LEMMA BoxAppended ==
    ASSUME NEW S, NEW q \in Seq(S), NEW x \in S
    PROVE  /\ Append(q, x) \in Seq(S) /\ Elements(Append(q, x)) = Elements(q) \cup {x}
           /\ Lists(Append(q, x)) = Lists(q) \cup ListOf(x)
           /\ RevIds(Append(q, x)) = RevIds(q) \cup RevIdOf(x)
           /\ RevokedSeqs(Append(q, x)) = RevokedSeqs(q) \cup RevokedOf(x)
           /\ InOrder(q) /\ Before(Lists(q), ListOf(x)) => InOrder(Append(q, x))
           /\ Distinct(q) /\ RevIds(q) \cap RevIdOf(x) = {} => Distinct(Append(q, x))
  <1> DEFINE r == Append(q, x)
             n == Len(q)
  <1>1. r \in Seq(S) /\ DOMAIN r = 1 .. n + 1 /\ DOMAIN q = 1 .. n /\ n \in Nat
    OBVIOUS
  <1>2. (\A i \in 1 .. n : r[i] = q[i]) /\ r[n + 1] = x OBVIOUS
  <1>3. r \in Seq(S) /\ Elements(r) = {x} \cup Elements(q) BY AppendElements
  <1> HIDE DEF r, n
  <1>4. /\ Lists(r) = Lists(q) \cup ListOf(x) /\ RevIds(r) = RevIds(q) \cup RevIdOf(x)
        /\ RevokedSeqs(r) = RevokedSeqs(q) \cup RevokedOf(x)
    <2>1. HasBesides(r, q, x) BY <1>3 DEF HasBesides
    <2>2. QED BY <2>1, BoxOf
  <1>5. ASSUME InOrder(q), Before(Lists(q), ListOf(x)) PROVE InOrder(r)
    <2>1. SUFFICES ASSUME NEW i \in DOMAIN r, NEW j \in DOMAIN r, i < j, IsList(r[i]), IsList(r[j])
                   PROVE  r[i].last < r[j].first
      BY DEF InOrder
    <2>2. i \in DOMAIN q /\ r[i] = q[i] BY <1>1, <1>2, <2>1
    <2>3. CASE j \in DOMAIN q
      <3>1. r[j] = q[j] BY <1>1, <1>2, <2>3
      <3>2. QED BY <1>5, <2>1, <2>2, <2>3, <3>1 DEF InOrder
    <2>4. CASE j \notin DOMAIN q
      <3>1. r[j] = x BY <1>1, <1>2, <2>4
      <3>2. q[i] \in Lists(q) /\ x \in ListOf(x)
        BY <2>1, <2>2, <3>1 DEF Lists, ListOf, Elements
      <3>3. QED BY <1>5, <2>2, <3>1, <3>2 DEF Before
    <2>5. QED BY <2>3, <2>4
  <1>6. ASSUME Distinct(q), RevIds(q) \cap RevIdOf(x) = {} PROVE Distinct(r)
    <2>1. ASSUME NEW i \in DOMAIN q, IsRev(q[i]), IsRev(x) PROVE q[i].id # x.id
      <3>1. q[i].id \in RevIds(q) BY <2>1 DEF RevIds, Elements
      <3>2. x.id \in RevIdOf(x) BY <2>1 DEF RevIdOf
      <3>3. QED BY <1>6, <3>1, <3>2
    <2>2. SUFFICES ASSUME NEW i \in DOMAIN r, NEW j \in DOMAIN r, i # j, IsRev(r[i]), IsRev(r[j])
                   PROVE  r[i].id # r[j].id
      BY DEF Distinct
    <2>3. \A k \in DOMAIN r : (k \in DOMAIN q /\ r[k] = q[k]) \/ (k = n + 1 /\ r[k] = x)
      BY <1>1, <1>2
    <2>4. CASE i \in DOMAIN q /\ r[i] = q[i] /\ j \in DOMAIN q /\ r[j] = q[j]
      BY <1>6, <2>2, <2>4 DEF Distinct
    <2>5. CASE i \in DOMAIN q /\ r[i] = q[i] /\ r[j] = x BY <2>1, <2>2, <2>5
    <2>6. CASE r[i] = x /\ j \in DOMAIN q /\ r[j] = q[j] BY <2>1, <2>2, <2>6
    <2>7. QED BY <2>2, <2>3, <2>4, <2>5, <2>6
  <1>7. QED BY <1>3, <1>4, <1>5, <1>6 DEF r

(* ... and what the first one was.                                         *)
LEMMA BoxTail ==
    ASSUME NEW S, NEW q \in Seq(S), q # << >>
    PROVE  /\ Head(q) \in S /\ Tail(q) \in Seq(S) /\ Elements(q) = {Head(q)} \cup Elements(Tail(q))
           /\ Lists(q) = Lists(Tail(q)) \cup ListOf(Head(q))
           /\ RevIds(q) = RevIds(Tail(q)) \cup RevIdOf(Head(q))
           /\ RevokedSeqs(q) = RevokedSeqs(Tail(q)) \cup RevokedOf(Head(q))
           /\ InOrder(q) => InOrder(Tail(q)) /\ Before(ListOf(Head(q)), Lists(Tail(q)))
           /\ Distinct(q) => Distinct(Tail(q)) /\ RevIdOf(Head(q)) \cap RevIds(Tail(q)) = {}
  <1> DEFINE r == Tail(q)
             n == Len(q)
             h == Head(q)
  <1>1. r \in Seq(S) /\ DOMAIN r = 1 .. n - 1 /\ DOMAIN q = 1 .. n /\ n \in Nat \ {0}
    OBVIOUS
  <1>2. (\A i \in 1 .. n - 1 : r[i] = q[i + 1]) /\ h = q[1] OBVIOUS
  <1>3. h \in S /\ r \in Seq(S) /\ Elements(q) = {h} \cup Elements(r)
    BY TailElements
  <1> HIDE DEF r, n, h
  <1>4. /\ Lists(q) = Lists(r) \cup ListOf(h) /\ RevIds(q) = RevIds(r) \cup RevIdOf(h)
        /\ RevokedSeqs(q) = RevokedSeqs(r) \cup RevokedOf(h)
    <2>1. HasBesides(q, r, h) BY <1>3 DEF HasBesides
    <2>2. QED BY <2>1, BoxOf
  <1>5. \A i \in DOMAIN r : i + 1 \in DOMAIN q /\ r[i] = q[i + 1] /\ i + 1 # 1 /\ 1 < i + 1
    BY <1>1, <1>2
  <1>6. 1 \in DOMAIN q BY <1>1
  <1>7. ASSUME InOrder(q) PROVE InOrder(r) /\ Before(ListOf(h), Lists(r))
    <2>1. ASSUME NEW i \in DOMAIN r, NEW j \in DOMAIN r, i < j, IsList(r[i]), IsList(r[j]) PROVE r[i].last < r[j].first
      <3>1. i + 1 < j + 1 BY <1>1, <2>1
      <3>2. QED BY <1>5, <1>7, <2>1, <3>1 DEF InOrder
    <2>2. ASSUME NEW x \in ListOf(h), NEW y \in Lists(r) PROVE x.last < y.first
      <3>1. x = h /\ IsList(h) BY DEF ListOf
      <3>2. PICK i \in DOMAIN r : y = r[i] /\ IsList(r[i])
        BY DEF Lists, Elements
      <3>3. QED BY <1>2, <1>5, <1>6, <1>7, <3>1, <3>2 DEF InOrder
    <2>3. QED BY <2>1, <2>2 DEF InOrder, Before
  <1>8. ASSUME Distinct(q) PROVE Distinct(r) /\ RevIdOf(h) \cap RevIds(r) = {}
    <2>1. ASSUME NEW i \in DOMAIN r, NEW j \in DOMAIN r, i # j, IsRev(r[i]), IsRev(r[j]) PROVE r[i].id # r[j].id
      <3>1. i + 1 # j + 1 BY <1>1, <2>1
      <3>2. QED BY <1>5, <1>8, <2>1, <3>1 DEF Distinct
    <2>2. ASSUME NEW x \in RevIdOf(h), x \in RevIds(r) PROVE FALSE
      <3>1. x = h.id /\ IsRev(h) BY DEF RevIdOf
      <3>2. PICK i \in DOMAIN r : x = r[i].id /\ IsRev(r[i])
        BY <2>2 DEF RevIds, Elements
      <3>3. QED BY <1>2, <1>5, <1>6, <1>8, <3>1, <3>2 DEF Distinct
    <2>3. QED BY <2>1, <2>2 DEF Distinct
  <1>9. QED BY <1>3, <1>4, <1>7, <1>8 DEF r, h

LEMMA OnceAppended ==
    ASSUME NEW S, NEW q \in Seq(S), NEW x \in S, Once(q), x \notin Elements(q)
    PROVE  Once(Append(q, x))
  <1> DEFINE r == Append(q, x)
             n == Len(q)
  <1>1. r \in Seq(S) /\ DOMAIN r = 1 .. n + 1 /\ DOMAIN q = 1 .. n /\ n \in Nat
    OBVIOUS
  <1>2. (\A i \in 1 .. n : r[i] = q[i]) /\ r[n + 1] = x OBVIOUS
  <1> HIDE DEF r, n
  <1>3. SUFFICES ASSUME NEW i \in DOMAIN r, NEW j \in DOMAIN r, i # j PROVE r[i] # r[j]
    BY DEF Once, r
  <1>4. \A k \in DOMAIN r : (k \in DOMAIN q /\ r[k] = q[k]) \/ (k = n + 1 /\ r[k] = x)
    BY <1>1, <1>2
  <1>5. CASE i \in DOMAIN q /\ r[i] = q[i] /\ j \in DOMAIN q /\ r[j] = q[j]
    BY <1>3, <1>5 DEF Once
  <1>6. CASE (i \in DOMAIN q /\ r[i] = q[i] /\ r[j] = x) \/ (r[i] = x /\ j \in DOMAIN q /\ r[j] = q[j])
    BY <1>3, <1>6 DEF Elements
  <1>7. QED BY <1>3, <1>4, <1>5, <1>6

LEMMA OnceTail ==
    ASSUME NEW S, NEW q \in Seq(S), q # << >>, Once(q)
    PROVE  Once(Tail(q)) /\ Head(q) \notin Elements(Tail(q))
  <1> DEFINE r == Tail(q)
             n == Len(q)
             h == Head(q)
  <1>1. r \in Seq(S) /\ DOMAIN r = 1 .. n - 1 /\ DOMAIN q = 1 .. n /\ n \in Nat \ {0}
    OBVIOUS
  <1>2. (\A i \in 1 .. n - 1 : r[i] = q[i + 1]) /\ h = q[1] OBVIOUS
  <1> HIDE DEF r, n, h
  <1>3. \A i \in DOMAIN r : i + 1 \in DOMAIN q /\ r[i] = q[i + 1] /\ i + 1 # 1
    BY <1>1, <1>2
  <1>4. 1 \in DOMAIN q BY <1>1
  <1>5. ASSUME NEW i \in DOMAIN r, NEW j \in DOMAIN r, i # j PROVE r[i] # r[j]
    <2>1. i + 1 # j + 1 BY <1>1, <1>5
    <2>2. QED BY <1>3, <1>5, <2>1 DEF Once
  <1>6. ASSUME h \in Elements(r) PROVE FALSE
    <2>1. PICK i \in DOMAIN r : r[i] = h BY <1>6 DEF Elements
    <2>2. QED BY <1>2, <1>3, <1>4, <2>1 DEF Once
  <1>7. QED BY <1>5, <1>6 DEF Once, r, h

(***************************************************************************)
(* Messages that carry neither lists nor revisions make no difference.     *)
(***************************************************************************)
LEMMA MailKinds ==
    /\ \A m \in PlainMail : ~IsList(m) /\ ~IsRev(m) /\ m.t # "documentsRevoked" /\ m.t # "rev" /\ m \in PullerMail
    /\ \A m \in FinderMail : ~IsRev(m) /\ (IsList(m) <=> m.t = "changes") /\ (m.t = "changes" => m \in ChangesMail)
    /\ \A m \in PullerMail :
          /\ m.t = "rev" => m \in RevMail
          /\ m.t = "norev" => m.id \in Ids
          /\ m.t = "expectSequences" => m \in ExpectMail
          /\ m.t = "documentsRevoked" => m \in RevokedMail
          /\ IsList(m) <=> m.t = "expectSequences"
    /\ \A m \in ChangesMail : IsList(m) /\ ~IsRev(m) /\ m.first \in Nat /\ m.last \in Nat /\ m.t = "changes" /\ m \in FinderMail
    /\ \A m \in ExpectMail :
          IsList(m) /\ ~IsRev(m) /\ m.first \in Nat /\ m.last \in Nat /\ m.wanted \in SUBSET Seqs /\ m.t = "expectSequences"
          /\ m \in PullerMail
    /\ \A m \in RevMail : IsRev(m) /\ ~IsList(m) /\ m.id \in Ids /\ m.form \in AllForms /\ m.t = "rev" /\ m \in PullerMail
    /\ \A m \in RevokedMail :
          ~IsRev(m) /\ ~IsList(m) /\ m.seqs \in SUBSET Seqs /\ m.seqs # {} /\ m.t = "documentsRevoked" /\ m \in PullerMail
  <1>1. \A m \in PlainMail : ~IsList(m) /\ ~IsRev(m) /\ m.t # "documentsRevoked" /\ m.t # "rev" /\ m \in PullerMail
    BY DEF PlainMail, IsList, IsRev, PullerMail
  <1>2. \A m \in FinderMail : ~IsRev(m) /\ (IsList(m) <=> m.t = "changes") /\ (m.t = "changes" => m \in ChangesMail)
    BY DEF FinderMail, ChangesMail, IsRev, IsList
  <1>3. \A m \in PullerMail :
          /\ m.t = "rev" => m \in RevMail
          /\ m.t = "norev" => m.id \in Ids
          /\ m.t = "expectSequences" => m \in ExpectMail
          /\ m.t = "documentsRevoked" => m \in RevokedMail
          /\ IsList(m) <=> m.t = "expectSequences"
    <2>1. ASSUME NEW m \in PullerMail PROVE
            \/ m \in RevMail /\ m.t = "rev"
            \/ m.t = "norev" /\ m.id \in Ids
            \/ m \in ExpectMail /\ m.t = "expectSequences"
            \/ m \in RevokedMail /\ m.t = "documentsRevoked"
            \/ m.t \in PlainTypes
      BY DEF PullerMail, RevMail, ExpectMail, RevokedMail, PlainMail
    <2>2. QED BY <2>1 DEF IsList
  <1>4. \A m \in ChangesMail : IsList(m) /\ ~IsRev(m) /\ m.first \in Nat /\ m.last \in Nat /\ m.t = "changes" /\ m \in FinderMail
    BY DEF ChangesMail, IsList, IsRev, FinderMail
  <1>5. \A m \in ExpectMail :
          IsList(m) /\ ~IsRev(m) /\ m.first \in Nat /\ m.last \in Nat /\ m.wanted \in SUBSET Seqs /\ m.t = "expectSequences"
          /\ m \in PullerMail
    BY DEF ExpectMail, IsList, IsRev, PullerMail
  <1>6. \A m \in RevMail : IsRev(m) /\ ~IsList(m) /\ m.id \in Ids /\ m.form \in AllForms /\ m.t = "rev" /\ m \in PullerMail
    BY DEF RevMail, IsList, IsRev, PullerMail
  <1>7. \A m \in RevokedMail :
          ~IsRev(m) /\ ~IsList(m) /\ m.seqs \in SUBSET Seqs /\ m.seqs # {} /\ m.t = "documentsRevoked" /\ m \in PullerMail
    BY DEF RevokedMail, IsList, IsRev, PullerMail
  <1>8. QED BY <1>1, <1>2, <1>3, <1>4, <1>5, <1>6, <1>7

LEMMA QuietOf ==
    ASSUME NEW m, ~IsList(m), ~IsRev(m), m.t # "documentsRevoked"
    PROVE  ListOf(m) = {} /\ RevIdOf(m) = {} /\ RevokedOf(m) = {}
  BY DEF ListOf, RevIdOf, RevokedOf

LEMMA SameItself ==
    ASSUME NEW box \in Seq(PullerMail)
    PROVE  SameMail(box, box)
  BY DEF SameMail, SameLists, SameRevs

LEMMA PlainAppended ==
    ASSUME NEW box \in Seq(PullerMail), NEW m \in PlainMail
    PROVE  SameMail(box, Append(box, m))
  <1>1. m \in PullerMail /\ ~IsList(m) /\ ~IsRev(m) /\ m.t # "documentsRevoked" /\ m.t # "rev"
    BY MailKinds
  <1> DEFINE new == Append(box, m)
  <1>2. ListOf(m) = {} /\ RevIdOf(m) = {} /\ RevokedOf(m) = {}
    BY <1>1, QuietOf
  <1>3. Before(Lists(box), ListOf(m)) /\ RevIds(box) \cap RevIdOf(m) = {}
    BY <1>2 DEF Before
  <1>4. /\ new \in Seq(PullerMail) /\ Elements(new) = Elements(box) \cup {m}
        /\ Lists(new) = Lists(box) \cup ListOf(m)
        /\ RevIds(new) = RevIds(box) \cup RevIdOf(m)
        /\ RevokedSeqs(new) = RevokedSeqs(box) \cup RevokedOf(m)
        /\ InOrder(box) => InOrder(new)
        /\ Distinct(box) => Distinct(new)
    BY <1>1, <1>3, BoxAppended
  <1> HIDE DEF new
  <1>5. WholeSecond(box) => WholeSecond(new) BY <1>1, <1>4 DEF WholeSecond
  <1>6. QED BY <1>2, <1>4, <1>5 DEF SameMail, SameLists, SameRevs, new

LEMMA PlainTaken ==
    ASSUME NEW box \in Seq(PullerMail), box # << >>,
           Head(box).t \in PlainTypes
    PROVE  SameMail(box, Tail(box))
  <1> DEFINE h == Head(box)
             r == Tail(box)
  <1>1. /\ r \in Seq(PullerMail) /\ Elements(box) = {h} \cup Elements(r)
        /\ Lists(box) = Lists(r) \cup ListOf(h)
        /\ RevIds(box) = RevIds(r) \cup RevIdOf(h)
        /\ RevokedSeqs(box) = RevokedSeqs(r) \cup RevokedOf(h)
        /\ InOrder(box) => InOrder(r)
        /\ Distinct(box) => Distinct(r)
    BY BoxTail
  <1>2. ~IsList(h) /\ ~IsRev(h) /\ h.t # "documentsRevoked"
    BY DEF IsList, IsRev
  <1> HIDE DEF h, r
  <1>3. ListOf(h) = {} /\ RevIdOf(h) = {} /\ RevokedOf(h) = {}
    BY <1>2, QuietOf
  <1>4. WholeSecond(box) => WholeSecond(r) BY <1>1 DEF WholeSecond
  <1>5. QED BY <1>1, <1>3, <1>4 DEF SameMail, SameLists, SameRevs, r

LEMMA FinderSameItself ==
    ASSUME NEW box \in Seq(FinderMail)
    PROVE  FinderSame(box, box)
  BY DEF FinderSame, SameLists

LEMMA FinderAppended ==
    ASSUME NEW box \in Seq(FinderMail), NEW m \in FinderMail, m.t # "changes"
    PROVE  FinderSame(box, Append(box, m))
  <1> DEFINE new == Append(box, m)
  <1>1. ListOf(m) = {} BY MailKinds DEF ListOf
  <1>2. Before(Lists(box), ListOf(m)) BY <1>1 DEF Before
  <1>3. /\ new \in Seq(FinderMail) /\ Lists(new) = Lists(box) \cup ListOf(m)
        /\ InOrder(box) => InOrder(new)
    BY <1>2, BoxAppended
  <1> HIDE DEF new
  <1>4. QED BY <1>1, <1>3 DEF FinderSame, SameLists, new

LEMMA FinderTaken ==
    ASSUME NEW box \in Seq(FinderMail), box # << >>, Head(box).t # "changes"
    PROVE  FinderSame(box, Tail(box))
  <1> DEFINE h == Head(box)
             r == Tail(box)
  <1>1. /\ h \in FinderMail /\ r \in Seq(FinderMail) /\ Lists(box) = Lists(r) \cup ListOf(h)
        /\ InOrder(box) => InOrder(r)
    BY BoxTail
  <1>2. ListOf(h) = {} BY <1>1, MailKinds DEF ListOf
  <1> HIDE DEF h, r
  <1>3. QED BY <1>1, <1>2 DEF FinderSame, SameLists, r

-----------------------------------------------------------------------------
(***************************************************************************)
(* What the parts of the invariant depend on.                              *)
(***************************************************************************)
LEMMA TheInvariant == IInv <=> Typed /\ ListsInv /\ PlacesInv
  BY DEF IInv, ListsInv, PlacesInv

LEMMA Numbers == N \in Nat /\ Seqs = 1 .. N /\ Ids = Seqs \X {1, 2} /\ MaxRequested \in Nat
  BY PullerAssumption DEF Seqs, Ids

LEMMA SettledStays ==
    ASSUME FatesStay, NEW s \in Seqs, s <= announced, Settled(s)
    PROVE  Settled(s)'
  BY DEF FatesStay, Settled

LEMMA MailTypes ==
    ASSUME Typed
    PROVE  /\ \A m \in Pending : m.first \in Nat /\ m.last \in Nat
           /\ \A m \in Expected : m.first \in Nat /\ m.last \in Nat /\ m.wanted \in SUBSET Seqs
           /\ finder.waiting \in Seq(ChangesMail) /\ Elements(finder.waiting) \subseteq ChangesMail
           /\ Lists(finderBox) \subseteq ChangesMail /\ Expected \subseteq ExpectMail
           /\ finder.requested \in Int /\ finder.revoked \in Int /\ finder.draining \in BOOLEAN
           /\ waiting.revs \in Seq(RevMail) /\ waiting.revoked \in Seq(Seqs)
  <1>1. finder.waiting \in Seq(ChangesMail) /\ finder.requested \in Int /\ finder.revoked \in Int
        /\ finder.draining \in BOOLEAN /\ waiting.revs \in Seq(RevMail) /\ waiting.revoked \in Seq(Seqs)
    BY DEF Typed
  <1>2. Elements(finder.waiting) \subseteq ChangesMail BY <1>1, ElementsOf
  <1>3. Elements(finderBox) \subseteq FinderMail /\ Elements(pullerBox) \subseteq PullerMail
    BY ElementsOf DEF Typed
  <1>4. Lists(finderBox) \subseteq ChangesMail BY <1>3, MailKinds DEF Lists
  <1>5. Expected \subseteq ExpectMail BY <1>3, MailKinds DEF Expected, Lists
  <1>6. \A m \in Pending : m.first \in Nat /\ m.last \in Nat
    BY <1>2, <1>4, MailKinds DEF Pending
  <1>7. \A m \in Expected : m.first \in Nat /\ m.last \in Nat /\ m.wanted \in SUBSET Seqs
    BY <1>5, MailKinds
  <1>8. QED BY <1>1, <1>2, <1>4, <1>5, <1>6, <1>7

(* No sequence below the first missing one can still come.                 *)
LEMMA BelowIsSettled ==
    ASSUME Typed, GoodSet(missing), ListsKnown, AllCovered, NEW s \in 1 .. Since(missing)
    PROVE  Settled(s)
  <1>1. Since(missing) \in Nat /\ Since(missing) <= missing.lastAdded /\ \A x \in MissingSeqs(missing) : Since(missing) < x
    BY SinceIsBelow
  <1>2. missing.lastAdded \in Nat /\ missing.lastAdded <= N /\ missing.lastAdded <= announced /\ announced \in Nat
    BY DEF GoodSet, ListsKnown, Typed
  <1>3. s \in Seqs /\ s <= announced /\ s <= missing.lastAdded
    BY <1>1, <1>2, Numbers
  <1>4. s \notin MissingSeqs(missing) BY <1>1
  <1>5. ASSUME NEW m \in Pending \cup Expected, Covers(m, s) PROVE FALSE
    <2>1. missing.lastAdded < m.first BY DEF ListsKnown
    <2>2. m.first \in Nat /\ m.last \in Nat BY MailTypes
    <2>3. m.first <= s BY <1>3, <1>5, <2>2 DEF Covers
    <2>4. QED BY <1>2, <1>3, <2>1, <2>2, <2>3
  <1>6. QED BY <1>3, <1>4, <1>5 DEF AllCovered

LEMMA ListsStay ==
    ASSUME ListsKnown, ListsInOrder, AllCovered, ListsKept, FatesStay, missing'.lastAdded = missing.lastAdded,
           \A s \in MissingSeqs(missing) : s \in MissingSeqs(missing') \/ Settled(s)'
    PROVE  ListsKnown' /\ ListsInOrder' /\ AllCovered'
  <1>1. /\ announced' = announced /\ kind' = kind
        /\ Lists(finderBox') = Lists(finderBox) /\ Lists(pullerBox') = Lists(pullerBox)
        /\ InOrder(finderBox') /\ InOrder(pullerBox')
    BY DEF ListsKept, FinderSame, SameLists, ListsInOrder
  <1>2. Pending' = Pending /\ Expected' = Expected
    BY <1>1 DEF Pending, Expected, ListsKept
  <1>3. ListsKnown' BY <1>1, <1>2 DEF ListsKnown
  <1>4. ListsInOrder' BY <1>1, <1>2 DEF ListsInOrder, ListsKept
  <1>5. ASSUME NEW s \in Seqs, s <= announced
        PROVE  Settled(s)' \/ s \in MissingSeqs(missing') \/ \E m \in Pending \cup Expected : Covers(m, s)
    <2>1. CASE Settled(s) BY <1>5, <2>1, SettledStays
    <2>2. CASE s \in MissingSeqs(missing) BY <2>2
    <2>3. QED BY <1>5, <2>1, <2>2 DEF AllCovered
  <1>6. AllCovered' BY <1>1, <1>2, <1>5 DEF AllCovered
  <1>7. QED BY <1>3, <1>4, <1>6

LEMMA CheckpointStays ==
    ASSUME Typed, CheckpointKnown, ListsKnown, FatesStay, GoodSet(missing'), missing'.lastAdded \in Nat,
           missing.lastAdded <= missing'.lastAdded, lastSequence' = lastSequence
    PROVE  CheckpointKnown'
  <1>1. lastSequence \in Nat /\ missing.lastAdded \in Nat /\ lastSequence <= missing.lastAdded
        /\ missing.lastAdded <= N /\ missing.lastAdded <= announced /\ announced \in Nat
    BY DEF CheckpointKnown, GoodSet, ListsKnown, Typed
  <1>2. ASSUME NEW s \in 1 .. lastSequence PROVE Settled(s)'
    <2>1. s \in Seqs /\ s <= announced BY <1>1, Numbers
    <2>2. Settled(s) BY DEF CheckpointKnown, CheckpointedIsSettled, Settled
    <2>3. QED BY <2>1, <2>2, SettledStays
  <1>3. CheckpointedIsSettled'
    <2>1. \A s \in 1 .. lastSequence' : Settled(s)' BY <1>2
    <2>2. QED BY <2>1 DEF CheckpointedIsSettled, Settled
  <1>4. lastSequence' <= missing'.lastAdded BY <1>1
  <1>5. QED BY <1>3, <1>4 DEF CheckpointKnown

LEMMA BelowAreSettled ==
    Typed /\ GoodSet(missing) /\ ListsKnown /\ AllCovered => \A s \in 1 .. Since(missing) : Settled(s)
  BY BelowIsSettled

LEMMA CheckpointMoves ==
    ASSUME Typed', GoodSet(missing)', ListsKnown', AllCovered', lastSequence' = Since(missing)'
    PROVE  CheckpointKnown'
  <1>1. (\A s \in 1 .. Since(missing) : Settled(s))' BY BelowAreSettled, PTL
  <1>2. GoodSet(missing') /\ lastSequence' = Since(missing') OBVIOUS
  <1>3. lastSequence' <= missing'.lastAdded BY <1>2, SinceIsBelow
  <1>4. CheckpointedIsSettled'
    BY <1>1, <1>2 DEF CheckpointedIsSettled, Settled
  <1>5. QED BY <1>2, <1>3, <1>4 DEF CheckpointKnown

(* Where revisions are: nothing has moved, ...                             *)
LEMMA OnePlaceStays ==
    ASSUME OnePlace, kind' = kind, announced' = announced, inc' = inc,
           \A m \in Pending' : m \in Pending, \A id \in Coming' : id \in Coming
    PROVE  OnePlace'
  <1>1. WantedIds' = WantedIds BY DEF WantedIds
  <1>2. \A id \in Coming' : id \in WantedIds' /\ inc'[id].st = "none"
    BY <1>1 DEF OnePlace
  <1>3. \A id \in Ids : MayFail(id)' <=> MayFail(id) BY DEF MayFail
  <1>4. \A s \in Seqs : <<s, 1>> \in Ids BY DEF Ids
  <1>5. \A id \in Ids : MayFail(id)' => id[2] = 1 /\ id \in WantedIds'
    BY <1>1, <1>3 DEF OnePlace
  <1>6. \A s \in Seqs : <<s, 1>> \in Coming' \/ MayFail(<<s, 1>>)' => <<s, 2>> \notin Coming' /\ inc'[<<s, 2>>].st = "none"
    BY <1>3, <1>4 DEF OnePlace
  <1>7. \A m \in Pending' : \A s \in Seqs : Covers(m, s) /\ kind'[s] = "rev" =>
          \A i \in {1, 2} : <<s, i>> \notin Coming' /\ inc'[<<s, i>>].st = "none"
    BY DEF OnePlace
  <1>8. \A id \in Ids : inc'[id].st # "none" => id[1] <= announced'
    BY DEF OnePlace
  <1>9. QED BY <1>2, <1>5, <1>6, <1>7, <1>8 DEF OnePlace

LEMMA PairIs ==
    ASSUME NEW id \in Ids
    PROVE  id = <<id[1], id[2]>> /\ id[1] \in Seqs /\ id[2] \in {1, 2}
  BY DEF Ids

LEMMA MovedInc ==
    ASSUME Typed, NEW id \in Ids, NEW x, Moved(id, x)
    PROVE  \A j \in Ids : inc'[j] = IF j = id THEN x ELSE inc[j]
  BY DEF Typed, Moved

LEMMA OnePlaceAt ==
    ASSUME Typed, OnePlace, NEW id \in Ids, NEW x, Moved(id, x), x.st # "none",
           \A m \in Pending' : m \in Pending, \A j \in Coming' : j \in Coming, id \notin Coming', id[1] <= announced,
           id \in Coming \/ inc[id].st # "none" \/ id \notin WantedIds,
           x.st \in {"parsing", "queued"} /\ x.delta => id[2] = 1 /\ (id \in Coming \/ MayFail(id))
    PROVE  OnePlace'
  <1>1. \A j \in Ids : inc'[j] = IF j = id THEN x ELSE inc[j] BY MovedInc
  <1>2. kind' = kind /\ announced' = announced /\ WantedIds' = WantedIds
    BY DEF Moved, WantedIds
  <1>3. \A j \in Coming : j \in Ids BY DEF OnePlace, WantedIds
  <1>4. ASSUME NEW j \in Coming' PROVE j \in WantedIds' /\ inc'[j].st = "none"
    <2>1. j \in Coming /\ j # id /\ j \in Ids BY <1>3
    <2>2. QED BY <1>1, <1>2, <2>1 DEF OnePlace
  <1>5. ASSUME NEW j \in Ids, inc'[j].st # "none" PROVE j[1] <= announced'
    <2>1. CASE j = id BY <1>2, <2>1
    <2>2. CASE j # id BY <1>1, <1>2, <1>5, <2>2 DEF OnePlace
    <2>3. QED BY <2>1, <2>2
  <1>6. \A j \in Ids : j # id => (MayFail(j)' <=> MayFail(j))
    BY <1>1 DEF MayFail
  <1>7. MayFail(id)' => id[2] = 1 /\ (id \in Coming \/ MayFail(id))
    BY <1>1 DEF MayFail
  <1>8. ASSUME NEW j \in Ids, MayFail(j)' PROVE j[2] = 1 /\ j \in WantedIds'
    <2>1. CASE j = id BY <1>2, <1>7, <1>8, <2>1 DEF OnePlace
    <2>2. CASE j # id BY <1>2, <1>6, <1>8, <2>2 DEF OnePlace
    <2>3. QED BY <2>1, <2>2
  <1>9. ASSUME NEW s \in Seqs, <<s, 1>> \in Coming' \/ MayFail(<<s, 1>>)'
        PROVE  <<s, 2>> \notin Coming' /\ inc'[<<s, 2>>].st = "none"
    <2>1. <<s, 1>> \in Ids /\ <<s, 2>> \in Ids BY DEF Ids
    <2>2. <<s, 1>> \in Coming \/ MayFail(<<s, 1>>)
      BY <1>6, <1>7, <1>9, <2>1
    <2>3. <<s, 2>> \notin Coming /\ inc[<<s, 2>>].st = "none"
      BY <2>2 DEF OnePlace
    <2>4. <<s, 2>> # id
      <3>1. SUFFICES ASSUME <<s, 2>> = id PROVE FALSE OBVIOUS
      <3>2. <<s, 1>> \in WantedIds BY <2>1, <2>2 DEF OnePlace
      <3>3. id \in WantedIds BY <2>1, <3>1, <3>2 DEF WantedIds
      <3>4. QED BY <2>3, <3>1, <3>3
    <2>5. QED BY <1>1, <2>1, <2>3, <2>4
  <1>10. ASSUME NEW m \in Pending', NEW s \in Seqs, Covers(m, s), kind'[s] = "rev", NEW i \in {1, 2}
         PROVE  <<s, i>> \notin Coming' /\ inc'[<<s, i>>].st = "none"
    <2>1. m \in Pending /\ kind[s] = "rev" /\ <<s, i>> \in Ids
      BY <1>2, <1>10 DEF Ids
    <2>2. <<s, i>> \notin Coming /\ inc[<<s, i>>].st = "none"
      BY <1>10, <2>1 DEF OnePlace
    <2>3. <<s, i>> # id
      <3>1. SUFFICES ASSUME <<s, i>> = id PROVE FALSE OBVIOUS
      <3>2. id \in WantedIds BY <2>1, <3>1 DEF WantedIds
      <3>3. QED BY <2>2, <3>1, <3>2
    <2>4. QED BY <1>1, <2>1, <2>2, <2>3
  <1>11. QED BY <1>4, <1>5, <1>8, <1>9, <1>10 DEF OnePlace

(* A revision whose delta failed is asked for again.                       *)
LEMMA OnePlaceAsked ==
    ASSUME Typed, OnePlace, NEW id \in Ids, NEW x, Moved(id, x), x.st = "finishing", MayFail(id),
           \A m \in Pending' : m \in Pending, \A j \in Coming' : j \in Coming \/ j = <<id[1], 2>>
    PROVE  OnePlace'
  <1>1. \A j \in Ids : inc'[j] = IF j = id THEN x ELSE inc[j] BY MovedInc
  <1>2. kind' = kind /\ announced' = announced /\ WantedIds' = WantedIds
    BY DEF Moved, WantedIds
  <1>3. \A j \in Coming : j \in Ids BY DEF OnePlace, WantedIds
  <1> DEFINE again == <<id[1], 2>>
  <1>4. id[2] = 1 /\ id \in WantedIds /\ id = <<id[1], 1>> /\ id[1] \in Seqs /\ again \in Ids /\ again # id
    <2>1. id[2] = 1 /\ id \in WantedIds BY DEF OnePlace
    <2>2. id = <<id[1], id[2]>> /\ id[1] \in Seqs BY PairIs
    <2>3. again \in Ids /\ again[2] = 2 BY <2>2 DEF Ids
    <2>4. QED BY <2>1, <2>2, <2>3
  <1>5. again \notin Coming /\ inc[again].st = "none" /\ again \in WantedIds
    <2>1. MayFail(<<id[1], 1>>) BY <1>4
    <2>2. again \notin Coming /\ inc[again].st = "none"
      BY <1>4, <2>1 DEF OnePlace
    <2>3. again[1] = id[1] OBVIOUS
    <2>4. QED BY <1>4, <2>2, <2>3 DEF WantedIds
  <1>6. inc[id].st # "none" /\ id \notin Coming BY DEF MayFail, OnePlace
  <1> HIDE DEF again
  <1>7. \A j \in Coming' : j \in Coming \/ j = again
    BY DEF again
  <1>8. ASSUME NEW j \in Coming' PROVE j \in WantedIds' /\ inc'[j].st = "none"
    <2>1. CASE j = again BY <1>1, <1>2, <1>4, <1>5, <2>1
    <2>2. CASE j \in Coming BY <1>1, <1>2, <1>3, <1>6, <2>2 DEF OnePlace
    <2>3. QED BY <1>7, <2>1, <2>2
  <1>9. ASSUME NEW j \in Ids, inc'[j].st # "none" PROVE j[1] <= announced'
    <2>1. inc[j].st # "none" BY <1>1, <1>6, <1>9
    <2>2. QED BY <1>2, <2>1 DEF OnePlace
  <1>10. \A j \in Ids : MayFail(j)' => MayFail(j) /\ j # id
    BY <1>1 DEF MayFail
  <1>11. ASSUME NEW j \in Ids, MayFail(j)' PROVE j[2] = 1 /\ j \in WantedIds'
    BY <1>2, <1>10, <1>11 DEF OnePlace
  <1>12. ASSUME NEW s \in Seqs, <<s, 1>> \in Coming' \/ MayFail(<<s, 1>>)'
         PROVE  <<s, 2>> \notin Coming' /\ inc'[<<s, 2>>].st = "none"
    <2>1. <<s, 1>> \in Ids /\ <<s, 2>> \in Ids /\ <<s, 1>> # again /\ <<s, 2>> # id
      BY <1>4 DEF Ids, again
    <2>2. (<<s, 1>> \in Coming \/ MayFail(<<s, 1>>)) /\ <<s, 1>> # id
      BY <1>6, <1>7, <1>10, <1>12, <2>1
    <2>3. <<s, 2>> \notin Coming /\ inc[<<s, 2>>].st = "none"
      BY <2>2 DEF OnePlace
    <2>4. <<s, 2>> # again
      <3>1. s # id[1] BY <1>4, <2>2
      <3>2. QED BY <3>1 DEF again
    <2>5. QED BY <1>1, <1>7, <2>1, <2>3, <2>4
  <1>13. ASSUME NEW m \in Pending', NEW s \in Seqs, Covers(m, s), kind'[s] = "rev", NEW i \in {1, 2}
         PROVE  <<s, i>> \notin Coming' /\ inc'[<<s, i>>].st = "none"
    <2>1. m \in Pending /\ kind[s] = "rev" /\ <<s, i>> \in Ids
      BY <1>2, <1>13 DEF Ids
    <2>2. \A k \in {1, 2} : <<s, k>> \notin Coming /\ inc[<<s, k>>].st = "none"
      BY <1>13, <2>1 DEF OnePlace
    <2>3. s # id[1]
      <3>1. s = id[1] => inc[id].st = "none" BY <1>4, <2>2
      <3>2. QED BY <1>6, <3>1
    <2>4. <<s, i>> # id /\ <<s, i>> # again BY <1>4, <2>3 DEF again
    <2>5. QED BY <1>1, <1>7, <2>1, <2>2, <2>4
  <1>14. QED BY <1>8, <1>9, <1>11, <1>12, <1>13 DEF OnePlace

(* The Inserter's queues: nothing has moved, ...                           *)
LEMMA WorkersStay ==
    ASSUME Typed, WorkersKnown, FatesStay, OnePlace, kind' = kind, announced' = announced, inc' = inc,
           toInsert' = toInsert, batch' = batch, inserted' = inserted, returning' = returning,
           \A s \in RevokedSeqs(pullerBox') \cup Elements(waiting'.revoked) :
               s \in RevokedSeqs(pullerBox) \cup Elements(waiting.revoked) \/ kind[s] = "revoked"
    PROVE  WorkersKnown'
  <1>1. WantedIds' = WantedIds BY DEF WantedIds
  <1>2. AreAll(Elements(toInsert), "queued")' /\ AreAll(Elements(batch), "queued")'
        /\ AreAll(Elements(inserted), "inserted")' /\ AreAll(returning, "returned")'
    BY <1>1 DEF WorkersKnown, AreAll
  <1>3. ASSUME NEW id \in Ids, inc'[id].st \in {"finishing", "returned"}, ~inc'[id].transient PROVE Settled(id[1])'
    <2>1. Settled(id[1]) /\ id[1] <= announced /\ id[1] \in Seqs
      <3>1. inc[id].st # "none" BY <1>3
      <3>2. QED BY <1>3, <3>1, PairIs DEF WorkersKnown, OnePlace
    <2>2. QED BY <2>1, SettledStays
  <1>4. \A s \in RevokedSeqs(pullerBox') \cup Elements(waiting'.revoked) : kind'[s] = "revoked"
    BY DEF WorkersKnown
  <1>5. Once(toInsert)' /\ Once(batch)' /\ Once(inserted)' /\ (Elements(toInsert) \cap Elements(batch) = {})'
    BY DEF WorkersKnown
  <1>6. \A id \in Ids : (inc'[id].delta => id \in WantedIds') /\ ProvIsRight(inc'[id])
    BY <1>1 DEF WorkersKnown
  <1>7. QED BY <1>2, <1>3, <1>4, <1>5, <1>6 DEF WorkersKnown

LEMMA WorkersAt ==
    ASSUME Typed, WorkersKnown, FatesStay, OnePlace, NEW id \in Ids, NEW x, Moved(id, x), id[1] <= announced,
           QueuesMoved(id), QueuesRight(id, x.st),
           Once(toInsert'), Once(batch'), Once(inserted'), ProvIsRight(x),
           x.st \in {"finishing", "returned"} /\ ~x.transient => Settled(id[1])', x.delta => id \in WantedIds,
           \A s \in RevokedSeqs(pullerBox') \cup Elements(waiting'.revoked) :
               s \in RevokedSeqs(pullerBox) \cup Elements(waiting.revoked) \/ kind[s] = "revoked"
    PROVE  WorkersKnown'
  <1>1. \A j \in Ids : inc'[j] = IF j = id THEN x ELSE inc[j] BY MovedInc
  <1>2. WantedIds' = WantedIds /\ kind' = kind /\ announced' = announced /\ WantedIds \subseteq Ids
    BY DEF WantedIds, Moved
  <1>3. toInsert \in Seq(Ids) /\ batch \in Seq(Ids) /\ inserted \in Seq(Ids) /\ returning \in SUBSET Ids
    BY DEF Typed
  <1>4. ASSUME NEW S \in SUBSET Ids, NEW T, NEW st, AreAll(S, st), \A j \in T : j = id \/ j \in S, id \in T => x.st = st
        PROVE  \A j \in T : inc'[j].st = st
    BY <1>1, <1>4 DEF AreAll
  <1>5. Elements(toInsert) \in SUBSET Ids /\ Elements(batch) \in SUBSET Ids /\ Elements(inserted) \in SUBSET Ids
    BY <1>3, ElementsOf
  <1>6. /\ \A j \in Elements(toInsert') : inc'[j].st = "queued"
        /\ \A j \in Elements(batch') : inc'[j].st = "queued"
        /\ \A j \in Elements(inserted') : inc'[j].st = "inserted"
        /\ \A j \in returning' : inc'[j].st = "returned"
    BY <1>3, <1>4, <1>5 DEF WorkersKnown, QueuesMoved, QueuesRight
  <1>7. AreAll(Elements(toInsert), "queued")' /\ AreAll(Elements(batch), "queued")'
        /\ AreAll(Elements(inserted), "inserted")' /\ AreAll(returning, "returned")'
    BY <1>6 DEF AreAll
  <1>8. ASSUME NEW j \in Ids, inc'[j].st \in {"finishing", "returned"}, ~inc'[j].transient PROVE Settled(j[1])'
    <2>1. CASE j = id BY <1>1, <1>8, <2>1
    <2>2. CASE j # id
      <3>1. inc[j].st \in {"finishing", "returned"} /\ ~inc[j].transient
        BY <1>1, <1>8, <2>2
      <3>2. inc[j].st # "none" BY <3>1
      <3>3. Settled(j[1]) /\ j[1] <= announced /\ j[1] \in Seqs
        BY <3>1, <3>2, PairIs DEF WorkersKnown, OnePlace
      <3>4. QED BY <3>3, SettledStays
    <2>3. QED BY <2>1, <2>2
  <1>9. \A s \in RevokedSeqs(pullerBox') \cup Elements(waiting'.revoked) : kind'[s] = "revoked"
    BY <1>2 DEF WorkersKnown
  <1>10. ASSUME NEW j \in Elements(toInsert'), j \in Elements(batch') PROVE FALSE
    <2>1. CASE j = id BY <1>10, <2>1 DEF QueuesRight
    <2>2. CASE j # id
      <3>1. j \in Elements(toInsert) /\ j \in Elements(batch)
        BY <1>10, <2>2 DEF QueuesMoved
      <3>2. QED BY <1>10, <3>1 DEF WorkersKnown
    <2>3. QED BY <2>1, <2>2
  <1>11. Once(toInsert)' /\ Once(batch)' /\ Once(inserted)' /\ (Elements(toInsert) \cap Elements(batch) = {})'
    BY <1>10
  <1>12. ASSUME NEW j \in Ids PROVE (inc'[j].delta => j \in WantedIds') /\ ProvIsRight(inc'[j])
    <2>1. CASE j = id BY <1>1, <1>2, <2>1
    <2>2. CASE j # id BY <1>1, <1>2, <2>2 DEF WorkersKnown
    <2>3. QED BY <2>1, <2>2
  <1>13. QED BY <1>7, <1>8, <1>9, <1>11, <1>12 DEF WorkersKnown

(* An IncomingRev is in the queue that its status says.                    *)
LEMMA InQueue ==
    ASSUME WorkersKnown, NEW id \in Ids
    PROVE  /\ id \in Elements(toInsert) \cup Elements(batch) => inc[id].st = "queued"
           /\ id \in Elements(inserted) => inc[id].st = "inserted"
           /\ id \in returning => inc[id].st = "returned"
  BY DEF WorkersKnown, AreAll

(* Which revisions may still come does not change.                         *)
LEMMA ComingStays ==
    ASSUME ComingOnce, SameRevs(pullerBox, pullerBox'), waiting'.revs = waiting.revs, \A id \in owed' : id \in owed
    PROVE  ComingOnce' /\ \A id \in Coming' : id \in Coming
  <1>1. RevIds(pullerBox') = RevIds(pullerBox) /\ Distinct(pullerBox') /\ WholeSecond(pullerBox')
    BY DEF ComingOnce, SameRevs
  <1>2. ComingOnce' BY <1>1 DEF ComingOnce
  <1>3. QED BY <1>1, <1>2 DEF Coming

LEMMA QuietIsSafe ==
    ASSUME IInv, QuietStep
    PROVE  IInv'
  <1>1. Typed /\ ListsInv /\ PlacesInv BY TheInvariant
  <1>2. Typed' BY <1>1 DEF Typed, QuietStep, FinderSame, SameMail
  <1>3. FatesStay BY DEF FatesStay, QuietStep
  <1>4. ListsKept /\ SameRevs(pullerBox, pullerBox')
    BY DEF ListsKept, QuietStep, SameMail
  <1>5. ListsKnown' /\ ListsInOrder' /\ AllCovered'
    BY <1>1, <1>3, <1>4, ListsStay DEF QuietStep, ListsInv
  <1>6. CheckpointKnown'
    <2>1. missing' = missing /\ lastSequence' = lastSequence /\ GoodSet(missing) /\ missing.lastAdded \in Nat
      BY <1>1 DEF QuietStep, ListsInv, CheckpointKnown, GoodSet
    <2>2. GoodSet(missing') /\ missing'.lastAdded \in Nat /\ missing.lastAdded <= missing'.lastAdded
      BY <2>1
    <2>3. QED BY <1>1, <1>3, <2>1, <2>2, CheckpointStays DEF ListsInv
  <1>7. ListsInv' BY <1>5, <1>6 DEF ListsInv, QuietStep
  <1>8. ComingOnce' /\ \A id \in Coming' : id \in Coming
    BY <1>1, <1>4, ComingStays DEF PlacesInv, QuietStep
  <1>9. \A m \in Pending' : m \in Pending
    BY <1>4 DEF Pending, ListsKept, FinderSame, SameLists
  <1>10. OnePlace'
    BY <1>1, <1>8, <1>9, OnePlaceStays DEF PlacesInv, QuietStep
  <1>11. WorkersKnown'
    <2>1. RevokedSeqs(pullerBox') = RevokedSeqs(pullerBox)
      BY <1>4 DEF SameRevs
    <2>2. QED BY <1>1, <1>3, <2>1, WorkersStay DEF PlacesInv, QuietStep
  <1>12. QED BY <1>2, <1>7, <1>8, <1>10, <1>11, TheInvariant DEF PlacesInv, IInv, ListsInv

-----------------------------------------------------------------------------
(***************************************************************************)
(* The invariant holds initially, and is kept by the steps that change     *)
(* neither lists nor revisions.                                            *)
(***************************************************************************)
LEMMA InitIsSafe == Init => IInv
  <1> SUFFICES ASSUME Init PROVE IInv OBVIOUS
  <1>1. Typed BY Numbers DEF Init, Typed, NoInc, Statuses, Fates, Ids, Seqs
  <1>2. /\ finder.waiting = << >> /\ finderBox = << >> /\ pullerBox = << >> /\ waiting.revs = << >> /\ waiting.revoked = << >>
        /\ toInsert = << >> /\ batch = << >> /\ inserted = << >> /\ owed = {} /\ returning = {}
        /\ missing = NewSet(0) /\ lastSequence = 0 /\ announced = 0
        /\ (\A s \in Seqs : kind[s] = "none") /\ (\A id \in Ids : inc[id].st = "none")
    BY DEF Init, NoInc
  <1>3. Pending = {} /\ Expected = {} /\ Coming = {}
    BY <1>2, EmptyBox DEF Pending, Expected, Coming
  <1>4. GoodSet(missing) /\ missing.lastAdded = 0
    BY <1>2, NewSetIsGood DEF NewSet
  <1>5. CheckpointKnown
    BY <1>2, <1>4 DEF CheckpointKnown, CheckpointedIsSettled
  <1>6. ListsKnown BY <1>2, <1>3, <1>4, Numbers DEF ListsKnown
  <1>7. ListsInOrder BY <1>2, <1>3, EmptyBox DEF ListsInOrder, Before
  <1>8. AllCovered BY <1>2, Numbers DEF AllCovered
  <1>9. ChangesInOrder BY <1>2 DEF ChangesInOrder
  <1>10. ComingOnce BY <1>2, EmptyBox DEF ComingOnce
  <1>11. \A s \in Seqs : <<s, 1>> \in Ids /\ <<s, 2>> \in Ids BY DEF Ids
  <1>12. OnePlace BY <1>2, <1>3, <1>11 DEF OnePlace, MayFail
  <1>13. WorkersKnown
    <2>1. Once(<< >>) BY DEF Once
    <2>2. \A id \in Ids : ~inc[id].delta /\ ProvIsRight(inc[id])
      BY DEF Init, NoInc, ProvIsRight
    <2>3. QED BY <1>2, <2>1, <2>2, EmptyBox DEF WorkersKnown, AreAll
  <1>14. QED BY <1>1, <1>5, <1>6, <1>7, <1>8, <1>9, <1>10, <1>12, <1>13 DEF IInv

LEMMA StutterIsSafe == IInv /\ UNCHANGED vars => IInv'
  <1> SUFFICES ASSUME IInv, UNCHANGED vars PROVE IInv' OBVIOUS
  <1>1. QuietStep
    <2>1. Typed /\ ChangesInOrder BY DEF IInv
    <2>2. FinderSame(finderBox, finderBox) /\ SameMail(pullerBox, pullerBox)
      BY <2>1, FinderSameItself, SameItself DEF Typed
    <2>3. finderBox' = finderBox /\ pullerBox' = pullerBox /\ finder' = finder
      BY DEF vars, puller
    <2>4. ChangesInOrder'
      BY <2>1, <2>3 DEF ChangesInOrder, PullerHasCapacity
    <2>5. QED BY <2>1, <2>2, <2>3, <2>4 DEF QuietStep, Typed, vars, peer, puller, workers, history
  <1>2. QED BY <1>1, QuietIsSafe

(* The Puller's mailbox gets a plain message, or loses one.                *)
LEMMA QuietPuller ==
    ASSUME IInv, finder' = finder, SameMail(pullerBox, pullerBox'), FinderSame(finderBox, finderBox'),
           \A id \in owed' : id \in owed,
           UNCHANGED <<announced, kind, waiting, missing, lastSequence, inc, returning, toInsert, batch, inserted, fate, askedAgain>>
    PROVE  IInv'
  <1>1. Typed /\ ChangesInOrder BY DEF IInv
  <1>2. ChangesInOrder' BY <1>1 DEF ChangesInOrder, PullerHasCapacity
  <1>3. QuietStep BY <1>1, <1>2 DEF QuietStep, Typed
  <1>4. QED BY <1>3, QuietIsSafe

LEMMA CloseIsSafe == IInv /\ (Close \/ OnClose \/ Reply) => IInv'
  <1> SUFFICES ASSUME IInv, Close \/ OnClose \/ Reply PROVE IInv'
    OBVIOUS
  <1>1. pullerBox \in Seq(PullerMail) /\ finderBox \in Seq(FinderMail)
    BY DEF IInv, Typed
  <1>2. SameMail(pullerBox, pullerBox) /\ FinderSame(finderBox, finderBox)
    BY <1>1, SameItself, FinderSameItself
  <1>3. CASE Close
    <2>1. /\ owed' = {} /\ finder' = finder /\ finderBox' = finderBox /\ pullerBox' = pullerBox
          /\ UNCHANGED <<announced, kind, waiting, missing, lastSequence, inc, returning, toInsert, batch, inserted, fate, askedAgain>>
      BY <1>3 DEF Close, puller, workers
    <2>2. SameMail(pullerBox, pullerBox') /\ FinderSame(finderBox, finderBox')
      BY <1>2, <2>1
    <2>3. QED BY <2>1, <2>2, QuietPuller
  <1>4. CASE OnClose \/ Reply
    <2>1. PICK t \in LightTypes : pullerBox' = Append(pullerBox, [t |-> t])
      BY <1>4 DEF OnClose, Reply, LightTypes
    <2>2. /\ owed' = owed /\ finder' = finder /\ finderBox' = finderBox
          /\ UNCHANGED <<announced, kind, waiting, missing, lastSequence, inc, returning, toInsert, batch, inserted, fate, askedAgain>>
      BY <1>4 DEF OnClose, Reply, peer, workers, history
    <2>3. [t |-> t] \in PlainMail BY DEF PlainMail, PlainTypes
    <2>4. SameMail(pullerBox, pullerBox') /\ FinderSame(finderBox, finderBox')
      BY <1>1, <1>2, <2>1, <2>2, <2>3, PlainAppended
    <2>5. QED BY <2>2, <2>4, QuietPuller
  <1>5. QED BY <1>3, <1>4

LEMMA PlainMessagesAreSafe ==
    IInv /\ (RevReRequested \/ RevsWereProvisionallyHandled \/ SubChangesReply \/ SetCaughtUp \/ ConnectionClosed) => IInv'
  <1> SUFFICES ASSUME IInv, RevReRequested \/ RevsWereProvisionallyHandled \/ SubChangesReply \/ SetCaughtUp \/ ConnectionClosed PROVE IInv'
    OBVIOUS
  <1>1. pullerBox \in Seq(PullerMail) /\ finderBox \in Seq(FinderMail)
    BY DEF IInv, Typed
  <1>2. FinderSame(finderBox, finderBox) BY <1>1, FinderSameItself
  <1>3. /\ pullerBox # << >>
        /\ Head(pullerBox).t \in PlainTypes
        /\ pullerBox' = Tail(pullerBox)
        /\ finder' = finder /\ owed' = owed
        /\ finderBox' = finderBox \/ finderBox' = Append(finderBox, [t |-> "reRequestingRev"])
        /\ UNCHANGED <<announced, kind, waiting, missing, lastSequence, inc, returning, toInsert, batch, inserted, fate, askedAgain>>
    <2>1. CASE RevReRequested
      BY <2>1 DEF RevReRequested, Receive, peer, workers, history
    <2>2. CASE RevsWereProvisionallyHandled
      BY <2>2 DEF RevsWereProvisionallyHandled, Receive, peer, history
    <2>3. CASE SubChangesReply \/ SetCaughtUp
      BY <2>3 DEF SubChangesReply, SetCaughtUp, Receive, peer, workers, history
    <2>4. CASE ConnectionClosed
      BY <2>4 DEF ConnectionClosed, Receive, peer, workers, history
    <2>5. QED BY <2>1, <2>2, <2>3, <2>4
  <1>4. SameMail(pullerBox, pullerBox') BY <1>1, <1>3, PlainTaken
  <1>5. [t |-> "reRequestingRev"] \in FinderMail /\ [t |-> "reRequestingRev"].t # "changes"
    BY DEF FinderMail
  <1>6. FinderSame(finderBox, Append(finderBox, [t |-> "reRequestingRev"]))
    BY <1>1, <1>5, FinderAppended
  <1>7. FinderSame(finderBox, finderBox') BY <1>2, <1>3, <1>6
  <1>8. QED BY <1>3, <1>4, <1>7, QuietPuller

-----------------------------------------------------------------------------
(***************************************************************************)
(* The RevFinder.                                                          *)
(***************************************************************************)
LEMMA FinderUpdates ==
    ASSUME NEW g \in FinderType, NEW a, NEW b
    PROVE  /\ [g EXCEPT !.requested = a, !.draining = b]
                = [waiting |-> g.waiting, requested |-> a, revoked |-> g.revoked, draining |-> b]
           /\ [g EXCEPT !.revoked = a, !.draining = b]
                = [waiting |-> g.waiting, requested |-> g.requested, revoked |-> a, draining |-> b]
           /\ [g EXCEPT !.requested = a, !.revoked = b]
                = [waiting |-> g.waiting, requested |-> a, revoked |-> b, draining |-> g.draining]
  <1>1. g = [waiting |-> g.waiting, requested |-> g.requested, revoked |-> g.revoked, draining |-> g.draining]
    BY DEF FinderType
  <1>2. PICK r : r = [g EXCEPT !.requested = a] OBVIOUS
  <1>3. r = [waiting |-> g.waiting, requested |-> a, revoked |-> g.revoked, draining |-> g.draining]
    BY <1>2 DEF FinderType
  <1>4. PICK v : v = [g EXCEPT !.revoked = a] OBVIOUS
  <1>5. v = [waiting |-> g.waiting, requested |-> g.requested, revoked |-> a, draining |-> g.draining]
    BY <1>4 DEF FinderType
  <1>6. [g EXCEPT !.requested = a, !.draining = b] = [r EXCEPT !.draining = b]
    BY <1>2, Zenon
  <1>7. [r EXCEPT !.draining = b] = [waiting |-> g.waiting, requested |-> a, revoked |-> g.revoked, draining |-> b]
    BY <1>3
  <1>8. [g EXCEPT !.revoked = a, !.draining = b] = [v EXCEPT !.draining = b]
    BY <1>4, Zenon
  <1>9. [v EXCEPT !.draining = b] = [waiting |-> g.waiting, requested |-> g.requested, revoked |-> a, draining |-> b]
    BY <1>5
  <1>10. [g EXCEPT !.requested = a, !.revoked = b] = [r EXCEPT !.revoked = b]
    BY <1>2, Zenon
  <1>11. [r EXCEPT !.revoked = b] = [waiting |-> g.waiting, requested |-> a, revoked |-> b, draining |-> g.draining]
    BY <1>3
  <1>12. QED BY <1>6, <1>7, <1>8, <1>9, <1>10, <1>11, Zenon

LEMMA RevReceivedIsSafe == IInv /\ RevReceived => IInv'
  <1> SUFFICES ASSUME IInv, RevReceived PROVE IInv' OBVIOUS
  <1> DEFINE m == Head(finderBox)
  <1>1. /\ Typed /\ ChangesInOrder /\ finderBox \in Seq(FinderMail) /\ pullerBox \in Seq(PullerMail) /\ finder \in FinderType
    BY DEF IInv, Typed, FinderType
  <1>2. /\ ~finder.draining /\ finderBox # << >> /\ m.t # "changes" /\ finderBox' = Tail(finderBox)
        /\ owed' = owed /\ pullerBox' = pullerBox
        /\ UNCHANGED <<announced, kind, waiting, missing, lastSequence, inc, returning, toInsert, batch, inserted, fate, askedAgain>>
    BY DEF RevReceived, peer, puller, workers, history
  <1>3. m \in FinderMail BY <1>1, <1>2, BoxTail
  <1>4. /\ m.t = "reRequestingRev" => finder' = [finder EXCEPT !.requested = @ + 1]
        /\ m.t = "revReceived" => finder' = [finder EXCEPT !.requested = @ - 1, !.draining = TRUE]
        /\ m.t = "revokedHandled" => finder' = [finder EXCEPT !.revoked = @ - m.n, !.draining = TRUE]
    <2>1. CASE m.t = "reRequestingRev" BY <2>1 DEF RevReceived
    <2>2. CASE m.t = "revReceived" BY <2>2 DEF RevReceived
    <2>3. CASE m.t = "revokedHandled" BY <2>3 DEF RevReceived
    <2>4. QED BY <2>1, <2>2, <2>3
  <1>5. m.t \in {"reRequestingRev", "revReceived", "revokedHandled"} /\ (m.t = "revokedHandled" => m.n \in Nat)
    BY <1>2, <1>3 DEF FinderMail, ChangesMail
  <1> HIDE DEF m
  <1>6. finder.waiting \in Seq(ChangesMail) /\ finder.requested \in Int /\ finder.revoked \in Int /\ finder.draining \in BOOLEAN
    BY <1>1 DEF FinderType
  <1>7. finder' \in FinderType /\ finder'.waiting = finder.waiting /\ ChangesInOrder'
    <2>1. CASE m.t = "reRequestingRev"
      <3>1. finder' = [finder EXCEPT !.requested = finder.requested + 1]
        BY <1>4, <2>1
      <3> DEFINE k == finder.requested + 1
      <3>2. k \in Int BY <1>6
      <3> HIDE DEF k
      <3>3. finder' = [finder EXCEPT !.requested = k] BY <3>1 DEF k
      <3>4. /\ finder' \in FinderType /\ finder'.waiting = finder.waiting /\ finder'.draining = finder.draining
            /\ finder'.requested = k /\ finder'.revoked = finder.revoked
        BY <1>1, <1>6, <3>2, <3>3 DEF FinderType
      <3>5. ChangesInOrder'
        BY <1>1, <1>6, <3>4, Numbers DEF ChangesInOrder, PullerHasCapacity, k
      <3>6. QED BY <3>4, <3>5
    <2>2. CASE m.t = "revReceived"
      <3>1. finder' = [finder EXCEPT !.requested = finder.requested - 1, !.draining = TRUE]
        BY <1>4, <2>2
      <3>2. finder' = [waiting |-> finder.waiting, requested |-> finder.requested - 1, revoked |-> finder.revoked, draining |-> TRUE]
        BY <1>1, <3>1, FinderUpdates
      <3>3. QED BY <1>6, <3>2 DEF FinderType, ChangesInOrder
    <2>3. CASE m.t = "revokedHandled"
      <3>1. finder' = [finder EXCEPT !.revoked = finder.revoked - m.n, !.draining = TRUE]
        BY <1>4, <2>3
      <3>2. finder' = [waiting |-> finder.waiting, requested |-> finder.requested, revoked |-> finder.revoked - m.n, draining |-> TRUE]
        BY <1>1, <3>1, FinderUpdates
      <3>3. finder.revoked - m.n \in Int BY <1>5, <1>6, <2>3
      <3>4. QED BY <1>6, <3>2, <3>3 DEF FinderType, ChangesInOrder
    <2>4. QED BY <1>5, <2>1, <2>2, <2>3
  <1>8. FinderSame(finderBox, finderBox') /\ SameMail(pullerBox, pullerBox')
    BY <1>1, <1>2, FinderTaken, SameItself DEF m
  <1>9. QuietStep BY <1>2, <1>7, <1>8 DEF QuietStep, FinderType
  <1>10. QED BY <1>9, QuietIsSafe

LEMMA Single ==
    ASSUME NEW S, NEW q \in Seq(S), NEW x \in S
    PROVE  q \o << >> = q /\ q \o <<x>> = Append(q, x)
  OBVIOUS

LEMMA TellRevoked ==
    ASSUME Typed, NEW m, m.first \in Nat, m.last \in Nat, 1 <= m.first, m.last <= N
    PROVE  ToldRevoked(pullerBox \o RevokedFirst(m))
  <1>1. pullerBox \in Seq(PullerMail) BY DEF Typed
  <1>2. CASE RevokedOnes(m) = {}
    <2>1. pullerBox \o RevokedFirst(m) = pullerBox
      BY <1>1, <1>2 DEF RevokedFirst
    <2>2. ToldRevoked(pullerBox) BY <1>1 DEF ToldRevoked, SameLists
    <2>3. QED BY <2>1, <2>2
  <1>3. CASE RevokedOnes(m) # {}
    <2> DEFINE x == RevokedMessage(m)
    <2>1. RevokedOnes(m) \in (SUBSET Seqs) \ {{}}
      BY <1>3, Numbers DEF RevokedOnes
    <2>2. x \in RevokedMail /\ x.seqs = RevokedOnes(m)
      BY <2>1 DEF RevokedMail, RevokedMessage
    <2>3. x \in PullerMail /\ ~IsList(x) /\ ~IsRev(x) /\ x.t # "rev"
      BY <2>2, MailKinds
    <2> DEFINE new == Append(pullerBox, x)
    <2>4. pullerBox \o RevokedFirst(m) = new
      BY <1>1, <1>3, <2>3, Single DEF RevokedFirst
    <2>5. ListOf(x) = {} /\ RevIdOf(x) = {} /\ RevokedOf(x) \subseteq RevokedOnes(m)
      BY <2>2, <2>3 DEF ListOf, RevIdOf, RevokedOf
    <2>6. Before(Lists(pullerBox), ListOf(x)) /\ RevIds(pullerBox) \cap RevIdOf(x) = {}
      BY <2>5 DEF Before
    <2> HIDE DEF x
    <2>7. /\ new \in Seq(PullerMail) /\ Elements(new) = Elements(pullerBox) \cup {x}
          /\ Lists(new) = Lists(pullerBox) \cup ListOf(x)
          /\ RevIds(new) = RevIds(pullerBox) \cup RevIdOf(x)
          /\ RevokedSeqs(new) = RevokedSeqs(pullerBox) \cup RevokedOf(x)
          /\ InOrder(pullerBox) => InOrder(new)
          /\ Distinct(pullerBox) => Distinct(new)
      BY <1>1, <2>3, <2>6, BoxAppended
    <2> HIDE DEF new
    <2>8. WholeSecond(pullerBox) => WholeSecond(new)
      BY <2>3, <2>7 DEF WholeSecond
    <2>9. \A s \in RevokedSeqs(new) : s \in RevokedSeqs(pullerBox) \/ kind[s] = "revoked"
      BY <2>5, <2>7 DEF RevokedOnes
    <2>10. ToldRevoked(new)
      BY <2>5, <2>7, <2>8, <2>9 DEF ToldRevoked, SameLists
    <2>11. QED BY <2>4, <2>10
  <1>4. QED BY <1>2, <1>3

LEMMA HandledIsSafe ==
    ASSUME IInv, NEW m, NEW others, Handled(m, others)
    PROVE  IInv'
  <1>1. Typed /\ ListsInv /\ PlacesInv BY TheInvariant
  <1>2. TakesFirst(m, others) /\ m \in Pending /\ m.first \in Nat /\ m.last \in Nat
    BY MailKinds DEF Handled, TakesFirst
  <1>3. /\ announced' = announced /\ kind' = kind /\ missing' = missing /\ lastSequence' = lastSequence
        /\ inc' = inc /\ waiting' = waiting
    BY DEF Handled
  <1>4. Pending' = After(others) BY DEF Pending, After, Handled
  <1>5. /\ \A p \in Pending : p = m \/ p \in Pending'
        /\ \A p \in Pending' : p \in Pending /\ m.last < p.first
    BY <1>2, <1>4 DEF TakesFirst
  <1>6. owed' \in SUBSET Ids BY <1>1 DEF Handled, AsksFor, Typed
  <1>7. Typed'
    <2>1. finderBox' \in Seq(FinderMail) BY <1>2 DEF TakesFirst
    <2>2. /\ pullerBox' \in Seq(PullerMail) /\ fate' \in [Seqs -> Fates]
          /\ finder' \in [waiting : Seq(ChangesMail), requested : Int, revoked : Int, draining : BOOLEAN]
      BY DEF Handled, FinderType
    <2>3. UNCHANGED <<announced, kind, waiting, missing, lastSequence, inc, returning, toInsert, batch, inserted, askedAgain>>
      BY DEF Handled
    <2>4. QED BY <1>1, <1>6, <2>1, <2>2, <2>3 DEF Typed
  <1>8. FatesStay BY DEF Handled
  <1>9. /\ \A x \in Expected : x \in Expected'
        /\ \A x \in Expected' : x \in Expected \/ ExpectsAll(x, m)
    BY DEF Handled
  <1>10. ListsKnown'
    <2>1. ListsKnown BY <1>1 DEF ListsInv
    <2>2. 1 <= m.first /\ m.first <= m.last + 1 /\ m.last <= N /\ m.last <= announced /\ missing.lastAdded < m.first
      BY <1>2, <2>1 DEF ListsKnown
    <2>3. ASSUME NEW x \in Pending' \cup Expected'
          PROVE  1 <= x.first /\ x.first <= x.last + 1 /\ x.last <= N /\ x.last <= announced' /\ missing'.lastAdded < x.first
      <3>1. CASE x \in Pending \cup Expected
        BY <1>3, <2>1, <3>1 DEF ListsKnown
      <3>2. CASE ExpectsAll(x, m) BY <1>3, <2>2, <3>2 DEF ExpectsAll
      <3>3. QED BY <1>5, <1>9, <3>1, <3>2
    <2>4. ASSUME NEW x \in Expected' PROVE x.first <= x.last /\ x.wanted = {s \in x.first .. x.last : kind'[s] = "rev"}
      <3>1. CASE x \in Expected BY <1>3, <2>1, <3>1 DEF ListsKnown
      <3>2. CASE ExpectsAll(x, m) BY <1>3, <3>2 DEF ExpectsAll
      <3>3. QED BY <1>9, <3>1, <3>2
    <2>5. /\ \A s \in Seqs : kind'[s] # "none" => s <= announced'
          /\ missing'.lastAdded <= N /\ missing'.lastAdded <= announced'
      BY <1>3, <2>1 DEF ListsKnown
    <2>6. QED BY <2>3, <2>4, <2>5 DEF ListsKnown
  <1>11. ListsInOrder'
    <2>1. ListsInOrder BY <1>1 DEF ListsInv
    <2>2. InOrder(finder'.waiting) /\ InOrder(finderBox') /\ InOrder(pullerBox')
          /\ Before(Elements(finder'.waiting), Lists(finderBox'))
      BY <1>2 DEF TakesFirst, Handled
    <2>3. ASSUME NEW x \in Expected', NEW p \in Pending' PROVE x.last < p.first
      <3>1. p \in Pending /\ m.last < p.first BY <1>5
      <3>2. CASE x \in Expected BY <2>1, <3>1, <3>2 DEF ListsInOrder, Before
      <3>3. CASE ExpectsAll(x, m) BY <3>1, <3>3 DEF ExpectsAll
      <3>4. QED BY <1>9, <3>2, <3>3
    <2>4. QED BY <2>2, <2>3 DEF ListsInOrder, Before
  <1>12. AllCovered'
    <2>1. SUFFICES ASSUME NEW s \in Seqs, s <= announced
                   PROVE  Settled(s)' \/ s \in MissingSeqs(missing) \/ \E x \in Pending' \cup Expected' : Covers(x, s)
      BY <1>3 DEF AllCovered
    <2>2. CASE Settled(s) BY <1>8, <2>1, <2>2, SettledStays
    <2>3. ASSUME NEW x \in Pending \cup Expected, Covers(x, s)
          PROVE  Settled(s)' \/ \E y \in Pending' \cup Expected' : Covers(y, s)
      <3>1. CASE x = m
        <4>1. Settled(s)' \/ \E y \in Expected' : Covers(y, s)
          BY <2>3, <3>1 DEF Handled
        <4>2. QED BY <4>1
      <3>2. CASE x # m
        <4>1. x \in Pending' \cup Expected' BY <1>5, <1>9, <3>2
        <4>2. QED BY <2>3, <4>1
      <3>3. QED BY <3>1, <3>2
    <2>4. Settled(s) \/ s \in MissingSeqs(missing) \/ \E x \in Pending \cup Expected : Covers(x, s)
      BY <1>1, <2>1 DEF ListsInv, AllCovered
    <2>5. QED BY <2>2, <2>3, <2>4
  <1>13. ChangesInOrder' BY <1>2 DEF TakesFirst, Handled, ChangesInOrder
  <1>14. CheckpointKnown'
    <2>1. GoodSet(missing) /\ missing.lastAdded \in Nat
      BY <1>1 DEF ListsInv, CheckpointKnown, GoodSet
    <2>2. GoodSet(missing') /\ missing'.lastAdded \in Nat /\ missing.lastAdded <= missing'.lastAdded
      BY <1>3, <2>1
    <2>3. QED BY <1>1, <1>3, <1>8, <2>1, <2>2, CheckpointStays DEF ListsInv
  <1>15. \A s \in Seqs : Covers(m, s) /\ kind[s] = "rev" => \A i \in {1, 2} : <<s, i>> \notin Coming /\ inc[<<s, i>>].st = "none"
    BY <1>1, <1>2 DEF PlacesInv, OnePlace
  <1>16. ASSUME NEW id, AsksFor(id, m)
         PROVE  id \in Ids /\ id[1] \in Seqs /\ id = <<id[1], 1>> /\ id \notin Coming /\ inc[id].st = "none" /\ id \in WantedIds
    <2>1. id \in Ids /\ id[2] = 1 /\ Covers(m, id[1]) /\ kind[id[1]] = "rev"
      BY <1>16 DEF AsksFor
    <2>2. id[1] \in Seqs /\ id = <<id[1], 1>> BY <2>1, PairIs
    <2>3. <<id[1], 1>> \notin Coming /\ inc[<<id[1], 1>>].st = "none"
      BY <1>15, <2>1, <2>2
    <2>4. QED BY <2>1, <2>2, <2>3 DEF WantedIds
  <1>17. RevIds(pullerBox') = RevIds(pullerBox) /\ \A id \in owed' : id \in owed \/ AsksFor(id, m)
    BY DEF Handled
  <1>18. ComingOnce'
    <2>1. ComingOnce BY <1>1 DEF PlacesInv
    <2>2. Distinct(pullerBox') /\ WholeSecond(pullerBox') BY DEF Handled
    <2>3. owed' \cap RevIds(pullerBox) = {} /\ owed' \cap RevIds(waiting.revs) = {}
      BY <1>16, <1>17, <2>1 DEF ComingOnce, Coming
    <2>4. QED BY <1>3, <1>17, <2>1, <2>2, <2>3 DEF ComingOnce
  <1>19. \A id \in Coming' : id \in Coming \/ AsksFor(id, m)
    BY <1>3, <1>17 DEF Coming
  <1>20. OnePlace'
    <2>1. OnePlace BY <1>1 DEF PlacesInv
    <2>2. WantedIds' = WantedIds BY <1>3 DEF WantedIds
    <2>3. ASSUME NEW id \in Coming' PROVE id \in WantedIds' /\ inc'[id].st = "none"
      <3>1. CASE id \in Coming BY <1>3, <2>1, <2>2, <3>1 DEF OnePlace
      <3>2. CASE AsksFor(id, m) BY <1>3, <1>16, <2>2, <3>2
      <3>3. QED BY <1>19, <3>1, <3>2
    <2>4. \A id \in Ids : inc'[id].st # "none" => id[1] <= announced'
      BY <1>3, <2>1 DEF OnePlace
    <2>5. \A id \in Ids : MayFail(id)' <=> MayFail(id) BY <1>3 DEF MayFail
    <2>6. \A id \in Ids : MayFail(id)' => id[2] = 1 /\ id \in WantedIds'
      BY <2>1, <2>2, <2>5 DEF OnePlace
    <2>7. ASSUME NEW s \in Seqs, <<s, 1>> \in Coming' \/ MayFail(<<s, 1>>)'
          PROVE  <<s, 2>> \notin Coming' /\ inc'[<<s, 2>>].st = "none"
      <3>1. <<s, 1>> \in Ids /\ <<s, 1>>[1] = s /\ <<s, 2>>[2] # 1
        BY DEF Ids
      <3>2. ~AsksFor(<<s, 2>>, m) BY <3>1 DEF AsksFor
      <3>3. <<s, 2>> \notin Coming /\ inc[<<s, 2>>].st = "none"
        <4>1. CASE <<s, 1>> \in Coming \/ MayFail(<<s, 1>>)
          BY <2>1, <4>1 DEF OnePlace
        <4>2. CASE AsksFor(<<s, 1>>, m)
          <5>1. Covers(m, s) /\ kind[s] = "rev" BY <3>1, <4>2 DEF AsksFor
          <5>2. QED BY <1>15, <5>1
        <4>3. QED BY <1>19, <2>5, <2>7, <3>1, <4>1, <4>2
      <3>4. QED BY <1>3, <1>19, <3>2, <3>3
    <2>8. ASSUME NEW p \in Pending', NEW s \in Seqs, Covers(p, s), kind'[s] = "rev", NEW i \in {1, 2}
          PROVE  <<s, i>> \notin Coming' /\ inc'[<<s, i>>].st = "none"
      <3>1. p \in Pending /\ m.last < p.first /\ kind[s] = "rev"
        BY <1>3, <1>5, <2>8
      <3>2. <<s, i>> \notin Coming /\ inc[<<s, i>>].st = "none"
        BY <2>1, <2>8, <3>1 DEF OnePlace
      <3>3. p.first \in Nat /\ p.last \in Nat BY <1>1, <3>1, MailTypes
      <3>4. ~Covers(m, s) BY <1>2, <2>8, <3>1, <3>3, Numbers DEF Covers
      <3>5. ~AsksFor(<<s, i>>, m) BY <3>4 DEF AsksFor
      <3>6. QED BY <1>3, <1>19, <3>2, <3>5
    <2>9. QED BY <2>3, <2>4, <2>6, <2>7, <2>8 DEF OnePlace
  <1>21. WorkersKnown'
    <2>1. \A s \in RevokedSeqs(pullerBox') \cup Elements(waiting'.revoked) :
              s \in RevokedSeqs(pullerBox) \cup Elements(waiting.revoked) \/ kind[s] = "revoked"
      BY <1>3 DEF Handled
    <2>2. QED BY <1>1, <1>3, <1>8, <2>1, WorkersStay DEF PlacesInv, Handled
  <1>22. QED BY <1>7, <1>10, <1>11, <1>12, <1>13, <1>14, <1>18, <1>20, <1>21 DEF IInv

LEMMA ListIsHandled ==
    ASSUME NEW m, NEW others, HandleChangesNow(m, others)
    PROVE  /\ UNCHANGED <<announced, kind, waiting, missing, lastSequence, inc, returning, toInsert, batch, inserted, askedAgain>>
           /\ ListIsEmpty(m, others) \/ ListIsPassedOn(m, others) \/ ListIsLost(m, others)
  <1>1. UNCHANGED <<announced, kind, waiting, missing, lastSequence, inc, returning, toInsert, batch, inserted, askedAgain>>
    BY DEF HandleChangesNow, workers
  <1>2. ListIsEmpty(m, others) \/ ListIsPassedOn(m, others) \/ ListIsLost(m, others)
    BY Zenon DEF HandleChangesNow, ListIsEmpty, ListIsPassedOn, ListIsLost, WantedOnes, RevokedOnes, RevokedFirst, RevokedMessage, ExpectMessage
  <1>3. QED BY <1>1, <1>2

LEMMA HandleNowIsSafe ==
    ASSUME IInv, NEW m, NEW others, TakesFirst(m, others), HandleChangesNow(m, others)
    PROVE  IInv'
  <1>1. Typed /\ ListsInv /\ PlacesInv BY TheInvariant
  <1>2. m \in Pending /\ m.first \in Nat /\ m.last \in Nat /\ others \in FinderType
    BY MailKinds DEF TakesFirst
  <1>3. 1 <= m.first /\ m.first <= m.last + 1 /\ m.last <= N /\ m.last <= announced /\ missing.lastAdded < m.first
    BY <1>1, <1>2 DEF ListsInv, ListsKnown
  <1>4. UNCHANGED <<announced, kind, waiting, missing, lastSequence, inc, returning, toInsert, batch, inserted, askedAgain>>
    BY ListIsHandled
  <1>5. WantedOnes(m) \in SUBSET Seqs BY <1>2, <1>3, Numbers DEF WantedOnes
  <1>6. Cardinality(WantedOnes(m)) \in Nat /\ Cardinality(RevokedOnes(m)) \in Nat
    <2>1. IsFiniteSet(m.first .. m.last) BY <1>2, FS_Interval
    <2>2. IsFiniteSet(WantedOnes(m)) /\ IsFiniteSet(RevokedOnes(m))
      BY <2>1, FS_Subset DEF WantedOnes, RevokedOnes
    <2>3. QED BY <2>2, FS_CardinalityType
  <1>7. others.requested \in Int /\ others.revoked \in Int /\ others.waiting \in Seq(ChangesMail) /\ others.draining \in BOOLEAN
    BY <1>2 DEF FinderType
  <1>8. Distinct(pullerBox) /\ WholeSecond(pullerBox) /\ InOrder(pullerBox)
    BY <1>1 DEF PlacesInv, ListsInv, ComingOnce, ListsInOrder
  <1>9. pullerBox \in Seq(PullerMail) /\ fate \in [Seqs -> Fates] /\ owed \in SUBSET Ids
    BY <1>1 DEF Typed
  <1>10. CASE ListIsEmpty(m, others)
    <2>1. /\ m.first .. m.last = {} /\ pullerBox' = Append(pullerBox, [t |-> "caughtUp"])
          /\ finder' = others /\ owed' = owed /\ fate' = fate
      BY <1>10 DEF ListIsEmpty
    <2>2. [t |-> "caughtUp"] \in PlainMail BY DEF PlainMail
    <2>3. SameMail(pullerBox, pullerBox') BY <1>9, <2>1, <2>2, PlainAppended
    <2>4. /\ pullerBox' \in Seq(PullerMail) /\ RevIds(pullerBox') = RevIds(pullerBox)
          /\ Distinct(pullerBox') /\ WholeSecond(pullerBox') /\ InOrder(pullerBox')
          /\ RevokedSeqs(pullerBox') = RevokedSeqs(pullerBox) /\ Expected' = Expected
      BY <1>8, <2>3 DEF SameMail, SameLists, SameRevs, Expected
    <2>5. FatesStay BY <1>4, <2>1 DEF FatesStay
    <2>6. \A s \in Seqs : ~Covers(m, s) BY <2>1 DEF Covers
    <2>7. Handled(m, others)
      BY <1>2, <1>4, <1>9, <2>1, <2>4, <2>5, <2>6 DEF Handled
    <2>8. QED BY <2>7, HandledIsSafe
  <1> DEFINE box == pullerBox \o RevokedFirst(m)
  <1>11. ToldRevoked(box) BY <1>1, <1>2, <1>3, TellRevoked
  <1> HIDE DEF box
  <1>12. /\ box \in Seq(PullerMail) /\ Lists(box) = Lists(pullerBox) /\ InOrder(box)
         /\ RevIds(box) = RevIds(pullerBox) /\ Distinct(box) /\ WholeSecond(box)
         /\ \A s \in RevokedSeqs(box) : s \in RevokedSeqs(pullerBox) \/ kind[s] = "revoked"
    BY <1>8, <1>11 DEF ToldRevoked, SameLists
  <1>13. CASE ListIsPassedOn(m, others)
    <2> DEFINE x == ExpectMessage(m)
    <2>1. /\ m.first .. m.last # {} /\ pullerBox' = box \o <<x>>
          /\ finder' = [others EXCEPT !.requested = others.requested + Cardinality(WantedOnes(m)),
                                      !.revoked = others.revoked + Cardinality(RevokedOnes(m))]
          /\ owed' = (IF link = "open" THEN owed \cup (WantedOnes(m) \X {1}) ELSE owed) /\ fate' = fate
      BY <1>13, Zenon DEF ListIsPassedOn, box
    <2>2. x \in ExpectMail /\ x.first = m.first /\ x.last = m.last /\ x.wanted = WantedOnes(m)
      BY <1>2, <1>5 DEF ExpectMail, ExpectMessage
    <2>3. x \in PullerMail /\ IsList(x) /\ ~IsRev(x) /\ x.t = "expectSequences"
      BY <2>2, MailKinds
    <2> HIDE DEF x
    <2>4. ListOf(x) = {x} /\ RevIdOf(x) = {} /\ RevokedOf(x) = {}
      BY <2>3 DEF ListOf, RevIdOf, RevokedOf
    <2>5. pullerBox' = Append(box, x) BY <1>12, <2>1, <2>3, Single
    <2>6. Before(Lists(box), ListOf(x)) /\ RevIds(box) \cap RevIdOf(x) = {}
      <3>1. Before(Expected, Pending) BY <1>1 DEF ListsInv, ListsInOrder
      <3>2. \A y \in Lists(box) : y.last < m.first
        BY <1>2, <1>12, <3>1 DEF Before, Expected
      <3>3. QED BY <2>2, <2>4, <3>2 DEF Before
    <2>7. /\ pullerBox' \in Seq(PullerMail) /\ Elements(pullerBox') = Elements(box) \cup {x}
          /\ Lists(pullerBox') = Lists(box) \cup ListOf(x)
          /\ RevIds(pullerBox') = RevIds(box) \cup RevIdOf(x)
          /\ RevokedSeqs(pullerBox') = RevokedSeqs(box) \cup RevokedOf(x)
          /\ InOrder(pullerBox') /\ Distinct(pullerBox')
      BY <1>12, <2>3, <2>5, <2>6, BoxAppended
    <2>8. WholeSecond(pullerBox') BY <1>12, <2>3, <2>7 DEF WholeSecond
    <2>9. Expected' = Expected \cup {x} BY <1>12, <2>4, <2>7 DEF Expected
    <2>10. ExpectsAll(x, m)
      <3>1. m.first <= m.last BY <1>2, <2>1
      <3>2. QED BY <2>2, <3>1 DEF ExpectsAll, WantedOnes
    <2>11. finder' \in FinderType /\ finder'.waiting = others.waiting /\ finder'.draining = others.draining
      <3> DEFINE a == others.requested + Cardinality(WantedOnes(m))
                 b == others.revoked + Cardinality(RevokedOnes(m))
      <3>1. a \in Int /\ b \in Int BY <1>6, <1>7
      <3>2. finder' = [others EXCEPT !.requested = a, !.revoked = b] BY <2>1
      <3> HIDE DEF a, b
      <3>3. finder' = [waiting |-> others.waiting, requested |-> a, revoked |-> b, draining |-> others.draining]
        BY <1>2, <3>2, FinderUpdates
      <3>4. QED BY <1>7, <3>1, <3>3 DEF FinderType
    <2>12. ASSUME NEW id \in owed', id \notin owed PROVE AsksFor(id, m)
      <3>1. id \in WantedOnes(m) \X {1} BY <2>1, <2>12
      <3>2. id[1] \in WantedOnes(m) /\ id[2] = 1 /\ id \in Ids
        BY <1>5, <3>1 DEF Ids
      <3>3. QED BY <3>2 DEF AsksFor, WantedOnes, Covers
    <2>13. FatesStay BY <1>4, <2>1 DEF FatesStay
    <2>14. \A s \in Seqs : Covers(m, s) => Covers(x, s) BY <2>2 DEF Covers
    <2>15. \A s \in RevokedSeqs(pullerBox') : s \in RevokedSeqs(pullerBox) \/ kind[s] = "revoked"
      BY <1>12, <2>4, <2>7
    <2>16. RevIds(pullerBox') = RevIds(pullerBox) BY <1>12, <2>4, <2>7
    <2>17. Handled(m, others)
      BY <1>4, <1>9, <2>1, <2>7, <2>8, <2>9, <2>10, <2>11, <2>12, <2>13, <2>14, <2>15, <2>16 DEF Handled
    <2>18. QED BY <2>17, HandledIsSafe
  <1>14. CASE ListIsLost(m, others)
    <2>1. /\ pullerBox' = box
          /\ finder' = [others EXCEPT !.revoked = others.revoked + Cardinality(RevokedOnes(m))]
          /\ fate' = [s \in Seqs |-> IF s \in WantedOnes(m) THEN "lost" ELSE fate[s]] /\ owed' = owed
      BY <1>14 DEF ListIsLost, box
    <2>2. finder' \in FinderType /\ finder'.waiting = others.waiting /\ finder'.draining = others.draining
      <3> DEFINE b == others.revoked + Cardinality(RevokedOnes(m))
      <3>1. b \in Int BY <1>6, <1>7
      <3>2. finder' = [others EXCEPT !.revoked = b] BY <2>1
      <3> HIDE DEF b
      <3>3. QED BY <1>2, <3>1, <3>2 DEF FinderType
    <2>3. fate' \in [Seqs -> Fates] BY <1>9, <2>1 DEF Fates
    <2>4. FatesStay BY <1>4, <2>1 DEF FatesStay
    <2>5. \A s \in Seqs : Covers(m, s) => Settled(s)'
      BY <1>4, <2>1 DEF Settled, Covers, WantedOnes
    <2>6. Expected' = Expected BY <1>12, <2>1 DEF Expected
    <2>7. Handled(m, others)
      BY <1>4, <1>9, <1>12, <2>1, <2>2, <2>3, <2>4, <2>5, <2>6 DEF Handled
    <2>8. QED BY <2>7, HandledIsSafe
  <1>15. QED BY <1>10, <1>13, <1>14, ListIsHandled

(***************************************************************************)
(* A list comes to the RevFinder, or waits there.                          *)
(***************************************************************************)
LEMMA RevokedTypes ==
    ASSUME Typed
    PROVE  RevokedSeqs(pullerBox) \subseteq Seqs /\ Elements(waiting.revoked) \subseteq Seqs
  <1>1. Elements(pullerBox) \subseteq PullerMail BY ElementsOf DEF Typed
  <1>2. \A m \in Elements(pullerBox) : m.t = "documentsRevoked" => m.seqs \subseteq Seqs
    BY <1>1, MailKinds DEF RevokedMail
  <1>3. RevokedSeqs(pullerBox) \subseteq Seqs BY <1>2 DEF RevokedSeqs
  <1>4. Elements(waiting.revoked) \subseteq Seqs BY MailTypes, ElementsOf
  <1>5. QED BY <1>3, <1>4

LEMMA ArrivalIsSafe ==
    ASSUME IInv, Arrival
    PROVE  IInv'
  <1>1. Typed /\ ListsInv /\ PlacesInv /\ ListsKnown /\ OnePlace /\ WorkersKnown
    BY TheInvariant DEF ListsInv, PlacesInv
  <1>2. UNCHANGED <<owed, pullerBox, waiting, missing, lastSequence, inc, returning, toInsert, batch, inserted, fate, askedAgain>>
    BY DEF Arrival
  <1>3. announced \in Nat /\ announced' \in Nat /\ announced <= announced' /\ \A s \in Seqs : s \in Nat /\ 1 <= s /\ s <= N
    BY <1>1, Numbers DEF Typed, Arrival
  <1>4. \A s \in Seqs : s <= announced => kind'[s] = kind[s] BY DEF Arrival
  <1>5. \A p \in Pending' : p \in Pending \/ IsNew(p)
    BY DEF Arrival
  <1>6. Expected' = Expected /\ Coming' = Coming
    BY <1>2 DEF Expected, Coming
  <1>7. Typed'
    <2>1. /\ announced' \in 0 .. N /\ kind' \in [Seqs -> {"none"} \cup Kinds] /\ finderBox' \in Seq(FinderMail)
          /\ finder' \in [waiting : Seq(ChangesMail), requested : Int, revoked : Int, draining : BOOLEAN]
      BY DEF Arrival, FinderType
    <2>2. QED BY <1>1, <1>2, <2>1 DEF Typed
  <1>8. FatesStay BY <1>2, <1>4 DEF FatesStay
  <1>9. /\ \A x \in Pending \cup Expected :
              1 <= x.first /\ x.first <= x.last + 1 /\ x.last <= N /\ x.last <= announced /\ missing.lastAdded < x.first
        /\ \A x \in Pending \cup Expected : x.first \in Nat /\ x.last \in Nat
        /\ missing.lastAdded <= N /\ missing.lastAdded <= announced /\ missing.lastAdded \in Nat
    BY <1>1, MailTypes DEF ListsKnown, ListsInv, CheckpointKnown, GoodSet
  <1>10. ListsKnown'
    <2>1. ASSUME NEW x \in Pending' \cup Expected'
          PROVE  1 <= x.first /\ x.first <= x.last + 1 /\ x.last <= N /\ x.last <= announced' /\ missing'.lastAdded < x.first
      <3>1. CASE x \in Pending \cup Expected
        <4>1. x.last <= announced /\ x.last \in Nat BY <1>9, <3>1
        <4>2. x.last <= announced' BY <1>3, <4>1
        <4>3. QED BY <1>2, <1>9, <3>1, <4>2
      <3>2. CASE IsNew(x) BY <1>2, <1>3, <1>9, <3>2 DEF IsNew
      <3>3. QED BY <1>5, <1>6, <3>1, <3>2
    <2>2. ASSUME NEW x \in Expected' PROVE x.first <= x.last /\ x.wanted = {s \in x.first .. x.last : kind'[s] = "rev"}
      <3>1. x \in Expected /\ x.first <= x.last /\ x.wanted = {s \in x.first .. x.last : kind[s] = "rev"}
        BY <1>1, <1>6 DEF ListsKnown
      <3>2. \A s \in x.first .. x.last : s \in Seqs /\ s <= announced
        BY <1>3, <1>9, <3>1, Numbers
      <3>3. QED BY <1>4, <3>1, <3>2
    <2>3. \A s \in Seqs : kind'[s] # "none" => s <= announced'
      BY DEF Arrival
    <2>4. missing'.lastAdded <= N /\ missing'.lastAdded <= announced'
      BY <1>2, <1>3, <1>9
    <2>5. QED BY <2>1, <2>2, <2>3, <2>4 DEF ListsKnown
  <1>11. ListsInOrder'
    <2>1. InOrder(pullerBox') /\ Before(Expected, Pending)
      BY <1>1, <1>2 DEF ListsInv, ListsInOrder
    <2>2. ASSUME NEW x \in Expected', NEW p \in Pending' PROVE x.last < p.first
      <3>1. x \in Expected /\ x.last <= announced /\ x.last \in Nat
        BY <1>6, <1>9
      <3>2. CASE p \in Pending BY <2>1, <3>1, <3>2 DEF Before
      <3>3. CASE IsNew(p) BY <1>3, <3>1, <3>3 DEF IsNew
      <3>4. QED BY <1>5, <3>2, <3>3
    <2>3. QED BY <2>1, <2>2 DEF ListsInOrder, Before, Arrival
  <1>12. AllCovered'
    <2>1. SUFFICES ASSUME NEW s \in Seqs, s <= announced'
                   PROVE  Settled(s)' \/ s \in MissingSeqs(missing) \/ \E x \in Pending' \cup Expected' : Covers(x, s)
      BY <1>2 DEF AllCovered
    <2>2. CASE s <= announced
      <3>1. Settled(s) \/ s \in MissingSeqs(missing) \/ \E x \in Pending \cup Expected : Covers(x, s)
        BY <1>1, <2>2 DEF ListsInv, AllCovered
      <3>2. Settled(s) => Settled(s)' BY <1>8, <2>2, SettledStays
      <3>3. \A x \in Pending \cup Expected : x \in Pending' \cup Expected'
        BY <1>6 DEF Arrival
      <3>4. QED BY <3>1, <3>2, <3>3
    <2>3. CASE announced < s BY <2>1, <2>3 DEF Arrival
    <2>4. QED BY <1>3, <2>2, <2>3
  <1>13. CheckpointKnown'
    <2>1. GoodSet(missing') /\ missing'.lastAdded \in Nat /\ missing.lastAdded <= missing'.lastAdded
      BY <1>1, <1>2, <1>9 DEF ListsInv, CheckpointKnown
    <2>2. QED BY <1>1, <1>2, <1>8, <2>1, CheckpointStays DEF ListsInv
  <1>14. ComingOnce' BY <1>1, <1>2 DEF PlacesInv, ComingOnce
  <1>15. \A id \in Ids : id[1] \in Seqs BY PairIs
  <1>16. \A id \in WantedIds : id \in Ids /\ id[1] <= announced
    BY <1>1, <1>15 DEF WantedIds, ListsKnown
  <1>17. \A id \in Ids : id[1] <= announced => (id \in WantedIds' <=> id \in WantedIds)
    BY <1>4, <1>15 DEF WantedIds
  <1>18. \A id \in Ids : inc[id].st # "none" => id[1] <= announced
    BY <1>1 DEF OnePlace
  <1>19. OnePlace'
    <2>1. ASSUME NEW id \in Coming' PROVE id \in WantedIds' /\ inc'[id].st = "none"
      <3>1. id \in WantedIds /\ inc[id].st = "none"
        BY <1>1, <1>6 DEF OnePlace
      <3>2. QED BY <1>2, <1>16, <1>17, <3>1
    <2>2. ASSUME NEW id \in Ids, inc'[id].st # "none" PROVE id[1] <= announced'
      <3>1. id[1] <= announced BY <1>2, <1>18, <2>2
      <3>2. QED BY <1>3, <1>15, <3>1
    <2>3. \A id \in Ids : MayFail(id)' <=> MayFail(id) BY <1>2 DEF MayFail
    <2>4. ASSUME NEW id \in Ids, MayFail(id)' PROVE id[2] = 1 /\ id \in WantedIds'
      <3>1. id[2] = 1 /\ id \in WantedIds BY <1>1, <2>3, <2>4 DEF OnePlace
      <3>2. QED BY <1>16, <1>17, <3>1
    <2>5. ASSUME NEW s \in Seqs, <<s, 1>> \in Coming' \/ MayFail(<<s, 1>>)'
          PROVE  <<s, 2>> \notin Coming' /\ inc'[<<s, 2>>].st = "none"
      <3>1. <<s, 1>> \in Ids BY DEF Ids
      <3>2. QED BY <1>1, <1>2, <1>6, <2>3, <2>5, <3>1 DEF OnePlace
    <2>6. ASSUME NEW p \in Pending', NEW s \in Seqs, Covers(p, s), kind'[s] = "rev", NEW i \in {1, 2}
          PROVE  <<s, i>> \notin Coming' /\ inc'[<<s, i>>].st = "none"
      <3>1. CASE p \in Pending
        <4>1. s <= announced BY <1>3, <1>9, <2>6, <3>1 DEF Covers
        <4>2. kind[s] = "rev" BY <1>4, <2>6, <4>1
        <4>3. QED BY <1>1, <1>2, <1>6, <2>6, <3>1, <4>2 DEF OnePlace
      <3>2. CASE IsNew(p)
        <4>1. p.first = announced + 1 /\ p.last + 1 >= p.first
          BY <3>2 DEF IsNew
        <4>2. s >= p.first BY <2>6 DEF Covers
        <4>3. ~(s <= announced) BY <1>3, <4>1, <4>2
        <4>4. <<s, i>> \in Ids /\ <<s, i>>[1] = s BY DEF Ids
        <4>5. <<s, i>> \notin Coming BY <1>1, <1>16, <4>3, <4>4 DEF OnePlace
        <4>6. inc[<<s, i>>].st = "none" BY <1>18, <4>3, <4>4
        <4>7. QED BY <1>2, <1>6, <4>5, <4>6
      <3>3. QED BY <1>5, <3>1, <3>2
    <2>7. QED BY <2>1, <2>2, <2>4, <2>5, <2>6 DEF OnePlace
  <1>20. WorkersKnown'
    <2>11. ASSUME NEW id \in Ids, inc'[id].st \in {"finishing", "returned"}, ~inc'[id].transient PROVE Settled(id[1])'
      <3>1. inc[id].st \in {"finishing", "returned"} /\ ~inc[id].transient
        BY <1>2, <2>11
      <3>2. Settled(id[1]) BY <1>1, <3>1 DEF WorkersKnown
      <3>3. id[1] <= announced BY <1>18, <3>1
      <3>4. QED BY <1>8, <1>15, <3>2, <3>3, SettledStays
    <2>12. ASSUME NEW s \in RevokedSeqs(pullerBox) \cup Elements(waiting.revoked) PROVE kind'[s] = "revoked"
      <3>1. s \in Seqs /\ kind[s] = "revoked"
        BY <1>1, RevokedTypes DEF WorkersKnown
      <3>2. s <= announced BY <1>1, <3>1 DEF ListsKnown
      <3>3. QED BY <1>4, <3>1, <3>2
    <2>13. AreAll(Elements(toInsert), "queued")' /\ AreAll(Elements(batch), "queued")'
           /\ AreAll(Elements(inserted), "inserted")' /\ AreAll(returning, "returned")'
      BY <1>1, <1>2 DEF WorkersKnown, AreAll
    <2>14. Once(toInsert)' /\ Once(batch)' /\ Once(inserted)' /\ (Elements(toInsert) \cap Elements(batch) = {})'
      BY <1>1, <1>2 DEF WorkersKnown
    <2>15. \A s \in RevokedSeqs(pullerBox') \cup Elements(waiting'.revoked) : kind'[s] = "revoked"
      BY <1>2, <2>12
    <2>16. ASSUME NEW id \in Ids, inc'[id].delta PROVE id \in WantedIds'
      <3>1. id \in WantedIds BY <1>1, <1>2, <2>16 DEF WorkersKnown
      <3>2. QED BY <1>16, <1>17, <3>1
    <2>a. \A id \in Ids : ProvIsRight(inc'[id])
      BY <1>1, <1>2 DEF WorkersKnown
    <2>17. QED BY <2>a, <2>11, <2>13, <2>14, <2>15, <2>16 DEF WorkersKnown
  <1>21. ChangesInOrder' BY DEF Arrival
  <1>22. QED BY <1>7, <1>10, <1>11, <1>12, <1>13, <1>14, <1>19, <1>20, <1>21 DEF IInv

LEMMA FirstIsTaken ==
    ASSUME IInv, HandleChanges, PullerHasCapacity
    PROVE  TakesFirst(Head(finderBox), finder) /\ HandleChangesNow(Head(finderBox), finder)
  <1> DEFINE m == Head(finderBox)
             rest == Tail(finderBox)
  <1>1. Typed /\ ListsInOrder /\ ListsKnown /\ ChangesInOrder /\ finderBox \in Seq(FinderMail) /\ finder \in FinderType
    BY DEF IInv, Typed, FinderType
  <1>2. ~finder.draining /\ finderBox # << >> /\ m.t = "changes" /\ finderBox' = rest
    BY DEF HandleChanges
  <1>3. /\ m \in FinderMail /\ rest \in Seq(FinderMail) /\ Lists(finderBox) = Lists(rest) \cup ListOf(m)
        /\ InOrder(rest) /\ Before(ListOf(m), Lists(rest))
    BY <1>1, <1>2, BoxTail DEF ListsInOrder
  <1>4. m \in ChangesMail /\ ListOf(m) = {m} /\ IsList(m)
    BY <1>2, <1>3, MailKinds DEF ListOf
  <1>5. finder.waiting \in Seq(ChangesMail) /\ finder.requested \in Int /\ finder.revoked \in Int /\ finder.draining \in BOOLEAN
    BY <1>1 DEF FinderType
  <1>6. finder.waiting = << >> BY <1>1, <1>2 DEF ChangesInOrder
  <1>7. HandleChangesNow(m, finder) BY DEF HandleChanges
  <1> HIDE DEF m, rest
  <1>8. Pending = Lists(finderBox) /\ After(finder) = Lists(rest)
    BY <1>2, <1>6, EmptyBox DEF Pending, After
  <1>9. InOrder(finder.waiting) /\ Before(Elements(finder.waiting), Lists(rest))
    BY <1>6, EmptyBox DEF Before
  <1>10. \A p \in Lists(rest) : m.last < p.first BY <1>3, <1>4 DEF Before
  <1>11. TakesFirst(m, finder)
    BY <1>1, <1>2, <1>3, <1>4, <1>6, <1>8, <1>9, <1>10 DEF TakesFirst
  <1>12. QED BY <1>7, <1>11 DEF m

LEMMA DeferredArrives ==
    ASSUME IInv, HandleChanges, ~PullerHasCapacity
    PROVE  Arrival
  <1> DEFINE m == Head(finderBox)
             rest == Tail(finderBox)
  <1>1. Typed /\ ListsInOrder /\ ListsKnown /\ ChangesInOrder /\ finderBox \in Seq(FinderMail) /\ finder \in FinderType
    BY DEF IInv, Typed, FinderType
  <1>2. ~finder.draining /\ finderBox # << >> /\ m.t = "changes" /\ finderBox' = rest
    BY DEF HandleChanges
  <1>3. /\ m \in FinderMail /\ rest \in Seq(FinderMail) /\ Lists(finderBox) = Lists(rest) \cup ListOf(m)
        /\ InOrder(rest) /\ Before(ListOf(m), Lists(rest))
    BY <1>1, <1>2, BoxTail DEF ListsInOrder
  <1>4. m \in ChangesMail /\ ListOf(m) = {m} /\ IsList(m)
    BY <1>2, <1>3, MailKinds DEF ListOf
  <1>5. finder.waiting \in Seq(ChangesMail) /\ finder.requested \in Int /\ finder.revoked \in Int /\ finder.draining \in BOOLEAN
    BY <1>1 DEF FinderType
  <1>6. /\ finder' = [finder EXCEPT !.waiting = Append(finder.waiting, m)]
        /\ UNCHANGED <<announced, kind, owed, pullerBox, waiting, missing, lastSequence,
                       inc, returning, toInsert, batch, inserted, fate, askedAgain>>
    BY DEF HandleChanges, peer, puller, workers, history
  <1> HIDE DEF m, rest
  <1> DEFINE q == finder.waiting
             r == Append(q, m)
  <1>7. q \in Seq(ChangesMail) /\ InOrder(q) /\ Before(Elements(q), Lists(finderBox))
    BY <1>1, <1>5 DEF ListsInOrder
  <1>8. Lists(q) = Elements(q)
    <2>1. Elements(q) \subseteq ChangesMail BY <1>7, ElementsOf
    <2>2. QED BY <2>1, MailKinds DEF Lists
  <1>9. Before(Lists(q), ListOf(m)) BY <1>3, <1>7, <1>8 DEF Before
  <1>10. r \in Seq(ChangesMail) /\ Elements(r) = Elements(q) \cup {m} /\ InOrder(r)
    <2>1. r \in Seq(ChangesMail) /\ Elements(r) = Elements(q) \cup {m}
      BY <1>4, <1>7, AppendElements
    <2>2. InOrder(q) /\ Before(Lists(q), ListOf(m)) => InOrder(r)
      BY <1>4, <1>7, BoxAppended, Zenon
    <2>3. QED BY <1>7, <1>9, <2>1, <2>2
  <1> HIDE DEF q, r
  <1>11. finder' = [finder EXCEPT !.waiting = r] BY <1>6 DEF q, r
  <1>12. /\ finder' \in FinderType /\ finder'.waiting = r /\ finder'.draining = finder.draining
        /\ finder'.requested = finder.requested /\ finder'.revoked = finder.revoked
    BY <1>1, <1>10, <1>11 DEF FinderType
  <1>13. ChangesInOrder' BY <1>12 DEF ChangesInOrder, PullerHasCapacity
  <1>14. Pending' = Pending BY <1>2, <1>3, <1>4, <1>10, <1>12 DEF Pending, q
  <1>15. Before(Elements(r), Lists(rest))
    BY <1>3, <1>4, <1>7, <1>10 DEF Before
  <1>16. announced \in Nat /\ announced \in 0 .. N /\ kind \in [Seqs -> {"none"} \cup Kinds]
    BY <1>1, Numbers DEF Typed
  <1>17. \A s \in Seqs : kind[s] # "none" => s <= announced
    BY <1>1 DEF ListsKnown
  <1>18. \A s \in Seqs : ~(announced < s /\ s <= announced')
    BY <1>6, <1>16, Numbers
  <1>19. finderBox' \in Seq(FinderMail) /\ InOrder(finder'.waiting) /\ InOrder(finderBox')
         /\ Before(Elements(finder'.waiting), Lists(finderBox'))
    BY <1>2, <1>3, <1>10, <1>12, <1>15
  <1>20. announced' \in 0 .. N /\ announced <= announced' /\ kind' = kind
    BY <1>6, <1>16
  <1>21. QED BY <1>6, <1>12, <1>13, <1>14, <1>16, <1>17, <1>18, <1>19, <1>20 DEF Arrival

LEMMA HandleChangesIsSafe == IInv /\ HandleChanges => IInv'
  BY FirstIsTaken, HandleNowIsSafe, DeferredArrives, ArrivalIsSafe

LEMMA NextIsTaken ==
    ASSUME IInv, HandleWaitingChanges, finder.waiting # << >>, PullerHasCapacity
    PROVE  \E others : /\ TakesFirst(Head(finder.waiting), others) /\ HandleChangesNow(Head(finder.waiting), others)
                       /\ others = [finder EXCEPT !.waiting = Tail(finder.waiting)]
  <1>1. /\ Typed /\ ListsInOrder /\ ChangesInOrder /\ finderBox \in Seq(FinderMail) /\ pullerBox \in Seq(PullerMail)
        /\ finder \in FinderType
    BY DEF IInv, Typed, FinderType
  <1>2. finder.draining /\ finderBox' = finderBox
    BY DEF HandleWaitingChanges
  <1>3. finder.waiting \in Seq(ChangesMail) /\ finder.requested \in Int /\ finder.revoked \in Int /\ finder.draining \in BOOLEAN
    BY <1>1 DEF FinderType
  <1> DEFINE q == finder.waiting
             m == Head(q)
             rest == Tail(q)
  <1>4. HandleChangesNow(m, [finder EXCEPT !.waiting = rest])
    BY DEF HandleWaitingChanges
  <1>5. /\ m \in ChangesMail /\ rest \in Seq(ChangesMail) /\ Elements(q) = {m} \cup Elements(rest)
        /\ Lists(q) = Lists(rest) \cup ListOf(m) /\ InOrder(rest) /\ Before(ListOf(m), Lists(rest))
    BY <1>1, <1>3, BoxTail DEF ListsInOrder
  <1> HIDE DEF m, rest
  <1>6. Lists(rest) = Elements(rest) /\ ListOf(m) = {m}
    <2>1. Elements(rest) \subseteq ChangesMail BY <1>5, ElementsOf
    <2>2. QED BY <1>5, <2>1, MailKinds DEF Lists, ListOf
  <1>7. PICK others : others = [finder EXCEPT !.waiting = rest] OBVIOUS
  <1>8. others \in FinderType /\ others.waiting = rest /\ others.draining = finder.draining
    BY <1>1, <1>5, <1>7 DEF FinderType
  <1>9. Before(Elements(q), Lists(finderBox)) /\ InOrder(finderBox)
    BY <1>1 DEF ListsInOrder
  <1>10. After(others) = Elements(rest) \cup Lists(finderBox)
    BY <1>2, <1>8 DEF After
  <1>11. Pending = {m} \cup After(others) BY <1>5, <1>10 DEF Pending
  <1>12. \A p \in After(others) : m.last < p.first
    BY <1>5, <1>6, <1>9, <1>10 DEF Before
  <1>13. Before(Elements(rest), Lists(finderBox)) BY <1>5, <1>9 DEF Before
  <1>14. TakesFirst(m, others)
    BY <1>1, <1>2, <1>5, <1>8, <1>9, <1>11, <1>12, <1>13 DEF TakesFirst
  <1>15. HandleChangesNow(m, others) BY <1>4, <1>7
  <1>16. QED BY <1>7, <1>14, <1>15 DEF m, rest

LEMMA HandleWaitingIsSafe == IInv /\ HandleWaitingChanges => IInv'
  <1> SUFFICES ASSUME IInv, HandleWaitingChanges PROVE IInv' OBVIOUS
  <1>1. /\ Typed /\ ListsInOrder /\ ChangesInOrder /\ finderBox \in Seq(FinderMail) /\ pullerBox \in Seq(PullerMail)
        /\ finder \in FinderType
    BY DEF IInv, Typed, FinderType
  <1>2. finder.draining /\ finderBox' = finderBox
    BY DEF HandleWaitingChanges
  <1>3. finder.waiting \in Seq(ChangesMail) /\ finder.requested \in Int /\ finder.revoked \in Int /\ finder.draining \in BOOLEAN
    BY <1>1 DEF FinderType
  <1>4. CASE finder.waiting # << >> /\ PullerHasCapacity
    BY <1>4, NextIsTaken, HandleNowIsSafe
  <1>5. CASE ~(finder.waiting # << >> /\ PullerHasCapacity)
    <2>1. /\ finder' = [finder EXCEPT !.draining = FALSE] /\ owed' = owed /\ pullerBox' = pullerBox
          /\ UNCHANGED <<announced, kind, waiting, missing, lastSequence, inc, returning, toInsert, batch, inserted, fate, askedAgain>>
      BY <1>5 DEF HandleWaitingChanges, peer, puller, workers, history
    <2>2. /\ finder' \in FinderType /\ finder'.waiting = finder.waiting
          /\ finder'.requested = finder.requested /\ finder'.revoked = finder.revoked
      BY <1>1, <2>1 DEF FinderType
    <2>3. ChangesInOrder'
      BY <1>5, <2>2 DEF ChangesInOrder, PullerHasCapacity
    <2>4. FinderSame(finderBox, finderBox') /\ SameMail(pullerBox, pullerBox')
      BY <1>1, <1>2, <2>1, FinderSameItself, SameItself
    <2>5. QuietStep BY <2>1, <2>2, <2>3, <2>4 DEF QuietStep, FinderType
    <2>6. QED BY <2>5, QuietIsSafe
  <1>6. QED BY <1>4, <1>5

(* The peer announces more.                                                *)
LEMMA AnnouncedList ==
    ASSUME Typed, ListsKnown, ListsInOrder, NEW m \in ChangesMail, m.first = announced + 1, finder' = finder,
           finderBox' = Append(finderBox, m)
    PROVE  /\ finderBox' \in Seq(FinderMail) /\ finder' \in FinderType
           /\ InOrder(finder'.waiting) /\ InOrder(finderBox') /\ Before(Elements(finder'.waiting), Lists(finderBox'))
           /\ Pending' = Pending \cup {m}
  <1>1. finderBox \in Seq(FinderMail) /\ finder \in FinderType /\ announced \in Nat
    BY Numbers DEF Typed, FinderType
  <1>2. m \in FinderMail /\ ListOf(m) = {m} /\ m.first \in Nat /\ m.last \in Nat
    BY MailKinds DEF ListOf
  <1>3. \A x \in Pending : x.last < m.first
    <2>1. SUFFICES ASSUME NEW x \in Pending PROVE x.last < m.first OBVIOUS
    <2>2. x.last <= announced /\ x.last \in Nat BY MailTypes DEF ListsKnown
    <2>3. QED BY <1>1, <2>2
  <1>4. Before(Lists(finderBox), ListOf(m))
    BY <1>2, <1>3 DEF Before, Pending
  <1>5. InOrder(finderBox) BY DEF ListsInOrder
  <1>6. PICK q : q = finderBox OBVIOUS
  <1>7. /\ Append(q, m) \in Seq(FinderMail) /\ Lists(Append(q, m)) = Lists(q) \cup ListOf(m)
         /\ InOrder(Append(q, m))
    <2>1. q \in Seq(FinderMail) /\ InOrder(q) /\ Before(Lists(q), ListOf(m))
      BY <1>5, <1>1, <1>4, <1>6
    <2>2. Append(q, m) \in Seq(FinderMail) BY <1>2, <2>1, AppendElements
    <2>3. Lists(Append(q, m)) = Lists(q) \cup ListOf(m)
      BY <1>2, <2>1, BoxAppended
    <2>4. InOrder(q) /\ Before(Lists(q), ListOf(m)) => InOrder(Append(q, m))
      BY <1>2, <2>1, BoxAppended, Zenon
    <2>5. QED BY <2>1, <2>2, <2>4, <2>3
  <1>8. /\ finderBox' \in Seq(FinderMail) /\ Lists(finderBox') = Lists(finderBox) \cup ListOf(m)
        /\ InOrder(finderBox')
    BY <1>6, <1>7
  <1>9. Before(Elements(finder.waiting), Lists(finderBox'))
    BY <1>2, <1>3, <1>8 DEF Before, Pending, ListsInOrder
  <1>10. Pending' = Pending \cup {m} BY <1>2, <1>8 DEF Pending
  <1>11. QED BY <1>1, <1>8, <1>9, <1>10 DEF ListsInOrder

LEMMA AnnounceArrives ==
    ASSUME IInv, Announce \/ AnnounceEnd
    PROVE  Arrival
  <1>1. Typed /\ ListsKnown /\ ListsInOrder /\ ChangesInOrder BY DEF IInv
  <1>2. announced \in Nat /\ announced \in 0 .. N /\ kind \in [Seqs -> {"none"} \cup Kinds] /\ N \in Nat
    BY <1>1, Numbers DEF Typed
  <1>3. \A s \in Seqs : s \in Nat /\ 1 <= s /\ s <= N BY <1>2, Numbers
  <1>4. \A s \in Seqs : kind[s] # "none" => s <= announced
    BY <1>1 DEF ListsKnown
  <1>5. CASE Announce
    <2>1. PICK n \in 1 .. ListSize : \E k \in [announced + 1 .. announced + n -> Kinds] :
            /\ announced + n <= N /\ announced' = announced + n
            /\ kind' = [s \in Seqs |-> IF s \in DOMAIN k THEN k[s] ELSE kind[s]]
            /\ finderBox' = Append(finderBox, [t |-> "changes", first |-> announced + 1, last |-> announced + n])
            /\ UNCHANGED <<backlog, owed, link, finder, puller, workers, history>>
      BY <1>5 DEF Announce
    <2>2. PICK k \in [announced + 1 .. announced + n -> Kinds] :
            /\ announced + n <= N /\ announced' = announced + n
            /\ kind' = [s \in Seqs |-> IF s \in DOMAIN k THEN k[s] ELSE kind[s]]
            /\ finderBox' = Append(finderBox, [t |-> "changes", first |-> announced + 1, last |-> announced + n])
            /\ UNCHANGED <<backlog, owed, link, finder, puller, workers, history>>
      BY <2>1
    <2>3. UNCHANGED <<owed, finder, pullerBox, waiting, missing, lastSequence, inc, returning, toInsert, batch, inserted, fate, askedAgain>>
      BY <2>2 DEF puller, workers, history
    <2>4. n \in Nat /\ 1 <= n BY PullerAssumption
    <2> DEFINE m == [t |-> "changes", first |-> announced + 1, last |-> announced + n]
    <2>5. m \in ChangesMail /\ m.first = announced + 1 /\ m.last = announced + n
      BY <1>2, <2>4 DEF ChangesMail
    <2>6. finderBox' = Append(finderBox, m) /\ finder' = finder
      BY <2>2, <2>3
    <2> HIDE DEF m
    <2>7. /\ finderBox' \in Seq(FinderMail) /\ finder' \in FinderType
          /\ InOrder(finder'.waiting) /\ InOrder(finderBox') /\ Before(Elements(finder'.waiting), Lists(finderBox'))
          /\ Pending' = Pending \cup {m}
      BY <1>1, <2>5, <2>6, AnnouncedList
    <2>8. announced' \in 0 .. N /\ announced <= announced'
      BY <1>2, <2>2, <2>4
    <2>9. \A s \in Seqs : s \in DOMAIN k <=> announced < s /\ s <= announced'
      BY <1>2, <1>3, <2>2, <2>4
    <2>10. kind' \in [Seqs -> {"none"} \cup Kinds] BY <1>2, <2>2
    <2>11. \A s \in Seqs : kind'[s] = IF s \in DOMAIN k THEN k[s] ELSE kind[s]
      BY <2>2
    <2>12. \A s \in Seqs : s <= announced => kind'[s] = kind[s]
      BY <1>2, <1>3, <2>9, <2>11
    <2>13. \A s \in Seqs : kind'[s] # "none" => s <= announced'
      BY <1>2, <1>3, <1>4, <2>2, <2>4, <2>9, <2>11
    <2>14. IsNew(m) BY <1>2, <2>2, <2>4, <2>5 DEF IsNew
    <2>15. \A s \in Seqs : announced < s /\ s <= announced' => Covers(m, s)
      BY <1>2, <1>3, <2>2, <2>4, <2>5 DEF Covers
    <2>16. ChangesInOrder'
      BY <1>1, <2>6 DEF ChangesInOrder, PullerHasCapacity
    <2>17. QED BY <2>3, <2>7, <2>8, <2>10, <2>12, <2>13, <2>14, <2>15, <2>16 DEF Arrival
  <1>6. CASE AnnounceEnd
    <2>1. /\ announced' = announced /\ kind' = kind /\ finder' = finder
          /\ finderBox' = Append(finderBox, [t |-> "changes", first |-> announced + 1, last |-> announced])
          /\ UNCHANGED <<owed, pullerBox, waiting, missing, lastSequence, inc, returning, toInsert, batch, inserted, fate, askedAgain>>
      BY <1>6 DEF AnnounceEnd, puller, workers, history
    <2> DEFINE m == [t |-> "changes", first |-> announced + 1, last |-> announced]
    <2>2. m \in ChangesMail /\ m.first = announced + 1 /\ m.last = announced /\ finderBox' = Append(finderBox, m)
      BY <1>2, <2>1 DEF ChangesMail
    <2> HIDE DEF m
    <2>3. /\ finderBox' \in Seq(FinderMail) /\ finder' \in FinderType
          /\ InOrder(finder'.waiting) /\ InOrder(finderBox') /\ Before(Elements(finder'.waiting), Lists(finderBox'))
          /\ Pending' = Pending \cup {m}
      BY <1>1, <2>1, <2>2, AnnouncedList
    <2>4. announced' \in 0 .. N /\ announced <= announced' BY <1>2, <2>1
    <2>5. IsNew(m) BY <1>2, <2>1, <2>2 DEF IsNew
    <2>6. \A s \in Seqs : ~(announced < s /\ s <= announced')
      BY <1>2, <1>3, <2>1
    <2>7. ChangesInOrder'
      BY <1>1, <2>1 DEF ChangesInOrder, PullerHasCapacity
    <2>8. QED BY <1>2, <1>4, <2>1, <2>3, <2>4, <2>5, <2>6, <2>7 DEF Arrival
  <1>7. QED BY <1>5, <1>6

-----------------------------------------------------------------------------
(***************************************************************************)
(* Revisions are sent, parsed and inserted: the lists stay as they are.    *)
(***************************************************************************)
LEMMA ListsInvStays ==
    ASSUME Typed, ListsInv, ListsKept, FatesStay, missing' = missing, lastSequence' = lastSequence, finder' = finder
    PROVE  ListsInv' /\ \A m \in Pending' : m \in Pending
  <1>1. ListsKnown' /\ ListsInOrder' /\ AllCovered'
    BY ListsStay DEF ListsInv
  <1>2. GoodSet(missing) /\ missing.lastAdded \in Nat
    BY DEF ListsInv, CheckpointKnown, GoodSet
  <1>3. GoodSet(missing') /\ missing'.lastAdded \in Nat /\ missing.lastAdded <= missing'.lastAdded
    BY <1>2
  <1>4. CheckpointKnown' BY <1>2, <1>3, CheckpointStays DEF ListsInv
  <1>5. ChangesInOrder' BY DEF ListsInv, ChangesInOrder, PullerHasCapacity
  <1>6. \A m \in Pending' : m \in Pending
    BY DEF Pending, ListsKept, FinderSame, SameLists
  <1>7. QED BY <1>1, <1>4, <1>5, <1>6 DEF ListsInv

LEMMA SentIsSafe ==
    ASSUME IInv, NEW id \in owed, NEW x \in PullerMail, IsRev(x), x.id = id,
           x.t = "rev" /\ id[2] = 2 => x.form \notin {"delta", "deltaLater"},
           owed' = owed \ {id}, pullerBox' = Append(pullerBox, x), finder' = finder, finderBox' = finderBox,
           UNCHANGED <<announced, kind, waiting, missing, lastSequence, inc, returning, toInsert, batch, inserted, fate, askedAgain>>
    PROVE  IInv'
  <1>1. Typed /\ ListsInv /\ PlacesInv BY TheInvariant
  <1>2. pullerBox \in Seq(PullerMail) /\ finderBox \in Seq(FinderMail)
    BY <1>1 DEF Typed
  <1>3. ListOf(x) = {} /\ RevIdOf(x) = {id} /\ RevokedOf(x) = {}
    BY DEF ListOf, RevIdOf, RevokedOf, IsRev, IsList
  <1>4. ComingOnce BY <1>1 DEF PlacesInv
  <1>5. Before(Lists(pullerBox), ListOf(x)) /\ RevIds(pullerBox) \cap RevIdOf(x) = {} /\ Distinct(pullerBox)
    BY <1>3, <1>4 DEF Before, ComingOnce
  <1>6. PICK q : q = pullerBox OBVIOUS
  <1>7. /\ Append(q, x) \in Seq(PullerMail) /\ Elements(Append(q, x)) = Elements(q) \cup {x}
        /\ Lists(Append(q, x)) = Lists(q) \cup ListOf(x)
        /\ RevIds(Append(q, x)) = RevIds(q) \cup RevIdOf(x)
        /\ RevokedSeqs(Append(q, x)) = RevokedSeqs(q) \cup RevokedOf(x)
        /\ InOrder(q) => InOrder(Append(q, x))
        /\ Distinct(Append(q, x))
    BY <1>2, <1>5, <1>6, BoxAppended
  <1>8. /\ pullerBox' \in Seq(PullerMail) /\ Elements(pullerBox') = Elements(pullerBox) \cup {x}
        /\ RevIds(pullerBox') = RevIds(pullerBox) \cup {id} /\ RevokedSeqs(pullerBox') = RevokedSeqs(pullerBox)
        /\ SameLists(pullerBox, pullerBox') /\ Distinct(pullerBox')
    BY <1>3, <1>6, <1>7 DEF SameLists
  <1>9. WholeSecond(pullerBox')
    <2>1. WholeSecond(pullerBox) BY <1>4 DEF ComingOnce
    <2>2. QED BY <1>8, <2>1 DEF WholeSecond
  <1>10. FatesStay BY DEF FatesStay
  <1>11. ListsKept BY <1>2, <1>8, FinderSameItself DEF ListsKept
  <1>12. ListsInv' /\ \A m \in Pending' : m \in Pending
    BY <1>1, <1>10, <1>11, ListsInvStays
  <1>13. ComingOnce' /\ \A j \in Coming' : j \in Coming
    <2>1. ComingOnce' BY <1>4, <1>8, <1>9 DEF ComingOnce
    <2>2. \A j \in Coming' : j \in Coming BY <1>8 DEF Coming
    <2>3. QED BY <2>1, <2>2
  <1>14. OnePlace' BY <1>1, <1>12, <1>13, OnePlaceStays DEF PlacesInv
  <1>15. WorkersKnown' BY <1>1, <1>8, <1>10, WorkersStay DEF PlacesInv
  <1>16. Typed' BY <1>1, <1>8 DEF Typed
  <1>17. QED BY <1>12, <1>13, <1>14, <1>15, <1>16 DEF IInv, ListsInv

LEMMA SendIsSafe ==
    ASSUME IInv, NEW id \in Ids, SendNoRev(id) \/ \E form \in AllForms : SendRev(id, form)
    PROVE  IInv'
  <1>1. CASE SendNoRev(id)
    <2> DEFINE x == [t |-> "norev", id |-> id]
    <2>1. /\ id \in owed /\ owed' = owed \ {id} /\ pullerBox' = Append(pullerBox, x) /\ finder' = finder /\ finderBox' = finderBox
          /\ UNCHANGED <<announced, kind, waiting, missing, lastSequence, inc, returning, toInsert, batch, inserted, fate, askedAgain>>
      BY <1>1 DEF SendNoRev, workers
    <2>2. x \in PullerMail /\ IsRev(x) /\ x.id = id /\ x.t # "rev"
      BY DEF PullerMail, IsRev
    <2> HIDE DEF x
    <2>3. QED BY <2>1, <2>2, SentIsSafe
  <1>2. ASSUME NEW form \in AllForms, SendRev(id, form) PROVE IInv'
    <2> DEFINE x == [t |-> "rev", id |-> id, form |-> form]
    <2>1. /\ id \in owed /\ owed' = owed \ {id} /\ pullerBox' = Append(pullerBox, x) /\ finder' = finder /\ finderBox' = finderBox
          /\ form \in IF id[2] = 1 THEN Forms[id[1]] ELSE AllForms \ {"delta", "deltaLater"}
          /\ UNCHANGED <<announced, kind, waiting, missing, lastSequence, inc, returning, toInsert, batch, inserted, fate, askedAgain>>
      BY <1>2 DEF SendRev, workers, history
    <2>2. x \in PullerMail /\ IsRev(x) /\ x.id = id
      BY DEF PullerMail, RevMail, IsRev
    <2>3. x.t = "rev" /\ id[2] = 2 => x.form \notin {"delta", "deltaLater"}
      BY <2>1
    <2> HIDE DEF x
    <2>4. QED BY <2>1, <2>2, <2>3, SentIsSafe
  <1>3. QED BY <1>1, <1>2

LEMMA MovedIsSafe ==
    ASSUME IInv, NEW id \in Ids, NEW x, Moved(id, x), MoveIsRight(id, x), Typed', ListsKept, FatesStay,
           missing' = missing, lastSequence' = lastSequence, finder' = finder, ComingOnce', OnePlace'
    PROVE  IInv'
  <1>1. Typed /\ ListsInv /\ PlacesInv BY TheInvariant
  <1>2. ListsInv' BY <1>1, ListsInvStays
  <1>3. WorkersKnown' BY <1>1, WorkersAt DEF PlacesInv, MoveIsRight
  <1>4. QED BY <1>2, <1>3 DEF IInv, ListsInv

LEMMA NewInc ==
    ASSUME NEW st \in Statuses, NEW delta \in BOOLEAN
    PROVE  /\ [NoInc EXCEPT !.st = st] \in IncType /\ [NoInc EXCEPT !.st = st].st = st
           /\ [NoInc EXCEPT !.st = st].delta = FALSE /\ [NoInc EXCEPT !.st = st].transient = FALSE
           /\ [NoInc EXCEPT !.st = st].prov = FALSE /\ [NoInc EXCEPT !.st = st, !.delta = delta].prov = FALSE
           /\ [NoInc EXCEPT !.st = st, !.transient = delta].prov = FALSE
           /\ [NoInc EXCEPT !.st = st, !.delta = delta] \in IncType /\ [NoInc EXCEPT !.st = st, !.delta = delta].st = st
           /\ [NoInc EXCEPT !.st = st, !.delta = delta].delta = delta
           /\ [NoInc EXCEPT !.st = st, !.transient = delta] \in IncType
           /\ [NoInc EXCEPT !.st = st, !.transient = delta].st = st
           /\ [NoInc EXCEPT !.st = st, !.transient = delta].transient = delta
           /\ [NoInc EXCEPT !.st = st, !.transient = delta].delta = FALSE
  <1>1. PICK h : h = [NoInc EXCEPT !.st = st] OBVIOUS
  <1>2. h = [st |-> st, delta |-> FALSE, prov |-> FALSE, transient |-> FALSE]
    BY <1>1 DEF NoInc
  <1>3. [NoInc EXCEPT !.st = st, !.delta = delta] = [h EXCEPT !.delta = delta]
    BY <1>1, Zenon
  <1>4. [NoInc EXCEPT !.st = st, !.transient = delta] = [h EXCEPT !.transient = delta]
    BY <1>1, Zenon
  <1>5. h \in IncType /\ h.st = st /\ h.delta = FALSE /\ h.transient = FALSE /\ h.prov = FALSE
    BY <1>2 DEF IncType
  <1>6. PICK g : g = [h EXCEPT !.delta = delta] OBVIOUS
  <1>7. g \in IncType /\ g.st = st /\ g.delta = delta /\ g.prov = FALSE
    BY <1>5, <1>6 DEF IncType
  <1>8. PICK k : k = [h EXCEPT !.transient = delta] OBVIOUS
  <1>9. k \in IncType /\ k.st = st /\ k.transient = delta /\ k.delta = FALSE /\ k.prov = FALSE
    BY <1>5, <1>8 DEF IncType
  <1>10. QED BY <1>1, <1>3, <1>4, <1>5, <1>6, <1>7, <1>8, <1>9, Zenon

LEMMA ReturnedBox ==
    ASSUME NEW id, NEW box \in Seq(PullerMail), RevWasHandled(id, box)
    PROVE  SameMail(box, pullerBox') /\ returning' = returning \cup {id}
  <1>1. [t |-> "revsFinished"] \in PlainMail BY DEF PlainMail
  <1>2. SameMail(box, Append(box, [t |-> "revsFinished"])) /\ SameMail(box, box)
    BY <1>1, PlainAppended, SameItself
  <1>3. pullerBox' = Append(box, [t |-> "revsFinished"]) \/ pullerBox' = box
    BY DEF RevWasHandled
  <1>4. QED BY <1>2, <1>3 DEF RevWasHandled

LEMMA InsertDispatches ==
    ASSUME Typed, NEW id \in Ids, NEW delta \in BOOLEAN, NEW box \in Seq(PullerMail), InsertRevision(id, delta, box)
    PROVE  \E x : Dispatch(id, x, box) /\ x.delta = delta
  <1>1. PICK x : x = [NoInc EXCEPT !.st = "queued", !.delta = delta] OBVIOUS
  <1>2. "queued" \in Statuses BY DEF Statuses
  <1>3. x \in IncType /\ x.st = "queued" /\ x.delta = delta /\ x.prov = FALSE
    BY <1>1, <1>2, NewInc, ZenonT(60)
  <1>4. /\ inc' = [inc EXCEPT ![id] = x] /\ toInsert' = Append(toInsert, id) /\ pullerBox' = box
        /\ returning' = returning /\ fate' = fate
    BY <1>1, Zenon DEF InsertRevision
  <1>5. SameMail(box, pullerBox') /\ fate \in [Seqs -> Fates]
    BY <1>4, SameItself DEF Typed
  <1>6. Dispatch(id, x, box) BY <1>3, <1>4, <1>5 DEF Dispatch
  <1>7. QED BY <1>3, <1>6

LEMMA ReturnDispatches ==
    ASSUME Typed, NEW id \in Ids, NEW box \in Seq(PullerMail), NEW f \in {"refused", "lost"}, inc' = Become(id, "returned"),
           RevWasHandled(id, box), fate' = [fate EXCEPT ![id[1]] = f], toInsert' = toInsert
    PROVE  \E x : Dispatch(id, x, box) /\ x.delta = FALSE
  <1>1. PICK x : x = [NoInc EXCEPT !.st = "returned"] OBVIOUS
  <1>2. "returned" \in Statuses BY DEF Statuses
  <1>3. x \in IncType /\ x.st = "returned" /\ x.delta = FALSE /\ x.prov = FALSE
    BY <1>1, <1>2, NewInc, Zenon
  <1>4. inc' = [inc EXCEPT ![id] = x] BY <1>1 DEF Become
  <1>5. SameMail(box, pullerBox') /\ returning' = returning \cup {id}
    BY ReturnedBox
  <1>6. fate \in [Seqs -> Fates] /\ id[1] \in Seqs BY PairIs DEF Typed
  <1>7. /\ fate' \in [Seqs -> Fates] /\ (\A s \in Seqs : fate[s] # "none" => fate'[s] # "none")
        /\ fate'[id[1]] # "none"
    BY <1>6 DEF Fates
  <1>8. Dispatch(id, x, box) BY <1>3, <1>4, <1>5, <1>7 DEF Dispatch
  <1>9. QED BY <1>3, <1>8

LEMMA FailDispatches ==
    ASSUME Typed, NEW id \in Ids, NEW causes, NEW box \in Seq(PullerMail), FailWithError(id, causes, box)
    PROVE  \E x : Dispatch(id, x, box) /\ x.delta = FALSE
  <1>1. PICK f \in {"refused", "lost"} : fate' = [fate EXCEPT ![id[1]] = f]
    BY DEF FailWithError
  <1>2. inc' = Become(id, "returned") /\ RevWasHandled(id, box) /\ toInsert' = toInsert
    BY DEF FailWithError
  <1>3. QED BY <1>1, <1>2, ReturnDispatches

LEMMA StartedIsSafe ==
    ASSUME IInv, NEW id \in Ids, NEW x, NEW box, Started(id, x, box)
    PROVE  IInv'
  <1>1. Typed /\ ListsInv /\ PlacesInv /\ OnePlace /\ WorkersKnown
    BY TheInvariant DEF PlacesInv
  <1>2. /\ x \in IncType /\ inc' = [inc EXCEPT ![id] = x] /\ x.st \in {"parsing", "queued", "returned"} /\ x.prov = FALSE
        /\ toInsert' = (IF x.st = "queued" THEN Append(toInsert, id) ELSE toInsert)
        /\ returning' = (IF x.st = "returned" THEN returning \cup {id} ELSE returning)
        /\ fate' \in [Seqs -> Fates] /\ (\A s \in Seqs : fate[s] # "none" => fate'[s] # "none")
        /\ x.st = "returned" => fate'[id[1]] # "none"
        /\ SameMail(box, pullerBox')
    BY DEF Started, Dispatch
  <1>3. UNCHANGED <<announced, kind, missing, lastSequence, finder, batch, inserted, askedAgain>> /\ ListsKept
    BY DEF Started
  <1>4. toInsert \in Seq(Ids) /\ batch \in Seq(Ids) /\ inserted \in Seq(Ids) /\ returning \in SUBSET Ids /\ inc \in [Ids -> IncType]
    BY <1>1 DEF Typed, IncType
  <1>5. Append(toInsert, id) \in Seq(Ids) /\ Elements(Append(toInsert, id)) = Elements(toInsert) \cup {id}
    BY <1>4, AppendElements
  <1>6. toInsert' \in Seq(Ids) /\ returning' \in SUBSET Ids /\ inc' \in [Ids -> IncType]
    <2>1. toInsert' \in Seq(Ids) BY <1>2, <1>4, <1>5
    <2>2. returning' \in SUBSET Ids BY <1>2, <1>4
    <2>3. inc' \in [Ids -> IncType] BY <1>2, <1>4
    <2>4. QED BY <2>1, <2>2, <2>3
  <1>7. finderBox' \in Seq(FinderMail) /\ pullerBox' \in Seq(PullerMail)
    BY <1>2, <1>3 DEF ListsKept, FinderSame, SameMail
  <1>8. Typed'
    <2>1. owed' \in SUBSET Ids /\ waiting' \in [revs : Seq(RevMail), revoked : Seq(Seqs)]
      BY DEF Started
    <2>2. QED BY <1>1, <1>2, <1>3, <1>6, <1>7, <2>1 DEF Typed, IncType
  <1>9. FatesStay BY <1>2, <1>3 DEF FatesStay
  <1>10. Moved(id, x) BY <1>2, <1>3 DEF Moved
  <1>11. x.st # "none" BY <1>2
  <1>12. \A m \in Pending' : m \in Pending
    BY <1>3 DEF Pending, ListsKept, FinderSame, SameLists
  <1>13. id \in Coming \/ inc[id].st = "parsing" \/ (id \notin WantedIds /\ inc[id].st = "none")
    BY DEF Started
  <1>14. inc[id].st = "parsing" => inc[id].st # "none" OBVIOUS
  <1>15. OnePlace'
    BY <1>1, <1>10, <1>11, <1>12, <1>13, <1>14, OnePlaceAt DEF Started
  <1>16. inc[id].st \in {"none", "parsing"} BY <1>1, <1>13 DEF OnePlace
  <1>17. id \notin Elements(toInsert) /\ id \notin Elements(batch) /\ id \notin Elements(inserted) /\ id \notin returning
    BY <1>1, <1>16, InQueue
  <1>18. QueuesMoved(id) BY <1>2, <1>3, <1>5 DEF QueuesMoved
  <1>19. QueuesRight(id, x.st)
    <2>1. CASE x.st = "queued"
      BY <1>2, <1>3, <1>5, <1>17, <2>1 DEF QueuesRight
    <2>2. CASE x.st # "queued" BY <1>2, <1>3, <1>17, <2>2 DEF QueuesRight
    <2>3. QED BY <2>1, <2>2
  <1>20. Once(toInsert') /\ Once(batch') /\ Once(inserted') /\ ProvIsRight(x)
    <2>1. Once(toInsert) /\ Once(batch) /\ Once(inserted)
      BY <1>1 DEF WorkersKnown
    <2>2. Once(Append(toInsert, id)) BY <1>4, <1>17, <2>1, OnceAppended
    <2>3. QED BY <1>2, <1>3, <2>1, <2>2 DEF ProvIsRight
  <1>21. x.st \in {"finishing", "returned"} /\ ~x.transient => Settled(id[1])'
    BY <1>2 DEF Settled
  <1>22. x.delta => id \in WantedIds BY <1>1 DEF Started, OnePlace
  <1>23. MoveIsRight(id, x)
    BY <1>18, <1>19, <1>20, <1>21, <1>22 DEF MoveIsRight, Started
  <1>24. ComingOnce' BY DEF Started
  <1>25. QED BY <1>3, <1>8, <1>9, <1>10, <1>15, <1>23, <1>24, MovedIsSafe

(***************************************************************************)
(* IncomingRevs and the Inserter.                                          *)
(***************************************************************************)
LEMMA PlaceOf ==
    ASSUME IInv, NEW id \in Ids, inc[id].st # "none"
    PROVE  id[1] <= announced /\ id \notin Coming /\ id[1] \in Seqs
  BY PairIs DEF IInv, OnePlace

LEMMA NotQueued ==
    ASSUME IInv, NEW id \in Ids
    PROVE  /\ inc[id].st # "queued" => id \notin Elements(toInsert) /\ id \notin Elements(batch)
           /\ inc[id].st # "inserted" => id \notin Elements(inserted)
           /\ inc[id].st # "returned" => id \notin returning
  <1>1. WorkersKnown BY DEF IInv
  <1>2. QED BY <1>1, InQueue

LEMMA ParseIsSafe ==
    ASSUME IInv, NEW id \in Ids, ParseAndInsert(id)
    PROVE  IInv'
  <1>1. Typed /\ ListsInv /\ PlacesInv /\ OnePlace
    BY TheInvariant DEF PlacesInv
  <1>2. pullerBox \in Seq(PullerMail) /\ finderBox \in Seq(FinderMail) /\ waiting \in [revs : Seq(RevMail), revoked : Seq(Seqs)] /\ owed \in SUBSET Ids
    BY <1>1 DEF Typed
  <1>3. PICK x : Dispatch(id, x, pullerBox) /\ x.delta = FALSE
    <2>1. CASE InsertRevision(id, FALSE, pullerBox)
      <3>1. FALSE \in BOOLEAN OBVIOUS
      <3>2. QED BY <1>1, <1>2, <2>1, <3>1, InsertDispatches
    <2>2. CASE FailWithError(id, {"invalid", "blob"}, pullerBox)
      BY <1>1, <1>2, <2>2, FailDispatches
    <2>3. QED BY <2>1, <2>2 DEF ParseAndInsert
  <1>4. /\ inc[id].st = "parsing" /\ owed' = owed /\ finderBox' = finderBox /\ waiting' = waiting
        /\ UNCHANGED <<announced, kind, missing, lastSequence, finder, batch, inserted, askedAgain>>
    BY DEF ParseAndInsert, peer
  <1>5. SameMail(pullerBox, pullerBox') BY <1>3 DEF Dispatch
  <1>6. ListsKept /\ SameRevs(pullerBox, pullerBox')
    BY <1>2, <1>4, <1>5, FinderSameItself DEF ListsKept, SameMail
  <1>7. ComingOnce' /\ \A j \in Coming' : j \in Coming
    BY <1>1, <1>4, <1>6, ComingStays DEF PlacesInv
  <1>8. id[1] <= announced /\ id \notin Coming BY <1>4, PlaceOf
  <1>9. RevokedSeqs(pullerBox') = RevokedSeqs(pullerBox)
    BY <1>6 DEF SameRevs
  <1>10. Started(id, x, pullerBox)
    BY <1>2, <1>3, <1>4, <1>6, <1>7, <1>8, <1>9 DEF Started
  <1>11. QED BY <1>10, StartedIsSafe

(* A delta has failed: the revision is asked for again.                    *)
LEMMA Asked ==
    ASSUME IInv, NEW id \in Ids, MayFail(id), ReRequest(id), waiting' = waiting
    PROVE  /\ SameMail(pullerBox, pullerBox') /\ owed' \in SUBSET Ids /\ ComingOnce'
           /\ \A j \in Coming' : j \in Coming \/ j = <<id[1], 2>>
  <1>1. Typed /\ OnePlace /\ ComingOnce BY DEF IInv
  <1>2. pullerBox \in Seq(PullerMail) /\ owed \in SUBSET Ids
    BY <1>1 DEF Typed
  <1>3. [t |-> "revReRequested"] \in PlainMail BY DEF PlainMail
  <1>4. SameMail(pullerBox, pullerBox')
    BY <1>2, <1>3, PlainAppended DEF ReRequest
  <1>5. RevIds(pullerBox') = RevIds(pullerBox) /\ Distinct(pullerBox') /\ WholeSecond(pullerBox')
    BY <1>1, <1>4 DEF SameMail, SameRevs, ComingOnce
  <1> DEFINE again == <<id[1], 2>>
  <1>6. id[2] = 1 /\ id = <<id[1], 1>> /\ id[1] \in Seqs /\ again \in Ids
    <2>1. id[2] = 1 BY <1>1 DEF OnePlace
    <2>2. id = <<id[1], id[2]>> /\ id[1] \in Seqs BY PairIs
    <2>3. QED BY <2>1, <2>2 DEF Ids
  <1>7. again \notin Coming
    <2>1. MayFail(<<id[1], 1>>) BY <1>6
    <2>2. QED BY <1>1, <1>6, <2>1 DEF OnePlace
  <1>8. \A j \in owed' : j \in owed \/ j = again
    BY DEF ReRequest
  <1> HIDE DEF again
  <1>9. owed' \in SUBSET Ids BY <1>2, <1>6, <1>8
  <1>10. owed' \cap RevIds(pullerBox) = {} /\ owed' \cap RevIds(waiting.revs) = {}
    BY <1>1, <1>7, <1>8 DEF ComingOnce, Coming
  <1>11. ComingOnce' BY <1>1, <1>5, <1>10 DEF ComingOnce
  <1>12. \A j \in Coming' : j \in Coming \/ j = again
    BY <1>5, <1>8 DEF Coming
  <1>13. QED BY <1>4, <1>9, <1>11, <1>12 DEF again

LEMMA DeltaFailsIsSafe ==
    ASSUME IInv, NEW id \in Ids, DeltaFails(id)
    PROVE  IInv'
  <1>1. Typed /\ ListsInv /\ PlacesInv /\ OnePlace /\ WorkersKnown
    BY TheInvariant DEF PlacesInv
  <1>2. PICK x : x = [NoInc EXCEPT !.st = "finishing"] OBVIOUS
  <1>3. "finishing" \in Statuses BY DEF Statuses
  <1>4. x \in IncType /\ x.st = "finishing" /\ x.delta = FALSE /\ x.prov = FALSE
    BY <1>2, <1>3, NewInc, Zenon
  <1>5. /\ inc[id].st = "parsing" /\ inc[id].delta /\ inc' = [inc EXCEPT ![id] = x] /\ ReRequest(id)
        /\ askedAgain' = askedAgain \cup {id[1]}
    BY <1>2 DEF DeltaFails, Become
  <1>6. UNCHANGED <<announced, kind, finderBox, finder, waiting, missing, lastSequence, returning, toInsert, batch, inserted, fate>>
    BY DEF DeltaFails
  <1>7. MayFail(id) /\ Moved(id, x) BY <1>5, <1>6 DEF MayFail, Moved
  <1>8. /\ SameMail(pullerBox, pullerBox') /\ owed' \in SUBSET Ids /\ ComingOnce'
        /\ \A j \in Coming' : j \in Coming \/ j = <<id[1], 2>>
    BY <1>5, <1>6, <1>7, Asked
  <1>9. ListsKept /\ RevokedSeqs(pullerBox') = RevokedSeqs(pullerBox)
    <2>1. finderBox \in Seq(FinderMail) BY <1>1 DEF Typed
    <2>2. QED BY <1>6, <1>8, <2>1, FinderSameItself DEF ListsKept, SameMail, SameRevs
  <1>10. \A m \in Pending' : m \in Pending BY <1>6 DEF Pending
  <1>11. OnePlace' BY <1>1, <1>4, <1>7, <1>8, <1>10, OnePlaceAsked
  <1>12. id[1] <= announced /\ id[1] \in Seqs BY <1>5, PlaceOf
  <1>13. Typed'
    <2>1. inc \in [Ids -> IncType] /\ askedAgain \in SUBSET Seqs
      BY <1>1 DEF Typed, IncType
    <2>2. inc' \in [Ids -> IncType] /\ askedAgain' \in SUBSET Seqs
      BY <1>4, <1>5, <1>12, <2>1
    <2>3. pullerBox' \in Seq(PullerMail) BY <1>8 DEF SameMail
    <2>4. QED BY <1>1, <1>6, <1>8, <2>2, <2>3 DEF Typed, IncType
  <1>14. FatesStay BY <1>5, <1>6 DEF FatesStay
  <1>15. Settled(id[1])' BY <1>5 DEF Settled
  <1>16. QueuesMoved(id) BY <1>6 DEF QueuesMoved
  <1>17. QueuesRight(id, x.st)
    <2>1. id \notin Elements(toInsert) /\ id \notin Elements(batch) /\ id \notin Elements(inserted) /\ id \notin returning
      BY <1>5, NotQueued
    <2>2. QED BY <1>6, <2>1 DEF QueuesRight
  <1>18. Once(toInsert') /\ Once(batch') /\ Once(inserted') /\ ProvIsRight(x)
    BY <1>1, <1>4, <1>6 DEF WorkersKnown, ProvIsRight
  <1>19. MoveIsRight(id, x)
    BY <1>4, <1>6, <1>9, <1>12, <1>15, <1>16, <1>17, <1>18 DEF MoveIsRight
  <1>20. QED BY <1>6, <1>7, <1>8, <1>9, <1>11, <1>13, <1>14, <1>19, MovedIsSafe

LEMMA ReturnIsSafe ==
    ASSUME IInv, NEW id \in Ids, Return(id)
    PROVE  IInv'
  <1>1. Typed /\ ListsInv /\ PlacesInv /\ OnePlace /\ WorkersKnown
    BY TheInvariant DEF PlacesInv
  <1>2. inc \in [Ids -> IncType] /\ pullerBox \in Seq(PullerMail) /\ finderBox \in Seq(FinderMail) /\ returning \in SUBSET Ids
    BY <1>1 DEF Typed, IncType
  <1>3. PICK x : x = [inc[id] EXCEPT !.st = "returned"] OBVIOUS
  <1>4. x \in IncType /\ x.st = "returned" /\ x.delta = inc[id].delta /\ x.transient = inc[id].transient
    <2>1. inc[id] \in IncType BY <1>2
    <2>2. QED BY <1>3, <2>1 DEF IncType, Statuses
  <1>5. inc[id].st = "finishing" /\ inc' = [inc EXCEPT ![id] = x] /\ RevWasHandled(id, pullerBox)
    BY <1>3 DEF Return
  <1>6. UNCHANGED <<announced, kind, owed, finderBox, finder, waiting, missing, lastSequence, toInsert, batch, inserted, fate, askedAgain>>
    BY DEF Return, peer, history
  <1>7. SameMail(pullerBox, pullerBox') /\ returning' = returning \cup {id}
    BY <1>2, <1>5, ReturnedBox
  <1>8. ListsKept /\ SameRevs(pullerBox, pullerBox') /\ RevokedSeqs(pullerBox') = RevokedSeqs(pullerBox)
    BY <1>2, <1>6, <1>7, FinderSameItself DEF ListsKept, SameMail, SameRevs
  <1>9. ComingOnce' /\ \A j \in Coming' : j \in Coming
    BY <1>1, <1>6, <1>8, ComingStays DEF PlacesInv
  <1>10. id[1] <= announced /\ id[1] \in Seqs /\ id \notin Coming /\ inc[id].st # "none"
    BY <1>5, PlaceOf
  <1>11. Moved(id, x) /\ x.st # "none" /\ x.st \notin {"parsing", "queued"}
    BY <1>4, <1>5, <1>6 DEF Moved
  <1>12. \A m \in Pending' : m \in Pending BY <1>6 DEF Pending
  <1>13. OnePlace' BY <1>1, <1>9, <1>10, <1>11, <1>12, OnePlaceAt
  <1>14. Typed'
    <2>1. inc' \in [Ids -> IncType] /\ returning' \in SUBSET Ids /\ pullerBox' \in Seq(PullerMail)
      BY <1>2, <1>4, <1>5, <1>7 DEF SameMail
    <2>2. QED BY <1>1, <1>6, <2>1 DEF Typed, IncType
  <1>15. FatesStay BY <1>6 DEF FatesStay
  <1>16. ~x.transient => Settled(id[1])'
    <2>1. ~x.transient => Settled(id[1])
      BY <1>1, <1>4, <1>5 DEF WorkersKnown
    <2>2. QED BY <1>10, <1>15, <2>1, SettledStays
  <1>17. QueuesMoved(id) BY <1>6, <1>7 DEF QueuesMoved
  <1>18. QueuesRight(id, x.st)
    <2>1. id \notin Elements(toInsert) /\ id \notin Elements(batch) /\ id \notin Elements(inserted)
      BY <1>5, NotQueued
    <2>2. QED BY <1>4, <1>6, <2>1 DEF QueuesRight
  <1>19. Once(toInsert') /\ Once(batch') /\ Once(inserted') /\ ProvIsRight(x)
    BY <1>1, <1>4, <1>6 DEF WorkersKnown, ProvIsRight
  <1>20. x.delta => id \in WantedIds BY <1>1, <1>4 DEF WorkersKnown
  <1>21. MoveIsRight(id, x)
    BY <1>6, <1>8, <1>10, <1>16, <1>17, <1>18, <1>19, <1>20 DEF MoveIsRight
  <1>22. QED BY <1>6, <1>8, <1>9, <1>11, <1>13, <1>14, <1>15, <1>21, MovedIsSafe

LEMMA InsertNowIsSafe == IInv /\ InsertRevisionsNow => IInv'
  <1> SUFFICES ASSUME IInv, InsertRevisionsNow PROVE IInv' OBVIOUS
  <1>1. Typed /\ ListsInv /\ PlacesInv /\ OnePlace /\ WorkersKnown
    BY TheInvariant DEF PlacesInv
  <1>2. /\ batch = << >> /\ batch' = toInsert /\ toInsert' = << >>
        /\ UNCHANGED <<announced, kind, owed, finderBox, finder, pullerBox, waiting, missing, lastSequence,
                       inc, returning, inserted, fate, askedAgain>>
    BY DEF InsertRevisionsNow, peer, puller, history
  <1>3. pullerBox \in Seq(PullerMail) /\ finderBox \in Seq(FinderMail) /\ << >> \in Seq(Ids)
    BY <1>1 DEF Typed
  <1>4. SameMail(pullerBox, pullerBox) BY <1>3, SameItself
  <1>5. ListsKept /\ SameRevs(pullerBox, pullerBox')
    BY <1>2, <1>3, <1>4, FinderSameItself DEF ListsKept, SameMail
  <1>6. FatesStay BY <1>2 DEF FatesStay
  <1>7. ListsInv' /\ \A m \in Pending' : m \in Pending
    BY <1>1, <1>2, <1>5, <1>6, ListsInvStays
  <1>8. ComingOnce' /\ \A j \in Coming' : j \in Coming
    BY <1>1, <1>2, <1>5, ComingStays DEF PlacesInv
  <1>9. OnePlace' BY <1>1, <1>2, <1>7, <1>8, OnePlaceStays
  <1>10. Typed' BY <1>1, <1>2, <1>3 DEF Typed
  <1>11. WorkersKnown'
    <2>1. WantedIds' = WantedIds BY <1>2 DEF WantedIds
    <2>2. Elements(toInsert') = {} /\ Elements(batch') = Elements(toInsert) /\ Once(<< >>)
      BY <1>2, EmptyBox DEF Once
    <2>3. AreAll(Elements(toInsert), "queued")' /\ AreAll(Elements(batch), "queued")'
          /\ AreAll(Elements(inserted), "inserted")' /\ AreAll(returning, "returned")'
      BY <1>1, <1>2, <2>1, <2>2 DEF WorkersKnown, AreAll
    <2>4. Once(toInsert)' /\ Once(batch)' /\ Once(inserted)' /\ (Elements(toInsert) \cap Elements(batch) = {})'
      BY <1>1, <1>2, <2>2 DEF WorkersKnown
    <2>5. \A id \in Ids : inc'[id].st \in {"finishing", "returned"} /\ ~inc'[id].transient => Settled(id[1])'
      BY <1>1, <1>2 DEF WorkersKnown, Settled
    <2>6. \A id \in Ids : (inc'[id].delta => id \in WantedIds') /\ ProvIsRight(inc'[id])
      BY <1>1, <1>2, <2>1 DEF WorkersKnown
    <2>7. \A s \in RevokedSeqs(pullerBox') \cup Elements(waiting'.revoked) : kind'[s] = "revoked"
      BY <1>1, <1>2 DEF WorkersKnown
    <2>8. QED BY <2>3, <2>4, <2>5, <2>6, <2>7 DEF WorkersKnown
  <1>12. QED BY <1>7, <1>8, <1>9, <1>10, <1>11 DEF IInv, ListsInv

(* The first of the batch.                                                 *)
LEMMA FirstOfBatch ==
    ASSUME IInv, batch # << >>
    PROVE  /\ Head(batch) \in Ids /\ Head(batch) \in Elements(batch) /\ Tail(batch) \in Seq(Ids)
           /\ Elements(batch) = {Head(batch)} \cup Elements(Tail(batch))
           /\ Once(Tail(batch)) /\ Head(batch) \notin Elements(Tail(batch))
           /\ Head(batch)[1] <= announced /\ Head(batch)[1] \in Seqs
           /\ inc[Head(batch)].st = "queued"
           /\ Head(batch) \notin Coming
  <1>1. Typed /\ WorkersKnown /\ OnePlace BY DEF IInv
  <1>2. batch \in Seq(Ids) /\ Once(batch) BY <1>1 DEF Typed, WorkersKnown
  <1> DEFINE id == Head(batch)
  <1>3. /\ id \in Ids /\ id \in Elements(batch) /\ Tail(batch) \in Seq(Ids)
        /\ Elements(batch) = {id} \cup Elements(Tail(batch))
    BY <1>2, TailElements
  <1>4. Once(Tail(batch)) /\ id \notin Elements(Tail(batch))
    BY <1>2, OnceTail
  <1> HIDE DEF id
  <1>5. inc[id].st = "queued" BY <1>1, <1>3 DEF WorkersKnown, AreAll
  <1>6. id \notin Coming /\ id[1] <= announced
    BY <1>1, <1>3, <1>5 DEF OnePlace
  <1>7. id[1] \in Seqs BY <1>3, PairIs
  <1>8. QED BY <1>3, <1>4, <1>5, <1>6, <1>7 DEF id

LEMMA InsertOneIsSafe == IInv /\ InsertOne => IInv'
  <1> SUFFICES ASSUME IInv, InsertOne PROVE IInv' OBVIOUS
  <1>1. Typed /\ ListsInv /\ PlacesInv /\ OnePlace /\ WorkersKnown
    BY TheInvariant DEF PlacesInv
  <1>2. PICK id : id = Head(batch) OBVIOUS
  <1>3. /\ batch # << >> /\ batch' = Tail(batch) /\ inserted' = Append(inserted, id)
        /\ inc' = [inc EXCEPT ![id].st = "inserted", ![id].prov = TRUE]
        /\ UNCHANGED <<announced, kind, owed, finderBox, finder, waiting, missing, lastSequence, returning, toInsert, fate, askedAgain>>
    BY <1>2 DEF InsertOne, peer, history
  <1>4. pullerBox' = pullerBox \/ pullerBox' = Append(pullerBox, [t |-> "provisionallyHandled"])
    BY DEF InsertOne
  <1>5. /\ inc \in [Ids -> IncType] /\ pullerBox \in Seq(PullerMail) /\ finderBox \in Seq(FinderMail)
        /\ inserted \in Seq(Ids)
    BY <1>1 DEF Typed, IncType
  <1>6. /\ id \in Ids /\ id \in Elements(batch) /\ Tail(batch) \in Seq(Ids)
        /\ Elements(batch) = {id} \cup Elements(Tail(batch))
        /\ Once(Tail(batch)) /\ id \notin Elements(Tail(batch))
        /\ id[1] <= announced /\ id[1] \in Seqs
        /\ inc[id].st = "queued"
        /\ id \notin Coming
    BY <1>2, <1>3, FirstOfBatch, Zenon
  <1>7. PICK h : h = [inc[id] EXCEPT !.st = "inserted"] OBVIOUS
  <1>8. PICK x : x = [h EXCEPT !.prov = TRUE] OBVIOUS
  <1>9. h \in IncType /\ h.st = "inserted" /\ h.delta = inc[id].delta
    <2>1. inc[id] \in IncType BY <1>5, <1>6
    <2>2. QED BY <1>7, <2>1 DEF IncType, Statuses
  <1>10. x \in IncType /\ x.st = "inserted" /\ x.delta = inc[id].delta
    BY <1>8, <1>9 DEF IncType
  <1>11. inc' = [inc EXCEPT ![id] = x]
    <2>1. PICK g : g = [inc EXCEPT ![id] = h] OBVIOUS
    <2>2. inc' = [g EXCEPT ![id].prov = TRUE] BY <1>3, <1>7, <2>1, Zenon
    <2>3. g \in [Ids -> IncType] /\ g[id] = h /\ \A j \in Ids : j # id => g[j] = inc[j]
      BY <1>5, <1>6, <1>9, <2>1
    <2>4. inc' = [g EXCEPT ![id] = x] BY <1>8, <2>2, <2>3
    <2>5. inc' = [j \in Ids |-> IF j = id THEN x ELSE inc[j]] BY <2>3, <2>4
    <2>6. QED BY <1>5, <1>6, <2>5
  <1>12. SameMail(pullerBox, pullerBox')
    <2>1. [t |-> "provisionallyHandled"] \in PlainMail BY DEF PlainMail
    <2>2. QED BY <1>4, <1>5, <2>1, PlainAppended, SameItself
  <1>13. ListsKept /\ SameRevs(pullerBox, pullerBox') /\ RevokedSeqs(pullerBox') = RevokedSeqs(pullerBox)
    BY <1>3, <1>5, <1>12, FinderSameItself DEF ListsKept, SameMail, SameRevs
  <1>14. ComingOnce' /\ \A j \in Coming' : j \in Coming
    BY <1>1, <1>3, <1>13, ComingStays DEF PlacesInv
  <1>15. Moved(id, x) /\ x.st # "none" /\ x.st \notin {"parsing", "queued"}
    BY <1>3, <1>10, <1>11 DEF Moved
  <1>16. \A m \in Pending' : m \in Pending BY <1>3 DEF Pending
  <1>17. inc[id].st # "none" BY <1>6
  <1>18. OnePlace' BY <1>1, <1>6, <1>14, <1>15, <1>16, <1>17, OnePlaceAt
  <1>19. inserted' \in Seq(Ids) /\ Elements(inserted') = Elements(inserted) \cup {id}
    BY <1>3, <1>5, <1>6, AppendElements
  <1>20. Typed'
    <2>1. inc' \in [Ids -> IncType] /\ pullerBox' \in Seq(PullerMail) /\ batch' \in Seq(Ids)
      BY <1>3, <1>5, <1>6, <1>10, <1>11, <1>12 DEF SameMail
    <2>2. QED BY <1>1, <1>3, <1>19, <2>1 DEF Typed, IncType
  <1>21. FatesStay BY <1>3 DEF FatesStay
  <1>22. id \notin Elements(toInsert) /\ id \notin Elements(inserted) /\ id \notin returning
    BY <1>1, <1>6, NotQueued DEF WorkersKnown
  <1>23. QueuesMoved(id) BY <1>3, <1>6, <1>19 DEF QueuesMoved
  <1>24. QueuesRight(id, x.st) BY <1>3, <1>6, <1>10, <1>22 DEF QueuesRight
  <1>25. Once(toInsert') /\ Once(batch') /\ Once(inserted') /\ ProvIsRight(x)
    <2>1. Once(toInsert) /\ Once(inserted) BY <1>1 DEF WorkersKnown
    <2>2. Once(Append(inserted, id))
      BY <1>5, <1>6, <1>22, <2>1, OnceAppended
    <2>3. QED BY <1>3, <1>6, <1>10, <2>1, <2>2 DEF ProvIsRight
  <1>26. x.delta => id \in WantedIds BY <1>1, <1>6, <1>10 DEF WorkersKnown
  <1>27. MoveIsRight(id, x)
    BY <1>3, <1>6, <1>10, <1>13, <1>23, <1>24, <1>25, <1>26 DEF MoveIsRight
  <1>28. QED BY <1>3, <1>6, <1>13, <1>14, <1>15, <1>18, <1>20, <1>21, <1>27, MovedIsSafe

LEMMA InsertFailsIsSafe == IInv /\ InsertFails => IInv'
  <1> SUFFICES ASSUME IInv, InsertFails PROVE IInv' OBVIOUS
  <1>1. Typed /\ ListsInv /\ PlacesInv /\ OnePlace /\ WorkersKnown
    BY TheInvariant DEF PlacesInv
  <1>2. PICK id : id = Head(batch) OBVIOUS
  <1>3. /\ batch # << >> /\ batch' = Tail(batch)
        /\ UNCHANGED <<announced, kind, finderBox, finder, waiting, missing, lastSequence, returning, toInsert, inserted, askedAgain>>
    BY DEF InsertFails
  <1>4. \/ inc' = Become(id, "finishing") /\ fate' = [fate EXCEPT ![id[1]] = "refused"] /\ owed' = owed /\ pullerBox' = pullerBox
        \/ /\ inc[id].delta /\ inc' = [inc EXCEPT ![id] = [NoInc EXCEPT !.st = "finishing", !.transient = TRUE]]
           /\ ReRequest(id) /\ fate' = fate
    BY <1>2, Zenon DEF InsertFails
  <1>5. /\ inc \in [Ids -> IncType] /\ pullerBox \in Seq(PullerMail) /\ finderBox \in Seq(FinderMail)
        /\ fate \in [Seqs -> Fates] /\ owed \in SUBSET Ids
    BY <1>1 DEF Typed, IncType
  <1>6. /\ id \in Ids /\ id \in Elements(batch) /\ Tail(batch) \in Seq(Ids)
        /\ Elements(batch) = {id} \cup Elements(Tail(batch))
        /\ Once(Tail(batch)) /\ id \notin Elements(Tail(batch))
        /\ id[1] <= announced /\ id[1] \in Seqs
        /\ inc[id].st = "queued"
        /\ id \notin Coming
    BY <1>2, <1>3, FirstOfBatch, Zenon
  <1>7. "finishing" \in Statuses BY DEF Statuses
  <1>8. \A m \in Pending' : m \in Pending BY <1>3 DEF Pending
  <1>9. FinderSame(finderBox, finderBox') BY <1>3, <1>5, FinderSameItself
  <1>10. id \notin Elements(toInsert) /\ id \notin Elements(inserted) /\ id \notin returning
    BY <1>1, <1>6, NotQueued DEF WorkersKnown
  <1>11. QueuesMoved(id) BY <1>3, <1>6 DEF QueuesMoved
  <1>12. \A st : QueuesRight(id, st) BY <1>3, <1>6, <1>10 DEF QueuesRight
  <1>13. Once(toInsert') /\ Once(batch') /\ Once(inserted')
    BY <1>1, <1>3, <1>6 DEF WorkersKnown
  <1>14. ASSUME NEW x \in IncType, x.st = "finishing", x.delta = FALSE, ProvIsRight(x), inc' = [inc EXCEPT ![id] = x],
                ~x.transient => fate'[id[1]] # "none", fate' \in [Seqs -> Fates],
                \A s \in Seqs : fate[s] # "none" => fate'[s] # "none",
                SameMail(pullerBox, pullerBox'), owed' \in SUBSET Ids, ComingOnce', OnePlace'
         PROVE  IInv'
    <2>1. Moved(id, x) BY <1>3, <1>14 DEF Moved
    <2>2. ListsKept /\ RevokedSeqs(pullerBox') = RevokedSeqs(pullerBox)
      BY <1>3, <1>9, <1>14 DEF ListsKept, SameMail, SameRevs
    <2>3. FatesStay BY <1>3, <1>14 DEF FatesStay
    <2>4. Typed'
      <3>1. inc' \in [Ids -> IncType] /\ pullerBox' \in Seq(PullerMail) /\ batch' \in Seq(Ids)
        BY <1>3, <1>5, <1>6, <1>14 DEF SameMail
      <3>2. QED BY <1>1, <1>3, <1>14, <3>1 DEF Typed, IncType
    <2>5. ~x.transient => Settled(id[1])' BY <1>14 DEF Settled
    <2>6. MoveIsRight(id, x)
      BY <1>3, <1>6, <1>11, <1>12, <1>13, <1>14, <2>2, <2>5 DEF MoveIsRight
    <2>7. QED BY <1>3, <1>6, <1>14, <2>1, <2>2, <2>3, <2>4, <2>6, MovedIsSafe
  <1>15. CASE inc' = Become(id, "finishing") /\ fate' = [fate EXCEPT ![id[1]] = "refused"] /\ owed' = owed /\ pullerBox' = pullerBox
    <2>1. PICK x : x = [NoInc EXCEPT !.st = "finishing"] OBVIOUS
    <2>2. x \in IncType /\ x.st = "finishing" /\ x.delta = FALSE /\ x.prov = FALSE
      BY <1>7, <2>1, NewInc, Zenon
    <2>3. inc' = [inc EXCEPT ![id] = x] BY <1>15, <2>1 DEF Become
    <2>4. /\ fate' \in [Seqs -> Fates] /\ fate'[id[1]] # "none"
          /\ \A s \in Seqs : fate[s] # "none" => fate'[s] # "none"
      BY <1>5, <1>6, <1>15 DEF Fates
    <2>5. SameMail(pullerBox, pullerBox') BY <1>5, <1>15, SameItself
    <2>6. SameRevs(pullerBox, pullerBox') BY <2>5 DEF SameMail
    <2>7. ComingOnce' /\ \A j \in Coming' : j \in Coming
      BY <1>1, <1>3, <1>15, <2>6, ComingStays DEF PlacesInv
    <2>8. Moved(id, x) /\ x.st # "none" BY <1>3, <2>2, <2>3 DEF Moved
    <2>9. inc[id].st # "none" BY <1>6
    <2>10. OnePlace' BY <1>1, <1>6, <1>8, <2>2, <2>7, <2>8, <2>9, OnePlaceAt
    <2>11. QED BY <1>5, <1>14, <1>15, <2>2, <2>3, <2>4, <2>5, <2>7, <2>10 DEF ProvIsRight
  <1>16. CASE /\ inc[id].delta /\ inc' = [inc EXCEPT ![id] = [NoInc EXCEPT !.st = "finishing", !.transient = TRUE]]
              /\ ReRequest(id) /\ fate' = fate
    <2>1. PICK x : x = [NoInc EXCEPT !.st = "finishing", !.transient = TRUE]
      OBVIOUS
    <2>2. x \in IncType /\ x.st = "finishing" /\ x.transient = TRUE /\ x.delta = FALSE /\ x.prov = FALSE
      BY <1>7, <2>1, NewInc, Zenon
    <2>3. inc' = [inc EXCEPT ![id] = x] BY <1>16, <2>1, Zenon
    <2>4. MayFail(id) BY <1>6, <1>16 DEF MayFail
    <2>5. /\ SameMail(pullerBox, pullerBox') /\ owed' \in SUBSET Ids /\ ComingOnce'
          /\ \A j \in Coming' : j \in Coming \/ j = <<id[1], 2>>
      BY <1>3, <1>6, <1>16, <2>4, Asked
    <2>6. Moved(id, x) BY <1>3, <2>3 DEF Moved
    <2>7. OnePlace'
      BY <1>1, <1>6, <1>8, <2>2, <2>4, <2>5, <2>6, OnePlaceAsked
    <2>8. fate' \in [Seqs -> Fates] /\ \A s \in Seqs : fate[s] # "none" => fate'[s] # "none"
      BY <1>5, <1>16
    <2>9. QED BY <1>14, <2>2, <2>3, <2>5, <2>7, <2>8 DEF ProvIsRight
  <1>17. QED BY <1>4, <1>15, <1>16

(* Several IncomingRevs are done with.                                     *)
LEMMA OnePlaceLater ==
    ASSUME OnePlace, kind' = kind, announced' = announced,
           \A m \in Pending' : m \in Pending, \A id \in Coming' : id \in Coming,
           \A id \in Ids : inc'[id].st # "none" => id[1] <= announced,
           \A id \in WantedIds : inc[id].st = "none" => inc'[id].st = "none",
           \A id \in Ids : MayFail(id)' => MayFail(id)
    PROVE  OnePlace'
  <1>1. WantedIds' = WantedIds /\ WantedIds \subseteq Ids BY DEF WantedIds
  <1>2. \A id \in Coming' : id \in WantedIds' /\ inc'[id].st = "none"
    BY <1>1 DEF OnePlace
  <1>3. \A id \in Ids : MayFail(id)' => id[2] = 1 /\ id \in WantedIds'
    BY <1>1 DEF OnePlace
  <1>4. ASSUME NEW s \in Seqs, <<s, 1>> \in Coming' \/ MayFail(<<s, 1>>)'
        PROVE  <<s, 2>> \notin Coming' /\ inc'[<<s, 2>>].st = "none"
    <2>1. <<s, 1>> \in Ids /\ <<s, 2>> \in Ids BY DEF Ids
    <2>2. <<s, 1>> \in Coming \/ MayFail(<<s, 1>>)
      BY <1>4, <2>1
    <2>3. <<s, 2>> \notin Coming /\ inc[<<s, 2>>].st = "none"
      BY <2>2 DEF OnePlace
    <2>4. <<s, 1>> \in WantedIds BY <2>1, <2>2 DEF OnePlace
    <2>5. <<s, 2>> \in WantedIds BY <2>1, <2>4 DEF WantedIds
    <2>6. QED BY <2>3, <2>5
  <1>5. ASSUME NEW m \in Pending', NEW s \in Seqs, Covers(m, s), kind'[s] = "rev", NEW i \in {1, 2}
        PROVE  <<s, i>> \notin Coming' /\ inc'[<<s, i>>].st = "none"
    <2>1. m \in Pending /\ kind[s] = "rev" /\ <<s, i>> \in Ids
      BY <1>5 DEF Ids
    <2>2. <<s, i>> \notin Coming /\ inc[<<s, i>>].st = "none"
      BY <1>5, <2>1 DEF OnePlace
    <2>3. <<s, i>> \in WantedIds BY <2>1 DEF WantedIds
    <2>4. QED BY <2>2, <2>3
  <1>6. QED BY <1>2, <1>3, <1>4, <1>5 DEF OnePlace

LEMMA CommitIsSafe ==
    ASSUME IInv, NEW ok \in BOOLEAN, Commit(ok)
    PROVE  IInv'
  <1>1. Typed /\ ListsInv /\ PlacesInv /\ OnePlace /\ WorkersKnown
    BY TheInvariant DEF PlacesInv
  <1>2. PICK all : all = Elements(inserted) OBVIOUS
  <1>3. /\ inserted' = << >>
        /\ inc' = [id \in Ids |-> IF id \in all THEN [inc[id] EXCEPT !.st = "finishing"] ELSE inc[id]]
        /\ UNCHANGED <<announced, kind, owed, finderBox, finder, pullerBox, waiting, missing, lastSequence,
                       returning, toInsert, batch, askedAgain>>
    BY <1>2 DEF Commit, peer, puller
  <1>4. PICK f : /\ fate' = [s \in Seqs |-> IF \E id \in all : id[1] = s THEN f[s] ELSE fate[s]]
                 /\ \A s \in Seqs : f[s] \in {"lost", "purged", "stored"}
    <2> DEFINE Result(id) == IF ~ok THEN "lost" ELSE IF Revoked(id) THEN "purged" ELSE "stored"
               R(s) == Result(CHOOSE id \in all : id[1] = s)
    <2>1. fate' = [s \in Seqs |-> IF \E id \in all : id[1] = s THEN R(s) ELSE fate[s]]
      BY <1>2 DEF Commit
    <2>2. \A s \in Seqs : R(s) \in {"lost", "purged", "stored"} OBVIOUS
    <2> HIDE DEF R, Result
    <2>3. PICK f : f = [s \in Seqs |-> R(s)] OBVIOUS
    <2>4. /\ fate' = [s \in Seqs |-> IF \E id \in all : id[1] = s THEN f[s] ELSE fate[s]]
          /\ \A s \in Seqs : f[s] \in {"lost", "purged", "stored"}
      BY <2>1, <2>2, <2>3
    <2>5. QED BY <2>4
  <1>5. /\ inc \in [Ids -> IncType] /\ pullerBox \in Seq(PullerMail) /\ finderBox \in Seq(FinderMail)
        /\ inserted \in Seq(Ids) /\ fate \in [Seqs -> Fates] /\ << >> \in Seq(Ids)
    BY <1>1 DEF Typed, IncType
  <1>6. all \subseteq Ids /\ \A id \in all : inc[id].st = "inserted"
    BY <1>1, <1>2, <1>5, ElementsOf DEF WorkersKnown, AreAll
  <1>7. \A id \in all : inc'[id] \in IncType /\ inc'[id].st = "finishing" /\ inc'[id].delta = inc[id].delta
    <2>1. SUFFICES ASSUME NEW id \in all PROVE inc'[id] \in IncType /\ inc'[id].st = "finishing" /\ inc'[id].delta = inc[id].delta
      OBVIOUS
    <2>2. inc[id] \in IncType /\ inc'[id] = [inc[id] EXCEPT !.st = "finishing"]
      BY <1>3, <1>5, <1>6
    <2>3. QED BY <2>2 DEF IncType, Statuses
  <1>8. \A id \in Ids : id \notin all => inc'[id] = inc[id] BY <1>3
  <1>9. inc' \in [Ids -> IncType]
    <2>1. \A id \in Ids : inc'[id] \in IncType BY <1>5, <1>7, <1>8
    <2>2. \E g : inc' = [id \in Ids |-> g[id]]
      <3>1. inc' = [id \in Ids |-> inc'[id]] BY <1>3
      <3>2. QED BY <3>1
    <2>3. QED BY <2>1, <2>2
  <1>10. fate' \in [Seqs -> Fates] /\ \A s \in Seqs : fate[s] # "none" => fate'[s] # "none"
    BY <1>4, <1>5 DEF Fates
  <1>11. \A id \in all : fate'[id[1]] # "none"
    <2>1. SUFFICES ASSUME NEW id \in all PROVE fate'[id[1]] # "none" OBVIOUS
    <2>2. id[1] \in Seqs BY <1>6, PairIs
    <2>3. fate'[id[1]] = f[id[1]] BY <1>4, <2>2
    <2>4. QED BY <1>4, <2>2, <2>3
  <1>12. Typed' BY <1>1, <1>3, <1>5, <1>9, <1>10 DEF Typed, IncType
  <1>13. FatesStay BY <1>3, <1>10 DEF FatesStay
  <1>14. SameMail(pullerBox, pullerBox) BY <1>5, SameItself
  <1>15. ListsKept /\ SameRevs(pullerBox, pullerBox')
    BY <1>3, <1>5, <1>14, FinderSameItself DEF ListsKept, SameMail
  <1>16. ListsInv' /\ \A m \in Pending' : m \in Pending
    BY <1>1, <1>3, <1>13, <1>15, ListsInvStays
  <1>17. ComingOnce' /\ \A j \in Coming' : j \in Coming
    BY <1>1, <1>3, <1>15, ComingStays DEF PlacesInv
  <1>18. WantedIds \subseteq Ids /\ WantedIds' = WantedIds
    BY <1>3 DEF WantedIds
  <1>19. OnePlace'
    <2>1. \A id \in Ids : inc'[id].st # "none" => id[1] <= announced
      BY <1>1, <1>6, <1>8 DEF OnePlace
    <2>2. \A id \in WantedIds : inc[id].st = "none" => inc'[id].st = "none"
      BY <1>6, <1>8, <1>18
    <2>3. \A id \in Ids : MayFail(id)' => MayFail(id)
      BY <1>7, <1>8 DEF MayFail
    <2>4. QED BY <1>1, <1>3, <1>16, <1>17, <2>1, <2>2, <2>3, OnePlaceLater
  <1>20. WorkersKnown'
    <2>1. Elements(toInsert) \subseteq Ids /\ Elements(batch) \subseteq Ids /\ returning \subseteq Ids
      BY <1>1, ElementsOf DEF Typed
    <2>2. /\ \A id \in Elements(toInsert) : inc'[id].st = "queued"
          /\ \A id \in Elements(batch) : inc'[id].st = "queued"
          /\ \A id \in returning : inc'[id].st = "returned"
      BY <1>1, <1>6, <1>8, <2>1 DEF WorkersKnown, AreAll
    <2>3. Elements(inserted') = {} /\ Once(<< >>) BY <1>3, EmptyBox DEF Once
    <2>4. AreAll(Elements(toInsert), "queued")' /\ AreAll(Elements(batch), "queued")'
          /\ AreAll(Elements(inserted), "inserted")' /\ AreAll(returning, "returned")'
      BY <1>3, <2>2, <2>3 DEF AreAll
    <2>5. Once(toInsert)' /\ Once(batch)' /\ Once(inserted)' /\ (Elements(toInsert) \cap Elements(batch) = {})'
      BY <1>1, <1>3, <2>3 DEF WorkersKnown
    <2>6. ASSUME NEW id \in Ids, inc'[id].st \in {"finishing", "returned"}, ~inc'[id].transient PROVE Settled(id[1])'
      <3>1. CASE id \in all BY <1>11, <3>1 DEF Settled
      <3>2. CASE id \notin all
        <4>1. inc[id].st \in {"finishing", "returned"} /\ ~inc[id].transient
          BY <1>8, <2>6, <3>2
        <4>2. Settled(id[1]) /\ id[1] <= announced /\ id[1] \in Seqs
          <5>1. inc[id].st # "none" BY <4>1
          <5>2. QED BY <1>1, <4>1, <5>1, PairIs DEF WorkersKnown, OnePlace
        <4>3. QED BY <1>13, <4>2, SettledStays
      <3>3. QED BY <3>1, <3>2
    <2>7. \A id \in Ids : (inc'[id].delta => id \in WantedIds') /\ ProvIsRight(inc'[id])
      BY <1>1, <1>6, <1>7, <1>8, <1>18 DEF WorkersKnown, ProvIsRight
    <2>8. \A s \in RevokedSeqs(pullerBox') \cup Elements(waiting'.revoked) : kind'[s] = "revoked"
      BY <1>1, <1>3 DEF WorkersKnown
    <2>9. QED BY <2>4, <2>5, <2>6, <2>7, <2>8 DEF WorkersKnown
  <1>21. QED BY <1>12, <1>16, <1>17, <1>19, <1>20 DEF IInv, ListsInv

-----------------------------------------------------------------------------
(***************************************************************************)
(* The Puller: steps that change the set of missing sequences.             *)
(***************************************************************************)
LEMMA MissingMoves ==
    ASSUME Typed, ListsInv, Typed', finder' = finder, ListsKnown', ListsInOrder', AllCovered', FatesStay, GoodSet(missing'),
           missing.lastAdded <= missing'.lastAdded, lastSequence' = lastSequence \/ lastSequence' = Since(missing')
    PROVE  ListsInv'
  <1>1. ChangesInOrder' BY DEF ListsInv, ChangesInOrder, PullerHasCapacity
  <1>2. CASE lastSequence' = lastSequence
    <2>1. missing'.lastAdded \in Nat /\ CheckpointKnown /\ ListsKnown
      BY DEF GoodSet, ListsInv
    <2>2. CheckpointKnown' BY <1>2, <2>1, CheckpointStays
    <2>3. QED BY <1>1, <2>2 DEF ListsInv
  <1>3. CASE lastSequence' = Since(missing')
    <2>1. CheckpointKnown' BY <1>3, CheckpointMoves
    <2>2. QED BY <1>1, <2>1 DEF ListsInv
  <1>4. QED BY <1>2, <1>3

LEMMA RevTaken ==
    ASSUME NEW box \in Seq(PullerMail), box # << >>, Head(box).t \in {"rev", "norev"}
    PROVE  /\ Tail(box) \in Seq(PullerMail) /\ SameLists(box, Tail(box)) /\ Head(box).id \in Ids
           /\ RevIds(box) = RevIds(Tail(box)) \cup {Head(box).id}
           /\ Distinct(box) => Distinct(Tail(box)) /\ Head(box).id \notin RevIds(Tail(box))
           /\ WholeSecond(box) => WholeSecond(Tail(box))
           /\ RevokedSeqs(Tail(box)) = RevokedSeqs(box)
           /\ Head(box).t = "rev" => Head(box) \in RevMail
           /\ Head(box) \in Elements(box)
  <1> DEFINE h == Head(box)
             r == Tail(box)
  <1>1. /\ h \in PullerMail /\ r \in Seq(PullerMail) /\ Elements(box) = {h} \cup Elements(r)
        /\ Lists(box) = Lists(r) \cup ListOf(h)
        /\ RevIds(box) = RevIds(r) \cup RevIdOf(h)
        /\ RevokedSeqs(box) = RevokedSeqs(r) \cup RevokedOf(h)
        /\ InOrder(box) => InOrder(r)
        /\ Distinct(box) => Distinct(r) /\ RevIdOf(h) \cap RevIds(r) = {}
    BY BoxTail
  <1> HIDE DEF h, r
  <1>2. h.t \in {"rev", "norev"} BY DEF h
  <1>3. ListOf(h) = {} /\ RevIdOf(h) = {h.id} /\ RevokedOf(h) = {}
    BY <1>2 DEF ListOf, RevIdOf, RevokedOf, IsRev, IsList
  <1>4. h.id \in Ids /\ (h.t = "rev" => h \in RevMail)
    BY <1>1, <1>2, MailKinds
  <1>5. SameLists(box, r) BY <1>1, <1>3 DEF SameLists
  <1>6. WholeSecond(box) => WholeSecond(r) BY <1>1 DEF WholeSecond
  <1>7. QED BY <1>1, <1>3, <1>4, <1>5, <1>6 DEF h, r

LEMMA HandleNoRevIsSafe == IInv /\ HandleNoRev => IInv'
  <1> SUFFICES ASSUME IInv, HandleNoRev PROVE IInv' OBVIOUS
  <1>1. Typed /\ ListsInv /\ PlacesInv /\ OnePlace /\ WorkersKnown /\ ComingOnce
    BY TheInvariant DEF PlacesInv
  <1>2. PICK id : id = Head(pullerBox).id OBVIOUS
  <1>3. /\ pullerBox # << >> /\ Head(pullerBox).t = "norev" /\ pullerBox' = Tail(pullerBox)
        /\ finderBox' = Append(finderBox, [t |-> "revReceived"]) /\ missing' = Remove(missing, {id[1]})
        /\ lastSequence' = lastSequence \/ lastSequence' = Since(missing')
        /\ fate' = [fate EXCEPT ![id[1]] = "refused"]
        /\ UNCHANGED <<announced, kind, owed, finder, waiting, inc, returning, toInsert, batch, inserted, askedAgain>>
    BY <1>2 DEF HandleNoRev, Receive, peer, workers
  <1>4. pullerBox \in Seq(PullerMail) /\ finderBox \in Seq(FinderMail) /\ fate \in [Seqs -> Fates]
    BY <1>1 DEF Typed
  <1>5. /\ pullerBox' \in Seq(PullerMail) /\ SameLists(pullerBox, pullerBox') /\ id \in Ids
        /\ RevIds(pullerBox) = RevIds(pullerBox') \cup {id}
        /\ Distinct(pullerBox) => Distinct(pullerBox')
        /\ WholeSecond(pullerBox) => WholeSecond(pullerBox')
        /\ RevokedSeqs(pullerBox') = RevokedSeqs(pullerBox)
    <2>1. Head(pullerBox).t \in {"rev", "norev"} BY <1>3
    <2>2. QED BY <1>2, <1>3, <1>4, <2>1, RevTaken
  <1>6. id[1] \in Seqs BY <1>5, PairIs
  <1>7. FinderSame(finderBox, finderBox')
    <2>1. [t |-> "revReceived"] \in FinderMail /\ [t |-> "revReceived"].t # "changes"
      BY DEF FinderMail
    <2>2. QED BY <1>3, <1>4, <2>1, FinderAppended
  <1>8. ListsKept BY <1>3, <1>5, <1>7 DEF ListsKept
  <1>9. GoodSet(missing) BY <1>1 DEF ListsInv, CheckpointKnown
  <1>10. GoodSet(missing') /\ missing'.lastAdded = missing.lastAdded /\ MissingSeqs(missing') = MissingSeqs(missing) \ {id[1]}
    BY <1>3, <1>9, RemoveIsGood
  <1>11. /\ fate' \in [Seqs -> Fates] /\ fate'[id[1]] # "none"
         /\ \A s \in Seqs : fate[s] # "none" => fate'[s] # "none"
    BY <1>3, <1>4, <1>6 DEF Fates
  <1>12. FatesStay BY <1>3, <1>11 DEF FatesStay
  <1>13. Settled(id[1])' BY <1>11 DEF Settled
  <1>14. \A s \in MissingSeqs(missing) : s \in MissingSeqs(missing') \/ Settled(s)'
    BY <1>10, <1>13
  <1>15. ListsKnown' /\ ListsInOrder' /\ AllCovered'
    BY <1>1, <1>8, <1>10, <1>12, <1>14, ListsStay DEF ListsInv
  <1>16. lastSequence' \in Nat BY <1>1, <1>3, <1>10, SinceIsBelow DEF Typed
  <1>17. Typed'
    BY <1>1, <1>3, <1>5, <1>7, <1>11, <1>16 DEF Typed, FinderSame
  <1>18. missing.lastAdded <= missing'.lastAdded BY <1>9, <1>10 DEF GoodSet
  <1>19. ListsInv'
    BY <1>1, <1>3, <1>10, <1>12, <1>15, <1>17, <1>18, MissingMoves
  <1>20. ComingOnce' /\ \A j \in Coming' : j \in Coming
    BY <1>1, <1>3, <1>5 DEF ComingOnce, Coming
  <1>21. \A m \in Pending' : m \in Pending
    BY <1>8 DEF Pending, ListsKept, FinderSame, SameLists
  <1>22. OnePlace' BY <1>1, <1>3, <1>20, <1>21, OnePlaceStays
  <1>23. WorkersKnown' BY <1>1, <1>3, <1>5, <1>12, WorkersStay
  <1>24. QED BY <1>17, <1>19, <1>20, <1>22, <1>23 DEF IInv, ListsInv

LEMMA ExpectIsSafe == IInv /\ ExpectSequences => IInv'
  <1> SUFFICES ASSUME IInv, ExpectSequences PROVE IInv' OBVIOUS
  <1>1. Typed /\ ListsInv /\ PlacesInv /\ OnePlace /\ WorkersKnown /\ ComingOnce /\ ListsKnown /\ ListsInOrder
    BY TheInvariant DEF PlacesInv, ListsInv
  <1>2. PICK m : m = Head(pullerBox) OBVIOUS
  <1> DEFINE list == m.first .. m.last
             all == AddAll(missing, m.first, m.last)
  <1>3. /\ pullerBox # << >> /\ m.t = "expectSequences" /\ pullerBox' = Tail(pullerBox)
        /\ missing' = Remove(all, list \ m.wanted)
        /\ lastSequence' = lastSequence \/ lastSequence' = Since(missing')
        /\ UNCHANGED <<announced, kind, owed, finderBox, finder, waiting, inc, returning, toInsert, batch, inserted, fate, askedAgain>>
    BY <1>2 DEF ExpectSequences, Receive, peer, workers, history
  <1>4. pullerBox \in Seq(PullerMail) /\ finderBox \in Seq(FinderMail) /\ announced \in Nat
    BY <1>1, Numbers DEF Typed
  <1>5. /\ m \in PullerMail /\ pullerBox' \in Seq(PullerMail) /\ Elements(pullerBox) = {m} \cup Elements(pullerBox')
        /\ Lists(pullerBox) = Lists(pullerBox') \cup ListOf(m)
        /\ RevIds(pullerBox) = RevIds(pullerBox') \cup RevIdOf(m)
        /\ RevokedSeqs(pullerBox) = RevokedSeqs(pullerBox') \cup RevokedOf(m)
        /\ InOrder(pullerBox) => InOrder(pullerBox') /\ Before(ListOf(m), Lists(pullerBox'))
        /\ Distinct(pullerBox) => Distinct(pullerBox')
    BY <1>2, <1>3, <1>4, BoxTail
  <1>6. m \in ExpectMail /\ IsList(m) /\ ~IsRev(m) /\ m.first \in Nat /\ m.last \in Nat /\ m.wanted \in SUBSET Seqs
    BY <1>3, <1>5, MailKinds
  <1>7. ListOf(m) = {m} /\ RevIdOf(m) = {} /\ RevokedOf(m) = {}
    BY <1>3, <1>6 DEF ListOf, RevIdOf, RevokedOf
  <1>8. Expected = Expected' \cup {m} /\ m \in Expected
    BY <1>5, <1>7 DEF Expected
  <1>9. /\ 1 <= m.first /\ m.first <= m.last /\ m.last <= N /\ m.last <= announced /\ missing.lastAdded < m.first
        /\ m.wanted = {s \in list : kind[s] = "rev"}
    BY <1>1, <1>8 DEF ListsKnown
  <1>10. InOrder(pullerBox') /\ (\A x \in Expected' : m.last < x.first) /\ \A p \in Pending : m.last < p.first
    BY <1>1, <1>5, <1>7, <1>8 DEF ListsInOrder, Before, Expected
  <1>11. GoodSet(missing) /\ missing.lastAdded \in Nat
    BY <1>1 DEF ListsInv, CheckpointKnown, GoodSet
  <1>12. GoodSet(all) /\ all.lastAdded = m.last /\ MissingSeqs(all) = MissingSeqs(missing) \cup list
    <2>1. m.first \in Nat \ {0} BY <1>6, <1>9
    <2>2. AddedUpTo(all, missing, m.first, m.last)
      BY <1>6, <1>9, <1>11, <2>1, AddAllIsGood
    <2> HIDE DEF all
    <2>3. QED BY <1>6, <1>9, <2>2 DEF AddedUpTo
  <1> HIDE DEF all
  <1>13. /\ GoodSet(missing') /\ missing'.lastAdded = m.last
         /\ MissingSeqs(missing') = (MissingSeqs(missing) \cup list) \ (list \ m.wanted)
    BY <1>3, <1>12, RemoveIsGood
  <1>14. FatesStay /\ FinderSame(finderBox, finderBox)
    BY <1>3, <1>4, FinderSameItself DEF FatesStay
  <1>15. Pending' = Pending BY <1>3 DEF Pending
  <1>16. ListsKnown'
    <2>1. ASSUME NEW x \in Pending' \cup Expected'
          PROVE  1 <= x.first /\ x.first <= x.last + 1 /\ x.last <= N /\ x.last <= announced' /\ missing'.lastAdded < x.first
      <3>1. x \in Pending \cup Expected BY <1>8, <1>15
      <3>2. QED BY <1>1, <1>3, <1>10, <1>13, <1>15, <3>1 DEF ListsKnown
    <2>2. \A x \in Expected' : x.first <= x.last /\ x.wanted = {s \in x.first .. x.last : kind'[s] = "rev"}
      BY <1>1, <1>3, <1>8 DEF ListsKnown
    <2>3. \A s \in Seqs : kind'[s] # "none" => s <= announced'
      BY <1>1, <1>3 DEF ListsKnown
    <2>4. missing'.lastAdded <= N /\ missing'.lastAdded <= announced'
      BY <1>3, <1>9, <1>13
    <2>5. QED BY <2>1, <2>2, <2>3, <2>4 DEF ListsKnown
  <1>17. ListsInOrder'
    BY <1>1, <1>3, <1>8, <1>10, <1>15 DEF ListsInOrder, Before
  <1>18. AllCovered'
    <2>1. SUFFICES ASSUME NEW s \in Seqs, s <= announced
                   PROVE  Settled(s)' \/ s \in MissingSeqs(missing') \/ \E x \in Pending' \cup Expected' : Covers(x, s)
      BY <1>3 DEF AllCovered
    <2>2. CASE Settled(s) BY <1>14, <2>1, <2>2, SettledStays
    <2>3. ASSUME s \in list PROVE Settled(s)' \/ s \in MissingSeqs(missing')
      <3>1. CASE s \in m.wanted BY <1>13, <2>3, <3>1
      <3>2. CASE s \notin m.wanted BY <1>3, <1>9, <2>3, <3>2 DEF Settled
      <3>3. QED BY <3>1, <3>2
    <2>4. CASE s \in MissingSeqs(missing) BY <1>13, <2>3, <2>4
    <2>5. ASSUME NEW x \in Pending \cup Expected, Covers(x, s)
          PROVE  Settled(s)' \/ s \in MissingSeqs(missing') \/ \E y \in Pending' \cup Expected' : Covers(y, s)
      <3>1. CASE x = m
        <4>1. s \in list BY <2>5, <3>1 DEF Covers
        <4>2. QED BY <2>3, <4>1
      <3>2. CASE x # m
        <4>1. x \in Pending' \cup Expected' BY <1>8, <1>15, <3>2
        <4>2. QED BY <2>5, <4>1
      <3>3. QED BY <3>1, <3>2
    <2>6. Settled(s) \/ s \in MissingSeqs(missing) \/ \E x \in Pending \cup Expected : Covers(x, s)
      BY <1>1, <2>1 DEF ListsInv, AllCovered
    <2>7. QED BY <2>2, <2>4, <2>5, <2>6
  <1>19. lastSequence' \in Nat BY <1>1, <1>3, <1>13, SinceIsBelow DEF Typed
  <1>20. Typed' BY <1>1, <1>3, <1>5, <1>19 DEF Typed
  <1>21. missing.lastAdded <= missing'.lastAdded BY <1>6, <1>9, <1>11, <1>13
  <1>22. ListsInv'
    BY <1>1, <1>3, <1>13, <1>14, <1>16, <1>17, <1>18, <1>20, <1>21, MissingMoves
  <1>23. ComingOnce' /\ \A j \in Coming' : j \in Coming
    <2>1. WholeSecond(pullerBox') BY <1>1, <1>5 DEF ComingOnce, WholeSecond
    <2>2. RevIds(pullerBox') = RevIds(pullerBox) /\ Distinct(pullerBox')
      BY <1>1, <1>5, <1>7 DEF ComingOnce
    <2>3. ComingOnce' BY <1>1, <1>3, <2>1, <2>2 DEF ComingOnce
    <2>4. QED BY <1>3, <2>2, <2>3 DEF Coming
  <1>24. OnePlace' BY <1>1, <1>3, <1>15, <1>23, OnePlaceStays
  <1>25. WorkersKnown' BY <1>1, <1>3, <1>5, <1>14, WorkersStay
  <1>26. QED BY <1>20, <1>22, <1>23, <1>24, <1>25 DEF IInv, ListsInv

LEMMA RevsFinishedIsSafe == IInv /\ RevsFinished => IInv'
  <1> SUFFICES ASSUME IInv, RevsFinished PROVE IInv' OBVIOUS
  <1>1. Typed /\ ListsInv /\ PlacesInv /\ OnePlace /\ WorkersKnown
    BY TheInvariant DEF PlacesInv
  <1>2. PICK revoked : revoked = {id \in returning : Revoked(id)} OBVIOUS
  <1>3. PICK done : done = {id[1] : id \in {r \in returning \ revoked : ~inc[r].transient}}
    OBVIOUS
  <1>4. /\ pullerBox # << >> /\ Head(pullerBox).t = "revsFinished" /\ pullerBox' = Tail(pullerBox)
        /\ missing' = Remove(missing, done) /\ lastSequence' = Since(missing')
        /\ finderBox' = finderBox \/ finderBox' = Append(finderBox, [t |-> "revokedHandled", n |-> Cardinality(revoked)])
        /\ inc' = [id \in Ids |-> IF id \in returning THEN NoInc ELSE inc[id]] /\ returning' = {}
        /\ UNCHANGED <<announced, kind, owed, finder, waiting, toInsert, batch, inserted, fate, askedAgain>>
    BY <1>2, <1>3 DEF RevsFinished, Receive, peer, history
  <1>5. /\ pullerBox \in Seq(PullerMail) /\ finderBox \in Seq(FinderMail) /\ inc \in [Ids -> IncType]
        /\ returning \in SUBSET Ids
    BY <1>1 DEF Typed, IncType
  <1>6. SameMail(pullerBox, pullerBox') BY <1>4, <1>5, PlainTaken
  <1>7. FinderSame(finderBox, finderBox')
    <2>1. IsFiniteSet(Ids)
      <3>1. IsFiniteSet(Seqs) BY Numbers, FS_Interval
      <3>2. IsFiniteSet({1, 2})
        <4>1. IsFiniteSet({}) /\ {1, 2} = ({} \cup {1}) \cup {2}
          BY FS_EmptySet
        <4>2. IsFiniteSet({} \cup {1}) BY <4>1, FS_AddElement
        <4>3. QED BY <4>1, <4>2, FS_AddElement
      <3>3. QED BY <3>1, <3>2, FS_Product DEF Ids
    <2>2. IsFiniteSet(revoked)
      <3>1. revoked \subseteq Ids BY <1>2, <1>5
      <3>2. QED BY <2>1, <3>1, FS_Subset
    <2>3. Cardinality(revoked) \in Nat BY <2>2, FS_CardinalityType
    <2> DEFINE x == [t |-> "revokedHandled", n |-> Cardinality(revoked)]
    <2>4. x \in FinderMail /\ x.t # "changes" BY <2>3 DEF FinderMail
    <2> HIDE DEF x
    <2>5. FinderSame(finderBox, Append(finderBox, x)) /\ FinderSame(finderBox, finderBox)
      BY <1>5, <2>4, FinderAppended, FinderSameItself
    <2>6. QED BY <1>4, <2>5 DEF x
  <1>8. ListsKept /\ SameRevs(pullerBox, pullerBox')
    BY <1>4, <1>6, <1>7 DEF ListsKept, SameMail
  <1>9. GoodSet(missing) BY <1>1 DEF ListsInv, CheckpointKnown
  <1>10. GoodSet(missing') /\ missing'.lastAdded = missing.lastAdded /\ MissingSeqs(missing') = MissingSeqs(missing) \ done
    BY <1>4, <1>9, RemoveIsGood
  <1>11. FatesStay BY <1>4 DEF FatesStay
  <1>12. \A id \in returning : inc[id].st = "returned"
    BY <1>1 DEF WorkersKnown, AreAll
  <1>13. ASSUME NEW s \in done PROVE Settled(s)'
    <2>1. PICK id \in returning : ~inc[id].transient /\ s = id[1]
      BY <1>3, <1>13
    <2>2. CASE id \in WantedIds
      <3>1. id \in Ids /\ inc[id].st = "returned" BY <1>5, <1>12, <2>2
      <3>2. Settled(s) BY <1>1, <2>1, <3>1 DEF WorkersKnown
      <3>3. QED BY <1>4, <3>2 DEF Settled
    <2>3. CASE id \notin WantedIds
      BY <1>4, <1>5, <2>1, <2>3 DEF Settled, WantedIds
    <2>4. QED BY <2>2, <2>3
  <1>14. \A s \in MissingSeqs(missing) : s \in MissingSeqs(missing') \/ Settled(s)'
    BY <1>10, <1>13
  <1>15. ListsKnown' /\ ListsInOrder' /\ AllCovered'
    BY <1>1, <1>8, <1>10, <1>11, <1>14, ListsStay DEF ListsInv
  <1>16. lastSequence' \in Nat BY <1>4, <1>10, SinceIsBelow
  <1>17. NoInc \in IncType /\ NoInc.st = "none" /\ NoInc.delta = FALSE /\ NoInc.prov = FALSE
    BY DEF NoInc, IncType, Statuses
  <1>18. inc' \in [Ids -> IncType] /\ \A id \in Ids : inc'[id] = IF id \in returning THEN NoInc ELSE inc[id]
    BY <1>4, <1>5, <1>17
  <1>19. Typed'
    <2>1. pullerBox' \in Seq(PullerMail) /\ finderBox' \in Seq(FinderMail) /\ returning' \in SUBSET Ids
      BY <1>4, <1>6, <1>7 DEF SameMail, FinderSame
    <2>2. QED BY <1>1, <1>4, <1>16, <1>18, <2>1 DEF Typed, IncType
  <1>20. missing.lastAdded <= missing'.lastAdded BY <1>9, <1>10 DEF GoodSet
  <1>21. ListsInv'
    BY <1>1, <1>4, <1>10, <1>11, <1>15, <1>19, <1>20, MissingMoves
  <1>22. ComingOnce' /\ \A j \in Coming' : j \in Coming
    BY <1>1, <1>4, <1>8, ComingStays DEF PlacesInv
  <1>23. \A m \in Pending' : m \in Pending
    BY <1>8 DEF Pending, ListsKept, FinderSame, SameLists
  <1>24. WantedIds \subseteq Ids /\ WantedIds' = WantedIds
    BY <1>4 DEF WantedIds
  <1>25. OnePlace'
    <2>1. \A id \in Ids : inc'[id].st # "none" => id[1] <= announced
      BY <1>1, <1>17, <1>18 DEF OnePlace
    <2>2. \A id \in WantedIds : inc[id].st = "none" => inc'[id].st = "none"
      BY <1>17, <1>18, <1>24
    <2>3. \A id \in Ids : MayFail(id)' => MayFail(id)
      BY <1>17, <1>18 DEF MayFail
    <2>4. QED BY <1>1, <1>4, <1>22, <1>23, <2>1, <2>2, <2>3, OnePlaceLater
  <1>26. WorkersKnown'
    <2>1. Elements(toInsert) \subseteq Ids /\ Elements(batch) \subseteq Ids /\ Elements(inserted) \subseteq Ids
      BY <1>1, ElementsOf DEF Typed
    <2>2. /\ \A id \in Elements(toInsert) : inc'[id].st = "queued"
          /\ \A id \in Elements(batch) : inc'[id].st = "queued"
          /\ \A id \in Elements(inserted) : inc'[id].st = "inserted"
      BY <1>1, <1>12, <1>18, <2>1 DEF WorkersKnown, AreAll
    <2>3. AreAll(Elements(toInsert), "queued")' /\ AreAll(Elements(batch), "queued")'
          /\ AreAll(Elements(inserted), "inserted")' /\ AreAll(returning, "returned")'
      BY <1>4, <1>24, <2>2 DEF AreAll
    <2>4. Once(toInsert)' /\ Once(batch)' /\ Once(inserted)' /\ (Elements(toInsert) \cap Elements(batch) = {})'
      BY <1>1, <1>4, <1>24 DEF WorkersKnown
    <2>5. ASSUME NEW id \in Ids, inc'[id].st \in {"finishing", "returned"}, ~inc'[id].transient PROVE Settled(id[1])'
      <3>1. inc[id].st \in {"finishing", "returned"} /\ ~inc[id].transient
        BY <1>17, <1>18, <2>5
      <3>2. Settled(id[1]) BY <1>1, <3>1 DEF WorkersKnown
      <3>3. QED BY <1>4, <3>2 DEF Settled
    <2>6. \A id \in Ids : (inc'[id].delta => id \in WantedIds') /\ ProvIsRight(inc'[id])
      BY <1>1, <1>17, <1>18, <1>24 DEF WorkersKnown, ProvIsRight
    <2>7. RevokedSeqs(pullerBox') = RevokedSeqs(pullerBox)
      BY <1>8 DEF SameRevs
    <2>8. \A s \in RevokedSeqs(pullerBox') \cup Elements(waiting'.revoked) : kind'[s] = "revoked"
      BY <1>1, <1>4, <2>7 DEF WorkersKnown
    <2>9. QED BY <2>3, <2>4, <2>5, <2>6, <2>8 DEF WorkersKnown
  <1>27. QED BY <1>19, <1>21, <1>22, <1>25, <1>26 DEF IInv, ListsInv

-----------------------------------------------------------------------------
(***************************************************************************)
(* The Puller hands revisions to IncomingRevs, drops them, or lets them    *)
(* wait.                                                                   *)
(***************************************************************************)
LEMMA StaysIsSafe ==
    ASSUME IInv, ListsKept, ComingOnce', NoneCome, RevokedKnown,
           pullerBox' \in Seq(PullerMail), waiting' \in [revs : Seq(RevMail), revoked : Seq(Seqs)],
           UNCHANGED <<announced, kind, owed, finder, missing, lastSequence, inc, returning, toInsert, batch, inserted,
                       fate, askedAgain>>
    PROVE  IInv'
  <1>1. Typed /\ ListsInv /\ PlacesInv /\ OnePlace /\ WorkersKnown
    BY TheInvariant DEF PlacesInv
  <1>2. FatesStay BY DEF FatesStay
  <1>3. ListsInv' /\ \A m \in Pending' : m \in Pending
    BY <1>1, <1>2, ListsInvStays
  <1>4. OnePlace' BY <1>1, <1>3, OnePlaceStays DEF NoneCome
  <1>5. WorkersKnown' BY <1>1, <1>2, WorkersStay DEF RevokedKnown
  <1>6. finderBox' \in Seq(FinderMail) BY DEF ListsKept, FinderSame
  <1>7. Typed' BY <1>1, <1>6 DEF Typed
  <1>8. QED BY <1>3, <1>4, <1>5, <1>7 DEF IInv, ListsInv

LEMMA RevDispatches ==
    ASSUME Typed, NEW m \in RevMail, NEW box \in Seq(PullerMail), HandleRevMessage(m, box)
    PROVE  \E x : Dispatch(m.id, x, box) /\ (x.delta => m.form \in {"delta", "deltaLater"})
  <1>1. m.id \in Ids BY MailKinds
  <1>2. CASE /\ m.form = "error" /\ inc' = Become(m.id, "returned") /\ RevWasHandled(m.id, box)
             /\ fate' = [fate EXCEPT ![m.id[1]] = "refused"] /\ toInsert' = toInsert
    <2>1. "refused" \in {"refused", "lost"} OBVIOUS
    <2>2. PICK x : Dispatch(m.id, x, box) /\ x.delta = FALSE
      BY <1>1, <1>2, <2>1, ReturnDispatches
    <2>3. QED BY <2>2
  <1>3. CASE m.form \in {"plain", "delta"} /\ InsertRevision(m.id, m.form = "delta", box)
    <2>1. PICK delta \in BOOLEAN : delta = (m.form = "delta") OBVIOUS
    <2>2. InsertRevision(m.id, delta, box) BY <1>3, <2>1
    <2>3. PICK x : Dispatch(m.id, x, box) /\ x.delta = delta
      BY <1>1, <2>2, InsertDispatches
    <2>4. QED BY <2>1, <2>3
  <1>4. CASE FailWithError(m.id, {"invalid"}, box)
    <2>1. PICK x : Dispatch(m.id, x, box) /\ x.delta = FALSE
      BY <1>1, <1>4, FailDispatches
    <2>2. QED BY <2>1
  <1>5. CASE /\ m.form \in {"later", "deltaLater"}
             /\ inc' = [inc EXCEPT ![m.id] = [NoInc EXCEPT !.st = "parsing", !.delta = (m.form = "deltaLater")]]
             /\ pullerBox' = box /\ UNCHANGED <<returning, toInsert, fate>>
    <2>1. PICK delta \in BOOLEAN : delta = (m.form = "deltaLater") OBVIOUS
    <2>2. PICK x : x = [NoInc EXCEPT !.st = "parsing", !.delta = delta]
      OBVIOUS
    <2>3. "parsing" \in Statuses BY DEF Statuses
    <2>4. x \in IncType /\ x.st = "parsing" /\ x.delta = delta /\ x.prov = FALSE
      BY <2>2, <2>3, NewInc, ZenonT(60)
    <2>5. inc' = [inc EXCEPT ![m.id] = x] BY <1>5, <2>1, <2>2, Zenon
    <2>6. SameMail(box, pullerBox') /\ fate \in [Seqs -> Fates]
      BY <1>5, SameItself DEF Typed
    <2>7. Dispatch(m.id, x, box) BY <1>5, <2>4, <2>5, <2>6 DEF Dispatch
    <2>8. QED BY <2>1, <2>4, <2>7
  <1>6. QED BY <1>2, <1>3, <1>4, <1>5 DEF HandleRevMessage

LEMMA RevokedDispatches ==
    ASSUME Typed, NEW id \in Ids, NEW box \in Seq(PullerMail), HandleRevokedDoc(id, box)
    PROVE  \E x : Dispatch(id, x, box) /\ x.delta = FALSE
  <1>1. CASE InsertRevision(id, FALSE, box)
    <2>1. FALSE \in BOOLEAN OBVIOUS
    <2>2. QED BY <1>1, <2>1, InsertDispatches
  <1>2. CASE FailWithError(id, {"invalid"}, box) BY <1>2, FailDispatches
  <1>3. QED BY <1>1, <1>2 DEF HandleRevokedDoc

LEMMA DealtWith ==
    ASSUME IInv, NEW id, NEW box, WithoutRev(id, box), SameMail(box, pullerBox'), owed' = owed,
           FinderSame(finderBox, finderBox'), announced' = announced, kind' = kind, finder' = finder
    PROVE  ListsKept /\ ComingOnce' /\ NoneCome /\ RevokedKnown /\ id \notin Coming'
           /\ \A s \in RevokedSeqs(pullerBox') \cup Elements(waiting'.revoked) :
                 s \in RevokedSeqs(pullerBox) \cup Elements(waiting.revoked)
  <1>1. ComingOnce BY DEF IInv
  <1>2. /\ pullerBox' \in Seq(PullerMail) /\ SameLists(pullerBox, pullerBox') /\ RevIds(pullerBox') = RevIds(box)
        /\ Distinct(pullerBox') /\ WholeSecond(pullerBox') /\ RevokedSeqs(pullerBox') = RevokedSeqs(box)
    BY DEF WithoutRev, SameMail, SameLists, SameRevs
  <1>3. ListsKept BY <1>2 DEF ListsKept
  <1>4. RevIds(pullerBox') \subseteq RevIds(pullerBox) /\ RevIds(waiting'.revs) \subseteq RevIds(waiting.revs)
        /\ Distinct(waiting'.revs) /\ WholeSecond(waiting'.revs)
    BY <1>2 DEF WithoutRev
  <1>5. ComingOnce' BY <1>1, <1>2, <1>4 DEF ComingOnce
  <1>6. NoneCome BY <1>4 DEF NoneCome, Coming
  <1>7. id \notin Coming' BY <1>2 DEF WithoutRev, Coming
  <1>8. \A s \in RevokedSeqs(pullerBox') \cup Elements(waiting'.revoked) :
            s \in RevokedSeqs(pullerBox) \cup Elements(waiting.revoked)
    BY <1>2 DEF WithoutRev
  <1>9. QED BY <1>3, <1>5, <1>6, <1>7, <1>8 DEF RevokedKnown

LEMMA StartRevIsSafe ==
    ASSUME IInv, NEW m \in RevMail, m.id \in Coming, m.id[2] = 2 => m.form \notin {"delta", "deltaLater"}, NEW box,
           WithoutRev(m.id, box), StartIncomingRev(m, box), UNCHANGED <<peer, finder, missing, lastSequence>>
    PROVE  IInv'
  <1>1. Typed /\ OnePlace /\ ListsKnown BY DEF IInv
  <1>2. owed' = owed /\ announced' = announced /\ kind' = kind BY DEF peer
  <1>3. finderBox \in Seq(FinderMail) /\ owed \in SUBSET Ids
    BY <1>1 DEF Typed
  <1>4. FinderSame(finderBox, finderBox')
    <2>1. [t |-> "revReceived"] \in FinderMail /\ [t |-> "revReceived"].t # "changes"
      BY DEF FinderMail
    <2>2. finderBox' = Append(finderBox, [t |-> "revReceived"])
      BY DEF StartIncomingRev
    <2>3. QED BY <1>3, <2>1, <2>2, FinderAppended
  <1>5. box \in Seq(PullerMail) /\ m.id \in Ids /\ waiting' \in [revs : Seq(RevMail), revoked : Seq(Seqs)]
    BY MailKinds DEF WithoutRev
  <1>6. CASE connected
    <2>1. HandleRevMessage(m, box) BY <1>6 DEF StartIncomingRev
    <2>2. PICK x : Dispatch(m.id, x, box) /\ (x.delta => m.form \in {"delta", "deltaLater"})
      BY <1>1, <1>5, <2>1, RevDispatches
    <2>3. SameMail(box, pullerBox') BY <2>2 DEF Dispatch
    <2>4. /\ ListsKept /\ ComingOnce' /\ NoneCome /\ m.id \notin Coming'
          /\ \A s \in RevokedSeqs(pullerBox') \cup Elements(waiting'.revoked) :
                s \in RevokedSeqs(pullerBox) \cup Elements(waiting.revoked)
      BY <1>2, <1>4, <2>3, DealtWith
    <2>5. m.id[1] <= announced
      <3>1. m.id[1] \in Seqs /\ kind[m.id[1]] = "rev"
        BY <1>1, <1>5, PairIs DEF OnePlace, WantedIds
      <3>2. QED BY <1>1, <3>1 DEF ListsKnown
    <2>6. x.delta => m.id[2] = 1 BY <1>5, <2>2, PairIs
    <2>7. UNCHANGED <<announced, kind, missing, lastSequence, finder, batch, inserted, askedAgain>>
      BY <1>2, <2>1 DEF HandleRevMessage
    <2>8. Started(m.id, x, box)
      BY <1>2, <1>3, <1>5, <2>2, <2>4, <2>5, <2>6, <2>7 DEF Started, NoneCome
    <2>9. QED BY <1>5, <2>8, StartedIsSafe
  <1>7. CASE ~connected
    <2>1. pullerBox' = box /\ UNCHANGED <<workers, history>>
      BY <1>7 DEF StartIncomingRev
    <2>2. SameMail(box, pullerBox') BY <1>5, <2>1, SameItself
    <2>3. ListsKept /\ ComingOnce' /\ NoneCome /\ RevokedKnown
      BY <1>2, <1>4, <2>2, DealtWith
    <2>4. UNCHANGED <<inc, returning, toInsert, batch, inserted, fate, askedAgain>>
      BY <2>1 DEF workers, history
    <2>5. pullerBox' \in Seq(PullerMail) BY <1>5, <2>1
    <2>6. QED BY <1>2, <1>5, <2>3, <2>4, <2>5, StaysIsSafe
  <1>8. QED BY <1>6, <1>7

LEMMA ComingApart ==
    ASSUME IInv
    PROVE  /\ Typed /\ ComingOnce /\ OnePlace
           /\ pullerBox \in Seq(PullerMail) /\ finderBox \in Seq(FinderMail) /\ waiting \in [revs : Seq(RevMail), revoked : Seq(Seqs)]
           /\ waiting.revs \in Seq(RevMail) /\ waiting.revoked \in Seq(Seqs)
           /\ Distinct(pullerBox) /\ Distinct(waiting.revs) /\ WholeSecond(pullerBox) /\ WholeSecond(waiting.revs)
           /\ \A id \in owed : id \notin RevIds(pullerBox) /\ id \notin RevIds(waiting.revs)
           /\ \A id \in RevIds(pullerBox) : id \notin RevIds(waiting.revs)
           /\ SameLists(pullerBox, pullerBox)
  <1>1. Typed /\ ComingOnce /\ OnePlace BY DEF IInv
  <1>2. waiting.revs \in Seq(RevMail) /\ waiting.revoked \in Seq(Seqs)
    BY <1>1, MailTypes
  <1>3. pullerBox \in Seq(PullerMail) /\ finderBox \in Seq(FinderMail) /\ waiting \in [revs : Seq(RevMail), revoked : Seq(Seqs)]
    BY <1>1 DEF Typed
  <1>4. QED BY <1>1, <1>2, <1>3 DEF ComingOnce, SameLists

LEMMA HandleRevIsSafe == IInv /\ HandleRev => IInv'
  <1> SUFFICES ASSUME IInv, HandleRev PROVE IInv' OBVIOUS
  <1>1. PICK m : m = Head(pullerBox) OBVIOUS
  <1>2. PICK box : box = Tail(pullerBox) OBVIOUS
  <1>3. pullerBox # << >> /\ m.t = "rev" /\ UNCHANGED <<peer, finder, missing, lastSequence>>
    BY <1>1 DEF HandleRev, Receive
  <1>4. m.t \in {"rev", "norev"} BY <1>3
  <1>5. /\ box \in Seq(PullerMail) /\ SameLists(pullerBox, box) /\ m.id \in Ids
        /\ RevIds(pullerBox) = RevIds(box) \cup {m.id}
        /\ Distinct(box) /\ m.id \notin RevIds(box) /\ WholeSecond(box)
        /\ RevokedSeqs(box) = RevokedSeqs(pullerBox) /\ m \in RevMail /\ m \in Elements(pullerBox)
    BY <1>1, <1>2, <1>3, <1>4, RevTaken, ComingApart
  <1>6. m.id \notin owed /\ m.id \notin RevIds(waiting.revs) /\ m.id \in Coming
    BY <1>5, ComingApart DEF Coming
  <1>7. m.id[2] = 2 => m.form \notin {"delta", "deltaLater"}
    <2>1. WholeSecond(pullerBox) BY ComingApart
    <2>2. QED BY <1>3, <1>5, <2>1 DEF WholeSecond
  <1>8. CASE RoomForRev
    <2>1. StartIncomingRev(m, box) /\ waiting' = waiting
      BY <1>1, <1>2, <1>8 DEF HandleRev
    <2>2. WithoutRev(m.id, box)
      BY <1>5, <1>6, <2>1, ComingApart DEF WithoutRev
    <2>3. QED BY <1>3, <1>5, <1>6, <1>7, <2>1, <2>2, StartRevIsSafe
  <1>9. CASE ~RoomForRev
    <2>1. /\ waiting' = [waiting EXCEPT !.revs = Append(waiting.revs, m)] /\ pullerBox' = box
          /\ finderBox' = finderBox /\ UNCHANGED <<workers, history>>
      BY <1>1, <1>2, <1>9 DEF HandleRev
    <2>2. PICK q : q = waiting.revs OBVIOUS
    <2>3. q \in Seq(RevMail) /\ RevIds(q) \cap RevIdOf(m) = {} /\ RevIdOf(m) = {m.id} /\ Distinct(q) /\ WholeSecond(q)
      BY <1>4, <1>6, <2>2, ComingApart DEF RevIdOf, IsRev
    <2>4. /\ Append(q, m) \in Seq(RevMail) /\ Elements(Append(q, m)) = Elements(q) \cup {m}
          /\ RevIds(Append(q, m)) = RevIds(q) \cup RevIdOf(m) /\ Distinct(Append(q, m))
      BY <1>5, <2>3, BoxAppended
    <2>5. waiting'.revs = Append(q, m) /\ waiting'.revoked = waiting.revoked
          /\ waiting' \in [revs : Seq(RevMail), revoked : Seq(Seqs)]
      BY <2>1, <2>2, <2>4, ComingApart
    <2>6. WholeSecond(waiting'.revs)
      BY <1>7, <2>3, <2>4, <2>5 DEF WholeSecond
    <2>7. /\ RevIds(waiting'.revs) = RevIds(waiting.revs) \cup {m.id} /\ Distinct(waiting'.revs)
          /\ pullerBox' = box /\ owed' = owed /\ announced' = announced /\ kind' = kind
      BY <1>3, <2>1, <2>2, <2>3, <2>4, <2>5 DEF peer
    <2>8. ComingOnce'
      <3>1. /\ Distinct(pullerBox') /\ WholeSecond(pullerBox') /\ m.id \notin RevIds(pullerBox')
            /\ RevIds(pullerBox') \subseteq RevIds(pullerBox)
        BY <1>5, <2>7
      <3>2. /\ owed' \cap RevIds(pullerBox') = {} /\ owed' \cap RevIds(waiting'.revs) = {}
            /\ RevIds(pullerBox') \cap RevIds(waiting'.revs) = {}
        BY <1>6, <2>7, <3>1, ComingApart
      <3>3. QED BY <2>6, <2>7, <3>1, <3>2 DEF ComingOnce
    <2>9. NoneCome BY <1>5, <2>7 DEF NoneCome, Coming
    <2>10. ListsKept
      BY <1>3, <1>5, <2>1, <2>7, FinderSameItself, ComingApart DEF ListsKept
    <2>11. RevokedKnown BY <1>5, <2>1, <2>5 DEF RevokedKnown
    <2>12. UNCHANGED <<inc, returning, toInsert, batch, inserted, fate, askedAgain>> /\ pullerBox' \in Seq(PullerMail)
      BY <1>5, <2>1 DEF workers, history
    <2>13. QED BY <1>3, <2>5, <2>7, <2>8, <2>9, <2>10, <2>11, <2>12, StaysIsSafe
  <1>10. QED BY <1>8, <1>9

LEMMA StartWaitingRevIsSafe == IInv /\ StartWaitingRev => IInv'
  <1> SUFFICES ASSUME IInv, StartWaitingRev PROVE IInv' OBVIOUS
  <1>1. PICK q : q = waiting.revs OBVIOUS
  <1>2. PICK m : m = Head(q) OBVIOUS
  <1>3. PICK r : r = Tail(q) OBVIOUS
  <1>4. /\ q # << >> /\ waiting' = [waiting EXCEPT !.revs = r] /\ StartIncomingRev(m, pullerBox)
        /\ UNCHANGED <<peer, finder, missing, lastSequence>>
    BY <1>1, <1>2, <1>3 DEF StartWaitingRev
  <1>5. q \in Seq(RevMail) /\ Distinct(q) /\ WholeSecond(q)
    BY <1>1, ComingApart
  <1>6. /\ m \in RevMail /\ r \in Seq(RevMail) /\ Elements(q) = {m} \cup Elements(r)
        /\ RevIds(q) = RevIds(r) \cup RevIdOf(m) /\ Distinct(r) /\ RevIdOf(m) \cap RevIds(r) = {}
    BY <1>2, <1>3, <1>4, <1>5, BoxTail
  <1>7. RevIdOf(m) = {m.id} /\ m.id \in Ids /\ m.t = "rev"
    BY <1>6, MailKinds DEF RevIdOf
  <1>8. m.id[2] = 2 => m.form \notin {"delta", "deltaLater"}
    BY <1>5, <1>6, <1>7 DEF WholeSecond
  <1>9. m.id \in RevIds(waiting.revs) /\ m.id \in Coming
    BY <1>1, <1>6, <1>7 DEF Coming
  <1>10. m.id \notin owed /\ m.id \notin RevIds(pullerBox) /\ m.id \notin RevIds(r)
    BY <1>6, <1>7, <1>9, ComingApart
  <1>11. waiting'.revs = r /\ waiting'.revoked = waiting.revoked /\ waiting' \in [revs : Seq(RevMail), revoked : Seq(Seqs)]
    BY <1>4, <1>6, ComingApart
  <1>12. WholeSecond(r) /\ RevIds(r) \subseteq RevIds(waiting.revs)
    BY <1>1, <1>5, <1>6 DEF WholeSecond
  <1>13. WithoutRev(m.id, pullerBox)
    BY <1>6, <1>10, <1>11, <1>12, ComingApart DEF WithoutRev
  <1>14. QED BY <1>4, <1>6, <1>8, <1>9, <1>13, StartRevIsSafe

(* The same for a revoked document.                                        *)
LEMMA StartRevokedIsSafe ==
    ASSUME IInv, NEW s \in Seqs, kind[s] = "revoked", inc[<<s, 1>>].st = "none", NEW box, WithoutRev(<<s, 1>>, box), StartRevoked(s, box),
           UNCHANGED <<peer, finder, missing, lastSequence>>
    PROVE  IInv'
  <1>1. PICK id \in Ids : id = <<s, 1>> BY DEF Ids
  <1>2. owed' = owed /\ announced' = announced /\ kind' = kind /\ finderBox' = finderBox
    BY DEF peer, StartRevoked
  <1>3. finderBox \in Seq(FinderMail) /\ owed \in SUBSET Ids /\ Typed
    BY DEF IInv, Typed
  <1>4. FinderSame(finderBox, finderBox') BY <1>2, <1>3, FinderSameItself
  <1>5. box \in Seq(PullerMail) /\ waiting' \in [revs : Seq(RevMail), revoked : Seq(Seqs)] /\ WithoutRev(id, box)
    BY <1>1 DEF WithoutRev
  <1>6. id \notin WantedIds /\ id[1] <= announced /\ inc[id].st = "none"
    <2>1. id[1] = s BY <1>1
    <2>2. ListsKnown BY DEF IInv
    <2>3. QED BY <1>1, <2>1, <2>2 DEF WantedIds, ListsKnown
  <1>7. CASE connected
    <2>1. HandleRevokedDoc(id, box) BY <1>1, <1>7 DEF StartRevoked
    <2>2. PICK x : Dispatch(id, x, box) /\ x.delta = FALSE
      BY <1>3, <1>5, <2>1, RevokedDispatches
    <2>3. SameMail(box, pullerBox') BY <2>2 DEF Dispatch
    <2>4. /\ ListsKept /\ ComingOnce' /\ NoneCome /\ id \notin Coming'
          /\ \A t \in RevokedSeqs(pullerBox') \cup Elements(waiting'.revoked) :
                t \in RevokedSeqs(pullerBox) \cup Elements(waiting.revoked)
      BY <1>2, <1>4, <1>5, <2>3, DealtWith
    <2>5. UNCHANGED <<announced, kind, missing, lastSequence, finder, batch, inserted, askedAgain>>
      BY <1>2, <2>1 DEF HandleRevokedDoc
    <2>6. Started(id, x, box)
      BY <1>2, <1>3, <1>5, <1>6, <2>2, <2>4, <2>5 DEF Started, NoneCome
    <2>7. QED BY <2>6, StartedIsSafe
  <1>8. CASE ~connected
    <2>1. pullerBox' = box /\ UNCHANGED <<workers, history>>
      BY <1>8 DEF StartRevoked
    <2>2. SameMail(box, pullerBox') BY <1>5, <2>1, SameItself
    <2>3. ListsKept /\ ComingOnce' /\ NoneCome /\ RevokedKnown
      BY <1>2, <1>4, <1>5, <2>2, DealtWith
    <2>4. UNCHANGED <<inc, returning, toInsert, batch, inserted, fate, askedAgain>> /\ pullerBox' \in Seq(PullerMail)
      BY <1>5, <2>1 DEF workers, history
    <2>5. QED BY <1>2, <1>5, <2>3, <2>4, StaysIsSafe
  <1>9. QED BY <1>7, <1>8

LEMMA StartWaitingRevokedIsSafe ==
    ASSUME IInv, RevokedOnce, StartWaitingRevoked, waiting.revoked # << >>
    PROVE  IInv'
  <1>1. PICK q : q = waiting.revoked OBVIOUS
  <1>2. PICK s : s = Head(q) OBVIOUS
  <1>3. PICK r : r = Tail(q) OBVIOUS
  <1>4. /\ q # << >> /\ waiting' = [waiting EXCEPT !.revoked = r] /\ StartRevoked(s, pullerBox)
        /\ UNCHANGED <<peer, finder, missing, lastSequence>>
    BY <1>1, <1>2, <1>3 DEF StartWaitingRevoked
  <1>5. q \in Seq(Seqs) BY <1>1, ComingApart
  <1>6. s \in Seqs /\ s \in Elements(q) /\ r \in Seq(Seqs) /\ Elements(q) = {s} \cup Elements(r)
    BY <1>2, <1>3, <1>4, <1>5, TailElements
  <1>7. kind[s] = "revoked" /\ inc[<<s, 1>>].st = "none"
    BY <1>1, <1>6 DEF IInv, WorkersKnown, RevokedOnce, NotStarted
  <1>8. waiting'.revs = waiting.revs /\ waiting'.revoked = r /\ waiting' \in [revs : Seq(RevMail), revoked : Seq(Seqs)]
    BY <1>4, <1>6, ComingApart
  <1>9. <<s, 1>> \notin Coming BY <1>7, ComingApart DEF OnePlace, WantedIds
  <1>10. WithoutRev(<<s, 1>>, pullerBox)
    BY <1>1, <1>6, <1>8, <1>9, ComingApart DEF WithoutRev, Coming
  <1>11. QED BY <1>4, <1>6, <1>7, <1>10, StartRevokedIsSafe

(* A message at the front that carries neither a list nor a revision.      *)
LEMMA Prepended ==
    ASSUME NEW S, NEW r \in Seq(S), NEW x \in S, ~IsList(x), ~IsRev(x)
    PROVE  /\ <<x>> \o r \in Seq(S) /\ Elements(<<x>> \o r) = {x} \cup Elements(r)
           /\ Lists(<<x>> \o r) = Lists(r) /\ RevIds(<<x>> \o r) = RevIds(r)
           /\ RevokedSeqs(<<x>> \o r) = RevokedSeqs(r) \cup RevokedOf(x)
           /\ InOrder(r) => InOrder(<<x>> \o r)
           /\ Distinct(r) => Distinct(<<x>> \o r)
  <1> DEFINE q == <<x>> \o r
             n == Len(r)
  <1>1. n \in Nat /\ DOMAIN r = 1 .. n OBVIOUS
  <1>2. q \in Seq(S) /\ DOMAIN q = 1 .. n + 1 /\ q[1] = x OBVIOUS
  <1>3. \A i \in 1 .. n : q[i + 1] = r[i] OBVIOUS
  <1> HIDE DEF q, n
  <1>4. \A i \in DOMAIN q : q[i] = x \/ (i - 1 \in DOMAIN r /\ q[i] = r[i - 1])
    <2>1. SUFFICES ASSUME NEW i \in DOMAIN q, i # 1 PROVE i - 1 \in DOMAIN r /\ q[i] = r[i - 1]
      BY <1>2
    <2>2. i \in 1 .. n + 1 BY <1>2
    <2>3. i - 1 \in 1 .. n /\ (i - 1) + 1 = i BY <1>1, <2>1, <2>2
    <2>4. QED BY <1>1, <1>3, <2>3
  <1>5. Elements(q) = {x} \cup Elements(r)
    <2>1. ASSUME NEW y \in Elements(q) PROVE y \in {x} \cup Elements(r)
      BY <1>4 DEF Elements
    <2>2. x \in Elements(q) BY <1>1, <1>2 DEF Elements
    <2>3. ASSUME NEW y \in Elements(r) PROVE y \in Elements(q)
      <3>1. PICK i \in 1 .. n : y = r[i] BY <1>1 DEF Elements
      <3>2. i + 1 \in DOMAIN q /\ q[i + 1] = y BY <1>1, <1>2, <1>3, <3>1
      <3>3. QED BY <3>2 DEF Elements
    <2>4. QED BY <2>1, <2>2, <2>3
  <1>6. ListOf(x) = {} /\ RevIdOf(x) = {} BY DEF ListOf, RevIdOf
  <1>7. Lists(q) = Lists(r) /\ RevIds(q) = RevIds(r) /\ RevokedSeqs(q) = RevokedSeqs(r) \cup RevokedOf(x)
    <2>1. /\ Lists(q) = Lists(r) \cup ListOf(x) /\ RevIds(q) = RevIds(r) \cup RevIdOf(x)
          /\ RevokedSeqs(q) = RevokedSeqs(r) \cup RevokedOf(x)
      <3>1. HasBesides(q, r, x) BY <1>5 DEF HasBesides
      <3>2. QED BY <3>1, BoxOf
    <2>2. QED BY <1>6, <2>1
  <1>8. InOrder(r) => InOrder(q)
    <2>1. SUFFICES ASSUME InOrder(r), NEW i \in DOMAIN q, NEW j \in DOMAIN q, i < j, IsList(q[i]), IsList(q[j])
                   PROVE  q[i].last < q[j].first
      BY DEF InOrder
    <2>2. i - 1 \in DOMAIN r /\ q[i] = r[i - 1] /\ j - 1 \in DOMAIN r /\ q[j] = r[j - 1]
      BY <1>4, <2>1
    <2>3. i - 1 < j - 1 BY <1>1, <1>2, <2>1
    <2>4. QED BY <2>1, <2>2, <2>3 DEF InOrder
  <1>9. Distinct(r) => Distinct(q)
    <2>1. SUFFICES ASSUME Distinct(r), NEW i \in DOMAIN q, NEW j \in DOMAIN q, i # j, IsRev(q[i]), IsRev(q[j])
                   PROVE  q[i].id # q[j].id
      BY DEF Distinct
    <2>2. i - 1 \in DOMAIN r /\ q[i] = r[i - 1] /\ j - 1 \in DOMAIN r /\ q[j] = r[j - 1]
      BY <1>4, <2>1
    <2>3. i - 1 # j - 1 BY <1>1, <1>2, <2>1
    <2>4. QED BY <2>1, <2>2, <2>3 DEF Distinct
  <1>10. QED BY <1>2, <1>5, <1>7, <1>8, <1>9 DEF q

LEMMA RestIs ==
    ASSUME IInv, pullerBox # << >>, Head(pullerBox).t = "documentsRevoked", NEW s \in Head(pullerBox).seqs
    PROVE  /\ RestOf(Head(pullerBox), s, Tail(pullerBox)) \in Seq(PullerMail)
           /\ SameLists(pullerBox, RestOf(Head(pullerBox), s, Tail(pullerBox)))
           /\ RevIds(RestOf(Head(pullerBox), s, Tail(pullerBox))) = RevIds(pullerBox)
           /\ Distinct(RestOf(Head(pullerBox), s, Tail(pullerBox))) /\ WholeSecond(RestOf(Head(pullerBox), s, Tail(pullerBox)))
           /\ RevokedSeqs(RestOf(Head(pullerBox), s, Tail(pullerBox))) \subseteq RevokedSeqs(pullerBox)
           /\ s \in Seqs /\ kind[s] = "revoked" /\ s \in RevokedSeqs(pullerBox)
  <1>1. PICK m : m = Head(pullerBox) OBVIOUS
  <1>2. PICK tail : tail = Tail(pullerBox) OBVIOUS
  <1>3. /\ m \in PullerMail /\ tail \in Seq(PullerMail) /\ Elements(pullerBox) = {m} \cup Elements(tail)
        /\ Lists(pullerBox) = Lists(tail) \cup ListOf(m)
        /\ RevIds(pullerBox) = RevIds(tail) \cup RevIdOf(m)
        /\ RevokedSeqs(pullerBox) = RevokedSeqs(tail) \cup RevokedOf(m)
        /\ InOrder(pullerBox) => InOrder(tail)
        /\ Distinct(pullerBox) => Distinct(tail)
    BY <1>1, <1>2, BoxTail, ComingApart
  <1>4. m \in RevokedMail BY <1>1, <1>3, MailKinds
  <1>5. ~IsRev(m) /\ ~IsList(m) /\ m.seqs \in SUBSET Seqs /\ s \in m.seqs
    BY <1>1, <1>4, MailKinds
  <1>6. ListOf(m) = {} /\ RevIdOf(m) = {} /\ RevokedOf(m) = m.seqs
    BY <1>1, <1>5 DEF ListOf, RevIdOf, RevokedOf
  <1>7. s \in Seqs /\ kind[s] = "revoked" /\ s \in RevokedSeqs(pullerBox)
    <2>1. s \in RevokedSeqs(pullerBox) BY <1>3, <1>5, <1>6
    <2>2. QED BY <1>5, <2>1 DEF IInv, WorkersKnown
  <1>8. Distinct(tail) /\ WholeSecond(tail) /\ SameLists(pullerBox, tail) /\ RevIds(tail) = RevIds(pullerBox)
        /\ RevokedSeqs(tail) \subseteq RevokedSeqs(pullerBox)
    BY <1>3, <1>6, ComingApart DEF WholeSecond, SameLists
  <1>9. CASE m.seqs = {s}
    <2>1. RestOf(m, s, tail) = tail BY <1>9 DEF RestOf
    <2>2. QED BY <1>1, <1>2, <1>3, <1>7, <1>8, <2>1
  <1>10. CASE m.seqs # {s}
    <2>1. PICK x : x = [m EXCEPT !.seqs = m.seqs \ {s}] OBVIOUS
    <2>2. m.seqs \ {s} \in (SUBSET Seqs) \ {{}} BY <1>5, <1>10
    <2>3. x \in RevokedMail /\ x.seqs = m.seqs \ {s}
      BY <1>4, <2>1, <2>2 DEF RevokedMail
    <2>4. x \in PullerMail /\ ~IsRev(x) /\ ~IsList(x) /\ x.t = "documentsRevoked"
      BY <2>3, MailKinds
    <2>5. PICK q : q = <<x>> \o tail OBVIOUS
    <2>6. /\ q \in Seq(PullerMail) /\ Elements(q) = {x} \cup Elements(tail)
          /\ Lists(q) = Lists(tail) /\ RevIds(q) = RevIds(tail)
          /\ RevokedSeqs(q) = RevokedSeqs(tail) \cup RevokedOf(x)
          /\ InOrder(tail) => InOrder(q)
          /\ Distinct(tail) => Distinct(q)
      BY <1>3, <2>4, <2>5, Prepended
    <2>7. RevokedSeqs(q) \subseteq RevokedSeqs(pullerBox)
      BY <1>3, <1>6, <2>3, <2>6 DEF RevokedOf
    <2>8. WholeSecond(q) BY <1>8, <2>4, <2>6 DEF WholeSecond
    <2>9. SameLists(pullerBox, q) BY <1>8, <2>6 DEF SameLists
    <2>10. RestOf(m, s, tail) = q BY <1>10, <2>1, <2>5 DEF RestOf
    <2>11. QED BY <1>1, <1>2, <1>7, <1>8, <2>6, <2>7, <2>8, <2>9, <2>10
  <1>11. QED BY <1>9, <1>10

LEMMA RevokedTakes ==
    ASSUME IInv, DocumentsRevoked
    PROVE  \E s, rest : RevokedTaken(s, rest)
  <1>1. PICK m : m = Head(pullerBox) OBVIOUS
  <1>2. PICK s : s = CHOOSE r \in m.seqs : \A q \in m.seqs : r <= q OBVIOUS
  <1>3. PICK rest : rest = RestOf(m, s, Tail(pullerBox)) OBVIOUS
  <1>4. pullerBox # << >> /\ m.t = "documentsRevoked"
    BY <1>1 DEF DocumentsRevoked, Receive
  <1>5. s \in m.seqs
    <2>1. m \in PullerMail BY <1>1, <1>4, BoxTail, ComingApart
    <2>2. m \in RevokedMail BY <1>4, <2>1, MailKinds
    <2>3. m.seqs \in SUBSET Nat /\ m.seqs # {} BY <2>2, MailKinds, Numbers
    <2>4. \E r \in m.seqs : \A q \in m.seqs : r <= q BY <2>3, LeastNatural
    <2>5. QED BY <1>2, <2>4
  <1>6. /\ UNCHANGED <<peer, finder, missing, lastSequence>>
        /\ IF RoomForRevoked
           THEN StartRevoked(s, rest) /\ waiting' = waiting
           ELSE /\ waiting' = [waiting EXCEPT !.revoked = Append(waiting.revoked, s)]
                /\ pullerBox' = rest /\ UNCHANGED <<finderBox, count, workers, history>>
    BY <1>1, <1>2, <1>3 DEF DocumentsRevoked, RestOf
  <1>7. QED BY <1>1, <1>3, <1>4, <1>5, <1>6, Zenon DEF RevokedTaken

LEMMA DocumentsRevokedIsSafe == IInv /\ RevokedOnce /\ DocumentsRevoked => IInv'
  <1> SUFFICES ASSUME IInv, RevokedOnce, DocumentsRevoked PROVE IInv'
    OBVIOUS
  <1>1. PICK m : m = Head(pullerBox) OBVIOUS
  <1>2. PICK s, rest : RevokedTaken(s, rest) BY RevokedTakes
  <1>3. rest = RestOf(m, s, Tail(pullerBox)) /\ s \in m.seqs
    BY <1>1, <1>2 DEF RevokedTaken
  <1>4. /\ pullerBox # << >> /\ m.t = "documentsRevoked" /\ UNCHANGED <<peer, finder, missing, lastSequence>>
        /\ IF RoomForRevoked
           THEN StartRevoked(s, rest) /\ waiting' = waiting
           ELSE /\ waiting' = [waiting EXCEPT !.revoked = Append(waiting.revoked, s)]
                /\ pullerBox' = rest /\ finderBox' = finderBox /\ UNCHANGED <<workers, history>>
    BY <1>1, <1>2 DEF RevokedTaken
  <1>6. /\ rest \in Seq(PullerMail) /\ SameLists(pullerBox, rest) /\ RevIds(rest) = RevIds(pullerBox)
        /\ Distinct(rest) /\ WholeSecond(rest) /\ RevokedSeqs(rest) \subseteq RevokedSeqs(pullerBox)
        /\ s \in Seqs /\ kind[s] = "revoked" /\ s \in RevokedSeqs(pullerBox)
    BY <1>1, <1>3, <1>4, RestIs
  <1>7. <<s, 1>> \notin Coming BY <1>6, ComingApart DEF OnePlace, WantedIds
  <1>8. CASE RoomForRevoked
    <2>1. StartRevoked(s, rest) /\ waiting' = waiting BY <1>4, <1>8
    <2>2. WithoutRev(<<s, 1>>, rest)
      BY <1>6, <1>7, <2>1, ComingApart DEF WithoutRev, Coming
    <2>3. QED BY <1>4, <1>6, <2>1, <2>2, StartRevokedIsSafe DEF RevokedOnce, NotStarted
  <1>9. CASE ~RoomForRevoked
    <2>1. /\ waiting' = [waiting EXCEPT !.revoked = Append(waiting.revoked, s)] /\ pullerBox' = rest
          /\ finderBox' = finderBox /\ UNCHANGED <<workers, history>>
      BY <1>4, <1>9
    <2>2. Append(waiting.revoked, s) \in Seq(Seqs) /\ Elements(Append(waiting.revoked, s)) = Elements(waiting.revoked) \cup {s}
      BY <1>6, AppendElements, ComingApart
    <2>3. /\ waiting'.revs = waiting.revs /\ waiting'.revoked = Append(waiting.revoked, s)
          /\ waiting' \in [revs : Seq(RevMail), revoked : Seq(Seqs)]
      BY <2>1, <2>2, ComingApart
    <2>4. owed' = owed /\ announced' = announced /\ kind' = kind
      BY <1>4 DEF peer
    <2>5. ComingOnce' /\ NoneCome
      <3>1. RevIds(pullerBox') = RevIds(pullerBox) /\ Distinct(pullerBox') /\ WholeSecond(pullerBox')
        BY <1>6, <2>1
      <3>2. ComingOnce' BY <2>3, <2>4, <3>1, ComingApart DEF ComingOnce
      <3>3. NoneCome BY <2>3, <2>4, <3>1 DEF NoneCome, Coming
      <3>4. QED BY <3>2, <3>3
    <2>6. ListsKept
      BY <1>4, <1>6, <2>1, <2>4, FinderSameItself, ComingApart DEF ListsKept
    <2>7. RevokedKnown BY <1>6, <2>1, <2>2, <2>3 DEF RevokedKnown
    <2>8. UNCHANGED <<inc, returning, toInsert, batch, inserted, fate, askedAgain>> /\ pullerBox' \in Seq(PullerMail)
      BY <1>6, <2>1 DEF workers, history
    <2>9. QED BY <1>4, <2>3, <2>4, <2>5, <2>6, <2>7, <2>8, StaysIsSafe
  <1>10. QED BY <1>8, <1>9

-----------------------------------------------------------------------------

LEMMA StartingStays ==
    ASSUME IInv, Starting, [Next]_vars
    PROVE  Starting'
  <1>1. CASE UNCHANGED <<pc, count, waiting, connected>>
    BY <1>1 DEF Starting, CanStart, RoomForRev, RoomForRevoked
  <1>2. CASE pc = "idle" /\ pc' = pc BY <1>2 DEF Starting
  <1>3. CASE MaybeStartIncomingRevs
    BY <1>3 DEF Starting, MaybeStartIncomingRevs
  <1>4. CASE UNCHANGED vars BY <1>1, <1>4 DEF vars, puller
  <1>5. CASE PeerNext
    <2>1. ASSUME NEW id \in Ids, SendNoRev(id) \/ \E form \in AllForms : SendRev(id, form) PROVE Starting'
      BY <1>1, <2>1 DEF SendNoRev, SendRev
    <2>2. CASE Reply \/ Announce \/ AnnounceEnd \/ Close \/ OnClose
      BY <1>1, <2>2 DEF Reply, Announce, AnnounceEnd, Close, OnClose, puller
    <2>3. QED BY <1>5, <2>1, <2>2 DEF PeerNext
  <1>6. CASE FinderNext
    BY <1>1, <1>6 DEF FinderNext, HandleChanges, RevReceived, HandleWaitingChanges, HandleChangesNow, puller
  <1>7. CASE WorkerNext
    <2>1. ASSUME NEW id \in Ids, ParseAndInsert(id) \/ DeltaFails(id) \/ Return(id) PROVE Starting'
      BY <1>1, <2>1 DEF ParseAndInsert, DeltaFails, Return
    <2>2. ASSUME NEW ok \in BOOLEAN, Commit(ok) PROVE Starting'
      BY <1>1, <2>2 DEF Commit, puller
    <2>3. CASE InsertRevisionsNow \/ InsertOne \/ InsertFails
      BY <1>1, <2>3 DEF InsertRevisionsNow, InsertOne, InsertFails, puller
    <2>4. QED BY <1>7, <2>1, <2>2, <2>3 DEF WorkerNext
  <1>8. CASE PullerNext
    <2>1. CASE StartWaitingRev \/ StartWaitingRevoked \/ RevsWereProvisionallyHandled \/ RevsFinished
      BY <1>3, <2>1 DEF StartWaitingRev, StartWaitingRevoked, RevsWereProvisionallyHandled, RevsFinished
    <2>2. CASE HandleRev \/ DocumentsRevoked
      BY <1>2, <2>2 DEF HandleRev, DocumentsRevoked, Receive
    <2>3. CASE ExpectSequences \/ HandleNoRev \/ RevReRequested \/ SubChangesReply \/ SetCaughtUp \/ ConnectionClosed
      BY <1>2, <2>3 DEF ExpectSequences, HandleNoRev, RevReRequested, SubChangesReply, SetCaughtUp, ConnectionClosed, Receive
    <2>4. QED BY <1>8, <2>1, <2>2, <2>3 DEF PullerNext
  <1>9. QED BY <1>4, <1>5, <1>6, <1>7, <1>8 DEF Next

LEMMA StepIsSafe ==
    ASSUME IInv, Starting, RevokedOnce, [Next]_vars
    PROVE  IInv'
  <1>1. CASE UNCHANGED vars BY <1>1, StutterIsSafe
  <1>2. CASE PeerNext
    BY <1>2, AnnounceArrives, ArrivalIsSafe, SendIsSafe, CloseIsSafe DEF PeerNext
  <1>3. CASE FinderNext
    BY <1>3, HandleChangesIsSafe, RevReceivedIsSafe, HandleWaitingIsSafe DEF FinderNext
  <1>4. CASE WorkerNext
    BY <1>4, ParseIsSafe, DeltaFailsIsSafe, ReturnIsSafe, InsertNowIsSafe, InsertOneIsSafe, InsertFailsIsSafe, CommitIsSafe
       DEF WorkerNext
  <1>5. CASE PullerNext
    <2>1. CASE StartWaitingRevoked
      <3>1. waiting.revoked # << >>
        BY <2>1 DEF Starting, StartWaitingRevoked, CanStart
      <3>2. QED BY <2>1, <3>1, StartWaitingRevokedIsSafe
    <2>2. CASE HandleRev \/ DocumentsRevoked \/ StartWaitingRev
      BY <2>2, HandleRevIsSafe, DocumentsRevokedIsSafe, StartWaitingRevIsSafe
    <2>3. CASE ExpectSequences \/ HandleNoRev \/ RevsFinished
      BY <2>3, ExpectIsSafe, HandleNoRevIsSafe, RevsFinishedIsSafe
    <2>4. CASE RevReRequested \/ RevsWereProvisionallyHandled \/ SubChangesReply \/ SetCaughtUp \/ ConnectionClosed
      BY <2>4, PlainMessagesAreSafe
    <2>5. QED BY <1>5, <2>1, <2>2, <2>3, <2>4 DEF PullerNext
  <1>6. QED BY <1>1, <1>2, <1>3, <1>4, <1>5 DEF Next

-----------------------------------------------------------------------------
LEMMA Finite ==
    /\ IsFiniteSet(Seqs) /\ IsFiniteSet(Ids)
    /\ \A S : S \subseteq Seqs => IsFiniteSet(S) /\ Cardinality(S) \in Nat
    /\ \A S : S \subseteq Ids => IsFiniteSet(S) /\ Cardinality(S) \in Nat
  <1>1. IsFiniteSet(Seqs) BY Numbers, FS_Interval
  <1>2. IsFiniteSet({1, 2})
    <2>1. IsFiniteSet({1}) /\ {1, 2} = {1} \cup {2} BY FS_Singleton
    <2>2. QED BY <2>1, FS_AddElement
  <1>3. IsFiniteSet(Ids) BY <1>1, <1>2, FS_Product DEF Ids
  <1>4. QED BY <1>1, <1>3, FS_Subset, FS_CardinalityType

(***************************************************************************)
(* A revoked document is handled once.                                     *)
(***************************************************************************)
LEMMA RevokedIn ==
    ASSUME NEW q
    PROVE  \A i \in DOMAIN q : RevokedOf(q[i]) \subseteq RevokedSeqs(q)
  BY DEF RevokedOf, RevokedSeqs, Elements

LEMMA ApartAppended ==
    ASSUME NEW S, NEW q \in Seq(S), NEW x \in S, Apart(q), RevokedOf(x) \cap RevokedSeqs(q) = {}
    PROVE  Apart(Append(q, x))
  <1> DEFINE r == Append(q, x)
             n == Len(q)
  <1>1. r \in Seq(S) /\ DOMAIN r = 1 .. n + 1 /\ DOMAIN q = 1 .. n /\ n \in Nat
    OBVIOUS
  <1>2. (\A i \in 1 .. n : r[i] = q[i]) /\ r[n + 1] = x OBVIOUS
  <1> HIDE DEF r, n
  <1>3. \A k \in DOMAIN r : (k \in DOMAIN q /\ r[k] = q[k]) \/ (k = n + 1 /\ r[k] = x)
    BY <1>1, <1>2
  <1>4. SUFFICES ASSUME NEW i \in DOMAIN r, NEW j \in DOMAIN r, i # j PROVE RevokedOf(r[i]) \cap RevokedOf(r[j]) = {}
    BY DEF Apart, r
  <1>5. CASE i \in DOMAIN q /\ r[i] = q[i] /\ j \in DOMAIN q /\ r[j] = q[j]
    BY <1>4, <1>5 DEF Apart
  <1>6. CASE (i \in DOMAIN q /\ r[i] = q[i] /\ r[j] = x) \/ (r[i] = x /\ j \in DOMAIN q /\ r[j] = q[j])
    BY <1>6, RevokedIn
  <1>7. QED BY <1>3, <1>4, <1>5, <1>6

LEMMA ApartTail ==
    ASSUME NEW S, NEW q \in Seq(S), q # << >>, Apart(q)
    PROVE  Apart(Tail(q)) /\ RevokedOf(Head(q)) \cap RevokedSeqs(Tail(q)) = {}
  <1> DEFINE r == Tail(q)
             n == Len(q)
             h == Head(q)
  <1>1. r \in Seq(S) /\ DOMAIN r = 1 .. n - 1 /\ DOMAIN q = 1 .. n /\ n \in Nat \ {0}
    OBVIOUS
  <1>2. (\A i \in 1 .. n - 1 : r[i] = q[i + 1]) /\ h = q[1] OBVIOUS
  <1> HIDE DEF r, n, h
  <1>3. \A i \in DOMAIN r : i + 1 \in DOMAIN q /\ r[i] = q[i + 1] /\ i + 1 # 1
    BY <1>1, <1>2
  <1>4. 1 \in DOMAIN q BY <1>1
  <1>5. ASSUME NEW i \in DOMAIN r, NEW j \in DOMAIN r, i # j PROVE RevokedOf(r[i]) \cap RevokedOf(r[j]) = {}
    <2>1. i + 1 # j + 1 BY <1>1, <1>5
    <2>2. QED BY <1>3, <2>1 DEF Apart
  <1>6. ASSUME NEW s \in RevokedOf(h), s \in RevokedSeqs(r) PROVE FALSE
    <2>1. PICK i \in DOMAIN r : s \in RevokedOf(r[i])
      BY <1>6 DEF RevokedSeqs, Elements, RevokedOf
    <2>2. QED BY <1>2, <1>3, <1>4, <2>1 DEF Apart
  <1>7. QED BY <1>5, <1>6 DEF Apart, r, h

LEMMA ApartPrepended ==
    ASSUME NEW S, NEW r \in Seq(S), NEW x \in S, Apart(r), RevokedOf(x) \cap RevokedSeqs(r) = {}
    PROVE  Apart(<<x>> \o r)
  <1> DEFINE q == <<x>> \o r
             n == Len(r)
  <1>1. n \in Nat /\ DOMAIN r = 1 .. n OBVIOUS
  <1>2. q \in Seq(S) /\ DOMAIN q = 1 .. n + 1 /\ q[1] = x OBVIOUS
  <1>3. \A i \in 1 .. n : q[i + 1] = r[i] OBVIOUS
  <1> HIDE DEF q, n
  <1>4. \A i \in DOMAIN q : (i = 1 /\ q[i] = x) \/ (i - 1 \in DOMAIN r /\ q[i] = r[i - 1])
    <2>1. SUFFICES ASSUME NEW i \in DOMAIN q, i # 1 PROVE i - 1 \in DOMAIN r /\ q[i] = r[i - 1]
      BY <1>2
    <2>2. i \in 1 .. n + 1 BY <1>2
    <2>3. i - 1 \in 1 .. n /\ (i - 1) + 1 = i BY <1>1, <2>1, <2>2
    <2>4. QED BY <1>1, <1>3, <2>3
  <1>5. SUFFICES ASSUME NEW i \in DOMAIN q, NEW j \in DOMAIN q, i # j PROVE RevokedOf(q[i]) \cap RevokedOf(q[j]) = {}
    BY DEF Apart, q
  <1>6. CASE i - 1 \in DOMAIN r /\ q[i] = r[i - 1] /\ j - 1 \in DOMAIN r /\ q[j] = r[j - 1]
    <2>1. i - 1 # j - 1 BY <1>1, <1>2, <1>5
    <2>2. QED BY <1>6, <2>1 DEF Apart
  <1>7. CASE (i - 1 \in DOMAIN r /\ q[i] = r[i - 1] /\ q[j] = x) \/ (q[i] = x /\ j - 1 \in DOMAIN r /\ q[j] = r[j - 1])
    BY <1>7, RevokedIn
  <1>8. QED BY <1>4, <1>5, <1>6, <1>7

LEMMA OtherAppended ==
    ASSUME NEW q \in Seq(PullerMail), NEW m \in PullerMail, m.t # "documentsRevoked"
    PROVE  Append(q, m) \in Seq(PullerMail) /\ BoxApart(q, Append(q, m))
  <1>1. RevokedOf(m) = {} BY DEF RevokedOf
  <1>2. Append(q, m) \in Seq(PullerMail) /\ RevokedSeqs(Append(q, m)) = RevokedSeqs(q) \cup RevokedOf(m)
    BY BoxAppended
  <1>3. Apart(q) => Apart(Append(q, m)) BY <1>1, ApartAppended
  <1>4. QED BY <1>1, <1>2, <1>3, Zenon DEF BoxApart

LEMMA OtherTaken ==
    ASSUME NEW q \in Seq(PullerMail), q # << >>
    PROVE  Tail(q) \in Seq(PullerMail) /\ BoxApart(q, Tail(q))
  <1>1. Tail(q) \in Seq(PullerMail) /\ RevokedSeqs(q) = RevokedSeqs(Tail(q)) \cup RevokedOf(Head(q))
    BY BoxTail
  <1>2. Apart(q) => Apart(Tail(q)) BY ApartTail
  <1>3. QED BY <1>1, <1>2 DEF BoxApart

LEMMA NotStartedMoves ==
    ASSUME IInv, RevokedOnce, kind' = kind, \A p \in Pending' : p \in Pending,
           Apart(pullerBox'), Once(waiting'.revoked), RevokedSeqs(pullerBox') \cap Elements(waiting'.revoked) = {},
           \A s \in NotStarted' :
              s \in NotStarted
              \/ (s \in Seqs /\ kind[s] = "revoked" /\ (\E m \in Pending : Covers(m, s)) /\ \A n \in Pending' : ~Covers(n, s)),
           \A s \in Seqs : kind[s] = "revoked" /\ inc[<<s, 1>>].st = "none" =>
              inc'[<<s, 1>>].st = "none" \/ (s \in NotStarted /\ s \notin NotStarted')
    PROVE  RevokedOnce'
  <1>1. \A s \in NotStarted : s \in Seqs /\ kind[s] = "revoked"
    BY RevokedTypes DEF IInv, WorkersKnown, NotStarted
  <1>2. ASSUME NEW s \in NotStarted' PROVE inc'[<<s, 1>>].st = "none" /\ \A m \in Pending' : ~Covers(m, s)
    BY <1>1 DEF RevokedOnce
  <1>3. ASSUME NEW m \in Pending', NEW s \in Seqs, Covers(m, s), kind'[s] = "revoked" PROVE inc'[<<s, 1>>].st = "none"
    BY <1>3 DEF RevokedOnce
  <1>4. QED BY <1>2, <1>3 DEF RevokedOnce

LEMMA PendingStays ==
    ASSUME finder'.waiting = finder.waiting, FinderSame(finderBox, finderBox')
    PROVE  Pending' = Pending
  BY DEF Pending, FinderSame, SameLists

LEMMA RevokedSame ==
    ASSUME IInv, RevokedOnce, kind' = kind, finder'.waiting = finder.waiting, FinderSame(finderBox, finderBox'),
           waiting'.revoked = waiting.revoked, BoxApart(pullerBox, pullerBox'), OnlyRevsStart
    PROVE  RevokedOnce'
  <1>1. Pending' = Pending BY PendingStays
  <1>2. Apart(pullerBox') /\ RevokedSeqs(pullerBox') \subseteq RevokedSeqs(pullerBox) /\ Once(waiting'.revoked)
    BY DEF RevokedOnce, BoxApart
  <1>3. RevokedSeqs(pullerBox') \cap Elements(waiting'.revoked) = {} /\ \A s \in NotStarted' : s \in NotStarted
    BY <1>2 DEF RevokedOnce, NotStarted
  <1>4. QED BY <1>1, <1>2, <1>3, NotStartedMoves, Zenon DEF OnlyRevsStart

LEMMA SameBoxes ==
    ASSUME IInv
    PROVE  /\ BoxApart(pullerBox, pullerBox) /\ FinderSame(finderBox, finderBox)
           /\ pullerBox \in Seq(PullerMail) /\ finderBox \in Seq(FinderMail) /\ inc \in [Ids -> IncType]
           /\ waiting \in [revs : Seq(RevMail), revoked : Seq(Seqs)]
           /\ \A s \in Seqs : <<s, 1>> \in Ids
           /\ OnePlace /\ WorkersKnown /\ ListsKnown /\ Typed
  <1>1. Typed /\ OnePlace /\ WorkersKnown /\ ListsKnown BY DEF IInv
  <1>2. pullerBox \in Seq(PullerMail) /\ finderBox \in Seq(FinderMail) /\ inc \in [Ids -> IncType]
        /\ waiting \in [revs : Seq(RevMail), revoked : Seq(Seqs)]
    BY <1>1 DEF Typed, IncType
  <1>3. \A s \in Seqs : <<s, 1>> \in Ids BY DEF Ids
  <1>4. QED BY <1>1, <1>2, <1>3, FinderSameItself DEF BoxApart

(* What an IncomingRev does when it is handed a revision, or has one.      *)
LEMMA BoxAfter ==
    ASSUME NEW box \in Seq(PullerMail), NEW id,
           \/ pullerBox' = box
           \/ RevWasHandled(id, box)
    PROVE  BoxApart(box, pullerBox')
  <1>1. [t |-> "revsFinished"] \in PullerMail /\ [t |-> "revsFinished"].t # "documentsRevoked"
    BY DEF PullerMail, PlainMail
  <1>2. BoxApart(box, Append(box, [t |-> "revsFinished"])) /\ BoxApart(box, box)
    BY <1>1, OtherAppended DEF BoxApart
  <1>3. pullerBox' = box \/ pullerBox' = Append(box, [t |-> "revsFinished"])
    BY DEF RevWasHandled
  <1>4. QED BY <1>2, <1>3

LEMMA OnlyOne ==
    ASSUME IInv, NEW id \in Ids, NEW x, inc' = [inc EXCEPT ![id] = x], inc[id].st # "none" \/ ~Revoked(id)
    PROVE  OnlyRevsStart
  <1>1. SUFFICES ASSUME NEW s \in Seqs, kind[s] = "revoked", inc[<<s, 1>>].st = "none" PROVE inc'[<<s, 1>>] = inc[<<s, 1>>]
    BY DEF OnlyRevsStart
  <1>2. <<s, 1>> # id BY <1>1 DEF Revoked
  <1>3. QED BY <1>2, SameBoxes

LEMMA PeerRevokesOnce ==
    ASSUME IInv, RevokedOnce, \/ \E id \in Ids : SendNoRev(id) \/ \E form \in AllForms : SendRev(id, form)
                              \/ Close \/ OnClose \/ Reply
    PROVE  RevokedOnce'
  <1>1. kind' = kind /\ finder' = finder /\ finderBox' = finderBox /\ waiting' = waiting /\ inc' = inc
    BY DEF SendNoRev, SendRev, Close, OnClose, Reply, peer, puller, workers
  <1>2. BoxApart(pullerBox, pullerBox')
    <2>1. ASSUME NEW id \in Ids, SendNoRev(id) PROVE BoxApart(pullerBox, pullerBox')
      <3>1. PICK m : m = [t |-> "norev", id |-> id] OBVIOUS
      <3>2. m \in PullerMail /\ m.t # "documentsRevoked"
        BY <3>1 DEF PullerMail
      <3>3. QED BY <2>1, <3>1, <3>2, OtherAppended, SameBoxes DEF SendNoRev
    <2>2. ASSUME NEW id \in Ids, NEW form \in AllForms, SendRev(id, form) PROVE BoxApart(pullerBox, pullerBox')
      <3>1. PICK m : m = [t |-> "rev", id |-> id, form |-> form] OBVIOUS
      <3>2. m \in PullerMail /\ m.t # "documentsRevoked"
        BY <3>1 DEF PullerMail, RevMail
      <3>3. QED BY <2>2, <3>1, <3>2, OtherAppended, SameBoxes DEF SendRev
    <2>3. CASE Close BY <2>3, SameBoxes DEF Close, puller
    <2>4. CASE OnClose \/ Reply
      <3>1. PICK m \in PlainMail : pullerBox' = Append(pullerBox, m)
        BY <2>4 DEF OnClose, Reply, PlainMail
      <3>2. m \in PullerMail /\ m.t # "documentsRevoked"
        BY <3>1 DEF PullerMail, PlainMail
      <3>3. QED BY <3>1, <3>2, OtherAppended, SameBoxes
    <2>5. QED BY <2>1, <2>2, <2>3, <2>4
  <1>3. QED BY <1>1, <1>2, SameBoxes, RevokedSame DEF OnlyRevsStart

LEMMA ReceivedRevokesOnce ==
    ASSUME IInv, RevokedOnce, RevReceived
    PROVE  RevokedOnce'
  <1>1. /\ finderBox # << >> /\ Head(finderBox).t # "changes" /\ finderBox' = Tail(finderBox)
        /\ kind' = kind /\ waiting' = waiting /\ inc' = inc /\ pullerBox' = pullerBox
    BY DEF RevReceived, peer, puller, workers
  <1>2. FinderSame(finderBox, finderBox') BY <1>1, FinderTaken, SameBoxes
  <1>3. finder'.waiting = finder.waiting
    <2>1. PICK m : m = Head(finderBox) OBVIOUS
    <2>2. m \in FinderMail /\ m.t # "changes"
      BY <1>1, <2>1, BoxTail, SameBoxes
    <2>3. m.t \in {"reRequestingRev", "revReceived", "revokedHandled"}
      BY <2>2 DEF FinderMail, ChangesMail
    <2>4. finder \in FinderType BY SameBoxes DEF Typed, FinderType
    <2>5. CASE m.t = "reRequestingRev"
      <3>1. finder' = [finder EXCEPT !.requested = finder.requested + 1]
        BY <2>1, <2>5 DEF RevReceived
      <3>2. QED BY <2>4, <3>1 DEF FinderType
    <2>6. CASE m.t = "revReceived"
      <3>1. finder' = [finder EXCEPT !.requested = finder.requested - 1, !.draining = TRUE]
        BY <2>1, <2>6 DEF RevReceived
      <3>2. QED BY <2>4, <3>1, FinderUpdates
    <2>7. CASE m.t = "revokedHandled"
      <3>1. finder' = [finder EXCEPT !.revoked = finder.revoked - m.n, !.draining = TRUE]
        BY <2>1, <2>7 DEF RevReceived
      <3>2. QED BY <2>4, <3>1, FinderUpdates
    <2>8. QED BY <2>3, <2>5, <2>6, <2>7
  <1>4. QED BY <1>1, <1>2, <1>3, SameBoxes, RevokedSame DEF OnlyRevsStart

LEMMA WorkersRevokeOnce ==
    ASSUME IInv, RevokedOnce, WorkerNext
    PROVE  RevokedOnce'
  <1> USE DEF Become
  <1>1. kind' = kind /\ finder' = finder /\ finderBox' = finderBox /\ waiting' = waiting
    BY DEF WorkerNext, ParseAndInsert, DeltaFails, Return, InsertRevisionsNow, InsertOne, InsertFails, Commit, peer, puller
  <1>2. SUFFICES BoxApart(pullerBox, pullerBox') /\ OnlyRevsStart
    BY <1>1, SameBoxes, RevokedSame
  <1>3. [t |-> "revReRequested"] \in PullerMail /\ [t |-> "provisionallyHandled"] \in PullerMail
    BY DEF PullerMail, PlainMail
  <1>4. /\ BoxApart(pullerBox, Append(pullerBox, [t |-> "revReRequested"]))
        /\ BoxApart(pullerBox, Append(pullerBox, [t |-> "provisionallyHandled"]))
    BY <1>3, OtherAppended, SameBoxes
  <1>5. ASSUME NEW id \in Ids, ParseAndInsert(id) PROVE BoxApart(pullerBox, pullerBox') /\ OnlyRevsStart
    <2>1. BoxApart(pullerBox, pullerBox')
      BY <1>5, BoxAfter, SameBoxes DEF ParseAndInsert, InsertRevision, FailWithError
    <2>2. PICK x : inc' = [inc EXCEPT ![id] = x]
      BY <1>5 DEF ParseAndInsert, InsertRevision, FailWithError
    <2>3. QED BY <1>5, <2>1, <2>2, OnlyOne DEF ParseAndInsert
  <1>6. ASSUME NEW id \in Ids, DeltaFails(id) PROVE BoxApart(pullerBox, pullerBox') /\ OnlyRevsStart
    <2>1. PICK x : inc' = [inc EXCEPT ![id] = x] BY <1>6 DEF DeltaFails
    <2>2. QED BY <1>4, <1>6, <2>1, OnlyOne DEF DeltaFails, ReRequest
  <1>7. ASSUME NEW id \in Ids, Return(id) PROVE BoxApart(pullerBox, pullerBox') /\ OnlyRevsStart
    <2>1. PICK x : inc' = [inc EXCEPT ![id] = x] BY <1>7 DEF Return
    <2>2. BoxApart(pullerBox, pullerBox')
      BY <1>7, BoxAfter, SameBoxes DEF Return
    <2>3. QED BY <1>7, <2>1, <2>2, OnlyOne DEF Return
  <1>8. CASE InsertRevisionsNow
    BY <1>8, SameBoxes DEF InsertRevisionsNow, puller, OnlyRevsStart
  <1>9. CASE InsertOne
    <2>1. PICK id : id = Head(batch) OBVIOUS
    <2>2. batch # << >> /\ inc' = [inc EXCEPT ![id].st = "inserted", ![id].prov = TRUE]
      BY <1>9, <2>1 DEF InsertOne
    <2>3. id \in Ids /\ inc[id].st = "queued" BY <2>1, <2>2, FirstOfBatch
    <2>4. pullerBox' = pullerBox \/ pullerBox' = Append(pullerBox, [t |-> "provisionallyHandled"])
      BY <1>9 DEF InsertOne
    <2>5. ASSUME NEW s \in Seqs, inc[<<s, 1>>].st = "none" PROVE inc'[<<s, 1>>].st = "none"
      <3>1. <<s, 1>> # id /\ <<s, 1>> \in Ids BY <2>3, <2>5, SameBoxes
      <3>2. PICK g : g = [inc EXCEPT ![id].st = "inserted"] OBVIOUS
      <3>3. g \in [Ids -> IncType] /\ g[<<s, 1>>] = inc[<<s, 1>>]
        BY <2>3, <3>1, <3>2, SameBoxes DEF IncType, Statuses
      <3>4. inc' = [g EXCEPT ![id].prov = TRUE] BY <2>2, <3>2, Zenon
      <3>5. inc'[<<s, 1>>] = g[<<s, 1>>] BY <3>1, <3>3, <3>4
      <3>6. QED BY <2>5, <3>3, <3>5
    <2>6. QED BY <1>4, <2>4, <2>5, SameBoxes DEF OnlyRevsStart
  <1>10. CASE InsertFails
    <2>1. PICK id : id = Head(batch) OBVIOUS
    <2>2. batch # << >> BY <1>10 DEF InsertFails
    <2>3. id \in Ids /\ inc[id].st # "none" BY <2>1, <2>2, FirstOfBatch
    <2>4. PICK x : inc' = [inc EXCEPT ![id] = x]
      BY <1>10, <2>1 DEF InsertFails
    <2>5. pullerBox' = pullerBox \/ pullerBox' = Append(pullerBox, [t |-> "revReRequested"])
      BY <1>10 DEF InsertFails, ReRequest
    <2>6. QED BY <1>4, <2>3, <2>4, <2>5, OnlyOne, SameBoxes
  <1>11. ASSUME NEW ok \in BOOLEAN, Commit(ok) PROVE BoxApart(pullerBox, pullerBox') /\ OnlyRevsStart
    <2>1. /\ pullerBox' = pullerBox
          /\ inc' = [id \in Ids |-> IF id \in Elements(inserted) THEN [inc[id] EXCEPT !.st = "finishing"] ELSE inc[id]]
      BY <1>11 DEF Commit, puller
    <2>2. \A id \in Elements(inserted) : inc[id].st = "inserted"
      BY SameBoxes DEF WorkersKnown, AreAll
    <2>3. QED BY <2>1, <2>2, SameBoxes DEF OnlyRevsStart
  <1>12. QED BY <1>5, <1>6, <1>7, <1>8, <1>9, <1>10, <1>11 DEF WorkerNext

LEMMA MessagesRevokeOnce ==
    ASSUME IInv, RevokedOnce,
           \/ ExpectSequences \/ HandleNoRev \/ RevReRequested
           \/ RevsWereProvisionallyHandled \/ RevsFinished \/ SubChangesReply \/ SetCaughtUp \/ ConnectionClosed
    PROVE  RevokedOnce'
  <1>1. /\ kind' = kind /\ finder' = finder /\ waiting' = waiting
        /\ pullerBox # << >> /\ pullerBox' = Tail(pullerBox)
    BY DEF ExpectSequences, HandleNoRev, RevReRequested, RevsWereProvisionallyHandled, RevsFinished, SubChangesReply, SetCaughtUp,
           ConnectionClosed, peer, Receive
  <1>2. BoxApart(pullerBox, pullerBox') BY <1>1, OtherTaken, SameBoxes
  <1>3. FinderSame(finderBox, finderBox')
    <2>1. \/ finderBox' = finderBox
          \/ \E m \in FinderMail : m.t # "changes" /\ finderBox' = Append(finderBox, m)
      <3>1. CASE ExpectSequences \/ RevsWereProvisionallyHandled \/ SubChangesReply \/ SetCaughtUp \/ ConnectionClosed
        BY <3>1 DEF ExpectSequences, RevsWereProvisionallyHandled, SubChangesReply, SetCaughtUp, ConnectionClosed
      <3>2. CASE HandleNoRev
        <4>1. PICK m : m = [t |-> "revReceived"] OBVIOUS
        <4>2. m \in FinderMail /\ m.t # "changes" BY <4>1 DEF FinderMail
        <4>3. QED BY <3>2, <4>1, <4>2 DEF HandleNoRev
      <3>3. CASE RevReRequested
        <4>1. PICK m : m = [t |-> "reRequestingRev"] OBVIOUS
        <4>2. m \in FinderMail /\ m.t # "changes" BY <4>1 DEF FinderMail
        <4>3. QED BY <3>3, <4>1, <4>2 DEF RevReRequested
      <3>4. CASE RevsFinished
        <4>1. PICK S : S = {id \in returning : Revoked(id)} OBVIOUS
        <4>2. finderBox' = finderBox \/ finderBox' = Append(finderBox, [t |-> "revokedHandled", n |-> Cardinality(S)])
          BY <3>4, <4>1 DEF RevsFinished
        <4>3. S \in SUBSET Ids BY <4>1, SameBoxes DEF Typed
        <4>4. PICK m : m = [t |-> "revokedHandled", n |-> Cardinality(S)]
          OBVIOUS
        <4>5. Cardinality(S) \in Nat BY <4>3, Finite
        <4>6. m \in FinderMail /\ m.t # "changes"
          BY <4>4, <4>5 DEF FinderMail
        <4>7. QED BY <4>2, <4>4, <4>6
      <3>5. QED BY <3>1, <3>2, <3>3, <3>4
    <2>2. QED BY <2>1, FinderAppended, SameBoxes
  <1>4. OnlyRevsStart
    <2>1. CASE inc' = inc BY <2>1 DEF OnlyRevsStart
    <2>2. CASE RevsFinished
      <3>1. inc' = [id \in Ids |-> IF id \in returning THEN NoInc ELSE inc[id]]
        BY <2>2 DEF RevsFinished
      <3>2. QED BY <3>1, SameBoxes DEF OnlyRevsStart, NoInc
    <2>3. QED BY <2>1, <2>2 DEF ExpectSequences, HandleNoRev, RevReRequested, RevsWereProvisionallyHandled, SubChangesReply, SetCaughtUp,
                             ConnectionClosed, workers
  <1>5. QED BY <1>1, <1>2, <1>3, <1>4, RevokedSame

LEMMA StartRevRevokesOnce ==
    ASSUME IInv, RevokedOnce, NEW m \in RevMail, m.id \in WantedIds, NEW box \in Seq(PullerMail), BoxApart(pullerBox, box),
           StartIncomingRev(m, box), kind' = kind, finder' = finder, waiting'.revoked = waiting.revoked
    PROVE  RevokedOnce'
  <1>1. FinderSame(finderBox, finderBox')
    <2>1. PICK x : x = [t |-> "revReceived"] OBVIOUS
    <2>2. x \in FinderMail /\ x.t # "changes" BY <2>1 DEF FinderMail
    <2>3. QED BY <2>1, <2>2, FinderAppended, SameBoxes DEF StartIncomingRev
  <1>2. m.id \in Ids /\ ~Revoked(m.id) BY DEF WantedIds, Revoked
  <1>3. BoxApart(box, pullerBox') /\ OnlyRevsStart
    <2>1. CASE HandleRevMessage(m, box)
      <3>1. PICK id : id = m.id OBVIOUS
      <3>2. BoxApart(box, pullerBox')
        BY <2>1, <3>1, BoxAfter DEF HandleRevMessage, InsertRevision, FailWithError
      <3>3. PICK x : inc' = [inc EXCEPT ![m.id] = x]
        BY <2>1 DEF HandleRevMessage, InsertRevision, FailWithError, Become
      <3>4. QED BY <1>2, <3>2, <3>3, OnlyOne
    <2>2. CASE pullerBox' = box /\ inc' = inc
      BY <2>2 DEF BoxApart, OnlyRevsStart
    <2>3. QED BY <2>1, <2>2 DEF StartIncomingRev, workers
  <1>4. BoxApart(pullerBox, pullerBox') BY <1>3 DEF BoxApart
  <1>5. QED BY <1>1, <1>3, <1>4, RevokedSame

LEMMA RevsRevokeOnce ==
    ASSUME IInv, RevokedOnce, HandleRev \/ StartWaitingRev
    PROVE  RevokedOnce'
  <1>1. CASE HandleRev
    <2>1. PICK m : m = Head(pullerBox) OBVIOUS
    <2>2. PICK box : box = Tail(pullerBox) OBVIOUS
    <2>3. pullerBox # << >> /\ m.t = "rev" /\ kind' = kind /\ finder' = finder
      BY <1>1, <2>1 DEF HandleRev, Receive, peer
    <2>4. box \in Seq(PullerMail) /\ BoxApart(pullerBox, box)
      BY <2>2, <2>3, OtherTaken, SameBoxes
    <2>5. m \in RevMail /\ m.id \in WantedIds
      <3>1. m \in PullerMail /\ RevIdOf(m) \subseteq RevIds(pullerBox)
        BY <2>1, <2>3, BoxTail, SameBoxes
      <3>2. m \in RevMail BY <2>3, <3>1, MailKinds
      <3>3. m.id \in Coming BY <3>1, <3>2, MailKinds DEF RevIdOf, Coming
      <3>4. QED BY <3>2, <3>3, SameBoxes DEF OnePlace
    <2>6. CASE RoomForRev
      <3>1. StartIncomingRev(m, box) /\ waiting' = waiting
        BY <1>1, <2>1, <2>2, <2>6 DEF HandleRev
      <3>2. QED BY <2>3, <2>4, <2>5, <3>1, StartRevRevokesOnce
    <2>7. CASE ~RoomForRev
      <3>1. /\ waiting' = [waiting EXCEPT !.revs = Append(waiting.revs, m)] /\ pullerBox' = box /\ finderBox' = finderBox
            /\ inc' = inc
        BY <1>1, <2>1, <2>2, <2>7 DEF HandleRev, workers
      <3>2. waiting'.revoked = waiting.revoked BY <3>1, SameBoxes
      <3>3. QED BY <2>3, <2>4, <3>1, <3>2, SameBoxes, RevokedSame DEF OnlyRevsStart
    <2>8. QED BY <2>6, <2>7
  <1>2. CASE StartWaitingRev
    <2>1. PICK q : q = waiting.revs OBVIOUS
    <2>2. PICK m : m = Head(q) OBVIOUS
    <2>3. /\ q # << >> /\ waiting' = [waiting EXCEPT !.revs = Tail(q)] /\ StartIncomingRev(m, pullerBox)
          /\ kind' = kind /\ finder' = finder
      BY <1>2, <2>1, <2>2 DEF StartWaitingRev, peer
    <2>4. q \in Seq(RevMail) /\ waiting'.revoked = waiting.revoked
      BY <2>1, <2>3, SameBoxes
    <2>5. m \in RevMail /\ RevIdOf(m) \subseteq RevIds(q)
      BY <2>2, <2>3, <2>4, BoxTail
    <2>6. m.id \in Coming BY <2>1, <2>5, MailKinds DEF RevIdOf, Coming
    <2>7. m.id \in WantedIds BY <2>6, SameBoxes DEF OnePlace
    <2>8. QED BY <2>3, <2>4, <2>5, <2>7, SameBoxes, StartRevRevokesOnce
  <1>3. QED BY <1>1, <1>2

(* The document that is started, or waits, is in no message any more.      *)
LEMMA StartRevokedRevokesOnce ==
    ASSUME IInv, RevokedOnce, NEW s \in NotStarted, NEW box \in Seq(PullerMail), StartRevoked(s, box), kind' = kind,
           finder' = finder, Apart(box), RevokedSeqs(box) \subseteq RevokedSeqs(pullerBox), s \notin RevokedSeqs(box),
           Once(waiting'.revoked), Elements(waiting'.revoked) \subseteq Elements(waiting.revoked),
           s \notin Elements(waiting'.revoked)
    PROVE  RevokedOnce'
  <1>1. s \in Seqs BY RevokedTypes, SameBoxes DEF NotStarted
  <1>2. Pending' = Pending BY PendingStays, SameBoxes DEF StartRevoked
  <1>3. PICK id \in Ids : id = <<s, 1>> BY <1>1 DEF Ids
  <1>4. BoxApart(box, pullerBox') /\ \A t \in Seqs : t # s => inc'[<<t, 1>>] = inc[<<t, 1>>]
    <2>1. CASE HandleRevokedDoc(id, box)
      <3>1. BoxApart(box, pullerBox')
        BY <2>1, BoxAfter DEF HandleRevokedDoc, InsertRevision, FailWithError
      <3>2. PICK x : inc' = [inc EXCEPT ![id] = x]
        BY <2>1 DEF HandleRevokedDoc, InsertRevision, FailWithError, Become
      <3>3. \A t \in Seqs : t # s => inc'[<<t, 1>>] = inc[<<t, 1>>]
        BY <1>3, <3>2, SameBoxes
      <3>4. QED BY <3>1, <3>3
    <2>2. CASE pullerBox' = box /\ inc' = inc BY <2>2 DEF BoxApart
    <2>3. QED BY <1>3, <2>1, <2>2 DEF StartRevoked, workers
  <1>5. Apart(pullerBox') /\ RevokedSeqs(pullerBox') \subseteq RevokedSeqs(box)
    BY <1>4 DEF BoxApart
  <1>6. RevokedSeqs(pullerBox') \cap Elements(waiting'.revoked) = {} /\ s \notin NotStarted' /\ \A t \in NotStarted' : t \in NotStarted
    BY <1>5 DEF RevokedOnce, NotStarted
  <1>7. \A t \in Seqs : kind[t] = "revoked" /\ inc[<<t, 1>>].st = "none" =>
              inc'[<<t, 1>>].st = "none" \/ (t \in NotStarted /\ t \notin NotStarted')
    BY <1>4, <1>6
  <1>8. QED BY <1>2, <1>5, <1>6, <1>7, NotStartedMoves, Zenon

LEMMA WaitingRevokedOnce ==
    ASSUME IInv, RevokedOnce, StartWaitingRevoked, waiting.revoked # << >>
    PROVE  RevokedOnce'
  <1>1. PICK q : q = waiting.revoked OBVIOUS
  <1>2. PICK s : s = Head(q) OBVIOUS
  <1>3. PICK r : r = Tail(q) OBVIOUS
  <1>4. /\ q # << >> /\ waiting' = [waiting EXCEPT !.revoked = r] /\ StartRevoked(s, pullerBox)
        /\ kind' = kind /\ finder' = finder
    BY <1>1, <1>2, <1>3 DEF StartWaitingRevoked, peer
  <1>5. q \in Seq(Seqs) /\ Once(q) BY <1>1, ComingApart DEF RevokedOnce
  <1>6. s \in Elements(q) /\ Elements(q) = {s} \cup Elements(r) /\ Once(r) /\ s \notin Elements(r)
    BY <1>2, <1>3, <1>4, <1>5, TailElements, OnceTail
  <1>7. waiting'.revoked = r BY <1>4, SameBoxes
  <1>8. s \in NotStarted /\ s \notin RevokedSeqs(pullerBox) /\ Apart(pullerBox)
    BY <1>1, <1>6 DEF NotStarted, RevokedOnce
  <1>9. QED BY <1>1, <1>4, <1>6, <1>7, <1>8, SameBoxes, StartRevokedRevokesOnce

LEMMA RestIsApart ==
    ASSUME IInv, RevokedOnce, pullerBox # << >>, Head(pullerBox).t = "documentsRevoked", NEW s \in Head(pullerBox).seqs
    PROVE  /\ Apart(RestOf(Head(pullerBox), s, Tail(pullerBox)))
           /\ s \notin RevokedSeqs(RestOf(Head(pullerBox), s, Tail(pullerBox)))
  <1>1. PICK m : m = Head(pullerBox) OBVIOUS
  <1>2. PICK tail : tail = Tail(pullerBox) OBVIOUS
  <1>3. m \in PullerMail /\ tail \in Seq(PullerMail)
    BY <1>1, <1>2, BoxTail, SameBoxes
  <1>4. m \in RevokedMail /\ RevokedOf(m) = m.seqs
    BY <1>1, <1>3, MailKinds DEF RevokedOf
  <1>5. Apart(tail) /\ m.seqs \cap RevokedSeqs(tail) = {}
    BY <1>1, <1>2, <1>4, ApartTail, SameBoxes DEF RevokedOnce
  <1>6. CASE m.seqs = {s}
    <2>1. RestOf(m, s, tail) = tail BY <1>6 DEF RestOf
    <2>2. QED BY <1>1, <1>2, <1>5, <2>1
  <1>7. CASE m.seqs # {s}
    <2>1. PICK x : x = [m EXCEPT !.seqs = m.seqs \ {s}] OBVIOUS
    <2>2. m.seqs \ {s} \in (SUBSET Seqs) \ {{}}
      BY <1>1, <1>4, <1>7, MailKinds
    <2>3. x \in RevokedMail /\ x.seqs = m.seqs \ {s}
      BY <1>4, <2>1, <2>2 DEF RevokedMail
    <2>4. x \in PullerMail /\ ~IsRev(x) /\ ~IsList(x) /\ RevokedOf(x) = m.seqs \ {s}
      BY <2>3, MailKinds DEF RevokedOf
    <2>5. PICK q : q = <<x>> \o tail OBVIOUS
    <2>6. RevokedSeqs(q) = RevokedSeqs(tail) \cup RevokedOf(x)
      BY <1>3, <2>4, <2>5, Prepended
    <2>7. RevokedOf(x) \cap RevokedSeqs(tail) = {} /\ s \notin RevokedSeqs(q)
      BY <1>1, <1>5, <2>4, <2>6
    <2>8. Apart(q) BY <1>3, <1>5, <2>4, <2>5, <2>7, ApartPrepended
    <2>9. RestOf(m, s, tail) = q BY <1>7, <2>1, <2>5 DEF RestOf
    <2>10. QED BY <1>1, <1>2, <2>7, <2>8, <2>9
  <1>8. QED BY <1>6, <1>7

LEMMA DocumentsRevokedOnce ==
    ASSUME IInv, RevokedOnce, DocumentsRevoked
    PROVE  RevokedOnce'
  <1>1. PICK m : m = Head(pullerBox) OBVIOUS
  <1>2. PICK s, rest : RevokedTaken(s, rest) BY RevokedTakes
  <1>3. rest = RestOf(m, s, Tail(pullerBox)) /\ s \in m.seqs
    BY <1>1, <1>2 DEF RevokedTaken
  <1>4. /\ pullerBox # << >> /\ m.t = "documentsRevoked" /\ kind' = kind /\ finder' = finder
        /\ IF RoomForRevoked
           THEN StartRevoked(s, rest) /\ waiting' = waiting
           ELSE /\ waiting' = [waiting EXCEPT !.revoked = Append(waiting.revoked, s)]
                /\ pullerBox' = rest /\ finderBox' = finderBox /\ inc' = inc
    BY <1>1, <1>2 DEF RevokedTaken, peer, workers
  <1>6. rest \in Seq(PullerMail) /\ RevokedSeqs(rest) \subseteq RevokedSeqs(pullerBox) /\ s \in Seqs /\ s \in RevokedSeqs(pullerBox)
    BY <1>1, <1>3, <1>4, RestIs
  <1>7. Apart(rest) /\ s \notin RevokedSeqs(rest)
    BY <1>1, <1>3, <1>4, RestIsApart
  <1>8. s \in NotStarted /\ s \notin Elements(waiting.revoked) /\ Once(waiting.revoked)
    BY <1>6 DEF NotStarted, RevokedOnce
  <1>9. CASE RoomForRevoked
    BY <1>4, <1>6, <1>7, <1>8, <1>9, StartRevokedRevokesOnce
  <1>10. CASE ~RoomForRevoked
    <2>1. PICK q \in Seq(Seqs) : q = waiting.revoked BY ComingApart
    <2>2. waiting'.revoked = Append(q, s) BY <1>4, <1>10, <2>1, SameBoxes
    <2>3. Elements(Append(q, s)) = Elements(q) \cup {s} /\ Once(Append(q, s))
      BY <1>6, <1>8, <2>1, AppendElements, OnceAppended
    <2>4. Elements(waiting'.revoked) = Elements(waiting.revoked) \cup {s} /\ Once(waiting'.revoked)
      BY <2>1, <2>2, <2>3
    <2>5. pullerBox' = rest /\ inc' = inc /\ Pending' = Pending
      BY <1>4, <1>10, SameBoxes, PendingStays
    <2>6. RevokedSeqs(pullerBox') \cap Elements(waiting'.revoked) = {} /\ \A t \in NotStarted' : t \in NotStarted
      BY <1>6, <1>7, <1>8, <2>4, <2>5 DEF RevokedOnce, NotStarted
    <2>7. QED BY <1>4, <1>7, <2>4, <2>5, <2>6, NotStartedMoves, Zenon
  <1>11. QED BY <1>9, <1>10

LEMMA ArrivalRevokesOnce ==
    ASSUME IInv, RevokedOnce, Arrival
    PROVE  RevokedOnce'
  <1>1. /\ UNCHANGED <<pullerBox, waiting, inc>> /\ announced \in Nat
        /\ \A s \in Seqs : s <= announced => kind'[s] = kind[s]
        /\ \A p \in Pending' : p \in Pending \/ IsNew(p)
    BY SameBoxes DEF Arrival, Typed
  <1>2. \A s \in NotStarted : s \in Seqs /\ s <= announced
    BY RevokedTypes, SameBoxes DEF NotStarted, WorkersKnown, ListsKnown
  <1>3. ASSUME NEW p \in Pending', NEW s \in Seqs, Covers(p, s), announced < s PROVE inc[<<s, 1>>].st = "none"
    <2>1. ~(s <= announced) /\ <<s, 1>> \in Ids
      BY <1>1, <1>3, Numbers, SameBoxes
    <2>2. QED BY <2>1, SameBoxes DEF OnePlace
  <1>4. ASSUME NEW p, IsNew(p), NEW s \in Seqs, Covers(p, s) PROVE announced < s
    BY <1>1, <1>4, Numbers DEF IsNew, Covers
  <1>5. ASSUME NEW s \in NotStarted, NEW p \in Pending' PROVE ~Covers(p, s)
    <2>1. ~(announced < s) BY <1>1, <1>2, Numbers
    <2>2. QED BY <1>1, <1>2, <1>4, <2>1 DEF RevokedOnce
  <1>6. ASSUME NEW p \in Pending', NEW s \in Seqs, Covers(p, s), kind'[s] = "revoked" PROVE inc[<<s, 1>>].st = "none"
    <2>1. s <= announced \/ announced < s
      BY <1>1, Numbers
    <2>2. CASE s <= announced
      <3>1. p \in Pending BY <1>1, <1>4, <1>6, <2>2, Numbers
      <3>2. QED BY <1>1, <1>6, <2>2, <3>1 DEF RevokedOnce
    <2>3. QED BY <1>3, <1>6, <2>1, <2>2
  <1>7. QED BY <1>1, <1>5, <1>6 DEF RevokedOnce, NotStarted

LEMMA HandledRevokesOnce ==
    ASSUME IInv, RevokedOnce, NEW m, NEW others, TakesFirst(m, others), HandleChangesNow(m, others)
    PROVE  RevokedOnce'
  <1>1. /\ kind' = kind /\ waiting' = waiting /\ inc' = inc
        /\ ListIsEmpty(m, others) \/ ListIsPassedOn(m, others) \/ ListIsLost(m, others)
    BY ListIsHandled
  <1>2. m \in Pending /\ m.first \in Nat /\ m.last \in Nat /\ others \in FinderType
    BY MailKinds DEF TakesFirst
  <1>3. 1 <= m.first /\ m.last <= N BY <1>2, SameBoxes DEF ListsKnown
  <1>4. Pending' = After(others)
    <2>1. finder'.waiting = others.waiting
      <3>1. CASE ListIsEmpty(m, others) BY <3>1 DEF ListIsEmpty
      <3>2. CASE ListIsPassedOn(m, others)
        BY <1>2, <3>2, FinderUpdates DEF ListIsPassedOn, FinderType
      <3>3. CASE ListIsLost(m, others)
        BY <1>2, <3>3 DEF ListIsLost, FinderType
      <3>4. QED BY <1>1, <3>1, <3>2, <3>3
    <2>2. QED BY <2>1 DEF Pending, After
  <1>5. RevokedOnes(m) \subseteq Seqs /\ \A s \in RevokedOnes(m) : kind[s] = "revoked" /\ Covers(m, s) /\ s \in Nat
    BY <1>2, <1>3, Numbers DEF RevokedOnes, Covers
  <1>6. ASSUME NEW s \in RevokedOnes(m), NEW n \in Pending' PROVE ~Covers(n, s)
    <2>1. n.first \in Nat /\ n.last \in Nat /\ m.last < n.first
      BY <1>4, MailTypes, SameBoxes DEF TakesFirst
    <2>2. QED BY <1>2, <1>5, <2>1 DEF Covers
  <1>7. RevokedOnes(m) \cap NotStarted = {} BY <1>2, <1>5 DEF RevokedOnce
  <1>8. PICK box : box = pullerBox \o RevokedFirst(m) OBVIOUS
  <1>9. box \in Seq(PullerMail) /\ Apart(box) /\ RevokedSeqs(box) \subseteq RevokedSeqs(pullerBox) \cup RevokedOnes(m)
    <2>1. PICK q \in Seq(PullerMail) : q = pullerBox BY SameBoxes
    <2>2. Apart(q) BY <2>1 DEF RevokedOnce
    <2>3. CASE RevokedOnes(m) = {}
      <3>1. box = q BY <1>8, <2>1, <2>3 DEF RevokedFirst
      <3>2. QED BY <2>1, <2>2, <3>1
    <2>4. CASE RevokedOnes(m) # {}
      <3>1. PICK x : x = RevokedMessage(m) OBVIOUS
      <3>2. x \in RevokedMail /\ x.seqs = RevokedOnes(m) /\ x.t = "documentsRevoked"
        BY <1>5, <2>4, <3>1 DEF RevokedMail, RevokedMessage
      <3>3. x \in PullerMail /\ RevokedOf(x) = RevokedOnes(m)
        BY <3>2 DEF PullerMail, RevokedOf
      <3>4. box = Append(q, x)
        BY <1>8, <2>1, <2>4, <3>1, <3>3, Single DEF RevokedFirst
      <3>5. RevokedSeqs(q) \subseteq NotStarted BY <2>1 DEF NotStarted
      <3>6. RevokedOf(x) \cap RevokedSeqs(q) = {} BY <1>7, <3>3, <3>5
      <3>7. Apart(Append(q, x)) /\ Append(q, x) \in Seq(PullerMail)
        BY <2>2, <3>3, <3>6, ApartAppended, AppendElements
      <3>8. RevokedSeqs(Append(q, x)) = RevokedSeqs(q) \cup RevokedOf(x)
        BY <3>3, BoxAppended
      <3>9. QED BY <2>1, <3>3, <3>4, <3>7, <3>8
    <2>5. QED BY <2>3, <2>4
  <1>10. Apart(pullerBox') /\ RevokedSeqs(pullerBox') \subseteq RevokedSeqs(pullerBox) \cup RevokedOnes(m)
    <2>1. CASE ListIsEmpty(m, others)
      <3>1. PICK x : x = [t |-> "caughtUp"] OBVIOUS
      <3>2. x \in PullerMail /\ x.t # "documentsRevoked"
        BY <3>1 DEF PullerMail, PlainMail
      <3>3. QED BY <2>1, <3>1, <3>2, OtherAppended, SameBoxes DEF ListIsEmpty, BoxApart, RevokedOnce
    <2>2. CASE ListIsPassedOn(m, others)
      <3>1. PICK x : x = ExpectMessage(m) OBVIOUS
      <3>2. WantedOnes(m) \in SUBSET Seqs
        BY <1>2, <1>3, Numbers DEF WantedOnes
      <3>3. x \in PullerMail /\ x.t # "documentsRevoked"
        BY <1>2, <3>1, <3>2 DEF ExpectMessage, PullerMail, ExpectMail
      <3>4. pullerBox' = Append(box, x)
        BY <1>8, <1>9, <2>2, <3>1, <3>3, Single DEF ListIsPassedOn
      <3>5. QED BY <1>9, <3>3, <3>4, OtherAppended DEF BoxApart
    <2>3. CASE ListIsLost(m, others) BY <1>8, <1>9, <2>3 DEF ListIsLost
    <2>4. QED BY <1>1, <2>1, <2>2, <2>3
  <1>11. \A p \in Pending' : p \in Pending BY <1>4 DEF TakesFirst
  <1>12. /\ Once(waiting'.revoked) /\ RevokedSeqs(pullerBox') \cap Elements(waiting'.revoked) = {}
         /\ \A s \in NotStarted' : s \in NotStarted \/ s \in RevokedOnes(m)
    BY <1>1, <1>7, <1>10 DEF RevokedOnce, NotStarted
  <1>13. \A s \in NotStarted' :
              s \in NotStarted
              \/ (s \in Seqs /\ kind[s] = "revoked" /\ (\E n \in Pending : Covers(n, s)) /\ \A n \in Pending' : ~Covers(n, s))
    BY <1>2, <1>5, <1>6, <1>12
  <1>14. QED BY <1>1, <1>10, <1>11, <1>12, <1>13, NotStartedMoves, Zenon

LEMMA NoneRevokedYet == Init => RevokedOnce
  BY EmptyBox DEF Init, RevokedOnce, Apart, Once, NotStarted, Pending

LEMMA RevokedStays ==
    ASSUME IInv, Starting, RevokedOnce, [Next]_vars
    PROVE  RevokedOnce'
  <1>1. CASE UNCHANGED vars
    <2>1. kind' = kind /\ finder' = finder /\ finderBox' = finderBox /\ waiting' = waiting /\ inc' = inc /\ pullerBox' = pullerBox
      BY <1>1 DEF vars, peer, puller, workers
    <2>2. QED BY <2>1, SameBoxes, RevokedSame DEF OnlyRevsStart
  <1>2. CASE PeerNext
    BY <1>2, AnnounceArrives, ArrivalRevokesOnce, PeerRevokesOnce DEF PeerNext
  <1>3. CASE HandleChanges \/ RevReceived
    BY <1>3, FirstIsTaken, HandledRevokesOnce, DeferredArrives, ArrivalRevokesOnce, ReceivedRevokesOnce
  <1>4. CASE HandleWaitingChanges
    <2>1. CASE finder.waiting # << >> /\ PullerHasCapacity
      BY <1>4, <2>1, NextIsTaken, HandledRevokesOnce
    <2>2. CASE ~(finder.waiting # << >> /\ PullerHasCapacity)
      <3>1. /\ finder' = [finder EXCEPT !.draining = FALSE] /\ finderBox' = finderBox
            /\ kind' = kind /\ waiting' = waiting /\ inc' = inc /\ pullerBox' = pullerBox
        BY <1>4, <2>2 DEF HandleWaitingChanges, peer, puller, workers
      <3>2. finder'.waiting = finder.waiting BY <3>1, SameBoxes DEF Typed
      <3>3. QED BY <3>1, <3>2, SameBoxes, RevokedSame DEF OnlyRevsStart
    <2>3. QED BY <2>1, <2>2
  <1>5. CASE StartWaitingRevoked
    <2>1. waiting.revoked # << >>
      BY <1>5 DEF Starting, StartWaitingRevoked, CanStart
    <2>2. QED BY <1>5, <2>1, WaitingRevokedOnce
  <1>6. CASE PullerNext
    BY <1>5, <1>6, RevsRevokeOnce, DocumentsRevokedOnce, MessagesRevokeOnce DEF PullerNext
  <1>7. QED BY <1>1, <1>2, <1>3, <1>4, <1>6, WorkersRevokeOnce DEF Next, FinderNext

(* The inductive invariant holds: the lists of changes are in order, a     *)
(* revision is in at most one place, and a revoked document is handled     *)
(* once.                                                                   *)
THEOREM Invariance == Spec => [](IInv /\ Starting /\ RevokedOnce)
  <1>1. Init => IInv /\ Starting /\ RevokedOnce
    BY InitIsSafe, NoneRevokedYet DEF Init, Starting
  <1>2. IInv /\ Starting /\ RevokedOnce /\ [Next]_vars => (IInv /\ Starting /\ RevokedOnce)'
    BY StartingStays, StepIsSafe, RevokedStays
  <1>3. QED BY <1>1, <1>2, PTL DEF Spec

(* RevFinder::handleChanges() and the loop that handles the waiting        *)
(* messages never let a list of changes overtake another one: while one    *)
(* waits there is no room for a new one, whatever the limits.              *)
THEOREM ChangesStayInOrder == Spec => []ChangesInOrder
  <1>1. IInv => ChangesInOrder BY DEF IInv
  <1>2. QED BY <1>1, Invariance, PTL

(* Puller::updateLastSequence(): the checkpoint never passes a revision    *)
(* that may still arrive or be inserted, except one asked for again by an  *)
(* IncomingRev that could not apply its delta; for any number of changes,  *)
(* any limits, and any order of arrivals, failures and commits.            *)
THEOREM CheckpointPassesSettled == Spec => []CheckpointedIsSettled
  <1>1. IInv => CheckpointedIsSettled BY DEF IInv, CheckpointKnown
  <1>2. QED BY <1>1, Invariance, PTL
-----------------------------------------------------------------------------
(***************************************************************************)
(* The numbers of messages.                                                *)
(***************************************************************************)
LEMMA SumsExist ==
    ASSUME NEW S, NEW w \in [S -> Int], NEW q \in Seq(S), NEW b \in Int
    PROVE  SumsOf(b, w, q) # {}
  <1> DEFINE Good(n, g) == g[0] = b /\ \A k \in 1 .. n : g[k] = g[k - 1] + w[q[k]]
             T == {n \in Nat : n <= Len(q) /\ ~\E g \in [0 .. n -> Int] : Good(n, g)}
  <1>1. ASSUME T # {} PROVE FALSE
    <2>1. PICK d \in T : \A e \in T : d <= e BY <1>1, LeastNatural
    <2>2. d # 0
      <3>1. [k \in 0 .. 0 |-> b] \in [0 .. 0 -> Int] OBVIOUS
      <3>2. Good(0, [k \in 0 .. 0 |-> b]) OBVIOUS
      <3> HIDE DEF Good
      <3>3. QED BY <2>1, <3>1, <3>2
    <2>3. d \in Nat /\ d - 1 \in Nat /\ d - 1 <= Len(q) /\ d \in 1 .. Len(q)
      BY <2>1, <2>2
    <2>4. d - 1 \notin T
      <3> HIDE DEF T
      <3>1. QED BY <2>1, <2>3
    <2>5. PICK g \in [0 .. (d - 1) -> Int] : Good(d - 1, g)
      <3> HIDE DEF Good
      <3>1. QED BY <2>3, <2>4
    <2> DEFINE h == [k \in 0 .. d |-> IF k = d THEN g[d - 1] + w[q[d]] ELSE g[k]]
    <2>6. w[q[d]] \in Int BY <2>3
    <2>7. h \in [0 .. d -> Int] BY <2>3, <2>6
    <2>8. /\ h[0] = g[0]
          /\ \A k \in 1 .. d - 1 : h[k] = g[k] /\ h[k - 1] = g[k - 1]
          /\ h[d] = g[d - 1] + w[q[d]] /\ h[d - 1] = g[d - 1]
      BY <2>3
    <2>9. Good(d, h)
      <3> HIDE DEF h
      <3>1. \A k \in 1 .. d : k # d => k \in 1 .. d - 1 BY <2>3
      <3>2. QED BY <2>5, <2>8, <3>1
    <2> HIDE DEF h, Good
    <2>10. QED BY <2>1, <2>7, <2>9
  <1>2. Len(q) \in Nat /\ Len(q) \notin T
    <2> HIDE DEF T
    <2>1. QED BY <1>1
  <1>3. PICK g \in [0 .. Len(q) -> Int] : Good(Len(q), g) BY <1>2
  <1>4. QED BY <1>3 DEF SumsOf

(* The recursive function of Sum exists, and is the function of the        *)
(* partial sums.                                                           *)
LEMMA TotalIs ==
    ASSUME NEW S, NEW w \in [S -> Int], NEW q \in Seq(S)
    PROVE  /\ Total(w, q) \in Int
           /\ \A b \in Int : \A g \in SumsOf(b, w, q) : g[Len(q)] = b + Total(w, q)
  <1> DEFINE n == Len(q)
             f == [i \in DOMAIN q |-> w[q[i]]]
             Sums(g) == g = [i \in 0 .. n |-> IF i = 0 THEN 0 ELSE g[i - 1] + f[i]]
             h == CHOOSE g : Sums(g)
  <1>1. n \in Nat /\ DOMAIN q = 1 .. n /\ \A i \in 1 .. n : f[i] = w[q[i]] /\ w[q[i]] \in Int
    OBVIOUS
  <1>2. Len(f) = n BY <1>1
  <1>3. PICK g \in SumsOf(0, w, q) : TRUE BY SumsExist
  <1>4. g \in [0 .. n -> Int] /\ g[0] = 0 /\ \A k \in 1 .. n : g[k] = g[k - 1] + w[q[k]]
    BY DEF SumsOf
  <1>5. \A i \in 0 .. n : g[i] = IF i = 0 THEN 0 ELSE g[i - 1] + f[i]
    <2> HIDE DEF f, n
    <2>1. \A i \in 0 .. n : i = 0 \/ i \in 1 .. n
      BY <1>1
    <2>2. QED BY <1>1, <1>4, <2>1
  <1>6. Sums(g)
    <2> HIDE DEF f, n
    <2>1. QED BY <1>4, <1>5
  <1>7. Sums(h) BY <1>6
  <1>8. Total(w, q) = h[n]
    <2>1. Total(w, q) = Sum(f) BY DEF Total
    <2> HIDE DEF f
    <2>2. QED BY <1>2, <2>1 DEF Sum
  <1>9. \A i \in 0 .. n : h[i] = IF i = 0 THEN 0 ELSE h[i - 1] + f[i]
    <2> HIDE DEF h, f, n
    <2>1. QED BY <1>7
  <1> HIDE DEF h, f, n, Sums
  <1>10. ASSUME NEW b \in Int, NEW e \in SumsOf(b, w, q) PROVE e[n] = b + h[n] /\ h[n] \in Int
    <2>1. e \in [0 .. n -> Int] /\ e[0] = b /\ \A k \in 1 .. n : e[k] = e[k - 1] + w[q[k]]
      BY DEF SumsOf, n
    <2> DEFINE T == {i \in Nat : i <= n /\ ~(e[i] = b + h[i] /\ h[i] \in Int)}
    <2>2. ASSUME T # {} PROVE FALSE
      <3>1. PICK d \in T : \A i \in T : d <= i BY <2>2, LeastNatural
      <3>2. h[0] = 0
        <4>1. 0 \in 0 .. n BY <1>1
        <4>2. QED BY <1>9, <4>1
      <3>3. d \in Nat /\ d <= n /\ ~(e[d] = b + h[d] /\ h[d] \in Int)
        BY <3>1
      <3>4. d # 0 BY <2>1, <3>2, <3>3
      <3>5. d \in 0 .. n /\ d \in 1 .. n /\ d - 1 \in Nat /\ d - 1 <= n /\ ~(d <= d - 1)
        BY <1>1, <3>3, <3>4
      <3>6. d - 1 \notin T
        <4> HIDE DEF T
        <4>1. QED BY <3>1, <3>5
      <3>7. e[d - 1] = b + h[d - 1] /\ h[d - 1] \in Int BY <3>5, <3>6
      <3>8. h[d] = h[d - 1] + f[d] BY <1>9, <3>4, <3>5, Zenon
      <3>9. e[d] = e[d - 1] + w[q[d]] BY <2>1, <3>5, Zenon
      <3>10. f[d] = w[q[d]] /\ w[q[d]] \in Int BY <1>1, <3>5, Zenon
      <3> HIDE DEF T
      <3>11. QED BY <3>3, <3>7, <3>8, <3>9, <3>10
    <2>3. n \in Nat /\ n <= n /\ n \notin T
      <3> HIDE DEF T
      <3>1. QED BY <1>1, <2>2
    <2>4. QED BY <2>3
  <1>11. h[n] \in Int BY <1>3, <1>10
  <1>12. QED BY <1>8, <1>10, <1>11 DEF n

LEMMA SumsFromZero ==
    ASSUME NEW S, NEW w \in [S -> Int], NEW q \in Seq(S)
    PROVE  /\ \E g \in SumsOf(0, w, q) : g[Len(q)] = Total(w, q)
           /\ \A g \in SumsOf(0, w, q) : g[Len(q)] = Total(w, q)
           /\ Total(w, q) \in Int
  <1>1. PICK g \in SumsOf(0, w, q) : TRUE BY SumsExist
  <1>2. \A h \in SumsOf(0, w, q) : h[Len(q)] = Total(w, q) BY TotalIs
  <1>3. QED BY <1>1, <1>2, TotalIs

LEMMA SumsAppended ==
    ASSUME NEW S, NEW w \in [S -> Int], NEW q \in Seq(S), NEW x \in S, NEW b \in Int, NEW g \in SumsOf(b, w, q)
    PROVE  \E h \in SumsOf(b, w, Append(q, x)) :
               h[Len(q) + 1] = g[Len(q)] + w[x] /\ \A k \in 0 .. Len(q) : h[k] = g[k]
  <1> DEFINE r == Append(q, x)
             n == Len(q)
             h == [k \in 0 .. n + 1 |-> IF k = n + 1 THEN g[n] + w[x] ELSE g[k]]
  <1>1. n \in Nat /\ Len(r) = n + 1 /\ (\A i \in 1 .. n : r[i] = q[i]) /\ r[n + 1] = x /\ w[x] \in Int
    OBVIOUS
  <1>2. g \in [0 .. n -> Int] /\ g[0] = b /\ \A k \in 1 .. n : g[k] = g[k - 1] + w[q[k]]
    BY DEF SumsOf
  <1> HIDE DEF r, n
  <1>3. h \in [0 .. n + 1 -> Int] BY <1>1, <1>2
  <1>4. h[n + 1] = g[n] + w[x] /\ \A k \in 0 .. n : h[k] = g[k] BY <1>1
  <1> HIDE DEF h
  <1>5. ASSUME NEW k \in 1 .. n + 1 PROVE h[k] = h[k - 1] + w[r[k]]
    <2>1. CASE k = n + 1
      <3>1. k - 1 = n /\ n \in 0 .. n BY <1>1, <2>1
      <3>2. QED BY <1>1, <1>4, <2>1, <3>1
    <2>2. CASE k # n + 1
      <3>1. k \in 1 .. n /\ k \in 0 .. n /\ k - 1 \in 0 .. n BY <1>1, <2>2
      <3>2. QED BY <1>1, <1>2, <1>4, <3>1
    <2>3. QED BY <2>1, <2>2
  <1>6. h[0] = b BY <1>1, <1>2, <1>4
  <1>7. h \in SumsOf(b, w, r) BY <1>1, <1>3, <1>5, <1>6 DEF SumsOf
  <1>8. QED BY <1>4, <1>7 DEF r, n

LEMMA SumsTail ==
    ASSUME NEW S, NEW w \in [S -> Int], NEW q \in Seq(S), q # << >>, NEW b \in Int, NEW g \in SumsOf(b, w, q)
    PROVE  /\ Head(q) \in S /\ Len(Tail(q)) = Len(q) - 1 /\ Len(q) \in Nat \ {0}
           /\ \E h \in SumsOf(b + w[Head(q)], w, Tail(q)) : \A k \in 0 .. Len(q) - 1 : h[k] = g[k + 1]
  <1> DEFINE r == Tail(q)
             n == Len(q)
             x == Head(q)
             h == [k \in 0 .. n - 1 |-> g[k + 1]]
  <1>1. n \in Nat \ {0} /\ Len(r) = n - 1 /\ (\A i \in 1 .. n - 1 : r[i] = q[i + 1]) /\ q[1] = x /\ x \in S
    OBVIOUS
  <1>2. g \in [0 .. n -> Int] /\ g[0] = b /\ \A k \in 1 .. n : g[k] = g[k - 1] + w[q[k]]
    BY DEF SumsOf
  <1> HIDE DEF r, n, x
  <1>3. h \in [0 .. n - 1 -> Int] BY <1>1, <1>2
  <1>4. \A k \in 0 .. n - 1 : h[k] = g[k + 1] OBVIOUS
  <1> HIDE DEF h
  <1>5. ASSUME NEW k \in 1 .. n - 1 PROVE h[k] = h[k - 1] + w[r[k]]
    <2>1. k \in 0 .. n - 1 /\ k - 1 \in 0 .. n - 1 /\ k + 1 \in 1 .. n /\ (k + 1) - 1 = k /\ (k - 1) + 1 = k
      BY <1>1
    <2>2. g[k + 1] = g[k] + w[q[k + 1]] BY <1>2, <2>1
    <2>3. QED BY <1>1, <1>4, <2>1, <2>2
  <1>6. h[0] = b + w[x]
    <2>1. 0 \in 0 .. n - 1 /\ 0 + 1 = 1 /\ 1 \in 1 .. n /\ 1 - 1 = 0 BY <1>1
    <2>2. g[1] = g[0] + w[q[1]] BY <1>2, <2>1
    <2>3. QED BY <1>1, <1>2, <1>4, <2>1, <2>2
  <1>7. h \in SumsOf(b + w[x], w, r) BY <1>1, <1>3, <1>5, <1>6 DEF SumsOf
  <1>8. QED BY <1>1, <1>4, <1>7 DEF r, n, x

LEMMA TotalAppended ==
    ASSUME NEW S, NEW w \in [S -> Int], NEW q \in Seq(S), NEW x \in S
    PROVE  Total(w, Append(q, x)) = Total(w, q) + w[x]
  <1>1. PICK g \in SumsOf(0, w, q) : TRUE BY SumsExist
  <1>2. PICK h \in SumsOf(0, w, Append(q, x)) : h[Len(q) + 1] = g[Len(q)] + w[x]
    BY SumsAppended
  <1> DEFINE r == Append(q, x)
  <1>3. r \in Seq(S) /\ Len(r) = Len(q) + 1 OBVIOUS
  <1> HIDE DEF r
  <1>4. h \in SumsOf(0, w, r) /\ h[Len(r)] = g[Len(q)] + w[x]
    BY <1>2, <1>3 DEF r
  <1>5. h[Len(r)] = 0 + Total(w, r) /\ Total(w, r) \in Int
    BY <1>3, <1>4, TotalIs
  <1>6. g[Len(q)] = 0 + Total(w, q) /\ Total(w, q) \in Int BY <1>1, TotalIs
  <1>7. w[x] \in Int OBVIOUS
  <1>8. Total(w, r) = Total(w, q) + w[x] BY <1>4, <1>5, <1>6, <1>7
  <1>9. QED BY <1>8 DEF r

LEMMA TotalTail ==
    ASSUME NEW S, NEW w \in [S -> Int], NEW q \in Seq(S), q # << >>
    PROVE  Total(w, q) = Total(w, Tail(q)) + w[Head(q)]
  <1>1. PICK g \in SumsOf(0, w, q) : TRUE BY SumsExist
  <1> DEFINE r == Tail(q)
             n == Len(q)
  <1>2. r \in Seq(S) /\ Head(q) \in S /\ w[Head(q)] \in Int OBVIOUS
  <1>3. PICK y \in Int : y = w[Head(q)] BY <1>2
  <1>4. 0 + w[Head(q)] = y BY <1>3
  <1>5. Len(r) = n - 1 /\ n \in Nat \ {0} /\ \E h \in SumsOf(0 + w[Head(q)], w, r) : \A k \in 0 .. n - 1 : h[k] = g[k + 1]
    BY <1>1, SumsTail
  <1> HIDE DEF r, n
  <1>6. PICK h \in SumsOf(y, w, r) : \A k \in 0 .. n - 1 : h[k] = g[k + 1]
    BY <1>4, <1>5
  <1>7. n - 1 \in 0 .. n - 1 /\ (n - 1) + 1 = n BY <1>5
  <1>8. h[Len(r)] = g[n] BY <1>5, <1>6, <1>7
  <1>9. h[Len(r)] = y + Total(w, r) /\ Total(w, r) \in Int
    BY <1>2, <1>6, TotalIs
  <1>10. g[n] = Total(w, q) /\ Total(w, q) \in Int BY <1>1, TotalIs DEF n
  <1>11. Total(w, q) = y + Total(w, r) BY <1>8, <1>9, <1>10, Zenon
  <1>12. y + Total(w, r) = Total(w, r) + y BY <1>9
  <1>13. QED BY <1>3, <1>11, <1>12, Zenon DEF r

LEMMA TotalOfNone ==
    ASSUME NEW S, NEW w \in [S -> Int]
    PROVE  Total(w, << >>) = 0
  <1>a. << >> \in Seq(S)
    OBVIOUS
  <1>1. PICK q \in Seq(S) : q = << >> BY <1>a
  <1>2. Len(q) = 0 BY <1>1
  <1>3. PICK g \in SumsOf(0, w, q) : TRUE BY SumsExist
  <1>4. g[Len(q)] = 0 + Total(w, q) /\ Total(w, q) \in Int BY TotalIs
  <1>5. g[0] = 0 BY DEF SumsOf
  <1>6. QED BY <1>1, <1>2, <1>4, <1>5

(* Sums of weights that are never negative, and of a weight made of three. *)
LEMMA TotalIsNatural ==
    ASSUME NEW S, NEW w \in [S -> Nat], NEW q \in Seq(S)
    PROVE  Total(w, q) \in Nat /\ \A b \in Nat : Running(b, w, q)
  <1>1. w \in [S -> Int] /\ Len(q) \in Nat /\ Len(q) \in 0 .. Len(q) OBVIOUS
  <1>2. ASSUME NEW b \in Nat, NEW g \in SumsOf(b, w, q) PROVE \A k \in 0 .. Len(q) : g[k] >= 0
    <2>1. g \in [0 .. Len(q) -> Int] /\ g[0] = b /\ \A k \in 1 .. Len(q) : g[k] = g[k - 1] + w[q[k]]
      BY DEF SumsOf
    <2> DEFINE T == {k \in Nat : k <= Len(q) /\ ~(g[k] >= 0)}
    <2>2. ASSUME T # {} PROVE FALSE
      <3>1. PICK d \in T : \A i \in T : d <= i BY <2>2, LeastNatural
      <3>2. d \in Nat /\ d <= Len(q) /\ ~(g[d] >= 0) BY <3>1
      <3>3. d # 0 BY <2>1, <3>2
      <3>4. d \in 1 .. Len(q) /\ d - 1 \in Nat /\ d - 1 <= Len(q) /\ ~(d <= d - 1) /\ d - 1 \in 0 .. Len(q)
        BY <1>1, <3>2, <3>3
      <3>5. d - 1 \notin T
        <4> HIDE DEF T
        <4>1. QED BY <3>1, <3>4
      <3>6. g[d - 1] >= 0 /\ g[d - 1] \in Int BY <2>1, <3>4, <3>5
      <3>7. w[q[d]] \in Nat BY <3>4
      <3> HIDE DEF T
      <3>8. QED BY <2>1, <3>2, <3>4, <3>6, <3>7
    <2>3. QED BY <2>2
  <1>3. ASSUME NEW b \in Nat PROVE Running(b, w, q)
    <2>1. PICK g \in SumsOf(b, w, q) : TRUE BY <1>1, SumsExist
    <2>2. QED BY <1>2, <2>1 DEF Running
  <1>4. PICK g \in SumsOf(0, w, q) : TRUE BY <1>1, SumsExist
  <1>5. g[Len(q)] = 0 + Total(w, q) /\ Total(w, q) \in Int
    BY <1>1, <1>4, TotalIs
  <1>6. g[Len(q)] >= 0 BY <1>1, <1>2, <1>4
  <1>7. Total(w, q) \in Nat BY <1>5, <1>6
  <1>8. QED BY <1>3, <1>7

LEMMA TotalOfThree ==
    ASSUME NEW S, NEW w, NEW a, NEW c, NEW e, Combines(S, w, a, c, e), NEW q \in Seq(S)
    PROVE  Total(w, q) = Total(a, q) + Total(c, q) - Total(e, q)
  <1>t. w \in [S -> Int] /\ a \in [S -> Int] /\ c \in [S -> Int] /\ e \in [S -> Int]
    BY DEF Combines
  <1>1. PICK f \in SumsOf(0, a, q) : f[Len(q)] = Total(a, q)
    BY <1>t, SumsFromZero, Zenon
  <1>2. PICK g \in SumsOf(0, c, q) : g[Len(q)] = Total(c, q)
    BY <1>t, SumsFromZero, Zenon
  <1>3. PICK h \in SumsOf(0, e, q) : h[Len(q)] = Total(e, q)
    BY <1>t, SumsFromZero, Zenon
  <1> DEFINE n == Len(q)
             t == [k \in 0 .. n |-> f[k] + g[k] - h[k]]
  <1>4. n \in Nat /\ \A k \in 1 .. n : /\ w[q[k]] = a[q[k]] + c[q[k]] - e[q[k]]
                                       /\ a[q[k]] \in Int /\ c[q[k]] \in Int /\ e[q[k]] \in Int
    <2>1. n \in Nat /\ \A k \in 1 .. n : q[k] \in S OBVIOUS
    <2>2. \A x \in S : a[x] \in Int /\ c[x] \in Int /\ e[x] \in Int BY <1>t
    <2>3. QED BY <2>1, <2>2, Zenon DEF Combines
  <1>5. /\ f \in [0 .. n -> Int] /\ f[0] = 0 /\ \A k \in 1 .. n : f[k] = f[k - 1] + a[q[k]]
        /\ g \in [0 .. n -> Int] /\ g[0] = 0 /\ \A k \in 1 .. n : g[k] = g[k - 1] + c[q[k]]
        /\ h \in [0 .. n -> Int] /\ h[0] = 0 /\ \A k \in 1 .. n : h[k] = h[k - 1] + e[q[k]]
    BY DEF SumsOf
  <1> HIDE DEF n
  <1>6. t \in [0 .. n -> Int] /\ t[0] = 0 /\ t[n] = f[n] + g[n] - h[n]
    BY <1>4, <1>5
  <1>7. ASSUME NEW k \in 1 .. n PROVE t[k] = t[k - 1] + w[q[k]]
    <2>1. k \in 0 .. n /\ k - 1 \in 0 .. n BY <1>4
    <2>2. t[k] = f[k] + g[k] - h[k] /\ t[k - 1] = f[k - 1] + g[k - 1] - h[k - 1]
      BY <2>1
    <2>3. PICK f1 \in Int, g1 \in Int, h1 \in Int : f1 = f[k - 1] /\ g1 = g[k - 1] /\ h1 = h[k - 1]
      BY <1>5, <2>1
    <2>4. PICK a1 \in Int, c1 \in Int, e1 \in Int : a1 = a[q[k]] /\ c1 = c[q[k]] /\ e1 = e[q[k]]
      BY <1>4, Zenon
    <2>5. f[k] = f1 + a1 /\ g[k] = g1 + c1 /\ h[k] = h1 + e1
      BY <1>5, <2>3, <2>4, Zenon
    <2>6. w[q[k]] = a1 + c1 - e1 BY <1>4, <2>4, Zenon
    <2> HIDE DEF t
    <2>7. t[k] = (f1 + a1) + (g1 + c1) - (h1 + e1) /\ t[k - 1] = f1 + g1 - h1
      BY <2>2, <2>3, <2>5, Zenon
    <2>8. (f1 + a1) + (g1 + c1) - (h1 + e1) = (f1 + g1 - h1) + (a1 + c1 - e1)
      OBVIOUS
    <2>9. QED BY <2>6, <2>7, <2>8, Zenon
  <1> HIDE DEF t
  <1>8. t \in SumsOf(0, w, q) BY <1>6, <1>7 DEF SumsOf, n
  <1>9. t[n] = Total(w, q) BY <1>t, <1>8, SumsFromZero, Zenon DEF n
  <1>10. QED BY <1>1, <1>2, <1>3, <1>6, <1>9, Zenon DEF n

LEMMA RunningFrom ==
    ASSUME NEW b, NEW w, NEW q, Running(b, w, q), Len(q) \in Nat
    PROVE  b \in Nat
  <1>1. PICK g \in SumsOf(b, w, q) : \A k \in 0 .. Len(q) : g[k] >= 0
    BY DEF Running
  <1>2. g \in [0 .. Len(q) -> Int] /\ g[0] = b /\ 0 \in 0 .. Len(q)
    BY DEF SumsOf
  <1>3. QED BY <1>1, <1>2

LEMMA RunningAppended ==
    ASSUME NEW S, NEW w \in [S -> Int], NEW q \in Seq(S), NEW x \in S, NEW b \in Int,
           Running(b, w, q), b + Total(w, q) + w[x] >= 0
    PROVE  Running(b, w, Append(q, x))
  <1>1. PICK g \in SumsOf(b, w, q) : \A k \in 0 .. Len(q) : g[k] >= 0
    BY DEF Running
  <1>2. PICK h \in SumsOf(b, w, Append(q, x)) :
            h[Len(q) + 1] = g[Len(q)] + w[x] /\ \A k \in 0 .. Len(q) : h[k] = g[k]
    BY SumsAppended
  <1>3. g[Len(q)] = b + Total(w, q) BY TotalIs
  <1>4. Len(q) \in Nat /\ Len(Append(q, x)) = Len(q) + 1 OBVIOUS
  <1>5. ASSUME NEW k \in 0 .. Len(q) + 1 PROVE h[k] >= 0
    <2>1. k \in 0 .. Len(q) \/ k = Len(q) + 1
      BY <1>4
    <2>2. h[Len(q) + 1] >= 0 BY <1>2, <1>3
    <2>3. QED BY <1>1, <1>2, <2>1, <2>2
  <1>6. QED BY <1>2, <1>4, <1>5 DEF Running

LEMMA RunningTail ==
    ASSUME NEW S, NEW w \in [S -> Int], NEW q \in Seq(S), q # << >>, NEW b \in Int, Running(b, w, q)
    PROVE  Running(b + w[Head(q)], w, Tail(q))
  <1>1. PICK g \in SumsOf(b, w, q) : \A k \in 0 .. Len(q) : g[k] >= 0
    BY DEF Running
  <1> DEFINE r == Tail(q)
             c == b + w[Head(q)]
             n == Len(q)
  <1>2. Len(r) = n - 1 /\ n \in Nat \ {0} /\ \E h \in SumsOf(c, w, r) : \A k \in 0 .. n - 1 : h[k] = g[k + 1]
    BY <1>1, SumsTail
  <1> HIDE DEF r, c
  <1>3. PICK h \in SumsOf(c, w, r) : \A k \in 0 .. n - 1 : h[k] = g[k + 1]
    BY <1>2
  <1>4. ASSUME NEW k \in 0 .. n - 1 PROVE h[k] >= 0
    <2>1. k + 1 \in 0 .. n BY <1>2
    <2>2. QED BY <1>1, <1>3, <2>1
  <1>5. Running(c, w, r) BY <1>2, <1>3, <1>4 DEF Running
  <1>6. QED BY <1>5 DEF r, c

LEMMA RunningSame ==
    ASSUME NEW b, NEW w, NEW q, NEW r, Len(r) = Len(q), \A k \in 1 .. Len(q) : w[r[k]] = w[q[k]], Running(b, w, q)
    PROVE  Running(b, w, r)
  BY DEF Running, SumsOf
-----------------------------------------------------------------------------
(***************************************************************************)
(* The requests.                                                           *)
(***************************************************************************)
LEMMA Weights ==
    /\ Wants \in [PullerMail -> Nat] /\ Again \in [PullerMail -> Nat] /\ Comes \in [PullerMail -> Nat]
    /\ Wants \in [PullerMail -> Int] /\ Again \in [PullerMail -> Int] /\ Comes \in [PullerMail -> Int]
    /\ Due \in [PullerMail -> Int] /\ Revokes \in [PullerMail -> Nat] /\ Revokes \in [PullerMail -> Int]
    /\ Asks \in [FinderMail -> Nat] /\ Receives \in [FinderMail -> Nat]
    /\ Asks \in [FinderMail -> Int] /\ Receives \in [FinderMail -> Int]
    /\ FinderDue \in [FinderMail -> Int] /\ Handles \in [FinderMail -> Nat] /\ Handles \in [FinderMail -> Int]
  <1>1. \A m \in PullerMail : m.t = "expectSequences" => Cardinality(m.wanted) \in Nat
    BY MailKinds, Finite
  <1>2. \A m \in PullerMail : m.t = "documentsRevoked" => Cardinality(m.seqs) \in Nat
    BY MailKinds, Finite
  <1>3. \A m \in FinderMail : m.t = "revokedHandled" => m.n \in Nat
    BY DEF FinderMail, ChangesMail
  <1>4. Wants \in [PullerMail -> Nat] /\ Revokes \in [PullerMail -> Nat] /\ Handles \in [FinderMail -> Nat]
    BY <1>1, <1>2, <1>3 DEF Wants, Revokes, Handles
  <1>5. /\ Again \in [PullerMail -> Nat] /\ Comes \in [PullerMail -> Nat]
        /\ Asks \in [FinderMail -> Nat] /\ Receives \in [FinderMail -> Nat]
    BY DEF Again, Comes, Asks, Receives
  <1>6. /\ Wants \in [PullerMail -> Int] /\ Revokes \in [PullerMail -> Int] /\ Handles \in [FinderMail -> Int]
        /\ Again \in [PullerMail -> Int] /\ Comes \in [PullerMail -> Int]
        /\ Asks \in [FinderMail -> Int] /\ Receives \in [FinderMail -> Int]
    BY <1>4, <1>5
  <1>7. Due \in [PullerMail -> Int]
    <2>1. \A m \in PullerMail : Wants[m] + Again[m] - Comes[m] \in Int
      BY <1>6
    <2>2. QED BY <2>1 DEF Due
  <1>8. FinderDue \in [FinderMail -> Int]
    <2>1. \A m \in FinderMail : Asks[m] - Receives[m] \in Int BY <1>6
    <2>2. QED BY <2>1 DEF FinderDue
  <1>9. QED BY <1>4, <1>5, <1>6, <1>7, <1>8

LEMMA WeightOf ==
    ASSUME NEW m \in PullerMail
    PROVE  /\ m.t = "expectSequences" =>
                  Wants[m] = Cardinality(m.wanted) /\ Due[m] = Cardinality(m.wanted) /\ Revokes[m] = 0
           /\ m.t = "revReRequested" => Wants[m] = 0 /\ Due[m] = 1 /\ Revokes[m] = 0
           /\ m.t \in {"rev", "norev"} => Wants[m] = 0 /\ Due[m] = -1 /\ Revokes[m] = 0
           /\ m.t = "documentsRevoked" => Wants[m] = 0 /\ Due[m] = 0 /\ Revokes[m] = Cardinality(m.seqs)
           /\ m.t \in LightTypes =>
                  Wants[m] = 0 /\ Due[m] = 0 /\ Revokes[m] = 0
  <1>1. /\ Wants[m] = IF m.t = "expectSequences" THEN Cardinality(m.wanted) ELSE 0
        /\ Again[m] = IF m.t = "revReRequested" THEN 1 ELSE 0
        /\ Comes[m] = IF m.t \in {"rev", "norev"} THEN 1 ELSE 0
        /\ Revokes[m] = IF m.t = "documentsRevoked" THEN Cardinality(m.seqs) ELSE 0
        /\ Due[m] = Wants[m] + Again[m] - Comes[m]
    BY DEF Wants, Again, Comes, Due, Revokes
  <1>2. m.t = "expectSequences" => Cardinality(m.wanted) \in Nat
    BY MailKinds, Finite
  <1>3. QED BY <1>1, <1>2

LEMMA FinderWeightOf ==
    ASSUME NEW m \in FinderMail
    PROVE  /\ m.t = "changes" => FinderDue[m] = 0 /\ Handles[m] = 0
           /\ m.t = "reRequestingRev" => FinderDue[m] = 1 /\ Handles[m] = 0
           /\ m.t = "revReceived" => FinderDue[m] = -1 /\ Handles[m] = 0
           /\ m.t = "revokedHandled" => FinderDue[m] = 0 /\ Handles[m] = m.n
  <1>1. /\ Asks[m] = IF m.t = "reRequestingRev" THEN 1 ELSE 0
        /\ Receives[m] = IF m.t = "revReceived" THEN 1 ELSE 0
        /\ Handles[m] = IF m.t = "revokedHandled" THEN m.n ELSE 0
        /\ FinderDue[m] = Asks[m] - Receives[m]
    BY DEF Asks, Receives, Handles, FinderDue
  <1>2. QED BY <1>1

LEMMA Totals ==
    /\ \A q \in Seq(PullerMail) :
          /\ Total(Wants, q) \in Nat /\ Total(Due, q) \in Int /\ Total(Revokes, q) \in Nat
          /\ Total(Again, q) \in Nat /\ Total(Comes, q) \in Nat
    /\ \A q \in Seq(FinderMail) : Total(FinderDue, q) \in Int /\ Total(Handles, q) \in Nat
  <1>1. ASSUME NEW q \in Seq(PullerMail)
        PROVE  /\ Total(Wants, q) \in Nat /\ Total(Due, q) \in Int /\ Total(Revokes, q) \in Nat
               /\ Total(Again, q) \in Nat /\ Total(Comes, q) \in Nat
    BY Weights, TotalIs, TotalIsNatural, Zenon
  <1>2. ASSUME NEW q \in Seq(FinderMail) PROVE Total(FinderDue, q) \in Int /\ Total(Handles, q) \in Nat
    BY Weights, TotalIs, TotalIsNatural, Zenon
  <1>3. QED BY <1>1, <1>2

LEMMA PullerGets ==
    ASSUME NEW q \in Seq(PullerMail), NEW m \in PullerMail
    PROVE  /\ Append(q, m) \in Seq(PullerMail) /\ Adds3(q, Append(q, m), Wants[m], Due[m], Revokes[m])
           /\ \A b \in Int : Running(b, Due, q) /\ b + Total(Due, q) + Due[m] >= 0 => Running(b, Due, Append(q, m))
  <1>1. Append(q, m) \in Seq(PullerMail) OBVIOUS
  <1>2. Adds3(q, Append(q, m), Wants[m], Due[m], Revokes[m])
    <2>1. \A w \in [PullerMail -> Int] : Total(w, Append(q, m)) = Total(w, q) + w[m]
      BY TotalAppended
    <2>2. QED BY <2>1, Weights, Zenon DEF Adds3
  <1>3. \A b \in Int : Running(b, Due, q) /\ b + Total(Due, q) + Due[m] >= 0 => Running(b, Due, Append(q, m))
    BY Weights, RunningAppended, Zenon
  <1>4. QED BY <1>1, <1>2, <1>3

LEMMA PullerLoses ==
    ASSUME NEW q \in Seq(PullerMail), q # << >>
    PROVE  /\ Tail(q) \in Seq(PullerMail) /\ Head(q) \in PullerMail
           /\ Adds3(Tail(q), q, Wants[Head(q)], Due[Head(q)], Revokes[Head(q)])
           /\ \A b \in Int : Running(b, Due, q) => Running(b + Due[Head(q)], Due, Tail(q))
  <1>1. Tail(q) \in Seq(PullerMail) /\ Head(q) \in PullerMail OBVIOUS
  <1>2. Adds3(Tail(q), q, Wants[Head(q)], Due[Head(q)], Revokes[Head(q)])
    BY Weights, TotalTail, Zenon DEF Adds3
  <1>3. \A b \in Int : Running(b, Due, q) => Running(b + Due[Head(q)], Due, Tail(q))
    BY Weights, RunningTail, Zenon
  <1>4. QED BY <1>1, <1>2, <1>3

LEMMA FinderGets ==
    ASSUME NEW q \in Seq(FinderMail), NEW m \in FinderMail
    PROVE  /\ Append(q, m) \in Seq(FinderMail) /\ Adds2(q, Append(q, m), FinderDue[m], Handles[m])
           /\ \A b \in Int : Running(b, FinderDue, q) /\ b + Total(FinderDue, q) + FinderDue[m] >= 0
                  => Running(b, FinderDue, Append(q, m))
  <1>1. Append(q, m) \in Seq(FinderMail) OBVIOUS
  <1>2. Adds2(q, Append(q, m), FinderDue[m], Handles[m])
    <2>1. \A w \in [FinderMail -> Int] : Total(w, Append(q, m)) = Total(w, q) + w[m]
      BY TotalAppended
    <2>2. QED BY <2>1, Weights, Zenon DEF Adds2
  <1>3. \A b \in Int : Running(b, FinderDue, q) /\ b + Total(FinderDue, q) + FinderDue[m] >= 0
            => Running(b, FinderDue, Append(q, m))
    BY Weights, RunningAppended, Zenon
  <1>4. QED BY <1>1, <1>2, <1>3

LEMMA FinderLoses ==
    ASSUME NEW q \in Seq(FinderMail), q # << >>
    PROVE  /\ Tail(q) \in Seq(FinderMail) /\ Head(q) \in FinderMail
           /\ Adds2(Tail(q), q, FinderDue[Head(q)], Handles[Head(q)])
           /\ \A b \in Int : Running(b, FinderDue, q) => Running(b + FinderDue[Head(q)], FinderDue, Tail(q))
  <1>1. Tail(q) \in Seq(FinderMail) /\ Head(q) \in FinderMail OBVIOUS
  <1>2. Adds2(Tail(q), q, FinderDue[Head(q)], Handles[Head(q)])
    BY Weights, TotalTail, Zenon DEF Adds2
  <1>3. \A b \in Int : Running(b, FinderDue, q) => Running(b + FinderDue[Head(q)], FinderDue, Tail(q))
    BY Weights, RunningTail, Zenon
  <1>4. QED BY <1>1, <1>2, <1>3

LEMMA RunningEnds ==
    ASSUME NEW S, NEW w \in [S -> Int], NEW q \in Seq(S), NEW b \in Int, Running(b, w, q)
    PROVE  b + Total(w, q) >= 0
  <1>1. PICK g \in SumsOf(b, w, q) : \A k \in 0 .. Len(q) : g[k] >= 0
    BY DEF Running
  <1>2. g[Len(q)] = b + Total(w, q) BY TotalIs
  <1>3. Len(q) \in 0 .. Len(q) OBVIOUS
  <1>4. QED BY <1>1, <1>2, <1>3

LEMMA SameDueItself ==
    ASSUME NEW q \in Seq(PullerMail)
    PROVE  SameDue(q, q)
  <1>1. Total(Wants, q) \in Nat /\ Total(Due, q) \in Int /\ Total(Revokes, q) \in Nat
    BY Totals
  <1>2. QED BY <1>1 DEF SameDue, Adds3

LEMMA LightAppended ==
    ASSUME NEW q \in Seq(PullerMail), NEW m, IsLight(m)
    PROVE  SameDue(q, Append(q, m))
  <1>1. m \in PullerMail /\ Wants[m] = 0 /\ Due[m] = 0 /\ Revokes[m] = 0
    BY DEF IsLight
  <1>2. /\ Adds3(q, Append(q, m), 0, 0, 0)
        /\ \A b \in Int : Running(b, Due, q) /\ b + Total(Due, q) + 0 >= 0 => Running(b, Due, Append(q, m))
    BY <1>1, PullerGets
  <1>3. Total(Due, q) \in Int BY Totals
  <1>4. \A b \in Int : Running(b, Due, q) => b + Total(Due, q) >= 0
    BY Weights, RunningEnds
  <1>5. QED BY <1>2, <1>3, <1>4 DEF SameDue

LEMMA LightTaken ==
    ASSUME NEW q \in Seq(PullerMail), q # << >>, IsLight(Head(q))
    PROVE  SameDue(q, Tail(q))
  <1> DEFINE r == Tail(q)
  <1>1. Wants[Head(q)] = 0 /\ Due[Head(q)] = 0 /\ Revokes[Head(q)] = 0
    BY DEF IsLight
  <1>2. r \in Seq(PullerMail) /\ Adds3(r, q, 0, 0, 0) /\ \A b \in Int : Running(b, Due, q) => Running(b + 0, Due, r)
    BY <1>1, PullerLoses
  <1> HIDE DEF r
  <1>3. /\ Total(Wants, r) \in Nat /\ Total(Due, r) \in Int /\ Total(Revokes, r) \in Nat
        /\ Total(Wants, q) \in Nat /\ Total(Due, q) \in Int /\ Total(Revokes, q) \in Nat
    BY <1>2, Totals
  <1>4. Adds3(q, r, 0, 0, 0) BY <1>2, <1>3 DEF Adds3
  <1>5. \A b \in Int : b + 0 = b OBVIOUS
  <1>6. QED BY <1>2, <1>4, <1>5 DEF SameDue, r

LEMMA LightMessages ==
    \A t \in LightTypes : IsLight([t |-> t])
  <1>1. TAKE t \in LightTypes
  <1>2. [t |-> t] \in PullerMail /\ [t |-> t].t = t
    BY DEF PullerMail, PlainMail
  <1>3. QED BY <1>2, WeightOf DEF IsLight
LEMMA CountUpdates ==
    ASSUME NEW c \in CountType, NEW v, NEW x
    PROVE  /\ [c EXCEPT !.activeRevoked = v, !.unfinishedRevoked = x] =
                  [pending |-> c.pending, active |-> c.active, unfinished |-> c.unfinished,
                   activeRevoked |-> v, unfinishedRevoked |-> x]
           /\ [c EXCEPT !.active = v, !.activeRevoked = x] =
                  [pending |-> c.pending, active |-> v, unfinished |-> c.unfinished,
                   activeRevoked |-> x, unfinishedRevoked |-> c.unfinishedRevoked]
           /\ [c EXCEPT !.pending = v] =
                  [pending |-> v, active |-> c.active, unfinished |-> c.unfinished,
                   activeRevoked |-> c.activeRevoked, unfinishedRevoked |-> c.unfinishedRevoked]
  <1>1. [c EXCEPT !.pending = v] =
            [pending |-> v, active |-> c.active, unfinished |-> c.unfinished,
             activeRevoked |-> c.activeRevoked, unfinishedRevoked |-> c.unfinishedRevoked]
    BY DEF CountType
  <1>2. PICK r : r = [c EXCEPT !.activeRevoked = v] OBVIOUS
  <1>3. r = [pending |-> c.pending, active |-> c.active, unfinished |-> c.unfinished,
             activeRevoked |-> v, unfinishedRevoked |-> c.unfinishedRevoked]
    BY <1>2 DEF CountType
  <1>4. [r EXCEPT !.unfinishedRevoked = x] =
            [pending |-> c.pending, active |-> c.active, unfinished |-> c.unfinished, activeRevoked |-> v, unfinishedRevoked |-> x]
    BY <1>3
  <1>5. [c EXCEPT !.activeRevoked = v, !.unfinishedRevoked = x] = [r EXCEPT !.unfinishedRevoked = x]
    BY <1>2, Zenon
  <1>6. PICK s : s = [c EXCEPT !.active = v] OBVIOUS
  <1>7. s = [pending |-> c.pending, active |-> v, unfinished |-> c.unfinished,
             activeRevoked |-> c.activeRevoked, unfinishedRevoked |-> c.unfinishedRevoked]
    BY <1>6 DEF CountType
  <1>8. [s EXCEPT !.activeRevoked = x] =
            [pending |-> c.pending, active |-> v, unfinished |-> c.unfinished,
             activeRevoked |-> x, unfinishedRevoked |-> c.unfinishedRevoked]
    BY <1>7
  <1>9. [c EXCEPT !.active = v, !.activeRevoked = x] = [s EXCEPT !.activeRevoked = x]
    BY <1>6, Zenon
  <1>10. QED BY <1>1, <1>4, <1>5, <1>8, <1>9, Zenon

LEMMA CountStarts ==
    ASSUME NEW c \in CountType, NEW v, NEW x, NEW y
    PROVE  [c EXCEPT !.pending = v, !.active = x, !.unfinished = y] =
               [pending |-> v, active |-> x, unfinished |-> y,
                activeRevoked |-> c.activeRevoked, unfinishedRevoked |-> c.unfinishedRevoked]
  <1>1. PICK p : p = [c EXCEPT !.pending = v] OBVIOUS
  <1>2. p = [pending |-> v, active |-> c.active, unfinished |-> c.unfinished,
             activeRevoked |-> c.activeRevoked, unfinishedRevoked |-> c.unfinishedRevoked]
    BY <1>1 DEF CountType
  <1>3. PICK q : q = [p EXCEPT !.active = x] OBVIOUS
  <1>4. q = [pending |-> v, active |-> x, unfinished |-> c.unfinished,
             activeRevoked |-> c.activeRevoked, unfinishedRevoked |-> c.unfinishedRevoked]
    BY <1>2, <1>3
  <1>5. [q EXCEPT !.unfinished = y] =
            [pending |-> v, active |-> x, unfinished |-> y,
             activeRevoked |-> c.activeRevoked, unfinishedRevoked |-> c.unfinishedRevoked]
    BY <1>4
  <1>6. [c EXCEPT !.pending = v, !.active = x, !.unfinished = y] = [q EXCEPT !.unfinished = y]
    BY <1>1, <1>3, Zenon
  <1>7. QED BY <1>5, <1>6, Zenon

LEMMA CountFinishes ==
    ASSUME NEW c \in CountType, NEW v, NEW x, NEW y, NEW z
    PROVE  [c EXCEPT !.active = v, !.unfinished = x, !.activeRevoked = y, !.unfinishedRevoked = z] =
               [pending |-> c.pending, active |-> v, unfinished |-> x, activeRevoked |-> y, unfinishedRevoked |-> z]
  <1>1. PICK s : s = [c EXCEPT !.active = v] OBVIOUS
  <1>2. s = [pending |-> c.pending, active |-> v, unfinished |-> c.unfinished,
             activeRevoked |-> c.activeRevoked, unfinishedRevoked |-> c.unfinishedRevoked]
    BY <1>1 DEF CountType
  <1>3. PICK t : t = [s EXCEPT !.unfinished = x] OBVIOUS
  <1>4. t = [pending |-> c.pending, active |-> v, unfinished |-> x,
             activeRevoked |-> c.activeRevoked, unfinishedRevoked |-> c.unfinishedRevoked]
    BY <1>2, <1>3
  <1>5. PICK u : u = [t EXCEPT !.activeRevoked = y] OBVIOUS
  <1>6. u = [pending |-> c.pending, active |-> v, unfinished |-> x,
             activeRevoked |-> y, unfinishedRevoked |-> c.unfinishedRevoked]
    BY <1>4, <1>5
  <1>7. [u EXCEPT !.unfinishedRevoked = z] =
            [pending |-> c.pending, active |-> v, unfinished |-> x, activeRevoked |-> y, unfinishedRevoked |-> z]
    BY <1>6
  <1>8. [c EXCEPT !.active = v, !.unfinished = x, !.activeRevoked = y, !.unfinishedRevoked = z]
           = [u EXCEPT !.unfinishedRevoked = z]
    BY <1>1, <1>3, <1>5, Zenon
  <1>9. QED BY <1>7, <1>8, Zenon

LEMMA AccountNumbers ==
    ASSUME Typed, Accounts
    PROVE  /\ count.pending \in Nat /\ count.active \in Int /\ count.unfinished \in Int
           /\ count.activeRevoked \in Int /\ count.unfinishedRevoked \in Int
           /\ finder.requested \in Nat /\ finder.revoked \in Int /\ Base \in Nat
           /\ Len(waiting.revs) \in Nat /\ Len(waiting.revoked) \in Nat /\ Base = count.pending - Len(waiting.revs)
           /\ Cardinality(owed) \in Nat
           /\ Total(Wants, pullerBox) \in Nat /\ Total(Due, pullerBox) \in Int /\ Total(Revokes, pullerBox) \in Nat
           /\ Total(FinderDue, finderBox) \in Int /\ Total(Handles, finderBox) \in Nat
  <1>1. finder.requested \in Int /\ finder.revoked \in Int /\ waiting.revs \in Seq(RevMail) /\ waiting.revoked \in Seq(Seqs)
    BY MailTypes
  <1>2. pullerBox \in Seq(PullerMail) /\ finderBox \in Seq(FinderMail) /\ owed \in SUBSET Ids
    BY DEF Typed
  <1>3. Len(waiting.revs) \in Nat /\ Len(waiting.revoked) \in Nat /\ Len(pullerBox) \in Nat /\ Len(finderBox) \in Nat
    BY <1>1, <1>2
  <1>4. Base \in Nat /\ finder.requested \in Nat
    BY <1>3, RunningFrom DEF Accounts
  <1>5. /\ count.pending \in Int /\ count.active \in Int /\ count.unfinished \in Int
        /\ count.activeRevoked \in Int /\ count.unfinishedRevoked \in Int
    BY DEF Accounts, CountType
  <1>6. Base = count.pending - Len(waiting.revs) BY DEF Base
  <1>7. count.pending \in Nat BY <1>3, <1>4, <1>5, <1>6
  <1>8. Cardinality(owed) \in Nat BY <1>2, Finite
  <1>9. QED BY <1>1, <1>2, <1>3, <1>4, <1>5, <1>6, <1>7, <1>8, Totals

(* A step changes both sides of each account by as much.                   *)
LEMMA AccountsMove ==
    ASSUME Typed, Typed', Accounts, count' \in CountType, NEW a \in Int, NEW d \in Int,
           finder'.requested + Total(FinderDue, finderBox') = finder.requested + Total(FinderDue, finderBox) + a,
           count'.pending + Total(Wants, pullerBox') = count.pending + Total(Wants, pullerBox) + a,
           Base' + Total(Due, pullerBox') = Base + Total(Due, pullerBox) + d,
           Cardinality(owed') <= Cardinality(owed) + d,
           link' = "open" => link = "open" /\ Cardinality(owed') = Cardinality(owed) + d,
           Running(Base', Due, pullerBox'), Running(finder'.requested, FinderDue, finderBox'),
           finder'.revoked >= Total(Revokes, pullerBox') + Len(waiting'.revoked) + count'.unfinishedRevoked
                                + Total(Handles, finderBox')
    PROVE  Accounts'
  <1>1. Cardinality(owed) \in Nat /\ Cardinality(owed') \in Nat
    BY Finite DEF Typed
  <1>2. Base \in Int /\ Total(Due, pullerBox) \in Int BY AccountNumbers
  <1>3. /\ Base + Total(Due, pullerBox) >= Cardinality(owed)
        /\ link = "open" => Base + Total(Due, pullerBox) = Cardinality(owed)
        /\ finder.requested + Total(FinderDue, finderBox) = count.pending + Total(Wants, pullerBox)
    BY DEF Accounts
  <1>4. finder'.requested + Total(FinderDue, finderBox') = count'.pending + Total(Wants, pullerBox')
    BY <1>3
  <1>5. Base' + Total(Due, pullerBox') >= Cardinality(owed')
    BY <1>1, <1>2, <1>3
  <1>6. link' = "open" => Base' + Total(Due, pullerBox') = Cardinality(owed')
    BY <1>1, <1>2, <1>3
  <1>7. QED BY <1>4, <1>5, <1>6 DEF Accounts

LEMMA FinderDueSame ==
    ASSUME NEW q \in Seq(FinderMail)
    PROVE  /\ SameFinderDue(q, q)
           /\ \A m \in ChangesMail : SameFinderDue(q, Append(q, m))
           /\ q # << >> /\ Head(q).t = "changes" => SameFinderDue(q, Tail(q))
  <1>1. Total(FinderDue, q) \in Int /\ Total(Handles, q) \in Nat BY Totals
  <1>2. SameFinderDue(q, q) BY <1>1 DEF SameFinderDue, Adds2
  <1>3. ASSUME NEW m \in ChangesMail PROVE SameFinderDue(q, Append(q, m))
    <2>1. m \in FinderMail /\ FinderDue[m] = 0 /\ Handles[m] = 0
      BY MailKinds, FinderWeightOf
    <2>2. /\ Adds2(q, Append(q, m), 0, 0)
          /\ \A b \in Int : Running(b, FinderDue, q) /\ b + Total(FinderDue, q) + 0 >= 0 => Running(b, FinderDue, Append(q, m))
      BY <2>1, FinderGets
    <2>3. \A b \in Int : Running(b, FinderDue, q) => b + Total(FinderDue, q) >= 0
      BY Weights, RunningEnds
    <2>4. QED BY <1>1, <2>2, <2>3 DEF SameFinderDue
  <1>4. ASSUME q # << >>, Head(q).t = "changes" PROVE SameFinderDue(q, Tail(q))
    <2> DEFINE r == Tail(q)
    <2>1. Head(q) \in FinderMail BY <1>4, FinderLoses
    <2>2. FinderDue[Head(q)] = 0 /\ Handles[Head(q)] = 0
      BY <1>4, <2>1, FinderWeightOf
    <2>3. r \in Seq(FinderMail) /\ Adds2(r, q, 0, 0) /\ \A b \in Int : Running(b, FinderDue, q) => Running(b + 0, FinderDue, r)
      BY <1>4, <2>2, FinderLoses
    <2> HIDE DEF r
    <2>4. Total(FinderDue, r) \in Int /\ Total(Handles, r) \in Nat
      BY <2>3, Totals
    <2>5. \A b \in Int : b + 0 = b OBVIOUS
    <2>6. QED BY <1>1, <2>3, <2>4, <2>5 DEF SameFinderDue, Adds2, r
  <1>5. QED BY <1>2, <1>3, <1>4

LEMMA AccountsStay ==
    ASSUME Typed, Typed', Accounts, count' \in CountType,
           finder'.requested = finder.requested, finder'.revoked = finder.revoked,
           count'.pending = count.pending, count'.unfinishedRevoked = count.unfinishedRevoked,
           Len(waiting'.revs) = Len(waiting.revs), Len(waiting'.revoked) = Len(waiting.revoked),
           SameDue(pullerBox, pullerBox'), SameFinderDue(finderBox, finderBox'),
           (owed' = owed /\ link' = link) \/ (owed' = {} /\ link' # "open") \/ (owed' = owed /\ link' # "open")
    PROVE  Accounts'
  <1>1. /\ Total(Wants, pullerBox) \in Nat /\ Total(Due, pullerBox) \in Int /\ Total(Revokes, pullerBox) \in Nat
        /\ Total(FinderDue, finderBox) \in Int /\ Total(Handles, finderBox) \in Nat
        /\ Cardinality(owed) \in Nat /\ Base \in Int /\ finder.requested \in Int /\ count.pending \in Int
    BY AccountNumbers
  <1>2. /\ Total(Wants, pullerBox') = Total(Wants, pullerBox) /\ Total(Due, pullerBox') = Total(Due, pullerBox)
        /\ Total(Revokes, pullerBox') = Total(Revokes, pullerBox)
        /\ Total(FinderDue, finderBox') = Total(FinderDue, finderBox) /\ Total(Handles, finderBox') = Total(Handles, finderBox)
    BY <1>1 DEF SameDue, Adds3, SameFinderDue, Adds2
  <1>3. Base' = Base BY DEF Base
  <1>4. Running(Base', Due, pullerBox') /\ Running(finder'.requested, FinderDue, finderBox')
    BY <1>1, <1>3 DEF Accounts, SameDue, SameFinderDue
  <1>5. Cardinality(owed') <= Cardinality(owed) + 0
    <2>1. Cardinality({}) = 0 BY FS_EmptySet
    <2>2. CASE owed' = owed BY <1>1, <2>2
    <2>3. CASE owed' = {} BY <1>1, <2>1, <2>3
    <2>4. QED BY <2>2, <2>3
  <1>6. link' = "open" => link = "open" /\ Cardinality(owed') = Cardinality(owed) + 0
    BY <1>1
  <1>7. finder'.revoked >= Total(Revokes, pullerBox') + Len(waiting'.revoked) + count'.unfinishedRevoked
                              + Total(Handles, finderBox')
    BY <1>2 DEF Accounts
  <1>8. finder'.requested + Total(FinderDue, finderBox') = finder.requested + Total(FinderDue, finderBox) + 0
        /\ count'.pending + Total(Wants, pullerBox') = count.pending + Total(Wants, pullerBox) + 0
        /\ Base' + Total(Due, pullerBox') = Base + Total(Due, pullerBox) + 0
    BY <1>1, <1>2, <1>3
  <1>9. 0 \in Int OBVIOUS
  <1>10. QED BY <1>4, <1>5, <1>6, <1>7, <1>8, <1>9, AccountsMove

LEMMA AccountsChange ==
    ASSUME Typed, Typed', Accounts, count' \in CountType, NEW r \in Int, NEW f \in Int, NEW p \in Int, NEW w \in Int,
           NEW b \in Int, NEW d \in Int, Changes(r, f, p, w, b, d), r + f = p + w, NEW o \in Int, b + d = o, OwedChanges(o),
           Running(Base', Due, pullerBox'), Running(finder'.requested, FinderDue, finderBox'), RevokedCounted'
    PROVE  Accounts'
  <1>1. /\ Total(Wants, pullerBox) \in Nat /\ Total(Due, pullerBox) \in Int /\ Total(FinderDue, finderBox) \in Int
        /\ Base \in Nat /\ finder.requested \in Nat /\ count.pending \in Nat /\ Cardinality(owed) \in Nat
    BY AccountNumbers, Zenon
  <1>2. PICK a \in Int : a = r + f OBVIOUS
  <1>3. finder'.requested + Total(FinderDue, finderBox') = finder.requested + Total(FinderDue, finderBox) + a
    <2>1. finder'.requested = finder.requested + r /\ Total(FinderDue, finderBox') = Total(FinderDue, finderBox) + f
      BY DEF Changes
    <2>2. QED BY <1>1, <1>2, <2>1
  <1>4. count'.pending + Total(Wants, pullerBox') = count.pending + Total(Wants, pullerBox) + a
    <2>1. count'.pending = count.pending + p /\ Total(Wants, pullerBox') = Total(Wants, pullerBox) + w
      BY DEF Changes
    <2>2. QED BY <1>1, <1>2, <2>1
  <1>5. Base' + Total(Due, pullerBox') = Base + Total(Due, pullerBox) + o
    <2>1. Base' = Base + b /\ Total(Due, pullerBox') = Total(Due, pullerBox) + d
      BY DEF Changes
    <2>2. QED BY <1>1, <2>1
  <1>6. /\ Cardinality(owed') <= Cardinality(owed) + o
        /\ link' = "open" => link = "open" /\ Cardinality(owed') = Cardinality(owed) + o
    BY DEF OwedChanges
  <1>7. finder'.revoked >= Total(Revokes, pullerBox') + Len(waiting'.revoked) + count'.unfinishedRevoked
                              + Total(Handles, finderBox')
    BY DEF RevokedCounted
  <1>8. QED BY <1>3, <1>4, <1>5, <1>6, <1>7, AccountsMove

LEMMA OwedStays ==
    ASSUME Typed, owed' = owed, link' = link
    PROVE  OwedChanges(0)
  <1>1. Cardinality(owed) \in Nat BY Finite DEF Typed
  <1>2. QED BY <1>1 DEF OwedChanges

LEMMA RevokedIsCounted == Accounts => RevokedCounted
  BY DEF Accounts, RevokedCounted
LEMMA AccountsInit == Init => Accounts
  <1> SUFFICES ASSUME Init PROVE Accounts OBVIOUS
  <1>1. /\ count = [pending |-> 0, active |-> 0, unfinished |-> 0, activeRevoked |-> 0, unfinishedRevoked |-> 0]
        /\ finder.requested = 0 /\ finder.revoked = 0 /\ finderBox = << >> /\ pullerBox = << >> /\ owed = {}
        /\ waiting.revs = << >> /\ waiting.revoked = << >>
    BY DEF Init
  <1>2. /\ Total(Wants, << >>) = 0 /\ Total(Due, << >>) = 0 /\ Total(Revokes, << >>) = 0
        /\ Total(FinderDue, << >>) = 0 /\ Total(Handles, << >>) = 0
    BY Weights, TotalOfNone, Zenon
  <1>3. Cardinality({}) = 0 BY FS_EmptySet
  <1>4. Base = 0 /\ count \in CountType BY <1>1 DEF Base, CountType
  <1>5. \A w : Running(0, w, << >>)
    <2>1. TAKE w
    <2>2. PICK g : g = [k \in 0 .. 0 |-> 0] OBVIOUS
    <2>3. g \in [0 .. 0 -> Int] /\ g[0] = 0 /\ (\A k \in 0 .. 0 : g[k] >= 0) /\ Len(<< >>) = 0 /\ \A k \in 1 .. 0 : FALSE
      BY <2>2
    <2>4. g \in SumsOf(0, w, << >>) BY <2>3 DEF SumsOf
    <2>5. QED BY <2>3, <2>4 DEF Running
  <1>6. Len(<< >>) = 0 OBVIOUS
  <1>7. finder.requested + Total(FinderDue, finderBox) = count.pending + Total(Wants, pullerBox)
        /\ Base + Total(Due, pullerBox) = Cardinality(owed)
    BY <1>1, <1>2, <1>3, <1>4
  <1>8. Base + Total(Due, pullerBox) >= Cardinality(owed)
    BY <1>1, <1>2, <1>3, <1>4
  <1>9. finder.revoked >= Total(Revokes, pullerBox) + Len(waiting.revoked) + count.unfinishedRevoked + Total(Handles, finderBox)
    BY <1>1, <1>2, <1>6
  <1>10. QED BY <1>1, <1>4, <1>5, <1>7, <1>8, <1>9 DEF Accounts

LEMMA AccountsStutter == IInv /\ Accounts /\ UNCHANGED vars => Accounts'
  <1> SUFFICES ASSUME IInv, Accounts, UNCHANGED vars PROVE Accounts' OBVIOUS
  <1>1. UNCHANGED <<count, finder, finderBox, pullerBox, waiting, owed, link>>
    BY DEF vars, peer, puller
  <1>2. QED BY <1>1 DEF Accounts, Base

(* Steps that touch no counter.                                            *)
LEMMA AccountsQuiet ==
    ASSUME Typed, Typed', Accounts, UNCHANGED <<count, finder, waiting>>,
           SameDue(pullerBox, pullerBox'), finderBox' = finderBox, UNCHANGED <<owed, link>>
    PROVE  Accounts'
  <1>1. finderBox \in Seq(FinderMail) /\ count \in CountType
    BY DEF Typed, Accounts
  <1>2. SameFinderDue(finderBox, finderBox') BY <1>1, FinderDueSame
  <1>3. /\ finder'.requested = finder.requested /\ finder'.revoked = finder.revoked /\ count' \in CountType
        /\ count'.pending = count.pending /\ count'.unfinishedRevoked = count.unfinishedRevoked
        /\ Len(waiting'.revs) = Len(waiting.revs) /\ Len(waiting'.revoked) = Len(waiting.revoked)
        /\ owed' = owed /\ link' = link
    BY <1>1
  <1>4. QED BY <1>2, <1>3, AccountsStay

LEMMA HandledBox ==
    ASSUME NEW id, NEW box \in Seq(PullerMail), RevWasHandled(id, box)
    PROVE  SameDue(box, pullerBox')
  <1>1. IsLight([t |-> "revsFinished"]) BY LightMessages
  <1>2. SameDue(box, Append(box, [t |-> "revsFinished"])) /\ SameDue(box, box)
    BY <1>1, LightAppended, SameDueItself
  <1>3. QED BY <1>2 DEF RevWasHandled

LEMMA DispatchBox ==
    ASSUME NEW box \in Seq(PullerMail), NEW id, NEW m,
           \/ \E delta \in BOOLEAN : InsertRevision(id, delta, box)
           \/ \E causes \in SUBSET AllFaults : FailWithError(id, causes, box)
           \/ HandleRevMessage(m, box) \/ HandleRevokedDoc(id, box)
    PROVE  SameDue(box, pullerBox')
  <1>1. SameDue(box, box) BY SameDueItself
  <1>2. pullerBox' = box \/ \E j : RevWasHandled(j, box)
    <2>1. CASE \E delta \in BOOLEAN : InsertRevision(id, delta, box)
      BY <2>1 DEF InsertRevision
    <2>2. CASE \E causes \in SUBSET AllFaults : FailWithError(id, causes, box)
      BY <2>2, Zenon DEF FailWithError
    <2>3. CASE HandleRevMessage(m, box)
      BY <2>3, Zenon DEF HandleRevMessage, FailWithError, InsertRevision
    <2>4. CASE HandleRevokedDoc(id, box)
      BY <2>4, Zenon DEF HandleRevokedDoc, FailWithError, InsertRevision
    <2>5. QED BY <2>1, <2>2, <2>3, <2>4
  <1>3. QED BY <1>1, <1>2, HandledBox

LEMMA AccountsOfWorkers ==
    ASSUME IInv, IInv', Accounts,
           \/ \E id \in Ids : ParseAndInsert(id) \/ Return(id)
           \/ InsertRevisionsNow \/ InsertOne \/ \E ok \in BOOLEAN : Commit(ok)
    PROVE  Accounts'
  <1>1. Typed /\ Typed' /\ pullerBox \in Seq(PullerMail) BY DEF IInv, Typed
  <1>2. SameDue(pullerBox, pullerBox) BY <1>1, SameDueItself
  <1>3. UNCHANGED <<count, finder, waiting, finderBox, owed, link>>
    BY DEF ParseAndInsert, Return, InsertRevisionsNow, InsertOne, Commit, peer, puller
  <1>4. SameDue(pullerBox, pullerBox')
    <2>1. ASSUME NEW id \in Ids, ParseAndInsert(id) PROVE SameDue(pullerBox, pullerBox')
      <3>1. {"invalid", "blob"} \in SUBSET AllFaults /\ FALSE \in BOOLEAN
        BY DEF AllFaults
      <3>2. InsertRevision(id, FALSE, pullerBox) \/ FailWithError(id, {"invalid", "blob"}, pullerBox)
        BY <2>1 DEF ParseAndInsert
      <3>3. QED BY <1>1, <3>1, <3>2, DispatchBox
    <2>2. ASSUME NEW id \in Ids, Return(id) PROVE SameDue(pullerBox, pullerBox')
      BY <1>1, <2>2, HandledBox DEF Return
    <2>3. CASE InsertRevisionsNow \/ \E ok \in BOOLEAN : Commit(ok)
      <3>1. pullerBox' = pullerBox
        BY <2>3 DEF InsertRevisionsNow, Commit, puller
      <3>2. QED BY <1>2, <3>1
    <2>4. CASE InsertOne
      <3>1. pullerBox' = pullerBox \/ pullerBox' = Append(pullerBox, [t |-> "provisionallyHandled"])
        BY <2>4 DEF InsertOne
      <3>2. IsLight([t |-> "provisionallyHandled"]) BY LightMessages
      <3>3. QED BY <1>1, <1>2, <3>1, <3>2, LightAppended
    <2>5. QED BY <2>1, <2>2, <2>3, <2>4
  <1>5. QED BY <1>1, <1>3, <1>4, AccountsQuiet

LEMMA AccountsOfLink == 
    ASSUME IInv, IInv', Accounts, Reply \/ Announce \/ AnnounceEnd \/ Close \/ OnClose
    PROVE  Accounts'
  <1>1. Typed /\ Typed' /\ pullerBox \in Seq(PullerMail) /\ finderBox \in Seq(FinderMail) /\ count \in CountType
    BY DEF IInv, Typed, Accounts
  <1>2. SameDue(pullerBox, pullerBox) /\ SameFinderDue(finderBox, finderBox)
    BY <1>1, SameDueItself, FinderDueSame
  <1>3. UNCHANGED <<count, finder, waiting>>
    BY DEF Reply, Announce, AnnounceEnd, Close, OnClose, puller
  <1>4. CASE Announce \/ AnnounceEnd
    <2>1. pullerBox' = pullerBox /\ owed' = owed /\ link' = link
      BY <1>4 DEF Announce, AnnounceEnd, puller
    <2>2. announced \in Nat /\ N \in Nat BY <1>1, Numbers DEF Typed
    <2>3. PICK m \in ChangesMail : finderBox' = Append(finderBox, m)
      <3>1. CASE Announce
        <4>1. PICK n \in 1 .. ListSize : finderBox' = Append(finderBox, [t |-> "changes", first |-> announced + 1, last |-> announced + n])
          BY <3>1 DEF Announce
        <4>2. [t |-> "changes", first |-> announced + 1, last |-> announced + n] \in ChangesMail
          BY <2>2 DEF ChangesMail
        <4>3. QED BY <4>1, <4>2
      <3>2. CASE AnnounceEnd
        <4>1. [t |-> "changes", first |-> announced + 1, last |-> announced] \in ChangesMail
          BY <2>2 DEF ChangesMail
        <4>2. QED BY <3>2, <4>1 DEF AnnounceEnd
      <3>3. QED BY <1>4, <3>1, <3>2
    <2>4. SameFinderDue(finderBox, finderBox') BY <1>1, <2>3, FinderDueSame
    <2>5. QED BY <1>1, <1>2, <1>3, <2>1, <2>4, AccountsStay
  <1>5. CASE Close
    <2>1. pullerBox' = pullerBox /\ finderBox' = finderBox /\ owed' = {} /\ link' # "open"
      BY <1>5 DEF Close, puller
    <2>2. QED BY <1>1, <1>2, <1>3, <2>1, AccountsStay
  <1>6. CASE OnClose \/ Reply
    <2>1. PICK t \in LightTypes : pullerBox' = Append(pullerBox, [t |-> t])
      BY <1>6 DEF OnClose, Reply, LightTypes
    <2>2. finderBox' = finderBox /\ owed' = owed /\ (link' = link \/ link' # "open")
      BY <1>6 DEF OnClose, Reply, peer
    <2>3. SameDue(pullerBox, pullerBox') BY <1>1, <2>1, LightMessages, LightAppended
    <2>4. QED BY <1>1, <1>2, <1>3, <2>2, <2>3, AccountsStay
  <1>7. QED BY <1>4, <1>5, <1>6

(* The peer sends a revision that it owes, or says that it has none.       *)
LEMMA AccountsOfSend ==
    ASSUME IInv, IInv', Accounts, NEW id \in Ids, SendNoRev(id) \/ \E form \in AllForms : SendRev(id, form)
    PROVE  Accounts'
  <1>1. Typed /\ Typed' /\ pullerBox \in Seq(PullerMail) /\ finderBox \in Seq(FinderMail) /\ count \in CountType
    BY DEF IInv, Typed, Accounts
  <1>2. id \in owed /\ owed' = owed \ {id} /\ UNCHANGED <<count, finder, finderBox, waiting, link>>
    BY DEF SendRev, SendNoRev
  <1>3. PICK m \in PullerMail : m.t \in {"rev", "norev"} /\ pullerBox' = Append(pullerBox, m)
    <2>1. CASE SendNoRev(id)
      <3>1. [t |-> "norev", id |-> id] \in PullerMail BY DEF PullerMail
      <3>2. QED BY <2>1, <3>1 DEF SendNoRev
    <2>2. CASE \E form \in AllForms : SendRev(id, form)
      <3>1. PICK form \in AllForms : SendRev(id, form) BY <2>2
      <3>2. [t |-> "rev", id |-> id, form |-> form] \in PullerMail
        BY DEF PullerMail, RevMail
      <3>3. QED BY <3>1, <3>2 DEF SendRev
    <2>3. QED BY <2>1, <2>2
  <1>4. Wants[m] = 0 /\ Due[m] = -1 /\ Revokes[m] = 0 BY <1>3, WeightOf
  <1>5. /\ Total(Wants, pullerBox) \in Nat /\ Total(Due, pullerBox) \in Int /\ Total(Revokes, pullerBox) \in Nat
        /\ Total(FinderDue, finderBox) \in Int /\ Total(Handles, finderBox) \in Nat
        /\ Cardinality(owed) \in Nat /\ Base \in Int /\ finder.requested \in Int /\ count.pending \in Int
    BY <1>1, AccountNumbers
  <1>6. Cardinality(owed') = Cardinality(owed) - 1
    <2>1. IsFiniteSet(owed) BY <1>1, Finite DEF Typed
    <2>2. QED BY <1>2, <2>1, FS_RemoveElement
  <1>7. Cardinality(owed') \in Nat BY <1>1, Finite DEF Typed
  <1>8. Base + Total(Due, pullerBox) >= Cardinality(owed) BY DEF Accounts
  <1>9. Base + Total(Due, pullerBox) + Due[m] >= 0
    BY <1>4, <1>5, <1>6, <1>7, <1>8
  <1>10. Base' = Base BY <1>2 DEF Base
  <1>11. /\ Total(Wants, pullerBox') = Total(Wants, pullerBox) + 0 /\ Total(Due, pullerBox') = Total(Due, pullerBox) + (-1)
         /\ Total(Revokes, pullerBox') = Total(Revokes, pullerBox) + 0
    BY <1>1, <1>3, <1>4, PullerGets DEF Adds3
  <1>12. Running(Base', Due, pullerBox')
    BY <1>1, <1>3, <1>5, <1>9, <1>10, PullerGets DEF Accounts
  <1>13. Running(finder'.requested, FinderDue, finderBox')
    BY <1>2 DEF Accounts
  <1>14. RevokedCounted'
    <2>1. Total(Revokes, pullerBox') = Total(Revokes, pullerBox)
      BY <1>5, <1>11
    <2>2. QED BY <1>2, <2>1, RevokedIsCounted DEF RevokedCounted
  <1>15. Changes(0, 0, 0, 0, 0, -1) BY <1>2, <1>5, <1>10, <1>11 DEF Changes
  <1>16. Cardinality(owed') <= Cardinality(owed) + (-1) /\ Cardinality(owed') = Cardinality(owed) + (-1)
    BY <1>5, <1>6, <1>7
  <1>17. OwedChanges(-1) BY <1>2, <1>16 DEF OwedChanges
  <1>18. 0 \in Int /\ -1 \in Int /\ 0 + 0 = 0 + 0 /\ 0 + (-1) = -1 /\ count' \in CountType
    BY <1>1, <1>2
  <1>19. QED BY <1>1, <1>12, <1>13, <1>14, <1>15, <1>17, <1>18, AccountsChange
-----------------------------------------------------------------------------

LEMMA FaultStays ==
    ASSUME faults \in 0 .. MaxFaults, faults' = faults \/ \E f \in AllFaults : Fault(f)
    PROVE  faults' \in 0 .. MaxFaults
  <1>1. MaxFaults \in Nat BY PullerAssumption
  <1>2. faults' = faults \/ (faults < MaxFaults /\ faults' = faults + 1)
    BY DEF Fault
  <1>3. QED BY <1>1, <1>2

LEMMA LevelStays ==
    ASSUME OthersTyped, AfterEvent
    PROVE  level' \in {"busy", "idle", "stopped"} /\ released' \in BOOLEAN
  <1>1. ComputeActivityLevel' \in {"busy", "idle", "stopped"}
    BY DEF ComputeActivityLevel
  <1>2. level' \in {"busy", "idle", "stopped"}
    BY <1>1 DEF AfterEvent, OthersTyped
  <1>3. released' \in BOOLEAN
    <2>1. released' = (released \/ level' = "stopped")
      BY DEF AfterEvent
    <2>2. QED BY <2>1, Zenon
  <1>4. QED BY <1>2, <1>3

LEMMA HandledFaults ==
    ASSUME NEW m, NEW id, NEW box,
           \/ HandleRevMessage(m, box) \/ HandleRevokedDoc(id, box) \/ ParseAndInsert(id)
    PROVE  faults' = faults \/ \E f \in AllFaults : Fault(f)
  <1>1. ASSUME NEW j, NEW causes \in SUBSET AllFaults, FailWithError(j, causes, box) PROVE \E f \in AllFaults : Fault(f)
    BY <1>1, Zenon DEF FailWithError
  <1>2. ASSUME NEW j, NEW causes \in SUBSET AllFaults, FailWithError(j, causes, pullerBox) PROVE \E f \in AllFaults : Fault(f)
    BY <1>2, Zenon DEF FailWithError
  <1>3. {"invalid"} \in SUBSET AllFaults /\ {"invalid", "blob"} \in SUBSET AllFaults
    BY DEF AllFaults
  <1>4. QED BY <1>1, <1>2, <1>3, Zenon DEF HandleRevMessage, HandleRevokedDoc, ParseAndInsert, InsertRevision

LEMMA OthersInit == Init => OthersTyped
  <1> SUFFICES ASSUME Init PROVE OthersTyped OBVIOUS
  <1>1. faults \in 0 .. MaxFaults BY PullerAssumption DEF Init
  <1>2. provisional \in [revs : Nat, revoked : Nat] BY DEF Init
  <1>3. N + 1 \in 0 .. N + 1 BY PullerAssumption
  <1>4. QED BY <1>1, <1>2, <1>3 DEF Init, OthersTyped

LEMMA OthersStay ==
    ASSUME OthersTyped, IInv, [Next]_vars
    PROVE  OthersTyped'
  <1>1. CASE UNCHANGED vars
    BY <1>1 DEF OthersTyped, vars, peer, puller, workers, history
  <1>2. CASE PeerNext
    <2>1. UNCHANGED <<pc, level, caughtUp, connected, released, provisional>>
      BY <1>2 DEF PeerNext, Reply, Announce, AnnounceEnd, SendRev, SendNoRev, Close, OnClose, puller, workers
    <2>2. link' \in {"open", "closing", "closed"} /\ subChanges' \in {"asked", "accepted", "refused", "active", "failed"}
      BY <1>2 DEF OthersTyped, PeerNext, Reply, Announce, AnnounceEnd, SendRev, SendNoRev, Close, OnClose, peer, puller
    <2>3. backlog' \in 0 .. N + 1
      <3>1. backlog' = backlog \/ backlog' = announced
        BY <1>2 DEF PeerNext, Reply, Announce, AnnounceEnd, SendRev, SendNoRev, Close, OnClose, peer
      <3>2. QED BY <3>1, PullerAssumption DEF OthersTyped, IInv, Typed
    <2>4. faults' = faults \/ \E f \in AllFaults : Fault(f)
      BY <1>2 DEF PeerNext, Reply, Announce, AnnounceEnd, SendRev, SendNoRev, Close, OnClose, history, AllFaults
    <2>5. QED BY <2>1, <2>2, <2>3, <2>4, FaultStays DEF OthersTyped
  <1>3. CASE FinderNext
    <2>1. UNCHANGED <<pc, level, caughtUp, connected, released, provisional, backlog, subChanges, link>>
      BY <1>3 DEF FinderNext, HandleChanges, RevReceived, HandleWaitingChanges, HandleChangesNow, peer, puller, workers
    <2>2. faults' = faults \/ \E f \in AllFaults : Fault(f)
      BY <1>3 DEF FinderNext, HandleChanges, RevReceived, HandleWaitingChanges, HandleChangesNow, history, AllFaults
    <2>3. QED BY <2>1, <2>2, FaultStays DEF OthersTyped
  <1>4. CASE WorkerNext
    <2>1. UNCHANGED <<pc, level, caughtUp, connected, released, backlog, subChanges, link>>
      BY <1>4 DEF WorkerNext, ParseAndInsert, DeltaFails, Return, InsertRevisionsNow, InsertOne, InsertFails, Commit, peer, puller
    <2>2. faults' = faults \/ \E f \in AllFaults : Fault(f)
      <3>1. ASSUME NEW id \in Ids, ParseAndInsert(id) PROVE faults' = faults \/ \E f \in AllFaults : Fault(f)
        BY <3>1, HandledFaults
      <3>2. ASSUME NEW id \in Ids, DeltaFails(id) \/ Return(id) PROVE faults' = faults \/ \E f \in AllFaults : Fault(f)
        BY <3>2 DEF DeltaFails, Return, history, AllFaults
      <3>3. ASSUME NEW ok \in BOOLEAN, Commit(ok) PROVE faults' = faults \/ \E f \in AllFaults : Fault(f)
        BY <3>3 DEF Commit, AllFaults
      <3>4. CASE InsertRevisionsNow \/ InsertOne \/ InsertFails
        BY <3>4 DEF InsertRevisionsNow, InsertOne, InsertFails, history, AllFaults
      <3>5. QED BY <1>4, <3>1, <3>2, <3>3, <3>4 DEF WorkerNext
    <2>3. provisional' \in [revs : Nat, revoked : Nat]
      <3>1. CASE provisional' = provisional BY <3>1 DEF OthersTyped
      <3>2. CASE InsertOne
        <4>1. PICK c \in {"revs", "revoked"} : provisional' = [provisional EXCEPT ![c] = provisional[c] + 1]
          BY <3>2 DEF InsertOne, HandledProvisionally
        <4>2. QED BY <4>1 DEF OthersTyped
      <3>3. QED BY <1>4, <3>1, <3>2 DEF WorkerNext, ParseAndInsert, DeltaFails, Return, InsertRevisionsNow, InsertFails, Commit
    <2>4. QED BY <2>1, <2>2, <2>3, FaultStays DEF OthersTyped
  <1>5. CASE PullerNext
    <2>1. UNCHANGED <<link, backlog>>
      BY <1>5 DEF PullerNext, HandleRev, DocumentsRevoked, StartWaitingRev, StartWaitingRevoked, ExpectSequences, HandleNoRev,
            RevReRequested, RevsWereProvisionallyHandled, RevsFinished, SubChangesReply, SetCaughtUp, ConnectionClosed, peer
    <2>2. pc' = pc \/ pc' \in {"idle", "starting"}
      BY <1>5 DEF PullerNext, HandleRev, DocumentsRevoked, StartWaitingRev, StartWaitingRevoked, ExpectSequences, HandleNoRev,
            RevReRequested, RevsWereProvisionallyHandled, RevsFinished, SubChangesReply, SetCaughtUp, ConnectionClosed, MaybeStartIncomingRevs
    <2>3. level' \in {"busy", "idle", "stopped"} /\ released' \in BOOLEAN
      <3>1. AfterEvent \/ UNCHANGED <<level, released>>
        BY <1>5 DEF PullerNext, HandleRev, DocumentsRevoked, StartWaitingRev, StartWaitingRevoked, ExpectSequences, HandleNoRev,
              RevReRequested, RevsWereProvisionallyHandled, RevsFinished, SubChangesReply, SetCaughtUp, ConnectionClosed
      <3>2. QED BY <3>1, LevelStays DEF OthersTyped
    <2>4. caughtUp' \in BOOLEAN /\ connected' \in BOOLEAN /\ subChanges' \in {"asked", "accepted", "refused", "active", "failed"}
      BY <1>5 DEF OthersTyped, PullerNext, HandleRev, DocumentsRevoked, StartWaitingRev, StartWaitingRevoked, ExpectSequences,
            HandleNoRev, RevReRequested, RevsWereProvisionallyHandled, RevsFinished, SubChangesReply, SetCaughtUp, ConnectionClosed
    <2>5. ASSUME NEW m, NEW box, StartIncomingRev(m, box)
          PROVE  provisional' = provisional /\ (faults' = faults \/ \E f \in AllFaults : Fault(f))
      <3>1. CASE HandleRevMessage(m, box)
        BY <3>1, HandledFaults DEF HandleRevMessage
      <3>2. QED BY <2>5, <3>1 DEF StartIncomingRev, workers, history
    <2>6. ASSUME NEW s, NEW box, StartRevoked(s, box)
          PROVE  provisional' = provisional /\ (faults' = faults \/ \E f \in AllFaults : Fault(f))
      <3>1. CASE HandleRevokedDoc(<<s, 1>>, box)
        BY <3>1, HandledFaults DEF HandleRevokedDoc
      <3>2. QED BY <2>6, <3>1 DEF StartRevoked, workers, history
    <2>7. provisional' \in [revs : Nat, revoked : Nat] /\ (faults' = faults \/ \E f \in AllFaults : Fault(f))
      <3>1. CASE UNCHANGED <<provisional, faults>> BY <3>1 DEF OthersTyped
      <3>2. CASE HandleRev \/ StartWaitingRev
        <4>1. (\E m, box : StartIncomingRev(m, box)) \/ UNCHANGED <<workers, history>>
          BY <3>2, Zenon DEF HandleRev, StartWaitingRev
        <4>2. QED BY <2>5, <3>1, <4>1 DEF workers, history, OthersTyped
      <3>3. CASE DocumentsRevoked \/ StartWaitingRevoked
        <4>1. (\E s, box : StartRevoked(s, box)) \/ UNCHANGED <<workers, history>>
          BY <3>3, Zenon DEF DocumentsRevoked, StartWaitingRevoked
        <4>2. QED BY <2>6, <3>1, <4>1 DEF workers, history, OthersTyped
      <3>4. CASE RevsWereProvisionallyHandled
        BY <3>4 DEF RevsWereProvisionallyHandled, history
      <3>5. QED BY <1>5, <3>1, <3>2, <3>3, <3>4
              DEF PullerNext, ExpectSequences, HandleNoRev, RevReRequested, RevsFinished, SubChangesReply, SetCaughtUp, ConnectionClosed,
                  workers, history
    <2>8. QED BY <2>1, <2>2, <2>3, <2>4, <2>7, FaultStays DEF OthersTyped
  <1>6. QED BY <1>1, <1>2, <1>3, <1>4, <1>5 DEF Next

(* The Puller takes a message: its counters change by what it is worth.    *)
LEMMA PullerTakes ==
    ASSUME Typed, Accounts, pullerBox # << >>, SameDue(Tail(pullerBox), pullerBox'),
           NEW w \in Int, NEW d \in Int, NEW r \in Int,
           Wants[Head(pullerBox)] = w, Due[Head(pullerBox)] = d, Revokes[Head(pullerBox)] = r
    PROVE  /\ Total(Wants, pullerBox') = Total(Wants, pullerBox) - w /\ Total(Due, pullerBox') = Total(Due, pullerBox) - d
           /\ Total(Revokes, pullerBox') = Total(Revokes, pullerBox) - r
           /\ Base + d \in Nat /\ Running(Base + d, Due, pullerBox')
  <1>1. pullerBox \in Seq(PullerMail) /\ Base \in Nat
    BY AccountNumbers DEF Typed
  <1>2. PICK t : t = Tail(pullerBox) OBVIOUS
  <1>3. t \in Seq(PullerMail) /\ Adds3(t, pullerBox, w, d, r) /\ \A b \in Int : Running(b, Due, pullerBox) => Running(b + d, Due, t)
    BY <1>1, <1>2, PullerLoses
  <1>4. /\ Total(Wants, t) \in Nat /\ Total(Due, t) \in Int /\ Total(Revokes, t) \in Nat
    BY <1>3, Totals
  <1>5. Adds3(t, pullerBox', 0, 0, 0) /\ \A b \in Int : Running(b, Due, t) => Running(b, Due, pullerBox')
    BY <1>2 DEF SameDue
  <1>6. Running(Base, Due, pullerBox) BY DEF Accounts
  <1>7. Running(Base + d, Due, t) BY <1>1, <1>3, <1>6
  <1>8. Len(t) \in Nat BY <1>3
  <1>9. Base + d \in Nat BY <1>7, <1>8, RunningFrom
  <1>10. Running(Base + d, Due, pullerBox') BY <1>5, <1>7, <1>9
  <1>11. /\ Total(Wants, pullerBox') = Total(Wants, t) /\ Total(Due, pullerBox') = Total(Due, t)
         /\ Total(Revokes, pullerBox') = Total(Revokes, t)
    BY <1>4, <1>5 DEF Adds3
  <1>12. /\ Total(Wants, pullerBox) = Total(Wants, t) + w /\ Total(Due, pullerBox) = Total(Due, t) + d
         /\ Total(Revokes, pullerBox) = Total(Revokes, t) + r
    BY <1>3 DEF Adds3
  <1>13. QED BY <1>4, <1>9, <1>10, <1>11, <1>12

(* The RevFinder is told that a revision has come, or will come again.     *)
LEMMA FinderIsTold ==
    ASSUME Typed, Accounts, finder' = finder,
           \/ count.pending > 0 /\ finderBox' = Append(finderBox, [t |-> "revReceived"])
           \/ finderBox' = Append(finderBox, [t |-> "reRequestingRev"])
           \/ finderBox' = finderBox
    PROVE  /\ Running(finder'.requested, FinderDue, finderBox') /\ Total(Handles, finderBox') = Total(Handles, finderBox)
           /\ finderBox' = Append(finderBox, [t |-> "revReceived"]) =>
                  Total(FinderDue, finderBox') = Total(FinderDue, finderBox) + (-1)
           /\ finderBox' = Append(finderBox, [t |-> "reRequestingRev"]) =>
                  Total(FinderDue, finderBox') = Total(FinderDue, finderBox) + 1
           /\ finderBox' = finderBox => Total(FinderDue, finderBox') = Total(FinderDue, finderBox) + 0
  <1>1. /\ Total(FinderDue, finderBox) \in Int /\ Total(Handles, finderBox) \in Nat /\ Total(Wants, pullerBox) \in Nat
        /\ finder.requested \in Nat /\ count.pending \in Nat
    BY AccountNumbers, Zenon
  <1>2. finderBox \in Seq(FinderMail) /\ Running(finder.requested, FinderDue, finderBox)
        /\ finder.requested + Total(FinderDue, finderBox) = count.pending + Total(Wants, pullerBox)
    BY DEF Typed, Accounts
  <1>3. ASSUME NEW m \in FinderMail, NEW f \in Int, FinderDue[m] = f, Handles[m] = 0, finderBox' = Append(finderBox, m),
               count.pending + f >= 0
        PROVE  /\ Running(finder'.requested, FinderDue, finderBox') /\ Total(Handles, finderBox') = Total(Handles, finderBox)
               /\ Total(FinderDue, finderBox') = Total(FinderDue, finderBox) + f
    <2>1. /\ Adds2(finderBox, finderBox', f, 0)
          /\ \A b \in Int : Running(b, FinderDue, finderBox) /\ b + Total(FinderDue, finderBox) + f >= 0
                 => Running(b, FinderDue, finderBox')
      BY <1>2, <1>3, FinderGets
    <2>2. finder.requested + Total(FinderDue, finderBox) + f >= 0 /\ finder.requested \in Int
      BY <1>1, <1>2, <1>3
    <2>3. Running(finder.requested, FinderDue, finderBox')
      BY <1>2, <2>1, <2>2
    <2>4. QED BY <1>1, <2>1, <2>3 DEF Adds2
  <1>4. PICK a : a = [t |-> "revReceived"] OBVIOUS
  <1>5. PICK c : c = [t |-> "reRequestingRev"] OBVIOUS
  <1>6. a \in FinderMail /\ FinderDue[a] = -1 /\ Handles[a] = 0
    <2>1. a \in FinderMail /\ a.t = "revReceived" BY <1>4 DEF FinderMail
    <2>2. QED BY <2>1, FinderWeightOf
  <1>7. c \in FinderMail /\ FinderDue[c] = 1 /\ Handles[c] = 0
    <2>1. c \in FinderMail /\ c.t = "reRequestingRev" BY <1>5 DEF FinderMail
    <2>2. QED BY <2>1, FinderWeightOf
  <1>8. Append(finderBox, a) # Append(finderBox, c) /\ Append(finderBox, a) # finderBox /\ Append(finderBox, c) # finderBox
    <2>1. a.t # c.t BY <1>4, <1>5
    <2>2. a # c BY <2>1
    <2>3. ASSUME NEW x PROVE Len(Append(finderBox, x)) = Len(finderBox) + 1 /\ Append(finderBox, x)[Len(finderBox) + 1] = x
      BY <1>2
    <2>4. QED BY <1>2, <2>2, <2>3
  <1>9. CASE finderBox' = finderBox BY <1>1, <1>2, <1>4, <1>5, <1>8, <1>9
  <1>10. CASE count.pending > 0 /\ finderBox' = Append(finderBox, a)
    <2>1. count.pending + (-1) >= 0 /\ -1 \in Int BY <1>1, <1>10
    <2>2. /\ Running(finder'.requested, FinderDue, finderBox') /\ Total(Handles, finderBox') = Total(Handles, finderBox)
          /\ Total(FinderDue, finderBox') = Total(FinderDue, finderBox) + (-1)
      BY <1>3, <1>6, <1>10, <2>1
    <2>3. QED BY <1>4, <1>5, <1>8, <1>10, <2>2, Zenon
  <1>11. CASE finderBox' = Append(finderBox, c)
    <2>1. count.pending + 1 >= 0 /\ 1 \in Int BY <1>1
    <2>2. /\ Running(finder'.requested, FinderDue, finderBox') /\ Total(Handles, finderBox') = Total(Handles, finderBox)
          /\ Total(FinderDue, finderBox') = Total(FinderDue, finderBox) + 1
      BY <1>3, <1>7, <1>11, <2>1
    <2>3. QED BY <1>4, <1>5, <1>8, <1>11, <2>2, Zenon
  <1>12. QED BY <1>4, <1>5, <1>9, <1>10, <1>11, Zenon

LEMMA AccountsOfPlain ==
    ASSUME IInv, IInv', Accounts, OthersTyped, SubChangesReply \/ SetCaughtUp \/ ConnectionClosed \/ RevsWereProvisionallyHandled
    PROVE  Accounts'
  <1>1. Typed /\ Typed' /\ pullerBox \in Seq(PullerMail) /\ finderBox \in Seq(FinderMail) /\ count \in CountType
    BY DEF IInv, Typed, Accounts
  <1>2. /\ pullerBox # << >> /\ Head(pullerBox).t \in {"subChangesReply", "caughtUp", "connectionClosed", "provisionallyHandled"}
        /\ pullerBox' = Tail(pullerBox)
        /\ UNCHANGED <<peer, finder, finderBox, waiting>>
    BY DEF SubChangesReply, SetCaughtUp, ConnectionClosed, RevsWereProvisionallyHandled, Receive
  <1>3. IsLight(Head(pullerBox))
    <2>1. Head(pullerBox) \in PullerMail BY <1>1, <1>2, PullerLoses
    <2>2. QED BY <1>2, <2>1, WeightOf DEF IsLight
  <1>4. SameDue(pullerBox, pullerBox') /\ SameFinderDue(finderBox, finderBox')
    BY <1>1, <1>2, <1>3, LightTaken, FinderDueSame
  <1>5. count' \in CountType /\ count'.pending = count.pending /\ count'.unfinishedRevoked = count.unfinishedRevoked
    <2>1. CASE count' = count BY <1>1, <2>1
    <2>2. CASE RevsWereProvisionallyHandled
      <3>1. PICK a \in Int, b \in Int : a = count.active - provisional.revs /\ b = count.activeRevoked - provisional.revoked
        BY <1>1 DEF OthersTyped, CountType
      <3>2. count' = [count EXCEPT !.active = a, !.activeRevoked = b]
        BY <2>2, <3>1, Zenon DEF RevsWereProvisionallyHandled
      <3>3. count' = [pending |-> count.pending, active |-> a, unfinished |-> count.unfinished,
                      activeRevoked |-> b, unfinishedRevoked |-> count.unfinishedRevoked]
        BY <1>1, <3>2, CountUpdates, Zenon
      <3>4. QED BY <1>1, <3>3 DEF CountType
    <2>3. QED BY <2>1, <2>2 DEF SubChangesReply, SetCaughtUp, ConnectionClosed
  <1>6. QED BY <1>1, <1>2, <1>4, <1>5, AccountsStay DEF peer
(* An IncomingRev is started, or would be but for the lost connection.     *)
LEMMA StartCounts ==
    ASSUME Accounts, NEW m, NEW box \in Seq(PullerMail), StartIncomingRev(m, box)
    PROVE  /\ count' \in CountType /\ count'.pending = count.pending + (-1)
           /\ count'.unfinishedRevoked = count.unfinishedRevoked
           /\ SameDue(box, pullerBox') /\ finderBox' = Append(finderBox, [t |-> "revReceived"])
  <1>1. count \in CountType BY DEF Accounts
  <1>2. PICK p \in Int, a \in Int, u \in Int : p = count.pending - 1 /\ a = count.active + 1 /\ u = count.unfinished + 1
    BY <1>1 DEF CountType
  <1>3. p = count.pending + (-1) BY <1>1, <1>2 DEF CountType
  <1>4. finderBox' = Append(finderBox, [t |-> "revReceived"])
    BY DEF StartIncomingRev
  <1>5. CASE connected
    <2>1. count' = [count EXCEPT !.pending = p, !.active = a, !.unfinished = u] /\ HandleRevMessage(m, box)
      BY <1>2, <1>5, Zenon DEF StartIncomingRev
    <2>2. count' = [pending |-> p, active |-> a, unfinished |-> u,
                    activeRevoked |-> count.activeRevoked, unfinishedRevoked |-> count.unfinishedRevoked]
      BY <1>1, <2>1, CountStarts, Zenon
    <2>3. SameDue(box, pullerBox') BY <2>1, DispatchBox
    <2>4. count' \in CountType /\ count'.pending = p /\ count'.unfinishedRevoked = count.unfinishedRevoked
      BY <1>1, <2>2 DEF CountType
    <2>5. QED BY <1>3, <1>4, <2>3, <2>4
  <1>6. CASE ~connected
    <2>1. count' = [count EXCEPT !.pending = p] /\ pullerBox' = box
      BY <1>2, <1>6, Zenon DEF StartIncomingRev
    <2>2. count' = [pending |-> p, active |-> count.active, unfinished |-> count.unfinished,
                    activeRevoked |-> count.activeRevoked, unfinishedRevoked |-> count.unfinishedRevoked]
      BY <1>1, <2>1, CountUpdates, Zenon
    <2>3. SameDue(box, pullerBox') BY <2>1, SameDueItself
    <2>4. count' \in CountType /\ count'.pending = p /\ count'.unfinishedRevoked = count.unfinishedRevoked
      BY <1>1, <2>2 DEF CountType
    <2>5. QED BY <1>3, <1>4, <2>3, <2>4
  <1>7. QED BY <1>5, <1>6

(* The Puller handles a "rev" or "norev", and tells the RevFinder.         *)
LEMMA AccountsOfArrival ==
    ASSUME IInv, IInv', Accounts, pullerBox # << >>, Head(pullerBox).t \in {"rev", "norev"},
           SameDue(Tail(pullerBox), pullerBox'), UNCHANGED <<owed, link, finder, waiting>>,
           finderBox' = Append(finderBox, [t |-> "revReceived"]), count' \in CountType,
           count'.pending = count.pending + (-1), count'.unfinishedRevoked = count.unfinishedRevoked
    PROVE  Accounts'
  <1>1. Typed /\ Typed' /\ pullerBox \in Seq(PullerMail) BY DEF IInv, Typed
  <1>2. Head(pullerBox) \in PullerMail BY <1>1, PullerLoses
  <1>3. Wants[Head(pullerBox)] = 0 /\ Due[Head(pullerBox)] = -1 /\ Revokes[Head(pullerBox)] = 0
    BY <1>2, WeightOf
  <1>4. 0 \in Int /\ -1 \in Int /\ 1 \in Int OBVIOUS
  <1>5. /\ Total(Wants, pullerBox') = Total(Wants, pullerBox) - 0 /\ Total(Due, pullerBox') = Total(Due, pullerBox) - (-1)
        /\ Total(Revokes, pullerBox') = Total(Revokes, pullerBox) - 0
        /\ Base + (-1) \in Nat /\ Running(Base + (-1), Due, pullerBox')
    BY <1>1, <1>3, <1>4, PullerTakes
  <1>6. /\ Total(Wants, pullerBox) \in Nat /\ Total(Due, pullerBox) \in Int /\ Total(Revokes, pullerBox) \in Nat
        /\ Base \in Nat /\ finder.requested \in Nat /\ count.pending \in Nat /\ Len(waiting.revs) \in Nat
        /\ Base = count.pending - Len(waiting.revs)
    BY <1>1, AccountNumbers, Zenon
  <1>7. count.pending > 0 BY <1>5, <1>6
  <1>8. Base' = Base + (-1)
    <2>1. Base' = count'.pending - Len(waiting'.revs) BY DEF Base
    <2>2. QED BY <1>6, <2>1
  <1>9. /\ Running(finder'.requested, FinderDue, finderBox') /\ Total(Handles, finderBox') = Total(Handles, finderBox)
        /\ Total(FinderDue, finderBox') = Total(FinderDue, finderBox) + (-1)
    BY <1>1, <1>7, FinderIsTold
  <1>10. Changes(0, -1, -1, 0, -1, 1)
    <2>1. finder'.requested = finder.requested + 0 /\ Total(Wants, pullerBox') = Total(Wants, pullerBox) + 0
      BY <1>5, <1>6
    <2>2. Total(Due, pullerBox') = Total(Due, pullerBox) + 1 BY <1>5, <1>6
    <2>3. QED BY <1>8, <1>9, <2>1, <2>2 DEF Changes
  <1>11. RevokedCounted'
    <2>1. Total(Revokes, pullerBox') = Total(Revokes, pullerBox)
      BY <1>5, <1>6
    <2>2. QED BY <1>9, <2>1, RevokedIsCounted DEF RevokedCounted
  <1>12. Running(Base', Due, pullerBox') BY <1>5, <1>8
  <1>13. OwedChanges(0) BY <1>1, OwedStays
  <1>14. 0 + (-1) = -1 + 0 /\ -1 + 1 = 0 OBVIOUS
  <1>15. QED BY <1>1, <1>4, <1>9, <1>10, <1>11, <1>12, <1>13, <1>14, AccountsChange

LEMMA AccountsOfNoRev ==
    ASSUME IInv, IInv', Accounts, HandleNoRev
    PROVE  Accounts'
  <1>1. Typed /\ pullerBox \in Seq(PullerMail) /\ count \in CountType
    BY DEF IInv, Typed, Accounts
  <1>2. /\ pullerBox # << >> /\ Head(pullerBox).t = "norev" /\ pullerBox' = Tail(pullerBox)
        /\ UNCHANGED <<owed, link, finder, waiting>> /\ finderBox' = Append(finderBox, [t |-> "revReceived"])
        /\ count' = [count EXCEPT !.pending = count.pending - 1]
    BY DEF HandleNoRev, Receive, peer
  <1>3. Tail(pullerBox) \in Seq(PullerMail) BY <1>1, <1>2, PullerLoses
  <1>4. SameDue(Tail(pullerBox), pullerBox') BY <1>2, <1>3, SameDueItself
  <1>5. PICK p \in Int : p = count.pending - 1 /\ p = count.pending + (-1)
    BY <1>1 DEF CountType
  <1>6. count' = [count EXCEPT !.pending = p] BY <1>2, <1>5, Zenon
  <1>7. count' \in CountType /\ count'.pending = p /\ count'.unfinishedRevoked = count.unfinishedRevoked
    BY <1>1, <1>6 DEF CountType
  <1>8. QED BY <1>2, <1>4, <1>5, <1>7, AccountsOfArrival

LEMMA AccountsOfRev ==
    ASSUME IInv, IInv', Accounts, HandleRev
    PROVE  Accounts'
  <1>1. Typed /\ Typed' /\ pullerBox \in Seq(PullerMail) /\ count \in CountType /\ waiting.revs \in Seq(RevMail)
    BY MailTypes DEF IInv, Typed, Accounts
  <1>2. pullerBox # << >> /\ Head(pullerBox).t = "rev" /\ UNCHANGED <<owed, link, finder>>
    BY DEF HandleRev, Receive, peer
  <1>3. Tail(pullerBox) \in Seq(PullerMail) /\ Head(pullerBox) \in PullerMail
    BY <1>1, <1>2, PullerLoses
  <1>4. CASE RoomForRev
    <2>1. StartIncomingRev(Head(pullerBox), Tail(pullerBox)) /\ waiting' = waiting
      BY <1>4 DEF HandleRev
    <2>2. /\ count' \in CountType /\ count'.pending = count.pending + (-1)
          /\ count'.unfinishedRevoked = count.unfinishedRevoked
          /\ SameDue(Tail(pullerBox), pullerBox') /\ finderBox' = Append(finderBox, [t |-> "revReceived"])
      BY <1>3, <2>1, StartCounts
    <2>3. QED BY <1>2, <2>1, <2>2, AccountsOfArrival
  <1>5. CASE ~RoomForRev
    <2>1. /\ waiting' = [waiting EXCEPT !.revs = Append(waiting.revs, Head(pullerBox))] /\ pullerBox' = Tail(pullerBox)
          /\ UNCHANGED <<finderBox, count>>
      BY <1>5 DEF HandleRev
    <2>2. waiting'.revs = Append(waiting.revs, Head(pullerBox)) /\ waiting'.revoked = waiting.revoked
      BY <1>1, <2>1 DEF Typed
    <2>3. SameDue(Tail(pullerBox), pullerBox') BY <1>3, <2>1, SameDueItself
    <2>4. Wants[Head(pullerBox)] = 0 /\ Due[Head(pullerBox)] = -1 /\ Revokes[Head(pullerBox)] = 0
      BY <1>2, <1>3, WeightOf
    <2>5. 0 \in Int /\ -1 \in Int /\ 1 \in Int OBVIOUS
    <2>6. /\ Total(Wants, pullerBox') = Total(Wants, pullerBox) - 0 /\ Total(Due, pullerBox') = Total(Due, pullerBox) - (-1)
          /\ Total(Revokes, pullerBox') = Total(Revokes, pullerBox) - 0
          /\ Base + (-1) \in Nat /\ Running(Base + (-1), Due, pullerBox')
      BY <1>1, <1>2, <2>3, <2>4, <2>5, PullerTakes
    <2>7. /\ Total(Wants, pullerBox) \in Nat /\ Total(Due, pullerBox) \in Int /\ Total(Revokes, pullerBox) \in Nat
          /\ Base \in Nat /\ finder.requested \in Nat /\ count.pending \in Nat /\ Len(waiting.revs) \in Nat
          /\ Base = count.pending - Len(waiting.revs)
      BY <1>1, AccountNumbers, Zenon
    <2>8. Base' = Base + (-1)
      <3>1. Base' = count'.pending - Len(waiting'.revs) /\ Len(waiting'.revs) = Len(waiting.revs) + 1
        BY <1>1, <2>2 DEF Base
      <3>2. QED BY <2>1, <2>7, <3>1
    <2>9. /\ Running(finder'.requested, FinderDue, finderBox') /\ Total(Handles, finderBox') = Total(Handles, finderBox)
          /\ Total(FinderDue, finderBox') = Total(FinderDue, finderBox) + 0
      BY <1>1, <1>2, <2>1, FinderIsTold
    <2>10. Changes(0, 0, 0, 0, -1, 1)
      <3>1. finder'.requested = finder.requested + 0 /\ Total(Wants, pullerBox') = Total(Wants, pullerBox) + 0
            /\ count'.pending = count.pending + 0
        BY <1>2, <2>1, <2>6, <2>7
      <3>2. Total(Due, pullerBox') = Total(Due, pullerBox) + 1 BY <2>6, <2>7
      <3>3. QED BY <2>8, <2>9, <3>1, <3>2 DEF Changes
    <2>11. RevokedCounted'
      <3>1. Total(Revokes, pullerBox') = Total(Revokes, pullerBox)
        BY <2>6, <2>7
      <3>2. QED BY <1>2, <2>1, <2>2, <2>9, <3>1, RevokedIsCounted DEF RevokedCounted
    <2>12. Running(Base', Due, pullerBox') BY <2>6, <2>8
    <2>13. OwedChanges(0) BY <1>1, <1>2, OwedStays
    <2>14. 0 + 0 = 0 + 0 /\ -1 + 1 = 0 /\ count' \in CountType BY <1>1, <2>1
    <2>15. QED BY <1>1, <2>5, <2>9, <2>10, <2>11, <2>12, <2>13, <2>14, AccountsChange
  <1>6. QED BY <1>4, <1>5

LEMMA AccountsOfWaitingRev ==
    ASSUME IInv, IInv', Accounts, StartWaitingRev
    PROVE  Accounts'
  <1>1. Typed /\ Typed' /\ pullerBox \in Seq(PullerMail) /\ waiting.revs \in Seq(RevMail) /\ waiting.revs # << >>
    BY MailTypes DEF IInv, Typed, StartWaitingRev
  <1>2. /\ waiting' = [waiting EXCEPT !.revs = Tail(waiting.revs)] /\ StartIncomingRev(Head(waiting.revs), pullerBox)
        /\ UNCHANGED <<owed, link, finder>>
    BY DEF StartWaitingRev, peer
  <1>3. waiting'.revs = Tail(waiting.revs) /\ waiting'.revoked = waiting.revoked
    BY <1>1, <1>2 DEF Typed
  <1>4. /\ count' \in CountType /\ count'.pending = count.pending + (-1)
        /\ count'.unfinishedRevoked = count.unfinishedRevoked
        /\ SameDue(pullerBox, pullerBox') /\ finderBox' = Append(finderBox, [t |-> "revReceived"])
    BY <1>1, <1>2, StartCounts
  <1>5. /\ Total(Wants, pullerBox) \in Nat /\ Total(Due, pullerBox) \in Int /\ Total(Revokes, pullerBox) \in Nat
        /\ Base \in Nat /\ finder.requested \in Nat /\ count.pending \in Nat /\ Len(waiting.revs) \in Nat
        /\ Base = count.pending - Len(waiting.revs)
    BY <1>1, AccountNumbers, Zenon
  <1>6. Len(waiting.revs) > 0 /\ Len(waiting'.revs) = Len(waiting.revs) - 1
    BY <1>1, <1>3
  <1>7. count.pending > 0 BY <1>5, <1>6
  <1>8. Base' = Base + 0
    <2>1. Base' = count'.pending - Len(waiting'.revs) BY DEF Base
    <2>2. QED BY <1>4, <1>5, <1>6, <2>1
  <1>9. /\ Running(finder'.requested, FinderDue, finderBox') /\ Total(Handles, finderBox') = Total(Handles, finderBox)
        /\ Total(FinderDue, finderBox') = Total(FinderDue, finderBox) + (-1)
    BY <1>1, <1>2, <1>4, <1>7, FinderIsTold
  <1>10. /\ Total(Wants, pullerBox') = Total(Wants, pullerBox) + 0 /\ Total(Due, pullerBox') = Total(Due, pullerBox) + 0
         /\ Total(Revokes, pullerBox') = Total(Revokes, pullerBox) + 0
    BY <1>4 DEF SameDue, Adds3
  <1>11. Changes(0, -1, -1, 0, 0, 0)
    <2>1. finder'.requested = finder.requested + 0 BY <1>2, <1>5
    <2>2. QED BY <1>4, <1>8, <1>9, <1>10, <2>1 DEF Changes
  <1>12. RevokedCounted'
    <2>1. Total(Revokes, pullerBox') = Total(Revokes, pullerBox)
      BY <1>5, <1>10
    <2>2. QED BY <1>2, <1>3, <1>4, <1>9, <2>1, RevokedIsCounted DEF RevokedCounted
  <1>13. Running(Base', Due, pullerBox')
    <2>1. Base' = Base /\ Base \in Int /\ Running(Base, Due, pullerBox)
      BY <1>5, <1>8 DEF Accounts
    <2>2. QED BY <1>4, <2>1 DEF SameDue
  <1>14. OwedChanges(0) BY <1>1, <1>2, OwedStays
  <1>15. 0 \in Int /\ -1 \in Int /\ 0 + (-1) = -1 + 0 /\ 0 + 0 = 0 OBVIOUS
  <1>16. QED BY <1>1, <1>4, <1>9, <1>11, <1>12, <1>13, <1>14, <1>15, AccountsChange

(* The Puller expects the revisions that have been requested, or one that  *)
(* has been requested again.                                               *)
LEMMA AccountsOfExpected ==
    ASSUME IInv, IInv', Accounts, ExpectSequences \/ RevReRequested
    PROVE  Accounts'
  <1>1. Typed /\ Typed' /\ pullerBox \in Seq(PullerMail) /\ count \in CountType
    BY DEF IInv, Typed, Accounts
  <1>2. pullerBox # << >> /\ pullerBox' = Tail(pullerBox) /\ UNCHANGED <<owed, link, finder, waiting>>
    BY DEF ExpectSequences, RevReRequested, Receive, peer
  <1>3. Tail(pullerBox) \in Seq(PullerMail) /\ Head(pullerBox) \in PullerMail
    BY <1>1, <1>2, PullerLoses
  <1>4. SameDue(Tail(pullerBox), pullerBox') BY <1>2, <1>3, SameDueItself
  <1>5. PICK w \in Int, d \in Int :
            /\ Wants[Head(pullerBox)] = w /\ Due[Head(pullerBox)] = d /\ Revokes[Head(pullerBox)] = 0
            /\ count' = [count EXCEPT !.pending = count.pending + d]
            /\ \/ finderBox' = Append(finderBox, [t |-> "reRequestingRev"]) /\ d = 1 /\ w = 0
               \/ finderBox' = finderBox /\ w = d
    <2>1. CASE ExpectSequences
      <3>1. Head(pullerBox).t = "expectSequences" /\ finderBox' = finderBox
            /\ count' = [count EXCEPT !.pending = count.pending + Cardinality(Head(pullerBox).wanted)]
        BY <2>1 DEF ExpectSequences, Receive
      <3>2. Cardinality(Head(pullerBox).wanted) \in Int
        BY <1>3, <3>1, MailKinds, Finite
      <3>3. /\ Wants[Head(pullerBox)] = Cardinality(Head(pullerBox).wanted)
            /\ Due[Head(pullerBox)] = Cardinality(Head(pullerBox).wanted) /\ Revokes[Head(pullerBox)] = 0
        BY <1>3, <3>1, WeightOf
      <3>4. QED BY <3>1, <3>2, <3>3, Zenon
    <2>2. CASE RevReRequested
      <3>1. Head(pullerBox).t = "revReRequested" /\ finderBox' = Append(finderBox, [t |-> "reRequestingRev"])
            /\ count' = [count EXCEPT !.pending = count.pending + 1]
        BY <2>2 DEF RevReRequested, Receive
      <3>2. Wants[Head(pullerBox)] = 0 /\ Due[Head(pullerBox)] = 1 /\ Revokes[Head(pullerBox)] = 0
        BY <1>3, <3>1, WeightOf
      <3>3. 0 \in Int /\ 1 \in Int OBVIOUS
      <3>4. QED BY <3>1, <3>2, <3>3, Zenon
    <2>3. QED BY <2>1, <2>2
  <1>6. count' \in CountType /\ count'.pending = count.pending + d /\ count'.unfinishedRevoked = count.unfinishedRevoked
    BY <1>1, <1>5 DEF CountType
  <1>7. 0 \in Int OBVIOUS
  <1>8. /\ Total(Wants, pullerBox') = Total(Wants, pullerBox) - w /\ Total(Due, pullerBox') = Total(Due, pullerBox) - d
        /\ Total(Revokes, pullerBox') = Total(Revokes, pullerBox) - 0
        /\ Base + d \in Nat /\ Running(Base + d, Due, pullerBox')
    BY <1>1, <1>2, <1>4, <1>5, <1>7, PullerTakes
  <1>9. /\ Total(Wants, pullerBox) \in Nat /\ Total(Due, pullerBox) \in Int /\ Total(Revokes, pullerBox) \in Nat
        /\ Base \in Nat /\ finder.requested \in Nat /\ count.pending \in Nat /\ Len(waiting.revs) \in Nat
        /\ Base = count.pending - Len(waiting.revs)
    BY <1>1, AccountNumbers, Zenon
  <1>10. Base' = Base + d
    <2>1. Base' = count'.pending - Len(waiting'.revs) BY DEF Base
    <2>2. QED BY <1>2, <1>6, <1>9, <2>1
  <1>11. PICK f \in Int : f + w = d /\ Total(FinderDue, finderBox') = Total(FinderDue, finderBox) + f
    <2>1. CASE finderBox' = Append(finderBox, [t |-> "reRequestingRev"]) /\ d = 1 /\ w = 0
      <3>1. Total(FinderDue, finderBox') = Total(FinderDue, finderBox) + 1 /\ 1 \in Int /\ 1 + w = d
        BY <1>1, <1>2, <2>1, FinderIsTold
      <3>2. QED BY <3>1
    <2>2. CASE finderBox' = finderBox /\ w = d
      <3>1. Total(FinderDue, finderBox') = Total(FinderDue, finderBox) + 0 /\ 0 + w = d
        BY <1>1, <1>2, <2>2, FinderIsTold
      <3>2. QED BY <1>7, <3>1
    <2>3. QED BY <1>5, <2>1, <2>2
  <1>12. Running(finder'.requested, FinderDue, finderBox') /\ Total(Handles, finderBox') = Total(Handles, finderBox)
    BY <1>1, <1>2, <1>5, FinderIsTold
  <1>13. PICK w1 \in Int, d1 \in Int : w1 = -w /\ d1 = -d OBVIOUS
  <1>14. Changes(0, f, d, w1, d, d1)
    <2>1. finder'.requested = finder.requested + 0 /\ Total(Wants, pullerBox') = Total(Wants, pullerBox) + w1
      BY <1>2, <1>8, <1>9, <1>13
    <2>2. Total(Due, pullerBox') = Total(Due, pullerBox) + d1
      BY <1>8, <1>9, <1>13
    <2>3. QED BY <1>6, <1>10, <1>11, <2>1, <2>2 DEF Changes
  <1>15. RevokedCounted'
    <2>1. Total(Revokes, pullerBox') = Total(Revokes, pullerBox)
      BY <1>8, <1>9
    <2>2. QED BY <1>2, <1>6, <1>12, <2>1, RevokedIsCounted DEF RevokedCounted
  <1>16. Running(Base', Due, pullerBox') BY <1>8, <1>10
  <1>17. OwedChanges(0) BY <1>1, <1>2, OwedStays
  <1>18. 0 + f = d + w1 /\ d + d1 = 0 BY <1>11, <1>13
  <1>19. QED BY <1>1, <1>6, <1>7, <1>12, <1>14, <1>15, <1>16, <1>17, <1>18, AccountsChange

LEMMA AccountsOfOthers ==
    ASSUME Typed, Typed', Accounts, count' \in CountType, UNCHANGED <<finder, owed, link>>,
           count'.pending = count.pending, Len(waiting'.revs) = Len(waiting.revs), SameRequests(pullerBox, pullerBox'),
           Total(FinderDue, finderBox') = Total(FinderDue, finderBox), Running(finder.requested, FinderDue, finderBox'),
           RevokedCounted'
    PROVE  Accounts'
  <1>1. /\ Total(Wants, pullerBox) \in Nat /\ Total(Due, pullerBox) \in Int /\ Total(FinderDue, finderBox) \in Int
        /\ Base \in Nat /\ finder.requested \in Nat /\ count.pending \in Nat
    BY AccountNumbers, Zenon
  <1>2. Base' = Base BY DEF Base
  <1>3. Running(Base', Due, pullerBox')
    <2>1. Base \in Int /\ Running(Base, Due, pullerBox) BY <1>1 DEF Accounts
    <2>2. QED BY <1>2, <2>1 DEF SameRequests
  <1>4. Changes(0, 0, 0, 0, 0, 0) BY <1>1, <1>2 DEF Changes, SameRequests
  <1>5. OwedChanges(0) BY OwedStays
  <1>6. 0 \in Int /\ 0 + 0 = 0 + 0 /\ 0 + 0 = 0 /\ Running(finder'.requested, FinderDue, finderBox')
    OBVIOUS
  <1>7. QED BY <1>3, <1>4, <1>5, <1>6, AccountsChange

LEMMA SameDueRequests ==
    ASSUME NEW old \in Seq(PullerMail), NEW new, SameDue(old, new)
    PROVE  SameRequests(old, new) /\ Total(Revokes, new) = Total(Revokes, old)
  <1>1. Total(Wants, old) \in Nat /\ Total(Due, old) \in Int /\ Total(Revokes, old) \in Nat
    BY Totals
  <1>2. QED BY <1>1 DEF SameDue, SameRequests, Adds3

LEMMA SumOfFour ==
    ASSUME NEW f \in Int, NEW a \in Int, NEW b \in Int, NEW c \in Int, NEW d \in Int, f >= a + b + c + d,
           NEW r \in Int, NEW w \in Int, NEW u \in Int, NEW h \in Int, r + w + u + h <= 0
    PROVE  f >= (a + r) + (b + w) + (c + u) + (d + h)
  OBVIOUS

(* The revoked documents stay counted when they move on.                   *)
LEMMA RevokedMoves ==
    ASSUME Typed, Accounts, finder'.revoked = finder.revoked,
           NEW r \in Int, NEW w \in Int, NEW u \in Int, NEW h \in Int, r + w + u + h <= 0,
           Total(Revokes, pullerBox') = Total(Revokes, pullerBox) + r, Len(waiting'.revoked) = Len(waiting.revoked) + w,
           count'.unfinishedRevoked = count.unfinishedRevoked + u, Total(Handles, finderBox') = Total(Handles, finderBox) + h
    PROVE  RevokedCounted'
  <1>1. PICK f \in Int : f = finder.revoked BY AccountNumbers, Zenon
  <1>2. PICK r0 \in Int : r0 = Total(Revokes, pullerBox) BY AccountNumbers
  <1>3. PICK w0 \in Int : w0 = Len(waiting.revoked) BY AccountNumbers
  <1>4. PICK u0 \in Int : u0 = count.unfinishedRevoked
    BY AccountNumbers, Zenon
  <1>5. PICK h0 \in Int : h0 = Total(Handles, finderBox) BY AccountNumbers
  <1>6. f >= r0 + w0 + u0 + h0
    BY <1>1, <1>2, <1>3, <1>4, <1>5, RevokedIsCounted DEF RevokedCounted
  <1>7. f >= (r0 + r) + (w0 + w) + (u0 + u) + (h0 + h) BY <1>6, SumOfFour
  <1>8. QED BY <1>1, <1>2, <1>3, <1>4, <1>5, <1>7 DEF RevokedCounted

(* What is left of a message holds one document less.                      *)
LEMMA RestCounts ==
    ASSUME IInv, pullerBox # << >>, Head(pullerBox).t = "documentsRevoked", NEW s \in Head(pullerBox).seqs
    PROVE  /\ RestOf(Head(pullerBox), s, Tail(pullerBox)) \in Seq(PullerMail)
           /\ SameRequests(pullerBox, RestOf(Head(pullerBox), s, Tail(pullerBox)))
           /\ Total(Revokes, RestOf(Head(pullerBox), s, Tail(pullerBox))) = Total(Revokes, pullerBox) - 1
  <1>1. PICK m : m = Head(pullerBox) OBVIOUS
  <1>2. PICK tail : tail = Tail(pullerBox) OBVIOUS
  <1>3. pullerBox \in Seq(PullerMail) BY DEF IInv, Typed
  <1>4. m \in PullerMail /\ tail \in Seq(PullerMail) /\ Len(pullerBox) \in Nat /\ Len(tail) = Len(pullerBox) - 1
        /\ m = pullerBox[1] /\ \A k \in 1 .. Len(tail) : tail[k] = pullerBox[k + 1]
    BY <1>1, <1>2, <1>3
  <1>5. RestOf(m, s, tail) \in Seq(PullerMail) BY <1>1, <1>2, RestIs
  <1>6. m \in RevokedMail /\ m.seqs \in SUBSET Seqs /\ s \in m.seqs
    BY <1>1, <1>4, MailKinds
  <1>7. PICK c \in Nat : c = Cardinality(m.seqs) BY <1>6, Finite
  <1>8. Wants[m] = 0 /\ Due[m] = 0 /\ Revokes[m] = c
    BY <1>1, <1>4, <1>7, WeightOf
  <1>9. /\ Adds3(tail, pullerBox, 0, 0, c)
        /\ \A b \in Int : Running(b, Due, pullerBox) => Running(b + 0, Due, tail)
    BY <1>1, <1>2, <1>3, <1>8, PullerLoses
  <1>10. Total(Wants, tail) \in Nat /\ Total(Due, tail) \in Int /\ Total(Revokes, tail) \in Nat
    BY <1>4, Totals
  <1>11. /\ Total(Wants, pullerBox) = Total(Wants, tail) /\ Total(Due, pullerBox) = Total(Due, tail)
         /\ Total(Revokes, pullerBox) = Total(Revokes, tail) + c
    BY <1>9, <1>10 DEF Adds3
  <1>12. CASE m.seqs = {s}
    <2>1. RestOf(m, s, tail) = tail BY <1>12 DEF RestOf
    <2>2. c = 1 BY <1>7, <1>12, FS_Singleton
    <2>3. \A b \in Int : b + 0 = b OBVIOUS
    <2>4. SameRequests(pullerBox, tail)
      BY <1>9, <1>11, <2>3 DEF SameRequests
    <2>5. Total(Revokes, tail) = Total(Revokes, pullerBox) - 1
      BY <1>10, <1>11, <2>2
    <2>6. QED BY <1>1, <1>2, <1>5, <2>1, <2>4, <2>5
  <1>13. CASE m.seqs # {s}
    <2>1. PICK x : x = [m EXCEPT !.seqs = m.seqs \ {s}] OBVIOUS
    <2>2. m.seqs \ {s} \in (SUBSET Seqs) \ {{}} BY <1>6, <1>13
    <2>3. x \in RevokedMail /\ x.seqs = m.seqs \ {s}
      BY <1>6, <2>1, <2>2 DEF RevokedMail
    <2>4. x \in PullerMail /\ x.t = "documentsRevoked" BY <2>3, MailKinds
    <2>5. Cardinality(x.seqs) = c - 1
      <3>1. IsFiniteSet(m.seqs) BY <1>6, Finite
      <3>2. Cardinality(m.seqs \ {s}) = Cardinality(m.seqs) - 1
        BY <1>6, <3>1, FS_RemoveElement
      <3>3. QED BY <1>7, <2>3, <3>2
    <2>6. Wants[x] = 0 /\ Due[x] = 0 /\ Revokes[x] = c - 1
      BY <2>4, <2>5, WeightOf
    <2>7. PICK q : q = <<x>> \o tail OBVIOUS
    <2>8. /\ q \in Seq(PullerMail) /\ q # << >> /\ Len(q) = Len(tail) + 1 /\ q[1] = x
          /\ \A k \in 1 .. Len(tail) : q[k + 1] = tail[k]
      BY <1>4, <2>4, <2>7
    <2>9. Head(q) = x /\ Tail(q) = tail BY <1>4, <2>4, <2>7
    <2>10. Adds3(tail, q, 0, 0, c - 1) BY <2>6, <2>8, <2>9, PullerLoses
    <2>11. /\ Total(Wants, q) = Total(Wants, tail) /\ Total(Due, q) = Total(Due, tail)
           /\ Total(Revokes, q) = Total(Revokes, tail) + (c - 1)
      BY <1>10, <2>10 DEF Adds3
    <2>12. Len(q) = Len(pullerBox) BY <1>4, <2>8
    <2>13. \A k \in 1 .. Len(pullerBox) : Due[q[k]] = Due[pullerBox[k]]
      <3>1. TAKE k \in 1 .. Len(pullerBox)
      <3>2. CASE k = 1 BY <1>4, <1>8, <2>6, <2>8, <3>2
      <3>3. CASE k # 1
        <4>1. PICK j \in 1 .. Len(tail) : k = j + 1
          <5>1. k - 1 \in 1 .. Len(tail) /\ k = (k - 1) + 1 BY <1>4, <3>3
          <5>2. QED BY <5>1
        <4>2. QED BY <1>4, <2>8, <4>1
      <3>4. QED BY <3>2, <3>3
    <2>14. \A b \in Int : Running(b, Due, pullerBox) => Running(b, Due, q)
      BY <2>12, <2>13, RunningSame
    <2>15. SameRequests(pullerBox, q)
      BY <1>11, <2>11, <2>14 DEF SameRequests
    <2>16. Total(Revokes, q) = Total(Revokes, pullerBox) - 1
      BY <1>10, <1>11, <2>11
    <2>17. RestOf(m, s, tail) = q BY <1>13, <2>1, <2>7 DEF RestOf
    <2>18. QED BY <1>1, <1>2, <1>5, <2>15, <2>16, <2>17
  <1>14. QED BY <1>12, <1>13

LEMMA StartRevokedCounts ==
    ASSUME Accounts, NEW s, NEW box \in Seq(PullerMail), StartRevoked(s, box)
    PROVE  /\ count' \in CountType /\ count'.pending = count.pending
           /\ count'.unfinishedRevoked \in {count.unfinishedRevoked, count.unfinishedRevoked + 1}
           /\ SameDue(box, pullerBox') /\ finderBox' = finderBox
  <1>1. count \in CountType /\ finderBox' = finderBox
    BY DEF Accounts, StartRevoked
  <1>2. CASE connected
    <2>1. PICK a \in Int, u \in Int : a = count.activeRevoked + 1 /\ u = count.unfinishedRevoked + 1
      BY <1>1 DEF CountType
    <2>2. count' = [count EXCEPT !.activeRevoked = a, !.unfinishedRevoked = u] /\ HandleRevokedDoc(<<s, 1>>, box)
      BY <1>2, <2>1, Zenon DEF StartRevoked
    <2>3. count' = [pending |-> count.pending, active |-> count.active, unfinished |-> count.unfinished,
                    activeRevoked |-> a, unfinishedRevoked |-> u]
      BY <1>1, <2>2, CountUpdates, Zenon
    <2>4. SameDue(box, pullerBox') BY <2>2, DispatchBox
    <2>5. count' \in CountType /\ count'.pending = count.pending /\ count'.unfinishedRevoked = u
      BY <1>1, <2>3 DEF CountType
    <2>6. QED BY <1>1, <2>1, <2>4, <2>5
  <1>3. CASE ~connected
    <2>1. count' = count /\ pullerBox' = box BY <1>3 DEF StartRevoked
    <2>2. SameDue(box, pullerBox') BY <2>1, SameDueItself
    <2>3. QED BY <1>1, <2>1, <2>2
  <1>4. QED BY <1>2, <1>3

LEMMA AccountsOfRevoked ==
    ASSUME IInv, IInv', Accounts, DocumentsRevoked
    PROVE  Accounts'
  <1>1. PICK m : m = Head(pullerBox) OBVIOUS
  <1>2. PICK s, rest : RevokedTaken(s, rest) BY RevokedTakes
  <1>3. rest = RestOf(m, s, Tail(pullerBox)) /\ s \in m.seqs
    BY <1>1, <1>2 DEF RevokedTaken
  <1>4. /\ pullerBox # << >> /\ m.t = "documentsRevoked" /\ UNCHANGED <<owed, link, finder>>
        /\ IF RoomForRevoked
           THEN StartRevoked(s, rest) /\ waiting' = waiting
           ELSE /\ waiting' = [waiting EXCEPT !.revoked = Append(waiting.revoked, s)]
                /\ pullerBox' = rest /\ finderBox' = finderBox /\ count' = count
    BY <1>1, <1>2 DEF RevokedTaken, peer
  <1>5. Typed /\ Typed' /\ pullerBox \in Seq(PullerMail) /\ count \in CountType /\ waiting.revoked \in Seq(Seqs)
    BY MailTypes DEF IInv, Typed, Accounts
  <1>7. rest \in Seq(PullerMail) /\ SameRequests(pullerBox, rest) /\ Total(Revokes, rest) = Total(Revokes, pullerBox) - 1
    BY <1>1, <1>3, <1>4, RestCounts
  <1>8. /\ SameRequests(rest, pullerBox') /\ Total(Revokes, pullerBox') = Total(Revokes, rest) /\ finderBox' = finderBox
        /\ count' \in CountType /\ count'.pending = count.pending /\ Len(waiting'.revs) = Len(waiting.revs)
        /\ \/ /\ count'.unfinishedRevoked \in {count.unfinishedRevoked, count.unfinishedRevoked + 1}
              /\ Len(waiting'.revoked) = Len(waiting.revoked)
           \/ /\ count'.unfinishedRevoked = count.unfinishedRevoked
              /\ Len(waiting'.revoked) = Len(waiting.revoked) + 1
    <2>1. CASE RoomForRevoked
      <3>1. StartRevoked(s, rest) /\ waiting' = waiting BY <1>4, <2>1
      <3>2. /\ count' \in CountType /\ count'.pending = count.pending
            /\ count'.unfinishedRevoked \in {count.unfinishedRevoked, count.unfinishedRevoked + 1}
            /\ SameDue(rest, pullerBox') /\ finderBox' = finderBox
        BY <1>7, <3>1, StartRevokedCounts
      <3>3. QED BY <1>7, <3>1, <3>2, SameDueRequests
    <2>2. CASE ~RoomForRevoked
      <3>1. /\ waiting' = [waiting EXCEPT !.revoked = Append(waiting.revoked, s)]
            /\ pullerBox' = rest /\ finderBox' = finderBox /\ count' = count
        BY <1>4, <2>2
      <3>2. waiting'.revs = waiting.revs /\ waiting'.revoked = Append(waiting.revoked, s)
        BY <1>5, <3>1 DEF Typed
      <3>3. Len(waiting'.revoked) = Len(waiting.revoked) + 1 BY <1>5, <3>2
      <3>4. SameDue(rest, rest) BY <1>7, SameDueItself
      <3>5. QED BY <1>5, <1>7, <3>1, <3>2, <3>3, <3>4, SameDueRequests
    <2>3. QED BY <2>1, <2>2
  <1>9. SameRequests(pullerBox, pullerBox') BY <1>7, <1>8 DEF SameRequests
  <1>10. /\ count.unfinishedRevoked \in Int /\ finder.revoked \in Int /\ Len(waiting.revoked) \in Nat
         /\ Total(Revokes, pullerBox) \in Nat /\ Total(Handles, finderBox) \in Nat
    BY <1>5, AccountNumbers, Zenon
  <1>11. RevokedCounted'
    <2>1. /\ Total(Revokes, pullerBox') = Total(Revokes, pullerBox) + (-1)
          /\ Total(Handles, finderBox') = Total(Handles, finderBox) + 0 /\ finder'.revoked = finder.revoked
      BY <1>4, <1>7, <1>8, <1>10
    <2>2. PICK w \in {0, 1}, u \in {0, 1} : /\ Len(waiting'.revoked) = Len(waiting.revoked) + w
                                           /\ count'.unfinishedRevoked = count.unfinishedRevoked + u /\ w + u <= 1
      BY <1>8, <1>10
    <2>3. w \in Int /\ u \in Int /\ 0 \in Int /\ -1 \in Int /\ (-1) + w + u + 0 <= 0
      BY <2>2
    <2>4. QED BY <1>5, <2>1, <2>2, <2>3, RevokedMoves
  <1>12. Total(FinderDue, finderBox') = Total(FinderDue, finderBox) /\ Running(finder.requested, FinderDue, finderBox')
    BY <1>8 DEF Accounts
  <1>13. QED BY <1>4, <1>5, <1>8, <1>9, <1>11, <1>12, AccountsOfOthers

LEMMA AccountsOfWaitingRevoked ==
    ASSUME IInv, IInv', Accounts, StartWaitingRevoked, waiting.revoked # << >>
    PROVE  Accounts'
  <1>1. Typed /\ Typed' /\ pullerBox \in Seq(PullerMail) /\ waiting.revoked \in Seq(Seqs)
    BY MailTypes DEF IInv, Typed
  <1>2. /\ waiting' = [waiting EXCEPT !.revoked = Tail(waiting.revoked)] /\ StartRevoked(Head(waiting.revoked), pullerBox)
        /\ UNCHANGED <<owed, link, finder>>
    BY DEF StartWaitingRevoked, peer
  <1>3. waiting'.revs = waiting.revs /\ waiting'.revoked = Tail(waiting.revoked)
    BY <1>1, <1>2 DEF Typed
  <1>4. Len(waiting'.revoked) = Len(waiting.revoked) - 1 BY <1>1, <1>3
  <1>5. /\ count' \in CountType /\ count'.pending = count.pending
        /\ count'.unfinishedRevoked \in {count.unfinishedRevoked, count.unfinishedRevoked + 1}
        /\ SameDue(pullerBox, pullerBox') /\ finderBox' = finderBox
    BY <1>1, <1>2, StartRevokedCounts
  <1>6. SameRequests(pullerBox, pullerBox') /\ Total(Revokes, pullerBox') = Total(Revokes, pullerBox)
    BY <1>1, <1>5, SameDueRequests
  <1>7. /\ count.unfinishedRevoked \in Int /\ finder.revoked \in Int /\ Len(waiting.revoked) \in Nat
        /\ Total(Revokes, pullerBox) \in Nat /\ Total(Handles, finderBox) \in Nat
    BY <1>1, AccountNumbers, Zenon
  <1>8. RevokedCounted'
    <2>1. /\ Total(Revokes, pullerBox') = Total(Revokes, pullerBox) + 0 /\ Len(waiting'.revoked) = Len(waiting.revoked) + (-1)
          /\ Total(Handles, finderBox') = Total(Handles, finderBox) + 0 /\ finder'.revoked = finder.revoked
      BY <1>2, <1>4, <1>5, <1>6, <1>7
    <2>2. PICK u \in {0, 1} : count'.unfinishedRevoked = count.unfinishedRevoked + u
      BY <1>5, <1>7
    <2>3. u \in Int /\ 0 \in Int /\ -1 \in Int /\ 0 + (-1) + u + 0 <= 0
      BY <2>2
    <2>4. QED BY <1>1, <2>1, <2>2, <2>3, RevokedMoves
  <1>9. Total(FinderDue, finderBox') = Total(FinderDue, finderBox) /\ Running(finder.requested, FinderDue, finderBox')
    BY <1>5 DEF Accounts
  <1>10. QED BY <1>1, <1>2, <1>3, <1>5, <1>6, <1>8, <1>9, AccountsOfOthers

LEMMA FinishedCounts ==
    ASSUME IInv, Accounts, RevsFinished
    PROVE  /\ \A r \in BOOLEAN : Cardinality(Returned(r)) \in Nat /\ Cardinality(ReturnedActive(r)) \in Nat
           /\ count' \in CountType
           /\ count' = [pending |-> count.pending, active |-> count.active - Cardinality(ReturnedActive(FALSE)),
                        unfinished |-> count.unfinished - Cardinality(Returned(FALSE)),
                        activeRevoked |-> count.activeRevoked - Cardinality(ReturnedActive(TRUE)),
                        unfinishedRevoked |-> count.unfinishedRevoked - Cardinality(Returned(TRUE))]
  <1>1. count \in CountType /\ returning \in SUBSET Ids
    BY DEF IInv, Typed, Accounts
  <1>2. \A r \in BOOLEAN : Cardinality(Returned(r)) \in Nat /\ Cardinality(ReturnedActive(r)) \in Nat
    BY <1>1, Finite DEF Returned, ReturnedActive
  <1>3. PICK n \in Nat, k \in Nat, a \in Nat, b \in Nat :
            /\ n = Cardinality(Returned(TRUE)) /\ k = Cardinality(Returned(FALSE))
            /\ a = Cardinality(ReturnedActive(FALSE)) /\ b = Cardinality(ReturnedActive(TRUE))
    BY <1>2
  <1>4. {id \in returning : Revoked(id)} = Returned(TRUE) /\ returning \ Returned(TRUE) = Returned(FALSE)
    BY DEF Returned, Revoked
  <1>5. count' = [count EXCEPT !.active = count.active - a, !.unfinished = count.unfinished - k,
                               !.activeRevoked = count.activeRevoked - b, !.unfinishedRevoked = count.unfinishedRevoked - n]
    BY <1>3, <1>4, Zenon DEF RevsFinished, ReturnedActive
  <1>6. PICK v \in Int, x \in Int, y \in Int, z \in Int :
             /\ v = count.active - a /\ x = count.unfinished - k
             /\ y = count.activeRevoked - b /\ z = count.unfinishedRevoked - n
    <2>1. /\ count.active \in Int /\ count.unfinished \in Int /\ count.activeRevoked \in Int /\ count.unfinishedRevoked \in Int
      BY <1>1 DEF CountType
    <2>2. count.active - a \in Int /\ count.unfinished - k \in Int /\ count.activeRevoked - b \in Int
          /\ count.unfinishedRevoked - n \in Int
      BY <2>1
    <2>3. QED BY <2>2, Zenon
  <1>7. count' = [count EXCEPT !.active = v, !.unfinished = x, !.activeRevoked = y, !.unfinishedRevoked = z]
    BY <1>5, <1>6, Zenon
  <1>8. count' = [pending |-> count.pending, active |-> v, unfinished |-> x, activeRevoked |-> y, unfinishedRevoked |-> z]
    BY <1>1, <1>7, CountFinishes, Zenon
  <1>9. count' \in CountType BY <1>1, <1>8 DEF CountType
  <1>10. QED BY <1>2, <1>3, <1>6, <1>8, <1>9

LEMMA AccountsOfFinished ==
    ASSUME IInv, IInv', Accounts, RevsFinished
    PROVE  Accounts'
  <1>1. /\ Typed /\ Typed' /\ pullerBox \in Seq(PullerMail) /\ finderBox \in Seq(FinderMail) /\ count \in CountType
        /\ returning \in SUBSET Ids
    BY DEF IInv, Typed, Accounts
  <1>2. PICK n \in Nat : n = Cardinality(Returned(TRUE)) BY FinishedCounts
  <1>3. {id \in returning : Revoked(id)} = Returned(TRUE)
    BY DEF Returned, Revoked
  <1>8. /\ pullerBox # << >> /\ Head(pullerBox).t = "revsFinished" /\ pullerBox' = Tail(pullerBox)
        /\ UNCHANGED <<owed, link, finder, waiting>>
    BY DEF RevsFinished, Receive, peer
  <1>13. count' \in CountType /\ count'.pending = count.pending /\ count'.unfinishedRevoked = count.unfinishedRevoked - n
    <2>1. PICK v, x, y : count' = [pending |-> count.pending, active |-> v, unfinished |-> x, activeRevoked |-> y,
                                   unfinishedRevoked |-> count.unfinishedRevoked - n]
      BY <1>2, FinishedCounts, Zenon
    <2>2. QED BY <2>1, FinishedCounts
  <1>14. IsLight(Head(pullerBox))
    <2>1. Head(pullerBox) \in PullerMail BY <1>1, <1>8
    <2>2. QED BY <1>8, <2>1, WeightOf DEF IsLight
  <1>15. SameRequests(pullerBox, pullerBox') /\ Total(Revokes, pullerBox') = Total(Revokes, pullerBox)
    BY <1>1, <1>8, <1>14, LightTaken, SameDueRequests
  <1>16. /\ count.unfinishedRevoked \in Int /\ finder.revoked \in Int /\ Len(waiting.revoked) \in Nat
         /\ Total(Revokes, pullerBox) \in Nat /\ Total(Handles, finderBox) \in Nat /\ Total(FinderDue, finderBox) \in Int
         /\ finder.requested \in Nat
    BY <1>1, AccountNumbers, Zenon
  <1>17. Running(finder.requested, FinderDue, finderBox) /\ finder.requested \in Int
    BY <1>16 DEF Accounts
  <1>18. /\ Total(FinderDue, finderBox') = Total(FinderDue, finderBox) /\ Running(finder.requested, FinderDue, finderBox')
         /\ Total(Handles, finderBox') = Total(Handles, finderBox) + n
    <2>1. CASE Returned(TRUE) = {}
      <3>1. finderBox' = finderBox BY <1>3, <2>1 DEF RevsFinished
      <3>2. n = 0 BY <1>2, <2>1, FS_EmptySet
      <3>3. QED BY <1>16, <1>17, <3>1, <3>2
    <2>2. CASE Returned(TRUE) # {}
      <3>1. PICK m : m = [t |-> "revokedHandled", n |-> n] OBVIOUS
      <3>2. finderBox' = Append(finderBox, m)
        BY <1>2, <1>3, <2>2, <3>1 DEF RevsFinished
      <3>3. m \in FinderMail /\ m.t = "revokedHandled" /\ m.n = n
        BY <3>1 DEF FinderMail
      <3>4. FinderDue[m] = 0 /\ Handles[m] = n BY <3>3, FinderWeightOf
      <3>5. /\ Adds2(finderBox, finderBox', 0, n)
            /\ \A j \in Int : Running(j, FinderDue, finderBox) /\ j + Total(FinderDue, finderBox) + 0 >= 0
                   => Running(j, FinderDue, finderBox')
        BY <1>1, <3>2, <3>3, <3>4, FinderGets
      <3>6. finder.requested + Total(FinderDue, finderBox) >= 0
        BY <1>1, <1>17, Weights, RunningEnds
      <3>7. finder.requested + Total(FinderDue, finderBox) + 0 >= 0
        BY <1>16, <3>6
      <3>8. Running(finder.requested, FinderDue, finderBox')
        BY <1>17, <3>5, <3>7
      <3>9. QED BY <1>16, <3>5, <3>8 DEF Adds2
    <2>3. QED BY <2>1, <2>2
  <1>19. RevokedCounted'
    <2>1. PICK u \in Int : u = -n OBVIOUS
    <2>2. /\ Total(Revokes, pullerBox') = Total(Revokes, pullerBox) + 0 /\ Len(waiting'.revoked) = Len(waiting.revoked) + 0
          /\ finder'.revoked = finder.revoked
      BY <1>8, <1>15, <1>16
    <2>3. count'.unfinishedRevoked = count.unfinishedRevoked + u
      BY <1>13, <1>16, <2>1
    <2>4. 0 \in Int /\ n \in Int /\ 0 + 0 + u + n <= 0 BY <2>1
    <2>5. QED BY <1>1, <1>18, <2>2, <2>3, <2>4, RevokedMoves
  <1>20. QED BY <1>1, <1>8, <1>13, <1>15, <1>18, <1>19, AccountsOfOthers
LEMMA RunningMore ==
    ASSUME NEW b \in Int, NEW w, NEW q, Len(q) \in Nat, \A k \in 1 .. Len(q) : w[q[k]] \in Int, NEW n \in Nat, Running(b, w, q)
    PROVE  Running(b + n, w, q)
  <1>1. PICK g \in SumsOf(b, w, q) : \A k \in 0 .. Len(q) : g[k] >= 0
    BY DEF Running
  <1>2. g \in [0 .. Len(q) -> Int] /\ g[0] = b /\ \A k \in 1 .. Len(q) : g[k] = g[k - 1] + w[q[k]]
    BY <1>1 DEF SumsOf
  <1>3. PICK h : h = [k \in 0 .. Len(q) |-> g[k] + n] OBVIOUS
  <1>4. h \in [0 .. Len(q) -> Int] /\ h[0] = b + n /\ \A k \in 0 .. Len(q) : h[k] >= 0 /\ h[k] = g[k] + n
    <2>1. \A k \in 0 .. Len(q) : g[k] \in Int /\ g[k] >= 0 BY <1>1, <1>2
    <2>2. \A k \in 0 .. Len(q) : g[k] + n \in Int /\ g[k] + n >= 0 BY <2>1
    <2>3. \A k \in 0 .. Len(q) : h[k] = g[k] + n BY <1>3
    <2>4. h \in [0 .. Len(q) -> Int] BY <1>3, <2>2
    <2>5. 0 \in 0 .. Len(q) OBVIOUS
    <2>6. QED BY <1>2, <2>2, <2>3, <2>4, <2>5
  <1>5. \A k \in 1 .. Len(q) : h[k] = h[k - 1] + w[q[k]]
    <2>1. TAKE k \in 1 .. Len(q)
    <2>2. k \in 0 .. Len(q) /\ k - 1 \in 0 .. Len(q) OBVIOUS
    <2>3. g[k] \in Int /\ g[k - 1] \in Int /\ g[k] = g[k - 1] + w[q[k]] /\ w[q[k]] \in Int
      BY <1>2, <2>2
    <2>4. h[k] = g[k] + n /\ h[k - 1] = g[k - 1] + n BY <1>4, <2>2
    <2>5. QED BY <2>3, <2>4
  <1>6. h \in SumsOf(b + n, w, q) BY <1>4, <1>5 DEF SumsOf
  <1>7. QED BY <1>4, <1>6 DEF Running

LEMMA CountedSums ==
    ASSUME NEW f \in Int, NEW a \in Int, NEW b \in Int, NEW c \in Int, NEW d \in Int, NEW k \in Int
    PROVE  /\ f >= a + b + c + (d + k) => f - k >= a + b + c + d
           /\ f >= a + b + c + d => f + k >= (a + k) + b + c + d
  OBVIOUS

(* The RevFinder takes a message.                                          *)
LEMMA AccountsOfReceived ==
    ASSUME IInv, IInv', Accounts, RevReceived
    PROVE  Accounts'
  <1>1. PICK m : m = Head(finderBox) OBVIOUS
  <1>2. /\ Typed /\ Typed' /\ finderBox \in Seq(FinderMail) /\ finder \in FinderType /\ count \in CountType
        /\ pullerBox \in Seq(PullerMail)
    BY DEF IInv, Typed, FinderType, Accounts
  <1>3. /\ finderBox # << >> /\ m.t # "changes" /\ finderBox' = Tail(finderBox)
        /\ UNCHANGED <<owed, link, pullerBox, count, waiting>>
    BY <1>1 DEF RevReceived, peer, puller
  <1>4. m \in FinderMail BY <1>1, <1>2, <1>3
  <1>5. m.t \in {"reRequestingRev", "revReceived", "revokedHandled"} /\ (m.t = "revokedHandled" => m.n \in Nat)
    BY <1>3, <1>4 DEF FinderMail, ChangesMail
  <1>6. finder.requested \in Int /\ finder.revoked \in Int
    BY <1>2 DEF FinderType
  <1>7. PICK f \in Int, h \in Nat : /\ FinderDue[m] = f /\ Handles[m] = h
                                    /\ finder'.requested = finder.requested + f /\ finder'.revoked = finder.revoked - h
    <2>1. CASE m.t = "reRequestingRev"
      <3>1. PICK a \in Int : a = finder.requested + 1 BY <1>6
      <3>2. finder' = [finder EXCEPT !.requested = a]
        BY <1>1, <2>1, <3>1 DEF RevReceived
      <3>3. finder'.requested = finder.requested + 1 /\ finder'.revoked = finder.revoked
        BY <1>2, <3>1, <3>2 DEF FinderType
      <3>4. finder.revoked = finder.revoked - 0 /\ 1 \in Int /\ 0 \in Nat
        BY <1>6
      <3>5. FinderDue[m] = 1 /\ Handles[m] = 0 BY <1>4, <2>1, FinderWeightOf
      <3>6. QED BY <3>3, <3>4, <3>5, Zenon
    <2>2. CASE m.t = "revReceived"
      <3>1. PICK a \in Int : a = finder.requested - 1 /\ a = finder.requested + (-1)
        BY <1>6
      <3>2. finder' = [finder EXCEPT !.requested = a, !.draining = TRUE]
        BY <1>1, <2>2, <3>1 DEF RevReceived
      <3>3. finder' = [waiting |-> finder.waiting, requested |-> a, revoked |-> finder.revoked, draining |-> TRUE]
        BY <1>2, <3>2, FinderUpdates
      <3>4. finder'.requested = finder.requested + (-1) /\ finder'.revoked = finder.revoked
        BY <3>1, <3>3
      <3>5. finder.revoked = finder.revoked - 0 /\ -1 \in Int /\ 0 \in Nat
        BY <1>6
      <3>6. FinderDue[m] = -1 /\ Handles[m] = 0
        BY <1>4, <2>2, FinderWeightOf
      <3>7. QED BY <3>4, <3>5, <3>6, Zenon
    <2>3. CASE m.t = "revokedHandled"
      <3>1. PICK a \in Int : a = finder.revoked - m.n BY <1>5, <1>6, <2>3
      <3>2. finder' = [finder EXCEPT !.revoked = a, !.draining = TRUE]
        BY <1>1, <2>3, <3>1 DEF RevReceived
      <3>3. finder' = [waiting |-> finder.waiting, requested |-> finder.requested, revoked |-> a, draining |-> TRUE]
        BY <1>2, <3>2, FinderUpdates
      <3>4. finder'.requested = finder.requested /\ finder'.revoked = finder.revoked - m.n
        BY <3>1, <3>3
      <3>5. finder.requested = finder.requested + 0 /\ 0 \in Int /\ m.n \in Nat
        BY <1>5, <1>6, <2>3
      <3>6. FinderDue[m] = 0 /\ Handles[m] = m.n
        BY <1>4, <2>3, FinderWeightOf
      <3>7. QED BY <3>4, <3>5, <3>6, Zenon
    <2>4. QED BY <1>5, <2>1, <2>2, <2>3
  <1>8. /\ Tail(finderBox) \in Seq(FinderMail) /\ Adds2(Tail(finderBox), finderBox, f, h)
        /\ \A b \in Int : Running(b, FinderDue, finderBox) => Running(b + f, FinderDue, Tail(finderBox))
    BY <1>1, <1>2, <1>3, <1>7, FinderLoses
  <1>9. Total(FinderDue, finderBox') \in Int /\ Total(Handles, finderBox') \in Nat
    BY <1>3, <1>8, Totals
  <1>10. Total(FinderDue, finderBox) = Total(FinderDue, finderBox') + f /\ Total(Handles, finderBox) = Total(Handles, finderBox') + h
    BY <1>3, <1>8 DEF Adds2
  <1>11. Running(finder'.requested, FinderDue, finderBox')
    BY <1>3, <1>6, <1>7, <1>8 DEF Accounts
  <1>12. PICK g \in Int : g = -f OBVIOUS
  <1>13. /\ Total(Wants, pullerBox) \in Nat /\ Total(Due, pullerBox) \in Int /\ Base \in Nat /\ count.pending \in Nat
         /\ Total(Revokes, pullerBox) \in Nat /\ Len(waiting.revoked) \in Nat /\ count.unfinishedRevoked \in Int
    BY <1>2, AccountNumbers, Zenon
  <1>14. Base' = Base + 0 /\ Running(Base', Due, pullerBox')
    <2>1. Base' = Base BY <1>3 DEF Base
    <2>2. QED BY <1>3, <1>13, <2>1 DEF Accounts
  <1>15. Changes(f, g, 0, 0, 0, 0)
    <2>1. Total(FinderDue, finderBox') = Total(FinderDue, finderBox) + g
      BY <1>9, <1>10, <1>12
    <2>2. count'.pending = count.pending + 0 /\ Total(Wants, pullerBox') = Total(Wants, pullerBox) + 0
          /\ Total(Due, pullerBox') = Total(Due, pullerBox) + 0
      BY <1>3, <1>13
    <2>3. QED BY <1>7, <1>14, <2>1, <2>2 DEF Changes
  <1>16. RevokedCounted'
    <2>1. finder.revoked >= Total(Revokes, pullerBox) + Len(waiting.revoked) + count.unfinishedRevoked + Total(Handles, finderBox)
      BY RevokedIsCounted DEF RevokedCounted
    <2>2. finder.revoked - h >= Total(Revokes, pullerBox) + Len(waiting.revoked) + count.unfinishedRevoked + Total(Handles, finderBox')
      <3>1. h \in Int /\ Total(Revokes, pullerBox) \in Int /\ Len(waiting.revoked) \in Int /\ Total(Handles, finderBox') \in Int
        BY <1>9, <1>13
      <3>2. finder.revoked >= Total(Revokes, pullerBox) + Len(waiting.revoked) + count.unfinishedRevoked
                                + (Total(Handles, finderBox') + h)
        BY <1>10, <2>1, Zenon
      <3>3. QED BY <1>6, <1>13, <3>1, <3>2, CountedSums
    <2>3. QED BY <1>3, <1>7, <2>2 DEF RevokedCounted
  <1>17. OwedChanges(0) BY <1>2, <1>3, OwedStays
  <1>18. 0 \in Int /\ f + g = 0 + 0 /\ 0 + 0 = 0 /\ count' \in CountType
    BY <1>2, <1>3, <1>12
  <1>19. QED BY <1>2, <1>11, <1>14, <1>15, <1>16, <1>17, <1>18, AccountsChange

(* The Puller is told of the revoked documents of a list first.            *)
LEMMA RevokedFirstCounts ==
    ASSUME Typed, NEW m, m.first \in Nat, m.last \in Nat, 1 <= m.first, m.last <= N
    PROVE  /\ pullerBox \o RevokedFirst(m) \in Seq(PullerMail)
           /\ SameRequests(pullerBox, pullerBox \o RevokedFirst(m)) /\ Cardinality(RevokedOnes(m)) \in Nat
           /\ Total(Revokes, pullerBox \o RevokedFirst(m)) = Total(Revokes, pullerBox) + Cardinality(RevokedOnes(m))
  <1>1. pullerBox \in Seq(PullerMail) /\ RevokedOnes(m) \in SUBSET Seqs
    <2>1. RevokedOnes(m) \in SUBSET Seqs BY Numbers DEF RevokedOnes
    <2>2. QED BY <2>1 DEF Typed
  <1>2. /\ Total(Wants, pullerBox) \in Nat /\ Total(Due, pullerBox) \in Int /\ Total(Revokes, pullerBox) \in Nat
        /\ Cardinality(RevokedOnes(m)) \in Nat
    BY <1>1, Totals, Finite
  <1>3. CASE RevokedOnes(m) = {}
    <2>1. pullerBox \o RevokedFirst(m) = pullerBox
      BY <1>1, <1>3 DEF RevokedFirst
    <2>2. Cardinality(RevokedOnes(m)) = 0 BY <1>3, FS_EmptySet
    <2>3. SameRequests(pullerBox, pullerBox) BY DEF SameRequests
    <2>4. QED BY <1>1, <1>2, <2>1, <2>2, <2>3
  <1>4. CASE RevokedOnes(m) # {}
    <2>1. PICK x : x = RevokedMessage(m) OBVIOUS
    <2>2. x \in RevokedMail /\ x.seqs = RevokedOnes(m) /\ x.t = "documentsRevoked"
      BY <1>1, <1>4, <2>1 DEF RevokedMail, RevokedMessage
    <2>3. x \in PullerMail BY <2>2, MailKinds
    <2>4. PICK c \in Nat : c = Cardinality(RevokedOnes(m)) BY <1>2
    <2>5. Wants[x] = 0 /\ Due[x] = 0 /\ Revokes[x] = c
      BY <2>2, <2>3, <2>4, WeightOf
    <2>6. PICK new : new = Append(pullerBox, x) OBVIOUS
    <2>7. pullerBox \o RevokedFirst(m) = new
      BY <1>1, <1>4, <2>1, <2>3, <2>6, Single DEF RevokedFirst
    <2>8. /\ new \in Seq(PullerMail) /\ Adds3(pullerBox, new, 0, 0, c)
          /\ \A b \in Int : Running(b, Due, pullerBox) /\ b + Total(Due, pullerBox) + 0 >= 0 => Running(b, Due, new)
      BY <1>1, <2>3, <2>5, <2>6, PullerGets
    <2>9. \A b \in Int : Running(b, Due, pullerBox) => b + Total(Due, pullerBox) >= 0
      BY <1>1, Weights, RunningEnds
    <2>10. \A b \in Int : Running(b, Due, pullerBox) => Running(b, Due, new)
      BY <1>2, <2>8, <2>9
    <2>11. SameRequests(pullerBox, new) /\ Total(Revokes, new) = Total(Revokes, pullerBox) + c
      BY <1>2, <2>8, <2>10 DEF SameRequests, Adds3
    <2>12. QED BY <1>2, <2>4, <2>7, <2>8, <2>11
  <1>5. QED BY <1>3, <1>4

(* A list that is passed on: the peer owes the revisions that it lists.    *)
LEMMA OwedOfList ==
    ASSUME IInv, NEW m \in Pending, link' = link, NEW n \in Nat, n = Cardinality(WantedOnes(m)),
           owed' = IF link = "open" THEN owed \cup (WantedOnes(m) \X {1}) ELSE owed
    PROVE  OwedChanges(n)
  <1>1. Typed /\ OnePlace /\ ListsKnown BY DEF IInv
  <1>2. owed \in SUBSET Ids /\ Cardinality(owed) \in Nat /\ IsFiniteSet(owed)
    BY <1>1, Finite DEF Typed
  <1>3. m.first \in Nat /\ m.last \in Nat /\ 1 <= m.first /\ m.last <= N
    BY <1>1, MailTypes DEF ListsKnown
  <1>4. WantedOnes(m) \in SUBSET Seqs /\ IsFiniteSet(WantedOnes(m))
    <2>1. WantedOnes(m) \in SUBSET Seqs BY <1>3, Numbers DEF WantedOnes
    <2>2. QED BY <2>1, Finite
  <1>5. CASE link # "open" BY <1>2, <1>5 DEF OwedChanges
  <1>6. CASE link = "open"
    <2>1. PICK S : S = WantedOnes(m) \X {1} OBVIOUS
    <2>2. IsFiniteSet({1}) /\ Cardinality({1}) = 1 BY FS_Singleton
    <2>3. IsFiniteSet(S) /\ Cardinality(S) = n * 1
      BY <1>4, <2>1, <2>2, FS_Product
    <2>4. owed \cap S = {}
      <3>1. SUFFICES ASSUME NEW id \in S, id \in owed PROVE FALSE OBVIOUS
      <3>2. PICK s \in WantedOnes(m) : id = <<s, 1>> BY <2>1
      <3>3. s \in Seqs /\ Covers(m, s) /\ kind[s] = "rev"
        BY <1>4 DEF WantedOnes, Covers
      <3>4. <<s, 1>> \notin Coming BY <1>1, <3>3 DEF OnePlace
      <3>5. QED BY <3>1, <3>2, <3>4 DEF Coming
    <2>5. Cardinality(owed \cup S) = Cardinality(owed) + Cardinality(S)
      <3>1. Cardinality(owed \cap S) = 0 BY <2>4, FS_EmptySet
      <3>2. Cardinality(owed \cup S) = Cardinality(owed) + Cardinality(S) - Cardinality(owed \cap S)
        BY <1>2, <2>3, FS_Union
      <3>3. QED BY <1>2, <2>3, <3>1, <3>2
    <2>6. Cardinality(owed') = Cardinality(owed) + n
      BY <1>6, <2>1, <2>3, <2>5
    <2>7. QED BY <1>2, <1>6, <2>6 DEF OwedChanges
  <1>7. QED BY <1>5, <1>6

LEMMA AccountsOfList ==
    ASSUME IInv, IInv', Accounts, NEW m \in Pending, NEW others \in FinderType, others.requested = finder.requested,
           others.revoked = finder.revoked, SameFinderDue(finderBox, finderBox'), HandleChangesNow(m, others)
    PROVE  Accounts'
  <1>1. Typed /\ Typed' /\ ListsKnown /\ pullerBox \in Seq(PullerMail) /\ count \in CountType
    BY DEF IInv, Typed, Accounts
  <1>2. m.first \in Nat /\ m.last \in Nat /\ 1 <= m.first /\ m.last <= N
    BY <1>1, MailTypes DEF ListsKnown
  <1>3. waiting' = waiting /\ count' = count /\ link' = link
    BY DEF HandleChangesNow
  <1>4. ListIsEmpty(m, others) \/ ListIsPassedOn(m, others) \/ ListIsLost(m, others)
    BY ListIsHandled
  <1>5. /\ Total(Wants, pullerBox) \in Nat /\ Total(Due, pullerBox) \in Int /\ Base \in Nat /\ count.pending \in Nat
        /\ Total(Revokes, pullerBox) \in Nat /\ Len(waiting.revoked) \in Nat /\ count.unfinishedRevoked \in Int
        /\ finder.requested \in Nat /\ finder.revoked \in Int /\ Total(FinderDue, finderBox) \in Int
        /\ Total(Handles, finderBox) \in Nat
    BY <1>1, AccountNumbers, Zenon
  <1>6. /\ Total(FinderDue, finderBox') = Total(FinderDue, finderBox) + 0 /\ Total(Handles, finderBox') = Total(Handles, finderBox) + 0
        /\ \A b \in Int : Running(b, FinderDue, finderBox) => Running(b, FinderDue, finderBox')
    BY DEF SameFinderDue, Adds2
  <1>7. Running(finder.requested, FinderDue, finderBox')
    BY <1>5, <1>6 DEF Accounts
  <1>8. Base' = Base BY <1>3 DEF Base
  <1>9. Running(Base, Due, pullerBox) /\ Base \in Int BY <1>5 DEF Accounts
  <1>10. CASE ListIsEmpty(m, others)
    <2>1. pullerBox' = Append(pullerBox, [t |-> "caughtUp"]) /\ finder' = others /\ owed' = owed
      BY <1>10 DEF ListIsEmpty
    <2>2. IsLight([t |-> "caughtUp"]) BY LightMessages
    <2>3. SameDue(pullerBox, pullerBox') BY <1>1, <2>1, <2>2, LightAppended
    <2>4. QED BY <1>1, <1>3, <2>1, <2>3, AccountsStay
  <1>11. PICK box : box = pullerBox \o RevokedFirst(m) OBVIOUS
  <1>12. /\ box \in Seq(PullerMail) /\ SameRequests(pullerBox, box) /\ Cardinality(RevokedOnes(m)) \in Nat
         /\ Total(Revokes, box) = Total(Revokes, pullerBox) + Cardinality(RevokedOnes(m))
    BY <1>1, <1>2, <1>11, RevokedFirstCounts
  <1>13. PICK k \in Nat : k = Cardinality(RevokedOnes(m)) BY <1>12
  <1>14. PICK f \in Int : f = finder.revoked + k BY <1>5
  <1>15. Running(Base, Due, box) BY <1>9, <1>12 DEF SameRequests
  <1>16. ASSUME finder'.revoked = f, Total(Revokes, pullerBox') = Total(Revokes, pullerBox) + k PROVE RevokedCounted'
    <2>1. finder.revoked >= Total(Revokes, pullerBox) + Len(waiting.revoked) + count.unfinishedRevoked + Total(Handles, finderBox)
      BY RevokedIsCounted DEF RevokedCounted
    <2>2. f >= (Total(Revokes, pullerBox) + k) + Len(waiting.revoked) + count.unfinishedRevoked + Total(Handles, finderBox)
      <3>1. k \in Int /\ Total(Revokes, pullerBox) \in Int /\ Len(waiting.revoked) \in Int /\ Total(Handles, finderBox) \in Int
        BY <1>5
      <3>2. finder.revoked + k >= (Total(Revokes, pullerBox) + k) + Len(waiting.revoked) + count.unfinishedRevoked
                                    + Total(Handles, finderBox)
        BY <1>5, <2>1, <3>1, CountedSums
      <3>3. QED BY <1>14, <3>2
    <2>3. Total(Handles, finderBox') = Total(Handles, finderBox)
      BY <1>5, <1>6
    <2>4. QED BY <1>3, <1>16, <2>2, <2>3 DEF RevokedCounted
  <1>17. CASE ListIsLost(m, others)
    <2>1. pullerBox' = box /\ finder' = [others EXCEPT !.revoked = f] /\ owed' = owed
      BY <1>11, <1>13, <1>14, <1>17 DEF ListIsLost
    <2>2. finder'.revoked = f /\ finder'.requested = finder.requested
      BY <2>1 DEF FinderType
    <2>3. RevokedCounted' BY <1>12, <1>13, <1>16, <2>1, <2>2
    <2>4. Changes(0, 0, 0, 0, 0, 0)
      <3>1. Total(Wants, pullerBox') = Total(Wants, pullerBox) /\ Total(Due, pullerBox') = Total(Due, pullerBox)
        BY <1>12, <2>1 DEF SameRequests
      <3>2. Total(Wants, pullerBox') = Total(Wants, pullerBox) + 0 /\ Total(Due, pullerBox') = Total(Due, pullerBox) + 0
        BY <1>5, <3>1
      <3>3. finder'.requested = finder.requested + 0 /\ count'.pending = count.pending + 0 /\ Base' = Base + 0
        BY <1>3, <1>5, <1>8, <2>2
      <3>4. QED BY <1>6, <3>2, <3>3 DEF Changes
    <2>5. OwedChanges(0) BY <1>1, <1>3, <2>1, OwedStays
    <2>6. Running(Base', Due, pullerBox') /\ Running(finder'.requested, FinderDue, finderBox')
      BY <1>7, <1>8, <1>15, <2>1, <2>2
    <2>7. 0 \in Int /\ 0 + 0 = 0 + 0 /\ 0 + 0 = 0 /\ count' \in CountType
      BY <1>1, <1>3
    <2>8. QED BY <1>1, <2>3, <2>4, <2>5, <2>6, <2>7, AccountsChange
  <1>18. CASE ListIsPassedOn(m, others)
    <2>1. WantedOnes(m) \in SUBSET Seqs BY <1>2, Numbers DEF WantedOnes
    <2>2. PICK n \in Nat : n = Cardinality(WantedOnes(m)) BY <2>1, Finite
    <2>3. PICK r \in Int : r = finder.requested + n BY <1>5
    <2>4. /\ pullerBox' = box \o <<ExpectMessage(m)>>
          /\ finder' = [others EXCEPT !.requested = r, !.revoked = f]
          /\ owed' = IF link = "open" THEN owed \cup (WantedOnes(m) \X {1}) ELSE owed
      BY <1>11, <1>13, <1>14, <1>18, <2>2, <2>3, Zenon DEF ListIsPassedOn
    <2>5. finder' = [waiting |-> others.waiting, requested |-> r, revoked |-> f, draining |-> others.draining]
      BY <2>4, FinderUpdates
    <2>6. finder'.requested = r /\ finder'.revoked = f BY <2>5
    <2>7. PICK x : x = ExpectMessage(m) OBVIOUS
    <2>8. x \in PullerMail /\ x.t = "expectSequences" /\ x.wanted = WantedOnes(m)
      <3>1. x \in ExpectMail /\ x.t = "expectSequences" /\ x.wanted = WantedOnes(m)
        BY <1>2, <2>1, <2>7 DEF ExpectMail, ExpectMessage
      <3>2. QED BY <3>1 DEF PullerMail
    <2>9. Wants[x] = n /\ Due[x] = n /\ Revokes[x] = 0
      BY <2>2, <2>8, WeightOf
    <2>10. pullerBox' = Append(box, x) BY <1>12, <2>4, <2>7, <2>8, Single
    <2>11. /\ Adds3(box, pullerBox', n, n, 0)
           /\ \A b \in Int : Running(b, Due, box) /\ b + Total(Due, box) + n >= 0 => Running(b, Due, pullerBox')
      BY <1>12, <2>8, <2>9, <2>10, PullerGets
    <2>12. /\ Total(Wants, pullerBox') = Total(Wants, pullerBox) + n /\ Total(Due, pullerBox') = Total(Due, pullerBox) + n
           /\ Total(Revokes, pullerBox') = Total(Revokes, pullerBox) + k
      BY <1>5, <1>12, <1>13, <2>11 DEF Adds3, SameRequests
    <2>13. Running(Base, Due, pullerBox')
      <3>1. Base + Total(Due, box) >= 0
        BY <1>9, <1>12, <1>15, Weights, RunningEnds
      <3>2. Total(Due, box) \in Int BY <1>12, Totals
      <3>3. Base + Total(Due, box) + n >= 0 BY <1>9, <3>1, <3>2
      <3>4. QED BY <1>9, <1>15, <2>11, <3>3
    <2>14. RevokedCounted' BY <1>16, <2>6, <2>12
    <2>15. Running(finder'.requested, FinderDue, finderBox')
      <3>1. finderBox' \in Seq(FinderMail) BY <1>1 DEF Typed
      <3>2. Len(finderBox') \in Nat /\ \A i \in 1 .. Len(finderBox') : finderBox'[i] \in FinderMail
        BY <3>1
      <3>3. \A i \in 1 .. Len(finderBox') : FinderDue[finderBox'[i]] \in Int
        BY <3>2, Weights
      <3>4. finder.requested \in Int BY <1>5
      <3>5. Running(finder.requested + n, FinderDue, finderBox')
        BY <1>7, <3>2, <3>3, <3>4, RunningMore
      <3>6. QED BY <2>3, <2>6, <3>5
    <2>16. Changes(n, 0, 0, n, 0, n)
      <3>1. finder'.requested = finder.requested + n /\ count'.pending = count.pending + 0 /\ Base' = Base + 0
        BY <1>3, <1>5, <1>8, <2>3, <2>6
      <3>2. QED BY <1>6, <2>12, <3>1 DEF Changes
    <2>17. OwedChanges(n) BY <1>3, <2>2, <2>4, OwedOfList
    <2>18. 0 \in Int /\ n \in Int /\ n + 0 = 0 + n /\ 0 + n = n /\ count' \in CountType /\ Running(Base', Due, pullerBox')
      BY <1>1, <1>3, <1>8, <2>13
    <2>19. QED BY <1>1, <2>14, <2>15, <2>16, <2>17, <2>18, AccountsChange
  <1>19. QED BY <1>4, <1>10, <1>17, <1>18

LEMMA AccountsOfChanges ==
    ASSUME IInv, IInv', Accounts, HandleChanges
    PROVE  Accounts'
  <1>1. /\ Typed /\ Typed' /\ finderBox \in Seq(FinderMail) /\ finder \in FinderType /\ count \in CountType
        /\ pullerBox \in Seq(PullerMail)
    BY DEF IInv, Typed, FinderType, Accounts
  <1>2. finderBox # << >> /\ Head(finderBox).t = "changes" /\ finderBox' = Tail(finderBox)
    BY DEF HandleChanges
  <1>3. SameFinderDue(finderBox, finderBox') BY <1>1, <1>2, FinderDueSame
  <1>4. CASE PullerHasCapacity
    <2>1. HandleChangesNow(Head(finderBox), finder)
      BY <1>4 DEF HandleChanges
    <2>2. Head(finderBox) \in Elements(finderBox)
      BY <1>1, <1>2, TailElements
    <2>3. Head(finderBox) \in Pending
      BY <1>2, <2>2 DEF Pending, Lists, IsList
    <2>4. QED BY <1>1, <1>3, <2>1, <2>3, AccountsOfList
  <1>5. CASE ~PullerHasCapacity
    <2>1. /\ finder' = [finder EXCEPT !.waiting = Append(finder.waiting, Head(finderBox))]
          /\ UNCHANGED <<owed, link, pullerBox, count, waiting>>
      BY <1>5 DEF HandleChanges, peer, puller
    <2>2. finder'.requested = finder.requested /\ finder'.revoked = finder.revoked
      BY <1>1, <2>1 DEF FinderType
    <2>3. SameDue(pullerBox, pullerBox') BY <1>1, <2>1, SameDueItself
    <2>4. QED BY <1>1, <1>3, <2>1, <2>2, <2>3, AccountsStay
  <1>6. QED BY <1>4, <1>5

LEMMA AccountsOfWaiting ==
    ASSUME IInv, IInv', Accounts, HandleWaitingChanges
    PROVE  Accounts'
  <1>1. /\ Typed /\ Typed' /\ finderBox \in Seq(FinderMail) /\ finder \in FinderType /\ count \in CountType
        /\ pullerBox \in Seq(PullerMail) /\ finder.waiting \in Seq(ChangesMail)
    BY DEF IInv, Typed, FinderType, Accounts
  <1>2. finderBox' = finderBox BY DEF HandleWaitingChanges
  <1>3. SameFinderDue(finderBox, finderBox') BY <1>1, <1>2, FinderDueSame
  <1>4. CASE finder.waiting # << >> /\ PullerHasCapacity
    <2>1. PICK others : others = [finder EXCEPT !.waiting = Tail(finder.waiting)]
      OBVIOUS
    <2>2. HandleChangesNow(Head(finder.waiting), others)
      BY <1>4, <2>1 DEF HandleWaitingChanges
    <2>3. Tail(finder.waiting) \in Seq(ChangesMail) /\ Head(finder.waiting) \in Elements(finder.waiting)
      BY <1>1, <1>4, TailElements
    <2>4. others \in FinderType /\ others.requested = finder.requested /\ others.revoked = finder.revoked
      BY <1>1, <2>1, <2>3 DEF FinderType
    <2>5. Head(finder.waiting) \in Pending BY <2>3 DEF Pending
    <2>6. QED BY <1>3, <2>2, <2>4, <2>5, AccountsOfList
  <1>5. CASE ~(finder.waiting # << >> /\ PullerHasCapacity)
    <2>1. finder' = [finder EXCEPT !.draining = FALSE] /\ UNCHANGED <<owed, link, pullerBox, count, waiting>>
      BY <1>5 DEF HandleWaitingChanges, peer, puller
    <2>2. finder'.requested = finder.requested /\ finder'.revoked = finder.revoked
      BY <1>1, <2>1 DEF FinderType
    <2>3. SameDue(pullerBox, pullerBox') BY <1>1, <2>1, SameDueItself
    <2>4. QED BY <1>1, <1>3, <2>1, <2>2, <2>3, AccountsStay
  <1>6. QED BY <1>4, <1>5
(* A revision whose delta has failed is asked for again.                   *)
LEMMA AccountsOfAgain ==
    ASSUME IInv, IInv', Accounts, NEW id \in Ids, MayFail(id), ReRequest(id),
           UNCHANGED <<count, finder, finderBox, waiting, link>>
    PROVE  Accounts'
  <1>1. Typed /\ Typed' /\ OnePlace /\ pullerBox \in Seq(PullerMail) /\ finderBox \in Seq(FinderMail) /\ count \in CountType
    BY DEF IInv, Typed, Accounts
  <1>2. /\ Total(Wants, pullerBox) \in Nat /\ Total(Due, pullerBox) \in Int /\ Total(Revokes, pullerBox) \in Nat
        /\ Total(FinderDue, finderBox) \in Int /\ Cardinality(owed) \in Nat /\ Base \in Nat
        /\ finder.requested \in Nat /\ count.pending \in Nat
    BY <1>1, AccountNumbers, Zenon
  <1>3. PICK m : m = [t |-> "revReRequested"] OBVIOUS
  <1>4. m \in PullerMail /\ m.t = "revReRequested"
    BY <1>3 DEF PullerMail, PlainMail
  <1>5. Wants[m] = 0 /\ Due[m] = 1 /\ Revokes[m] = 0 BY <1>4, WeightOf
  <1>6. pullerBox' = Append(pullerBox, m) BY <1>3 DEF ReRequest
  <1>7. /\ Adds3(pullerBox, pullerBox', 0, 1, 0)
        /\ \A b \in Int : Running(b, Due, pullerBox) /\ b + Total(Due, pullerBox) + 1 >= 0 => Running(b, Due, pullerBox')
    BY <1>1, <1>4, <1>5, <1>6, PullerGets
  <1>8. Base' = Base /\ Running(Base, Due, pullerBox) /\ Base \in Int
    BY <1>2 DEF Base, Accounts
  <1>9. Running(Base', Due, pullerBox')
    <2>1. Base + Total(Due, pullerBox) >= 0
      BY <1>1, <1>8, Weights, RunningEnds
    <2>2. Base + Total(Due, pullerBox) + 1 >= 0 BY <1>2, <2>1
    <2>3. QED BY <1>7, <1>8, <2>2
  <1>10. Changes(0, 0, 0, 0, 0, 1) BY <1>2, <1>7, <1>8 DEF Changes, Adds3
  <1>11. RevokedCounted'
    <2>1. Total(Revokes, pullerBox') = Total(Revokes, pullerBox)
      BY <1>2, <1>7 DEF Adds3
    <2>2. QED BY <2>1, RevokedIsCounted DEF RevokedCounted
  <1>12. OwedChanges(1)
    <2>1. CASE link # "open" BY <1>2, <2>1 DEF OwedChanges, ReRequest
    <2>2. CASE link = "open"
      <3>1. id[2] = 1 /\ id = <<id[1], 1>> /\ id[1] \in Seqs
        <4>1. id[2] = 1 BY <1>1 DEF OnePlace
        <4>2. id = <<id[1], id[2]>> /\ id[1] \in Seqs BY PairIs
        <4>3. QED BY <4>1, <4>2
      <3>2. PICK again : again = <<id[1], 2>> OBVIOUS
      <3>3. again \notin owed
        <4>1. MayFail(<<id[1], 1>>) BY <3>1
        <4>2. again \notin Coming BY <1>1, <3>1, <3>2, <4>1 DEF OnePlace
        <4>3. QED BY <4>2 DEF Coming
      <3>4. owed' = owed \cup {again} BY <2>2, <3>2 DEF ReRequest
      <3>5. IsFiniteSet(owed) BY <1>1, Finite DEF Typed
      <3>6. Cardinality(owed') = Cardinality(owed) + 1
        BY <3>3, <3>4, <3>5, FS_AddElement
      <3>7. QED BY <1>2, <2>2, <3>6 DEF OwedChanges
    <2>3. QED BY <2>1, <2>2
  <1>13. 0 \in Int /\ 1 \in Int /\ 0 + 0 = 0 + 0 /\ 0 + 1 = 1 /\ count' \in CountType
    BY <1>1
  <1>14. Running(finder'.requested, FinderDue, finderBox') BY DEF Accounts
  <1>15. QED BY <1>1, <1>9, <1>10, <1>11, <1>12, <1>13, <1>14, AccountsChange

LEMMA AccountsOfFailures ==
    ASSUME IInv, IInv', Accounts, (\E id \in Ids : DeltaFails(id)) \/ InsertFails
    PROVE  Accounts'
  <1>1. CASE \E id \in Ids : DeltaFails(id)
    <2>1. PICK id \in Ids : DeltaFails(id) BY <1>1
    <2>2. inc[id].st = "parsing" /\ inc[id].delta /\ ReRequest(id) /\ UNCHANGED <<count, finder, finderBox, waiting, link>>
      BY <2>1 DEF DeltaFails
    <2>3. MayFail(id) BY <2>2 DEF MayFail
    <2>4. QED BY <2>2, <2>3, AccountsOfAgain
  <1>2. CASE InsertFails
    <2>1. PICK id : id = Head(batch) OBVIOUS
    <2>2. batch # << >> /\ UNCHANGED <<count, finder, finderBox, waiting, link>>
      BY <1>2 DEF InsertFails
    <2>3. id \in Ids /\ (id \in WantedIds => inc[id].st = "queued")
      BY <2>1, <2>2, FirstOfBatch, Zenon
    <2>4. UNCHANGED <<owed, pullerBox>> \/ (inc[id].delta /\ ReRequest(id))
      BY <1>2, <2>1 DEF InsertFails
    <2>5. CASE UNCHANGED <<owed, pullerBox>>
      <3>1. Typed /\ Typed' /\ pullerBox \in Seq(PullerMail)
        BY DEF IInv, Typed
      <3>2. SameDue(pullerBox, pullerBox') BY <2>5, <3>1, SameDueItself
      <3>3. QED BY <2>2, <2>5, <3>1, <3>2, AccountsQuiet
    <2>6. CASE inc[id].delta /\ ReRequest(id)
      <3>1. MayFail(id) BY <2>3, <2>6 DEF MayFail, IInv, WorkersKnown
      <3>2. QED BY <2>2, <2>3, <2>6, <3>1, AccountsOfAgain
    <2>7. QED BY <2>4, <2>5, <2>6
  <1>3. QED BY <1>1, <1>2

LEMMA AccountsStep ==
    ASSUME IInv, IInv', Starting, OthersTyped, Accounts, [Next]_vars
    PROVE  Accounts'
  <1>1. CASE UNCHANGED vars BY <1>1, AccountsStutter
  <1>2. CASE PeerNext BY <1>2, AccountsOfLink, AccountsOfSend DEF PeerNext
  <1>3. CASE FinderNext
    BY <1>3, AccountsOfChanges, AccountsOfReceived, AccountsOfWaiting DEF FinderNext
  <1>4. CASE WorkerNext
    BY <1>4, AccountsOfWorkers, AccountsOfFailures DEF WorkerNext
  <1>5. CASE PullerNext
    <2>1. CASE StartWaitingRevoked
      <3>1. waiting.revoked # << >>
        BY <2>1 DEF Starting, StartWaitingRevoked, CanStart
      <3>2. QED BY <2>1, <3>1, AccountsOfWaitingRevoked
    <2>2. QED BY <1>5, <2>1, AccountsOfRev, AccountsOfRevoked, AccountsOfWaitingRev, AccountsOfExpected, AccountsOfNoRev,
              AccountsOfFinished, AccountsOfPlain DEF PullerNext
  <1>6. QED BY <1>1, <1>2, <1>3, <1>4, <1>5 DEF Next
-----------------------------------------------------------------------------
(***************************************************************************)
(* The IncomingRevs and the counters of them.                              *)
(***************************************************************************)
LEMMA Limits == WorkersAccounted => count.active <= MaxActive /\ count.unfinished <= MaxIncoming
  BY Zenon DEF WorkersAccounted

LEMMA WorkersAreFinite == WorkersFinite /\ WorkersFinite'
  BY Finite DEF WorkersFinite, Unfinished, ActiveOnes

LEMMA CountsMove ==
    ASSUME WorkersAccounted, CountsTyped, CountsTyped', NEW u \in Int, NEW v \in Int, NEW a \in Int, NEW b \in Int,
           CountMoves(u, v, a, b), WorkersMove(u, v, a, b), count'.active <= MaxActive, count'.unfinished <= MaxIncoming
    PROVE  WorkersAccounted'
  <1>1. /\ count.unfinished = Cardinality(Unfinished(FALSE)) /\ count.unfinishedRevoked = Cardinality(Unfinished(TRUE))
        /\ count.active = Cardinality(ActiveOnes(FALSE)) + provisional.revs
        /\ count.activeRevoked = Cardinality(ActiveOnes(TRUE)) + provisional.revoked
    BY DEF WorkersAccounted, ActiveOnes
  <1>2. /\ Cardinality(Unfinished(FALSE)) \in Nat /\ Cardinality(Unfinished(TRUE)) \in Nat
        /\ Cardinality(ActiveOnes(FALSE)) \in Nat /\ Cardinality(ActiveOnes(TRUE)) \in Nat
    BY WorkersAreFinite DEF WorkersFinite
  <1>3. /\ provisional.revs \in Nat /\ provisional.revoked \in Nat /\ provisional'.revs \in Nat /\ provisional'.revoked \in Nat
        /\ count'.active \in Int /\ count'.activeRevoked \in Int
    BY DEF CountsTyped, CountType
  <1>4. count'.unfinished = Cardinality(Unfinished(FALSE)') /\ count'.unfinishedRevoked = Cardinality(Unfinished(TRUE)')
    BY <1>1, <1>2 DEF CountMoves, WorkersMove
  <1>5. count'.active = Cardinality(ActiveOnes(FALSE)') + provisional'.revs
    <2>1. PICK c \in Nat, d \in Int : c = Cardinality(ActiveOnes(FALSE)) /\ d = count'.active
      BY <1>2, <1>3
    <2>2. d + provisional.revs = c + provisional.revs + provisional'.revs + a
      BY <1>1, <2>1 DEF CountMoves
    <2>3. d = c + a + provisional'.revs BY <1>3, <2>2
    <2>4. QED BY <2>1, <2>3 DEF WorkersMove
  <1>6. count'.activeRevoked = Cardinality(ActiveOnes(TRUE)') + provisional'.revoked
    <2>1. PICK c \in Nat, d \in Int : c = Cardinality(ActiveOnes(TRUE)) /\ d = count'.activeRevoked
      BY <1>2, <1>3
    <2>2. d + provisional.revoked = c + provisional.revoked + provisional'.revoked + b
      BY <1>1, <2>1 DEF CountMoves
    <2>3. d = c + b + provisional'.revoked BY <1>3, <2>2
    <2>4. QED BY <2>1, <2>3 DEF WorkersMove
  <1>7. QED BY <1>4, <1>5, <1>6 DEF WorkersAccounted, ActiveOnes

LEMMA WorkersStaySame ==
    ASSUME WorkersAccounted, SameCounts, SameWorkers, provisional' = provisional
    PROVE  WorkersAccounted'
  <1>1. \A r \in BOOLEAN : Unfinished(r)' = Unfinished(r)
    BY DEF Unfinished, Revoked, SameWorkers
  <1>2. \A r \in BOOLEAN : ActiveOnes(r)' = ActiveOnes(r)
    BY <1>1 DEF ActiveOnes, Unfinished, SameWorkers
  <1>3. QED BY <1>1, <1>2 DEF WorkersAccounted, SameCounts, ActiveOnes

(* An IncomingRev that goes on.                                            *)
LEMMA WorkerGoesOn ==
    ASSUME IInv, WorkersAccounted, NEW id \in Ids, NEW x, inc' = [inc EXCEPT ![id] = x], inc[id].st # "none", x.st # "none",
           x.prov = inc[id].prov, kind' = kind, count' = count, provisional' = provisional
    PROVE  WorkersAccounted'
  <1>1. \A j \in Ids : inc'[j] = IF j = id THEN x ELSE inc[j] BY SameBoxes
  <1>2. QED BY <1>1, WorkersStaySame DEF SameWorkers, SameCounts

(* An IncomingRev that starts.                                             *)
LEMMA WorkerStarts ==
    ASSUME IInv, NEW id \in Ids, NEW x, inc' = [inc EXCEPT ![id] = x], inc[id].st = "none", x.st # "none", x.prov = FALSE,
           kind' = kind
    PROVE  IF Revoked(id) THEN WorkersMove(0, 1, 0, 1) ELSE WorkersMove(1, 0, 1, 0)
  <1>1. \A j \in Ids : inc'[j] = IF j = id THEN x ELSE inc[j] BY SameBoxes
  <1>2. PICK r \in BOOLEAN : r = Revoked(id) BY DEF Revoked
  <1>3. /\ Unfinished(r)' = Unfinished(r) \cup {id} /\ id \notin Unfinished(r)
        /\ \A q \in BOOLEAN \ {r} : Unfinished(q)' = Unfinished(q)
    BY <1>1, <1>2 DEF Unfinished, Revoked
  <1>4. /\ ActiveOnes(r)' = ActiveOnes(r) \cup {id} /\ id \notin ActiveOnes(r)
        /\ \A q \in BOOLEAN \ {r} : ActiveOnes(q)' = ActiveOnes(q)
    BY <1>1, <1>2, <1>3 DEF ActiveOnes, Unfinished, Revoked
  <1>5. /\ Cardinality(Unfinished(r)') = Cardinality(Unfinished(r)) + 1
        /\ Cardinality(ActiveOnes(r)') = Cardinality(ActiveOnes(r)) + 1
    BY <1>3, <1>4, WorkersAreFinite, FS_AddElement DEF WorkersFinite
  <1>6. \A q \in BOOLEAN \ {r} : /\ Cardinality(Unfinished(q)') = Cardinality(Unfinished(q)) + 0
                                 /\ Cardinality(ActiveOnes(q)') = Cardinality(ActiveOnes(q)) + 0
    BY <1>3, <1>4, WorkersAreFinite DEF WorkersFinite
  <1>7. QED BY <1>2, <1>5, <1>6 DEF WorkersMove
LEMMA StartRevIsCounted ==
    ASSUME IInv, Accounts, OthersTyped, WorkersAccounted, NEW m \in RevMail, m.id \in Coming, NEW box \in Seq(PullerMail),
           RoomForRev, StartIncomingRev(m, box), kind' = kind
    PROVE  WorkersAccounted'
  <1>1. count \in CountType /\ provisional \in [revs : Nat, revoked : Nat]
    BY DEF Accounts, OthersTyped
  <1>2. m.id \in Ids /\ inc[m.id].st = "none" /\ ~Revoked(m.id)
    BY MailKinds, SameBoxes DEF OnePlace, WantedIds, Revoked
  <1>3. PICK p \in Int, v \in Int, x \in Int : p = count.pending - 1 /\ v = count.active + 1 /\ x = count.unfinished + 1
    BY <1>1 DEF CountType
  <1>4. CASE connected
    <2>1. count' = [count EXCEPT !.pending = p, !.active = v, !.unfinished = x] /\ HandleRevMessage(m, box)
      BY <1>3, <1>4, Zenon DEF StartIncomingRev
    <2>2. count' = [pending |-> p, active |-> v, unfinished |-> x,
                    activeRevoked |-> count.activeRevoked, unfinishedRevoked |-> count.unfinishedRevoked]
      BY <1>1, <2>1, CountStarts, Zenon
    <2>3. provisional' = provisional BY <2>1 DEF HandleRevMessage
    <2>4. CountMoves(1, 0, 1, 0) /\ CountsTyped /\ CountsTyped'
      BY <1>1, <1>3, <2>2, <2>3 DEF CountMoves, CountsTyped, CountType
    <2>5. PICK y : Dispatch(m.id, y, box) BY <2>1, RevDispatches, SameBoxes
    <2>6. WorkersMove(1, 0, 1, 0) BY <1>2, <2>5, WorkerStarts DEF Dispatch
    <2>7. count'.active <= MaxActive /\ count'.unfinished <= MaxIncoming
      <3>1. MaxActive \in Nat /\ MaxIncoming \in Nat /\ count.active \in Int /\ count.unfinished \in Int
        BY <1>1, PullerAssumption DEF CountType
      <3>2. v <= MaxActive /\ x <= MaxIncoming BY <1>3, <3>1 DEF RoomForRev
      <3>3. QED BY <2>2, <3>2
    <2>8. 0 \in Int /\ 1 \in Int OBVIOUS
    <2>9. QED BY <2>4, <2>6, <2>7, <2>8, CountsMove
  <1>5. CASE ~connected
    <2>1. count' = [count EXCEPT !.pending = p] /\ UNCHANGED <<inc, provisional>>
      BY <1>3, <1>5 DEF StartIncomingRev, workers
    <2>2. SameCounts BY <1>1, <2>1 DEF SameCounts, CountType
    <2>3. QED BY <2>1, <2>2, WorkersStaySame DEF SameWorkers
  <1>6. QED BY <1>4, <1>5

LEMMA StartRevokedIsCounted ==
    ASSUME IInv, Accounts, OthersTyped, WorkersAccounted, RevokedOnce, NEW s \in NotStarted, NEW box \in Seq(PullerMail),
           StartRevoked(s, box), kind' = kind
    PROVE  WorkersAccounted'
  <1>1. count \in CountType /\ provisional \in [revs : Nat, revoked : Nat]
    BY DEF Accounts, OthersTyped
  <1>2. s \in Seqs /\ kind[s] = "revoked" /\ inc[<<s, 1>>].st = "none"
    BY RevokedTypes, SameBoxes DEF RevokedOnce, NotStarted, WorkersKnown
  <1>3. PICK id \in Ids : id = <<s, 1>> /\ Revoked(id) /\ inc[id].st = "none"
    BY <1>2 DEF Ids, Revoked
  <1>4. CASE connected
    <2>1. PICK v \in Int, x \in Int : v = count.activeRevoked + 1 /\ x = count.unfinishedRevoked + 1
      BY <1>1 DEF CountType
    <2>2. count' = [count EXCEPT !.activeRevoked = v, !.unfinishedRevoked = x] /\ HandleRevokedDoc(id, box)
      BY <1>3, <1>4, <2>1, Zenon DEF StartRevoked
    <2>3. count' = [pending |-> count.pending, active |-> count.active, unfinished |-> count.unfinished,
                    activeRevoked |-> v, unfinishedRevoked |-> x]
      BY <1>1, <2>2, CountUpdates, Zenon
    <2>4. provisional' = provisional BY <2>2 DEF HandleRevokedDoc
    <2>5. CountMoves(0, 1, 0, 1) /\ CountsTyped /\ CountsTyped'
      BY <1>1, <2>1, <2>3, <2>4 DEF CountMoves, CountsTyped, CountType
    <2>6. PICK y : Dispatch(id, y, box)
      BY <2>2, RevokedDispatches, SameBoxes
    <2>7. WorkersMove(0, 1, 0, 1) BY <1>3, <2>6, WorkerStarts DEF Dispatch
    <2>8. count'.active <= MaxActive /\ count'.unfinished <= MaxIncoming /\ 0 \in Int /\ 1 \in Int
      <3>1. count'.active = count.active /\ count'.unfinished = count.unfinished
        BY <2>3
      <3>2. QED BY <3>1, Limits
    <2>9. QED BY <2>5, <2>7, <2>8, CountsMove
  <1>5. CASE ~connected
    BY <1>5, WorkersStaySame DEF StartRevoked, workers, SameCounts, SameWorkers
  <1>6. QED BY <1>4, <1>5

LEMMA RevsAreCounted ==
    ASSUME IInv, Accounts, OthersTyped, WorkersAccounted, HandleRev \/ StartWaitingRev
    PROVE  WorkersAccounted'
  <1>1. CASE HandleRev
    <2>1. PICK m : m = Head(pullerBox) OBVIOUS
    <2>2. pullerBox # << >> /\ m.t = "rev" /\ kind' = kind
      BY <1>1, <2>1 DEF HandleRev, Receive, peer
    <2>3. m \in RevMail /\ m.id \in Coming /\ Tail(pullerBox) \in Seq(PullerMail)
      BY <2>1, <2>2, RevTaken, SameBoxes DEF Coming
    <2>4. CASE RoomForRev
      <3>1. StartIncomingRev(m, Tail(pullerBox))
        BY <1>1, <2>1, <2>4 DEF HandleRev
      <3>2. QED BY <2>2, <2>3, <2>4, <3>1, StartRevIsCounted
    <2>5. CASE ~RoomForRev
      BY <1>1, <2>2, <2>5, WorkersStaySame DEF HandleRev, workers, SameCounts, SameWorkers
    <2>6. QED BY <2>4, <2>5
  <1>2. CASE StartWaitingRev
    <2>1. PICK m : m = Head(waiting.revs) OBVIOUS
    <2>2. waiting.revs # << >> /\ StartIncomingRev(m, pullerBox) /\ kind' = kind /\ RoomForRev
      BY <1>2, <2>1 DEF StartWaitingRev, peer
    <2>3. m \in RevMail /\ RevIdOf(m) \subseteq RevIds(waiting.revs)
      BY <2>1, <2>2, BoxTail, ComingApart
    <2>4. m.id \in Coming BY <2>3, MailKinds DEF RevIdOf, Coming
    <2>5. QED BY <2>2, <2>3, <2>4, SameBoxes, StartRevIsCounted
  <1>3. QED BY <1>1, <1>2

LEMMA RevokedAreCounted ==
    ASSUME IInv, Accounts, OthersTyped, WorkersAccounted, RevokedOnce,
           DocumentsRevoked \/ (StartWaitingRevoked /\ waiting.revoked # << >>)
    PROVE  WorkersAccounted'
  <1>1. CASE DocumentsRevoked
    <2>1. PICK s, rest : RevokedTaken(s, rest) BY <1>1, RevokedTakes
    <2>2. rest \in Seq(PullerMail) /\ s \in NotStarted /\ kind' = kind
      BY <2>1, RestIs DEF RevokedTaken, NotStarted, peer
    <2>3. CASE RoomForRevoked
      BY <2>1, <2>2, <2>3, StartRevokedIsCounted DEF RevokedTaken
    <2>4. CASE ~RoomForRevoked
      BY <2>1, <2>2, <2>4, WorkersStaySame DEF RevokedTaken, workers, SameCounts, SameWorkers
    <2>5. QED BY <2>3, <2>4
  <1>2. CASE StartWaitingRevoked /\ waiting.revoked # << >>
    <2>1. PICK q \in Seq(Seqs) : q = waiting.revoked BY ComingApart
    <2>2. StartRevoked(Head(q), pullerBox) /\ kind' = kind /\ Head(q) \in Elements(q)
      BY <1>2, <2>1, TailElements DEF StartWaitingRevoked, peer
    <2>3. QED BY <2>1, <2>2, SameBoxes, StartRevokedIsCounted DEF NotStarted
  <1>3. QED BY <1>1, <1>2
(* A revision is inserted: an IncomingRev less is active, and the batcher  *)
(* tells the Puller of one more.                                           *)
LEMMA InsertIsCounted ==
    ASSUME IInv, Accounts, OthersTyped, WorkersAccounted, InsertOne
    PROVE  WorkersAccounted'
  <1>1. PICK id : id = Head(batch) OBVIOUS
  <1>2. /\ batch # << >> /\ inc' = [inc EXCEPT ![id].st = "inserted", ![id].prov = TRUE] /\ kind' = kind /\ count' = count
        /\ provisional' = [provisional EXCEPT ![HandledProvisionally(id)] = provisional[HandledProvisionally(id)] + 1]
    BY <1>1 DEF InsertOne, peer
  <1>3. id \in Ids /\ inc[id].st = "queued" BY <1>1, <1>2, FirstOfBatch
  <1>4. ~inc[id].prov BY <1>3, SameBoxes DEF WorkersKnown, ProvIsRight
  <1>5. /\ inc'[id].st = "inserted" /\ inc'[id].prov = TRUE
        /\ \A j \in Ids : j # id => inc'[j] = inc[j]
    <2>1. PICK g : g = [inc EXCEPT ![id].st = "inserted"] OBVIOUS
    <2>2. g \in [Ids -> IncType] /\ g[id].st = "inserted" /\ \A j \in Ids : j # id => g[j] = inc[j]
      BY <1>3, <2>1, SameBoxes DEF IncType, Statuses
    <2>3. inc' = [g EXCEPT ![id].prov = TRUE] BY <1>2, <2>1, Zenon
    <2>4. QED BY <1>3, <2>2, <2>3 DEF IncType
  <1>6. \A r \in BOOLEAN : Unfinished(r)' = Unfinished(r)
    BY <1>2, <1>3, <1>5 DEF Unfinished, Revoked
  <1>7. PICK r \in BOOLEAN : r = Revoked(id) BY DEF Revoked
  <1>8. /\ ActiveOnes(r)' = ActiveOnes(r) \ {id} /\ id \in ActiveOnes(r)
        /\ \A q \in BOOLEAN \ {r} : ActiveOnes(q)' = ActiveOnes(q)
    BY <1>2, <1>3, <1>4, <1>5, <1>6, <1>7 DEF ActiveOnes, Unfinished, Revoked
  <1>9. /\ \A q \in BOOLEAN : Cardinality(Unfinished(q)') = Cardinality(Unfinished(q)) + 0
        /\ \A q \in BOOLEAN \ {r} : Cardinality(ActiveOnes(q)') = Cardinality(ActiveOnes(q)) + 0
    BY <1>6, <1>8, WorkersAreFinite DEF WorkersFinite
  <1>10. Cardinality(ActiveOnes(r)') = Cardinality(ActiveOnes(r)) + (-1)
    <2>1. PICK S : S = ActiveOnes(r) OBVIOUS
    <2>2. IsFiniteSet(S) /\ Cardinality(S) \in Nat
      BY <2>1, WorkersAreFinite DEF WorkersFinite
    <2>3. Cardinality(S \ {id}) = Cardinality(S) - 1
      BY <1>8, <2>1, <2>2, FS_RemoveElement
    <2>4. QED BY <1>8, <2>1, <2>2, <2>3
  <1>11. count \in CountType /\ provisional \in [revs : Nat, revoked : Nat]
    BY DEF Accounts, OthersTyped
  <1>12. count'.active <= MaxActive /\ count'.unfinished <= MaxIncoming /\ 0 \in Int /\ -1 \in Int
    BY <1>2, Limits
  <1>13. CASE r
    <2>1. WorkersMove(0, 0, 0, -1) BY <1>9, <1>10, <1>13 DEF WorkersMove
    <2>2. provisional' = [provisional EXCEPT !["revoked"] = provisional["revoked"] + 1]
      BY <1>2, <1>7, <1>13 DEF HandledProvisionally
    <2>3. CountMoves(0, 0, 0, -1) /\ CountsTyped /\ CountsTyped'
      BY <1>2, <1>11, <2>2 DEF CountMoves, CountsTyped, CountType
    <2>4. QED BY <1>12, <2>1, <2>3, CountsMove
  <1>14. CASE ~r
    <2>1. WorkersMove(0, 0, -1, 0) BY <1>9, <1>10, <1>14 DEF WorkersMove
    <2>2. provisional' = [provisional EXCEPT !["revs"] = provisional["revs"] + 1]
      BY <1>2, <1>7, <1>14 DEF HandledProvisionally
    <2>3. CountMoves(0, 0, -1, 0) /\ CountsTyped /\ CountsTyped'
      BY <1>2, <1>11, <2>2 DEF CountMoves, CountsTyped, CountType
    <2>4. QED BY <1>12, <2>1, <2>3, CountsMove
  <1>15. QED BY <1>13, <1>14

LEMMA ProvisionalAreCounted ==
    ASSUME IInv, Accounts, OthersTyped, WorkersAccounted, RevsWereProvisionallyHandled
    PROVE  WorkersAccounted'
  <1>1. count \in CountType /\ provisional \in [revs : Nat, revoked : Nat]
    BY DEF Accounts, OthersTyped
  <1>2. PICK a \in Int, b \in Int : a = count.active - provisional.revs /\ b = count.activeRevoked - provisional.revoked
    BY <1>1 DEF CountType
  <1>3. count' = [count EXCEPT !.active = a, !.activeRevoked = b] /\ provisional' = [revs |-> 0, revoked |-> 0]
        /\ inc' = inc /\ kind' = kind
    BY <1>2, Zenon DEF RevsWereProvisionallyHandled, peer
  <1>4. count' = [pending |-> count.pending, active |-> a, unfinished |-> count.unfinished,
                  activeRevoked |-> b, unfinishedRevoked |-> count.unfinishedRevoked]
    BY <1>1, <1>3, CountUpdates, Zenon
  <1>5. CountMoves(0, 0, 0, 0) /\ CountsTyped /\ CountsTyped'
    BY <1>1, <1>2, <1>3, <1>4 DEF CountMoves, CountsTyped, CountType
  <1>6. WorkersMove(0, 0, 0, 0)
    <2>1. \A r \in BOOLEAN : Unfinished(r)' = Unfinished(r) /\ ActiveOnes(r)' = ActiveOnes(r)
      BY <1>3 DEF Unfinished, ActiveOnes, Revoked
    <2>2. \A r \in BOOLEAN : /\ Cardinality(Unfinished(r)') = Cardinality(Unfinished(r)) + 0
                             /\ Cardinality(ActiveOnes(r)') = Cardinality(ActiveOnes(r)) + 0
      BY <2>1, WorkersAreFinite DEF WorkersFinite
    <2>3. QED BY <2>2 DEF WorkersMove
  <1>7. count'.active <= MaxActive /\ count'.unfinished <= MaxIncoming
    <2>1. count.active \in Int /\ provisional.revs \in Nat /\ MaxActive \in Nat
      BY <1>1, PullerAssumption DEF CountType
    <2>2. QED BY <1>2, <1>4, <2>1, Limits
  <1>8. 0 \in Int OBVIOUS
  <1>9. QED BY <1>5, <1>6, <1>7, <1>8, CountsMove
LEMMA FinishedAreCounted ==
    ASSUME IInv, Accounts, OthersTyped, WorkersAccounted, RevsFinished
    PROVE  WorkersAccounted'
  <1>1. count \in CountType /\ provisional \in [revs : Nat, revoked : Nat] /\ returning \in SUBSET Ids
    BY DEF Accounts, OthersTyped, IInv, Typed
  <1>2. /\ inc' = [id \in Ids |-> IF id \in returning THEN NoInc ELSE inc[id]] /\ kind' = kind /\ provisional' = provisional
    BY DEF RevsFinished, peer
  <1>3. \A id \in returning : inc[id].st = "returned"
    BY SameBoxes DEF WorkersKnown, AreAll
  <1>4. \A r \in BOOLEAN : Unfinished(r)' = Unfinished(r) \ Returned(r) /\ Returned(r) \subseteq Unfinished(r)
    BY <1>1, <1>2, <1>3 DEF Unfinished, Returned, Revoked, NoInc
  <1>5. \A r \in BOOLEAN : ActiveOnes(r)' = ActiveOnes(r) \ ReturnedActive(r) /\ ReturnedActive(r) \subseteq ActiveOnes(r)
    BY <1>1, <1>2, <1>3, <1>4 DEF ActiveOnes, ReturnedActive, Unfinished, Returned, Revoked
  <1>6. ASSUME NEW S, NEW T, IsFiniteSet(S), T \subseteq S PROVE Cardinality(S \ T) = Cardinality(S) - Cardinality(T)
    <2>1. S \cap T = T BY <1>6
    <2>2. QED BY <1>6, <2>1, FS_Difference
  <1>7. \A r \in BOOLEAN : /\ Cardinality(Unfinished(r)') = Cardinality(Unfinished(r)) - Cardinality(Returned(r))
                           /\ Cardinality(ActiveOnes(r)') = Cardinality(ActiveOnes(r)) - Cardinality(ReturnedActive(r))
    BY <1>4, <1>5, <1>6, WorkersAreFinite DEF WorkersFinite
  <1>8. PICK n \in Nat, k \in Nat, a \in Nat, b \in Nat :
            /\ n = Cardinality(Returned(TRUE)) /\ k = Cardinality(Returned(FALSE))
            /\ a = Cardinality(ReturnedActive(FALSE)) /\ b = Cardinality(ReturnedActive(TRUE))
    BY FinishedCounts
  <1>9. WorkersMove(-k, -n, -a, -b)
    BY <1>7, <1>8, WorkersAreFinite DEF WorkersMove, WorkersFinite
  <1>10. count' \in CountType
         /\ count' = [pending |-> count.pending, active |-> count.active - a, unfinished |-> count.unfinished - k,
                      activeRevoked |-> count.activeRevoked - b, unfinishedRevoked |-> count.unfinishedRevoked - n]
    BY <1>8, FinishedCounts
  <1>11. /\ count.active \in Int /\ count.unfinished \in Int /\ count.activeRevoked \in Int /\ count.unfinishedRevoked \in Int
         /\ MaxActive \in Nat /\ MaxIncoming \in Nat
    BY <1>1, PullerAssumption DEF CountType
  <1>12. CountMoves(-k, -n, -a, -b) /\ CountsTyped /\ CountsTyped'
    BY <1>1, <1>2, <1>10, <1>11 DEF CountMoves, CountsTyped
  <1>13. count'.active <= MaxActive /\ count'.unfinished <= MaxIncoming
    BY <1>10, <1>11, Limits
  <1>14. -k \in Int /\ -n \in Int /\ -a \in Int /\ -b \in Int OBVIOUS
  <1>15. QED BY <1>9, <1>12, <1>13, <1>14, CountsMove

LEMMA OthersAreCounted ==
    ASSUME IInv, Accounts, OthersTyped, WorkersAccounted, WorkerNext, ~InsertOne
    PROVE  WorkersAccounted'
  <1>1. kind' = kind /\ count' = count /\ provisional' = provisional
    BY DEF WorkerNext, ParseAndInsert, DeltaFails, Return, InsertRevisionsNow, InsertFails, Commit, peer, puller
  <1>2. /\ inc \in [Ids -> IncType] /\ \A id \in Ids : inc[id].st \in {"parsing", "queued"} => inc[id].prov = FALSE
    BY SameBoxes DEF WorkersKnown, ProvIsRight, IncType
  <1>3. ASSUME NEW id \in Ids, ParseAndInsert(id) PROVE WorkersAccounted'
    <2>1. PICK x : Dispatch(id, x, pullerBox)
      BY <1>3, SameBoxes, InsertDispatches, FailDispatches DEF ParseAndInsert
    <2>2. QED BY <1>1, <1>2, <1>3, <2>1, WorkerGoesOn DEF ParseAndInsert, Dispatch
  <1>4. ASSUME NEW id \in Ids, inc[id].st \in {"parsing", "queued"}, NEW d \in BOOLEAN,
               \/ inc' = Become(id, "finishing")
               \/ inc' = [inc EXCEPT ![id] = [NoInc EXCEPT !.st = "finishing", !.transient = d]]
        PROVE  WorkersAccounted'
    <2>1. "finishing" \in Statuses BY DEF Statuses
    <2>2. PICK x : inc' = [inc EXCEPT ![id] = x] /\ x.st = "finishing" /\ x.prov = FALSE
      <3>1. /\ [NoInc EXCEPT !.st = "finishing"].st = "finishing" /\ [NoInc EXCEPT !.st = "finishing"].prov = FALSE
            /\ [NoInc EXCEPT !.st = "finishing", !.transient = d].st = "finishing"
            /\ [NoInc EXCEPT !.st = "finishing", !.transient = d].prov = FALSE
        BY <2>1, NewInc, Zenon
      <3>2. QED BY <1>4, <3>1, Zenon DEF Become
    <2>3. QED BY <1>1, <1>2, <1>4, <2>2, WorkerGoesOn
  <1>5. ASSUME NEW id \in Ids, Return(id) PROVE WorkersAccounted'
    <2>1. PICK x : x = [inc[id] EXCEPT !.st = "returned"] OBVIOUS
    <2>2. inc' = [inc EXCEPT ![id] = x] /\ x.st = "returned" /\ x.prov = inc[id].prov /\ inc[id].st = "finishing"
      BY <1>2, <1>5, <2>1 DEF Return, IncType
    <2>3. QED BY <1>1, <2>2, WorkerGoesOn
  <1>6. CASE InsertRevisionsNow
    BY <1>1, <1>6, WorkersStaySame DEF InsertRevisionsNow, SameWorkers, SameCounts
  <1>7. CASE InsertFails
    <2>1. batch # << >> BY <1>7 DEF InsertFails
    <2>2. Head(batch) \in Ids /\ inc[Head(batch)].st = "queued"
      BY <2>1, FirstOfBatch
    <2>3. QED BY <1>4, <1>7, <2>2 DEF InsertFails
  <1>8. ASSUME NEW ok \in BOOLEAN, Commit(ok) PROVE WorkersAccounted'
    <2>1. inc' = [id \in Ids |-> IF id \in Elements(inserted) THEN [inc[id] EXCEPT !.st = "finishing"] ELSE inc[id]]
      BY <1>8 DEF Commit
    <2>2. \A id \in Elements(inserted) : inc[id].st = "inserted"
      BY SameBoxes DEF WorkersKnown, AreAll
    <2>3. \A id \in Ids : inc'[id].prov = inc[id].prov /\ (inc[id].st = "none" <=> inc'[id].st = "none")
      BY <1>2, <2>1, <2>2 DEF IncType
    <2>4. QED BY <1>1, <2>3, WorkersStaySame DEF SameWorkers, SameCounts
  <1>9. ASSUME NEW id \in Ids, DeltaFails(id) PROVE WorkersAccounted'
    BY <1>4, <1>9 DEF DeltaFails
  <1>10. QED BY <1>3, <1>5, <1>6, <1>7, <1>8, <1>9 DEF WorkerNext

LEMMA WorkersStep ==
    ASSUME IInv, Starting, RevokedOnce, OthersTyped, Accounts, WorkersAccounted, [Next]_vars
    PROVE  WorkersAccounted'
  <1>1. CASE inc' = inc /\ provisional' = provisional /\ count' = count /\ (kind' = kind \/ Announce)
    <2>1. SameWorkers
      <3>1. CASE kind' = kind BY <1>1, <3>1 DEF SameWorkers
      <3>2. CASE Announce
        <4>1. \A s \in Seqs : s <= announced => kind'[s] = kind[s]
          BY <3>2, Numbers, SameBoxes DEF Announce, Typed
        <4>2. \A id \in Ids : inc[id].st # "none" => id[1] \in Seqs /\ id[1] <= announced
          BY PlaceOf
        <4>3. QED BY <1>1, <4>1, <4>2 DEF SameWorkers
      <3>3. QED BY <1>1, <3>1, <3>2
    <2>2. QED BY <1>1, <2>1, WorkersStaySame DEF SameCounts
  <1>2. CASE PeerNext
    BY <1>1, <1>2 DEF PeerNext, Reply, Announce, AnnounceEnd, SendRev, SendNoRev, Close, OnClose, peer, puller, workers
  <1>3. CASE FinderNext \/ UNCHANGED vars
    BY <1>1, <1>3
       DEF FinderNext, HandleChanges, RevReceived, HandleWaitingChanges, HandleChangesNow, vars, peer, puller, workers
  <1>4. CASE ExpectSequences \/ HandleNoRev \/ RevReRequested \/ SubChangesReply \/ SetCaughtUp \/ ConnectionClosed
    <2>1. inc' = inc /\ provisional' = provisional /\ kind' = kind
      BY <1>4 DEF ExpectSequences, HandleNoRev, RevReRequested, SubChangesReply, SetCaughtUp, ConnectionClosed, workers, peer
    <2>2. PICK p : count' = [count EXCEPT !.pending = p] \/ count' = count
      BY <1>4 DEF ExpectSequences, HandleNoRev, RevReRequested, SubChangesReply, SetCaughtUp, ConnectionClosed
    <2>3. SameCounts BY <2>2 DEF SameCounts, Accounts, CountType
    <2>4. QED BY <2>1, <2>3, WorkersStaySame DEF SameWorkers
  <1>5. CASE StartWaitingRevoked
    <2>1. waiting.revoked # << >>
      BY <1>5 DEF Starting, StartWaitingRevoked, CanStart
    <2>2. QED BY <1>5, <2>1, RevokedAreCounted
  <1>6. CASE WorkerNext BY <1>6, InsertIsCounted, OthersAreCounted
  <1>7. QED BY <1>2, <1>3, <1>4, <1>5, <1>6, RevsAreCounted, RevokedAreCounted, ProvisionalAreCounted, FinishedAreCounted
        DEF Next, PullerNext
-----------------------------------------------------------------------------
(* The messages that RequestsAccounted counts.                             *)
LEMMA NumbersAreTotals ==
    ASSUME Typed
    PROVE  /\ WantedIn(pullerBox) = Total(Wants, pullerBox)
           /\ Number(pullerBox, {"revReRequested"}) = Total(Again, pullerBox)
           /\ Number(pullerBox, {"rev", "norev"}) = Total(Comes, pullerBox)
           /\ Number(finderBox, {"reRequestingRev"}) = Total(Asks, finderBox)
           /\ Number(finderBox, {"revReceived"}) = Total(Receives, finderBox)
  <1>1. /\ \A i \in DOMAIN pullerBox : pullerBox[i] \in PullerMail
        /\ \A i \in DOMAIN finderBox : finderBox[i] \in FinderMail
    BY DEF Typed
  <1>2. [i \in DOMAIN pullerBox |-> IF pullerBox[i].t = "expectSequences" THEN Cardinality(pullerBox[i].wanted) ELSE 0]
          = [i \in DOMAIN pullerBox |-> Wants[pullerBox[i]]]
    BY <1>1 DEF Wants
  <1>3. [i \in DOMAIN pullerBox |-> IF pullerBox[i].t \in {"revReRequested"} THEN 1 ELSE 0]
          = [i \in DOMAIN pullerBox |-> Again[pullerBox[i]]]
    BY <1>1 DEF Again
  <1>4. [i \in DOMAIN pullerBox |-> IF pullerBox[i].t \in {"rev", "norev"} THEN 1 ELSE 0]
          = [i \in DOMAIN pullerBox |-> Comes[pullerBox[i]]]
    BY <1>1 DEF Comes
  <1>5. [i \in DOMAIN finderBox |-> IF finderBox[i].t \in {"reRequestingRev"} THEN 1 ELSE 0]
          = [i \in DOMAIN finderBox |-> Asks[finderBox[i]]]
    BY <1>1 DEF Asks
  <1>6. [i \in DOMAIN finderBox |-> IF finderBox[i].t \in {"revReceived"} THEN 1 ELSE 0]
          = [i \in DOMAIN finderBox |-> Receives[finderBox[i]]]
    BY <1>1 DEF Receives
  <1>7. QED BY <1>2, <1>3, <1>4, <1>5, <1>6, Zenon DEF WantedIn, Number, Total

LEMMA RequestsAreAccounted ==
    ASSUME Typed, Accounts
    PROVE  RequestsAccounted
  <1>1. pullerBox \in Seq(PullerMail) /\ finderBox \in Seq(FinderMail)
    BY DEF Typed
  <1> DEFINE zero == [m \in FinderMail |-> 0]
  <1>2. /\ Asks \in [FinderMail -> Int] /\ Receives \in [FinderMail -> Int] /\ FinderDue \in [FinderMail -> Int]
        /\ zero \in [FinderMail -> Int]
    BY DEF Asks, Receives, FinderDue
  <1>3. Combines(FinderMail, FinderDue, Asks, zero, Receives)
    BY <1>2 DEF Combines, FinderDue
  <1>4. \A m \in FinderMail : zero[m] = 0 OBVIOUS
  <1> HIDE DEF zero
  <1>5. Total(zero, finderBox) = 0
    <2> DEFINE g == [k \in 0 .. Len(finderBox) |-> 0]
    <2>1. \A k \in 1 .. Len(finderBox) : finderBox[k] \in FinderMail BY <1>1
    <2>2. Len(finderBox) \in Nat BY <1>1
    <2>3. g \in SumsOf(0, zero, finderBox) /\ g[Len(finderBox)] = 0
      BY <1>4, <2>1, <2>2 DEF SumsOf
    <2> HIDE DEF g
    <2>4. g[Len(finderBox)] = Total(zero, finderBox)
      BY <1>1, <1>2, <2>3, SumsFromZero, Zenon
    <2>5. QED BY <2>3, <2>4
  <1>6. Total(Asks, finderBox) \in Int /\ Total(Receives, finderBox) \in Int
    BY <1>1, <1>2, TotalIs, Zenon
  <1>7. Total(FinderDue, finderBox) = Total(Asks, finderBox) + Total(zero, finderBox) - Total(Receives, finderBox)
    BY <1>1, <1>3, TotalOfThree
  <1>8. Total(Due, pullerBox) = Total(Wants, pullerBox) + Total(Again, pullerBox) - Total(Comes, pullerBox)
    <2>1. /\ Due \in [PullerMail -> Int] /\ Wants \in [PullerMail -> Int] /\ Again \in [PullerMail -> Int]
          /\ Comes \in [PullerMail -> Int]
      BY Weights
    <2>2. Combines(PullerMail, Due, Wants, Again, Comes)
      BY <2>1 DEF Combines, Due
    <2>3. QED BY <1>1, <2>2, TotalOfThree
  <1>9. Total(Again, pullerBox) \in Nat /\ Total(Comes, pullerBox) \in Nat /\ Total(Wants, pullerBox) \in Nat
    BY <1>1, Totals
  <1>10. /\ count.pending \in Nat /\ finder.requested \in Nat /\ Base = count.pending - Len(waiting.revs)
         /\ Len(waiting.revs) \in Nat /\ Cardinality(owed) \in Nat
    BY AccountNumbers, Zenon
  <1>11. finder.requested + Total(Asks, finderBox) = count.pending + Total(Wants, pullerBox) + Total(Receives, finderBox)
    <2>1. finder.requested + Total(FinderDue, finderBox) = count.pending + Total(Wants, pullerBox)
      BY DEF Accounts
    <2>2. QED BY <1>5, <1>6, <1>7, <1>9, <1>10, <2>1
  <1>12. /\ Base + Total(Due, pullerBox) >= Cardinality(owed)
         /\ link = "open" => Base + Total(Due, pullerBox) = Cardinality(owed)
    BY DEF Accounts
  <1>13. /\ count.pending + Total(Wants, pullerBox) + Total(Again, pullerBox)
              >= Cardinality(owed) + Total(Comes, pullerBox) + Len(waiting.revs)
         /\ link = "open" => count.pending + Total(Wants, pullerBox) + Total(Again, pullerBox)
                                = Cardinality(owed) + Total(Comes, pullerBox) + Len(waiting.revs)
    <2>1. PICK p \in Nat, w \in Nat, a \in Nat, c \in Nat, o \in Nat, l \in Nat :
             /\ p = count.pending /\ w = Total(Wants, pullerBox) /\ a = Total(Again, pullerBox)
             /\ c = Total(Comes, pullerBox) /\ o = Cardinality(owed) /\ l = Len(waiting.revs)
      BY <1>9, <1>10
    <2>2. Base + Total(Due, pullerBox) = (p - l) + (w + a - c)
      BY <1>8, <1>10, <2>1
    <2>3. (p - l) + (w + a - c) >= o /\ (link = "open" => (p - l) + (w + a - c) = o)
      BY <1>12, <2>1, <2>2
    <2>4. p + w + a >= o + c + l /\ (link = "open" => p + w + a = o + c + l)
      BY <2>3
    <2>5. QED BY <2>1, <2>4
  <1>14. QED BY <1>11, <1>13, NumbersAreTotals DEF RequestsAccounted

LEMMA WorkersInit == Init => WorkersAccounted
  <1> SUFFICES ASSUME Init PROVE WorkersAccounted OBVIOUS
  <1>1. \A r \in BOOLEAN : Unfinished(r) = {} /\ ActiveOnes(r) = {}
    BY DEF Init, Unfinished, ActiveOnes, NoInc
  <1>2. 0 <= MaxActive /\ 0 <= MaxIncoming BY PullerAssumption
  <1>3. /\ Cardinality(Unfinished(FALSE)) = 0 /\ Cardinality(Unfinished(TRUE)) = 0
        /\ Cardinality(ActiveOnes(FALSE)) = 0 /\ Cardinality(ActiveOnes(TRUE)) = 0
    BY <1>1, FS_EmptySet
  <1>4. /\ count.active = 0 /\ count.unfinished = 0 /\ count.activeRevoked = 0 /\ count.unfinishedRevoked = 0
        /\ provisional.revs = 0 /\ provisional.revoked = 0
    BY DEF Init
  <1>5. /\ count.active = Cardinality(ActiveOnes(FALSE)) + provisional.revs
        /\ count.activeRevoked = Cardinality(ActiveOnes(TRUE)) + provisional.revoked
    <2>1. 0 = 0 + 0 OBVIOUS
    <2>2. QED BY <1>3, <1>4, <2>1, Zenon
  <1>6. /\ count.unfinished = Cardinality(Unfinished(FALSE)) /\ count.unfinishedRevoked = Cardinality(Unfinished(TRUE))
        /\ count.active <= MaxActive /\ count.unfinished <= MaxIncoming
    BY <1>2, <1>3, <1>4
  <1>7. QED BY <1>5, <1>6 DEF WorkersAccounted, ActiveOnes

LEMMA CountersTyped ==
    ASSUME IInv, OthersTyped, Accounts, WorkersAccounted
    PROVE  TypeOK
  <1>1. Typed /\ provisional \in [revs : Nat, revoked : Nat]
    BY DEF IInv, OthersTyped
  <1>2. /\ count.pending \in Nat /\ finder.requested \in Nat /\ finder.revoked \in Int
        /\ Total(Revokes, pullerBox) \in Nat /\ Len(waiting.revoked) \in Nat /\ Total(Handles, finderBox) \in Nat
    BY <1>1, AccountNumbers, Zenon
  <1>3. /\ count.unfinished \in Nat /\ count.unfinishedRevoked \in Nat /\ count.active \in Nat /\ count.activeRevoked \in Nat
    <2>1. /\ Cardinality(Unfinished(FALSE)) \in Nat /\ Cardinality(Unfinished(TRUE)) \in Nat
          /\ Cardinality(ActiveOnes(FALSE)) \in Nat /\ Cardinality(ActiveOnes(TRUE)) \in Nat
      BY WorkersAreFinite DEF WorkersFinite
    <2>2. /\ count.unfinished = Cardinality(Unfinished(FALSE)) /\ count.unfinishedRevoked = Cardinality(Unfinished(TRUE))
          /\ count.active = Cardinality(ActiveOnes(FALSE)) + provisional.revs
          /\ count.activeRevoked = Cardinality(ActiveOnes(TRUE)) + provisional.revoked
      BY DEF WorkersAccounted, ActiveOnes
    <2>3. provisional.revs \in Nat /\ provisional.revoked \in Nat BY <1>1
    <2>4. PICK a \in Nat, b \in Nat : a = Cardinality(ActiveOnes(FALSE)) /\ b = Cardinality(ActiveOnes(TRUE))
      BY <2>1
    <2>5. a + provisional.revs \in Nat /\ b + provisional.revoked \in Nat
      BY <2>3
    <2>6. count.active \in Nat /\ count.activeRevoked \in Nat
      BY <2>2, <2>4, <2>5, Zenon
    <2>7. QED BY <2>1, <2>2, <2>6
  <1>4. \A c \in DOMAIN count : count[c] \in Nat
    <2>1. DOMAIN count = {"pending", "active", "unfinished", "activeRevoked", "unfinishedRevoked"}
      BY DEF Accounts, CountType
    <2>2. QED BY <1>2, <1>3, <2>1
  <1>5. finder.revoked \in Nat
    <2>1. finder.revoked >= Total(Revokes, pullerBox) + Len(waiting.revoked) + count.unfinishedRevoked + Total(Handles, finderBox)
      BY RevokedIsCounted DEF RevokedCounted
    <2>2. QED BY <1>2, <1>3, <2>1
  <1>6. lastSequence \in 0 .. N
    <2>1. lastSequence \in Nat /\ lastSequence <= missing.lastAdded /\ missing.lastAdded <= N /\ missing.lastAdded \in Nat
      BY <1>1 DEF IInv, CheckpointKnown, ListsKnown, GoodSet, Typed
    <2>2. QED BY <2>1, PullerAssumption
  <1>7. /\ waiting.revs \in Seq(RevMail) /\ waiting.revoked \in Seq(Seqs) /\ finder.draining \in BOOLEAN
        /\ Elements(waiting.revs) \subseteq RevMail /\ Elements(waiting.revoked) \subseteq Seqs
        /\ Elements(toInsert) \subseteq Ids /\ Elements(batch) \subseteq Ids /\ Elements(inserted) \subseteq Ids
    BY <1>1, ElementsOf DEF Typed
  <1>8. \A m \in Elements(waiting.revs) : m.id \in Ids BY <1>7, MailKinds
  <1>9. {caughtUp, connected, released} \subseteq BOOLEAN /\ provisional.revs \in Nat /\ provisional.revoked \in Nat
    BY DEF OthersTyped
  <1>10. QED BY <1>1, <1>2, <1>4, <1>5, <1>6, <1>7, <1>8, <1>9 DEF TypeOK, Typed, OthersTyped, Statuses, Fates

(* All the counters by which the RevFinder and the Puller throttle         *)
(* themselves and each other are right at every step of either, for any    *)
(* number of changes and any limits: what is requested is what is owed, on *)
(* its way or waiting; _unfinishedIncomingRevs and _activeIncomingRevs     *)
(* count the IncomingRevs, each once, though the two batchers deliver      *)
(* "provisionally handled" and "finished" in either order; they keep to    *)
(* their limits; and no counter goes below zero.                           *)
THEOREM CountersAlwaysMatch == Spec => []CountersMatch
  <1>1. Init => OthersTyped /\ Accounts /\ WorkersAccounted
    BY OthersInit, AccountsInit, WorkersInit
  <1>2. /\ (IInv /\ Starting /\ RevokedOnce) /\ (IInv /\ Starting /\ RevokedOnce)'
        /\ OthersTyped /\ Accounts /\ WorkersAccounted /\ [Next]_vars
        => (OthersTyped /\ Accounts /\ WorkersAccounted)'
    BY OthersStay, AccountsStep, WorkersStep
  <1>3. IInv /\ OthersTyped /\ Accounts /\ WorkersAccounted => CountersMatch
    BY RequestsAreAccounted, CountersTyped DEF IInv, CountersMatch
  <1>4. QED BY <1>1, <1>2, <1>3, Invariance, PTL DEF Spec
=============================================================================
