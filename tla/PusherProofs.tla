---------------------------- MODULE PusherProofs ----------------------------
(***************************************************************************)
(* Proofs about Pusher: no sequence stays pending for ever, no wake-up is  *)
(* lost, and no sequence counts as completed that the peer has yet to      *)
(* answer for, whatever the limits, the number of revisions and the peer's *)
(* answers.                                                                *)
(***************************************************************************)
EXTENDS Pusher, FiniteSetTheorems, WellFoundedInduction, TLAPS

(***************************************************************************)
(* The inductive invariant.                                                *)
(***************************************************************************)
Methods == {"maybeGetMoreChanges", "dbHasNewChanges", "maybeSendMoreRevs"}
Places == {"idle", "reading", "observing", "got", "replying", "failing", "sending"}
Fates == {"none", "pushed", "transient", "dropped", "permanent", "conflict"}
Known == 1 .. Len(log)

(* Whatever the Pusher and the feed speak of is a sequence of the database. *)
Typed ==
    /\ log \in Seq(Docs) /\ Len(log) \in 0 .. MaxSequence /\ announced \in 0 .. Len(log) /\ skipped \subseteq Docs
    /\ observer \in BOOLEAN /\ notify \in BOOLEAN /\ feedCaughtUp \in BOOLEAN
    /\ unread \subseteq 1 .. announced /\ maxSequence \in 0 .. Len(log)
    /\ caughtUp \in BOOLEAN /\ continuousCaughtUp \in BOOLEAN
    /\ mailbox \in [Methods -> Nat]
    /\ pushing \in [Docs -> Known \cup {0}] /\ nextRev \in [Revs -> Known \cup {0}] /\ mightRetry \in [Docs -> Known \cup {0}]
    /\ lists \subseteq Seq(Known)
    /\ queue \in Seq(Known) /\ toRetry \in Seq(Known) /\ todo \in Seq(Known) /\ kept \in Seq(Known)
    /\ flying \subseteq Known /\ awaiting \subseteq Known /\ retryCount \subseteq Known /\ noDelta \subseteq Known
    /\ completed \subseteq Known
    /\ pc \in Places /\ start \in 0 .. Len(log)
    /\ fate \in [Revs -> Fates]

(* The locals of the handlers are empty where no handler uses them. *)
Locals ==
    /\ pc \in {"idle", "reading", "sending"} => todo = << >> /\ kept = << >>
    /\ pc \in {"replying", "failing"} => kept = << >>

(* The revisions that doneWithRev() will yet be called for, which does not *)
(* include those the feed is still reading.                                *)
InWork == (UNION {Elements(l) : l \in lists}) \cup Elements(queue) \cup flying \cup awaiting
          \cup (IF pc \in {"replying", "failing"} THEN Elements(todo) ELSE {})
          \cup (IF pc = "got" THEN Elements(kept) ELSE {})

(* A document is being pushed, or a revision holds another one back, only  *)
(* as long as doneWithRev() will be called to go on from there.            *)
PushingInWork == \A d \in Docs : pushing[d] # 0 => pushing[d] \in InWork /\ log[pushing[d]] = d
HoldersInWork == \A x \in Revs : nextRev[x] # 0 => x \in InWork /\ log[nextRev[x]] = log[x]
RetriedDocs == \A d \in Docs : mightRetry[d] # 0 => log[mightRetry[d]] = d

Accounted(s) ==
    \/ s \in InWork
    \/ pc = "got" /\ s \in Elements(todo)
    \/ \E x \in Revs : nextRev[x] = s
    \/ s \in Elements(toRetry)
    \/ fate[s] \in {"transient", "dropped"}

AllAccounted == \A s \in Read \ completed : Accounted(s)

Work == PushingInWork /\ HoldersInWork /\ RetriedDocs /\ AllAccounted

(* The feed: once it has read the history its observer has, not yet read,  *)
(* all that was announced and is beyond maxSequence.                       *)
Increasing(q) == \A i, j \in DOMAIN q : i < j => q[i] < q[j]

Observed ==
    /\ Len(log) <= announced + 1
    /\ pc \in {"reading", "observing"} => observer
    /\ feedCaughtUp => observer
    /\ caughtUp \/ pc = "observing" => feedCaughtUp
    /\ feedCaughtUp => \A s \in maxSequence + 1 .. announced :
           Current(s) => s \in unread \/ (pc = "observing" /\ s \in Elements(todo))

(* While it reads the observer, changes come in order: the new ones after  *)
(* maxSequence, those it has already read not after `start'.               *)
ReadInOrder ==
    pc = "observing" =>
        /\ start <= maxSequence /\ (maxSequence = start \/ maxSequence <= announced)
        /\ Increasing(todo) /\ Elements(todo) \subseteq 1 .. announced
        /\ \A x \in Elements(todo) \cup unread : x <= start \/ x > maxSequence
        /\ \A x \in unread : \A y \in Elements(todo) : y < x

(* When the Pusher waits, it has been told to go on, or will be.           *)
SendsAll == pc \notin {"replying", "sending"} => ~CanSend
GetsMore == pc \in {"idle", "sending", "replying", "failing"} /\ (~caughtUp \/ ~continuousCaughtUp) =>
                mailbox["maybeGetMoreChanges"] > 0 \/ lists # {} \/ Len(queue) >= MaxQueued
Notified == /\ pc \notin {"reading", "observing"} /\ caughtUp /\ continuousCaughtUp /\ mailbox["dbHasNewChanges"] = 0 =>
                   unread = {} /\ notify
            /\ pc = "observing" /\ mailbox["dbHasNewChanges"] = 0 => notify

Woken == SendsAll /\ GetsMore /\ Notified

IInv == Typed /\ Locals /\ Work /\ Observed /\ ReadInOrder /\ Woken

-----------------------------------------------------------------------------
(***************************************************************************)
(* Sets of numbers and sequences.                                          *)
(***************************************************************************)
LEMMA LeastNatural ==
    ASSUME NEW T \in SUBSET Nat, T # {}
    PROVE  \E d \in T : \A e \in T : d <= e
  <1> DEFINE R == OpToRel(<, Nat)
  <1>1. IsWellFoundedOn(R, Nat)
    BY NatLessThanWellFounded
  <1>2. \A x, y \in Nat : x < y => <<x, y>> \in R
    BY DEF OpToRel
  <1> HIDE DEF R
  <1>3. PICK d \in T : \A y \in T : ~(<<y, d>> \in R)
    <2>1. \E x \in T : \A y \in T : ~(<<y, x>> \in R)
      BY <1>1, WFMin
    <2>2. QED BY <2>1
  <1>4. ASSUME NEW e \in T PROVE d <= e
    <2>1. e \in Nat /\ d \in Nat
      OBVIOUS
    <2>2. ~(e < d)
      BY <1>2, <1>3, <2>1, Zenon
    <2>3. QED BY <2>1, <2>2
  <1>5. QED BY <1>4

LEMMA GreatestIs ==
    ASSUME NEW n \in Nat, NEW S \in SUBSET (0 .. n), S # {}
    PROVE  Greatest(S) \in S /\ \A t \in S : t <= Greatest(S)
  <1> DEFINE T == {k \in 0 .. n : n - k \in S}
  <1>1. T \in SUBSET Nat /\ T # {}
    <2>1. PICK s \in S : TRUE
      OBVIOUS
    <2>2. n - s \in 0 .. n /\ n - (n - s) = s
      OBVIOUS
    <2>3. n - s \in T
      BY <2>2
    <2>4. QED BY <2>3
  <1>2. PICK k \in T : \A e \in T : k <= e
    BY <1>1, LeastNatural
  <1>3. n - k \in S /\ \A t \in S : t <= n - k
    <2>1. ASSUME NEW t \in S PROVE t <= n - k
      <3>1. n - t \in 0 .. n /\ n - (n - t) = t
        OBVIOUS
      <3>2. n - t \in T
        BY <3>1
      <3>3. k <= n - t /\ k \in 0 .. n /\ t \in 0 .. n
        BY <1>2, <3>2
      <3>4. QED BY <3>3
    <2>2. QED BY <1>2, <2>1
  <1>4. \E s \in S : \A t \in S : t <= s
    BY <1>3
  <1>5. QED BY <1>4 DEF Greatest

LEMMA ElementsOf ==
    ASSUME NEW S, NEW q \in Seq(S)
    PROVE  Elements(q) \subseteq S /\ DOMAIN q = 1 .. Len(q) /\ Len(q) \in Nat
  BY DEF Elements

LEMMA EmptyElements == Elements(<< >>) = {}
  BY DEF Elements

LEMMA AppendElements ==
    ASSUME NEW S, NEW q \in Seq(S), NEW x \in S
    PROVE  Append(q, x) \in Seq(S) /\ Elements(Append(q, x)) = Elements(q) \cup {x}
  <1> DEFINE r == Append(q, x)
             n == Len(q)
  <1>1. r \in Seq(S) /\ DOMAIN r = 1 .. n + 1 /\ DOMAIN q = 1 .. n /\ n \in Nat
    OBVIOUS
  <1>2. (\A i \in 1 .. n : r[i] = q[i]) /\ r[n + 1] = x
    OBVIOUS
  <1> HIDE DEF r, n
  <1>3. ASSUME NEW y \in Elements(r) PROVE y \in Elements(q) \cup {x}
    <2>1. PICK i \in 1 .. n + 1 : r[i] = y
      BY <1>1 DEF Elements
    <2>2. i \in 1 .. n \/ i = n + 1
      BY <1>1
    <2>3. QED BY <1>1, <1>2, <2>1, <2>2 DEF Elements
  <1>4. ASSUME NEW y \in Elements(q) \cup {x} PROVE y \in Elements(r)
    <2>1. CASE y = x
      <3>1. n + 1 \in DOMAIN r /\ r[n + 1] = y
        BY <1>1, <1>2, <2>1
      <3>2. QED BY <3>1 DEF Elements
    <2>2. CASE y \in Elements(q)
      <3>1. PICK i \in 1 .. n : q[i] = y
        BY <1>1, <2>2 DEF Elements
      <3>2. i \in DOMAIN r /\ r[i] = y
        BY <1>1, <1>2, <3>1
      <3>3. QED BY <3>2 DEF Elements
    <2>3. QED BY <1>4, <2>1, <2>2
  <1>5. Elements(r) = Elements(q) \cup {x}
    BY <1>3, <1>4
  <1>6. QED BY <1>1, <1>5 DEF r

LEMMA TailElements ==
    ASSUME NEW S, NEW q \in Seq(S), q # << >>
    PROVE  /\ Head(q) \in S /\ Head(q) \in Elements(q)
           /\ Tail(q) \in Seq(S) /\ Elements(q) = {Head(q)} \cup Elements(Tail(q))
  <1> DEFINE r == Tail(q)
             n == Len(q)
             h == Head(q)
  <1>1. r \in Seq(S) /\ DOMAIN r = 1 .. n - 1 /\ DOMAIN q = 1 .. n /\ n \in Nat \ {0}
    OBVIOUS
  <1>2. (\A i \in 1 .. n - 1 : r[i] = q[i + 1]) /\ h = q[1] /\ h \in S
    OBVIOUS
  <1> HIDE DEF r, n, h
  <1>3. ASSUME NEW y \in Elements(q) PROVE y \in {h} \cup Elements(r)
    <2>1. PICK i \in 1 .. n : q[i] = y
      BY <1>1 DEF Elements
    <2>2. CASE i = 1
      BY <1>2, <2>1, <2>2
    <2>3. CASE i # 1
      <3>1. i - 1 \in 1 .. n - 1 /\ (i - 1) + 1 = i
        BY <1>1, <2>3
      <3>2. r[i - 1] = y
        BY <1>2, <2>1, <3>1
      <3>3. QED BY <1>1, <3>1, <3>2 DEF Elements
    <2>4. QED BY <2>2, <2>3
  <1>4. h \in Elements(q)
    <2>1. 1 \in DOMAIN q
      BY <1>1
    <2>2. QED BY <1>2, <2>1 DEF Elements
  <1>5. ASSUME NEW y \in Elements(r) PROVE y \in Elements(q)
    <2>1. PICK i \in 1 .. n - 1 : r[i] = y
      BY <1>1 DEF Elements
    <2>2. i + 1 \in DOMAIN q /\ q[i + 1] = y
      BY <1>1, <1>2, <2>1
    <2>3. QED BY <2>2 DEF Elements
  <1>6. Elements(q) = {h} \cup Elements(r)
    BY <1>3, <1>4, <1>5
  <1>7. QED BY <1>1, <1>2, <1>4, <1>6 DEF r, h

LEMMA ConsElements ==
    ASSUME NEW S, NEW q \in Seq(S), NEW x \in S
    PROVE  <<x>> \o q \in Seq(S) /\ Elements(<<x>> \o q) = {x} \cup Elements(q)
  <1> DEFINE r == <<x>> \o q
  <1>1. r \in Seq(S) /\ r # << >> /\ Head(r) = x /\ Len(r) = Len(q) + 1
    OBVIOUS
  <1>2. Tail(r) = q
    OBVIOUS
  <1> HIDE DEF r
  <1>3. Elements(r) = {x} \cup Elements(q)
    BY <1>1, <1>2, TailElements
  <1>4. QED BY <1>1, <1>3 DEF r

LEMMA SingleElements ==
    ASSUME NEW S, NEW x \in S
    PROVE  <<x>> \in Seq(S) /\ Elements(<<x>>) = {x}
  BY DEF Elements

LEMMA IncreasingTail ==
    ASSUME NEW q \in Seq(Nat), q # << >>, Increasing(q)
    PROVE  Increasing(Tail(q)) /\ \A y \in Elements(Tail(q)) : Head(q) < y
  <1> DEFINE r == Tail(q)
             n == Len(q)
  <1>1. DOMAIN r = 1 .. n - 1 /\ DOMAIN q = 1 .. n /\ n \in Nat \ {0}
    OBVIOUS
  <1>2. (\A i \in 1 .. n - 1 : r[i] = q[i + 1]) /\ Head(q) = q[1]
    OBVIOUS
  <1> HIDE DEF r, n
  <1>3. ASSUME NEW i \in DOMAIN r, NEW j \in DOMAIN r, i < j PROVE r[i] < r[j]
    <2>1. i + 1 \in DOMAIN q /\ j + 1 \in DOMAIN q /\ i + 1 < j + 1
      BY <1>1, <1>3
    <2>2. q[i + 1] < q[j + 1]
      BY <2>1 DEF Increasing
    <2>3. QED BY <1>1, <1>2, <2>2
  <1>4. ASSUME NEW y \in Elements(r) PROVE Head(q) < y
    <2>1. PICK i \in 1 .. n - 1 : r[i] = y
      BY <1>1 DEF Elements
    <2>2. 1 \in DOMAIN q /\ i + 1 \in DOMAIN q /\ 1 < i + 1
      BY <1>1
    <2>3. q[1] < q[i + 1]
      BY <2>2 DEF Increasing
    <2>4. QED BY <1>2, <2>1, <2>3
  <1>5. Increasing(r)
    BY <1>3 DEF Increasing
  <1>6. QED BY <1>4, <1>5 DEF r

(* A finite set of numbers has one enumeration in ascending order. *)
Orders(q, S) == q \in [1 .. Cardinality(S) -> S] /\ Elements(q) = S /\ Increasing(q)
HasOrder(S) == \E q : Orders(q, S)

LEMMA SmallSets ==
    ASSUME NEW n \in Nat, NEW S \in SUBSET (0 .. n)
    PROVE  IsFiniteSet(S) /\ Cardinality(S) \in Nat
  <1>1. IsFiniteSet(0 .. n)
    BY FS_Interval
  <1>2. IsFiniteSet(S)
    BY <1>1, FS_Subset
  <1>3. QED BY <1>2, FS_CardinalityType

LEMMA OrderExtended ==
    ASSUME NEW n \in Nat, NEW S \in SUBSET (0 .. n), NEW m \in S, \A t \in S : t <= m, HasOrder(S \ {m})
    PROVE  HasOrder(S)
  <1> DEFINE R == S \ {m}
             c == Cardinality(R)
  <1>1. IsFiniteSet(S) /\ R \in SUBSET (0 .. n)
    BY SmallSets
  <1>2. c \in Nat /\ Cardinality(S) = c + 1
    <2>1. c = Cardinality(S) - 1 /\ c \in Nat /\ Cardinality(S) \in Nat
      BY <1>1, SmallSets, FS_RemoveElement
    <2>2. QED BY <2>1
  <1>3. PICK p : Orders(p, R)
    BY DEF HasOrder
  <1>4. p \in [1 .. c -> R] /\ Elements(p) = R /\ Increasing(p)
    BY <1>3 DEF Orders
  <1> HIDE DEF c
  <1> DEFINE q == [i \in 1 .. c + 1 |-> IF i = c + 1 THEN m ELSE p[i]]
  <1>5. /\ DOMAIN q = 1 .. c + 1 /\ q[c + 1] = m /\ (\A i \in 1 .. c : q[i] = p[i])
    BY <1>2
  <1>6. \A i \in 1 .. c : p[i] \in S /\ p[i] < m /\ p[i] \in Nat
    <2>1. ASSUME NEW i \in 1 .. c PROVE p[i] \in S /\ p[i] < m /\ p[i] \in Nat
      <3>1. p[i] \in R
        BY <1>4
      <3>2. p[i] \in S /\ p[i] # m
        BY <3>1
      <3> DEFINE z == p[i]
      <3> HIDE DEF z
      <3>a. z \in S
        BY <3>2 DEF z
      <3>b. z <= m /\ z \in Nat /\ m \in Nat
        BY <3>a
      <3>3. p[i] <= m /\ p[i] \in Nat /\ m \in Nat
        BY <3>b DEF z
      <3>4. QED BY <3>2, <3>3
    <2>2. QED BY <2>1
  <1>7. q \in [1 .. c + 1 -> S]
    <2>1. ASSUME NEW i \in 1 .. c + 1 PROVE (IF i = c + 1 THEN m ELSE p[i]) \in S
      <3>1. i # c + 1 => i \in 1 .. c
        BY <1>2
      <3>2. QED BY <1>6, <3>1
    <2>2. QED BY <2>1
  <1> HIDE DEF q
  <1>8. Elements(q) = S
    <2>1. ASSUME NEW y \in S PROVE y \in Elements(q)
      <3>1. CASE y = m
        <4>1. c + 1 \in DOMAIN q
          BY <1>2, <1>5
        <4>2. QED BY <1>5, <3>1, <4>1 DEF Elements
      <3>2. CASE y # m
        <4>1. PICK i \in DOMAIN p : p[i] = y
          BY <1>4, <3>2 DEF Elements
        <4>2. i \in 1 .. c /\ i \in DOMAIN q
          BY <1>2, <1>4, <1>5, <4>1
        <4>3. QED BY <1>5, <4>1, <4>2 DEF Elements
      <3>3. QED BY <3>1, <3>2
    <2>2. QED BY <1>5, <1>7, <2>1 DEF Elements
  <1>9. Increasing(q)
    <2>1. ASSUME NEW i \in DOMAIN q, NEW j \in DOMAIN q, i < j PROVE q[i] < q[j]
      <3>1. i \in 1 .. c
        BY <1>2, <1>5, <2>1
      <3>2. CASE j = c + 1
        BY <1>5, <1>6, <3>1, <3>2
      <3>3. CASE j # c + 1
        <4>1. j \in 1 .. c
          BY <1>2, <1>5, <2>1, <3>3
        <4>2. p[i] < p[j]
          BY <1>4, <2>1, <3>1, <4>1 DEF Increasing
        <4>3. QED BY <1>5, <3>1, <4>1, <4>2
      <3>4. QED BY <3>2, <3>3
    <2>2. QED BY <2>1 DEF Increasing
  <1>10. Orders(q, S)
    BY <1>2, <1>7, <1>8, <1>9 DEF Orders
  <1>11. QED BY <1>10 DEF HasOrder

LEMMA OrderExists ==
    ASSUME NEW n \in Nat, NEW S \in SUBSET (0 .. n)
    PROVE  HasOrder(S)
  <1> DEFINE T == {k \in Nat : \E R \in SUBSET (0 .. n) : Cardinality(R) = k /\ ~HasOrder(R)}
  <1>1. ASSUME T # {} PROVE FALSE
    <2>1. PICK k \in T : \A e \in T : k <= e
      <3>1. T \in SUBSET Nat
        OBVIOUS
      <3>2. QED BY <1>1, <3>1, LeastNatural
    <2>2. PICK R \in SUBSET (0 .. n) : Cardinality(R) = k /\ ~HasOrder(R)
      BY <2>1
    <2>3. R # {}
      <3>1. ASSUME R = {} PROVE FALSE
        <4>1. Cardinality({}) = 0
          BY FS_EmptySet
        <4>2. << >> \in [1 .. 0 -> {}]
          OBVIOUS
        <4>3. Orders(<< >>, {})
          BY <4>1, <4>2, EmptyElements DEF Orders, Increasing
        <4>4. QED BY <2>2, <3>1, <4>3 DEF HasOrder
      <3>2. QED BY <3>1
    <2>4. Greatest(R) \in R /\ \A t \in R : t <= Greatest(R)
      BY <2>3, GreatestIs
    <2> DEFINE m == Greatest(R)
               Q == R \ {m}
    <2>5. Q \in SUBSET (0 .. n) /\ Cardinality(Q) = k - 1 /\ Cardinality(Q) \in Nat /\ k \in Nat
      <3>1. IsFiniteSet(R) /\ Cardinality(R) \in Nat /\ Q \in SUBSET (0 .. n)
        BY SmallSets
      <3>2. Cardinality(Q) \in Nat
        BY <3>1, SmallSets
      <3>3. Cardinality(Q) = Cardinality(R) - 1
        BY <2>4, <3>1, FS_RemoveElement
      <3>4. QED BY <2>2, <3>1, <3>2, <3>3
    <2>6. HasOrder(Q)
      <3>1. ASSUME Cardinality(Q) \in T PROVE FALSE
        <4>1. k <= Cardinality(Q)
          BY <2>1, <3>1
        <4>2. QED BY <2>5, <4>1
      <3>2. QED BY <2>5, <3>1
    <2> HIDE DEF m
    <2>7. HasOrder(R)
      BY <2>4, <2>6, OrderExtended DEF m
    <2>8. QED BY <2>2, <2>7
  <1>2. Cardinality(S) \in Nat
    BY SmallSets
  <1>3. QED BY <1>1, <1>2

LEMMA InOrderIs ==
    ASSUME NEW n \in Nat, NEW S \in SUBSET (1 .. n)
    PROVE  InOrder(S) \in Seq(S) /\ Elements(InOrder(S)) = S /\ Increasing(InOrder(S))
  <1>1. S \in SUBSET (0 .. n)
    OBVIOUS
  <1>2. PICK q : Orders(q, S)
    BY <1>1, OrderExists DEF HasOrder
  <1>3. Orders(InOrder(S), S)
    BY <1>2 DEF Orders, InOrder, Increasing
  <1>4. Cardinality(S) \in Nat
    BY <1>1, SmallSets
  <1>5. InOrder(S) \in [1 .. Cardinality(S) -> S]
    BY <1>3 DEF Orders
  <1>6. InOrder(S) \in Seq(S)
    BY <1>4, <1>5
  <1>7. QED BY <1>3, <1>6 DEF Orders

(* The first ones of a set come before the others. *)
LEMMA FirstOfIs ==
    ASSUME NEW n \in Nat, NEW S \in SUBSET (1 .. n), NEW k \in Nat
    PROVE  FirstOf(S, k) \subseteq S /\ \A x \in S \ FirstOf(S, k) : \A y \in FirstOf(S, k) : y < x
  <1>1. ASSUME NEW x \in S \ FirstOf(S, k), NEW y \in FirstOf(S, k), ~(y < x) PROVE FALSE
    <2> DEFINE A == {t \in S : t <= x}
               B == {t \in S : t <= y}
    <2>1. y \in S /\ x \in S /\ x <= y /\ x \in Nat /\ y \in Nat
      BY <1>1 DEF FirstOf
    <2>2. A \subseteq B /\ B \in SUBSET (0 .. n) /\ A \in SUBSET (0 .. n)
      <3>1. ASSUME NEW t \in S, t <= x PROVE t <= y
        <4>1. t \in Nat
          OBVIOUS
        <4>2. QED BY <2>1, <3>1, <4>1
      <3>2. A \subseteq B
        BY <3>1
      <3>3. S \subseteq 0 .. n
        OBVIOUS
      <3>4. QED BY <3>2, <3>3
    <2>3. IsFiniteSet(B) /\ Cardinality(B) \in Nat /\ Cardinality(A) \in Nat
      BY <2>2, SmallSets
    <2>4. Cardinality(A) <= Cardinality(B)
      BY <2>2, <2>3, FS_Subset
    <2>5. Cardinality(B) <= k
      BY <1>1 DEF FirstOf
    <2>6. ~(Cardinality(A) <= k)
      BY <1>1, <2>1 DEF FirstOf
    <2>7. QED BY <2>3, <2>4, <2>5, <2>6
  <1>2. QED BY <1>1 DEF FirstOf

(* If they are fewer than asked for, there are no others. *)
LEMMA FirstOfAll ==
    ASSUME NEW n \in Nat, NEW S \in SUBSET (1 .. n), NEW k \in Nat, NEW s \in S, s \notin FirstOf(S, k)
    PROVE  Cardinality(FirstOf(S, k)) = k
  <1> DEFINE F == FirstOf(S, k)
             R == S \ F
  <1>1. F \subseteq S /\ \A x \in R : \A y \in F : y < x
    BY FirstOfIs
  <1>2. \A x \in S : x \in F <=> Cardinality({t \in S : t <= x}) <= k
    BY DEF FirstOf
  <1> HIDE DEF F
  <1>3. S \in SUBSET (0 .. n) /\ F \in SUBSET (0 .. n) /\ S \subseteq Nat
    BY <1>1
  <1>4. IsFiniteSet(F) /\ Cardinality(F) \in Nat
    BY <1>3, SmallSets
  <1>5. PICK m \in R : \A x \in R : m <= x
    <2>1. R \in SUBSET Nat /\ R # {}
      BY <1>3 DEF F
    <2>2. QED BY <2>1, LeastNatural
  <1>6. Cardinality(F) >= k
    <2>1. {t \in S : t <= m} = F \cup {m}
      <3>1. ASSUME NEW t \in S, t <= m PROVE t \in F \cup {m}
        <4>1. t \in F \/ m <= t
          BY <1>5
        <4>2. t \in Nat /\ m \in Nat
          BY <1>3
        <4>3. QED BY <3>1, <4>1, <4>2
      <3>2. ASSUME NEW t \in F \cup {m} PROVE t \in S /\ t <= m
        <4>1. t \in S /\ t \in Nat /\ m \in Nat
          BY <1>1, <1>3
        <4>2. t = m \/ t < m
          BY <1>1, <1>5
        <4>3. QED BY <4>1, <4>2
      <3>3. QED BY <3>1, <3>2
    <2>2. Cardinality(F \cup {m}) = Cardinality(F) + 1
      BY <1>4, FS_AddElement
    <2>3. ~(Cardinality(F \cup {m}) <= k)
      BY <1>2, <2>1
    <2>4. QED BY <1>4, <2>2, <2>3
  <1>7. Cardinality(F) <= k
    <2>1. CASE F = {}
      BY <2>1, FS_EmptySet
    <2>2. CASE F # {}
      <3>1. PICK g \in F : \A t \in F : t <= g
        BY <1>3, <2>2, GreatestIs
      <3>2. {t \in S : t <= g} = F
        <4>1. ASSUME NEW t \in S, t <= g PROVE t \in F
          <5>1. t \in F \/ g < t
            BY <1>1, <3>1
          <5>2. t \in Nat /\ g \in Nat
            BY <1>1, <1>3
          <5>3. QED BY <4>1, <5>1, <5>2
        <4>2. QED BY <1>1, <3>1, <4>1
      <3>3. QED BY <1>1, <1>2, <3>1, <3>2
    <2>3. QED BY <2>1, <2>2
  <1>8. QED BY <1>4, <1>6, <1>7 DEF F

LEMMA IncreasingAppend ==
    ASSUME NEW q \in Seq(Nat), NEW x \in Nat, Increasing(q), \A y \in Elements(q) : y < x
    PROVE  Increasing(Append(q, x))
  <1> DEFINE r == Append(q, x)
             n == Len(q)
  <1>1. DOMAIN r = 1 .. n + 1 /\ DOMAIN q = 1 .. n /\ n \in Nat
    OBVIOUS
  <1>2. (\A i \in 1 .. n : r[i] = q[i]) /\ r[n + 1] = x
    OBVIOUS
  <1> HIDE DEF r, n
  <1>3. ASSUME NEW i \in DOMAIN r, NEW j \in DOMAIN r, i < j PROVE r[i] < r[j]
    <2>1. i \in 1 .. n /\ i \in DOMAIN q
      BY <1>1, <1>3
    <2>2. CASE j = n + 1
      <3>1. q[i] \in Elements(q)
        BY <2>1 DEF Elements
      <3>2. QED BY <1>2, <2>1, <2>2, <3>1
    <2>3. CASE j # n + 1
      <3>1. j \in 1 .. n /\ j \in DOMAIN q
        BY <1>1, <2>3
      <3>2. QED BY <1>2, <1>3, <2>1, <3>1 DEF Increasing
    <2>4. QED BY <2>2, <2>3
  <1>4. QED BY <1>3 DEF Increasing, r

-----------------------------------------------------------------------------
(***************************************************************************)
(* Types.                                                                  *)
(***************************************************************************)
LEMMA SeqGrows ==
    ASSUME NEW A, NEW B, A \subseteq B, NEW q \in Seq(A)
    PROVE  q \in Seq(B)
  <1>1. q \in [1 .. Len(q) -> A] /\ Len(q) \in Nat
    OBVIOUS
  <1>2. q \in [1 .. Len(q) -> B]
    BY <1>1
  <1>3. QED BY <1>1, <1>2

LEMMA KnownRevs ==
    ASSUME Typed
    PROVE  /\ Known \subseteq Revs /\ Len(log) \in Nat /\ MaxSequence \in Nat /\ Known \subseteq Nat /\ 0 \notin Known
           /\ \A s \in Known : log[s] \in Docs /\ s \in 1 .. Len(log)
           /\ log' = log => Known' = Known
  <1>1. log \in Seq(Docs) /\ Len(log) \in 0 .. MaxSequence /\ MaxSequence \in Nat /\ Len(log) \in Nat
    BY PusherAssumption DEF Typed
  <1>2. Known \subseteq Revs /\ Known \subseteq Nat /\ 0 \notin Known
    BY <1>1 DEF Known, Revs
  <1>3. \A s \in Known : log[s] \in Docs /\ s \in 1 .. Len(log)
    BY <1>1 DEF Known
  <1>4. log' = log => Known' = Known
    BY DEF Known
  <1>5. QED BY <1>1, <1>2, <1>3, <1>4

LEMMA TypedDone ==
    ASSUME Typed, NEW s \in Known, NEW says \in Fates, NEW done, NEW again, DoneWithRev(s, says, done, again)
    PROVE  /\ pushing' \in [Docs -> Known \cup {0}] /\ nextRev' \in [Revs -> Known \cup {0}]
           /\ lists' \subseteq Seq(Known) /\ completed' \subseteq Known /\ fate' \in [Revs -> Fates]
  <1> DEFINE d == log[s]
             next == nextRev[s]
             told == [fate EXCEPT ![s] = says]
             ended == IF done THEN completed \cup {s} ELSE completed
  <1>1. d \in Docs /\ s \in Revs /\ next \in Known \cup {0} /\ Known \subseteq Revs
    BY KnownRevs DEF Typed
  <1>2. told \in [Revs -> Fates] /\ ended \subseteq Known
    BY <1>1 DEF Typed
  <1>3. PICK propose \in BOOLEAN :
          /\ propose => next # 0
          /\ nextRev' = [nextRev EXCEPT ![s] = 0]
          /\ pushing' = [pushing EXCEPT ![d] = IF propose THEN next ELSE IF again THEN s ELSE 0]
          /\ IF propose
             THEN lists' = lists \cup {<<next>>} /\ completed' = ended \ {next} /\ fate' = told
             ELSE /\ lists' = lists
                  /\ completed' = ended \cup ({next} \ {0})
                  /\ fate' = IF next # 0 /\ Current(next) THEN [told EXCEPT ![next] = "conflict"] ELSE told
    BY DEF DoneWithRev
  <1> HIDE DEF d, next, told, ended
  <1>4. nextRev' \in [Revs -> Known \cup {0}]
    BY <1>3 DEF Typed
  <1>5. pushing' \in [Docs -> Known \cup {0}]
    <2> DEFINE v == IF propose THEN next ELSE IF again THEN s ELSE 0
    <2>1. v \in Known \cup {0}
      BY <1>1
    <2>2. pushing' = [pushing EXCEPT ![d] = v]
      BY <1>3
    <2> HIDE DEF v
    <2>3. QED BY <2>1, <2>2 DEF Typed
  <1>6. lists' \subseteq Seq(Known)
    <2>1. next # 0 => <<next>> \in Seq(Known)
      BY <1>1, SingleElements
    <2>2. QED BY <1>3, <2>1 DEF Typed
  <1>7. completed' \subseteq Known
    BY <1>1, <1>2, <1>3
  <1>8. fate' \in [Revs -> Fates]
    <2>1. next # 0 => [told EXCEPT ![next] = "conflict"] \in [Revs -> Fates]
      BY <1>1, <1>2 DEF Fates
    <2>2. QED BY <1>2, <1>3, <2>1
  <1>9. QED BY <1>4, <1>5, <1>6, <1>7, <1>8

LEMMA TypedCommit ==
    ASSUME Typed, NEW d \in Docs, Commit(d)
    PROVE  Typed'
  <1>1. /\ log' = Append(log, d) /\ log' \in Seq(Docs) /\ Len(log') = Len(log) + 1 /\ Len(log) \in Nat /\ Len(log) < MaxSequence
        /\ Len(log') \in 0 .. MaxSequence
    <2>1. log' = Append(log, d) /\ Len(log) < MaxSequence
      BY DEF Commit
    <2>2. log \in Seq(Docs) /\ MaxSequence \in Nat
      BY PusherAssumption DEF Typed
    <2>3. log' \in Seq(Docs) /\ Len(log') = Len(log) + 1 /\ Len(log) \in Nat
      BY <2>1, <2>2
    <2>4. QED BY <2>1, <2>2, <2>3
  <1>2. Known \subseteq Known'
    BY <1>1 DEF Known
  <1> HIDE DEF Known
  <1>3. /\ UNCHANGED <<announced, skipped, feed, flags, mailbox, docs, revs, retries, pc, locals, completed, fate>>
    BY DEF Commit
  <1>4. /\ announced \in 0 .. Len(log) /\ maxSequence \in 0 .. Len(log) /\ start \in 0 .. Len(log)
    BY DEF Typed
  <1>5. /\ announced' \in 0 .. Len(log') /\ maxSequence' \in 0 .. Len(log') /\ start' \in 0 .. Len(log')
    BY <1>1, <1>3, <1>4 DEF feed, locals
  <1>6. /\ pushing' \in [Docs -> Known' \cup {0}] /\ nextRev' \in [Revs -> Known' \cup {0}] /\ mightRetry' \in [Docs -> Known' \cup {0}]
    BY <1>2, <1>3 DEF Typed, docs, retries
  <1>7. /\ lists' \subseteq Seq(Known')
        /\ queue' \in Seq(Known') /\ toRetry' \in Seq(Known') /\ todo' \in Seq(Known') /\ kept' \in Seq(Known')
    BY <1>2, <1>3, SeqGrows DEF Typed, docs, revs, retries, locals
  <1>8. /\ flying' \subseteq Known' /\ awaiting' \subseteq Known' /\ retryCount' \subseteq Known' /\ noDelta' \subseteq Known'
        /\ completed' \subseteq Known'
    BY <1>2, <1>3 DEF Typed, revs, retries
  <1>9. QED BY <1>1, <1>3, <1>5, <1>6, <1>7, <1>8 DEF Typed, feed, flags

LEMMA TypedEnqueue ==
    ASSUME Typed, NEW m \in Methods
    PROVE  Enqueue(m) \in [Methods -> Nat] /\ Enqueue(m)[m] = mailbox[m] + 1 /\ \A k \in Methods \ {m} : Enqueue(m)[k] = mailbox[k]
  BY DEF Typed, Enqueue

LEMMA TypedTake ==
    ASSUME Typed, NEW m \in Methods, mailbox[m] > 0
    PROVE  [mailbox EXCEPT ![m] = mailbox[m] - 1] \in [Methods -> Nat]
  <1>1. mailbox \in [Methods -> Nat] /\ mailbox[m] \in Nat
    BY DEF Typed
  <1> DEFINE v == mailbox[m] - 1
  <1>2. v \in Nat
    BY <1>1
  <1> HIDE DEF v
  <1>3. [mailbox EXCEPT ![m] = v] \in [Methods -> Nat]
    BY <1>1, <1>2
  <1>4. QED BY <1>3 DEF v

LEMMA TypedAnnounce ==
    ASSUME Typed, NEW again \in BOOLEAN, Announce(again)
    PROVE  Typed'
  <1>1. announced' = Len(log) /\ log' = log /\ Len(log) \in Nat /\ announced < Len(log) /\ announced \in Nat
    BY DEF Announce, Typed
  <1>2. unread' \subseteq 1 .. announced'
    <2>1. Len(log) \in 1 .. announced' /\ 1 .. announced \subseteq 1 .. announced'
      BY <1>1
    <2>2. unread' \subseteq unread \cup {Len(log)}
      BY DEF Announce
    <2>3. QED BY <2>1, <2>2 DEF Typed
  <1>3. mailbox' \in [Methods -> Nat]
    <2>1. Enqueue("dbHasNewChanges") \in [Methods -> Nat]
      BY TypedEnqueue DEF Methods
    <2>2. mailbox' = mailbox \/ mailbox' = Enqueue("dbHasNewChanges")
      BY DEF Announce
    <2>3. QED BY <2>1, <2>2 DEF Typed
  <1>4. notify' \in BOOLEAN
    BY DEF Announce
  <1>5. UNCHANGED <<log, skipped, observer, maxSequence, feedCaughtUp, flags, docs, revs, retries, pc, locals, completed, fate>>
    BY DEF Announce
  <1>6. Known' = Known
    BY <1>1 DEF Known
  <1>7. QED BY <1>1, <1>2, <1>3, <1>4, <1>5, <1>6 DEF Typed, flags, docs, revs, retries, locals

LEMMA TypedGet ==
    ASSUME Typed, HandleMaybeGetMoreChanges \/ DBHasNewChanges
    PROVE  Typed'
  <1>1. \E b \in BOOLEAN : MaybeGetMoreChanges(b)
    BY DEF Typed, HandleMaybeGetMoreChanges, DBHasNewChanges
  <1>2. continuousCaughtUp' \in BOOLEAN /\ observer' \in BOOLEAN /\ pc' \in Places
    BY <1>1 DEF MaybeGetMoreChanges, Typed, Places
  <1>3. mailbox' \in [Methods -> Nat]
    <2>1. PICK m \in Methods : mailbox[m] > 0 /\ mailbox' = [mailbox EXCEPT ![m] = mailbox[m] - 1]
      BY DEF HandleMaybeGetMoreChanges, DBHasNewChanges, Methods
    <2>2. QED BY <2>1, TypedTake
  <1>4. UNCHANGED <<db, unread, notify, maxSequence, feedCaughtUp, caughtUp, docs, revs, retries, locals, completed, fate>>
    BY DEF HandleMaybeGetMoreChanges, DBHasNewChanges
  <1>5. Known' = Known
    BY <1>4 DEF Known, db
  <1>6. QED BY <1>2, <1>3, <1>4, <1>5 DEF Typed, db, docs, revs, retries, locals

(* getHistoricalChanges() reads up to maxSequence'; when that was the last *)
(* of them nothing that is current comes after it.                         *)
LEMMA HistoricalIs ==
    ASSUME Typed, GetHistoricalChanges
    PROVE  /\ pc = "reading" /\ ~feedCaughtUp /\ pc' = "got" /\ continuousCaughtUp' = FALSE /\ feedCaughtUp' \in BOOLEAN
           /\ todo' \in Seq(Known) /\ maxSequence' \in 0 .. Len(log)
           /\ completed' = (completed \cup (maxSequence + 1 .. maxSequence')) \ Elements(todo')
           /\ feedCaughtUp' => \A s \in maxSequence' + 1 .. Len(log) : ~Current(s)
           /\ maxSequence <= maxSequence' /\ Elements(todo') \subseteq maxSequence + 1 .. maxSequence' /\ Increasing(todo')
           /\ \A s \in maxSequence + 1 .. maxSequence' : Current(s) => s \in Elements(todo') \/ log[s] \in skipped \/ s \in completed
           /\ UNCHANGED <<db, observer, unread, notify, caughtUp, mailbox, docs, revs, retries, kept, start, fate>>
  <1> DEFINE found == {s \in maxSequence + 1 .. Len(log) : Current(s)}
             candidates == {s \in found : log[s] \notin skipped /\ s \notin completed}
             pushable == FirstOf(candidates, BatchSize)
             full == Cardinality(pushable) = BatchSize
             range == IF full THEN pushable ELSE found \cup {maxSequence}
             n == Len(log)
  <1>1. /\ pc = "reading" /\ ~feedCaughtUp /\ pc' = "got" /\ continuousCaughtUp' = FALSE
        /\ feedCaughtUp' = ~full /\ maxSequence' = Greatest(range) /\ todo' = InOrder(pushable)
        /\ AddPendingSequences(todo', maxSequence + 1, Greatest(range))
        /\ UNCHANGED <<db, observer, unread, notify, caughtUp, mailbox, docs, revs, retries, kept, start, fate>>
    BY DEF GetHistoricalChanges
  <1>2. n \in Nat /\ maxSequence \in 0 .. n /\ BatchSize \in Nat /\ BatchSize # 0
    BY PusherAssumption DEF Typed
  <1> HIDE DEF n
  <1>3. found \in SUBSET (1 .. n) /\ candidates \in SUBSET found /\ candidates \in SUBSET (1 .. n)
    BY <1>2 DEF n
  <1> HIDE DEF candidates
  <1>4. pushable \subseteq candidates
    BY <1>2, <1>3, FirstOfIs
  <1> HIDE DEF pushable
  <1>5. pushable \in SUBSET (1 .. n)
    BY <1>3, <1>4
  <1>6. InOrder(pushable) \in Seq(pushable) /\ pushable \subseteq Known
    BY <1>2, <1>5, InOrderIs DEF Known, n
  <1>7. InOrder(pushable) \in Seq(Known)
    BY <1>6, SeqGrows
  <1>8. range \in SUBSET (0 .. n) /\ range # {}
    <2>1. full => pushable # {}
      BY <1>2, FS_EmptySet
    <2>2. range = pushable \/ (~full /\ range = found \cup {maxSequence})
      OBVIOUS
    <2>3. pushable \in SUBSET (0 .. n) /\ found \cup {maxSequence} \in SUBSET (0 .. n)
      <3> HIDE DEF found
      <3>1. 1 .. n \subseteq 0 .. n
        BY <1>2
      <3>2. QED BY <1>2, <1>3, <1>5, <3>1
    <2> HIDE DEF found
    <2>4. QED BY <2>1, <2>2, <2>3
  <1> HIDE DEF range
  <1>9. Greatest(range) \in range /\ \A t \in range : t <= Greatest(range)
    BY <1>2, <1>8, GreatestIs
  <1>10. ASSUME ~full, NEW s \in Greatest(range) + 1 .. Len(log), Current(s) PROVE FALSE
    <2>1. range = found \cup {maxSequence}
      BY <1>10 DEF range
    <2>2. maxSequence <= Greatest(range) /\ Greatest(range) \in 0 .. n
      BY <1>8, <1>9, <2>1
    <2>3. s \in found
      BY <1>2, <1>10, <2>2 DEF n
    <2>4. s <= Greatest(range)
      BY <1>9, <2>1, <2>3
    <2>5. QED BY <1>2, <2>2, <2>4 DEF n
  <1> HIDE DEF full
  <1>11. todo' \in Seq(Known) /\ maxSequence' \in 0 .. Len(log)
    BY <1>1, <1>7, <1>8, <1>9 DEF n
  <1>12. completed' = (completed \cup (maxSequence + 1 .. maxSequence')) \ Elements(todo')
    BY <1>1 DEF AddPendingSequences
  <1>13. feedCaughtUp' \in BOOLEAN
    BY <1>1
  <1>14. feedCaughtUp' => \A s \in maxSequence' + 1 .. Len(log) : ~Current(s)
    BY <1>1, <1>10
  <1>15. Elements(todo') = pushable /\ Increasing(todo')
    BY <1>1, <1>2, <1>5, InOrderIs
  <1> DEFINE last == Greatest(range)
  <1>16. last \in 0 .. n /\ maxSequence' = last /\ (full => range = pushable) /\ (~full => range = found \cup {maxSequence})
    BY <1>1, <1>8, <1>9 DEF range
  <1> HIDE DEF last
  <1>17. \A t \in range : t <= last
    BY <1>9 DEF last
  <1>18. maxSequence <= last /\ pushable \subseteq maxSequence + 1 .. last
    <2>1. ASSUME NEW t \in pushable PROVE t \in maxSequence + 1 .. n /\ t \in range
      <3>1. t \in found
        BY <1>3, <1>4
      <3>2. QED BY <1>16, <3>1 DEF n
    <2>2. pushable \subseteq maxSequence + 1 .. last
      BY <1>2, <1>16, <1>17, <2>1
    <2>3. CASE full
      <3>1. last \in pushable
        BY <1>9, <1>16, <2>3 DEF last
      <3>2. QED BY <1>2, <1>16, <2>1, <2>2, <3>1
    <2>4. CASE ~full
      <3>1. maxSequence \in range
        BY <1>16, <2>4
      <3>2. QED BY <1>17, <2>2, <3>1
    <2>5. QED BY <2>3, <2>4
  <1>19. ASSUME NEW s \in maxSequence + 1 .. last, Current(s), log[s] \notin skipped, s \notin completed PROVE s \in pushable
    <2>1. s \in maxSequence + 1 .. Len(log)
      BY <1>2, <1>16 DEF n
    <2>2. s \in candidates
      BY <1>19, <2>1 DEF candidates
    <2>3. CASE full
      <3>1. last \in pushable
        BY <1>9, <1>16, <2>3 DEF last
      <3>2. s \notin pushable => last < s
        BY <1>2, <1>3, <2>2, <3>1, FirstOfIs DEF pushable
      <3>3. QED BY <1>2, <1>16, <1>19, <3>2
    <2>4. CASE ~full
      <3>1. s \notin pushable => Cardinality(pushable) = BatchSize
        BY <1>2, <1>3, <2>2, FirstOfAll DEF pushable
      <3>2. QED BY <2>4, <3>1 DEF full
    <2>5. QED BY <2>3, <2>4
  <1>20. /\ maxSequence <= maxSequence' /\ Elements(todo') \subseteq maxSequence + 1 .. maxSequence' /\ Increasing(todo')
         /\ \A s \in maxSequence + 1 .. maxSequence' : Current(s) => s \in Elements(todo') \/ log[s] \in skipped \/ s \in completed
    BY <1>15, <1>16, <1>18, <1>19
  <1>21. QED BY <1>1, <1>11, <1>12, <1>13, <1>14, <1>20

LEMMA ReadObserverIs ==
    ASSUME Typed, ReadObserver
    PROVE  \E read \in SUBSET unread :
              /\ pc = "observing" /\ todo = << >> /\ unread' = unread \ read
              /\ todo' \in Seq(Known) /\ Elements(todo') = read /\ Increasing(todo')
              /\ \A x \in unread' : \A y \in read : y < x
              /\ UNCHANGED <<db, observer, notify, maxSequence, feedCaughtUp, flags, mailbox, docs, revs, retries, pc,
                             kept, start, completed, fate>>
  <1> DEFINE room == BatchSize - Len(kept)
             first == FirstOf(unread, room)
             read == FirstOf(first, MaxObserved)
             n == announced
  <1>1. /\ pc = "observing" /\ todo = << >> /\ room > 0 /\ todo' = InOrder(read) /\ unread' = unread \ read
        /\ UNCHANGED <<db, observer, notify, maxSequence, feedCaughtUp, flags, mailbox, docs, revs, retries, pc,
                       kept, start, completed, fate>>
    BY DEF ReadObserver
  <1>2. n \in Nat /\ unread \in SUBSET (1 .. n) /\ room \in Nat /\ MaxObserved \in Nat /\ 1 .. n \subseteq Known
    BY <1>1, PusherAssumption DEF Typed, Known
  <1> HIDE DEF room, n
  <1>3. first \subseteq unread /\ \A x \in unread \ first : \A y \in first : y < x
    BY <1>2, FirstOfIs
  <1> HIDE DEF first
  <1>4. first \in SUBSET (1 .. n)
    BY <1>2, <1>3
  <1>5. read \subseteq first /\ \A x \in first \ read : \A y \in read : y < x
    BY <1>2, <1>4, FirstOfIs
  <1> HIDE DEF read
  <1>6. read \in SUBSET (1 .. n) /\ read \subseteq Known
    BY <1>2, <1>4, <1>5
  <1>7. InOrder(read) \in Seq(read) /\ Elements(InOrder(read)) = read /\ Increasing(InOrder(read))
    BY <1>2, <1>6, InOrderIs
  <1>8. InOrder(read) \in Seq(Known)
    BY <1>6, <1>7, SeqGrows
  <1>9. \A x \in unread' : \A y \in read : y < x
    BY <1>1, <1>3, <1>5
  <1>10. read \in SUBSET unread
    BY <1>3, <1>5
  <1>11. todo' \in Seq(Known) /\ Elements(todo') = read /\ Increasing(todo')
    BY <1>1, <1>7, <1>8
  <1>12. QED BY <1>1, <1>9, <1>10, <1>11

LEMMA ObserveChangeIs ==
    ASSUME Typed, NEW push \in BOOLEAN, ObserveChange(push)
    PROVE  /\ pc = "observing" /\ todo # << >> /\ Head(todo) \in Known
           /\ todo' = Tail(todo) /\ todo' \in Seq(Known) /\ Elements(todo) = {Head(todo)} \cup Elements(todo')
           /\ maxSequence' = IF Head(todo) <= start THEN maxSequence ELSE Head(todo)
           /\ kept' \in Seq(Known)
           /\ UNCHANGED <<db, observer, unread, notify, feedCaughtUp, flags, mailbox, docs, revs, retries, pc,
                          start, completed, fate>>
  <1> DEFINE s == Head(todo)
             others == {t \in Elements(kept) : log[t] # log[s]}
             n == Len(log)
  <1>1. /\ pc = "observing" /\ todo # << >> /\ todo' = Tail(todo)
        /\ maxSequence' = IF s <= start THEN maxSequence ELSE s
        /\ kept' = IF push THEN Append(InOrder(others), s) ELSE kept
        /\ UNCHANGED <<db, observer, unread, notify, feedCaughtUp, flags, mailbox, docs, revs, retries, pc,
                       start, completed, fate>>
    BY DEF ObserveChange
  <1>2. todo \in Seq(Known) /\ kept \in Seq(Known) /\ n \in Nat
    BY DEF Typed
  <1>3. s \in Known /\ todo' \in Seq(Known) /\ Elements(todo) = {s} \cup Elements(todo')
    BY <1>1, <1>2, TailElements
  <1>4. Elements(kept) \subseteq Known
    BY <1>2, ElementsOf
  <1>5. others \in SUBSET (1 .. n) /\ others \subseteq Known
    BY <1>4 DEF Known
  <1> HIDE DEF others, s, n
  <1>6. InOrder(others) \in Seq(others)
    BY <1>2, <1>5, InOrderIs
  <1>7. InOrder(others) \in Seq(Known)
    BY <1>5, <1>6, SeqGrows
  <1>8. Append(InOrder(others), s) \in Seq(Known)
    BY <1>3, <1>7, AppendElements
  <1>9. kept' \in Seq(Known)
    BY <1>1, <1>2, <1>8
  <1>10. QED BY <1>1, <1>3, <1>9 DEF s

LEMMA TypedFeed ==
    ASSUME Typed, ChangesFeed
    PROVE  Typed'
  <1>1. CASE GetHistoricalChanges
    <2>1. /\ pc' = "got" /\ continuousCaughtUp' = FALSE /\ feedCaughtUp' \in BOOLEAN
          /\ todo' \in Seq(Known) /\ maxSequence' \in 0 .. Len(log)
          /\ completed' = (completed \cup (maxSequence + 1 .. maxSequence')) \ Elements(todo')
          /\ UNCHANGED <<db, observer, unread, notify, caughtUp, mailbox, docs, revs, retries, kept, start, fate>>
      BY <1>1, HistoricalIs
    <2>2. maxSequence + 1 .. maxSequence' \subseteq Known
      BY <2>1 DEF Typed, Known
    <2>3. completed' \subseteq Known /\ Known' = Known
      BY <2>1, <2>2 DEF Typed, db, Known
    <2>4. QED BY <2>1, <2>3 DEF Typed, db, docs, revs, retries, Places
  <1>2. CASE GetObservedChanges
    <2>1. Known' = Known
      BY <1>2 DEF GetObservedChanges, db, Known
    <2>2. QED BY <1>2, <2>1 DEF GetObservedChanges, Typed, db, flags, docs, revs, retries, Places
  <1>3. CASE ReadObserver
    <2>1. /\ unread' \subseteq unread /\ todo' \in Seq(Known)
          /\ UNCHANGED <<db, observer, notify, maxSequence, feedCaughtUp, flags, mailbox, docs, revs, retries, pc,
                         kept, start, completed, fate>>
      BY <1>3, ReadObserverIs
    <2>2. Known' = Known
      BY <2>1 DEF db, Known
    <2>3. QED BY <2>1, <2>2 DEF Typed, db, flags, docs, revs, retries
  <1>4. ASSUME NEW push \in BOOLEAN, ObserveChange(push) PROVE Typed'
    <2>1. /\ todo' \in Seq(Known) /\ kept' \in Seq(Known) /\ Head(todo) \in Known
          /\ maxSequence' = IF Head(todo) <= start THEN maxSequence ELSE Head(todo)
          /\ UNCHANGED <<db, observer, unread, notify, feedCaughtUp, flags, mailbox, docs, revs, retries, pc,
                         start, completed, fate>>
      BY <1>4, ObserveChangeIs
    <2>2. Known' = Known /\ maxSequence' \in 0 .. Len(log)
      BY <2>1 DEF Typed, db, Known
    <2>3. QED BY <2>1, <2>2 DEF Typed, db, flags, docs, revs, retries
  <1>5. CASE ObservedAll
    <2>1. /\ notify' \in BOOLEAN /\ caughtUp' \in BOOLEAN /\ continuousCaughtUp' \in BOOLEAN /\ pc' \in Places
          /\ todo' = kept /\ kept' = << >>
          /\ completed' = (completed \cup (start + 1 .. maxSequence)) \ Elements(kept)
          /\ UNCHANGED <<db, observer, unread, maxSequence, feedCaughtUp, mailbox, docs, revs, retries, start, fate>>
      BY <1>5 DEF ObservedAll, AddPendingSequences, Typed, Places
    <2>2. Known' = Known /\ start + 1 .. maxSequence \subseteq Known /\ << >> \in Seq(Known)
      BY <2>1 DEF Typed, db, Known
    <2>3. completed' \subseteq Known
      BY <2>1, <2>2 DEF Typed
    <2>4. QED BY <2>1, <2>2, <2>3 DEF Typed, db, docs, revs, retries
  <1>6. QED BY <1>1, <1>2, <1>3, <1>4, <1>5 DEF ChangesFeed

(* The step of a loop in handleChangesResponse() *)
Responding ==
    /\ pc \in {"replying", "failing"} /\ todo # << >> /\ todo' = Tail(todo)
    /\ IF todo' # << >> THEN pc' = pc
       ELSE (pc = "replying" /\ MaybeSendMoreRevs) \/ (pc = "failing" /\ pc' = "idle")

LEMMA ResponseIs ==
    ASSUME Typed, Responding
    PROVE  /\ Head(todo) \in Known /\ todo' = Tail(todo) /\ todo' \in Seq(Known)
           /\ Elements(todo) = {Head(todo)} \cup Elements(todo')
           /\ pc' \in {"replying", "failing", "sending", "idle"} /\ (pc' \in {"replying", "failing"} <=> todo' # << >>)
           /\ pc = "replying" /\ pc' = "idle" => ~CanSend'
  <1>1. todo \in Seq(Known) /\ todo # << >> /\ todo' = Tail(todo)
    BY DEF Responding, Typed
  <1>2. Head(todo) \in Known /\ todo' \in Seq(Known) /\ Elements(todo) = {Head(todo)} \cup Elements(todo')
    BY <1>1, TailElements
  <1>3. pc' \in {"replying", "failing", "sending", "idle"} /\ (pc' \in {"replying", "failing"} <=> todo' # << >>) /\ (pc = "replying" /\ pc' = "idle" => ~CanSend')
    BY DEF Responding, MaybeSendMoreRevs
  <1>4. QED BY <1>1, <1>2, <1>3

LEMMA QueueIs ==
    ASSUME Typed, queue # << >>
    PROVE  /\ Head(queue) \in Known /\ Tail(queue) \in Seq(Known) /\ Elements(queue) = {Head(queue)} \cup Elements(Tail(queue))
           /\ Len(Tail(queue)) = Len(queue) - 1 /\ Len(queue) \in Nat
  <1>1. queue \in Seq(Known)
    BY DEF Typed
  <1>2. QED BY <1>1, TailElements

LEMMA TypedGot ==
    ASSUME Typed, GotChange
    PROVE  Typed'
  <1> DEFINE s == Head(todo)
             d == log[s]
             earlier == pushing[d]
  <1>1. /\ todo # << >> /\ todo' = Tail(todo)
        /\ IF earlier = 0
           THEN /\ pushing' = [pushing EXCEPT ![d] = s] /\ kept' = Append(kept, s) /\ UNCHANGED <<nextRev, completed>>
           ELSE /\ nextRev' = [nextRev EXCEPT ![earlier] = s] /\ completed' = completed \cup ({nextRev[earlier]} \ {0})
                /\ UNCHANGED <<pushing, kept>>
        /\ UNCHANGED <<db, feed, flags, mailbox, lists, revs, retries, pc, start, fate>>
    BY DEF GotChange
  <1>2. s \in Known /\ todo' \in Seq(Known)
    BY <1>1, TailElements DEF Typed
  <1> HIDE DEF s
  <1>3. d \in Docs /\ Known \subseteq Revs
    BY <1>2, KnownRevs
  <1> HIDE DEF d
  <1>4. earlier \in Known \cup {0}
    BY <1>3 DEF Typed
  <1> HIDE DEF earlier
  <1>5. Append(kept, s) \in Seq(Known)
    BY <1>2, AppendElements DEF Typed
  <1>6. earlier # 0 => nextRev[earlier] \in Known \cup {0}
    BY <1>3, <1>4 DEF Typed
  <1>7. /\ pushing' \in [Docs -> Known \cup {0}] /\ nextRev' \in [Revs -> Known \cup {0}]
        /\ kept' \in Seq(Known) /\ completed' \subseteq Known
    <2>1. CASE earlier = 0
      <3>1. pushing' = [pushing EXCEPT ![d] = s] /\ kept' = Append(kept, s) /\ nextRev' = nextRev /\ completed' = completed
        BY <1>1, <2>1
      <3>2. pushing' \in [Docs -> Known \cup {0}]
        BY <1>2, <1>3, <3>1 DEF Typed
      <3>3. QED BY <1>5, <3>1, <3>2 DEF Typed
    <2>2. CASE earlier # 0
      <3>1. /\ nextRev' = [nextRev EXCEPT ![earlier] = s] /\ completed' = completed \cup ({nextRev[earlier]} \ {0})
            /\ pushing' = pushing /\ kept' = kept
        BY <1>1, <2>2
      <3>2. nextRev' \in [Revs -> Known \cup {0}]
        BY <1>2, <1>3, <1>4, <3>1 DEF Typed
      <3>3. completed' \subseteq Known
        BY <1>6, <2>2, <3>1 DEF Typed
      <3>4. QED BY <3>1, <3>2, <3>3 DEF Typed
    <2>3. QED BY <2>1, <2>2
  <1>8. Known' = Known
    BY <1>1 DEF db, Known
  <1>9. QED BY <1>1, <1>2, <1>7, <1>8 DEF Typed, db, feed, flags, revs, retries

LEMMA TypedHandler ==
    ASSUME Typed, Handler
    PROVE  Typed'
  <1> USE DEF db, feed, flags, docs, revs, retries, locals
  <1>1. CASE HandleMaybeGetMoreChanges \/ DBHasNewChanges
    BY <1>1, TypedGet
  <1>2. CASE HandleMaybeSendMoreRevs
    <2>1. mailbox' \in [Methods -> Nat]
      <3>1. mailbox["maybeSendMoreRevs"] > 0
            /\ mailbox' = [mailbox EXCEPT !["maybeSendMoreRevs"] = mailbox["maybeSendMoreRevs"] - 1]
        BY <1>2 DEF HandleMaybeSendMoreRevs
      <3>2. QED BY <3>1, TypedTake DEF Methods
    <2>2. Known' = Known /\ pc' \in Places
      BY <1>2 DEF HandleMaybeSendMoreRevs, MaybeSendMoreRevs, Known, Places
    <2>3. UNCHANGED <<db, feed, flags, docs, revs, retries, locals, completed, fate>>
      BY <1>2 DEF HandleMaybeSendMoreRevs
    <2>4. QED BY <2>1, <2>2, <2>3 DEF Typed
  <1>3. CASE GotChange
    BY <1>3, TypedGot
  <1>4. CASE SendChanges
    <2>1. /\ lists' \subseteq lists \cup {kept} /\ mailbox' = Enqueue("maybeGetMoreChanges") /\ pc' = "idle" /\ kept' = << >>
          /\ UNCHANGED <<db, feed, flags, pushing, nextRev, revs, retries, todo, start, completed, fate>>
      BY <1>4 DEF SendChanges
    <2>2. Known' = Known /\ << >> \in Seq(Known) /\ mailbox' \in [Methods -> Nat]
      BY <2>1, TypedEnqueue DEF Known, Methods
    <2>3. QED BY <2>1, <2>2 DEF Typed, Places
  <1>5. CASE WantRev
    <2>1. /\ Responding /\ queue' = Append(queue, Head(todo))
          /\ UNCHANGED <<db, feed, flags, mailbox, docs, flying, awaiting, retries, kept, start, completed, fate>>
      BY <1>5 DEF WantRev, Responding, NextResponse
    <2>2. Head(todo) \in Known /\ todo' \in Seq(Known) /\ pc' \in Places
      BY <2>1, ResponseIs DEF Places
    <2>3. queue' \in Seq(Known) /\ Known' = Known
      BY <2>1, <2>2, AppendElements DEF Typed, Known
    <2>4. QED BY <2>1, <2>2, <2>3 DEF Typed
  <1>6. ASSUME NEW says \in {"pushed", "permanent"}, DontWantRev(says) PROVE Typed'
    <2>1. /\ Responding /\ DoneWithRev(Head(todo), says, TRUE, FALSE)
          /\ UNCHANGED <<db, feed, flags, mailbox, revs, retries, kept, start>>
      BY <1>6 DEF DontWantRev, Responding, NextResponse
    <2>2. Head(todo) \in Known /\ todo' \in Seq(Known) /\ pc' \in Places
      BY <2>1, ResponseIs DEF Places
    <2>3. /\ pushing' \in [Docs -> Known \cup {0}] /\ nextRev' \in [Revs -> Known \cup {0}]
          /\ lists' \subseteq Seq(Known) /\ completed' \subseteq Known /\ fate' \in [Revs -> Fates]
      <3>1. says \in Fates
        BY DEF Fates
      <3>2. QED BY <2>1, <2>2, <3>1, TypedDone
    <2>4. Known' = Known
      BY <2>1 DEF Known
    <2>5. QED BY <2>1, <2>2, <2>3, <2>4 DEF Typed
  <1>7. CASE ProposeAgain
    <2>1. /\ Responding /\ lists' = lists \cup {<<Head(todo)>>}
          /\ UNCHANGED <<db, feed, flags, mailbox, pushing, nextRev, revs, retries, kept, start, completed, fate>>
      BY <1>7 DEF ProposeAgain, Responding, NextResponse
    <2>2. Head(todo) \in Known /\ todo' \in Seq(Known) /\ pc' \in Places
      BY <2>1, ResponseIs DEF Places
    <2>3. <<Head(todo)>> \in Seq(Known) /\ Known' = Known
      BY <2>1, <2>2, SingleElements DEF Known
    <2>4. QED BY <2>1, <2>2, <2>3 DEF Typed
  <1>8. ASSUME NEW b \in BOOLEAN, Conflict(b) PROVE Typed'
    <2> DEFINE s == Head(todo)
               d == log[s]
    <2>1. /\ Responding /\ DoneWithRev(s, "conflict", TRUE, FALSE)
          /\ mightRetry' = mightRetry \/ mightRetry' = [mightRetry EXCEPT ![d] = s]
          /\ UNCHANGED <<db, feed, flags, mailbox, revs, toRetry, retryCount, noDelta, kept, start>>
      BY <1>8 DEF Conflict, Responding, NextResponse
    <2>2. s \in Known /\ todo' \in Seq(Known) /\ pc' \in Places
      BY <2>1, ResponseIs DEF Places
    <2> HIDE DEF s
    <2>3. /\ pushing' \in [Docs -> Known \cup {0}] /\ nextRev' \in [Revs -> Known \cup {0}]
          /\ lists' \subseteq Seq(Known) /\ completed' \subseteq Known /\ fate' \in [Revs -> Fates]
      <3>1. "conflict" \in Fates
        BY DEF Fates
      <3>2. QED BY <2>1, <2>2, <3>1, TypedDone
    <2>4. Known' = Known /\ d \in Docs
      BY <2>1, <2>2, KnownRevs
    <2> HIDE DEF d
    <2>5. mightRetry' \in [Docs -> Known \cup {0}]
      BY <2>1, <2>2, <2>4 DEF Typed
    <2>6. QED BY <2>1, <2>2, <2>3, <2>4, <2>5 DEF Typed
  <1>9. CASE SendRevision
    <2>1. /\ queue # << >> /\ queue' = Tail(queue) /\ flying' = flying \cup {Head(queue)}
          /\ mailbox' = mailbox \/ mailbox' = Enqueue("maybeGetMoreChanges")
          /\ pc' \in {"sending", "idle"}
          /\ UNCHANGED <<db, feed, flags, docs, awaiting, retries, locals, completed, fate>>
      BY <1>9 DEF SendRevision, CanSend, MaybeSendMoreRevs
    <2>2. Head(queue) \in Known /\ Tail(queue) \in Seq(Known)
      BY <2>1, QueueIs
    <2>3. Known' = Known /\ mailbox' \in [Methods -> Nat] /\ pc' \in Places
      BY <2>1, TypedEnqueue DEF Typed, Known, Methods, Places
    <2>4. QED BY <2>1, <2>2, <2>3 DEF Typed
  <1>10. ASSUME NEW says \in {"none", "permanent"}, SendNoRev(says) PROVE Typed'
    <2>1. PICK box \in {mailbox, Enqueue("maybeGetMoreChanges")} :
             mailbox' = [box EXCEPT !["maybeSendMoreRevs"] = box["maybeSendMoreRevs"] + 1]
      BY <1>10 DEF SendNoRev
    <2>2. /\ queue # << >> /\ queue' = Tail(queue) /\ DoneWithRev(Head(queue), says, TRUE, FALSE)
          /\ pc' \in {"sending", "idle"}
          /\ UNCHANGED <<db, feed, flags, flying, awaiting, retries, locals>>
      BY <1>10 DEF SendNoRev, CanSend, MaybeSendMoreRevs
    <2>3. Head(queue) \in Known /\ Tail(queue) \in Seq(Known)
      BY <2>2, QueueIs
    <2>4. box \in [Methods -> Nat]
      BY TypedEnqueue DEF Typed, Methods
    <2>5. mailbox' \in [Methods -> Nat]
      BY <2>1, <2>4 DEF Methods
    <2>6. /\ pushing' \in [Docs -> Known \cup {0}] /\ nextRev' \in [Revs -> Known \cup {0}]
          /\ lists' \subseteq Seq(Known) /\ completed' \subseteq Known /\ fate' \in [Revs -> Fates]
      <3>1. says \in Fates
        BY DEF Fates
      <3>2. QED BY <2>2, <2>3, <3>1, TypedDone
    <2>7. Known' = Known /\ pc' \in Places
      BY <2>2 DEF Known, Places
    <2>8. QED BY <2>2, <2>3, <2>5, <2>6, <2>7 DEF Typed
  <1>11. CASE RetryRevs
    <2>1. << >> \in Seq(Known) /\ Known' = Known
      BY <1>11 DEF RetryRevs, Known
    <2>2. QED BY <1>11, <2>1 DEF RetryRevs, Typed, Places
  <1>12. CASE DropRev
    <2>1. /\ Responding /\ DoneWithRev(Head(todo), "dropped", FALSE, FALSE)
          /\ UNCHANGED <<db, feed, flags, mailbox, revs, retries, kept, start>>
      BY <1>12 DEF DropRev, Responding
    <2>2. Head(todo) \in Known /\ todo' \in Seq(Known) /\ pc' \in Places
      BY <2>1, ResponseIs DEF Places
    <2>3. /\ pushing' \in [Docs -> Known \cup {0}] /\ nextRev' \in [Revs -> Known \cup {0}]
          /\ lists' \subseteq Seq(Known) /\ completed' \subseteq Known /\ fate' \in [Revs -> Fates]
      <3>1. "dropped" \in Fates
        BY DEF Fates
      <3>2. QED BY <2>1, <2>2, <3>1, TypedDone
    <2>4. Known' = Known
      BY <2>1 DEF Known
    <2>5. QED BY <2>1, <2>2, <2>3, <2>4 DEF Typed
  <1>13. QED BY <1>1, <1>2, <1>3, <1>4, <1>5, <1>6, <1>7, <1>8, <1>9, <1>10, <1>11, <1>12 DEF Handler

(* The replies about a revision that has been sent: what they have in      *)
(* common.                                                                 *)
Replied(s, says, done, again) ==
    /\ pc = "idle" /\ s \in awaiting /\ says \in Fates /\ awaiting' = awaiting \ {s}
    /\ DoneWithRev(s, says, done, again)
    /\ done \/ says = "transient" \/ s \in Elements(toRetry') \/ s \in Elements(queue')
    /\ again => s \in Elements(queue')
    /\ Elements(queue) \subseteq Elements(queue') /\ Elements(toRetry) \subseteq Elements(toRetry')
    /\ Len(queue') >= Len(queue) /\ queue' \in Seq(Known) /\ toRetry' \in Seq(Known)
    /\ retryCount' \subseteq Known /\ noDelta' \subseteq Known
    /\ MaybeSendMoreRevs
    /\ UNCHANGED <<db, feed, flags, mailbox, flying, mightRetry, locals>>

LEMMA RepliesAre ==
    ASSUME Typed, NEW s \in awaiting
    PROVE  /\ \A e : RevReply(s, e) => \E says, done : Replied(s, says, done, FALSE)
           /\ RetryLater(s) => Replied(s, "none", FALSE, FALSE)
           /\ RetryNow(s) => Replied(s, "none", FALSE, TRUE)
  <1> USE DEF db, feed, flags, docs, revs, retries, locals
  <1>1. s \in Known /\ queue \in Seq(Known) /\ toRetry \in Seq(Known) /\ Len(queue) \in Nat
    BY DEF Typed
  <1>2. ASSUME NEW e, RevReply(s, e) PROVE \E says, done : Replied(s, says, done, FALSE)
    <2> DEFINE says == IF e \in {"pushed", "transient"} THEN e ELSE "permanent"
               done == e # "transient"
    <2>0. pc = "idle" /\ awaiting' = awaiting \ {s} /\ DoneWithRev(s, says, done, FALSE) /\ MaybeSendMoreRevs
          /\ UNCHANGED <<db, feed, flags, mailbox, queue, flying, retries, locals>>
      BY <1>2 DEF RevReply, CanReceive, Ready
    <2>a. says \in Fates /\ (done \/ says = "transient")
      <3>1. CASE e = "transient"
        BY <3>1 DEF Fates
      <3>2. CASE e = "pushed"
        BY <3>2 DEF Fates
      <3>3. CASE e \notin {"pushed", "transient"}
        BY <3>3 DEF Fates
      <3>4. QED BY <3>1, <3>2, <3>3
    <2> HIDE DEF says, done
    <2>b. /\ Elements(queue) \subseteq Elements(queue') /\ Elements(toRetry) \subseteq Elements(toRetry')
          /\ Len(queue') >= Len(queue) /\ queue' \in Seq(Known) /\ toRetry' \in Seq(Known)
          /\ retryCount' \subseteq Known /\ noDelta' \subseteq Known
      BY <1>1, <2>0 DEF Typed
    <2>1. Replied(s, says, done, FALSE)
      BY <2>0, <2>a, <2>b DEF Replied
    <2>2. QED BY <2>1
  <1>3. ASSUME RetryLater(s) PROVE Replied(s, "none", FALSE, FALSE)
    <2>1. toRetry' = Append(toRetry, s)
      BY <1>3 DEF RetryLater
    <2>2. toRetry' \in Seq(Known) /\ Elements(toRetry') = Elements(toRetry) \cup {s}
      BY <1>1, <2>1, AppendElements
    <2>3. pc = "idle" /\ awaiting' = awaiting \ {s} /\ DoneWithRev(s, "none", FALSE, FALSE) /\ MaybeSendMoreRevs
          /\ retryCount' = retryCount \cup {s}
          /\ UNCHANGED <<db, feed, flags, mailbox, queue, flying, mightRetry, noDelta, locals>>
      BY <1>3 DEF RetryLater, CanReceive, Ready
    <2>4. /\ Elements(queue) \subseteq Elements(queue') /\ Elements(toRetry) \subseteq Elements(toRetry')
          /\ Len(queue') >= Len(queue) /\ queue' \in Seq(Known)
          /\ retryCount' \subseteq Known /\ noDelta' \subseteq Known /\ s \in Elements(toRetry') /\ "none" \in Fates
      BY <1>1, <2>2, <2>3 DEF Typed, Fates
    <2>5. QED BY <2>2, <2>3, <2>4 DEF Replied
  <1>4. ASSUME RetryNow(s) PROVE Replied(s, "none", FALSE, TRUE)
    <2>1. queue' = <<s>> \o queue
      BY <1>4 DEF RetryNow
    <2>2. queue' \in Seq(Known) /\ Elements(queue') = {s} \cup Elements(queue)
      BY <1>1, <2>1, ConsElements
    <2>3. Len(queue') = Len(queue) + 1
      BY <1>1, <2>1
    <2>4. pc = "idle" /\ awaiting' = awaiting \ {s} /\ DoneWithRev(s, "none", FALSE, TRUE) /\ MaybeSendMoreRevs
          /\ noDelta' = noDelta \cup {s}
          /\ UNCHANGED <<db, feed, flags, mailbox, flying, toRetry, mightRetry, retryCount, locals>>
      BY <1>4 DEF RetryNow, CanReceive, Ready
    <2>5. /\ Elements(queue) \subseteq Elements(queue') /\ Elements(toRetry) \subseteq Elements(toRetry')
          /\ Len(queue') >= Len(queue) /\ toRetry' \in Seq(Known)
          /\ retryCount' \subseteq Known /\ noDelta' \subseteq Known /\ s \in Elements(queue') /\ "none" \in Fates
      BY <1>1, <2>2, <2>3, <2>4 DEF Typed, Fates
    <2>6. QED BY <2>2, <2>4, <2>5 DEF Replied
  <1>5. QED BY <1>2, <1>3, <1>4

LEMMA TypedPeer ==
    ASSUME Typed, Peer
    PROVE  Typed'
  <1> USE DEF db, feed, flags, docs, revs, retries, locals
  <1>1. ASSUME NEW list \in lists, ChangesReply(list) PROVE Typed'
    <2>1. Known' = Known /\ mailbox' \in [Methods -> Nat]
      BY <1>1, TypedEnqueue DEF ChangesReply, Known, Methods
    <2>2. noDelta' \subseteq Known
      BY <1>1 DEF ChangesReply, Typed
    <2>3. QED BY <1>1, <2>1, <2>2 DEF ChangesReply, Typed, Places
  <1>r. ASSUME NEW list \in lists, ListRefused(list) PROVE Typed'
    <2>1. Known' = Known /\ mailbox' \in [Methods -> Nat]
      BY <1>r, TypedEnqueue DEF ListRefused, Known, Methods
    <2>2. QED BY <1>r, <2>1 DEF ListRefused, Typed, Places
  <1>2. ASSUME NEW s \in flying, RevTransmitted(s) PROVE Typed'
    <2>1. Known' = Known /\ pc' \in Places
      BY <1>2 DEF RevTransmitted, MaybeSendMoreRevs, Known, Places
    <2>2. QED BY <1>2, <2>1 DEF RevTransmitted, Typed
  <1>3. ASSUME NEW s, NEW says, NEW done, NEW again, Replied(s, says, done, again) PROVE Typed'
    <2>1. Known' = Known /\ pc' \in Places /\ s \in Known /\ says \in Fates
      BY <1>3 DEF Replied, MaybeSendMoreRevs, Known, Places, Typed
    <2>2. /\ pushing' \in [Docs -> Known \cup {0}] /\ nextRev' \in [Revs -> Known \cup {0}]
          /\ lists' \subseteq Seq(Known) /\ completed' \subseteq Known /\ fate' \in [Revs -> Fates]
      BY <1>3, <2>1, TypedDone DEF Replied
    <2>3. QED BY <1>3, <2>1, <2>2 DEF Replied, Typed
  <1>4. ASSUME NEW d \in Docs, NEW retry \in BOOLEAN, RemoteAncestorChanged(d, retry) PROVE Typed'
    <2> DEFINE s == mightRetry[d]
    <2>1. /\ s # 0 /\ mightRetry' = [mightRetry EXCEPT ![d] = 0]
          /\ \/ /\ pushing' = pushing \/ pushing' = [pushing EXCEPT ![d] = s]
                /\ completed' = completed \ {s} /\ lists' = lists \cup {<<s>>} /\ fate' = [fate EXCEPT ![s] = "none"]
             \/ UNCHANGED <<pushing, completed, lists, fate>>
          /\ UNCHANGED <<db, feed, flags, mailbox, nextRev, revs, toRetry, retryCount, noDelta, pc, locals>>
      <3>1. /\ s # 0 /\ mightRetry' = [mightRetry EXCEPT ![d] = 0]
            /\ UNCHANGED <<db, feed, flags, mailbox, nextRev, revs, toRetry, retryCount, noDelta, pc, locals>>
        BY <1>4 DEF RemoteAncestorChanged
      <3>2. CASE retry
        <4>1. /\ pushing' = [pushing EXCEPT ![d] = IF pushing[d] = 0 THEN s ELSE pushing[d]]
              /\ completed' = completed \ {s} /\ lists' = lists \cup {<<s>>} /\ fate' = [fate EXCEPT ![s] = "none"]
          BY <1>4, <3>2 DEF RemoteAncestorChanged
        <4>2. pushing' = pushing \/ pushing' = [pushing EXCEPT ![d] = s]
          BY <4>1 DEF Typed
        <4>3. QED BY <3>1, <4>1, <4>2
      <3>3. CASE ~retry
        BY <1>4, <3>1, <3>3 DEF RemoteAncestorChanged
      <3>4. QED BY <3>2, <3>3
    <2>2. s \in Known
      BY <2>1 DEF Typed
    <2> HIDE DEF s
    <2>3. <<s>> \in Seq(Known) /\ Known' = Known /\ s \in Revs
      BY <2>1, <2>2, SingleElements, KnownRevs
    <2>4. /\ pushing' \in [Docs -> Known \cup {0}] /\ mightRetry' \in [Docs -> Known \cup {0}]
          /\ lists' \subseteq Seq(Known) /\ completed' \subseteq Known /\ fate' \in [Revs -> Fates]
      BY <2>1, <2>2, <2>3 DEF Typed, Fates
    <2>5. QED BY <2>1, <2>3, <2>4 DEF Typed
  <1>5. QED BY <1>1, <1>r, <1>2, <1>3, <1>4, RepliesAre DEF Peer

(* Who is in work, place by place. *)
LEMMA InWorkIs ==
    ASSUME NEW x
    PROVE  x \in InWork <=> \/ \E l \in lists : x \in Elements(l)
                            \/ x \in Elements(queue) \/ x \in flying \/ x \in awaiting
                            \/ pc \in {"replying", "failing"} /\ x \in Elements(todo)
                            \/ pc = "got" /\ x \in Elements(kept)
  <1> DEFINE U == UNION {Elements(l) : l \in lists}
             A == IF pc \in {"replying", "failing"} THEN Elements(todo) ELSE {}
             B == IF pc = "got" THEN Elements(kept) ELSE {}
  <1>1. x \in U <=> \E l \in lists : x \in Elements(l)
    OBVIOUS
  <1>2. x \in A <=> (pc \in {"replying", "failing"} /\ x \in Elements(todo))
    OBVIOUS
  <1>3. x \in B <=> (pc = "got" /\ x \in Elements(kept))
    OBVIOUS
  <1>4. InWork = U \cup Elements(queue) \cup flying \cup awaiting \cup A \cup B
    BY Zenon DEF InWork
  <1> HIDE DEF U, A, B
  <1>5. QED BY <1>1, <1>2, <1>3, <1>4

LEMMA InWorkIsNext ==
    ASSUME NEW x
    PROVE  x \in InWork' <=> \/ \E l \in lists' : x \in Elements(l)
                             \/ x \in Elements(queue') \/ x \in flying' \/ x \in awaiting'
                             \/ pc' \in {"replying", "failing"} /\ x \in Elements(todo')
                             \/ pc' = "got" /\ x \in Elements(kept')
  <1> DEFINE U == UNION {Elements(l) : l \in lists'}
             A == IF pc' \in {"replying", "failing"} THEN Elements(todo') ELSE {}
             B == IF pc' = "got" THEN Elements(kept') ELSE {}
  <1>1. x \in U <=> \E l \in lists' : x \in Elements(l)
    OBVIOUS
  <1>2. x \in A <=> (pc' \in {"replying", "failing"} /\ x \in Elements(todo'))
    OBVIOUS
  <1>3. x \in B <=> (pc' = "got" /\ x \in Elements(kept'))
    OBVIOUS
  <1>4. InWork' = U \cup Elements(queue') \cup flying' \cup awaiting' \cup A \cup B
    BY Zenon DEF InWork
  <1> HIDE DEF U, A, B
  <1>5. QED BY <1>1, <1>2, <1>3, <1>4

LEMMA InWorkIsKnown ==
    ASSUME Typed
    PROVE  InWork \subseteq Known
  <1>1. ASSUME NEW l \in lists PROVE Elements(l) \subseteq Known
    BY ElementsOf DEF Typed
  <1>2. Elements(queue) \subseteq Known /\ Elements(todo) \subseteq Known /\ Elements(kept) \subseteq Known
    BY ElementsOf DEF Typed
  <1>3. flying \subseteq Known /\ awaiting \subseteq Known
    BY DEF Typed
  <1>4. ASSUME NEW x \in InWork PROVE x \in Known
    <2>1. CASE \E l \in lists : x \in Elements(l)
      BY <1>1, <2>1
    <2>2. CASE x \in Elements(queue) \/ x \in flying \/ x \in awaiting \/ x \in Elements(todo) \/ x \in Elements(kept)
      BY <1>2, <1>3, <2>2
    <2>3. QED BY <1>4, <2>1, <2>2, InWorkIs
  <1>5. QED BY <1>4

-----------------------------------------------------------------------------
(***************************************************************************)
(* Nothing that is being worked on is lost.                                *)
(***************************************************************************)
LEMMA WorkUnchanged ==
    ASSUME Typed, Work, UNCHANGED <<pushing, nextRev, mightRetry, completed, fate, toRetry>>,
           \A x \in Known : log'[x] = log[x],
           pc = "got" => pc' = "got" /\ todo' = todo,
           InWork \subseteq InWork', Read' = Read
    PROVE  Work'
  <1>1. PushingInWork'
    <2>1. ASSUME NEW d \in Docs, pushing[d] # 0 PROVE pushing[d] \in InWork' /\ log'[pushing[d]] = d
      BY <2>1 DEF Typed, Work, PushingInWork
    <2>2. QED BY <2>1 DEF PushingInWork
  <1>2. HoldersInWork'
    <2>1. ASSUME NEW x \in Revs, nextRev[x] # 0 PROVE x \in InWork' /\ log'[nextRev[x]] = log'[x]
      <3>1. x \in InWork /\ log[nextRev[x]] = log[x] /\ nextRev[x] \in Known
        BY <2>1 DEF Typed, Work, HoldersInWork
      <3>2. x \in Known
        BY <3>1, InWorkIsKnown
      <3>3. QED BY <3>1, <3>2
    <2>2. QED BY <2>1 DEF HoldersInWork
  <1>3. RetriedDocs'
    <2>1. ASSUME NEW d \in Docs, mightRetry[d] # 0 PROVE log'[mightRetry[d]] = d
      BY <2>1 DEF Typed, Work, RetriedDocs
    <2>2. QED BY <2>1 DEF RetriedDocs
  <1>4. AllAccounted'
    <2>1. ASSUME NEW s \in Read \ completed PROVE Accounted(s)'
      <3>1. Accounted(s)
        BY DEF Work, AllAccounted
      <3>2. QED BY <3>1 DEF Accounted
    <2>2. QED BY <2>1 DEF AllAccounted
  <1>5. QED BY <1>1, <1>2, <1>3, <1>4 DEF Work

(* doneWithRev() goes on with what the revision held back. *)
LEMMA DoneKeeps ==
    ASSUME Typed, Work, NEW s \in Known, NEW says, NEW done, NEW again, DoneWithRev(s, says, done, again),
           log' = log, Read' = Read, pc # "got", InWork \ {s} \subseteq InWork',
           done \/ says \in {"transient", "dropped"} \/ s \in InWork' \/ s \in Elements(toRetry'),
           again => s \in InWork', Elements(toRetry) \subseteq Elements(toRetry')
    PROVE  PushingInWork' /\ HoldersInWork' /\ AllAccounted'
  <1> DEFINE d == log[s]
             next == nextRev[s]
             told == [fate EXCEPT ![s] = says]
             ended == IF done THEN completed \cup {s} ELSE completed
  <1>0. PICK propose \in BOOLEAN :
          /\ propose => next # 0
          /\ nextRev' = [nextRev EXCEPT ![s] = 0]
          /\ pushing' = [pushing EXCEPT ![d] = IF propose THEN next ELSE IF again THEN s ELSE 0]
          /\ IF propose
             THEN lists' = lists \cup {<<next>>} /\ completed' = ended \ {next} /\ fate' = told
             ELSE /\ lists' = lists
                  /\ completed' = ended \cup ({next} \ {0})
                  /\ fate' = IF next # 0 /\ Current(next) THEN [told EXCEPT ![next] = "conflict"] ELSE told
    BY DEF DoneWithRev
  <1>1. /\ d \in Docs /\ s \in Revs /\ next \in Known \cup {0} /\ next \in Nat
        /\ nextRev \in [Revs -> Known \cup {0}] /\ pushing \in [Docs -> Known \cup {0}] /\ fate \in [Revs -> Fates]
    <2>1. d \in Docs /\ s \in Revs /\ Known \subseteq Nat
      BY KnownRevs
    <2>2. nextRev \in [Revs -> Known \cup {0}] /\ pushing \in [Docs -> Known \cup {0}] /\ fate \in [Revs -> Fates]
      BY DEF Typed
    <2>3. next \in Known \cup {0}
      BY <2>1, <2>2
    <2> HIDE DEF d, next
    <2>4. next \in Nat
      BY <2>1, <2>3
    <2>5. QED BY <2>1, <2>2, <2>3, <2>4
  <1>2. next # 0 => log[next] = d
    BY <1>1 DEF Work, HoldersInWork
  <1>3. /\ nextRev'[s] = 0 /\ \A x \in Revs \ {s} : nextRev'[x] = nextRev[x]
    BY <1>0, <1>1
  <1>4. /\ pushing'[d] = IF propose THEN next ELSE IF again THEN s ELSE 0
        /\ \A x \in Docs \ {d} : pushing'[x] = pushing[x]
    BY <1>0, <1>1
  <1>5. \A t \in Revs \ {s, next} : fate'[t] = fate[t]
    <2>1. \A t \in Revs \ {s} : told[t] = fate[t]
      BY <1>1
    <2> HIDE DEF told
    <2>2. told \in [Revs -> Fates \cup {says}]
      BY <1>1 DEF told
    <2>3. QED BY <1>0, <2>1, <2>2
  <1>6. s # next => fate'[s] = says
    <2>1. told[s] = says /\ DOMAIN told = Revs
      BY <1>1
    <2> HIDE DEF told
    <2>2. QED BY <1>0, <1>1, <2>1
  <1>7. propose => next \in InWork' /\ next # 0
    <2>1. next \in Elements(<<next>>)
      BY DEF Elements
    <2>2. propose => <<next>> \in lists'
      BY <1>0
    <2> HIDE DEF next
    <2>3. QED BY <1>0, <2>1, <2>2 DEF InWork
  <1>8. /\ \A t : t \in completed /\ t # next => t \in completed'
        /\ done /\ s # next => s \in completed'
        /\ ~propose /\ next # 0 => next \in completed'
    BY <1>0
  <1> HIDE DEF d, next, told, ended
  <1>9. PushingInWork'
    <2>1. ASSUME NEW x \in Docs, pushing'[x] # 0 PROVE pushing'[x] \in InWork' /\ log[pushing'[x]] = x
      <3>1. CASE x = d
        <4>1. (pushing'[x] = next /\ propose) \/ (pushing'[x] = s /\ again)
          BY <1>4, <2>1, <3>1
        <4>2. log[s] = x
          BY <3>1 DEF d
        <4>3. QED BY <1>2, <1>7, <3>1, <4>1, <4>2
      <3>2. CASE x # d
        <4>1. pushing'[x] = pushing[x] /\ pushing[x] \in InWork /\ log[pushing[x]] = x
          BY <1>4, <2>1, <3>2 DEF Work, PushingInWork
        <4>2. pushing[x] # s
          BY <3>2, <4>1 DEF d
        <4>3. QED BY <4>1, <4>2
      <3>3. QED BY <3>1, <3>2
    <2>2. QED BY <2>1 DEF PushingInWork
  <1>10. HoldersInWork'
    <2>1. ASSUME NEW x \in Revs, nextRev'[x] # 0 PROVE x \in InWork' /\ log[nextRev'[x]] = log[x]
      <3>1. x # s /\ nextRev'[x] = nextRev[x]
        BY <1>3, <2>1
      <3>2. x \in InWork /\ log[nextRev[x]] = log[x]
        BY <2>1, <3>1 DEF Work, HoldersInWork
      <3>3. QED BY <3>1, <3>2
    <2>2. QED BY <2>1 DEF HoldersInWork
  <1>11. AllAccounted'
    <2>1. ASSUME NEW t \in Read \ completed' PROVE Accounted(t)'
      <3>0. t # 0 /\ t \in Nat /\ t \in Revs
        <4>1. t \in 1 .. maxSequence \/ t \in 1 .. start
          BY DEF Read
        <4>2. /\ maxSequence \in 0 .. Len(log) /\ start \in 0 .. Len(log) /\ Len(log) \in 0 .. MaxSequence /\ MaxSequence \in Nat
          BY PusherAssumption DEF Typed
        <4>3. QED BY <4>1, <4>2 DEF Revs
      <3>1. CASE t = next
        BY <1>7, <1>8, <2>1, <3>0, <3>1 DEF Accounted
      <3>2. CASE t = s /\ t # next
        <4>1. ~done
          BY <1>8, <2>1, <3>2
        <4>2. fate'[t] = says
          BY <1>6, <3>2
        <4>3. QED BY <3>2, <4>1, <4>2 DEF Accounted
      <3>3. CASE t # s /\ t # next
        <4>1. t \notin completed
          BY <1>8, <2>1, <3>3
        <4>2. Accounted(t)
          BY <2>1, <4>1 DEF Work, AllAccounted
        <4>3. CASE t \in InWork
          BY <3>3, <4>3 DEF Accounted
        <4>4. CASE \E x \in Revs : nextRev[x] = t
          <5>1. PICK x \in Revs : nextRev[x] = t
            BY <4>4
          <5>2. x # s
            BY <3>3, <5>1 DEF next
          <5>3. nextRev'[x] = t
            BY <1>3, <5>1, <5>2
          <5>4. QED BY <5>3 DEF Accounted
        <4>5. CASE t \in Elements(toRetry)
          BY <4>5 DEF Accounted
        <4>6. CASE fate[t] \in {"transient", "dropped"}
          <5>1. fate'[t] = fate[t]
            BY <1>5, <3>0, <3>3, <4>6
          <5>2. QED BY <4>6, <5>1 DEF Accounted
        <4>7. QED BY <4>2, <4>3, <4>4, <4>5, <4>6 DEF Accounted
      <3>4. QED BY <3>1, <3>2, <3>3
    <2>2. QED BY <2>1 DEF AllAccounted
  <1>12. QED BY <1>9, <1>10, <1>11

LEMMA DoneLists ==
    ASSUME NEW s, NEW says, NEW done, NEW again, DoneWithRev(s, says, done, again)
    PROVE  lists \subseteq lists'
  BY DEF DoneWithRev

LEMMA RespondingWork ==
    ASSUME Typed, Responding, lists \subseteq lists',
           Elements(queue) \subseteq Elements(queue'), UNCHANGED <<flying, awaiting>>
    PROVE  InWork \ {Head(todo)} \subseteq InWork'
  <1>1. Elements(todo) = {Head(todo)} \cup Elements(todo') /\ (pc' \in {"replying", "failing"} <=> todo' # << >>)
    BY ResponseIs
  <1>2. ASSUME NEW x \in InWork, x # Head(todo) PROVE x \in InWork'
    <2>1. CASE x \in Elements(todo)
      <3>1. x \in Elements(todo')
        BY <1>1, <1>2, <2>1
      <3>2. todo' # << >>
        BY <3>1, EmptyElements
      <3>3. QED BY <1>1, <3>1, <3>2, InWorkIsNext
    <2>2. CASE x \notin Elements(todo)
      <3>1. (\E l \in lists : x \in Elements(l)) \/ x \in Elements(queue) \/ x \in flying \/ x \in awaiting
        BY <1>2, <2>2, InWorkIs DEF Responding
      <3>2. QED BY <3>1, InWorkIsNext
    <2>3. QED BY <2>1, <2>2
  <1>3. QED BY <1>2

LEMMA WorkWriter ==
    ASSUME Typed, Work, Writer
    PROVE  Work'
  <1> USE DEF db, feed, flags, docs, revs, retries, locals
  <1>1. /\ UNCHANGED <<maxSequence, flags, docs, revs, retries, pc, locals, completed, fate>>
        /\ \A x \in Known : log'[x] = log[x]
    <2>1. ASSUME NEW d \in Docs, Commit(d) PROVE \A x \in Known : log'[x] = log[x]
      BY <2>1 DEF Commit, Typed, Known
    <2>2. QED BY <2>1 DEF Writer, Commit, Announce
  <1>2. InWork' = InWork /\ Read' = Read
    BY <1>1 DEF InWork, Read
  <1>3. QED BY <1>1, <1>2, WorkUnchanged

LEMMA WorkFeed ==
    ASSUME Typed, Locals, Work, ChangesFeed
    PROVE  Work'
  <1> USE DEF db, feed, flags, docs, revs, retries, locals
  <1>1. CASE GetObservedChanges
    <2>1. /\ UNCHANGED <<db, docs, revs, retries, completed, fate>> /\ pc = "reading" /\ pc' = "observing" /\ start' = maxSequence
      BY <1>1 DEF GetObservedChanges
    <2>2. InWork' = InWork /\ Read' = Read
      BY <2>1 DEF InWork, Read
    <2>3. QED BY <2>1, <2>2, WorkUnchanged
  <1>2. ASSUME UNCHANGED <<db, docs, revs, retries, completed, fate, pc, start>>, pc = "observing" PROVE Work'
    <2>1. InWork' = InWork /\ Read' = Read
      BY <1>2 DEF InWork, Read
    <2>2. QED BY <1>2, <2>1, WorkUnchanged
  <1>3. CASE ReadObserver
    <2>1. UNCHANGED <<db, docs, revs, retries, completed, fate, pc, start>> /\ pc = "observing"
      BY <1>3 DEF ReadObserver
    <2>2. QED BY <1>2, <2>1
  <1>4. ASSUME NEW push \in BOOLEAN, ObserveChange(push) PROVE Work'
    <2>1. UNCHANGED <<db, docs, revs, retries, completed, fate, pc, start>> /\ pc = "observing"
      BY <1>4 DEF ObserveChange
    <2>2. QED BY <1>2, <2>1
  <1>5. ASSUME UNCHANGED <<db, docs, revs, retries, fate>>, pc \in {"reading", "observing"}, pc' = "got",
               NEW first \in 0 .. Len(log), Read = 1 .. first, Read' = 1 .. maxSequence', maxSequence' \in 0 .. Len(log),
               completed' = (completed \cup (first + 1 .. maxSequence')) \ Elements(todo')
        PROVE  Work'
    <2>1. InWork \subseteq InWork'
      BY <1>5 DEF InWork
    <2>2. PushingInWork' /\ HoldersInWork' /\ RetriedDocs'
      BY <1>5, <2>1 DEF Work, PushingInWork, HoldersInWork, RetriedDocs
    <2>3. AllAccounted'
      <3>1. ASSUME NEW s, s \in 1 .. maxSequence', s \notin completed' PROVE Accounted(s)'
        <4>1. CASE s \in Elements(todo')
          BY <1>5, <4>1 DEF Accounted
        <4>2. CASE s \notin Elements(todo')
          <5>1. s \notin completed /\ s \in 1 .. first
            BY <1>5, <3>1, <4>2 DEF Typed
          <5>2. Accounted(s)
            BY <1>5, <5>1 DEF Work, AllAccounted
          <5>3. QED BY <1>5, <2>1, <5>2 DEF Accounted
        <4>3. QED BY <4>1, <4>2
      <3>2. QED BY <1>5, <3>1 DEF AllAccounted
    <2>4. QED BY <2>2, <2>3 DEF Work
  <1>6. CASE GetHistoricalChanges
    <2>1. /\ pc = "reading" /\ pc' = "got" /\ maxSequence' \in 0 .. Len(log) /\ maxSequence \in 0 .. Len(log)
          /\ completed' = (completed \cup (maxSequence + 1 .. maxSequence')) \ Elements(todo')
          /\ UNCHANGED <<db, docs, revs, retries, fate>>
      BY <1>6, HistoricalIs DEF Typed
    <2>2. Read = 1 .. maxSequence /\ Read' = 1 .. maxSequence'
      BY <2>1 DEF Read
    <2>3. QED BY <1>5, <2>1, <2>2
  <1>7. CASE ObservedAll
    <2>1. /\ pc = "observing" /\ pc' = "got" /\ maxSequence' = maxSequence /\ todo' = kept
          /\ completed' = (completed \cup (start + 1 .. maxSequence')) \ Elements(todo')
          /\ UNCHANGED <<db, docs, revs, retries, fate>>
      BY <1>7 DEF ObservedAll, AddPendingSequences
    <2>2. Read = 1 .. start /\ Read' = 1 .. maxSequence' /\ start \in 0 .. Len(log) /\ maxSequence' \in 0 .. Len(log)
      BY <2>1 DEF Read, Typed
    <2>3. QED BY <1>5, <2>1, <2>2
  <1>8. QED BY <1>1, <1>3, <1>4, <1>6, <1>7 DEF ChangesFeed

(* gotChanges(): whoever holds a revision back is in work. *)
LEMMA WorkGot ==
    ASSUME Typed, Work, GotChange
    PROVE  Work'
  <1> USE DEF db, feed, flags, docs, revs, retries, locals
  <1> DEFINE s == Head(todo)
             d == log[s]
             earlier == pushing[d]
             old == nextRev[earlier]
  <1>1. /\ pc = "got" /\ todo # << >> /\ todo' = Tail(todo) /\ pc' = pc /\ log' = log
        /\ IF earlier = 0
           THEN /\ pushing' = [pushing EXCEPT ![d] = s] /\ kept' = Append(kept, s) /\ UNCHANGED <<nextRev, completed>>
           ELSE /\ nextRev' = [nextRev EXCEPT ![earlier] = s] /\ completed' = completed \cup ({old} \ {0})
                /\ UNCHANGED <<pushing, kept>>
        /\ UNCHANGED <<maxSequence, lists, revs, retries, start, fate>>
    BY DEF GotChange
  <1>2. s \in Known /\ Elements(todo) = {s} \cup Elements(todo')
    BY <1>1, TailElements DEF Typed
  <1>3. d \in Docs /\ s \in Revs /\ Known \subseteq Revs /\ 0 \notin Known
    BY <1>2, KnownRevs
  <1>4. earlier \in Known \cup {0}
    BY <1>3 DEF Typed
  <1>5. Read' = Read
    BY <1>1 DEF Read
  <1>6. earlier = 0 => Elements(kept') = Elements(kept) \cup {s}
    <2>1. kept \in Seq(Known)
      BY DEF Typed
    <2>2. earlier = 0 => kept' = Append(kept, s)
      BY <1>1
    <2> HIDE DEF s, earlier
    <2>3. Elements(Append(kept, s)) = Elements(kept) \cup {s}
      BY <1>2, <2>1, AppendElements
    <2>4. QED BY <2>2, <2>3
  <1>7. InWork \subseteq InWork'
    <2>1. Elements(kept) \subseteq Elements(kept')
      BY <1>1, <1>6
    <2>2. QED BY <1>1, <2>1, InWorkIs, InWorkIsNext
  <1>8. RetriedDocs'
    BY <1>1 DEF Work, RetriedDocs
  <1>9. ASSUME NEW t \in Read \ completed', t # s, NEW a \in BOOLEAN, a <=> \E x \in Revs : nextRev'[x] = t,
               (\E x \in Revs : nextRev[x] = t) => a, t \notin completed
        PROVE  Accounted(t)'
    <2>1. Accounted(t)
      BY <1>9 DEF Work, AllAccounted
    <2>2. t \in Elements(todo) => t \in Elements(todo')
      BY <1>2, <1>9
    <2>3. QED BY <1>1, <1>7, <1>9, <2>1, <2>2 DEF Accounted
  <1>10. CASE earlier = 0
    <2>1. pushing' = [pushing EXCEPT ![d] = s] /\ nextRev' = nextRev /\ completed' = completed
      BY <1>1, <1>10
    <2>2. s \in InWork'
      BY <1>1, <1>6, <1>10, InWorkIsNext
    <2> HIDE DEF s
    <2>3. PushingInWork'
      <3>1. ASSUME NEW x \in Docs, pushing'[x] # 0 PROVE pushing'[x] \in InWork' /\ log'[pushing'[x]] = x
        <4>1. CASE x = d
          BY <1>1, <1>3, <2>1, <2>2, <4>1 DEF Typed
        <4>2. CASE x # d
          BY <1>1, <1>3, <1>7, <2>1, <3>1, <4>2 DEF Typed, Work, PushingInWork
        <4>3. QED BY <4>1, <4>2
      <3>2. QED BY <3>1 DEF PushingInWork
    <2>4. HoldersInWork'
      BY <1>1, <1>7, <2>1 DEF Work, HoldersInWork
    <2>5. AllAccounted'
      <3>1. ASSUME NEW t \in Read \ completed' PROVE Accounted(t)'
        <4>1. CASE t = s
          BY <2>2, <4>1 DEF Accounted
        <4>2. CASE t # s
          BY <1>9, <2>1, <4>2
        <4>3. QED BY <4>1, <4>2
      <3>2. QED BY <1>5, <3>1 DEF AllAccounted
    <2>6. QED BY <1>8, <2>3, <2>4, <2>5 DEF Work
  <1>11. CASE earlier # 0
    <2>1. nextRev' = [nextRev EXCEPT ![earlier] = s] /\ completed' = completed \cup ({old} \ {0}) /\ pushing' = pushing
      BY <1>1, <1>11
    <2>2. earlier \in InWork /\ log[earlier] = d /\ earlier \in Revs
      BY <1>3, <1>4, <1>11 DEF Work, PushingInWork
    <2>3. /\ nextRev'[earlier] = s /\ \A x \in Revs \ {earlier} : nextRev'[x] = nextRev[x]
      BY <2>1, <2>2 DEF Typed
    <2>4. PushingInWork'
      BY <1>1, <1>7, <2>1 DEF Work, PushingInWork
    <2>5. HoldersInWork'
      <3>1. ASSUME NEW x \in Revs, nextRev'[x] # 0 PROVE x \in InWork' /\ log'[nextRev'[x]] = log'[x]
        <4>1. CASE x = earlier
          BY <1>1, <1>7, <2>2, <2>3, <4>1
        <4>2. CASE x # earlier
          <5>1. nextRev'[x] = nextRev[x]
            BY <2>3, <4>2
          <5>2. x \in InWork /\ log[nextRev[x]] = log[x]
            BY <3>1, <5>1 DEF Work, HoldersInWork
          <5>3. QED BY <1>1, <1>7, <5>1, <5>2
        <4>3. QED BY <4>1, <4>2
      <3>2. QED BY <3>1 DEF HoldersInWork
    <2>6. AllAccounted'
      <3>1. ASSUME NEW t \in Read \ completed' PROVE Accounted(t)'
        <4>1. CASE t = s
          BY <2>2, <2>3, <4>1 DEF Accounted
        <4>2. CASE t # s
          <5>1. t # 0
            BY DEF Read
          <5>2. t # old /\ t \notin completed
            BY <2>1, <3>1, <5>1
          <5>3. (\E x \in Revs : nextRev[x] = t) => \E x \in Revs : nextRev'[x] = t
            BY <2>3, <5>2
          <5>4. QED BY <1>9, <4>2, <5>2, <5>3
        <4>3. QED BY <4>1, <4>2
      <3>2. QED BY <1>5, <3>1 DEF AllAccounted
    <2>7. QED BY <1>8, <2>4, <2>5, <2>6 DEF Work
  <1>12. QED BY <1>10, <1>11

LEMMA WorkResponses ==
    ASSUME Typed, Locals, Work,
           DropRev \/ WantRev \/ ProposeAgain
               \/ (\E says \in {"pushed", "permanent"} : DontWantRev(says)) \/ (\E b \in BOOLEAN : Conflict(b))
    PROVE  Work'
  <1> USE DEF db, feed, flags, docs, revs, retries, locals
  <1> DEFINE s == Head(todo)
             d == log[s]
  <1>0. /\ Responding /\ UNCHANGED <<log, maxSequence, start, flying, awaiting, toRetry>>
        /\ pc \notin {"got", "observing"}
    BY DEF DropRev, WantRev, ProposeAgain, DontWantRev, Conflict, Responding, NextResponse
  <1>1. s \in Known /\ pc' \in {"replying", "failing", "sending", "idle"}
    BY <1>0, ResponseIs
  <1>2. Read' = Read
    BY <1>0, <1>1 DEF Read
  <1>3. d \in Docs
    BY <1>1, KnownRevs
  <1>4. CASE WantRev
    <2>1. queue' = Append(queue, s) /\ UNCHANGED <<docs, retries, completed, fate>>
      BY <1>4 DEF WantRev
    <2>2. Elements(queue') = Elements(queue) \cup {s}
      BY <1>1, <2>1, AppendElements DEF Typed
    <2>3. InWork \ {s} \subseteq InWork'
      BY <1>0, <2>1, <2>2, RespondingWork
    <2>4. s \in InWork'
      BY <2>2, InWorkIsNext
    <2>5. InWork \subseteq InWork'
      BY <2>3, <2>4
    <2>6. QED BY <1>0, <1>2, <2>1, <2>5, WorkUnchanged
  <1>5. CASE ProposeAgain
    <2>1. lists' = lists \cup {<<s>>} /\ UNCHANGED <<pushing, nextRev, queue, retries, completed, fate>>
      BY <1>5 DEF ProposeAgain
    <2>2. InWork \ {s} \subseteq InWork'
      BY <1>0, <2>1, RespondingWork
    <2>3. s \in InWork'
      <3>1. s \in Elements(<<s>>) /\ <<s>> \in lists'
        BY <1>1, <2>1, SingleElements
      <3>2. QED BY <3>1, InWorkIsNext
    <2>4. InWork \subseteq InWork'
      BY <2>2, <2>3
    <2>5. QED BY <1>0, <1>2, <2>1, <2>4, WorkUnchanged
  <1>6. ASSUME NEW says, NEW done, done \/ says = "dropped", DoneWithRev(s, says, done, FALSE), queue' = queue
        PROVE  PushingInWork' /\ HoldersInWork' /\ AllAccounted'
    <2>1. lists \subseteq lists'
      BY <1>6, DoneLists
    <2>2. InWork \ {s} \subseteq InWork'
      BY <1>0, <1>6, <2>1, RespondingWork
    <2>3. Elements(toRetry) \subseteq Elements(toRetry')
      BY <1>0
    <2>4. pc # "got" /\ log' = log
      BY <1>0 DEF Responding
    <2> HIDE DEF s
    <2>5. QED BY <1>1, <1>2, <1>6, <2>2, <2>3, <2>4, DoneKeeps
  <1>7. ASSUME NEW says \in {"pushed", "permanent"}, DontWantRev(says) PROVE Work'
    <2>1. DoneWithRev(s, says, TRUE, FALSE) /\ UNCHANGED <<queue, retries>>
      BY <1>7 DEF DontWantRev
    <2>2. RetriedDocs'
      BY <1>0, <2>1 DEF Work, RetriedDocs
    <2>3. QED BY <1>6, <2>1, <2>2 DEF Work
  <1>8. ASSUME NEW b \in BOOLEAN, Conflict(b) PROVE Work'
    <2>1. /\ DoneWithRev(s, "conflict", TRUE, FALSE) /\ queue' = queue
          /\ mightRetry' = mightRetry \/ mightRetry' = [mightRetry EXCEPT ![d] = s]
      BY <1>8 DEF Conflict, Responding, NextResponse
    <2>2. RetriedDocs'
      <3>1. ASSUME NEW x \in Docs, mightRetry'[x] # 0 PROVE log[mightRetry'[x]] = x
        <4>1. mightRetry'[x] = mightRetry[x] \/ (x = d /\ mightRetry'[x] = s)
          BY <1>3, <2>1 DEF Typed
        <4>2. QED BY <3>1, <4>1 DEF Work, RetriedDocs
      <3>2. QED BY <1>0, <3>1 DEF RetriedDocs
    <2>3. QED BY <1>6, <2>1, <2>2 DEF Work
  <1>9. CASE DropRev
    <2>1. DoneWithRev(s, "dropped", FALSE, FALSE) /\ UNCHANGED <<queue, retries>>
      BY <1>9 DEF DropRev
    <2>2. RetriedDocs'
      BY <1>0, <2>1 DEF Work, RetriedDocs
    <2>3. QED BY <1>6, <2>1, <2>2 DEF Work
  <1>10. QED BY <1>4, <1>5, <1>7, <1>8, <1>9

LEMMA WorkHandler ==
    ASSUME Typed, Locals, Work, Handler
    PROVE  Work'
  <1> USE DEF db, feed, flags, docs, revs, retries, locals
  <1>1. ASSUME UNCHANGED <<log, maxSequence, start, docs, revs, retries, completed, fate>>, pc \in {"idle", "sending"},
               pc' # "observing"
        PROVE  Work'
    <2>1. InWork \subseteq InWork' /\ Read' = Read
      BY <1>1, InWorkIs, InWorkIsNext DEF Read
    <2>2. QED BY <1>1, <2>1, WorkUnchanged
  <1>2. CASE HandleMaybeGetMoreChanges \/ DBHasNewChanges \/ HandleMaybeSendMoreRevs
    <2>1. /\ UNCHANGED <<log, maxSequence, start, docs, revs, retries, completed, fate>> /\ pc = "idle"
          /\ pc' \in {"idle", "reading", "sending"}
      BY <1>2 DEF HandleMaybeGetMoreChanges, DBHasNewChanges, HandleMaybeSendMoreRevs, MaybeGetMoreChanges, MaybeSendMoreRevs, Ready
    <2>2. QED BY <1>1, <2>1
  <1>3. CASE SendChanges
    <2>1. /\ pc = "got" /\ todo = << >> /\ lists' = lists \cup ({kept} \ {<< >>}) /\ pc' = "idle"
          /\ UNCHANGED <<log, maxSequence, start, pushing, nextRev, revs, retries, todo, completed, fate>>
      BY <1>3 DEF SendChanges
    <2>2. ASSUME NEW x \in InWork PROVE x \in InWork'
      <3>1. CASE x \in Elements(kept)
        <4>1. kept # << >>
          BY <3>1, EmptyElements
        <4>2. kept \in lists'
          BY <2>1, <4>1
        <4>3. QED BY <3>1, <4>2, InWorkIsNext
      <3>2. CASE x \notin Elements(kept)
        BY <2>1, <3>2, InWorkIs, InWorkIsNext
      <3>3. QED BY <3>1, <3>2
    <2>3. Read' = Read
      BY <2>1 DEF Read
    <2>4. PushingInWork' /\ HoldersInWork' /\ RetriedDocs'
      BY <2>1, <2>2 DEF Work, PushingInWork, HoldersInWork, RetriedDocs
    <2>5. AllAccounted'
      <3>1. ASSUME NEW t \in Read \ completed PROVE Accounted(t)'
        <4>1. Accounted(t) /\ t \notin Elements(todo)
          BY <2>1, EmptyElements DEF Work, AllAccounted
        <4>2. QED BY <2>1, <2>2, <4>1 DEF Accounted
      <3>2. QED BY <2>1, <2>3, <3>1 DEF AllAccounted
    <2>6. QED BY <2>4, <2>5 DEF Work
  <1>4. CASE SendRevision
    <2>1. /\ pc = "sending" /\ queue # << >> /\ queue' = Tail(queue) /\ flying' = flying \cup {Head(queue)}
          /\ pc' \in {"sending", "idle"}
          /\ UNCHANGED <<log, maxSequence, docs, awaiting, retries, locals, completed, fate>>
      BY <1>4 DEF SendRevision, CanSend, MaybeSendMoreRevs
    <2>2. Elements(queue) = {Head(queue)} \cup Elements(queue')
      BY <2>1, QueueIs
    <2>3. InWork \subseteq InWork'
      BY <2>1, <2>2, InWorkIs, InWorkIsNext
    <2>4. Read' = Read
      BY <2>1 DEF Read
    <2>5. QED BY <2>1, <2>3, <2>4, WorkUnchanged
  <1>5. ASSUME NEW says \in {"none", "permanent"}, SendNoRev(says) PROVE Work'
    <2> DEFINE s == Head(queue)
    <2>1. /\ pc = "sending" /\ queue # << >> /\ queue' = Tail(queue) /\ DoneWithRev(s, says, TRUE, FALSE)
          /\ pc' \in {"sending", "idle"}
          /\ UNCHANGED <<log, maxSequence, flying, awaiting, retries, locals>>
      BY <1>5 DEF SendNoRev, CanSend, MaybeSendMoreRevs
    <2>2. s \in Known /\ Elements(queue) = {s} \cup Elements(queue') /\ lists \subseteq lists'
      BY <2>1, QueueIs, DoneLists
    <2> HIDE DEF s
    <2>3. InWork \ {s} \subseteq InWork'
      BY <2>1, <2>2, InWorkIs, InWorkIsNext
    <2>4. Read' = Read
      BY <2>1 DEF Read
    <2>5. Elements(toRetry) \subseteq Elements(toRetry') /\ pc # "got" /\ log' = log
      BY <2>1
    <2>6. PushingInWork' /\ HoldersInWork' /\ AllAccounted'
      BY <2>1, <2>2, <2>3, <2>4, <2>5, DoneKeeps
    <2>7. RetriedDocs'
      BY <2>1 DEF Work, RetriedDocs
    <2>8. QED BY <2>6, <2>7 DEF Work
  <1>6. CASE RetryRevs
    <2>1. /\ pc = "idle" /\ toRetry' = << >> /\ pc' = "got" /\ todo' = toRetry
          /\ UNCHANGED <<log, maxSequence, docs, revs, mightRetry, kept, start, completed, fate>>
      BY <1>6 DEF RetryRevs
    <2>2. InWork \subseteq InWork' /\ Read' = Read
      BY <2>1, InWorkIs, InWorkIsNext DEF Read
    <2>3. PushingInWork' /\ HoldersInWork' /\ RetriedDocs'
      BY <2>1, <2>2 DEF Work, PushingInWork, HoldersInWork, RetriedDocs
    <2>4. AllAccounted'
      <3>1. ASSUME NEW t \in Read \ completed PROVE Accounted(t)'
        <4>1. Accounted(t)
          BY DEF Work, AllAccounted
        <4>2. QED BY <2>1, <2>2, <4>1 DEF Accounted
      <3>2. QED BY <2>1, <2>2, <3>1 DEF AllAccounted
    <2>5. QED BY <2>3, <2>4 DEF Work
  <1>7. QED BY <1>2, <1>3, <1>4, <1>5, <1>6, WorkGot, WorkResponses DEF Handler

LEMMA WorkPeer ==
    ASSUME Typed, Locals, Work, Peer
    PROVE  Work'
  <1> USE DEF db, feed, flags, docs, revs, retries, locals
  <1>1. ASSUME NEW list \in lists, ChangesReply(list) \/ ListRefused(list) PROVE Work'
    <2>1. /\ pc = "idle" /\ lists' = lists \ {list} /\ pc' \in {"replying", "failing"} /\ todo' = list
          /\ UNCHANGED <<log, maxSequence, pushing, nextRev, revs, toRetry, mightRetry, start, completed, fate>>
      BY <1>1 DEF ChangesReply, ListRefused, CanReceive, Ready
    <2>2. ASSUME NEW x \in InWork PROVE x \in InWork'
      BY <2>1, InWorkIs, InWorkIsNext
    <2>3. Read' = Read /\ InWork \subseteq InWork'
      BY <2>1, <2>2 DEF Read
    <2>4. QED BY <2>1, <2>3, WorkUnchanged
  <1>2. ASSUME NEW s \in flying, RevTransmitted(s) PROVE Work'
    <2>1. /\ pc = "idle" /\ flying' = flying \ {s} /\ awaiting' = awaiting \cup {s} /\ pc' \in {"sending", "idle"}
          /\ UNCHANGED <<log, maxSequence, docs, queue, retries, locals, completed, fate>>
      BY <1>2 DEF RevTransmitted, CanReceive, Ready, MaybeSendMoreRevs
    <2>2. InWork \subseteq InWork' /\ Read' = Read
      BY <2>1, InWorkIs, InWorkIsNext DEF Read
    <2>3. QED BY <2>1, <2>2, WorkUnchanged
  <1>3. ASSUME NEW s, NEW says, NEW done, NEW again, Replied(s, says, done, again) PROVE Work'
    <2>1. /\ pc = "idle" /\ s \in awaiting /\ awaiting' = awaiting \ {s} /\ DoneWithRev(s, says, done, again)
          /\ done \/ says = "transient" \/ s \in Elements(toRetry') \/ s \in Elements(queue')
          /\ again => s \in Elements(queue')
          /\ Elements(queue) \subseteq Elements(queue') /\ Elements(toRetry) \subseteq Elements(toRetry')
          /\ pc' \in {"sending", "idle"}
          /\ UNCHANGED <<log, maxSequence, flying, mightRetry, locals>>
      BY <1>3 DEF Replied, MaybeSendMoreRevs
    <2>2. s \in Known /\ lists \subseteq lists' /\ Read' = Read
      BY <2>1, DoneLists DEF Typed, Read
    <2>3. InWork \ {s} \subseteq InWork'
      BY <2>1, <2>2, InWorkIs, InWorkIsNext
    <2>4. s \in Elements(queue') => s \in InWork'
      BY InWorkIsNext
    <2>5. PushingInWork' /\ HoldersInWork' /\ AllAccounted'
      <3>1. /\ done \/ says = "transient" \/ s \in InWork' \/ s \in Elements(toRetry')
            /\ again => s \in InWork'
            /\ pc # "got" /\ log' = log
        BY <2>1, <2>4
      <3>2. QED BY <2>1, <2>2, <2>3, <3>1, DoneKeeps
    <2>6. RetriedDocs'
      BY <2>1 DEF Work, RetriedDocs
    <2>7. QED BY <2>5, <2>6 DEF Work
  <1>4. ASSUME NEW d \in Docs, NEW retry \in BOOLEAN, RemoteAncestorChanged(d, retry) PROVE Work'
    <2> DEFINE s == mightRetry[d]
    <2>1. /\ pc = "idle" /\ s # 0 /\ mightRetry' = [mightRetry EXCEPT ![d] = 0]
          /\ IF retry
             THEN /\ pushing' = [pushing EXCEPT ![d] = IF pushing[d] = 0 THEN s ELSE pushing[d]]
                  /\ completed' = completed \ {s} /\ lists' = lists \cup {<<s>>} /\ fate' = [fate EXCEPT ![s] = "none"]
             ELSE UNCHANGED <<pushing, completed, lists, fate>>
          /\ UNCHANGED <<log, maxSequence, nextRev, revs, toRetry, pc, locals>>
      BY <1>4 DEF RemoteAncestorChanged, CanReceive, Ready
    <2>2. s \in Known /\ log[s] = d /\ s \in Revs
      BY <2>1, KnownRevs DEF Typed, Work, RetriedDocs
    <2>3. RetriedDocs'
      BY <2>1 DEF Typed, Work, RetriedDocs
    <2>4. InWork \subseteq InWork' /\ Read' = Read
      BY <2>1, InWorkIs, InWorkIsNext DEF Read
    <2>5. HoldersInWork'
      BY <2>1, <2>4 DEF Work, HoldersInWork
    <2> HIDE DEF s
    <2>6. CASE retry
      <3>1. s \in InWork'
        <4>1. s \in Elements(<<s>>) /\ <<s>> \in lists'
          BY <2>1, <2>2, <2>6, SingleElements
        <4>2. QED BY <4>1, InWorkIsNext
      <3>2. PushingInWork'
        <4>1. ASSUME NEW x \in Docs, pushing'[x] # 0 PROVE pushing'[x] \in InWork' /\ log[pushing'[x]] = x
          <5>1. pushing'[x] = pushing[x] \/ (x = d /\ pushing'[x] = s)
            BY <2>1, <2>6 DEF Typed
          <5>2. QED BY <2>2, <2>4, <3>1, <4>1, <5>1 DEF Work, PushingInWork
        <4>2. QED BY <2>1, <4>1 DEF PushingInWork
      <3>3. AllAccounted'
        <4>1. ASSUME NEW t \in Read \ completed' PROVE Accounted(t)'
          <5>1. CASE t = s
            BY <3>1, <5>1 DEF Accounted
          <5>2. CASE t # s
            <6>1. t \notin completed /\ Accounted(t)
              BY <2>1, <2>6, <4>1, <5>2 DEF Work, AllAccounted
            <6>2. fate'[t] = fate[t]
              <7>1. fate' = [fate EXCEPT ![s] = "none"]
                BY <2>1, <2>6
              <7>2. t \in Revs
                BY PusherAssumption DEF Read, Typed, Revs
              <7>3. QED BY <2>2, <5>2, <7>1, <7>2 DEF Typed
            <6>3. QED BY <2>1, <2>4, <6>1, <6>2 DEF Accounted
          <5>3. QED BY <5>1, <5>2
        <4>2. QED BY <2>4, <4>1 DEF AllAccounted
      <3>4. QED BY <2>3, <2>5, <3>2, <3>3 DEF Work
    <2>7. CASE ~retry
      <3>1. PushingInWork'
        BY <2>1, <2>4, <2>7 DEF Work, PushingInWork
      <3>2. AllAccounted'
        <4>1. ASSUME NEW t \in Read \ completed PROVE Accounted(t)'
          <5>1. Accounted(t)
            BY DEF Work, AllAccounted
          <5>2. QED BY <2>1, <2>4, <2>7, <5>1 DEF Accounted
        <4>2. QED BY <2>1, <2>4, <2>7, <4>1 DEF AllAccounted
      <3>3. QED BY <2>3, <2>5, <3>1, <3>2 DEF Work
    <2>8. QED BY <2>6, <2>7
  <1>5. QED BY <1>1, <1>2, <1>3, <1>4, RepliesAre DEF Peer

-----------------------------------------------------------------------------
(***************************************************************************)
(* The steps of the Pusher that are not the feed's: they leave the feed    *)
(* alone, stop sending only when they must, and stop asking for changes    *)
(* only when something will call the Pusher again.                         *)
(***************************************************************************)
Aside ==
    /\ pc \notin {"reading", "observing"} /\ pc' \notin {"reading", "observing"}
    /\ UNCHANGED <<log, announced, observer, unread, notify, maxSequence, feedCaughtUp, caughtUp>>
    /\ continuousCaughtUp' = continuousCaughtUp \/ continuousCaughtUp' = FALSE
    /\ mailbox'["dbHasNewChanges"] = mailbox["dbHasNewChanges"]

GoesOn == Aside /\ Locals' /\ SendsAll' /\ GetsMore'

LEMMA StillSends ==
    ASSUME SendsAll, UNCHANGED revs, pc \notin {"replying", "sending"}
    PROVE  SendsAll'
  BY DEF SendsAll, CanSend, revs

LEMMA StillGetsMore ==
    ASSUME Typed, GetsMore, pc \in {"idle", "sending", "replying", "failing"}, UNCHANGED flags,
           mailbox'["maybeGetMoreChanges"] = mailbox["maybeGetMoreChanges"],
           lists \subseteq lists', Len(queue') \in Nat, Len(queue') >= Len(queue)
    PROVE  GetsMore'
  <1>1. MaxQueued \in Nat /\ Len(queue) \in Nat
    BY PusherAssumption DEF Typed
  <1>2. ASSUME ~caughtUp' \/ ~continuousCaughtUp'
        PROVE  mailbox'["maybeGetMoreChanges"] > 0 \/ lists' # {} \/ Len(queue') >= MaxQueued
    <2>1. mailbox["maybeGetMoreChanges"] > 0 \/ lists # {} \/ Len(queue) >= MaxQueued
      BY <1>2 DEF GetsMore, flags
    <2>2. QED BY <1>1, <2>1
  <1>3. QED BY <1>2 DEF GetsMore

LEMMA GoingOnResponds ==
    ASSUME Typed, Locals, SendsAll, GetsMore,
           DropRev \/ WantRev \/ ProposeAgain
               \/ (\E says \in {"pushed", "permanent"} : DontWantRev(says)) \/ (\E b \in BOOLEAN : Conflict(b))
    PROVE  GoesOn
  <1> USE DEF db, feed, flags, docs, revs, retries, locals
  <1>1. Responding /\ UNCHANGED <<db, feed, flags, mailbox, kept>>
    BY DEF DropRev, WantRev, ProposeAgain, DontWantRev, Conflict, Responding, NextResponse
  <1>2. /\ pc' \in {"replying", "failing", "sending", "idle"} /\ (pc' \in {"replying", "failing"} <=> todo' # << >>)
        /\ pc = "replying" /\ pc' = "idle" => ~CanSend'
    BY <1>1, ResponseIs
  <1>3. Aside
    BY <1>1, <1>2 DEF Aside, Responding
  <1>4. SendsAll'
    <2>1. CASE pc = "replying"
      BY <1>1, <2>1 DEF SendsAll, Responding, MaybeSendMoreRevs
    <2>2. CASE pc # "replying"
      <3>1. pc = "failing" /\ UNCHANGED revs
        BY <1>1, <2>2 DEF Responding, DropRev, WantRev, ProposeAgain, DontWantRev, Conflict
      <3>2. QED BY <3>1, StillSends
    <2>3. QED BY <2>1, <2>2
  <1>5. Locals'
    BY <1>1, <1>2 DEF Locals, Responding
  <1>6. Len(queue) \in Nat /\ queue \in Seq(Known) /\ Head(todo) \in Known
    BY <1>1, ResponseIs DEF Typed
  <1>7. lists \subseteq lists' /\ Len(queue') \in Nat /\ Len(queue') >= Len(queue)
    <2>1. CASE WantRev
      <3>1. queue' = Append(queue, Head(todo)) /\ lists' = lists
        BY <2>1 DEF WantRev
      <3>2. QED BY <1>6, <3>1
    <2>2. CASE ProposeAgain
      <3>1. queue' = queue /\ lists \subseteq lists'
        BY <2>2 DEF ProposeAgain
      <3>2. QED BY <1>6, <3>1
    <2>3. ASSUME NEW says, NEW done, queue' = queue, DoneWithRev(Head(todo), says, done, FALSE)
          PROVE  lists \subseteq lists' /\ Len(queue') \in Nat /\ Len(queue') >= Len(queue)
      <3>1. lists \subseteq lists'
        BY <2>3, DoneLists
      <3>2. QED BY <1>6, <2>3, <3>1
    <2>4. ASSUME NEW says, DontWantRev(says) PROVE queue' = queue /\ DoneWithRev(Head(todo), says, TRUE, FALSE)
      BY <2>4 DEF DontWantRev
    <2>5. ASSUME NEW b, Conflict(b) PROVE queue' = queue /\ DoneWithRev(Head(todo), "conflict", TRUE, FALSE)
      BY <2>5 DEF Conflict
    <2>6. ASSUME NEW says, DontWantRev(says)
          PROVE  lists \subseteq lists' /\ Len(queue') \in Nat /\ Len(queue') >= Len(queue)
      BY <2>3, <2>4, <2>6
    <2>7. ASSUME NEW b, Conflict(b)
          PROVE  lists \subseteq lists' /\ Len(queue') \in Nat /\ Len(queue') >= Len(queue)
      BY <2>3, <2>5, <2>7
    <2>8. ASSUME DropRev PROVE queue' = queue /\ DoneWithRev(Head(todo), "dropped", FALSE, FALSE)
      BY <2>8 DEF DropRev
    <2>9. CASE DropRev
      BY <2>3, <2>8, <2>9
    <2>10. QED BY <2>1, <2>2, <2>6, <2>7, <2>9
  <1>8. GetsMore'
    <2>1. pc \in {"idle", "sending", "replying", "failing"}
      BY <1>1 DEF Responding
    <2>2. QED BY <1>1, <1>7, <2>1, StillGetsMore
  <1>9. QED BY <1>3, <1>4, <1>5, <1>8 DEF GoesOn

LEMMA GoingOnSends ==
    ASSUME Typed, Locals, GetsMore, SendRevision \/ \E says \in {"none", "permanent"} : SendNoRev(says)
    PROVE  GoesOn
  <1> USE DEF db, feed, flags, docs, revs, retries, locals
  <1>1. /\ pc = "sending" /\ queue # << >> /\ queue' = Tail(queue) /\ MaybeSendMoreRevs
        /\ UNCHANGED <<db, feed, flags, locals>>
    BY DEF SendRevision, SendNoRev, CanSend
  <1>2. lists \subseteq lists'
    <2>1. CASE SendRevision
      BY <2>1 DEF SendRevision
    <2>2. ASSUME NEW says, SendNoRev(says) PROVE lists \subseteq lists'
      <3>1. DoneWithRev(Head(queue), says, TRUE, FALSE)
        BY <2>2 DEF SendNoRev
      <3>2. QED BY <3>1, DoneLists
    <2>3. QED BY <2>1, <2>2
  <1>3. Len(queue') = Len(queue) - 1 /\ Len(queue) \in Nat
    BY <1>1, QueueIs
  <1>4. /\ mailbox'["dbHasNewChanges"] = mailbox["dbHasNewChanges"]
        /\ mailbox'["maybeGetMoreChanges"] = mailbox["maybeGetMoreChanges"] + (IF WakeFeed THEN 1 ELSE 0)
    <2> DEFINE M == IF WakeFeed THEN Enqueue("maybeGetMoreChanges") ELSE mailbox
    <2>1. M \in [Methods -> Nat] /\ mailbox \in [Methods -> Nat]
      BY TypedEnqueue DEF Typed, Methods
    <2>2. /\ M["dbHasNewChanges"] = mailbox["dbHasNewChanges"]
          /\ M["maybeGetMoreChanges"] = mailbox["maybeGetMoreChanges"] + (IF WakeFeed THEN 1 ELSE 0)
      <3>1. CASE WakeFeed
        BY <2>1, <3>1, TypedEnqueue DEF Methods
      <3>2. CASE ~WakeFeed
        BY <2>1, <3>2 DEF Methods
      <3>3. QED BY <3>1, <3>2
    <2>3. mailbox' = M \/ mailbox' = [M EXCEPT !["maybeSendMoreRevs"] = M["maybeSendMoreRevs"] + 1]
      BY DEF SendRevision, SendNoRev
    <2> HIDE DEF M
    <2>4. QED BY <2>1, <2>2, <2>3 DEF Methods
  <1>5. Aside
    BY <1>1, <1>4 DEF Aside, MaybeSendMoreRevs
  <1>6. SendsAll'
    BY <1>1 DEF SendsAll, MaybeSendMoreRevs
  <1>7. Locals'
    BY <1>1 DEF Locals, MaybeSendMoreRevs
  <1>8. GetsMore'
    <2>1. mailbox["maybeGetMoreChanges"] \in Nat /\ MaxQueued \in Nat
      BY PusherAssumption DEF Typed, Methods
    <2>2. CASE WakeFeed
      BY <1>4, <2>1, <2>2 DEF GetsMore
    <2>3. CASE ~WakeFeed
      <3>1. Len(queue) # MaxQueued /\ mailbox'["maybeGetMoreChanges"] = mailbox["maybeGetMoreChanges"]
        BY <1>4, <2>1, <2>3 DEF WakeFeed
      <3>2. ASSUME ~caughtUp' \/ ~continuousCaughtUp'
            PROVE  mailbox'["maybeGetMoreChanges"] > 0 \/ lists' # {} \/ Len(queue') >= MaxQueued
        <4>1. mailbox["maybeGetMoreChanges"] > 0 \/ lists # {} \/ Len(queue) >= MaxQueued
          BY <1>1, <3>2 DEF GetsMore
        <4>2. QED BY <1>2, <1>3, <2>1, <3>1, <4>1
      <3>3. QED BY <3>2 DEF GetsMore
    <2>4. QED BY <2>2, <2>3
  <1>9. QED BY <1>5, <1>6, <1>7, <1>8 DEF GoesOn

Getting == HandleMaybeGetMoreChanges \/ DBHasNewChanges

LEMMA GoingOnHandles ==
    ASSUME Typed, Locals, SendsAll, GetsMore, Handler, ~Getting
    PROVE  GoesOn
  <1> USE DEF db, feed, flags, docs, revs, retries, locals
  <1>1. CASE HandleMaybeSendMoreRevs
    <2>1. /\ pc = "idle" /\ mailbox' = [mailbox EXCEPT !["maybeSendMoreRevs"] = mailbox["maybeSendMoreRevs"] - 1]
          /\ UNCHANGED <<db, feed, flags, docs, revs, retries, locals, completed, fate>> /\ MaybeSendMoreRevs
      BY <1>1 DEF HandleMaybeSendMoreRevs, Ready
    <2>2. /\ mailbox'["maybeGetMoreChanges"] = mailbox["maybeGetMoreChanges"]
          /\ mailbox'["dbHasNewChanges"] = mailbox["dbHasNewChanges"]
      BY <2>1 DEF Typed, Methods
    <2>3. Aside
      BY <2>1, <2>2 DEF Aside, MaybeSendMoreRevs
    <2>4. Locals' /\ SendsAll'
      BY <2>1 DEF Locals, SendsAll, MaybeSendMoreRevs
    <2>5. lists \subseteq lists' /\ Len(queue') \in Nat /\ Len(queue') >= Len(queue)
      BY <2>1 DEF Typed
    <2>6. GetsMore'
      BY <2>1, <2>2, <2>5, StillGetsMore
    <2>7. QED BY <2>3, <2>4, <2>6 DEF GoesOn
  <1>2. CASE GotChange
    <2>1. pc = "got" /\ pc' = pc /\ UNCHANGED <<db, feed, flags, mailbox, revs>>
      BY <1>2 DEF GotChange
    <2>2. SendsAll'
      BY <2>1, StillSends
    <2>3. QED BY <2>1, <2>2 DEF GoesOn, Aside, Locals, GetsMore
  <1>3. CASE SendChanges
    <2>1. /\ pc = "got" /\ pc' = "idle" /\ todo' = << >> /\ kept' = << >> /\ mailbox' = Enqueue("maybeGetMoreChanges")
          /\ UNCHANGED <<db, feed, flags, revs>>
      BY <1>3 DEF SendChanges
    <2>2. SendsAll'
      BY <2>1, StillSends
    <2>3. /\ mailbox'["maybeGetMoreChanges"] = mailbox["maybeGetMoreChanges"] + 1
          /\ mailbox'["dbHasNewChanges"] = mailbox["dbHasNewChanges"] /\ mailbox["maybeGetMoreChanges"] \in Nat
      BY <2>1, TypedEnqueue DEF Typed, Methods
    <2>4. mailbox'["maybeGetMoreChanges"] > 0
      BY <2>3
    <2>5. QED BY <2>1, <2>2, <2>3, <2>4 DEF GoesOn, Aside, Locals, GetsMore
  <1>4. CASE RetryRevs
    <2>1. pc = "idle" /\ pc' = "got" /\ UNCHANGED <<db, feed, caughtUp, mailbox, revs>> /\ continuousCaughtUp' = FALSE
      BY <1>4 DEF RetryRevs
    <2>2. SendsAll'
      BY <2>1, StillSends
    <2>3. QED BY <2>1, <2>2 DEF GoesOn, Aside, Locals, GetsMore
  <1>5. CASE DropRev \/ WantRev \/ ProposeAgain
             \/ (\E says \in {"pushed", "permanent"} : DontWantRev(says)) \/ (\E b \in BOOLEAN : Conflict(b))
    BY <1>5, GoingOnResponds
  <1>6. CASE SendRevision \/ \E says \in {"none", "permanent"} : SendNoRev(says)
    BY <1>6, GoingOnSends
  <1>7. QED BY <1>1, <1>2, <1>3, <1>4, <1>5, <1>6 DEF Handler, Getting

LEMMA GoingOnPeer ==
    ASSUME Typed, Locals, SendsAll, GetsMore, Peer
    PROVE  GoesOn
  <1> USE DEF db, feed, flags, docs, revs, retries, locals
  <1>1. ASSUME NEW list \in lists, ChangesReply(list) \/ ListRefused(list) PROVE GoesOn
    <2>1. /\ pc = "idle" /\ pc' \in {"replying", "failing"} /\ kept' = kept /\ mailbox' = Enqueue("maybeGetMoreChanges")
          /\ UNCHANGED <<db, feed, flags, revs>>
      BY <1>1 DEF ChangesReply, ListRefused, CanReceive, Ready
    <2>2. /\ mailbox'["maybeGetMoreChanges"] = mailbox["maybeGetMoreChanges"] + 1
          /\ mailbox'["dbHasNewChanges"] = mailbox["dbHasNewChanges"] /\ mailbox["maybeGetMoreChanges"] \in Nat
      BY <2>1, TypedEnqueue DEF Typed, Methods
    <2>3. mailbox'["maybeGetMoreChanges"] > 0
      BY <2>2
    <2>4. SendsAll'
      BY <2>1, StillSends
    <2>5. QED BY <2>1, <2>2, <2>3, <2>4 DEF GoesOn, Aside, Locals, GetsMore
  <1>2. ASSUME pc = "idle", MaybeSendMoreRevs, lists \subseteq lists', Len(queue') \in Nat, Len(queue') >= Len(queue),
               UNCHANGED <<db, feed, flags, mailbox, locals>>
        PROVE  GoesOn
    <2>1. Aside
      BY <1>2 DEF Aside, MaybeSendMoreRevs
    <2>2. Locals' /\ SendsAll'
      BY <1>2 DEF Locals, SendsAll, MaybeSendMoreRevs
    <2>3. GetsMore'
      BY <1>2, StillGetsMore
    <2>4. QED BY <2>1, <2>2, <2>3 DEF GoesOn
  <1>3. ASSUME NEW s \in flying, RevTransmitted(s) PROVE GoesOn
    <2>1. /\ pc = "idle" /\ MaybeSendMoreRevs /\ lists' = lists /\ queue' = queue
          /\ UNCHANGED <<db, feed, flags, mailbox, locals>>
      BY <1>3 DEF RevTransmitted, CanReceive, Ready
    <2>2. lists \subseteq lists' /\ Len(queue') \in Nat /\ Len(queue') >= Len(queue)
      BY <2>1 DEF Typed
    <2>3. QED BY <1>2, <2>1, <2>2
  <1>4. ASSUME NEW s, NEW says, NEW done, NEW again, Replied(s, says, done, again) PROVE GoesOn
    <2>1. /\ pc = "idle" /\ MaybeSendMoreRevs /\ Len(queue') >= Len(queue) /\ queue' \in Seq(Known)
          /\ DoneWithRev(s, says, done, again)
          /\ UNCHANGED <<db, feed, flags, mailbox, locals>>
      BY <1>4 DEF Replied
    <2>2. lists \subseteq lists' /\ Len(queue') \in Nat
      BY <2>1, DoneLists
    <2>3. QED BY <1>2, <2>1, <2>2
  <1>5. ASSUME NEW d \in Docs, NEW retry \in BOOLEAN, RemoteAncestorChanged(d, retry) PROVE GoesOn
    <2>1. pc = "idle" /\ pc' = pc /\ UNCHANGED <<db, feed, flags, mailbox, revs, locals>> /\ lists \subseteq lists'
      BY <1>5 DEF RemoteAncestorChanged, CanReceive, Ready
    <2>2. SendsAll'
      BY <2>1, StillSends
    <2>3. Len(queue') \in Nat /\ Len(queue') >= Len(queue)
      BY <2>1 DEF Typed
    <2>4. GetsMore'
      BY <2>1, <2>3, StillGetsMore
    <2>5. QED BY <2>1, <2>2, <2>4 DEF GoesOn, Aside, Locals
  <1>6. QED BY <1>1, <1>3, <1>4, <1>5, RepliesAre DEF Peer

-----------------------------------------------------------------------------
(***************************************************************************)
(* The feed reads all that is announced, and is told of what it has not.   *)
(***************************************************************************)
LEMMA OnceCurrent ==
    ASSUME Typed, NEW s \in Known, log' = log \/ \E d \in Docs : Commit(d), Current(s)'
    PROVE  Current(s)
  <1>1. CASE log' = log
    BY <1>1 DEF Current
  <1>2. CASE log' # log
    <2>1. PICK d \in Docs : log' = Append(log, d)
      BY <1>2 DEF Commit
    <2>2. Len(log') = Len(log) + 1 /\ Len(log) \in Nat /\ \A t \in 1 .. Len(log) : log'[t] = log[t]
      BY <2>1 DEF Typed
    <2>3. s \in 1 .. Len(log)
      BY DEF Known
    <2>4. ASSUME NEW t \in s + 1 .. Len(log) PROVE log[t] # log[s]
      <3>1. t \in s + 1 .. Len(log') /\ t \in 1 .. Len(log)
        BY <2>2, <2>3
      <3>2. log'[t] # log'[s]
        BY <3>1 DEF Current
      <3>3. QED BY <2>2, <2>3, <3>1, <3>2
    <2>5. QED BY <2>4 DEF Current
  <1>3. QED BY <1>1, <1>2

Feeding == Observed /\ ReadInOrder /\ Notified

LEMMA FeedingAside ==
    ASSUME Typed, Feeding, Aside
    PROVE  Feeding'
  <1>1. log' = log /\ \A s : Current(s)' <=> Current(s)
    BY DEF Aside, Current
  <1>2. Observed'
    BY <1>1 DEF Feeding, Aside, Observed
  <1>3. ReadInOrder'
    BY DEF Aside, ReadInOrder
  <1>4. Notified'
    BY DEF Feeding, Aside, Notified
  <1>5. QED BY <1>2, <1>3, <1>4 DEF Feeding

LEMMA FeedingWriter ==
    ASSUME Typed, Feeding, Writer
    PROVE  Feeding'
  <1> USE DEF db, feed, flags, docs, revs, retries, locals
  <1>1. CASE \E d \in Docs : Commit(d)
    <2>1. UNCHANGED <<announced, feed, flags, mailbox, pc, locals>>
      BY <1>1 DEF Commit
    <2>2. ASSUME feedCaughtUp, NEW s \in maxSequence + 1 .. announced, Current(s)'
          PROVE  s \in unread \/ (pc = "observing" /\ s \in Elements(todo))
      <3>1. s \in Known
        BY DEF Typed, Known
      <3>2. Current(s)
        BY <1>1, <2>2, <3>1, OnceCurrent
      <3>3. QED BY <2>2, <3>2 DEF Feeding, Observed
    <2>3. Observed'
      <3>1. Len(log') <= announced' + 1
        BY <1>1 DEF Commit, Typed
      <3>2. QED BY <2>1, <2>2, <3>1 DEF Feeding, Observed
    <2>4. ReadInOrder' /\ Notified'
      BY <2>1 DEF Feeding, ReadInOrder, Notified
    <2>5. QED BY <2>3, <2>4 DEF Feeding
  <1>2. ASSUME NEW again \in BOOLEAN, Announce(again) PROVE Feeding'
    <2> DEFINE s == Len(log)
               others == {t \in unread : log[t] # log[s]}
               calls == observer /\ others = {} /\ (unread = {} \/ again)
    <2>1. /\ announced < s /\ announced' = s /\ log' = log
          /\ unread' = (IF observer THEN others \cup {s} ELSE unread) /\ notify' = (notify /\ ~calls)
          /\ mailbox' = (IF calls /\ notify THEN Enqueue("dbHasNewChanges") ELSE mailbox)
          /\ UNCHANGED <<observer, maxSequence, feedCaughtUp, flags, pc, locals>>
      BY <1>2 DEF Announce
    <2>2. s \in Nat /\ announced \in Nat /\ maxSequence \in 0 .. s /\ unread \subseteq 1 .. announced /\ start \in 0 .. s
      BY DEF Typed
    <2>3. \A t : Current(t)' <=> Current(t)
      BY <2>1 DEF Current
    <2>4. observer \in BOOLEAN /\ notify \in BOOLEAN /\ feedCaughtUp \in BOOLEAN
      BY DEF Typed
    <2>5. ASSUME NEW t \in unread, Current(t) PROVE t \in others
      <3>1. s \in t + 1 .. Len(log)
        BY <2>1, <2>2
      <3>2. QED BY <2>5, <3>1 DEF Current
    <2>6. mailbox'["dbHasNewChanges"] = 0 => ~(calls /\ notify) /\ mailbox["dbHasNewChanges"] = 0
      <3>1. Enqueue("dbHasNewChanges")["dbHasNewChanges"] = mailbox["dbHasNewChanges"] + 1 /\ mailbox["dbHasNewChanges"] \in Nat
        BY TypedEnqueue DEF Typed, Methods
      <3> HIDE DEF calls
      <3>2. QED BY <2>1, <3>1
    <2>7. others \subseteq unread /\ (unread = {} => others = {})
      OBVIOUS
    <2> HIDE DEF s, others
    <2>8. s = announced + 1
      BY <2>1, <2>2 DEF Feeding, Observed, s
    <2>9. Observed'
      <3>1. ASSUME feedCaughtUp, NEW t \in maxSequence + 1 .. announced', Current(t)
            PROVE  t \in unread' \/ (pc = "observing" /\ t \in Elements(todo))
        <4>1. observer
          BY <3>1 DEF Feeding, Observed
        <4>2. unread' = others \cup {s}
          BY <2>1, <4>1
        <4>3. CASE t = s
          BY <4>2, <4>3
        <4>4. CASE t # s
          <5>1. t \in maxSequence + 1 .. announced
            BY <2>1, <2>2, <2>8, <4>4
          <5>2. t \in unread \/ (pc = "observing" /\ t \in Elements(todo))
            BY <3>1, <5>1 DEF Feeding, Observed
          <5>3. QED BY <2>5, <3>1, <4>2, <5>2
        <4>5. QED BY <4>3, <4>4
      <3>2. Len(log') <= announced' + 1
        BY <2>1, <2>2 DEF s
      <3>3. QED BY <2>1, <2>3, <3>1, <3>2 DEF Feeding, Observed
    <2>10. ASSUME pc = "observing" PROVE ReadInOrder'
      <3>1. /\ start <= maxSequence /\ (maxSequence = start \/ maxSequence <= announced)
            /\ Increasing(todo) /\ Elements(todo) \subseteq 1 .. announced
            /\ \A x \in Elements(todo) \cup unread : x <= start \/ x > maxSequence
            /\ \A x \in unread : \A y \in Elements(todo) : y < x
        BY <2>10 DEF Feeding, ReadInOrder
      <3>2. unread' \subseteq unread \cup {s}
        BY <2>1, <2>7
      <3>3. s <= start \/ s > maxSequence
        BY <2>1, <2>2, <3>1
      <3>4. \A y \in Elements(todo) : y < s
        BY <2>1, <2>2, <3>1
      <3>5. maxSequence <= announced => maxSequence <= announced'
        BY <2>2, <2>8, <2>1
      <3>6. Elements(todo) \subseteq 1 .. announced'
        BY <2>1, <2>2, <3>1
      <3>7. (\A x \in Elements(todo) \cup unread' : x <= start \/ x > maxSequence)
        BY <3>1, <3>2, <3>3
      <3>8. (\A x \in unread' : \A y \in Elements(todo) : y < x)
        BY <3>1, <3>2, <3>4
      <3>9. QED BY <2>1, <3>1, <3>5, <3>6, <3>7, <3>8 DEF ReadInOrder
    <2>11. ReadInOrder'
      BY <2>1, <2>10 DEF ReadInOrder
    <2>12. Notified'
      <3>1. ASSUME pc \notin {"reading", "observing"}, caughtUp, continuousCaughtUp, mailbox'["dbHasNewChanges"] = 0
            PROVE  unread' = {} /\ notify'
        <4>1. unread = {} /\ notify
          BY <2>6, <3>1 DEF Feeding, Notified
        <4>2. observer
          BY <3>1 DEF Feeding, Observed
        <4>3. QED BY <2>6, <2>7, <3>1, <4>1, <4>2
      <3>2. ASSUME pc = "observing", mailbox'["dbHasNewChanges"] = 0 PROVE notify'
        <4>1. notify
          BY <2>6, <3>2 DEF Feeding, Notified
        <4> HIDE DEF calls
        <4>2. QED BY <2>1, <2>6, <3>2, <4>1
      <3>3. QED BY <2>1, <3>1, <3>2 DEF Notified
    <2>13. QED BY <2>9, <2>11, <2>12 DEF Feeding
  <1>3. QED BY <1>1, <1>2 DEF Writer

LEMMA FeedingGets ==
    ASSUME Typed, Locals, Feeding, SendsAll, Getting
    PROVE  Feeding' /\ Locals' /\ SendsAll' /\ GetsMore'
  <1> USE DEF db, feed, flags, docs, revs, retries, locals
  <1>1. PICK b \in BOOLEAN :
          /\ MaybeGetMoreChanges(b) /\ pc = "idle"
          /\ UNCHANGED <<db, unread, notify, maxSequence, feedCaughtUp, caughtUp, docs, revs, retries, locals>>
          /\ b => b = continuousCaughtUp /\ mailbox'["dbHasNewChanges"] = mailbox["dbHasNewChanges"]
    <2>1. CASE HandleMaybeGetMoreChanges
      <3>1. mailbox'["dbHasNewChanges"] = mailbox["dbHasNewChanges"]
        BY <2>1 DEF HandleMaybeGetMoreChanges, Typed, Methods
      <3>2. QED BY <2>1, <3>1 DEF HandleMaybeGetMoreChanges, Ready, Typed
    <2>2. CASE DBHasNewChanges
      BY <2>2 DEF DBHasNewChanges, Ready
    <2>3. QED BY <2>1, <2>2 DEF Getting
  <1>2. \/ continuousCaughtUp' = TRUE /\ observer' = TRUE /\ pc' = "reading"
        \/ /\ ~caughtUp \/ ~b => lists # {} \/ Len(queue) >= MaxQueued
           /\ continuousCaughtUp' = b /\ UNCHANGED <<observer, pc>>
    <2>1. lists = {} => Cardinality(lists) < (IF caughtUp THEN 1 ELSE MaxLists)
      <3>1. Cardinality({}) = 0
        BY FS_EmptySet
      <3>2. MaxLists \in Nat \ {0}
        BY PusherAssumption
      <3>3. QED BY <3>1, <3>2
    <2>2. Len(queue) \in Nat /\ MaxQueued \in Nat
      BY PusherAssumption DEF Typed
    <2>3. QED BY <1>1, <2>1, <2>2 DEF MaybeGetMoreChanges
  <1>3. \A s : Current(s)' <=> Current(s)
    BY <1>1 DEF Current
  <1>4. Observed'
    BY <1>1, <1>2, <1>3 DEF Feeding, Observed
  <1>5. ReadInOrder'
    BY <1>1, <1>2 DEF ReadInOrder
  <1>6. Notified'
    BY <1>1, <1>2 DEF Feeding, Notified
  <1>7. Locals'
    BY <1>1, <1>2 DEF Locals
  <1>8. SendsAll'
    BY <1>1, StillSends
  <1>9. GetsMore'
    BY <1>1, <1>2 DEF GetsMore
  <1>10. QED BY <1>4, <1>5, <1>6, <1>7, <1>8, <1>9 DEF Feeding

LEMMA FeedingFeed ==
    ASSUME Typed, Locals, Feeding, ChangesFeed
    PROVE  Feeding'
  <1> USE DEF db, feed, flags, docs, revs, retries, locals
  <1>1. CASE GetHistoricalChanges
    <2>1. /\ pc = "reading" /\ ~feedCaughtUp /\ pc' = "got" /\ continuousCaughtUp' = FALSE
          /\ feedCaughtUp' => \A s \in maxSequence' + 1 .. Len(log) : ~Current(s)
          /\ UNCHANGED <<db, observer, unread, notify, caughtUp, mailbox>> /\ maxSequence' \in 0 .. Len(log)
      BY <1>1, HistoricalIs
    <2>2. \A s : Current(s)' <=> Current(s)
      BY <2>1 DEF Current
    <2>3. announced \in Nat /\ announced <= Len(log) /\ Len(log) \in Nat /\ maxSequence' \in Nat
      BY <2>1 DEF Typed
    <2>4. ASSUME feedCaughtUp', NEW s, s \in maxSequence' + 1 .. announced PROVE ~Current(s)
      <3>0. \A a, b, c \in Nat : b <= c => a + 1 .. b \subseteq a + 1 .. c
        OBVIOUS
      <3> DEFINE m == maxSequence'
                 n == Len(log)
      <3>1. s \in m + 1 .. n
        <4>1. m \in Nat /\ n \in Nat /\ announced \in Nat /\ announced <= n /\ s \in m + 1 .. announced
          BY <2>3, <2>4
        <4> HIDE DEF m, n
        <4>2. QED BY <3>0, <4>1
      <3>2. QED BY <2>1, <2>4, <3>1
    <2>5. Observed'
      BY <2>1, <2>2, <2>4 DEF Feeding, Observed
    <2>6. QED BY <2>1, <2>5 DEF Feeding, ReadInOrder, Notified
  <1>2. CASE GetObservedChanges
    <2>1. /\ pc = "reading" /\ feedCaughtUp /\ notify' = TRUE /\ pc' = "observing" /\ start' = maxSequence
          /\ UNCHANGED <<db, observer, unread, maxSequence, feedCaughtUp, flags, mailbox, todo>>
      BY <1>2 DEF GetObservedChanges
    <2>2. \A s : Current(s)' <=> Current(s)
      BY <2>1 DEF Current
    <2>3. todo = << >> /\ Elements(todo) = {} /\ Elements(todo') = {}
      BY <2>1, EmptyElements DEF Locals
    <2>4. Observed'
      BY <2>1, <2>2, <2>3 DEF Feeding, Observed
    <2>5. maxSequence \in Nat /\ \A x \in unread : x \in Nat
      BY DEF Typed
    <2>6. Increasing(todo')
      BY <2>1, <2>3 DEF Increasing
    <2>7. ReadInOrder'
      BY <2>1, <2>3, <2>5, <2>6 DEF ReadInOrder
    <2>8. QED BY <2>1, <2>4, <2>7 DEF Feeding, Notified
  <1>3. CASE ReadObserver
    <2>1. PICK read \in SUBSET unread :
              /\ pc = "observing" /\ todo = << >> /\ unread' = unread \ read
              /\ Elements(todo') = read /\ Increasing(todo')
              /\ \A x \in unread' : \A y \in read : y < x
              /\ UNCHANGED <<db, observer, notify, maxSequence, feedCaughtUp, flags, mailbox, pc, start>>
      BY <1>3, ReadObserverIs
    <2>2. \A s : Current(s)' <=> Current(s)
      BY <2>1 DEF Current
    <2>3. Elements(todo) = {} /\ unread \subseteq 1 .. announced
      BY <2>1, EmptyElements DEF Typed
    <2>4. Observed'
      BY <2>1, <2>2, <2>3 DEF Feeding, Observed
    <2>5. ReadInOrder'
      BY <2>1, <2>3 DEF Feeding, ReadInOrder
    <2>6. QED BY <2>1, <2>4, <2>5 DEF Feeding, Notified
  <1>4. ASSUME NEW push \in BOOLEAN, ObserveChange(push) PROVE Feeding'
    <2> DEFINE h == Head(todo)
    <2>1. /\ pc = "observing" /\ todo # << >> /\ h \in Known
          /\ todo' = Tail(todo) /\ Elements(todo) = {h} \cup Elements(todo')
          /\ maxSequence' = IF h <= start THEN maxSequence ELSE h
          /\ UNCHANGED <<db, observer, unread, notify, feedCaughtUp, flags, mailbox, pc, start>>
      BY <1>4, ObserveChangeIs
    <2>2. \A s : Current(s)' <=> Current(s)
      BY <2>1 DEF Current
    <2>3. /\ start <= maxSequence /\ (maxSequence = start \/ maxSequence <= announced)
          /\ Increasing(todo) /\ Elements(todo) \subseteq 1 .. announced
          /\ \A x \in Elements(todo) \cup unread : x <= start \/ x > maxSequence
          /\ \A x \in unread : \A y \in Elements(todo) : y < x
      BY <2>1 DEF Feeding, ReadInOrder
    <2>4. Increasing(Tail(todo)) /\ \A y \in Elements(Tail(todo)) : h < y
      <3>1. todo \in Seq(Nat)
        BY SeqGrows, KnownRevs DEF Typed
      <3>2. QED BY <2>1, <2>3, <3>1, IncreasingTail
    <2>5. Increasing(todo') /\ \A y \in Elements(todo') : h < y
      BY <2>1, <2>4
    <2> HIDE DEF h
    <2>6. h \in 1 .. announced /\ start \in Nat /\ maxSequence \in Nat /\ announced \in Nat /\ unread \subseteq 1 .. announced
      BY <2>1, <2>3 DEF Typed
    <2>7. ASSUME feedCaughtUp, NEW s \in maxSequence' + 1 .. announced, Current(s)
          PROVE  s \in unread \/ s \in Elements(todo')
      <3>1. s \in maxSequence + 1 .. announced /\ s # h
        BY <2>1, <2>3, <2>6
      <3>2. s \in unread \/ s \in Elements(todo)
        BY <2>7, <3>1 DEF Feeding, Observed
      <3>3. QED BY <2>1, <3>1, <3>2
    <2>8. Observed'
      BY <2>1, <2>2, <2>7 DEF Feeding, Observed
    <2>9. /\ start <= maxSequence' /\ (maxSequence' = start \/ maxSequence' <= announced)
      BY <2>1, <2>3, <2>6
    <2>10. ASSUME NEW x \in Elements(todo') \cup unread PROVE x <= start \/ x > maxSequence'
      <3>1. x > h
        BY <2>1, <2>3, <2>5, <2>6
      <3>2. x <= start \/ x > maxSequence
        BY <2>1, <2>3
      <3>3. QED BY <2>1, <3>1, <3>2
    <2>11. Elements(todo') \subseteq Elements(todo)
      BY <2>1
    <2>12. ReadInOrder'
      BY <2>1, <2>3, <2>5, <2>9, <2>10, <2>11 DEF ReadInOrder
    <2>13. Notified'
      BY <2>1 DEF Feeding, Notified
    <2>14. QED BY <2>8, <2>12, <2>13 DEF Feeding
  <1>5. CASE ObservedAll
    <2> DEFINE full == Len(kept) = BatchSize
    <2>1. /\ pc = "observing" /\ todo = << >> /\ (full \/ unread = {})
          /\ notify' = (notify /\ ~full) /\ caughtUp' = (caughtUp \/ ~full)
          /\ continuousCaughtUp' = (continuousCaughtUp /\ caughtUp /\ ~full)
          /\ pc' = "got"
          /\ UNCHANGED <<db, observer, unread, maxSequence, feedCaughtUp, mailbox>>
      BY <1>5 DEF ObservedAll
    <2> HIDE DEF full
    <2>2. \A s : Current(s)' <=> Current(s)
      BY <2>1 DEF Current
    <2>3. Elements(todo) = {}
      BY <2>1, EmptyElements
    <2>4. Observed'
      BY <2>1, <2>2, <2>3 DEF Feeding, Observed
    <2>5. ReadInOrder'
      BY <2>1 DEF ReadInOrder
    <2>6. Notified'
      BY <2>1 DEF Feeding, Notified
    <2>7. QED BY <2>4, <2>5, <2>6 DEF Feeding
  <1>6. QED BY <1>1, <1>2, <1>3, <1>4, <1>5 DEF ChangesFeed

-----------------------------------------------------------------------------
(***************************************************************************)
(* The invariant is inductive.                                             *)
(***************************************************************************)
LEMMA WriterKeeps ==
    ASSUME Typed, Locals, SendsAll, GetsMore, Writer
    PROVE  Locals' /\ SendsAll' /\ GetsMore'
  <1> USE DEF db, feed, flags, docs, revs, retries, locals
  <1>1. UNCHANGED <<flags, lists, revs, pc, locals>>
    BY DEF Writer, Commit, Announce
  <1>2. mailbox'["maybeGetMoreChanges"] = mailbox["maybeGetMoreChanges"]
    <2>1. Enqueue("dbHasNewChanges")["maybeGetMoreChanges"] = mailbox["maybeGetMoreChanges"]
      BY TypedEnqueue DEF Methods
    <2>2. mailbox' = mailbox \/ mailbox' = Enqueue("dbHasNewChanges")
      BY DEF Writer, Commit, Announce
    <2>3. QED BY <2>1, <2>2
  <1>3. QED BY <1>1, <1>2 DEF Locals, SendsAll, CanSend, GetsMore

LEMMA FeedKeeps ==
    ASSUME Typed, Locals, SendsAll, ChangesFeed
    PROVE  Locals' /\ SendsAll' /\ GetsMore'
  <1> USE DEF db, feed, flags, docs, revs, retries, locals
  <1>1. UNCHANGED revs /\ pc \in {"reading", "observing"} /\ pc' \in {"observing", "got"}
    BY DEF ChangesFeed, GetHistoricalChanges, GetObservedChanges, ReadObserver, ObserveChange, ObservedAll
  <1>2. SendsAll'
    BY <1>1, StillSends
  <1>3. QED BY <1>1, <1>2 DEF Locals, GetsMore

LEMMA InitIInv == Init => IInv
  <1> SUFFICES ASSUME Init PROVE IInv
    OBVIOUS
  <1>1. PICK n \in 0 .. MaxSequence : log \in [1 .. n -> Docs]
    BY DEF Init
  <1>2. log \in Seq(Docs) /\ Len(log) = n /\ n \in Nat /\ MaxSequence \in Nat
    BY <1>1, PusherAssumption
  <1>3. Known = 1 .. n /\ completed \subseteq Known /\ << >> \in Seq(Known)
    BY <1>2 DEF Known, Init
  <1>4. maxSequence \in 0 .. n /\ 1 .. maxSequence \subseteq completed
    <2> DEFINE S == {m \in 0 .. n : 1 .. m \subseteq completed}
    <2>1. S \in SUBSET (0 .. n)
      OBVIOUS
    <2>2. 0 \in S
      BY <1>2
    <2>3. maxSequence = Greatest(S)
      BY <1>2 DEF Init
    <2> HIDE DEF S
    <2>4. maxSequence \in S
      BY <1>2, <2>1, <2>2, <2>3, GreatestIs
    <2>5. QED BY <2>4 DEF S
  <1>5. Typed
    <2>1. mailbox \in [Methods -> Nat]
      BY DEF Init, Methods
    <2>2. fate \in [Revs -> Fates]
      BY DEF Init, Fates
    <2>3. /\ pushing \in [Docs -> Known \cup {0}] /\ nextRev \in [Revs -> Known \cup {0}] /\ mightRetry \in [Docs -> Known \cup {0}]
      BY DEF Init
    <2>4. /\ log \in Seq(Docs) /\ Len(log) \in 0 .. MaxSequence /\ announced \in 0 .. Len(log)
          /\ unread \subseteq 1 .. announced /\ maxSequence \in 0 .. Len(log) /\ start \in 0 .. Len(log)
      BY <1>2, <1>4 DEF Init
    <2>5. /\ skipped \subseteq Docs /\ observer \in BOOLEAN /\ notify \in BOOLEAN /\ feedCaughtUp \in BOOLEAN
          /\ caughtUp \in BOOLEAN /\ continuousCaughtUp \in BOOLEAN /\ pc \in Places
      BY DEF Init, Places
    <2>6. /\ lists \subseteq Seq(Known) /\ queue \in Seq(Known) /\ toRetry \in Seq(Known) /\ todo \in Seq(Known) /\ kept \in Seq(Known)
          /\ flying \subseteq Known /\ awaiting \subseteq Known /\ retryCount \subseteq Known /\ noDelta \subseteq Known
      BY <1>3 DEF Init
    <2>7. QED BY <1>3, <2>1, <2>2, <2>3, <2>4, <2>5, <2>6 DEF Typed
  <1>6. Locals
    BY DEF Init, Locals
  <1>7. Work
    <2>1. PushingInWork /\ HoldersInWork /\ RetriedDocs
      BY DEF Init, PushingInWork, HoldersInWork, RetriedDocs
    <2>2. Read \subseteq completed
      BY <1>4 DEF Read, Init
    <2>3. QED BY <2>1, <2>2 DEF Work, AllAccounted
  <1>8. Observed /\ ReadInOrder
    BY <1>2 DEF Init, Observed, ReadInOrder
  <1>9. Woken
    <2>1. SendsAll
      BY DEF Init, SendsAll, CanSend
    <2>2. GetsMore
      BY DEF Init, GetsMore
    <2>3. Notified
      BY DEF Init, Notified
    <2>4. QED BY <2>1, <2>2, <2>3 DEF Woken
  <1>10. QED BY <1>5, <1>6, <1>7, <1>8, <1>9 DEF IInv

Steps == Writer \/ ChangesFeed \/ Handler \/ Peer

LEMMA NextIInv == IInv /\ [Steps]_vars => IInv'
  <1> SUFFICES ASSUME IInv, [Steps]_vars PROVE IInv'
    OBVIOUS
  <1>0. Typed /\ Locals /\ Work /\ Feeding /\ SendsAll /\ GetsMore
    BY DEF IInv, Woken, Feeding
  <1>1. SUFFICES Typed' /\ Locals' /\ Work' /\ Feeding' /\ SendsAll' /\ GetsMore'
    BY DEF IInv, Woken, Feeding
  <1>2. CASE Writer
    <2>1. Typed'
      BY <1>0, <1>2, TypedCommit, TypedAnnounce DEF Writer
    <2>2. QED BY <1>0, <1>2, <2>1, WorkWriter, FeedingWriter, WriterKeeps
  <1>3. CASE ChangesFeed
    BY <1>0, <1>3, TypedFeed, WorkFeed, FeedingFeed, FeedKeeps
  <1>4. CASE Handler
    <2>1. Typed' /\ Work'
      BY <1>0, <1>4, TypedHandler, WorkHandler
    <2>2. CASE Getting
      BY <1>0, <2>1, <2>2, FeedingGets
    <2>3. CASE ~Getting
      <3>1. GoesOn
        BY <1>0, <1>4, <2>3, GoingOnHandles
      <3>2. Feeding'
        BY <1>0, <3>1, FeedingAside DEF GoesOn
      <3>3. QED BY <2>1, <3>1, <3>2 DEF GoesOn
    <2>4. QED BY <2>2, <2>3
  <1>5. CASE Peer
    <2>1. Typed' /\ Work'
      BY <1>0, <1>5, TypedPeer, WorkPeer
    <2>2. GoesOn
      BY <1>0, <1>5, GoingOnPeer
    <2>3. Feeding'
      BY <1>0, <2>2, FeedingAside DEF GoesOn
    <2>4. QED BY <2>1, <2>2, <2>3 DEF GoesOn
  <1>6. CASE UNCHANGED vars
    <2> USE DEF vars, db, feed, flags, docs, revs, retries, locals
    <2>1. Known' = Known /\ InWork' = InWork /\ Read' = Read /\ CanSend' = CanSend /\ \A s : Current(s)' <=> Current(s)
      BY <1>6 DEF Known, InWork, Read, CanSend, Current
    <2>2. Typed'
      BY <1>0, <1>6, <2>1 DEF Typed
    <2>3. Locals'
      BY <1>0, <1>6 DEF Locals
    <2>4. Work'
      BY <1>0, <1>6, <2>1 DEF Work, PushingInWork, HoldersInWork, RetriedDocs, AllAccounted, Accounted
    <2>5. Feeding'
      <3>1. Observed'
        BY <1>0, <1>6, <2>1 DEF Feeding, Observed
      <3>2. ReadInOrder'
        BY <1>0, <1>6 DEF Feeding, ReadInOrder
      <3>3. Notified'
        BY <1>0, <1>6 DEF Feeding, Notified
      <3>4. QED BY <3>1, <3>2, <3>3 DEF Feeding
    <2>6. SendsAll' /\ GetsMore'
      BY <1>0, <1>6, <2>1 DEF SendsAll, GetsMore
    <2>7. QED BY <2>2, <2>3, <2>4, <2>5, <2>6
  <1>7. QED BY <1>2, <1>3, <1>4, <1>5, <1>6 DEF Steps

(* A feed that fails leaves everything well typed. *)
LEMMA TypedFailure ==
    ASSUME Typed, Failure
    PROVE  Typed' /\ feedFailed'
  <1> USE DEF db, feed, flags, docs, revs, retries, locals
  <1>1. PICK last \in 0 .. MaxSequence, threw \in BOOLEAN : FeedFailed(last, threw)
    BY DEF Failure
  <1> DEFINE found == {s \in maxSequence + 1 .. Len(log) : Current(s)}
  <1>2. PICK pending :
           /\ last \in found \cup {maxSequence} /\ maxSequence' = last /\ pc' = "idle" /\ feedFailed' = TRUE
           /\ completed' = (completed \cup (maxSequence + 1 .. last)) \ pending /\ feedCaughtUp' \in BOOLEAN
           /\ UNCHANGED <<db, observer, unread, notify, flags, mailbox, docs, revs, retries, locals, fate>>
    BY <1>1 DEF FeedFailed, AddPendingSequences
  <1>3. last \in 0 .. Len(log) /\ Known' = Known
    BY <1>2 DEF Typed, Known
  <1>4. completed' \subseteq Known
    <2>1. maxSequence \in 0 .. Len(log) /\ Len(log) \in Nat /\ completed \subseteq Known
      BY DEF Typed
    <2>2. maxSequence + 1 .. last \subseteq Known
      BY <1>3, <2>1 DEF Known
    <2>3. QED BY <1>2, <2>1, <2>2
  <1>5. QED BY <1>2, <1>3, <1>4 DEF Typed, Places

(* The other steps do not say that the feed has failed. *)
LEMMA StillWorks ==
    ASSUME [Steps]_vars
    PROVE  feedFailed' = feedFailed
  <1>1. CASE Writer
    BY <1>1 DEF Writer, Commit, Announce
  <1>2. CASE ChangesFeed
    BY <1>2 DEF ChangesFeed, GetHistoricalChanges, GetObservedChanges, ReadObserver, ObserveChange, ObservedAll
  <1>3. CASE Handler
    BY <1>3 DEF Handler, HandleMaybeGetMoreChanges, DBHasNewChanges, HandleMaybeSendMoreRevs, GotChange, SendChanges, DropRev,
                WantRev, DontWantRev, ProposeAgain, Conflict, SendRevision, SendNoRev, RetryRevs
  <1>4. CASE Peer
    BY <1>4 DEF Peer, ChangesReply, ListRefused, RevTransmitted, RevReply, RetryLater, RetryNow, RemoteAncestorChanged
  <1>5. CASE UNCHANGED vars
    BY <1>5 DEF vars
  <1>6. QED BY <1>1, <1>2, <1>3, <1>4, <1>5 DEF Steps

LEMMA TypedNext == Typed /\ [Next]_vars => Typed'
  <1> SUFFICES ASSUME Typed, [Next]_vars PROVE Typed'
    OBVIOUS
  <1>1. CASE UNCHANGED vars
    <2>1. Known' = Known
      BY <1>1 DEF vars, db, Known
    <2>2. QED BY <1>1, <2>1 DEF Typed, vars, db, feed, flags, docs, revs, retries, locals
  <1>2. QED BY <1>1, TypedCommit, TypedAnnounce, TypedFeed, TypedHandler, TypedPeer, TypedFailure DEF Next, Writer

(* What holds of every behaviour: the types, and the rest until the feed   *)
(* fails.                                                                  *)
Inv == Typed /\ feedFailed \in BOOLEAN /\ (feedFailed \/ IInv)

LEMMA InitInv == Init => Inv
  <1> SUFFICES ASSUME Init PROVE Inv
    OBVIOUS
  <1>1. IInv
    BY InitIInv
  <1>2. QED BY <1>1 DEF Init, Inv, IInv

LEMMA NextInv == Inv /\ [Next]_vars => Inv'
  <1> SUFFICES ASSUME Inv, [Next]_vars PROVE Inv'
    OBVIOUS
  <1>1. Typed /\ Typed'
    BY TypedNext DEF Inv
  <1>2. CASE Failure
    <2>1. feedFailed' = TRUE
      BY <1>2 DEF Failure, FeedFailed
    <2>2. QED BY <1>1, <2>1 DEF Inv
  <1>3. CASE [Steps]_vars
    <2>1. feedFailed' = feedFailed
      BY <1>3, StillWorks
    <2>2. IInv => IInv'
      BY <1>3, NextIInv
    <2>3. QED BY <1>1, <2>1, <2>2 DEF Inv
  <1>4. QED BY <1>2, <1>3 DEF Next, Steps

(* The inductive invariant holds of every behaviour of the Pusher, its     *)
(* feed and the writers: gotChanges(), doneWithRev(), the observer and the *)
(* calls that make room never leave it, until the feed returns an error.   *)
THEOREM Invariance == Spec => []Inv
  <1>1. QED BY InitInv, NextInv, PTL DEF Spec

(* No sequence stays pending for ever: _pushingDocs, RevToSend::nextRev    *)
(* and the retries never lose a revision that was read and not completed.  *)
THEOREM NothingIsStranded == Spec => []NothingStranded
  <1>1. Inv => NothingStranded
    <2> SUFFICES ASSUME Inv PROVE NothingStranded
      OBVIOUS
    <2>0. Typed /\ feedFailed \in BOOLEAN
      BY DEF Inv
    <2>1. Known \subseteq Revs /\ Len(log) \in Nat /\ MaxSequence \in Nat
      BY <2>0, KnownRevs
    <2>2. TypeOK
      <3>1. Len(log) \in 0 .. MaxSequence /\ Elements(log) \subseteq Docs /\ announced \in 0 .. Len(log)
        BY <2>0, ElementsOf DEF Typed
      <3>2. unread \subseteq Revs /\ maxSequence \in 0 .. MaxSequence /\ start \in 0 .. MaxSequence
        BY <2>0, <2>1 DEF Typed, Revs
      <3>3. \A l \in lists : Elements(l) \subseteq Revs
        <4>1. ASSUME NEW l \in lists PROVE Elements(l) \subseteq Revs
          <5>1. l \in Seq(Known)
            BY <2>0 DEF Typed
          <5>2. QED BY <2>1, <5>1, ElementsOf
        <4>2. QED BY <4>1
      <3>4. \A q \in {queue, toRetry, todo, kept} : Elements(q) \subseteq Revs
        <4>1. ASSUME NEW q \in {queue, toRetry, todo, kept} PROVE Elements(q) \subseteq Revs
          <5>1. q \in Seq(Known)
            BY <2>0 DEF Typed
          <5>2. QED BY <2>1, <5>1, ElementsOf
        <4>2. QED BY <4>1
      <3>5. \A S \in {flying, awaiting, retryCount, noDelta, completed} : S \subseteq Revs
        BY <2>0, <2>1 DEF Typed
      <3>6. pushing \in [Docs -> Revs \cup {0}] /\ nextRev \in [Revs -> Revs \cup {0}] /\ mightRetry \in [Docs -> Revs \cup {0}]
        BY <2>0, <2>1 DEF Typed
      <3>7. /\ mailbox \in [{"maybeGetMoreChanges", "dbHasNewChanges", "maybeSendMoreRevs"} -> Nat]
            /\ pc \in {"idle", "reading", "observing", "got", "replying", "failing", "sending"}
            /\ fate \in [Revs -> {"none", "pushed", "transient", "dropped", "permanent", "conflict"}]
        BY <2>0 DEF Typed, Methods, Places, Fates
      <3>8. /\ skipped \subseteq Docs /\ observer \in BOOLEAN /\ notify \in BOOLEAN /\ feedCaughtUp \in BOOLEAN
            /\ caughtUp \in BOOLEAN /\ continuousCaughtUp \in BOOLEAN
        BY <2>0 DEF Typed
      <3>9. QED BY <2>0, <3>1, <3>2, <3>3, <3>4, <3>5, <3>6, <3>7, <3>8 DEF TypeOK
    <2>3. InWork \subseteq Working
      <3> DEFINE U == UNION {Elements(l) : l \in lists}
      <3>1. /\ InWork = U \cup Elements(queue) \cup flying \cup awaiting
                        \cup (IF pc \in {"replying", "failing"} THEN Elements(todo) ELSE {})
                        \cup (IF pc = "got" THEN Elements(kept) ELSE {})
            /\ Working = U \cup Elements(queue) \cup flying \cup awaiting \cup Elements(todo) \cup Elements(kept)
        BY DEF InWork, Working
      <3> HIDE DEF U
      <3>2. QED BY <3>1
    <2>4. Elements(todo) \subseteq Working
      BY DEF Working
    <2>5. ASSUME ~feedFailed, NEW s \in Read \ completed
          PROVE  s \in Working \cup HeldBack \cup Elements(toRetry) \/ fate[s] \in {"transient", "dropped"}
      <3>0. Work
        BY <2>5 DEF Inv, IInv
      <3>1. Accounted(s)
        BY <3>0 DEF Work, AllAccounted
      <3>2. ASSUME NEW x \in Revs, nextRev[x] = s PROVE s \in HeldBack
        <4>1. s # 0
          BY DEF Read
        <4>2. x \in Working
          BY <2>3, <3>0, <3>2, <4>1 DEF Work, HoldersInWork
        <4>3. QED BY <3>2, <4>1, <4>2 DEF HeldBack
      <3>3. QED BY <2>3, <2>4, <3>1, <3>2 DEF Accounted
    <2>6. QED BY <2>2, <2>5 DEF NothingStranded
  <1>2. QED BY <1>1, Invariance, PTL

(* No wake-up is lost: when no reply, no transmission and no message will  *)
(* call the Pusher, the ChangesFeed has read all that was announced, and   *)
(* the Pusher has nothing queued, to retry or in progress.                 *)
THEOREM NeverStalls == Spec => []NoStall
  <1>1. Inv => NoStall
    <2> SUFFICES ASSUME Inv, Quiet, ~MustRetry, ~feedFailed
                 PROVE  /\ \A s \in 1 .. announced : Current(s) => s \in Read
                        /\ queue = << >> /\ toRetry = << >>
                        /\ \A d \in Docs : pushing[d] = 0
      BY DEF NoStall
    <2>0. Typed /\ Locals /\ Work /\ Observed /\ Woken
      BY DEF Inv, IInv
    <2>1. pc = "idle" /\ lists = {} /\ flying = {} /\ awaiting = {}
      BY DEF Quiet
    <2>2. DOMAIN mailbox = Methods
      BY <2>0 DEF Typed
    <2>3. \A method \in Methods : mailbox[method] = 0
      BY <2>2 DEF Quiet
    <2>4. mailbox["maybeGetMoreChanges"] = 0 /\ mailbox["dbHasNewChanges"] = 0
      BY <2>3 DEF Methods
    <2>5. queue = << >>
      <3>1. Cardinality(flying) = 0 /\ Cardinality(awaiting) = 0
        BY <2>1, FS_EmptySet
      <3>2. MaxInFlight \in Nat \ {0} /\ MaxAwaiting \in Nat
        BY PusherAssumption
      <3>3. ~CanSend
        BY <2>0, <2>1 DEF Woken, SendsAll
      <3>4. QED BY <3>1, <3>2, <3>3 DEF CanSend
    <2>6. \A x : x \notin InWork
      <3>1. Elements(queue) = {}
        BY <2>5, EmptyElements
      <3>2. QED BY <2>1, <3>1, InWorkIs
    <2>7. \A d \in Docs : pushing[d] = 0
      BY <2>0, <2>6 DEF Work, PushingInWork
    <2>8. caughtUp /\ continuousCaughtUp
      <3>1. Len(queue) = 0 /\ MaxQueued \in Nat \ {0}
        BY <2>5, PusherAssumption
      <3>2. QED BY <2>0, <2>1, <2>4, <3>1 DEF Woken, GetsMore
    <2>9. unread = {}
      BY <2>0, <2>1, <2>4, <2>8 DEF Woken, Notified
    <2>10. ASSUME NEW s \in 1 .. announced, Current(s) PROVE s \in Read
      <3>1. announced \in Nat /\ maxSequence \in Nat
        BY <2>0 DEF Typed
      <3>2. s \notin maxSequence + 1 .. announced
        BY <2>0, <2>1, <2>8, <2>9, <2>10 DEF Observed
      <3>3. s \in 1 .. maxSequence
        BY <3>1, <3>2
      <3>4. QED BY <2>1, <3>3 DEF Read
    <2>11. ~Busy
      <3>1. \A method \in DOMAIN mailbox : ~(mailbox[method] > 0)
        BY <2>2, <2>3
      <3>2. QED BY <2>1, <2>5, <2>7, <2>8, <3>1 DEF Busy
    <2>12. toRetry = << >>
      BY <2>11 DEF MustRetry
    <2>13. QED BY <2>5, <2>7, <2>10, <2>12
  <1>2. QED BY <1>1, Invariance, PTL

-----------------------------------------------------------------------------
(***************************************************************************)
(* A revision that has not been refused once (retryCount) is in one place, *)
(* and there it is pending.                                                *)
(***************************************************************************)
PlaceNames == {"list", "queue", "flying", "awaiting", "replying", "kept", "got", "held", "might"}

At(p, x) ==
    \/ p = "list" /\ \E l \in lists : x \in Elements(l)
    \/ p = "queue" /\ x \in Elements(queue)
    \/ p = "flying" /\ x \in flying
    \/ p = "awaiting" /\ x \in awaiting
    \/ p = "replying" /\ pc \in {"replying", "failing"} /\ x \in Elements(todo)
    \/ p = "kept" /\ pc = "got" /\ x \in Elements(kept)
    \/ p = "got" /\ pc = "got" /\ x \in Elements(todo)
    \/ p = "held" /\ \E y \in Revs : nextRev[y] = x
    \/ p = "might" /\ \E d \in Docs : mightRetry[d] = x

Fresh == Known \ retryCount

OnePlace == \A x \in Fresh : \A p, q \in PlaceNames : At(p, x) /\ At(q, x) => p = q
Pending == \A x \in Fresh : \A p \in PlaceNames \ {"might"} : At(p, x) => x \notin completed
PlacesRead == \A x \in Fresh : \A p \in PlaceNames : At(p, x) => x \in Read

Placed == OnePlace /\ Pending /\ PlacesRead

(* Nor is it twice in that place. *)
Once(q, R) == \A i, j \in DOMAIN q : q[i] = q[j] /\ q[i] \notin R => i = j
ListsOnce(L, R) ==
    /\ \A l \in L : Once(l, R)
    /\ \A l, m \in L : \A x \in Elements(l) \cap Elements(m) : x \in R \/ l = m
HeldOnce(f, R) == \A y, z \in Revs : f[y] = f[z] /\ f[y] # 0 /\ f[y] \notin R => y = z
LocalsOnce ==
    /\ pc \in {"got", "replying", "failing"} => Once(todo, retryCount)
    /\ pc = "got" => Once(kept, retryCount)

OnceThere == ListsOnce(lists, retryCount) /\ Once(queue, retryCount) /\ LocalsOnce /\ HeldOnce(nextRev, retryCount)

(* gotChanges() goes through the changes of the feed in order, or through  *)
(* what is retried; each is later than what is held back.                  *)
GotInOrder ==
    pc = "got" =>
        /\ Increasing(todo) \/ Elements(todo) \subseteq retryCount
        /\ \A x \in Revs : \A y \in Elements(todo) : nextRev[x] < y \/ nextRev[x] \in retryCount

Retried == Elements(toRetry) \subseteq retryCount

(* The list that is read from the observer lacks only what need not be     *)
(* pushed.                                                                 *)
KeptAll ==
    pc = "observing" =>
        /\ Increasing(kept) /\ Elements(kept) \subseteq start + 1 .. maxSequence
        /\ \A s \in start + 1 .. maxSequence : Current(s) => s \in Elements(kept) \/ log[s] \in skipped

DInv == Placed /\ OnceThere /\ GotInOrder /\ Retried /\ KeptAll /\ PushedUpToCheckpoint

LEMMA FreshIs ==
    ASSUME Typed, NEW x \in Fresh
    PROVE  x \in Known /\ x \in Revs /\ x # 0 /\ x \notin retryCount /\ x \in Nat
  BY KnownRevs DEF Fresh

LEMMA StillFresh ==
    ASSUME log' = log, retryCount \subseteq retryCount'
    PROVE  Fresh' \subseteq Fresh
  BY DEF Fresh, Known

LEMMA OnceGrows ==
    ASSUME NEW R, NEW S, R \subseteq S, NEW q, Once(q, R)
    PROVE  Once(q, S)
  BY DEF Once

LEMMA OnceEmpty == ASSUME NEW R PROVE Once(<< >>, R)
  BY DEF Once

LEMMA OnceSingle == ASSUME NEW x, NEW R PROVE Once(<<x>>, R)
  BY DEF Once

LEMMA OnceIncreasing ==
    ASSUME NEW q \in Seq(Nat), Increasing(q), NEW R
    PROVE  Once(q, R)
  <1>1. ASSUME NEW i \in DOMAIN q, NEW j \in DOMAIN q, q[i] = q[j] PROVE i = j
    <2>1. i \in Nat /\ j \in Nat /\ q[i] \in Nat /\ q[j] \in Nat
      OBVIOUS
    <2>2. ~(i < j) /\ ~(j < i)
      BY <1>1, <2>1 DEF Increasing
    <2>3. QED BY <2>1, <2>2
  <1>2. QED BY <1>1 DEF Once

LEMMA OnceAll ==
    ASSUME NEW q, NEW R, Elements(q) \subseteq R
    PROVE  Once(q, R)
  BY DEF Once, Elements

LEMMA OnceTail ==
    ASSUME NEW S, NEW q \in Seq(S), q # << >>, NEW R, Once(q, R)
    PROVE  Once(Tail(q), R) /\ (Head(q) \in R \/ Head(q) \notin Elements(Tail(q)))
  <1> DEFINE r == Tail(q)
             n == Len(q)
  <1>1. DOMAIN r = 1 .. n - 1 /\ DOMAIN q = 1 .. n /\ n \in Nat \ {0}
    OBVIOUS
  <1>2. (\A i \in 1 .. n - 1 : r[i] = q[i + 1]) /\ Head(q) = q[1]
    OBVIOUS
  <1> HIDE DEF r, n
  <1>3. ASSUME NEW i \in DOMAIN r, NEW j \in DOMAIN r, r[i] = r[j], r[i] \notin R PROVE i = j
    <2>1. i + 1 \in DOMAIN q /\ j + 1 \in DOMAIN q /\ q[i + 1] = r[i] /\ q[j + 1] = r[j]
      BY <1>1, <1>2
    <2>2. i + 1 = j + 1
      BY <1>3, <2>1 DEF Once
    <2>3. QED BY <1>1, <2>2
  <1>4. ASSUME Head(q) \notin R, Head(q) \in Elements(r) PROVE FALSE
    <2>1. PICK i \in 1 .. n - 1 : r[i] = Head(q)
      BY <1>1, <1>4 DEF Elements
    <2>2. 1 \in DOMAIN q /\ i + 1 \in DOMAIN q /\ q[1] = q[i + 1] /\ q[1] \notin R
      BY <1>1, <1>2, <1>4, <2>1
    <2>3. 1 = i + 1
      BY <2>2 DEF Once
    <2>4. QED BY <2>1, <2>3
  <1>5. Once(r, R)
    BY <1>3 DEF Once
  <1>6. QED BY <1>4, <1>5 DEF r

LEMMA OnceAppend ==
    ASSUME NEW S, NEW q \in Seq(S), NEW x \in S, NEW R, Once(q, R), x \in R \/ x \notin Elements(q)
    PROVE  Once(Append(q, x), R)
  <1> DEFINE r == Append(q, x)
             n == Len(q)
  <1>1. DOMAIN r = 1 .. n + 1 /\ DOMAIN q = 1 .. n /\ n \in Nat
    OBVIOUS
  <1>2. (\A i \in 1 .. n : r[i] = q[i]) /\ r[n + 1] = x
    OBVIOUS
  <1> HIDE DEF r, n
  <1>3. ASSUME NEW i \in 1 .. n, q[i] = x PROVE x \in R
    BY <1>1, <1>3 DEF Elements
  <1>4. ASSUME NEW i \in DOMAIN r, NEW j \in DOMAIN r, r[i] = r[j], r[i] \notin R PROVE i = j
    <2>1. (i \in 1 .. n \/ i = n + 1) /\ (j \in 1 .. n \/ j = n + 1)
      BY <1>1
    <2>2. CASE i \in 1 .. n /\ j \in 1 .. n
      BY <1>1, <1>2, <1>4, <2>2 DEF Once
    <2>3. CASE i = n + 1 /\ j \in 1 .. n
      BY <1>2, <1>3, <1>4, <2>3
    <2>4. CASE i \in 1 .. n /\ j = n + 1
      BY <1>2, <1>3, <1>4, <2>4
    <2>5. QED BY <2>1, <2>2, <2>3, <2>4
  <1>5. Once(r, R)
    BY <1>4 DEF Once
  <1>6. QED BY <1>5 DEF r

LEMMA OnceCons ==
    ASSUME NEW S, NEW q \in Seq(S), NEW x \in S, NEW R, Once(q, R), x \in R \/ x \notin Elements(q)
    PROVE  Once(<<x>> \o q, R)
  <1> DEFINE r == <<x>> \o q
             n == Len(q)
  <1>1. DOMAIN r = 1 .. n + 1 /\ DOMAIN q = 1 .. n /\ n \in Nat
    OBVIOUS
  <1>2. (\A i \in 1 .. n : r[i + 1] = q[i]) /\ r[1] = x
    OBVIOUS
  <1> HIDE DEF r, n
  <1>3. ASSUME NEW i \in 1 .. n, q[i] = x PROVE x \in R
    BY <1>1, <1>3 DEF Elements
  <1>4. ASSUME NEW i \in DOMAIN r, i # 1 PROVE i - 1 \in 1 .. n /\ r[i] = q[i - 1]
    <2>1. i - 1 \in 1 .. n /\ (i - 1) + 1 = i
      BY <1>1, <1>4
    <2>2. QED BY <1>2, <2>1
  <1>5. ASSUME NEW i \in DOMAIN r, NEW j \in DOMAIN r, r[i] = r[j], r[i] \notin R PROVE i = j
    <2>1. CASE i = 1 /\ j = 1
      BY <2>1
    <2>2. CASE i = 1 /\ j # 1
      BY <1>2, <1>3, <1>4, <1>5, <2>2
    <2>3. CASE i # 1 /\ j = 1
      BY <1>2, <1>3, <1>4, <1>5, <2>3
    <2>4. CASE i # 1 /\ j # 1
      <3>1. i - 1 \in DOMAIN q /\ j - 1 \in DOMAIN q /\ q[i - 1] = q[j - 1] /\ q[i - 1] \notin R
        BY <1>1, <1>4, <1>5, <2>4
      <3>2. i - 1 = j - 1
        BY <3>1 DEF Once
      <3>3. QED BY <1>1, <3>2
    <2>5. QED BY <2>1, <2>2, <2>3, <2>4
  <1>6. Once(r, R)
    BY <1>5 DEF Once
  <1>7. QED BY <1>6 DEF r

LEMMA ListsGrow ==
    ASSUME NEW R, NEW S, R \subseteq S, NEW L, ListsOnce(L, R)
    PROVE  ListsOnce(L, S)
  BY DEF ListsOnce, Once

LEMMA ListsAdd ==
    ASSUME NEW L, NEW R, ListsOnce(L, R), NEW k, Once(k, R), \A x \in Elements(k) \ R : \A l \in L : x \notin Elements(l)
    PROVE  ListsOnce(L \cup {k}, R)
  <1>1. \A l \in L \cup {k} : Once(l, R)
    BY DEF ListsOnce
  <1>2. ASSUME NEW l \in L \cup {k}, NEW m \in L \cup {k}, NEW x \in Elements(l) \cap Elements(m), x \notin R
        PROVE  l = m
    <2>1. CASE l \in L /\ m \in L
      BY <1>2, <2>1 DEF ListsOnce
    <2>2. CASE l = k /\ m \in L
      BY <1>2, <2>2
    <2>3. CASE l \in L /\ m = k
      BY <1>2, <2>3
    <2>4. QED BY <2>1, <2>2, <2>3
  <1>3. QED BY <1>1, <1>2 DEF ListsOnce

(* How a step moves revisions between places. *)
Stays(x) == \A p \in PlaceNames : At(p, x)' => At(p, x)
Only(x, q) == \A p \in PlaceNames : At(p, x)' => p = q
Moves(x, p, q) == At(p, x) /\ Only(x, q) /\ (p = "might" => x \notin completed')
Arrives(x) == x \in Read' /\ x \notin completed' /\ \E q \in PlaceNames : Only(x, q)
Goes(x) ==
    \/ /\ Stays(x) \/ \E p, q \in PlaceNames : Moves(x, p, q)
       /\ x \in completed' => x \in completed \/ Only(x, "might")
    \/ Arrives(x)

LEMMA PlacedNext ==
    ASSUME Placed, Fresh' \subseteq Fresh, Read \subseteq Read', \A x \in Fresh' : Goes(x)
    PROVE  Placed'
  <1>1. ASSUME NEW x \in Fresh' PROVE \A p, q \in PlaceNames : At(p, x)' /\ At(q, x)' => p = q
    <2>1. CASE Stays(x)
      BY <2>1 DEF Stays, Placed, OnePlace
    <2>2. CASE \E p, q \in PlaceNames : Moves(x, p, q)
      BY <2>2 DEF Moves, Only
    <2>3. CASE Arrives(x)
      BY <2>3 DEF Arrives, Only
    <2>4. QED BY <2>1, <2>2, <2>3 DEF Goes
  <1>2. ASSUME NEW x \in Fresh', NEW p \in PlaceNames \ {"might"}, At(p, x)' PROVE x \notin completed'
    <2>1. ~Only(x, "might")
      BY <1>2 DEF Only
    <2>2. CASE Arrives(x)
      BY <2>2 DEF Arrives
    <2>3. CASE ~Arrives(x)
      <3>1. x \in completed' => x \in completed
        BY <2>1, <2>3 DEF Goes
      <3>2. CASE Stays(x)
        BY <1>2, <3>1, <3>2 DEF Stays, Placed, Pending
      <3>3. CASE \E r, q \in PlaceNames : Moves(x, r, q)
        BY <3>1, <3>3 DEF Moves, Placed, Pending
      <3>4. QED BY <2>3, <3>2, <3>3 DEF Goes
    <2>4. QED BY <2>2, <2>3
  <1>3. ASSUME NEW x \in Fresh', NEW p \in PlaceNames, At(p, x)' PROVE x \in Read'
    <2>1. CASE Arrives(x)
      BY <2>1 DEF Arrives
    <2>2. CASE ~Arrives(x)
      <3>1. \E q \in PlaceNames : At(q, x)
        BY <1>3, <2>2 DEF Goes, Stays, Moves
      <3>2. QED BY <3>1 DEF Placed, PlacesRead
    <2>3. QED BY <2>1, <2>2
  <1>4. OnePlace'
    BY <1>1 DEF OnePlace
  <1>5. Pending'
    BY <1>2 DEF Pending
  <1>6. PlacesRead'
    BY <1>3 DEF PlacesRead
  <1>7. QED BY <1>4, <1>5, <1>6 DEF Placed

(* A step that moves nothing. *)
LEMMA NothingMoves ==
    ASSUME UNCHANGED <<lists, queue, flying, awaiting, nextRev, mightRetry, retryCount, completed, Read>>, log' = log,
           pc' \notin {"replying", "failing", "got"} \/ (pc' = pc /\ UNCHANGED <<todo, kept>>),
           Placed, OnceThere
    PROVE  Placed' /\ OnceThere'
  <1>1. ASSUME NEW x PROVE Goes(x)
    <2>1. Stays(x)
      BY DEF Stays, At
    <2>2. QED BY <2>1 DEF Goes
  <1>2. Placed'
    BY <1>1, StillFresh, PlacedNext
  <1>3. OnceThere'
    BY DEF OnceThere, LocalsOnce
  <1>4. QED BY <1>2, <1>3

LEMMA SameDealt ==
    ASSUME PushedUpToCheckpoint, UNCHANGED <<log, skipped, completed, fate>>, retryCount \subseteq retryCount'
    PROVE  PushedUpToCheckpoint'
  BY DEF PushedUpToCheckpoint, Current

(* The replies to a change list take its revisions out of it one by one. *)
LEMMA RespondingAt ==
    ASSUME Typed, LocalsOnce, NEW h, h = Head(todo), Responding, UNCHANGED retryCount
    PROVE  /\ At("replying", h) /\ LocalsOnce' /\ pc' \in {"replying", "failing", "sending", "idle"}
           /\ h \in retryCount \/ ~At("replying", h)'
           /\ \A x : At("replying", x)' => At("replying", x)
           /\ \A x : ~At("kept", x)' /\ ~At("got", x)'
  <1>1. /\ todo' = Tail(todo) /\ Elements(todo) = {Head(todo)} \cup Elements(todo')
        /\ pc' \in {"replying", "failing", "sending", "idle"}
    BY ResponseIs
  <1>2. todo \in Seq(Known) /\ Once(todo, retryCount)
    BY DEF Typed, LocalsOnce, Responding
  <1>3. Once(todo', retryCount) /\ (h \in retryCount \/ h \notin Elements(todo'))
    BY <1>1, <1>2, OnceTail DEF Responding
  <1>4. LocalsOnce'
    BY <1>1, <1>3 DEF LocalsOnce
  <1>5. At("replying", h)
    BY <1>1 DEF At, Responding
  <1>6. h \in retryCount \/ ~At("replying", h)'
    BY <1>3 DEF At
  <1>7. \A x : At("replying", x)' => At("replying", x)
    BY <1>1 DEF At, Responding
  <1>8. \A x : ~At("kept", x)' /\ ~At("got", x)'
    BY <1>1 DEF At
  <1>9. QED BY <1>1, <1>4, <1>5, <1>6, <1>7, <1>8

LEMMA PlacedWant ==
    ASSUME Typed, Placed, OnceThere, WantRev
    PROVE  Placed' /\ OnceThere'
  <1> USE DEF db, feed, flags, docs, revs, retries, locals
  <1>h. PICK h : h = Head(todo)
    OBVIOUS
  <1>0. /\ Responding /\ queue' = Append(queue, h)
        /\ UNCHANGED <<log, lists, flying, awaiting, nextRev, mightRetry, retryCount, completed, maxSequence, start>>
    BY <1>h DEF WantRev, Responding, NextResponse
  <1>1. /\ At("replying", h) /\ LocalsOnce' /\ pc' \in {"replying", "failing", "sending", "idle"}
        /\ h \in retryCount \/ ~At("replying", h)'
        /\ \A x : At("replying", x)' => At("replying", x)
        /\ \A x : ~At("kept", x)' /\ ~At("got", x)'
    BY <1>0, <1>h, RespondingAt DEF OnceThere
  <1>2. h \in Known /\ queue \in Seq(Known)
    BY <1>0, <1>h, ResponseIs DEF Typed
  <1>3. Elements(queue') = Elements(queue) \cup {h}
    BY <1>0, <1>2, AppendElements
  <1>4. h \in Fresh => ~At("queue", h) /\ ~At("list", h) /\ ~At("flying", h) /\ ~At("awaiting", h) /\ ~At("held", h) /\ ~At("might", h)
    BY <1>1 DEF Placed, OnePlace, PlaceNames
  <1>5. ASSUME NEW x \in Fresh, x # h PROVE Stays(x)
    <2>1. ASSUME NEW p \in PlaceNames, At(p, x)' PROVE At(p, x)
      <3>1. CASE p \in {"replying", "kept", "got"}
        BY <1>1, <2>1, <3>1
      <3>2. CASE p \notin {"replying", "kept", "got"}
        BY <1>0, <1>3, <1>5, <2>1, <3>2 DEF At
      <3>3. QED BY <3>1, <3>2
    <2>2. QED BY <2>1 DEF Stays
  <1>6. ASSUME h \in Fresh PROVE Only(h, "queue")
    <2>1. ASSUME NEW p \in PlaceNames, At(p, h)' PROVE p = "queue"
      <3>1. CASE p \in {"replying", "kept", "got"}
        BY <1>1, <1>6, <2>1, <3>1 DEF Fresh
      <3>2. CASE p \notin {"replying", "kept", "got"}
        BY <1>0, <1>4, <1>6, <2>1, <3>2 DEF At, PlaceNames
      <3>3. QED BY <3>1, <3>2
    <2>2. QED BY <2>1 DEF Only
  <1>7. ASSUME NEW x \in Fresh' PROVE Goes(x)
    <2>1. x \in Fresh
      BY <1>0, StillFresh
    <2>2. CASE x = h
      <3>1. Moves(x, "replying", "queue")
        BY <1>1, <1>6, <2>1, <2>2 DEF Moves
      <3>2. QED BY <1>0, <3>1 DEF Goes, PlaceNames
    <2>3. CASE x # h
      BY <1>0, <1>5, <2>1, <2>3 DEF Goes
    <2>4. QED BY <2>2, <2>3
  <1>8. Placed'
    <2>1. Read \subseteq Read'
      BY <1>0, <1>1 DEF Read, Responding
    <2>2. QED BY <1>0, <1>7, <2>1, StillFresh, PlacedNext
  <1>9. OnceThere'
    <2>1. h \in retryCount \/ h \notin Elements(queue)
      BY <1>2, <1>4 DEF Fresh, At
    <2>2. Once(queue', retryCount)
      BY <1>0, <1>2, <2>1, OnceAppend DEF OnceThere
    <2>3. QED BY <1>0, <1>1, <2>2 DEF OnceThere
  <1>10. QED BY <1>8, <1>9

LEMMA PlacedAgain ==
    ASSUME Typed, Placed, OnceThere, ProposeAgain
    PROVE  Placed' /\ OnceThere'
  <1> USE DEF db, feed, flags, docs, revs, retries, locals
  <1>h. PICK h : h = Head(todo)
    OBVIOUS
  <1>0. /\ Responding /\ lists' = lists \cup {<<h>>}
        /\ UNCHANGED <<log, queue, flying, awaiting, nextRev, mightRetry, retryCount, completed, maxSequence, start>>
    BY <1>h DEF ProposeAgain, Responding, NextResponse
  <1>1. /\ At("replying", h) /\ LocalsOnce' /\ pc' \in {"replying", "failing", "sending", "idle"}
        /\ h \in retryCount \/ ~At("replying", h)'
        /\ \A x : At("replying", x)' => At("replying", x)
        /\ \A x : ~At("kept", x)' /\ ~At("got", x)'
    BY <1>0, <1>h, RespondingAt DEF OnceThere
  <1>2. h \in Known
    BY <1>0, <1>h, ResponseIs DEF Typed
  <1>3. Elements(<<h>>) = {h}
    BY <1>2, SingleElements
  <1>4. h \in Fresh => ~At("queue", h) /\ ~At("list", h) /\ ~At("flying", h) /\ ~At("awaiting", h) /\ ~At("held", h) /\ ~At("might", h)
    BY <1>1 DEF Placed, OnePlace, PlaceNames
  <1>5. ASSUME NEW x \in Fresh, x # h PROVE Stays(x)
    <2>1. ASSUME NEW p \in PlaceNames, At(p, x)' PROVE At(p, x)
      <3>1. CASE p \in {"replying", "kept", "got"}
        BY <1>1, <2>1, <3>1
      <3>2. CASE p \notin {"replying", "kept", "got"}
        BY <1>0, <1>3, <1>5, <2>1, <3>2 DEF At
      <3>3. QED BY <3>1, <3>2
    <2>2. QED BY <2>1 DEF Stays
  <1>6. ASSUME h \in Fresh PROVE Only(h, "list")
    <2>1. ASSUME NEW p \in PlaceNames, At(p, h)' PROVE p = "list"
      <3>1. CASE p \in {"replying", "kept", "got"}
        BY <1>1, <1>6, <2>1, <3>1 DEF Fresh
      <3>2. CASE p \notin {"replying", "kept", "got"}
        BY <1>0, <1>4, <1>6, <2>1, <3>2 DEF At, PlaceNames
      <3>3. QED BY <3>1, <3>2
    <2>2. QED BY <2>1 DEF Only
  <1>7. ASSUME NEW x \in Fresh' PROVE Goes(x)
    <2>1. x \in Fresh
      BY <1>0, StillFresh
    <2>2. CASE x = h
      <3>1. Moves(x, "replying", "list")
        BY <1>1, <1>6, <2>1, <2>2 DEF Moves
      <3>2. QED BY <1>0, <3>1 DEF Goes, PlaceNames
    <2>3. CASE x # h
      BY <1>0, <1>5, <2>1, <2>3 DEF Goes
    <2>4. QED BY <2>2, <2>3
  <1>8. Placed'
    <2>1. Read \subseteq Read'
      BY <1>0, <1>1 DEF Read, Responding
    <2>2. QED BY <1>0, <1>7, <2>1, StillFresh, PlacedNext
  <1>9. OnceThere'
    <2>1. ASSUME NEW x \in Elements(<<h>>) \ retryCount, NEW l \in lists PROVE x \notin Elements(l)
      BY <1>2, <1>3, <1>4 DEF Fresh, At
    <2>2. Once(<<h>>, retryCount)
      BY OnceSingle
    <2> DEFINE k == <<h>>
    <2> HIDE DEF k
    <2>3. ListsOnce(lists \cup {k}, retryCount)
      BY <2>1, <2>2, ListsAdd DEF OnceThere, k
    <2>4. QED BY <1>0, <1>1, <2>3 DEF OnceThere, k
  <1>10. QED BY <1>8, <1>9

LEMMA PlacedSend ==
    ASSUME Typed, Placed, OnceThere, SendRevision
    PROVE  Placed' /\ OnceThere'
  <1> USE DEF db, feed, flags, docs, revs, retries, locals
  <1>h. PICK h : h = Head(queue)
    OBVIOUS
  <1>0. /\ pc = "sending" /\ queue # << >> /\ queue' = Tail(queue) /\ flying' = flying \cup {h} /\ pc' \in {"sending", "idle"}
        /\ UNCHANGED <<log, lists, awaiting, nextRev, mightRetry, retryCount, completed, maxSequence, start>>
    BY <1>h DEF SendRevision, CanSend, MaybeSendMoreRevs
  <1>1. queue \in Seq(Known) /\ h \in Known /\ Elements(queue) = {h} \cup Elements(queue')
    BY <1>0, <1>h, QueueIs DEF Typed
  <1>2. Once(queue', retryCount) /\ (h \in retryCount \/ h \notin Elements(queue'))
    BY <1>0, <1>1, <1>h, OnceTail DEF OnceThere
  <1>3. At("queue", h)
    BY <1>1 DEF At
  <1>4. h \in Fresh => ~At("list", h) /\ ~At("awaiting", h) /\ ~At("held", h) /\ ~At("might", h)
    BY <1>3 DEF Placed, OnePlace, PlaceNames
  <1>5. ASSUME NEW x \in Fresh, x # h PROVE Stays(x)
    BY <1>0, <1>1, <1>5 DEF Stays, At
  <1>6. ASSUME h \in Fresh PROVE Only(h, "flying")
    <2>1. ASSUME NEW p \in PlaceNames, At(p, h)' PROVE p = "flying"
      BY <1>0, <1>2, <1>4, <1>6, <2>1 DEF At, PlaceNames, Fresh
    <2>2. QED BY <2>1 DEF Only
  <1>7. ASSUME NEW x \in Fresh' PROVE Goes(x)
    <2>1. x \in Fresh
      BY <1>0, StillFresh
    <2>2. CASE x = h
      <3>1. Moves(x, "queue", "flying")
        BY <1>3, <1>6, <2>1, <2>2 DEF Moves
      <3>2. QED BY <1>0, <3>1 DEF Goes, PlaceNames
    <2>3. CASE x # h
      BY <1>0, <1>5, <2>1, <2>3 DEF Goes
    <2>4. QED BY <2>2, <2>3
  <1>8. Placed'
    <2>1. Read \subseteq Read'
      BY <1>0 DEF Read
    <2>2. QED BY <1>0, <1>7, <2>1, StillFresh, PlacedNext
  <1>9. OnceThere'
    BY <1>0, <1>2 DEF OnceThere, LocalsOnce
  <1>10. QED BY <1>8, <1>9

LEMMA PlacedTransmitted ==
    ASSUME Typed, Placed, OnceThere, NEW h \in flying, RevTransmitted(h)
    PROVE  Placed' /\ OnceThere'
  <1> USE DEF db, feed, flags, docs, revs, retries, locals
  <1>0. /\ pc = "idle" /\ flying' = flying \ {h} /\ awaiting' = awaiting \cup {h} /\ pc' \in {"sending", "idle"}
        /\ UNCHANGED <<log, lists, queue, nextRev, mightRetry, retryCount, completed, maxSequence, start>>
    BY DEF RevTransmitted, MaybeSendMoreRevs, CanReceive, Ready
  <1>3. At("flying", h)
    BY DEF At
  <1>4. h \in Fresh => ~At("list", h) /\ ~At("queue", h) /\ ~At("held", h) /\ ~At("might", h)
    BY <1>3 DEF Placed, OnePlace, PlaceNames
  <1>5. ASSUME NEW x \in Fresh, x # h PROVE Stays(x)
    BY <1>0, <1>5 DEF Stays, At
  <1>6. ASSUME h \in Fresh PROVE Only(h, "awaiting")
    <2>1. ASSUME NEW p \in PlaceNames, At(p, h)' PROVE p = "awaiting"
      BY <1>0, <1>4, <1>6, <2>1 DEF At, PlaceNames
    <2>2. QED BY <2>1 DEF Only
  <1>7. ASSUME NEW x \in Fresh' PROVE Goes(x)
    <2>1. x \in Fresh
      BY <1>0, StillFresh
    <2>2. CASE x = h
      <3>1. Moves(x, "flying", "awaiting")
        BY <1>3, <1>6, <2>1, <2>2 DEF Moves
      <3>2. QED BY <1>0, <3>1 DEF Goes, PlaceNames
    <2>3. CASE x # h
      BY <1>0, <1>5, <2>1, <2>3 DEF Goes
    <2>4. QED BY <2>2, <2>3
  <1>8. Placed'
    <2>1. Read \subseteq Read'
      BY <1>0 DEF Read
    <2>2. QED BY <1>0, <1>7, <2>1, StillFresh, PlacedNext
  <1>9. OnceThere'
    BY <1>0 DEF OnceThere, LocalsOnce
  <1>10. QED BY <1>8, <1>9

(* A whole list is sent, or answered. *)
LEMMA PlacedSendChanges ==
    ASSUME Typed, Placed, OnceThere, SendChanges
    PROVE  Placed' /\ OnceThere'
  <1> USE DEF db, feed, flags, docs, revs, retries, locals
  <1>h. PICK k : k = kept
    OBVIOUS
  <1>0. /\ pc = "got" /\ todo = << >> /\ lists' = lists \cup ({k} \ {<< >>}) /\ pc' = "idle"
        /\ UNCHANGED <<log, queue, flying, awaiting, nextRev, mightRetry, retryCount, completed, maxSequence, start>>
    BY <1>h DEF SendChanges
  <1>1. ASSUME NEW x PROVE At("list", x)' => At("list", x) \/ At("kept", x)
    BY <1>0, <1>h DEF At
  <1>2. ASSUME NEW x, NEW p \in PlaceNames, At(p, x)', p # "list" PROVE At(p, x) /\ p \notin {"kept", "got", "replying"}
    BY <1>0, <1>2 DEF At, PlaceNames
  <1>3. ASSUME NEW x \in Fresh, At("kept", x) PROVE Only(x, "list")
    <2>1. ASSUME NEW p \in PlaceNames, At(p, x)', p # "list" PROVE FALSE
      <3>1. At(p, x) /\ p # "kept"
        BY <1>2, <2>1
      <3>2. QED BY <1>3, <3>1 DEF Placed, OnePlace, PlaceNames
    <2>2. QED BY <2>1 DEF Only
  <1>4. ASSUME NEW x \in Fresh, ~At("kept", x) PROVE Stays(x)
    <2>1. ASSUME NEW p \in PlaceNames, At(p, x)' PROVE At(p, x)
      <3>1. CASE p = "list"
        BY <1>1, <1>4, <2>1, <3>1
      <3>2. CASE p # "list"
        BY <1>2, <2>1, <3>2
      <3>3. QED BY <3>1, <3>2
    <2>2. QED BY <2>1 DEF Stays
  <1>5. ASSUME NEW x \in Fresh' PROVE Goes(x)
    <2>1. x \in Fresh
      BY <1>0, StillFresh
    <2>2. CASE At("kept", x)
      <3>1. Moves(x, "kept", "list")
        BY <1>3, <2>1, <2>2 DEF Moves
      <3>2. QED BY <1>0, <3>1 DEF Goes, PlaceNames
    <2>3. CASE ~At("kept", x)
      BY <1>0, <1>4, <2>1, <2>3 DEF Goes
    <2>4. QED BY <2>2, <2>3
  <1>6. Placed'
    <2>1. Read \subseteq Read'
      BY <1>0 DEF Read
    <2>2. QED BY <1>0, <1>5, <2>1, StillFresh, PlacedNext
  <1>7. OnceThere'
    <2>1. ASSUME NEW x \in Elements(k) \ retryCount, NEW l \in lists PROVE x \notin Elements(l)
      <3>1. x \in Fresh
        BY <1>h, ElementsOf DEF Typed, Fresh
      <3>2. At("kept", x)
        BY <1>0, <1>h DEF At
      <3>3. ~At("list", x)
        BY <3>1, <3>2 DEF Placed, OnePlace, PlaceNames
      <3>4. QED BY <3>3 DEF At
    <2>2. Once(k, retryCount) /\ ListsOnce(lists, retryCount)
      BY <1>0, <1>h DEF OnceThere, LocalsOnce
    <2>3. ListsOnce(lists \cup {k}, retryCount)
      BY <2>1, <2>2, ListsAdd
    <2>4. lists' = lists \/ lists' = lists \cup {k}
      BY <1>0
    <2>5. ListsOnce(lists', retryCount)
      BY <2>2, <2>3, <2>4
    <2>6. QED BY <1>0, <2>5 DEF OnceThere, LocalsOnce
  <1>8. QED BY <1>6, <1>7

LEMMA PlacedChangesReply ==
    ASSUME Typed, Placed, OnceThere, NEW k \in lists, ChangesReply(k) \/ ListRefused(k)
    PROVE  Placed' /\ OnceThere'
  <1> USE DEF db, feed, flags, docs, revs, retries, locals
  <1>0. /\ pc = "idle" /\ lists' = lists \ {k} /\ pc' \in {"replying", "failing"} /\ todo' = k
        /\ UNCHANGED <<log, queue, flying, awaiting, nextRev, mightRetry, retryCount, completed, maxSequence, start>>
    BY DEF ChangesReply, ListRefused, CanReceive, Ready
  <1>1. ASSUME NEW x \in Fresh, x \in Elements(k) PROVE ~At("list", x)' /\ At("list", x)
    <2>1. \A l \in lists : x \in Elements(l) => l = k
      BY <1>1 DEF OnceThere, ListsOnce, Fresh
    <2>2. QED BY <1>0, <1>1, <2>1 DEF At
  <1>2. ASSUME NEW x, NEW p \in PlaceNames, At(p, x)', p # "replying" PROVE At(p, x)
    BY <1>0, <1>2 DEF At, PlaceNames
  <1>3. ASSUME NEW x \in Fresh, x \in Elements(k) PROVE Only(x, "replying")
    <2>1. ASSUME NEW p \in PlaceNames, At(p, x)', p # "replying" PROVE FALSE
      <3>1. At(p, x) /\ p # "list"
        BY <1>1, <1>2, <1>3, <2>1
      <3>2. QED BY <1>1, <1>3, <3>1 DEF Placed, OnePlace, PlaceNames
    <2>2. QED BY <2>1 DEF Only
  <1>4. ASSUME NEW x, x \notin Elements(k) PROVE Stays(x)
    <2>1. ~At("replying", x)'
      BY <1>0, <1>4 DEF At
    <2>2. QED BY <1>2, <2>1 DEF Stays
  <1>5. ASSUME NEW x \in Fresh' PROVE Goes(x)
    <2>1. x \in Fresh
      BY <1>0, StillFresh
    <2>2. CASE x \in Elements(k)
      <3>1. Moves(x, "list", "replying")
        BY <1>1, <1>3, <2>1, <2>2 DEF Moves
      <3>2. QED BY <1>0, <3>1 DEF Goes, PlaceNames
    <2>3. CASE x \notin Elements(k)
      BY <1>0, <1>4, <2>3 DEF Goes
    <2>4. QED BY <2>2, <2>3
  <1>6. Placed'
    <2>1. Read \subseteq Read'
      BY <1>0 DEF Read
    <2>2. QED BY <1>0, <1>5, <2>1, StillFresh, PlacedNext
  <1>7. OnceThere'
    <2>1. Once(k, retryCount) /\ ListsOnce(lists', retryCount)
      BY <1>0 DEF OnceThere, ListsOnce
    <2>2. QED BY <1>0, <2>1 DEF OnceThere, LocalsOnce
  <1>8. QED BY <1>6, <1>7

LEMMA PlacedGot ==
    ASSUME Typed, Work, Placed, OnceThere, GotInOrder, PushedUpToCheckpoint, GotChange
    PROVE  Placed' /\ OnceThere' /\ GotInOrder' /\ PushedUpToCheckpoint'
  <1> USE DEF db, feed, flags, docs, revs, retries, locals
  <1>a. PICK h : h = Head(todo)
    OBVIOUS
  <1>b. PICK e : e = pushing[log[h]]
    OBVIOUS
  <1>c. PICK old : old = nextRev[e]
    OBVIOUS
  <1>0. /\ pc = "got" /\ todo # << >> /\ todo' = Tail(todo) /\ pc' = pc
        /\ UNCHANGED <<log, skipped, lists, queue, flying, awaiting, mightRetry, retryCount, maxSequence, start, fate>>
    BY DEF GotChange
  <1>1. IF e = 0
        THEN kept' = Append(kept, h) /\ UNCHANGED <<nextRev, completed>>
        ELSE nextRev' = [nextRev EXCEPT ![e] = h] /\ completed' = completed \cup ({old} \ {0}) /\ UNCHANGED kept
    BY <1>a, <1>b, <1>c DEF GotChange
  <1>2. h \in Known /\ Elements(todo) = {h} \cup Elements(todo') /\ todo \in Seq(Known) /\ kept \in Seq(Known)
    BY <1>0, <1>a, TailElements DEF Typed
  <1>3. Once(todo', retryCount) /\ (h \in retryCount \/ h \notin Elements(todo'))
    BY <1>0, <1>2, <1>a, OnceTail DEF OnceThere, LocalsOnce
  <1>4. At("got", h)
    BY <1>0, <1>2 DEF At
  <1>5. h \in Fresh => \A p \in PlaceNames : At(p, h) => p = "got"
    BY <1>4 DEF Placed, OnePlace, PlaceNames
  <1>6. e \in Known \cup {0} /\ h \in Revs /\ h \in Nat /\ h # 0 /\ Known \subseteq Revs /\ Known \subseteq Nat /\ 0 \notin Known
    BY <1>2, <1>b, KnownRevs DEF Typed
  <1>7. Read \subseteq Read'
    BY <1>0 DEF Read
  <1>8. Increasing(todo') \/ Elements(todo') \subseteq retryCount
    <2>1. CASE Increasing(todo)
      <3>1. todo \in Seq(Nat)
        BY <1>2, <1>6, SeqGrows
      <3>2. QED BY <1>0, <2>1, <3>1, IncreasingTail
    <2>2. QED BY <1>0, <1>2, <2>1 DEF GotInOrder
  <1>9. ASSUME NEW y \in Elements(todo') PROVE h < y \/ h \in retryCount
    <2>1. CASE Increasing(todo)
      <3>1. todo \in Seq(Nat)
        BY <1>2, <1>6, SeqGrows
      <3>2. QED BY <1>0, <1>9, <1>a, <2>1, <3>1, IncreasingTail
    <2>2. QED BY <1>0, <1>2, <2>1 DEF GotInOrder
  <1>10. CASE e = 0
    <2>0. kept' = Append(kept, h) /\ UNCHANGED <<nextRev, completed>>
      BY <1>1, <1>10
    <2>1. Elements(kept') = Elements(kept) \cup {h}
      BY <1>2, <2>0, AppendElements
    <2>2. ASSUME NEW x, x # h PROVE Stays(x)
      BY <1>0, <1>2, <2>0, <2>1, <2>2 DEF Stays, At
    <2>3. ASSUME h \in Fresh PROVE Only(h, "kept")
      <3>1. h \notin Elements(todo')
        BY <1>3, <2>3 DEF Fresh
      <3>2. ASSUME NEW p \in PlaceNames, At(p, h)', p # "kept" PROVE FALSE
        <4>1. At(p, h) /\ p # "got"
          BY <1>0, <2>0, <3>1, <3>2 DEF At, PlaceNames
        <4>2. QED BY <1>5, <2>3, <4>1
      <3>3. QED BY <3>2 DEF Only
    <2>4. ASSUME NEW x \in Fresh' PROVE Goes(x)
      <3>1. x \in Fresh
        BY <1>0, StillFresh
      <3>2. CASE x = h
        <4>1. Moves(x, "got", "kept")
          BY <1>4, <2>3, <3>1, <3>2 DEF Moves
        <4>2. QED BY <2>0, <4>1 DEF Goes, PlaceNames
      <3>3. CASE x # h
        BY <2>0, <2>2, <3>3 DEF Goes
      <3>4. QED BY <3>2, <3>3
    <2>5. Placed'
      BY <1>0, <1>7, <2>4, StillFresh, PlacedNext
    <2>6. OnceThere'
      <3>1. h \in retryCount \/ h \notin Elements(kept)
        <4>1. h \in Fresh => ~At("kept", h)
          BY <1>5 DEF PlaceNames
        <4>2. QED BY <1>0, <1>2, <4>1 DEF At, Fresh
      <3>2. Once(kept', retryCount)
        BY <1>0, <1>2, <2>0, <3>1, OnceAppend DEF OnceThere, LocalsOnce
      <3>3. QED BY <1>0, <1>3, <2>0, <3>2 DEF OnceThere, LocalsOnce
    <2>7. GotInOrder'
      BY <1>0, <1>2, <1>8, <2>0 DEF GotInOrder
    <2>8. PushedUpToCheckpoint'
      BY <1>0, <2>0, SameDealt
    <2>9. QED BY <2>5, <2>6, <2>7, <2>8
  <1>11. CASE e # 0
    <2>0. nextRev' = [nextRev EXCEPT ![e] = h] /\ completed' = completed \cup ({old} \ {0}) /\ UNCHANGED kept
      BY <1>1, <1>11
    <2>1. e \in Revs /\ nextRev'[e] = h /\ \A x \in Revs \ {e} : nextRev'[x] = nextRev[x]
      BY <1>6, <1>11, <2>0 DEF Typed
    <2>2. old \in Known \cup {0} /\ (old # 0 => At("held", old))
      BY <1>c, <2>1 DEF Typed, At
    <2>3. ASSUME NEW x, x # h PROVE Stays(x)
      <3>1. ASSUME NEW p \in PlaceNames, At(p, x)' PROVE At(p, x)
        <4>1. CASE p = "held"
          BY <2>1, <2>3, <3>1, <4>1 DEF At
        <4>2. CASE p # "held"
          BY <1>0, <1>2, <2>0, <3>1, <4>2 DEF At
        <4>3. QED BY <4>1, <4>2
      <3>2. QED BY <3>1 DEF Stays
    <2>4. ASSUME h \in Fresh PROVE Only(h, "held")
      <3>1. h \notin Elements(todo')
        BY <1>3, <2>4 DEF Fresh
      <3>2. ASSUME NEW p \in PlaceNames, At(p, h)', p # "held" PROVE FALSE
        <4>1. At(p, h) /\ p # "got"
          BY <1>0, <2>0, <3>1, <3>2 DEF At, PlaceNames
        <4>2. QED BY <1>5, <2>4, <4>1
      <3>3. QED BY <3>2 DEF Only
    <2>5. h \in Fresh => h # old
      <3>1. h \in Fresh => ~At("held", h)
        BY <1>5 DEF PlaceNames
      <3>2. QED BY <1>6, <2>2, <3>1
    <2>6. ASSUME NEW x \in Fresh, x = old, x # h PROVE Only(x, "might")
      <3>1. At("held", x) /\ x # 0
        BY <1>6, <2>2, <2>6 DEF Fresh
      <3>2. ~At("held", x)'
        <4>1. ASSUME NEW y \in Revs, nextRev'[y] = x PROVE FALSE
          <5>1. y # e /\ nextRev[y] = nextRev[e] /\ nextRev[e] # 0 /\ nextRev[e] \notin retryCount
            BY <1>c, <2>1, <2>6, <3>1, <4>1 DEF Fresh
          <5>2. QED BY <2>1, <5>1 DEF OnceThere, HeldOnce
        <4>2. QED BY <4>1 DEF At
      <3>3. ASSUME NEW p \in PlaceNames, At(p, x)' PROVE FALSE
        <4>1. At(p, x)
          BY <2>3, <2>6, <3>3 DEF Stays
        <4>2. p = "held"
          BY <2>6, <3>1, <4>1 DEF Placed, OnePlace, PlaceNames
        <4>3. QED BY <3>2, <3>3, <4>2
      <3>4. QED BY <3>3 DEF Only
    <2>7. ASSUME NEW x \in Fresh' PROVE Goes(x)
      <3>1. x \in Fresh
        BY <1>0, StillFresh
      <3>2. CASE x = h
        <4>1. Moves(x, "got", "held")
          BY <1>4, <2>4, <3>1, <3>2 DEF Moves
        <4>2. x \in completed' => x \in completed
          BY <2>0, <2>5, <3>1, <3>2
        <4>3. QED BY <4>1, <4>2 DEF Goes, PlaceNames
      <3>3. CASE x # h
        <4>1. x \in completed' => x \in completed \/ Only(x, "might")
          BY <2>0, <2>6, <3>1, <3>3
        <4>2. QED BY <2>3, <3>3, <4>1 DEF Goes
      <3>4. QED BY <3>2, <3>3
    <2>8. Placed'
      BY <1>0, <1>7, <2>7, StillFresh, PlacedNext
    <2>9. OnceThere'
      <3>1. ASSUME NEW y \in Revs, NEW z \in Revs, nextRev'[y] = nextRev'[z], nextRev'[y] # 0, nextRev'[y] \notin retryCount
            PROVE  y = z
        <4>1. h \in retryCount \/ \A w \in Revs : nextRev[w] # h
          <5>1. h \in Fresh => ~At("held", h)
            BY <1>5 DEF PlaceNames
          <5>2. QED BY <1>2, <5>1 DEF At, Fresh
        <4>2. CASE y = e /\ z # e
          BY <2>1, <3>1, <4>1, <4>2
        <4>3. CASE y # e /\ z = e
          BY <2>1, <3>1, <4>1, <4>3
        <4>4. CASE y # e /\ z # e
          BY <2>1, <3>1, <4>4 DEF OnceThere, HeldOnce
        <4>5. QED BY <4>2, <4>3, <4>4
      <3>2. HeldOnce(nextRev', retryCount)
        BY <3>1 DEF HeldOnce
      <3>3. QED BY <1>0, <1>3, <2>0, <3>2 DEF OnceThere, LocalsOnce
    <2>10. GotInOrder'
      <3>1. ASSUME NEW x \in Revs, NEW y \in Elements(todo') PROVE nextRev'[x] < y \/ nextRev'[x] \in retryCount
        <4>1. CASE x = e
          BY <1>9, <2>1, <4>1
        <4>2. CASE x # e
          BY <1>0, <1>2, <2>1, <4>2 DEF GotInOrder
        <4>3. QED BY <4>1, <4>2
      <3>2. QED BY <1>0, <1>8, <3>1 DEF GotInOrder
    <2>11. PushedUpToCheckpoint'
      <3>1. ASSUME old # 0, Current(old), old \notin retryCount PROVE FALSE
        <4>1. old < h
          BY <1>0, <1>2, <1>c, <2>1, <3>1 DEF GotInOrder
        <4>2. log[old] = log[e] /\ log[e] = log[h] /\ log[h] \in Docs
          <5>1. log[h] \in Docs
            BY <1>2, KnownRevs
          <5>2. log[e] = log[h]
            BY <1>11, <1>b, <5>1 DEF Work, PushingInWork
          <5>3. log[old] = log[e]
            BY <1>c, <2>1, <3>1 DEF Work, HoldersInWork
          <5>4. QED BY <5>1, <5>2, <5>3
        <4>3. h \in old + 1 .. Len(log)
          BY <1>2, <1>6, <2>2, <3>1, <4>1 DEF Known
        <4>4. QED BY <3>1, <4>2, <4>3 DEF Current
      <3>2. QED BY <1>0, <2>0, <3>1 DEF PushedUpToCheckpoint, Current
    <2>12. QED BY <2>8, <2>9, <2>10, <2>11
  <1>12. QED BY <1>10, <1>11

(* doneWithRev(): s leaves its place, and the revision it held back is     *)
(* proposed or completed.                                                  *)
OthersStay(s) == \A x \in Fresh' \ {s} : \A p \in PlaceNames \ {"list", "held"} : At(p, x)' => At(p, x)
Leaves(s, q) == \A p \in PlaceNames \ {"list", "held"} : At(p, s)' => p = q

LEMMA DoneIs ==
    ASSUME Typed, NEW s \in Known, NEW says, NEW done, NEW again, DoneWithRev(s, says, done, again),
           NEW next, next = nextRev[s]
    PROVE  /\ next \in Known \cup {0} /\ nextRev'[s] = 0 /\ \A y \in Revs \ {s} : nextRev'[y] = nextRev[y]
           /\ \/ lists' = lists \cup {<<next>>} /\ next # 0 /\ next \notin completed'
              \/ lists' = lists
           /\ \A x \in completed' : x \in completed \/ (x = s /\ done) \/ (x = next /\ x # 0 /\ lists' = lists)
           /\ \A x \in Revs \ {s, next} : fate'[x] = fate[x]
           /\ next # 0 /\ next \in completed' /\ Current(next) => fate'[next] = "conflict"
           /\ s # next => fate'[s] = says
           /\ s = next => fate'[s] \in {says, "conflict"}
  <1> DEFINE told == [fate EXCEPT ![s] = says]
             ended == IF done THEN completed \cup {s} ELSE completed
  <1>1. s \in Revs /\ next \in Known \cup {0} /\ Known \subseteq Revs /\ 0 \notin Known
    BY KnownRevs DEF Typed
  <1>2. PICK propose \in BOOLEAN :
          /\ propose => next # 0
          /\ nextRev' = [nextRev EXCEPT ![s] = 0]
          /\ IF propose
             THEN lists' = lists \cup {<<next>>} /\ completed' = ended \ {next} /\ fate' = told
             ELSE /\ lists' = lists
                  /\ completed' = ended \cup ({next} \ {0})
                  /\ fate' = IF next # 0 /\ Current(next) THEN [told EXCEPT ![next] = "conflict"] ELSE told
    BY DEF DoneWithRev
  <1>3. /\ told \in [Revs -> Fates \cup {says}] /\ told[s] = says /\ \A x \in Revs \ {s} : told[x] = fate[x]
    BY <1>1 DEF Typed
  <1>4. \A x \in ended : x \in completed \/ (x = s /\ done)
    OBVIOUS
  <1> HIDE DEF told, ended
  <1>5. nextRev'[s] = 0 /\ \A y \in Revs \ {s} : nextRev'[y] = nextRev[y]
    BY <1>1, <1>2 DEF Typed
  <1>6. CASE propose
    <2>1. lists' = lists \cup {<<next>>} /\ completed' = ended \ {next} /\ fate' = told /\ next # 0
      BY <1>2, <1>6
    <2>2. QED BY <1>1, <1>3, <1>4, <1>5, <2>1
  <1>7. CASE ~propose
    <2>1. /\ lists' = lists /\ completed' = ended \cup ({next} \ {0})
          /\ fate' = IF next # 0 /\ Current(next) THEN [told EXCEPT ![next] = "conflict"] ELSE told
      BY <1>2, <1>7
    <2>2. CASE next # 0 /\ Current(next)
      <3>1. fate'[next] = "conflict" /\ \A x \in Revs \ {next} : fate'[x] = told[x]
        BY <1>1, <1>3, <2>1, <2>2
      <3>2. QED BY <1>1, <1>3, <1>4, <1>5, <2>1, <2>2, <3>1
    <2>3. CASE ~(next # 0 /\ Current(next))
      <3>1. fate' = told
        BY <2>1, <2>3
      <3>2. QED BY <1>1, <1>3, <1>4, <1>5, <2>1, <2>3, <3>1
    <2>4. QED BY <2>2, <2>3
  <1>8. QED BY <1>6, <1>7

LEMMA PlacedDone ==
    ASSUME Typed, Placed, OnceThere, NEW s \in Known, NEW says, NEW done, NEW again, DoneWithRev(s, says, done, again),
           log' = log, retryCount \subseteq retryCount', Read \subseteq Read',
           NEW from \in PlaceNames \ {"list", "held", "might"}, At(from, s),
           NEW to \in PlaceNames, s \in Fresh' => Leaves(s, to), done => to = "might", OthersStay(s)
    PROVE  Placed' /\ ListsOnce(lists', retryCount') /\ HeldOnce(nextRev', retryCount')
  <1>h. PICK next : next = nextRev[s]
    OBVIOUS
  <1>1. /\ next \in Known \cup {0} /\ nextRev'[s] = 0 /\ \A y \in Revs \ {s} : nextRev'[y] = nextRev[y]
        /\ \/ lists' = lists \cup {<<next>>} /\ next # 0 /\ next \notin completed'
           \/ lists' = lists
        /\ \A x \in completed' : x \in completed \/ (x = s /\ done) \/ (x = next /\ x # 0 /\ lists' = lists)
    BY <1>h, DoneIs
  <1>2. Fresh' \subseteq Fresh
    BY StillFresh
  <1>3. s \in Revs /\ Known \subseteq Revs /\ 0 \notin Known
    BY KnownRevs
  <1>4. next # 0 => At("held", next)
    BY <1>3, <1>h DEF At
  <1>5. Elements(<<next>>) = {next}
    BY SingleElements
  <1>6. ASSUME NEW x, x # next PROVE At("list", x)' => At("list", x)
    BY <1>1, <1>5, <1>6 DEF At
  <1>7. ASSUME NEW x, x # 0 PROVE At("held", x)' => At("held", x)
    BY <1>1, <1>7 DEF At
  <1>8. ASSUME next \in Fresh PROVE ~At("held", next)'
    <2>1. ASSUME NEW y \in Revs, nextRev'[y] = next PROVE FALSE
      <3>1. next # 0 /\ next \notin retryCount
        BY <1>3, <1>8 DEF Fresh
      <3>2. y # s /\ nextRev[y] = nextRev[s] /\ nextRev[y] # 0 /\ nextRev[y] \notin retryCount
        BY <1>1, <1>h, <2>1, <3>1
      <3>3. QED BY <1>3, <3>2 DEF OnceThere, HeldOnce
    <2>2. QED BY <2>1 DEF At
  <1>9. s \in Fresh => s # next /\ ~At("list", s) /\ ~At("held", s)
    <2>1. s \in Fresh => ~At("list", s) /\ ~At("held", s)
      BY DEF Placed, OnePlace, PlaceNames
    <2>2. QED BY <1>3, <1>4, <2>1
  <1>10. next \in Fresh => ~At("list", next)
    <2>1. next \in Fresh => At("held", next)
      BY <1>3, <1>4 DEF Fresh
    <2>2. QED BY <2>1 DEF Placed, OnePlace, PlaceNames
  <1>11. ASSUME NEW x \in Fresh' PROVE Goes(x)
    <2>0. x \in Fresh /\ x # 0 /\ x \in Known
      BY <1>2, <1>3 DEF Fresh
    <2>1. CASE x = s
      <3>1. ~At("list", x)' /\ ~At("held", x)'
        BY <1>6, <1>7, <1>9, <2>0, <2>1
      <3>2. Only(x, to)
        BY <2>1, <3>1 DEF Only, Leaves
      <3>3. from # "might" /\ At(from, x) /\ x \notin completed
        BY <2>0, <2>1 DEF Placed, Pending
      <3>4. Moves(x, from, to)
        BY <3>2, <3>3 DEF Moves
      <3>5. x \in completed' => Only(x, "might")
        BY <1>1, <1>9, <2>0, <2>1, <3>2, <3>3
      <3>6. QED BY <3>4, <3>5 DEF Goes
    <2>2. CASE x = next /\ x # s
      <3>1. At("held", x) /\ ~At("held", x)'
        BY <1>4, <1>8, <2>0, <2>2
      <3>2. ASSUME NEW p \in PlaceNames, At(p, x)', p # "list" PROVE FALSE
        <4>1. p # "held"
          BY <3>1, <3>2
        <4>2. At(p, x)
          BY <2>2, <3>2, <4>1 DEF OthersStay
        <4>3. QED BY <2>0, <3>1, <4>1, <4>2 DEF Placed, OnePlace, PlaceNames
      <3>3. Only(x, "list")
        BY <3>2 DEF Only
      <3>4. Moves(x, "held", "list")
        BY <3>1, <3>3 DEF Moves
      <3>5. x \in completed' => x \in completed \/ lists' = lists
        BY <1>1, <2>2
      <3>6. lists' = lists => ~At("list", x)'
        BY <1>10, <2>0, <2>2 DEF At
      <3>7. lists' = lists => Only(x, "might")
        BY <3>3, <3>6 DEF Only
      <3>8. QED BY <3>4, <3>5, <3>7 DEF Goes, PlaceNames
    <2>3. CASE x # next /\ x # s
      <3>1. ASSUME NEW p \in PlaceNames, At(p, x)' PROVE At(p, x)
        <4>1. CASE p = "list"
          BY <1>6, <2>3, <3>1, <4>1
        <4>2. CASE p = "held"
          BY <1>7, <2>0, <3>1, <4>2
        <4>3. CASE p \notin {"list", "held"}
          BY <2>3, <3>1, <4>3 DEF OthersStay
        <4>4. QED BY <4>1, <4>2, <4>3
      <3>2. Stays(x)
        BY <3>1 DEF Stays
      <3>3. QED BY <1>1, <2>3, <3>2 DEF Goes
    <2>4. QED BY <2>1, <2>2, <2>3
  <1>12. Placed'
    BY <1>2, <1>11, PlacedNext
  <1>13. ListsOnce(lists', retryCount')
    <2>1. ListsOnce(lists, retryCount)
      BY DEF OnceThere
    <2>2. CASE lists' = lists
      BY <2>1, <2>2, ListsGrow
    <2>3. CASE lists' = lists \cup {<<next>>} /\ next # 0
      <3> DEFINE k == <<next>>
      <3>1. Once(k, retryCount) /\ Elements(k) = {next}
        BY <1>5, OnceSingle
      <3> HIDE DEF k
      <3>2. ASSUME NEW x \in Elements(k) \ retryCount, NEW l \in lists PROVE x \notin Elements(l)
        <4>1. x = next /\ next \in Fresh
          BY <1>1, <2>3, <3>1 DEF Fresh
        <4>2. QED BY <1>10, <4>1 DEF At
      <3>3. ListsOnce(lists \cup {k}, retryCount)
        BY <2>1, <3>1, <3>2, ListsAdd
      <3>4. ListsOnce(lists \cup {k}, retryCount')
        BY <3>3, ListsGrow
      <3>5. QED BY <2>3, <3>4 DEF k
    <2>4. QED BY <1>1, <2>2, <2>3
  <1>14. HeldOnce(nextRev', retryCount')
    <2>1. ASSUME NEW y \in Revs, NEW z \in Revs, nextRev'[y] = nextRev'[z], nextRev'[y] # 0, nextRev'[y] \notin retryCount'
          PROVE  y = z
      <3>1. y # s /\ z # s
        BY <1>1, <2>1
      <3>2. nextRev'[y] = nextRev[y] /\ nextRev'[z] = nextRev[z]
        BY <1>1, <3>1
      <3>3. nextRev[y] = nextRev[z] /\ nextRev[y] # 0 /\ nextRev[y] \notin retryCount
        BY <2>1, <3>2
      <3>4. QED BY <3>3 DEF OnceThere, HeldOnce
    <2>2. QED BY <2>1 DEF HeldOnce
  <1>15. QED BY <1>12, <1>13, <1>14

LEMMA DealtDone ==
    ASSUME Typed, PushedUpToCheckpoint, NEW s \in Known, NEW says, NEW done, NEW again, DoneWithRev(s, says, done, again),
           UNCHANGED <<log, skipped>>, retryCount \subseteq retryCount',
           done => says \in {"pushed", "permanent", "conflict"} \/ ~Current(s),
           done \/ s \notin completed \/ s \in retryCount'
    PROVE  PushedUpToCheckpoint'
  <1>h. PICK next : next = nextRev[s]
    OBVIOUS
  <1>1. /\ next \in Known \cup {0}
        /\ \A x \in completed' : x \in completed \/ (x = s /\ done) \/ (x = next /\ x # 0 /\ lists' = lists)
        /\ \A x \in Revs \ {s, next} : fate'[x] = fate[x]
        /\ next # 0 /\ next \in completed' /\ Current(next) => fate'[next] = "conflict"
        /\ s # next => fate'[s] = says
        /\ s = next => fate'[s] \in {says, "conflict"}
    BY <1>h, DoneIs
  <1>2. Known \subseteq Revs /\ 0 \notin Known /\ completed \subseteq Known
    BY KnownRevs DEF Typed
  <1>3. ASSUME NEW x \in completed', Current(x)
        PROVE  fate'[x] \in {"pushed", "permanent", "conflict"} \/ x \in retryCount' \/ log[x] \in skipped
    <2>1. CASE x = s /\ done
      BY <1>1, <1>3, <2>1
    <2>2. CASE x = next /\ x # s
      BY <1>1, <1>2, <1>3, <2>2
    <2>3. CASE x # next /\ x # s
      <3>1. x \in completed /\ fate'[x] = fate[x]
        BY <1>1, <1>2, <2>3
      <3>2. QED BY <1>3, <3>1 DEF PushedUpToCheckpoint
    <2>4. CASE x = s /\ ~done
      BY <1>1, <1>2, <1>3, <2>4
    <2>5. QED BY <2>1, <2>2, <2>3, <2>4
  <1>4. QED BY <1>3 DEF PushedUpToCheckpoint, Current

(* Where doneWithRev() is called: when the peer does not want a revision,  *)
(* when there is nothing to send, and when the peer has answered.          *)
LEMMA PlacedUnwanted ==
    ASSUME Typed, Placed, OnceThere, PushedUpToCheckpoint, NEW h, h = Head(todo), Responding,
           NEW says, NEW done, DoneWithRev(h, says, done, FALSE), done => says \in {"pushed", "permanent", "conflict"},
           UNCHANGED <<log, skipped, queue, flying, awaiting, retryCount, maxSequence, start>>,
           \A x : x # h /\ At("might", x)' => At("might", x)
    PROVE  Placed' /\ OnceThere' /\ PushedUpToCheckpoint'
  <1>1. /\ At("replying", h) /\ LocalsOnce' /\ pc' \in {"replying", "failing", "sending", "idle"}
        /\ h \in retryCount \/ ~At("replying", h)'
        /\ \A x : At("replying", x)' => At("replying", x)
        /\ \A x : ~At("kept", x)' /\ ~At("got", x)'
    BY RespondingAt DEF OnceThere
  <1>2. h \in Known /\ Fresh' \subseteq Fresh
    BY ResponseIs, StillFresh
  <1>3. Read \subseteq Read'
    BY <1>1 DEF Read, Responding
  <1>4. OthersStay(h)
    <2>1. ASSUME NEW x, x # h, NEW p \in PlaceNames \ {"list", "held"}, At(p, x)' PROVE At(p, x)
      <3>1. CASE p \in {"replying", "kept", "got"}
        BY <1>1, <2>1, <3>1
      <3>2. CASE p = "might"
        BY <2>1, <3>2
      <3>3. CASE p \in {"queue", "flying", "awaiting"}
        BY <2>1, <3>3 DEF At
      <3>4. QED BY <3>1, <3>2, <3>3 DEF PlaceNames
    <2>2. QED BY <2>1 DEF OthersStay
  <1>5. ASSUME h \in Fresh' PROVE Leaves(h, "might")
    <2>1. ASSUME NEW p \in PlaceNames \ {"list", "held"}, At(p, h)' PROVE p = "might"
      <3>1. CASE p \in {"replying", "kept", "got"}
        BY <1>1, <1>2, <1>5, <2>1, <3>1 DEF Fresh
      <3>3. CASE p \in {"queue", "flying", "awaiting"}
        <4>1. At(p, h)
          BY <2>1, <3>3 DEF At
        <4>2. p = "replying"
          BY <1>1, <1>2, <1>5, <4>1 DEF Placed, OnePlace, PlaceNames
        <4>3. QED BY <3>3, <4>2
      <3>4. QED BY <3>1, <3>3 DEF PlaceNames
    <2>2. QED BY <2>1 DEF Leaves
  <1>6. Placed' /\ ListsOnce(lists', retryCount') /\ HeldOnce(nextRev', retryCount')
    <2>1. "replying" \in PlaceNames \ {"list", "held", "might"} /\ "might" \in PlaceNames /\ retryCount \subseteq retryCount'
      BY DEF PlaceNames
    <2>2. QED BY <1>1, <1>2, <1>3, <1>4, <1>5, <2>1, PlacedDone
  <1>7. OnceThere'
    BY <1>1, <1>6 DEF OnceThere
  <1>8. PushedUpToCheckpoint'
    <2>1. retryCount \subseteq retryCount'
      OBVIOUS
    <2>2. h \notin completed \/ h \in retryCount'
      BY <1>1, <1>2 DEF Placed, Pending, Fresh, PlaceNames
    <2>3. QED BY <1>2, <2>1, <2>2, DealtDone
  <1>9. QED BY <1>6, <1>7, <1>8

LEMMA PlacedRefused ==
    ASSUME Typed, Placed, OnceThere, PushedUpToCheckpoint,
           DropRev \/ (\E says \in {"pushed", "permanent"} : DontWantRev(says)) \/ (\E b \in BOOLEAN : Conflict(b))
    PROVE  Placed' /\ OnceThere' /\ PushedUpToCheckpoint'
  <1> USE DEF db, feed, flags, docs, revs, retries, locals
  <1>h. PICK h : h = Head(todo)
    OBVIOUS
  <1>1. ASSUME NEW says \in {"pushed", "permanent"}, DontWantRev(says) PROVE Placed' /\ OnceThere' /\ PushedUpToCheckpoint'
    <2>1. /\ Responding /\ DoneWithRev(h, says, TRUE, FALSE)
          /\ UNCHANGED <<log, skipped, queue, flying, awaiting, retryCount, mightRetry, maxSequence, start>>
      BY <1>1, <1>h DEF DontWantRev, Responding, NextResponse
    <2>2. \A x : x # h /\ At("might", x)' => At("might", x)
      BY <2>1 DEF At
    <2>3. QED BY <1>h, <2>1, <2>2, PlacedUnwanted
  <1>2. ASSUME NEW b \in BOOLEAN, Conflict(b) PROVE Placed' /\ OnceThere' /\ PushedUpToCheckpoint'
    <2>1. /\ Responding /\ DoneWithRev(h, "conflict", TRUE, FALSE)
          /\ mightRetry' = mightRetry \/ mightRetry' = [mightRetry EXCEPT ![log[h]] = h]
          /\ UNCHANGED <<log, skipped, queue, flying, awaiting, retryCount, maxSequence, start>>
      BY <1>2, <1>h DEF Conflict, Responding, NextResponse
    <2>2. ASSUME NEW x, x # h, NEW d \in Docs, mightRetry'[d] = x PROVE mightRetry[d] = x
      BY <2>1, <2>2 DEF Typed
    <2>3. \A x : x # h /\ At("might", x)' => At("might", x)
      BY <2>2 DEF At
    <2>4. QED BY <1>h, <2>1, <2>3, PlacedUnwanted
  <1>3. CASE DropRev
    <2>1. /\ Responding /\ DoneWithRev(h, "dropped", FALSE, FALSE)
          /\ UNCHANGED <<log, skipped, queue, flying, awaiting, retryCount, mightRetry, maxSequence, start>>
      BY <1>3, <1>h DEF DropRev, Responding
    <2>2. \A x : x # h /\ At("might", x)' => At("might", x)
      BY <2>1 DEF At
    <2>3. QED BY <1>h, <2>1, <2>2, PlacedUnwanted
  <1>4. QED BY <1>1, <1>2, <1>3

LEMMA PlacedNoRev ==
    ASSUME Typed, Placed, OnceThere, PushedUpToCheckpoint, NEW says \in {"none", "permanent"}, SendNoRev(says)
    PROVE  Placed' /\ OnceThere' /\ PushedUpToCheckpoint'
  <1> USE DEF db, feed, flags, docs, revs, retries, locals
  <1>h. PICK h : h = Head(queue)
    OBVIOUS
  <1>0. /\ pc = "sending" /\ queue # << >> /\ queue' = Tail(queue) /\ DoneWithRev(h, says, TRUE, FALSE)
        /\ pc' \in {"sending", "idle"} /\ (says = "permanent" \/ ~Current(h))
        /\ UNCHANGED <<log, skipped, flying, awaiting, mightRetry, retryCount, maxSequence, start, todo, kept>>
    BY <1>h DEF SendNoRev, CanSend, MaybeSendMoreRevs
  <1>1. queue \in Seq(Known) /\ h \in Known /\ Elements(queue) = {h} \cup Elements(queue')
    BY <1>0, <1>h, QueueIs DEF Typed
  <1>2. Once(queue', retryCount) /\ (h \in retryCount \/ h \notin Elements(queue'))
    BY <1>0, <1>1, <1>h, OnceTail DEF OnceThere
  <1>3. At("queue", h) /\ Fresh' \subseteq Fresh /\ Read \subseteq Read' /\ retryCount \subseteq retryCount'
    BY <1>0, <1>1, StillFresh DEF At, Read
  <1>4. OthersStay(h)
    <2>1. ASSUME NEW x, x # h, NEW p \in PlaceNames \ {"list", "held"}, At(p, x)' PROVE At(p, x)
      BY <1>0, <1>1, <2>1 DEF At, PlaceNames
    <2>2. QED BY <2>1 DEF OthersStay
  <1>5. ASSUME h \in Fresh' PROVE Leaves(h, "might")
    <2>1. ASSUME NEW p \in PlaceNames \ {"list", "held"}, At(p, h)', p # "might" PROVE FALSE
      <3>1. h \notin Elements(queue')
        BY <1>2, <1>3, <1>5 DEF Fresh
      <3>2. At(p, h) /\ p # "queue"
        BY <1>0, <2>1, <3>1 DEF At, PlaceNames
      <3>3. QED BY <1>3, <1>5, <3>2 DEF Placed, OnePlace, PlaceNames
    <2>2. QED BY <2>1 DEF Leaves
  <1>6. Placed' /\ ListsOnce(lists', retryCount') /\ HeldOnce(nextRev', retryCount')
    <2>1. "queue" \in PlaceNames \ {"list", "held", "might"} /\ "might" \in PlaceNames
      BY DEF PlaceNames
    <2>2. QED BY <1>0, <1>1, <1>3, <1>4, <1>5, <2>1, PlacedDone
  <1>7. OnceThere'
    BY <1>0, <1>2, <1>6 DEF OnceThere, LocalsOnce
  <1>8. PushedUpToCheckpoint'
    BY <1>0, <1>1, <1>3, DealtDone
  <1>9. QED BY <1>6, <1>7, <1>8

LEMMA PlacedReplied ==
    ASSUME Typed, Placed, OnceThere, PushedUpToCheckpoint, NEW s \in awaiting, pc = "idle", awaiting' = awaiting \ {s},
           NEW says, NEW done \in BOOLEAN, NEW again, DoneWithRev(s, says, done, again), pc' \in {"sending", "idle"},
           UNCHANGED <<log, skipped, flying, mightRetry, maxSequence, start>>, retryCount \subseteq retryCount',
           queue' = queue \/ (~done /\ queue' = <<s>> \o queue), done => says \in {"pushed", "permanent"}
    PROVE  Placed' /\ OnceThere' /\ PushedUpToCheckpoint'
  <1>1. s \in Known /\ queue \in Seq(Known)
    BY DEF Typed
  <1>2. At("awaiting", s) /\ Fresh' \subseteq Fresh /\ Read \subseteq Read'
    BY StillFresh DEF At, Read
  <1>3. s \in Fresh \/ s \in retryCount
    BY <1>1 DEF Fresh
  <1>4. s \notin completed \/ s \in retryCount'
    BY <1>2, <1>3 DEF Placed, Pending, PlaceNames
  <1>5. PushedUpToCheckpoint'
    BY <1>1, <1>4, DealtDone
  <1>6. s \in retryCount \/ s \notin Elements(queue)
    <2>1. s \in Fresh => ~At("queue", s)
      BY <1>2 DEF Placed, OnePlace, PlaceNames
    <2>2. QED BY <1>3, <2>1 DEF At
  <1>7. Elements(queue') \subseteq Elements(queue) \cup {s} /\ Once(queue', retryCount)
    <2>1. CASE queue' = queue
      BY <2>1 DEF OnceThere
    <2>2. CASE queue' = <<s>> \o queue
      <3>1. Elements(queue') = {s} \cup Elements(queue)
        BY <1>1, <2>2, ConsElements
      <3>2. Once(queue', retryCount)
        BY <1>1, <1>6, <2>2, OnceCons DEF OnceThere
      <3>3. QED BY <3>1, <3>2
    <2>3. QED BY <2>1, <2>2
  <1>8. OthersStay(s)
    <2>1. ASSUME NEW x, x # s, NEW p \in PlaceNames \ {"list", "held"}, At(p, x)' PROVE At(p, x)
      BY <1>7, <2>1 DEF At, PlaceNames
    <2>2. QED BY <2>1 DEF OthersStay
  <1>9. PICK to \in {"might", "queue"} : (to = "might" /\ queue' = queue) \/ (to = "queue" /\ ~done)
    OBVIOUS
  <1>10. ASSUME s \in Fresh' PROVE Leaves(s, to)
    <2>0. s \in Fresh
      BY <1>2, <1>10
    <2>1. ASSUME NEW p \in PlaceNames \ {"list", "held"}, At(p, s)', p # to PROVE FALSE
      <3>1. p \notin {"awaiting", "replying", "kept", "got"}
        BY <2>1 DEF At
      <3>2. CASE p \in {"flying", "might"}
        <4>1. At(p, s)
          BY <2>1, <3>2 DEF At
        <4>2. QED BY <1>2, <2>0, <3>2, <4>1 DEF Placed, OnePlace, PlaceNames
      <3>3. CASE p = "queue"
        <4>1. queue' = queue
          BY <1>9, <2>1, <3>3
        <4>2. QED BY <1>6, <2>0, <2>1, <3>3, <4>1 DEF At, Fresh
      <3>4. QED BY <2>1, <3>1, <3>2, <3>3 DEF PlaceNames
    <2>2. QED BY <2>1 DEF Leaves
  <1>11. Placed' /\ ListsOnce(lists', retryCount') /\ HeldOnce(nextRev', retryCount')
    <2>1. "awaiting" \in PlaceNames \ {"list", "held", "might"} /\ to \in PlaceNames /\ (done => to = "might")
      BY <1>9 DEF PlaceNames
    <2>2. QED BY <1>1, <1>2, <1>8, <1>10, <2>1, PlacedDone
  <1>12. OnceThere'
    <2>1. Once(queue', retryCount')
      BY <1>7, OnceGrows
    <2>2. QED BY <1>11, <2>1 DEF OnceThere, LocalsOnce
  <1>13. QED BY <1>5, <1>11, <1>12

LEMMA PlacedReplies ==
    ASSUME Typed, Placed, OnceThere, Retried, PushedUpToCheckpoint, NEW s \in awaiting,
           (\E e : RevReply(s, e)) \/ RetryLater(s) \/ RetryNow(s)
    PROVE  Placed' /\ OnceThere' /\ Retried' /\ PushedUpToCheckpoint'
  <1> USE DEF db, feed, flags, docs, revs, retries, locals
  <1>1. ASSUME NEW e, RevReply(s, e) PROVE Placed' /\ OnceThere' /\ Retried' /\ PushedUpToCheckpoint'
    <2> DEFINE says == IF e \in {"pushed", "transient"} THEN e ELSE "permanent"
               done == e # "transient"
    <2>1. /\ pc = "idle" /\ awaiting' = awaiting \ {s} /\ DoneWithRev(s, says, done, FALSE) /\ pc' \in {"sending", "idle"}
          /\ UNCHANGED <<log, skipped, queue, flying, mightRetry, toRetry, retryCount, maxSequence, start>>
      BY <1>1 DEF RevReply, CanReceive, Ready, MaybeSendMoreRevs
    <2>2. (done => says \in {"pushed", "permanent"}) /\ done \in BOOLEAN /\ retryCount \subseteq retryCount'
      BY <2>1
    <2>3. Retried'
      BY <2>1 DEF Retried
    <2> HIDE DEF says, done
    <2>4. QED BY <2>1, <2>2, <2>3, PlacedReplied
  <1>2. ASSUME RetryLater(s) PROVE Placed' /\ OnceThere' /\ Retried' /\ PushedUpToCheckpoint'
    <2>1. /\ pc = "idle" /\ awaiting' = awaiting \ {s} /\ DoneWithRev(s, "none", FALSE, FALSE) /\ pc' \in {"sending", "idle"}
          /\ toRetry' = Append(toRetry, s) /\ retryCount' = retryCount \cup {s}
          /\ UNCHANGED <<log, skipped, queue, flying, mightRetry, maxSequence, start>>
      BY <1>2 DEF RetryLater, CanReceive, Ready, MaybeSendMoreRevs
    <2>2. Retried'
      <3>1. s \in Known /\ toRetry \in Seq(Known)
        BY DEF Typed
      <3>2. Elements(toRetry') = Elements(toRetry) \cup {s}
        BY <2>1, <3>1, AppendElements
      <3>3. QED BY <2>1, <3>2 DEF Retried
    <2>3. retryCount \subseteq retryCount' /\ FALSE \in BOOLEAN
      BY <2>1
    <2>4. QED BY <2>1, <2>2, <2>3, PlacedReplied
  <1>3. ASSUME RetryNow(s) PROVE Placed' /\ OnceThere' /\ Retried' /\ PushedUpToCheckpoint'
    <2>1. /\ pc = "idle" /\ awaiting' = awaiting \ {s} /\ DoneWithRev(s, "none", FALSE, TRUE) /\ pc' \in {"sending", "idle"}
          /\ queue' = <<s>> \o queue
          /\ UNCHANGED <<log, skipped, flying, mightRetry, toRetry, retryCount, maxSequence, start>>
      BY <1>3 DEF RetryNow, CanReceive, Ready, MaybeSendMoreRevs
    <2>2. Retried' /\ retryCount \subseteq retryCount' /\ FALSE \in BOOLEAN
      BY <2>1 DEF Retried
    <2>3. QED BY <2>1, <2>2, PlacedReplied
  <1>4. QED BY <1>1, <1>2, <1>3

(* What might be retried is kept under its own document only. *)
LEMMA PlacedAncestor ==
    ASSUME Typed, Work, Placed, OnceThere, PushedUpToCheckpoint, NEW d \in Docs, NEW retry \in BOOLEAN,
           RemoteAncestorChanged(d, retry)
    PROVE  Placed' /\ OnceThere' /\ PushedUpToCheckpoint'
  <1> USE DEF db, feed, flags, docs, revs, retries, locals
  <1>h. PICK h : h = mightRetry[d]
    OBVIOUS
  <1>0. /\ pc = "idle" /\ pc' = pc /\ h # 0 /\ mightRetry' = [mightRetry EXCEPT ![d] = 0]
        /\ IF retry
           THEN completed' = completed \ {h} /\ lists' = lists \cup {<<h>>} /\ fate' = [fate EXCEPT ![h] = "none"]
           ELSE UNCHANGED <<completed, lists, fate>>
        /\ UNCHANGED <<log, skipped, nextRev, queue, flying, awaiting, retryCount, maxSequence, start>>
    BY <1>h DEF RemoteAncestorChanged, CanReceive, Ready
  <1>1. /\ mightRetry'[d] = 0 /\ (\A e \in Docs \ {d} : mightRetry'[e] = mightRetry[e]) /\ h \in Known
        /\ Known \subseteq Revs /\ 0 \notin Known
    BY <1>0, <1>h, KnownRevs DEF Typed
  <1>2. At("might", h) /\ Fresh' \subseteq Fresh /\ Read \subseteq Read'
    BY <1>0, <1>h, StillFresh DEF At, Read
  <1>3. ~At("might", h)'
    <2>1. ASSUME NEW e \in Docs, mightRetry'[e] = h PROVE FALSE
      <3>1. e # d /\ mightRetry[e] = h
        BY <1>0, <1>1, <2>1
      <3>2. log[h] = e /\ log[h] = d
        BY <1>0, <1>h, <3>1 DEF Work, RetriedDocs
      <3>3. QED BY <3>1, <3>2
    <2>2. QED BY <2>1 DEF At
  <1>4. ASSUME NEW x, x # 0 PROVE At("might", x)' => At("might", x)
    BY <1>1, <1>4 DEF At
  <1>5. ASSUME NEW x, NEW p \in PlaceNames, At(p, x)', p \notin {"list", "might"} PROVE At(p, x)
    BY <1>0, <1>5 DEF At, PlaceNames
  <1>6. Elements(<<h>>) = {h}
    BY <1>1, SingleElements
  <1>7. ASSUME NEW x, x # h \/ ~retry PROVE At("list", x)' => At("list", x)
    <2>1. CASE retry
      BY <1>0, <1>6, <1>7, <2>1 DEF At
    <2>2. CASE ~retry
      BY <1>0, <2>2 DEF At
    <2>3. QED BY <2>1, <2>2
  <1>8. h \in Fresh => \A p \in PlaceNames \ {"might"} : ~At(p, h)
    BY <1>2 DEF Placed, OnePlace, PlaceNames
  <1>9. ASSUME NEW x \in Fresh' PROVE Goes(x)
    <2>0. x \in Fresh /\ x # 0
      BY <1>1, <1>2 DEF Fresh
    <2>1. CASE x = h /\ retry
      <3>1. x \notin completed'
        BY <1>0, <2>1
      <3>2. ASSUME NEW p \in PlaceNames, At(p, x)', p # "list" PROVE FALSE
        <4>1. p # "might"
          BY <1>3, <2>1, <3>2
        <4>2. At(p, x)
          BY <1>5, <3>2, <4>1
        <4>3. QED BY <1>8, <2>0, <2>1, <4>1, <4>2
      <3>3. Only(x, "list")
        BY <3>2 DEF Only
      <3>4. Moves(x, "might", "list")
        BY <1>2, <2>1, <3>1, <3>3 DEF Moves
      <3>5. QED BY <3>1, <3>4 DEF Goes, PlaceNames
    <2>2. CASE x # h \/ ~retry
      <3>1. ASSUME NEW p \in PlaceNames, At(p, x)' PROVE At(p, x)
        BY <1>4, <1>5, <1>7, <2>0, <2>2, <3>1
      <3>2. Stays(x)
        BY <3>1 DEF Stays
      <3>3. x \in completed' => x \in completed
        BY <1>0
      <3>4. QED BY <3>2, <3>3 DEF Goes
    <2>3. QED BY <2>1, <2>2
  <1>10. Placed'
    BY <1>2, <1>9, PlacedNext
  <1>11. ListsOnce(lists', retryCount)
    <2>1. ListsOnce(lists, retryCount)
      BY DEF OnceThere
    <2>2. CASE retry
      <3> DEFINE k == <<h>>
      <3>1. Once(k, retryCount) /\ Elements(k) = {h} /\ lists' = lists \cup {k}
        BY <1>0, <1>6, <2>2, OnceSingle
      <3> HIDE DEF k
      <3>2. ASSUME NEW x \in Elements(k) \ retryCount, NEW l \in lists PROVE x \notin Elements(l)
        <4>1. x = h /\ h \in Fresh
          BY <1>1, <3>1 DEF Fresh
        <4>2. ~At("list", h)
          BY <1>8, <4>1 DEF PlaceNames
        <4>3. QED BY <4>1, <4>2 DEF At
      <3>3. QED BY <2>1, <3>1, <3>2, ListsAdd
    <2>3. CASE ~retry
      BY <1>0, <2>1, <2>3
    <2>4. QED BY <2>2, <2>3
  <1>12. OnceThere'
    BY <1>0, <1>11 DEF OnceThere, LocalsOnce
  <1>13. PushedUpToCheckpoint'
    <2>1. CASE retry
      <3>1. ASSUME NEW x \in completed' PROVE x \in completed /\ fate'[x] = fate[x]
        <4>1. x \in completed /\ x # h /\ fate' = [fate EXCEPT ![h] = "none"]
          BY <1>0, <2>1
        <4>2. x \in Revs
          BY <1>1, <4>1 DEF Typed
        <4>3. QED BY <4>1, <4>2 DEF Typed
      <3>2. QED BY <1>0, <3>1 DEF PushedUpToCheckpoint, Current
    <2>2. CASE ~retry
      BY <1>0, <2>2, SameDealt
    <2>3. QED BY <2>1, <2>2
  <1>14. QED BY <1>10, <1>12, <1>13

LEMMA PlacedRetry ==
    ASSUME Typed, Locals, Work, Placed, OnceThere, Retried, PushedUpToCheckpoint, RetryRevs
    PROVE  Placed' /\ OnceThere' /\ Retried' /\ GotInOrder' /\ PushedUpToCheckpoint'
  <1> USE DEF db, feed, flags, docs, revs, retries, locals
  <1>0. /\ pc = "idle" /\ pc' = "got" /\ ~Busy /\ todo' = toRetry /\ toRetry' = << >>
        /\ UNCHANGED <<log, skipped, lists, queue, flying, awaiting, nextRev, mightRetry, retryCount, completed, fate,
                       maxSequence, start, kept>>
    BY DEF RetryRevs, MustRetry
  <1>1. kept = << >> /\ Elements(kept') = {} /\ Elements(todo') \subseteq retryCount
    BY <1>0, EmptyElements DEF Locals, Retried
  <1>2. ASSUME NEW x \in Fresh' PROVE Goes(x)
    <2>1. x \in Fresh /\ x \notin Elements(todo') /\ x \notin Elements(kept')
      BY <1>0, <1>1, StillFresh DEF Fresh
    <2>2. Stays(x)
      BY <1>0, <2>1 DEF Stays, At
    <2>3. QED BY <1>0, <2>2 DEF Goes
  <1>3. Placed'
    <2>1. Read \subseteq Read'
      BY <1>0 DEF Read
    <2>2. QED BY <1>0, <1>2, <2>1, StillFresh, PlacedNext
  <1>4. OnceThere'
    <2>1. Once(todo', retryCount)
      BY <1>1, OnceAll
    <2>2. Once(kept', retryCount)
      BY <1>0, <1>1, OnceEmpty
    <2>3. QED BY <1>0, <2>1, <2>2 DEF OnceThere, LocalsOnce
  <1>5. Retried'
    BY <1>0, EmptyElements DEF Retried
  <1>6. GotInOrder'
    <2>1. ASSUME NEW x PROVE x \notin InWork
      <3>1. lists = {} /\ queue = << >> /\ flying = {} /\ awaiting = {}
        BY <1>0 DEF Busy
      <3>2. QED BY <1>0, <3>1, EmptyElements, InWorkIs
    <2>2. ASSUME NEW x \in Revs PROVE nextRev[x] = 0
      BY <2>1 DEF Work, HoldersInWork
    <2>3. ASSUME NEW y \in Elements(todo') PROVE y \in Nat /\ 0 < y
      <3>1. y \in Known
        BY <1>1 DEF Typed
      <3>2. y \in Nat /\ y # 0
        BY <3>1, KnownRevs
      <3>3. QED BY <3>2
    <2>4. QED BY <1>0, <1>1, <2>2, <2>3 DEF GotInOrder
  <1>7. PushedUpToCheckpoint'
    BY <1>0, SameDealt
  <1>8. QED BY <1>3, <1>4, <1>5, <1>6, <1>7

(* The feed: what it hands to gotChanges() is beyond all that was read     *)
(* before, and so is in no other place.                                    *)
LEMMA PlacedNew ==
    ASSUME Typed, Placed, OnceThere, PushedUpToCheckpoint, pc' = "got", kept' = << >>, todo' \in Seq(Known),
           NEW a \in 0 .. Len(log), NEW m \in 0 .. Len(log), Read = 1 .. a, Read' = 1 .. m, a <= m,
           NEW new, new = Elements(todo'), new \subseteq a + 1 .. m, Increasing(todo'),
           completed' = (completed \cup (a + 1 .. m)) \ new,
           \A s \in a + 1 .. m : Current(s) => s \in new \/ log[s] \in skipped \/ s \in completed,
           UNCHANGED <<log, skipped, lists, queue, flying, awaiting, nextRev, mightRetry, retryCount, fate>>
    PROVE  Placed' /\ OnceThere' /\ GotInOrder' /\ PushedUpToCheckpoint'
  <1>1. a \in Nat /\ m \in Nat /\ Fresh' \subseteq Fresh /\ Read \subseteq Read'
    <2>1. Len(log) \in Nat
      BY KnownRevs
    <2>2. a \in Nat /\ m \in Nat
      BY <2>1
    <2>3. QED BY <2>2, StillFresh
  <1>2. ASSUME NEW x \in Fresh, x \notin 1 .. a, NEW p \in PlaceNames PROVE ~At(p, x)
    BY <1>2 DEF Placed, PlacesRead
  <1>3. Elements(kept') = {}
    BY EmptyElements
  <1>4. ASSUME NEW x, NEW p \in PlaceNames, At(p, x)', p # "got" PROVE At(p, x)
    BY <1>3, <1>4 DEF At, PlaceNames
  <1>5. ASSUME NEW x \in Fresh' PROVE Goes(x)
    <2>0. x \in Fresh
      BY <1>1
    <2>1. CASE x \in new
      <3>1. x \in a + 1 .. m
        BY <2>1
      <3>2. x \notin 1 .. a /\ x \in 1 .. m /\ x \notin completed'
        BY <1>1, <2>1, <3>1
      <3>3. Only(x, "got")
        BY <1>2, <1>4, <2>0, <3>2 DEF Only
      <3>4. Arrives(x)
        BY <3>2, <3>3 DEF Arrives, PlaceNames
      <3>5. QED BY <3>4 DEF Goes
    <2>2. CASE x \notin new
      <3>1. ~At("got", x)'
        BY <2>2 DEF At
      <3>2. Stays(x)
        BY <1>4, <3>1 DEF Stays
      <3>3. CASE x \in 1 .. a
        <4>1. x \in completed' => x \in completed
          BY <1>1, <3>3
        <4>2. QED BY <3>2, <4>1 DEF Goes
      <3>4. CASE x \notin 1 .. a
        <4>1. Only(x, "might")
          BY <1>2, <2>0, <3>2, <3>4 DEF Only, Stays
        <4>2. QED BY <3>2, <4>1 DEF Goes
      <3>5. QED BY <3>3, <3>4
    <2>3. QED BY <2>1, <2>2
  <1>6. Placed'
    BY <1>1, <1>5, PlacedNext
  <1>7. OnceThere'
    <2>1. todo' \in Seq(Nat)
      BY SeqGrows, KnownRevs
    <2>2. Once(todo', retryCount)
      BY <2>1, OnceIncreasing
    <2>3. Once(kept', retryCount)
      BY OnceEmpty
    <2>4. QED BY <2>2, <2>3 DEF OnceThere, LocalsOnce
  <1>8. GotInOrder'
    <2>1. ASSUME NEW x \in Revs, NEW y \in new PROVE nextRev[x] < y \/ nextRev[x] \in retryCount
      <3>1. y \in a + 1 .. m
        OBVIOUS
      <3> DEFINE v == nextRev[x]
      <3>2. v \in Known \cup {0}
        BY DEF Typed
      <3>3. ASSUME v \in Fresh PROVE v \in 1 .. a
        <4>1. At("held", v)
          BY DEF At
        <4>2. QED BY <1>2, <3>3, <4>1 DEF PlaceNames
      <3> HIDE DEF v
      <3>4. v < y \/ v \in retryCount
        <4>1. v = 0 \/ v \in Fresh \/ v \in retryCount
          BY <3>2 DEF Fresh
        <4>2. CASE v = 0
          BY <1>1, <3>1, <4>2
        <4>3. CASE v \in Fresh
          BY <1>1, <3>1, <3>3, <4>3
        <4>4. QED BY <4>1, <4>2, <4>3
      <3>5. QED BY <3>4 DEF v
    <2>2. QED BY <2>1 DEF GotInOrder
  <1>9. PushedUpToCheckpoint'
    <2>1. ASSUME NEW x \in completed', Current(x)
          PROVE  fate[x] \in {"pushed", "permanent", "conflict"} \/ x \in retryCount \/ log[x] \in skipped
      BY <2>1 DEF PushedUpToCheckpoint
    <2>2. QED BY <2>1 DEF PushedUpToCheckpoint, Current
  <1>10. QED BY <1>6, <1>7, <1>8, <1>9

LEMMA KeepsObserved ==
    ASSUME Typed, Observed, ReadInOrder, KeptAll, NEW push \in BOOLEAN, ObserveChange(push)
    PROVE  KeptAll'
  <1> USE DEF db, feed, flags, docs, revs, retries, locals
  <1>h. PICK h : h = Head(todo)
    OBVIOUS
  <1> DEFINE others == {t \in Elements(kept) : log[t] # log[h]}
             K == Elements(kept)
  <1>1. /\ pc = "observing" /\ pc' = pc /\ todo # << >> /\ h \in Known /\ Elements(todo) = {h} \cup Elements(Tail(todo))
        /\ maxSequence' = IF h <= start THEN maxSequence ELSE h
        /\ kept' \in Seq(Known) /\ UNCHANGED <<log, skipped, start, unread, feedCaughtUp, announced>>
    BY <1>h, ObserveChangeIs
  <1>2. /\ kept' = IF push THEN Append(InOrder(others), h) ELSE kept
        /\ push => ~(h <= start) /\ log[h] \notin skipped
        /\ ~push => h <= start \/ log[h] \in skipped \/ ~Current(h)
    BY <1>h DEF ObserveChange
  <1>3. /\ Increasing(kept) /\ K \subseteq start + 1 .. maxSequence
        /\ \A s \in start + 1 .. maxSequence : Current(s) => s \in K \/ log[s] \in skipped
    BY <1>1 DEF KeptAll
  <1>4. \A s : Current(s)' <=> Current(s)
    BY <1>1 DEF Current
  <1>5. CASE h <= start
    <2>1. kept' = kept /\ maxSequence' = maxSequence
      BY <1>1, <1>2, <1>5
    <2>2. QED BY <1>1, <1>3, <1>4, <2>1 DEF KeptAll
  <1>6. CASE ~(h <= start)
    <2>1. maxSequence' = h
      BY <1>1, <1>6
    <2>2. /\ start <= maxSequence /\ h \in 1 .. announced /\ h > maxSequence
          /\ \A x \in unread : h < x
          /\ \A y \in Elements(Tail(todo)) : h < y
      <3>1. h \in Elements(todo) /\ todo \in Seq(Nat)
        BY <1>1, SeqGrows, KnownRevs DEF Typed
      <3>2. \A y \in Elements(Tail(todo)) : h < y
        BY <1>1, <1>h, <3>1, IncreasingTail DEF ReadInOrder
      <3>3. QED BY <1>1, <1>6, <3>1, <3>2 DEF ReadInOrder
    <2>3. start \in Nat /\ maxSequence \in Nat /\ announced \in Nat /\ Len(log) \in Nat /\ announced <= Len(log) /\ h \in Nat
      BY <2>2 DEF Typed
    <2>4. \A t \in K : t < h /\ t \in Nat /\ t \in start + 1 .. h
      BY <1>3, <2>2, <2>3
    <2>5. ASSUME push PROVE Increasing(kept') /\ Elements(kept') = others \cup {h}
      <3>1. kept' = Append(InOrder(others), h)
        BY <1>2, <2>5
      <3>2. others \in SUBSET (1 .. h) /\ others \subseteq Nat /\ \A t \in others : t < h
        BY <2>3, <2>4
      <3> HIDE DEF others
      <3>3. InOrder(others) \in Seq(others) /\ Elements(InOrder(others)) = others /\ Increasing(InOrder(others))
        BY <2>3, <3>2, InOrderIs
      <3>4. InOrder(others) \in Seq(Nat)
        BY <3>2, <3>3, SeqGrows
      <3>5. Increasing(Append(InOrder(others), h))
        BY <2>3, <3>2, <3>3, <3>4, IncreasingAppend
      <3>6. Elements(Append(InOrder(others), h)) = others \cup {h}
        BY <2>3, <3>3, <3>4, AppendElements
      <3>7. QED BY <3>1, <3>5, <3>6
    <2>6. ASSUME NEW s \in start + 1 .. h, Current(s) PROVE s \in Elements(kept') \/ log[s] \in skipped
      <3>1. CASE s = h
        BY <1>2, <1>6, <2>5, <2>6, <3>1
      <3>2. CASE s <= maxSequence
        <4>1. s \in K \/ log[s] \in skipped
          BY <1>3, <2>3, <2>6, <3>2
        <4>2. s < h /\ h \in s + 1 .. Len(log)
          BY <2>2, <2>3, <3>2
        <4>3. log[s] # log[h]
          BY <2>6, <4>2 DEF Current
        <4>4. s \in K => s \in Elements(kept')
          BY <1>2, <2>5, <4>3
        <4>5. QED BY <4>1, <4>4
      <3>3. CASE s # h /\ ~(s <= maxSequence)
        <4>1. s < h /\ s \in maxSequence + 1 .. announced
          BY <2>2, <2>3, <3>3
        <4>2. s \in unread \/ s \in Elements(todo)
          BY <1>1, <2>6, <4>1 DEF Observed
        <4>3. QED BY <1>1, <2>2, <2>3, <3>3, <4>1, <4>2
      <3>4. QED BY <3>1, <3>2, <3>3
    <2>7. Increasing(kept') /\ Elements(kept') \subseteq start + 1 .. h
      <3>1. CASE push
        <4>1. h \in start + 1 .. h
          BY <1>6, <2>3
        <4>2. QED BY <2>4, <2>5, <3>1, <4>1
      <3>2. CASE ~push
        BY <1>2, <1>3, <2>4, <3>2
      <3>3. QED BY <3>1, <3>2
    <2>8. QED BY <1>1, <1>4, <2>1, <2>6, <2>7 DEF KeptAll
  <1>7. QED BY <1>5, <1>6

LEMMA DealtFeed ==
    ASSUME IInv, DInv, ChangesFeed
    PROVE  DInv'
  <1> USE DEF db, feed, flags, docs, revs, retries, locals
  <1>0. /\ Typed /\ Locals /\ Observed /\ ReadInOrder
        /\ Placed /\ OnceThere /\ GotInOrder /\ Retried /\ KeptAll /\ PushedUpToCheckpoint
    BY DEF IInv, DInv
  <1>1. UNCHANGED <<log, skipped, lists, queue, flying, awaiting, nextRev, mightRetry, toRetry, retryCount, fate>>
    BY DEF ChangesFeed, GetHistoricalChanges, GetObservedChanges, ReadObserver, ObserveChange, ObservedAll
  <1>2. Retried'
    BY <1>0, <1>1 DEF Retried
  <1>3. \A s : Current(s)' <=> Current(s)
    BY <1>1 DEF Current
  <1>4. CASE GetHistoricalChanges
    <2>a. PICK a : a = maxSequence
      OBVIOUS
    <2>m. PICK m : m = maxSequence'
      OBVIOUS
    <2>n. PICK new : new = Elements(todo')
      OBVIOUS
    <2>1. /\ pc = "reading" /\ pc' = "got" /\ todo' \in Seq(Known) /\ m \in 0 .. Len(log) /\ kept' = kept
          /\ completed' = (completed \cup (a + 1 .. m)) \ new
          /\ a <= m /\ new \subseteq a + 1 .. m /\ Increasing(todo')
          /\ \A s \in a + 1 .. m : Current(s) => s \in new \/ log[s] \in skipped \/ s \in completed
      BY <1>0, <1>4, <2>a, <2>m, <2>n, HistoricalIs
    <2>2. Read = 1 .. a /\ Read' = 1 .. m /\ a \in 0 .. Len(log) /\ kept' = << >>
      BY <1>0, <2>1, <2>a, <2>m DEF Read, Typed, Locals
    <2>3. Placed' /\ OnceThere' /\ GotInOrder' /\ PushedUpToCheckpoint'
      BY <1>0, <1>1, <2>1, <2>2, <2>n, PlacedNew
    <2>4. KeptAll'
      BY <2>1 DEF KeptAll
    <2>5. QED BY <1>2, <2>3, <2>4 DEF DInv
  <1>5. CASE ObservedAll
    <2>a. PICK a : a = start
      OBVIOUS
    <2>m. PICK m : m = maxSequence
      OBVIOUS
    <2>n. PICK new : new = Elements(todo')
      OBVIOUS
    <2>1. /\ pc = "observing" /\ pc' = "got" /\ todo' = kept /\ kept' = << >> /\ maxSequence' = maxSequence
          /\ completed' = (completed \cup (a + 1 .. m)) \ new
      BY <1>5, <2>a, <2>m, <2>n DEF ObservedAll, AddPendingSequences
    <2>2. /\ Read = 1 .. a /\ Read' = 1 .. m /\ a \in 0 .. Len(log) /\ m \in 0 .. Len(log) /\ a <= m
          /\ todo' \in Seq(Known)
      BY <1>0, <2>1, <2>a, <2>m DEF Read, Typed, ReadInOrder
    <2>3. /\ new \subseteq a + 1 .. m /\ Increasing(todo')
          /\ \A s \in a + 1 .. m : Current(s) => s \in new \/ log[s] \in skipped \/ s \in completed
      BY <1>0, <2>1, <2>a, <2>m, <2>n DEF KeptAll
    <2>4. Placed' /\ OnceThere' /\ GotInOrder' /\ PushedUpToCheckpoint'
      BY <1>0, <1>1, <2>1, <2>2, <2>3, <2>n, PlacedNew
    <2>5. KeptAll'
      BY <2>1 DEF KeptAll
    <2>6. QED BY <1>2, <2>4, <2>5 DEF DInv
  <1>6. ASSUME pc' = "observing", Read' = Read, completed' = completed, KeptAll' PROVE DInv'
    <2>1. Placed' /\ OnceThere'
      BY <1>0, <1>1, <1>6, NothingMoves
    <2>2. PushedUpToCheckpoint'
      BY <1>0, <1>1, <1>6, SameDealt
    <2>3. GotInOrder'
      BY <1>6 DEF GotInOrder
    <2>4. QED BY <1>2, <1>6, <2>1, <2>2, <2>3 DEF DInv
  <1>7. CASE GetObservedChanges
    <2>1. pc = "reading" /\ pc' = "observing" /\ start' = maxSequence /\ UNCHANGED <<maxSequence, kept, completed>>
      BY <1>7 DEF GetObservedChanges
    <2>2. Read' = Read
      BY <2>1 DEF Read
    <2>3. kept' = << >> /\ Elements(kept') = {} /\ Increasing(kept')
      BY <1>0, <2>1, EmptyElements DEF Locals, Increasing
    <2>4. start' + 1 .. maxSequence' = {}
      <3>1. maxSequence \in Nat
        BY <1>0 DEF Typed
      <3>2. QED BY <2>1, <3>1
    <2>5. KeptAll'
      BY <2>3, <2>4 DEF KeptAll
    <2>6. QED BY <1>6, <2>1, <2>2, <2>5
  <1>8. CASE ReadObserver
    <2>1. pc = "observing" /\ pc' = pc /\ UNCHANGED <<start, maxSequence, kept, completed>>
      BY <1>8 DEF ReadObserver
    <2>2. Read' = Read
      BY <2>1 DEF Read
    <2>3. KeptAll'
      BY <1>0, <1>1, <1>3, <2>1 DEF KeptAll
    <2>4. QED BY <1>6, <2>1, <2>2, <2>3
  <1>9. ASSUME NEW push \in BOOLEAN, ObserveChange(push) PROVE DInv'
    <2>1. pc = "observing" /\ pc' = pc /\ UNCHANGED <<start, completed>>
      BY <1>9 DEF ObserveChange
    <2>2. Read' = Read
      BY <2>1 DEF Read
    <2>3. KeptAll'
      BY <1>0, <1>9, KeepsObserved
    <2>4. QED BY <1>6, <2>1, <2>2, <2>3
  <1>10. QED BY <1>4, <1>5, <1>7, <1>8, <1>9 DEF ChangesFeed

(* A commit adds a revision that is nowhere yet. *)
LEMMA PlacesKnown ==
    ASSUME Typed, NEW x, x # 0, NEW p \in PlaceNames, At(p, x)
    PROVE  x \in Known
  <1>1. ASSUME NEW l \in lists PROVE Elements(l) \subseteq Known
    BY ElementsOf DEF Typed
  <1>2. Elements(queue) \subseteq Known /\ Elements(todo) \subseteq Known /\ Elements(kept) \subseteq Known
    BY ElementsOf DEF Typed
  <1>3. flying \subseteq Known /\ awaiting \subseteq Known
    BY DEF Typed
  <1>4. (\A y \in Revs : nextRev[y] \in Known \cup {0}) /\ \A d \in Docs : mightRetry[d] \in Known \cup {0}
    BY DEF Typed
  <1>5. CASE p \in {"held", "might"}
    BY <1>4, <1>5 DEF At
  <1>6. CASE p \notin {"held", "might"}
    BY <1>1, <1>2, <1>3, <1>6 DEF At
  <1>7. QED BY <1>5, <1>6

LEMMA DealtWriter ==
    ASSUME IInv, DInv, Writer
    PROVE  DInv'
  <1> USE DEF db, feed, flags, docs, revs, retries, locals
  <1>0. /\ Typed /\ Placed /\ OnceThere /\ GotInOrder /\ Retried /\ KeptAll /\ PushedUpToCheckpoint
    BY DEF IInv, DInv
  <1>1. /\ UNCHANGED <<skipped, lists, queue, flying, awaiting, nextRev, mightRetry, toRetry, retryCount, fate, completed,
                       pc, todo, kept, start, maxSequence>>
        /\ log' = log \/ \E d \in Docs : Commit(d)
    BY DEF Writer, Commit, Announce
  <1>2. (\A x \in Known : log'[x] = log[x]) /\ Known \subseteq Known'
    <2>1. CASE log' = log
      BY <2>1 DEF Known
    <2>2. CASE \E d \in Docs : Commit(d)
      <3>1. PICK d \in Docs : log' = Append(log, d)
        BY <2>2 DEF Commit
      <3>2. QED BY <1>0, <3>1 DEF Typed, Known
    <2>3. QED BY <1>1, <2>1, <2>2
  <1>3. \A x \in Known : Current(x)' => Current(x)
    BY <1>0, <1>1, OnceCurrent
  <1>4. Read' = Read
    BY <1>1 DEF Read
  <1>5. Placed'
    <2>1. ASSUME NEW x \in Fresh', NEW p \in PlaceNames, At(p, x)' PROVE x \in Fresh /\ At(p, x)
      <3>1. At(p, x)
        BY <1>1, <2>1 DEF At
      <3>2. x # 0 /\ x \notin retryCount
        BY <1>1 DEF Fresh, Known
      <3>3. x \in Known
        BY <1>0, <3>1, <3>2, PlacesKnown
      <3>4. QED BY <3>1, <3>2, <3>3 DEF Fresh
    <2>2. OnePlace'
      BY <1>0, <2>1 DEF Placed, OnePlace
    <2>3. Pending'
      BY <1>0, <1>1, <2>1 DEF Placed, Pending
    <2>4. PlacesRead'
      BY <1>0, <1>4, <2>1 DEF Placed, PlacesRead
    <2>5. QED BY <2>2, <2>3, <2>4 DEF Placed
  <1>6. OnceThere' /\ GotInOrder' /\ Retried'
    BY <1>0, <1>1 DEF OnceThere, LocalsOnce, GotInOrder, Retried
  <1>7. KeptAll'
    <2>1. ASSUME pc = "observing", NEW s \in start + 1 .. maxSequence, Current(s)'
          PROVE  s \in Elements(kept) \/ log'[s] \in skipped
      <3>1. s \in Known
        BY <1>0 DEF Typed, Known
      <3>2. QED BY <1>0, <1>2, <1>3, <2>1, <3>1 DEF KeptAll
    <2>2. QED BY <1>0, <1>1, <2>1 DEF KeptAll
  <1>8. PushedUpToCheckpoint'
    <2>1. ASSUME NEW x \in completed, Current(x)'
          PROVE  fate[x] \in {"pushed", "permanent", "conflict"} \/ x \in retryCount \/ log'[x] \in skipped
      <3>1. x \in Known
        BY <1>0 DEF Typed
      <3>2. QED BY <1>0, <1>2, <1>3, <2>1, <3>1 DEF PushedUpToCheckpoint
    <2>2. QED BY <1>1, <2>1 DEF PushedUpToCheckpoint
  <1>9. QED BY <1>5, <1>6, <1>7, <1>8 DEF DInv

LEMMA DealtHandler ==
    ASSUME IInv, DInv, Handler
    PROVE  DInv'
  <1> USE DEF db, feed, flags, docs, revs, retries, locals
  <1>0. /\ Typed /\ Locals /\ Work
        /\ Placed /\ OnceThere /\ GotInOrder /\ Retried /\ KeptAll /\ PushedUpToCheckpoint
    BY DEF IInv, DInv
  <1>1. ASSUME pc' \notin {"got", "observing"}, UNCHANGED <<toRetry, retryCount>>, Placed', OnceThere', PushedUpToCheckpoint'
        PROVE  DInv'
    BY <1>0, <1>1 DEF DInv, GotInOrder, Retried, KeptAll
  <1>2. CASE Getting \/ HandleMaybeSendMoreRevs
    <2>1. /\ pc = "idle" /\ pc' \in {"idle", "reading", "sending"}
          /\ UNCHANGED <<log, skipped, lists, queue, flying, awaiting, nextRev, mightRetry, toRetry, retryCount, fate, completed,
                         maxSequence, start>>
      BY <1>2 DEF Getting, HandleMaybeGetMoreChanges, DBHasNewChanges, HandleMaybeSendMoreRevs, MaybeGetMoreChanges,
                  MaybeSendMoreRevs, Ready
    <2>2. Read' = Read
      BY <2>1 DEF Read
    <2>3. Placed' /\ OnceThere'
      BY <1>0, <2>1, <2>2, NothingMoves
    <2>4. PushedUpToCheckpoint'
      BY <1>0, <2>1, SameDealt
    <2>5. QED BY <1>1, <2>1, <2>3, <2>4
  <1>3. CASE GotChange
    <2>1. Placed' /\ OnceThere' /\ GotInOrder' /\ PushedUpToCheckpoint'
      BY <1>0, <1>3, PlacedGot
    <2>2. pc = "got" /\ pc' = pc /\ UNCHANGED <<toRetry, retryCount>>
      BY <1>3 DEF GotChange
    <2>3. QED BY <1>0, <2>1, <2>2 DEF DInv, Retried, KeptAll
  <1>4. CASE SendChanges
    <2>1. Placed' /\ OnceThere'
      BY <1>0, <1>4, PlacedSendChanges
    <2>2. pc' = "idle" /\ UNCHANGED <<log, skipped, completed, fate, toRetry, retryCount>>
      BY <1>4 DEF SendChanges
    <2>3. QED BY <1>0, <1>1, <2>1, <2>2, SameDealt
  <1>5. CASE WantRev \/ ProposeAgain
    <2>1. Placed' /\ OnceThere'
      BY <1>0, <1>5, PlacedWant, PlacedAgain
    <2>2. Responding /\ UNCHANGED <<log, skipped, completed, fate, toRetry, retryCount>>
      BY <1>5 DEF WantRev, ProposeAgain, Responding, NextResponse
    <2>3. pc' \notin {"got", "observing"}
      BY <1>0, <2>2, ResponseIs
    <2>4. QED BY <1>0, <1>1, <2>1, <2>2, <2>3, SameDealt
  <1>6. CASE DropRev \/ (\E says \in {"pushed", "permanent"} : DontWantRev(says)) \/ (\E b \in BOOLEAN : Conflict(b))
    <2>1. Placed' /\ OnceThere' /\ PushedUpToCheckpoint'
      BY <1>0, <1>6, PlacedRefused
    <2>2. Responding /\ UNCHANGED <<toRetry, retryCount>>
      BY <1>6 DEF DropRev, DontWantRev, Conflict, Responding, NextResponse
    <2>3. pc' \notin {"got", "observing"}
      BY <1>0, <2>2, ResponseIs
    <2>4. QED BY <1>1, <2>1, <2>2, <2>3
  <1>7. CASE SendRevision
    <2>1. Placed' /\ OnceThere'
      BY <1>0, <1>7, PlacedSend
    <2>2. pc' \in {"sending", "idle"} /\ UNCHANGED <<log, skipped, completed, fate, toRetry, retryCount>>
      BY <1>7 DEF SendRevision, MaybeSendMoreRevs
    <2>3. QED BY <1>0, <1>1, <2>1, <2>2, SameDealt
  <1>8. ASSUME NEW says \in {"none", "permanent"}, SendNoRev(says) PROVE DInv'
    <2>1. Placed' /\ OnceThere' /\ PushedUpToCheckpoint'
      BY <1>0, <1>8, PlacedNoRev
    <2>2. pc' \in {"sending", "idle"} /\ UNCHANGED <<toRetry, retryCount>>
      BY <1>8 DEF SendNoRev, MaybeSendMoreRevs
    <2>3. QED BY <1>1, <2>1, <2>2
  <1>9. CASE RetryRevs
    <2>1. Placed' /\ OnceThere' /\ Retried' /\ GotInOrder' /\ PushedUpToCheckpoint'
      BY <1>0, <1>9, PlacedRetry
    <2>2. pc' = "got"
      BY <1>9 DEF RetryRevs
    <2>3. QED BY <2>1, <2>2 DEF DInv, KeptAll
  <1>10. QED BY <1>2, <1>3, <1>4, <1>5, <1>6, <1>7, <1>8, <1>9 DEF Handler, Getting

LEMMA DealtPeer ==
    ASSUME IInv, DInv, Peer
    PROVE  DInv'
  <1> USE DEF db, feed, flags, docs, revs, retries, locals
  <1>0. /\ Typed /\ Work
        /\ Placed /\ OnceThere /\ GotInOrder /\ Retried /\ KeptAll /\ PushedUpToCheckpoint
    BY DEF IInv, DInv
  <1>1. ASSUME pc' \notin {"got", "observing"}, Retried', Placed', OnceThere', PushedUpToCheckpoint'
        PROVE  DInv'
    BY <1>1 DEF DInv, GotInOrder, KeptAll
  <1>2. ASSUME NEW list \in lists, ChangesReply(list) \/ ListRefused(list) PROVE DInv'
    <2>1. Placed' /\ OnceThere'
      BY <1>0, <1>2, PlacedChangesReply
    <2>2. pc' \in {"replying", "failing"} /\ UNCHANGED <<log, skipped, completed, fate, toRetry, retryCount>>
      BY <1>2 DEF ChangesReply, ListRefused
    <2>3. Retried' /\ PushedUpToCheckpoint'
      BY <1>0, <2>2, SameDealt DEF Retried
    <2>4. QED BY <1>1, <2>1, <2>2, <2>3
  <1>3. ASSUME NEW s \in flying, RevTransmitted(s) PROVE DInv'
    <2>1. Placed' /\ OnceThere'
      BY <1>0, <1>3, PlacedTransmitted
    <2>2. pc' \in {"sending", "idle"} /\ UNCHANGED <<log, skipped, completed, fate, toRetry, retryCount>>
      BY <1>3 DEF RevTransmitted, MaybeSendMoreRevs
    <2>3. Retried' /\ PushedUpToCheckpoint'
      BY <1>0, <2>2, SameDealt DEF Retried
    <2>4. QED BY <1>1, <2>1, <2>2, <2>3
  <1>4. ASSUME NEW s \in awaiting, (\E e : RevReply(s, e)) \/ RetryLater(s) \/ RetryNow(s) PROVE DInv'
    <2>1. Placed' /\ OnceThere' /\ Retried' /\ PushedUpToCheckpoint'
      BY <1>0, <1>4, PlacedReplies
    <2>2. pc' \in {"sending", "idle"}
      BY <1>4 DEF RevReply, RetryLater, RetryNow, MaybeSendMoreRevs
    <2>3. QED BY <1>1, <2>1, <2>2
  <1>5. ASSUME NEW d \in Docs, NEW retry \in BOOLEAN, RemoteAncestorChanged(d, retry) PROVE DInv'
    <2>1. Placed' /\ OnceThere' /\ PushedUpToCheckpoint'
      BY <1>0, <1>5, PlacedAncestor
    <2>2. pc' = "idle" /\ UNCHANGED <<toRetry, retryCount>>
      BY <1>5 DEF RemoteAncestorChanged, CanReceive, Ready
    <2>3. Retried'
      BY <1>0, <2>2 DEF Retried
    <2>4. QED BY <1>1, <2>1, <2>2, <2>3
  <1>6. QED BY <1>2, <1>3, <1>4, <1>5 DEF Peer

LEMMA InitDInv == Init => DInv
  <1> SUFFICES ASSUME Init PROVE DInv
    OBVIOUS
  <1>1. Elements(<< >>) = {}
    BY EmptyElements
  <1>2. ASSUME NEW x \in Fresh, NEW p \in PlaceNames PROVE ~At(p, x)
    <2>1. x # 0
      BY DEF Fresh, Known
    <2>2. QED BY <1>1, <2>1 DEF Init, At
  <1>3. Placed
    BY <1>2 DEF Placed, OnePlace, Pending, PlacesRead
  <1>4. OnceThere
    BY DEF Init, OnceThere, ListsOnce, Once, LocalsOnce, HeldOnce
  <1>5. GotInOrder /\ KeptAll
    BY DEF Init, GotInOrder, KeptAll
  <1>6. Retried
    BY <1>1 DEF Init, Retried
  <1>7. PushedUpToCheckpoint
    <2>1. ASSUME NEW s \in completed PROVE fate[s] = "pushed"
      <3>1. s \in Revs
        <4>1. PICK n \in 0 .. MaxSequence : log \in [1 .. n -> Docs]
          BY DEF Init
        <4>2. Len(log) = n /\ n \in Nat /\ MaxSequence \in Nat
          BY <4>1, PusherAssumption
        <4>3. s \in 1 .. n
          BY <4>2 DEF Init
        <4>4. QED BY <4>2, <4>3 DEF Revs
      <3>2. QED BY <3>1 DEF Init
    <2>2. QED BY <2>1 DEF PushedUpToCheckpoint
  <1>8. QED BY <1>3, <1>4, <1>5, <1>6, <1>7 DEF DInv

LEMMA NextDInv == IInv /\ DInv /\ [Steps]_vars => DInv'
  <1> SUFFICES ASSUME IInv, DInv, [Steps]_vars PROVE DInv'
    OBVIOUS
  <1>1. CASE UNCHANGED vars
    <2> USE DEF vars, db, feed, flags, docs, revs, retries, locals
    <2>1. Fresh' = Fresh /\ Read' = Read /\ \A s : Current(s)' <=> Current(s)
      BY <1>1 DEF Fresh, Known, Read, Current
    <2>2. \A p, x : At(p, x)' <=> At(p, x)
      BY <1>1 DEF At
    <2>3. Placed'
      BY <1>1, <2>1, <2>2 DEF DInv, Placed, OnePlace, Pending, PlacesRead
    <2>4. OnceThere' /\ GotInOrder' /\ Retried'
      BY <1>1 DEF DInv, OnceThere, LocalsOnce, GotInOrder, Retried
    <2>5. KeptAll' /\ PushedUpToCheckpoint'
      BY <1>1, <2>1 DEF DInv, KeptAll, PushedUpToCheckpoint
    <2>6. QED BY <2>3, <2>4, <2>5 DEF DInv
  <1>2. QED BY <1>1, DealtWriter, DealtFeed, DealtHandler, DealtPeer DEF Steps

LEMMA NextDealt == Inv /\ (feedFailed \/ DInv) /\ [Next]_vars => (feedFailed \/ DInv)'
  <1> SUFFICES ASSUME Inv, feedFailed \/ DInv, [Next]_vars PROVE feedFailed' \/ DInv'
    OBVIOUS
  <1>1. CASE Failure
    BY <1>1 DEF Failure, FeedFailed
  <1>2. CASE [Steps]_vars
    BY <1>2, StillWorks, NextDInv DEF Inv
  <1>3. QED BY <1>1, <1>2 DEF Next, Steps

(* A sequence that counts as completed, and so will not be pushed again,   *)
(* is not current, or is not to be pushed, or the peer has answered for    *)
(* that very revision: although doneWithRev(), gotChanges() and            *)
(* addPendingSequences() also complete sequences the peer was not asked    *)
(* about.  A feed that returned an error has broken it.                    *)
THEOREM CompletedAreDealtWith == Spec => []CompletedIsDealtWith
  <1>1. feedFailed \/ DInv => CompletedIsDealtWith
    BY DEF DInv, CompletedIsDealtWith
  <1>2. Init => feedFailed \/ DInv
    BY InitDInv
  <1>3. QED BY <1>1, <1>2, InitInv, NextInv, NextDealt, PTL DEF Spec
=============================================================================
