---------------------------- MODULE BLIPIOProofs ----------------------------
(***************************************************************************)
(* Proofs about BLIPIO: for any requests and replies, frame sizes, limits  *)
(* and number of faults, neither end takes the other for one that breaks   *)
(* the protocol, a request has one outcome at most and a reply is whole    *)
(* and the right one, and when the connection has closed everyone who      *)
(* waits for a reply has been told.                                        *)
(*                                                                         *)
(* The invariant counts: a request is in one place, and so is the answer   *)
(* to it, from the last frame of the request on.  Counts are sums over     *)
(* sequences, because a message may be in a box, and a frame under way,    *)
(* more than once.  The proof first says what the operations on sequences  *)
(* do to such sums (from here to HeldIs), then what a step that does not   *)
(* matter to some part of the invariant leaves of it (to QuietStep), then  *)
(* the types, and then takes one action after the other.                   *)
(***************************************************************************)
EXTENDS BLIPIO, TLAPS, WellFoundedInduction

-----------------------------------------------------------------------------
(* Sums over a sequence: w gives every element its weight.                 *)
PartialSums(w, s) ==
    {g \in [0 .. Len(s) -> Nat] : g[0] = 0 /\ \A k \in 1 .. Len(s) : g[k] = g[k - 1] + w[s[k]]}
Total(w, s) == (CHOOSE g \in PartialSums(w, s) : TRUE)[Len(s)]

(* Counts true as one. *)
One(b) == IF b THEN 1 ELSE 0

-----------------------------------------------------------------------------
(* Messages, frames, messages that are received in part, and outcomes      *)
Messages == [type : Types, no : Nat, about : Requests, urgent : BOOLEAN, left : Nat \ {0}, sent : Nat, unacked : Nat]
DataFrames == [type : Types, no : Nat \ {0}, about : Requests, size : Nat \ {0}, more : BOOLEAN, count : Nat]
Frames == DataFrames \cup {CloseFrame}
Pendings == [about : Requests, raw : Nat, unacked : Nat]
Outcomes == [result : {"reply"}, to : Requests, bytes : Nat] \cup {[result |-> "disconnected"]}

IsPending(pending) == DOMAIN pending \subseteq Nat \ {0} /\ pending \in [DOMAIN pending -> Pendings]

Typed ==
    /\ outbox \in [Ends -> Seq(Messages)] /\ icebox \in [Ends -> Seq(Messages)] /\ mailbox \in [Ends -> Seq(Messages)]
    /\ writeable \in [Ends -> BOOLEAN] /\ writing \in [Ends -> BOOLEAN] /\ ready \in [Ends -> BOOLEAN]
    /\ lastNo \in [Ends -> Nat] /\ received \in [Ends -> Nat]
    /\ DOMAIN pendingRequests = Ends /\ DOMAIN pendingResponses = Ends
    /\ \A e \in Ends : IsPending(pendingRequests[e]) /\ IsPending(pendingResponses[e])
    /\ state \in [Ends -> {"open", "closing", "error", "closed"}]
    /\ sock \in [Ends -> Seq(Frames)] /\ wire \in [Ends -> Seq(Frames)]
    /\ unsent \subseteq Requests
    /\ inbox \in [Ends -> SUBSET [no : Nat \ {0}, about : Requests]]
    /\ outcome \in [Requests -> Seq(Outcomes)]
    /\ faults \in Nat

(* What an end holds of messages to be sent, and what is under way from it *)
HeldBy(e) == Range(mailbox[e]) \cup Range(outbox[e]) \cup Range(icebox[e])
Held(w, e) == Total(w, mailbox[e]) + Total(w, outbox[e]) + Total(w, icebox[e])
Channel(e) == wire[e] \o sock[e]
Listening(e) == state[e] \in {"open", "closing"}

Answer(m) == m.type \in {"RES", "ERR"}

RequestOf(q) == [m \in Messages |-> One(m.type = "REQ" /\ m.about = q)]
RequestNo(n) == [m \in Messages |-> One(m.type = "REQ" /\ m.no = n)]
AnswerNo(n) == [m \in Messages |-> One(Answer(m) /\ m.no = n)]
LastOfRequest(n) == [f \in Frames |-> One(f.type = "REQ" /\ f.no = n /\ ~f.more /\ f.about.reply)]
LastOfAnswer(n) == [f \in Frames |-> One(Answer(f) /\ f.no = n /\ ~f.more)]
BytesOf(n) == [f \in Frames |-> IF Answer(f) /\ f.no = n THEN f.size ELSE 0]

(* 1. A request is not sent yet, or held, or its answer is awaited, or it *)
(* has come to an end: in one place only, and never nowhere unless an      *)
(* error reply, which is not put back, can be damaged.                     *)
Waits(q) == \E n \in DOMAIN pendingResponses[q.from] : pendingResponses[q.from][n].about = q
Places(q) == One(q \in unsent) + Held(RequestOf(q), q.from) + One(Waits(q)) + Len(outcome[q])
InOnePlace ==
    \A q \in Requests : Places(q) <= 1 /\ (q.reply /\ "ERR" \notin Damaged => Places(q) = 1)

(* 2. What an end holds is its own: requests of its client, and answers of *)
(* which what was sent and what is left make the whole; and two answers    *)
(* that it waits for are not to the same request.                          *)
Owned(e) ==
    /\ \A m \in HeldBy(e) :
          /\ m.type = "REQ" => m.about.from = e
          /\ m.type # "REQ" => m.no # 0
          /\ Answer(m) => m.sent + m.left = m.about.response
    /\ \A n \in DOMAIN pendingResponses[e] :
          /\ pendingResponses[e][n].about.from = e /\ pendingResponses[e][n].about.reply
          /\ \A k \in DOMAIN pendingResponses[e] :
                pendingResponses[e][k].about = pendingResponses[e][n].about => k = n

(* 3. A number has been given to one request at most. *)
Numbered(e) ==
    \A n \in Nat \ {0} :
        Held(RequestNo(n), e) + One(n \in DOMAIN pendingResponses[e]) <= One(n <= lastNo[e])

(* 4. _closed() has left nothing behind. *)
ClosedIsEmpty(e) ==
    state[e] = "closed" =>
        /\ outbox[e] = << >> /\ icebox[e] = << >> /\ DOMAIN pendingResponses[e] = {}
        /\ ~writing[e] /\ ~ready[e] /\ sock[e] = << >>

(* 5. The frames of requests from e arrive at p as p expects them: no      *)
(* number is skipped, the later frames of a request find it pending, with  *)
(* what it is about, and none comes after its last.                        *)
IsFrame(c, k, n) == k \in DOMAIN c /\ c[k].type = "REQ" /\ c[k].no = n
RequestsArrive(e, p) ==
    LET c == Channel(e)
    IN  Listening(p) =>
          /\ DOMAIN pendingRequests[p] \subseteq 1 .. received[p]
          /\ \A k \in DOMAIN c : c[k].type = "REQ" =>
                /\ c[k].no \in 1 .. lastNo[e]
                /\ \A n \in Nat : received[p] < n /\ n < c[k].no => \E j \in 1 .. k - 1 : IsFrame(c, j, n)
                /\ c[k].no <= received[p] => c[k].no \in DOMAIN pendingRequests[p]
                /\ c[k].no \in DOMAIN pendingRequests[p] => pendingRequests[p][c[k].no].about = c[k].about
                /\ \A j \in k + 1 .. Len(c) : IsFrame(c, j, c[k].no) => c[k].more /\ c[j].about = c[k].about

(* What e still holds goes on from there, as long as it is open. *)
RequestsGoOn(e, p) ==
    LET c == Channel(e)
    IN  state[e] = "open" /\ Listening(p) =>
          /\ received[p] <= lastNo[e]
          /\ \A n \in Nat : received[p] < n /\ n <= lastNo[e] => \E k \in DOMAIN c : IsFrame(c, k, n)
          /\ \A m \in HeldBy(e) : m.type = "REQ" /\ m.no # 0 =>
                /\ m.no <= received[p] => m.no \in DOMAIN pendingRequests[p]
                /\ m.no \in DOMAIN pendingRequests[p] => pendingRequests[p][m.no].about = m.about
                /\ \A k \in DOMAIN c : IsFrame(c, k, m.no) => c[k].more /\ c[k].about = m.about

(* 6. The answer to a request is in one place: still to be asked for, in   *)
(* the in-box of the client that answers, held, or sent to its end; and    *)
(* only while e waits for it.                                              *)
Asked(box, n) == IF \E r \in box : r.no = n THEN 1 ELSE 0
Answers(e, p, n) ==
    Total(LastOfRequest(n), Channel(e)) + Asked(inbox[p], n)
    + Held(AnswerNo(n), p) + Total(LastOfAnswer(n), Channel(p))
OneAnswer(e, p) ==
    Listening(e) => \A n \in Nat \ {0} : Answers(e, p, n) <= One(n \in DOMAIN pendingResponses[e])

(* Wherever it is, it is the answer that e waits for under its number, and *)
(* what e has got of it, with what is under way, is what has been sent.    *)
Expects(pending, n, q) == n \in DOMAIN pending /\ pending[n].about = q
Got(pending, d, n) == pending[n].raw + Total(BytesOf(n), d)

AnswersMatch(e, p) ==
    LET c == Channel(e)  d == Channel(p)  expected == pendingResponses[e]
    IN  Listening(e) =>
          /\ \A k \in DOMAIN c : c[k].type = "REQ" /\ ~c[k].more /\ c[k].about.reply =>
                Expects(expected, c[k].no, c[k].about) /\ Got(expected, d, c[k].no) = 0
          /\ \A r \in inbox[p] : Expects(expected, r.no, r.about) /\ Got(expected, d, r.no) = 0
          /\ \A m \in HeldBy(p) : Answer(m) =>
                Expects(expected, m.no, m.about) /\ (state[p] = "open" => Got(expected, d, m.no) = m.sent)
          /\ \A k \in DOMAIN d : Answer(d[k]) =>
                /\ Expects(expected, d[k].no, d[k].about)
                /\ ~d[k].more => Got(expected, d, d[k].no) = d[k].about.response
                /\ \A j \in k + 1 .. Len(d) : Answer(d[j]) /\ d[j].no = d[k].no => d[k].more

(* 7. A reply is the reply to this request, and whole. *)
RightOutcomes ==
    \A q \in Requests : \A i \in DOMAIN outcome[q] :
        outcome[q][i].result = "reply" => outcome[q][i].to = q /\ outcome[q][i].bytes = q.response

(* From e to p: the requests, and the answers to them. *)
Link(e, p) == RequestsArrive(e, p) /\ RequestsGoOn(e, p) /\ OneAnswer(e, p) /\ AnswersMatch(e, p)

(* The inductive invariant *)
IInv ==
    /\ Typed /\ InOnePlace /\ RightOutcomes /\ NoProtocolError
    /\ \A e \in Ends : Owned(e) /\ Numbered(e) /\ ClosedIsEmpty(e) /\ Link(e, Peer(e))
-----------------------------------------------------------------------------
(* A non-empty set of natural numbers has a least element. *)
LEMMA LeastNatural ==
    ASSUME NEW T \in SUBSET Nat, T # {}
    PROVE  \E d \in T : \A e \in T : d <= e
  <1> DEFINE R == OpToRel(<, Nat)
  <1>1. IsWellFoundedOn(R, Nat)
    BY NatLessThanWellFounded
  <1>2. \A x, y \in Nat : x < y => <<x, y>> \in R
    BY DEF OpToRel
  <1> HIDE DEF R
  <1>3. PICK d \in T : \A y \in T : ~(<<y, d>> \in R)
    <2>1. \E x \in T : \A y \in T : ~(<<y, x>> \in R)
      BY <1>1, WFMin
    <2>2. QED BY <2>1
  <1>4. ASSUME NEW e \in T PROVE d <= e
    <2>1. e \in Nat /\ d \in Nat
      OBVIOUS
    <2>2. ~(e < d)
      BY <1>2, <1>3, <2>1, Zenon
    <2>3. QED BY <2>1, <2>2
  <1>5. QED BY <1>4

(* Every sequence has partial sums, ... *)
LEMMA PartialSumsExist ==
    ASSUME NEW S, NEW w \in [S -> Nat], NEW s \in Seq(S)
    PROVE  PartialSums(w, s) # {}
  <1> DEFINE Good(n, g) == g[0] = 0 /\ \A k \in 1 .. n : g[k] = g[k - 1] + w[s[k]]
             T == {n \in Nat : n <= Len(s) /\ ~\E g \in [0 .. n -> Nat] : Good(n, g)}
  <1>1. ASSUME T # {} PROVE FALSE
    <2>1. PICK d \in T : \A e \in T : d <= e
      BY <1>1, LeastNatural
    <2>2. d # 0
      <3>1. [k \in 0 .. 0 |-> 0] \in [0 .. 0 -> Nat]
        OBVIOUS
      <3>2. Good(0, [k \in 0 .. 0 |-> 0])
        OBVIOUS
      <3> HIDE DEF Good
      <3>3. QED BY <2>1, <3>1, <3>2
    <2>3. d \in Nat /\ d - 1 \in Nat /\ d - 1 <= Len(s) /\ d \in 1 .. Len(s)
      BY <2>1, <2>2
    <2>4. d - 1 \notin T
      <3> HIDE DEF T
      <3>1. QED BY <2>1, <2>3
    <2>5. PICK g \in [0 .. (d - 1) -> Nat] : Good(d - 1, g)
      <3> HIDE DEF Good
      <3>1. QED BY <2>3, <2>4
    <2> DEFINE h == [k \in 0 .. d |-> IF k = d THEN g[d - 1] + w[s[d]] ELSE g[k]]
    <2>6. w[s[d]] \in Nat
      BY <2>3
    <2>7. h \in [0 .. d -> Nat]
      BY <2>3, <2>6
    <2>8. /\ h[0] = g[0]
          /\ \A k \in 1 .. d - 1 : h[k] = g[k] /\ h[k - 1] = g[k - 1]
          /\ h[d] = g[d - 1] + w[s[d]] /\ h[d - 1] = g[d - 1]
      BY <2>3
    <2>9. Good(d, h)
      <3> HIDE DEF h
      <3>1. \A k \in 1 .. d : k # d => k \in 1 .. d - 1
        BY <2>3
      <3>2. QED BY <2>5, <2>8, <3>1
    <2> HIDE DEF h, Good
    <2>10. QED BY <2>1, <2>7, <2>9
  <1>2. Len(s) \in Nat /\ Len(s) \notin T
    <2> HIDE DEF T
    <2>1. QED BY <1>1
  <1>3. PICK g \in [0 .. Len(s) -> Nat] : Good(Len(s), g)
    BY <1>2
  <1>4. QED BY <1>3 DEF PartialSums

(* ... and only one. *)
LEMMA PartialSumsUnique ==
    ASSUME NEW S, NEW w \in [S -> Nat], NEW s \in Seq(S),
           NEW g \in PartialSums(w, s), NEW h \in PartialSums(w, s)
    PROVE  g[Len(s)] = h[Len(s)]
  <1> DEFINE T == {n \in Nat : n <= Len(s) /\ g[n] # h[n]}
  <1>1. ASSUME T # {} PROVE FALSE
    <2>1. PICK d \in T : \A e \in T : d <= e
      BY <1>1, LeastNatural
    <2>2. d # 0
      BY <2>1 DEF PartialSums
    <2>3. d - 1 \in Nat /\ d - 1 \notin T /\ d - 1 <= Len(s) /\ d \in 1 .. Len(s)
      BY <2>1, <2>2
    <2>4. g[d - 1] = h[d - 1]
      BY <2>3
    <2>5. g[d] = g[d - 1] + w[s[d]] /\ h[d] = h[d - 1] + w[s[d]]
      BY <2>3 DEF PartialSums
    <2>6. QED BY <2>1, <2>4, <2>5
  <1>2. Len(s) \in Nat /\ Len(s) \notin T
    BY <1>1
  <1>3. QED BY <1>2

LEMMA TotalIs ==
    ASSUME NEW S, NEW w \in [S -> Nat], NEW s \in Seq(S)
    PROVE  /\ \A g \in PartialSums(w, s) : Total(w, s) = g[Len(s)]
           /\ \E g \in PartialSums(w, s) : TRUE
           /\ Total(w, s) \in Nat
  <1>1. (CHOOSE g \in PartialSums(w, s) : TRUE) \in PartialSums(w, s)
    BY PartialSumsExist
  <1>2. \A g \in PartialSums(w, s) : Total(w, s) = g[Len(s)]
    BY <1>1, PartialSumsUnique DEF Total
  <1>3. \A g \in PartialSums(w, s) : g[Len(s)] \in Nat
    BY DEF PartialSums
  <1>4. QED BY <1>1, <1>2, <1>3

LEMMA TotalOfNone ==
    ASSUME NEW S, NEW w \in [S -> Nat]
    PROVE  Total(w, << >>) = 0
  <1>1. << >> \in Seq(S) /\ Len(<< >>) = 0
    OBVIOUS
  <1>2. PICK g \in PartialSums(w, << >>) : TRUE
    BY <1>1, TotalIs
  <1>3. Total(w, << >>) = g[0]
    BY <1>1, TotalIs
  <1>4. g[0] = 0
    BY DEF PartialSums
  <1>5. QED BY <1>3, <1>4

(* t is s with m put in at place k. *)
Inserted(s, t, k, m) ==
    /\ k \in 1 .. Len(s) + 1 /\ Len(t) = Len(s) + 1
    /\ \A i \in 1 .. k - 1 : t[i] = s[i]
    /\ t[k] = m
    /\ \A i \in k .. Len(s) : t[i + 1] = s[i]

LEMMA TotalInserted ==
    ASSUME NEW S, NEW w \in [S -> Nat], NEW s \in Seq(S), NEW t \in Seq(S), NEW m \in S,
           NEW k, Inserted(s, t, k, m)
    PROVE  Total(w, t) = Total(w, s) + w[m]
  <1>1. PICK g \in PartialSums(w, s) : TRUE
    BY TotalIs
  <1> DEFINE n == Len(s)
             h == [i \in 0 .. n + 1 |-> IF i < k THEN g[i] ELSE g[i - 1] + w[m]]
  <1>2. n \in Nat /\ k \in 1 .. n + 1 /\ Len(t) = n + 1 /\ w[m] \in Nat
    BY DEF Inserted
  <1>3. /\ g \in [0 .. n -> Nat] /\ g[0] = 0
        /\ \A i \in 1 .. n : g[i] = g[i - 1] + w[s[i]]
    BY DEF PartialSums
  <1>4. \A i \in 1 .. n : w[s[i]] \in Nat
    OBVIOUS
  <1>5. h \in [0 .. n + 1 -> Nat]
    BY <1>2, <1>3
  <1>6. h[0] = 0
    BY <1>2, <1>3
  <1>7. ASSUME NEW i \in 1 .. n + 1 PROVE h[i] = h[i - 1] + w[t[i]]
    <2>1. CASE i < k
      <3>1. i \in 1 .. n /\ i \in 1 .. k - 1 /\ i \in 0 .. n + 1 /\ i - 1 \in 0 .. n + 1 /\ i - 1 < k
        BY <1>2, <2>1
      <3>2. h[i] = g[i] /\ h[i - 1] = g[i - 1]
        BY <2>1, <3>1
      <3>3. t[i] = s[i]
        BY <3>1 DEF Inserted
      <3>4. QED BY <1>3, <3>1, <3>2, <3>3
    <2>2. CASE i = k
      <3>1. i \in 0 .. n + 1 /\ i - 1 \in 0 .. n + 1 /\ i - 1 < k /\ ~(i < k)
        BY <1>2, <2>2
      <3>2. h[i] = g[i - 1] + w[m] /\ h[i - 1] = g[i - 1]
        BY <3>1
      <3>3. t[i] = m
        BY <2>2 DEF Inserted
      <3>4. QED BY <3>2, <3>3
    <2>3. CASE i > k
      <3>1. i \in 0 .. n + 1 /\ i - 1 \in 0 .. n + 1 /\ ~(i - 1 < k) /\ ~(i < k) /\ i - 1 \in k .. n /\ i - 1 \in 1 .. n
        BY <1>2, <2>3
      <3>2. h[i] = g[i - 1] + w[m] /\ h[i - 1] = g[(i - 1) - 1] + w[m]
        BY <3>1
      <3>3. t[(i - 1) + 1] = s[i - 1]
        BY <3>1 DEF Inserted
      <3>4. g[i - 1] = g[(i - 1) - 1] + w[s[i - 1]]
        BY <1>3, <3>1
      <3>5. (i - 1) - 1 \in 0 .. n /\ (i - 1) + 1 = i
        BY <3>1
      <3>a. g[(i - 1) - 1] \in Nat /\ w[s[i - 1]] \in Nat
        <4> HIDE DEF n, h
        <4>1. QED BY <1>3, <1>4, <3>1, <3>5
      <3>b. t[i] = s[i - 1]
        BY <3>3, <3>5
      <3> HIDE DEF h, n
      <3>6. QED BY <1>2, <3>2, <3>4, <3>a, <3>b, SMTT(40)
    <2>4. QED BY <1>2, <2>1, <2>2, <2>3
  <1>8. h \in PartialSums(w, t)
    <2> HIDE DEF h
    <2>1. QED BY <1>2, <1>5, <1>6, <1>7 DEF PartialSums
  <1>9. h[n + 1] = g[n] + w[m]
    BY <1>2
  <1>10. Total(w, t) = h[Len(t)] /\ Total(w, s) = g[Len(s)]
    BY <1>1, <1>8, TotalIs
  <1>11. QED BY <1>2, <1>9, <1>10

(* Appending, taking the first, removing and moving are insertions.        *)
LEMMA AppendInserts ==
    ASSUME NEW S, NEW s \in Seq(S), NEW m \in S
    PROVE  Append(s, m) \in Seq(S) /\ Inserted(s, Append(s, m), Len(s) + 1, m)
  BY DEF Inserted

LEMMA TailInserts ==
    ASSUME NEW S, NEW s \in Seq(S), s # << >>
    PROVE  Head(s) \in S /\ Tail(s) \in Seq(S) /\ Inserted(Tail(s), s, 1, Head(s))
  BY DEF Inserted

LEMMA Concatenated ==
    ASSUME NEW S, NEW a \in Seq(S), NEW b \in Seq(S)
    PROVE  /\ a \o b \in Seq(S) /\ Len(a \o b) = Len(a) + Len(b)
           /\ \A i \in 1 .. Len(a) : (a \o b)[i] = a[i]
           /\ \A i \in Len(a) + 1 .. Len(a) + Len(b) : (a \o b)[i] = b[i - Len(a)]
  OBVIOUS

LEMMA RemoveAtInserts ==
    ASSUME NEW S, NEW s \in Seq(S), NEW i \in DOMAIN s
    PROVE  RemoveAt(s, i) \in Seq(S) /\ Inserted(RemoveAt(s, i), s, i, s[i])
  <1> DEFINE n == Len(s)
             a == SubSeq(s, 1, i - 1)
             b == SubSeq(s, i + 1, n)
  <1>1. n \in Nat /\ i \in 1 .. n
    OBVIOUS
  <1>2. a \in Seq(S) /\ Len(a) = i - 1 /\ \A j \in 1 .. i - 1 : a[j] = s[j]
    BY <1>1
  <1>3. b \in Seq(S) /\ Len(b) = n - i /\ \A j \in 1 .. n - i : b[j] = s[i + j]
    BY <1>1
  <1> HIDE DEF a, b
  <1>4. /\ a \o b \in Seq(S) /\ Len(a \o b) = n - 1
        /\ \A j \in 1 .. i - 1 : (a \o b)[j] = s[j]
        /\ \A j \in i .. n - 1 : (a \o b)[j] = b[j - (i - 1)]
    BY <1>1, <1>2, <1>3, SMTT(40)
  <1>5. \A j \in i .. n - 1 : (a \o b)[j] = s[j + 1]
    <2>1. TAKE j \in i .. n - 1
    <2>2. j - (i - 1) \in 1 .. n - i /\ i + (j - (i - 1)) = j + 1
      BY <1>1
    <2>3. QED BY <1>3, <1>4, <2>2
  <1>6. RemoveAt(s, i) = a \o b
    BY DEF RemoveAt, a, b
  <1> DEFINE r == a \o b
  <1>7. /\ r \in Seq(S) /\ Len(r) = n - 1 /\ \A j \in 1 .. i - 1 : s[j] = r[j]
        /\ \A j \in i .. n - 1 : s[j + 1] = r[j]
    BY <1>4, <1>5
  <1> HIDE DEF r
  <1>8. i \in 1 .. Len(r) + 1 /\ n = Len(r) + 1
    BY <1>1, <1>7
  <1>9. Inserted(r, s, i, s[i])
    BY <1>7, <1>8 DEF Inserted
  <1>10. RemoveAt(s, i) = r
    BY <1>6 DEF r
  <1>11. QED BY <1>7, <1>9, <1>10

LEMMA RequeueInserts ==
    ASSUME NEW box \in Seq(Messages), NEW m \in Messages
    PROVE  /\ Requeue(box, m) \in Seq(Messages)
           /\ \E k \in Nat : Inserted(box, Requeue(box, m), k, m)
  <1> DEFINE n == Len(box)
             stops == {j \in 1 .. n : box[j].urgent \/ (m.sent = 0 /\ box[j].sent = 0)}
             j == IF stops = {} THEN 1 ELSE CHOOSE k \in stops : \A l \in stops : l <= k
             after == IF stops # {} /\ box[j].urgent /\ j < n THEN j + 1 ELSE j
             t == SubSeq(box, 1, after) \o <<m>> \o SubSeq(box, after + 1, n)
  <1>1. CASE m.urgent /\ n > 1
    <2>1. Requeue(box, m) = t
      BY <1>1 DEF Requeue
    <2>2. n \in Nat
      OBVIOUS
    <2>3. j \in 1 .. n
      <3>1. CASE stops = {}
        BY <1>1, <3>1, <2>2
      <3>2. CASE stops # {}
        <4> DEFINE T == {x \in Nat : x <= n /\ n - x \in stops}
        <4>1. T # {}
          <5>1. PICK x \in stops : TRUE
            BY <3>2
          <5>2. x \in 1 .. n
            OBVIOUS
          <5>3. n - x \in Nat /\ n - x <= n /\ n - (n - x) = x
            BY <2>2, <5>2
          <5> HIDE DEF stops
          <5>4. QED BY <5>1, <5>3
        <4>2. PICK d \in T : \A x \in T : d <= x
          <5> HIDE DEF T
          <5>1. T \in SUBSET Nat
            BY DEF T
          <5>2. QED BY <4>1, <5>1, LeastNatural
        <4>3. \A l \in stops : l <= n - d
          <5>1. TAKE l \in stops
          <5>2. l \in 1 .. n
            OBVIOUS
          <5>3. n - l \in Nat /\ n - l <= n /\ n - (n - l) = l
            BY <2>2, <5>2
          <5>4. n - l \in T
            <6> HIDE DEF stops
            <6>1. QED BY <5>1, <5>3
          <5>5. d <= n - l /\ d \in Nat
            BY <4>2, <5>4
          <5>6. QED BY <2>2, <5>2, <5>5
        <4>4. n - d \in stops
          BY <4>2
        <4> HIDE DEF stops
        <4>5. j \in stops
          BY <3>2, <4>3, <4>4
        <4>6. QED BY <4>5 DEF stops
      <3>3. QED BY <3>1, <3>2
    <2> HIDE DEF j, stops
    <2>4. after \in 1 .. n
      BY <2>2, <2>3
    <2> HIDE DEF after
    <2> DEFINE a == SubSeq(box, 1, after)
               b == SubSeq(box, after + 1, n)
    <2>5. a \in Seq(Messages) /\ Len(a) = after /\ \A i \in 1 .. after : a[i] = box[i]
      BY <2>2, <2>4
    <2>6. b \in Seq(Messages) /\ Len(b) = n - after /\ \A i \in 1 .. n - after : b[i] = box[after + i]
      BY <2>2, <2>4
    <2> HIDE DEF a, b
    <2>7. <<m>> \in Seq(Messages) /\ Len(<<m>>) = 1 /\ <<m>>[1] = m
      OBVIOUS
    <2> DEFINE u == a \o <<m>>
    <2>8. u \in Seq(Messages) /\ Len(u) = after + 1 /\ u[after + 1] = m /\ \A i \in 1 .. after : u[i] = box[i]
      BY <2>4, <2>5, <2>7
    <2> HIDE DEF u
    <2>9. /\ u \o b \in Seq(Messages) /\ Len(u \o b) = n + 1
          /\ \A i \in 1 .. after + 1 : (u \o b)[i] = u[i]
          /\ \A i \in after + 2 .. n + 1 : (u \o b)[i] = b[i - (after + 1)]
      <3> HIDE DEF n
      <3>1. (after + 1) + 1 = after + 2 /\ (after + 1) + (n - after) = n + 1
        BY <2>2, <2>4
      <3>2. /\ u \o b \in Seq(Messages) /\ Len(u \o b) = Len(u) + Len(b)
            /\ \A i \in 1 .. Len(u) : (u \o b)[i] = u[i]
            /\ \A i \in Len(u) + 1 .. Len(u) + Len(b) : (u \o b)[i] = b[i - Len(u)]
        BY <2>6, <2>8, Concatenated
      <3> DEFINE v == u \o b
      <3> HIDE DEF v
      <3>3. /\ v \in Seq(Messages) /\ Len(v) = Len(u) + Len(b)
            /\ \A i \in 1 .. Len(u) : v[i] = u[i]
            /\ \A i \in Len(u) + 1 .. Len(u) + Len(b) : v[i] = b[i - Len(u)]
        BY <3>2 DEF v
      <3>4. /\ v \in Seq(Messages) /\ Len(v) = n + 1
            /\ \A i \in 1 .. after + 1 : v[i] = u[i]
            /\ \A i \in after + 2 .. n + 1 : v[i] = b[i - (after + 1)]
        BY <2>6, <2>8, <3>1, <3>3
      <3>5. QED BY <3>4 DEF v
    <2>10. \A i \in after + 1 .. n : (u \o b)[i + 1] = box[i]
      <3>1. TAKE i \in after + 1 .. n
      <3>2. /\ i + 1 \in after + 2 .. n + 1 /\ (i + 1) - (after + 1) \in 1 .. n - after
            /\ after + ((i + 1) - (after + 1)) = i
        BY <2>2, <2>4
      <3>3. QED BY <2>6, <2>9, <3>2
    <2>11. /\ after + 1 \in 1 .. n + 1 /\ (u \o b)[after + 1] = m
           /\ \A i \in 1 .. (after + 1) - 1 : (u \o b)[i] = box[i]
      BY <2>2, <2>4, <2>8, <2>9
    <2>12. Inserted(box, u \o b, after + 1, m)
      BY <2>9, <2>10, <2>11 DEF Inserted
    <2>13. t = u \o b
      BY DEF u, a, b
    <2>14. after + 1 \in Nat
      BY <2>4
    <2> HIDE DEF t
    <2>15. QED BY <2>1, <2>9, <2>12, <2>13, <2>14
  <1>2. CASE ~(m.urgent /\ n > 1)
    <2>1. Requeue(box, m) = Append(box, m)
      BY <1>2 DEF Requeue
    <2>2. QED BY <2>1, AppendInserts
  <1>3. QED BY <1>1, <1>2

(* The elements of the longer sequence are those of the shorter and the    *)
(* one put in.                                                             *)
LEMMA RangeInserted ==
    ASSUME NEW S, NEW s \in Seq(S), NEW t \in Seq(S), NEW m \in S, NEW k, Inserted(s, t, k, m)
    PROVE  Range(t) = Range(s) \cup {m}
  <1>1. Len(s) \in Nat /\ Len(t) = Len(s) + 1 /\ k \in 1 .. Len(s) + 1
        /\ DOMAIN s = 1 .. Len(s) /\ DOMAIN t = 1 .. Len(t)
    BY DEF Inserted
  <1>2. ASSUME NEW i \in DOMAIN t PROVE t[i] = m \/ \E j \in DOMAIN s : s[j] = t[i]
    <2>1. CASE i < k
      <3>1. i \in 1 .. k - 1 /\ i \in DOMAIN s
        BY <1>1, <2>1
      <3>2. QED BY <3>1 DEF Inserted
    <2>2. CASE i = k
      BY <2>2 DEF Inserted
    <2>3. CASE i > k
      <3>1. i - 1 \in k .. Len(s) /\ (i - 1) + 1 = i /\ i - 1 \in DOMAIN s
        BY <1>1, <2>3
      <3>2. t[(i - 1) + 1] = s[i - 1]
        BY <3>1 DEF Inserted
      <3>3. QED BY <3>1, <3>2
    <2>4. QED BY <1>1, <2>1, <2>2, <2>3
  <1>3. ASSUME NEW i \in DOMAIN s PROVE \E j \in DOMAIN t : t[j] = s[i]
    <2>1. CASE i < k
      <3>1. i \in 1 .. k - 1 /\ i \in DOMAIN t
        BY <1>1, <2>1
      <3>2. QED BY <3>1 DEF Inserted
    <2>2. CASE i >= k
      <3>1. i \in k .. Len(s) /\ i + 1 \in DOMAIN t
        BY <1>1, <2>2
      <3>2. QED BY <3>1 DEF Inserted
    <2>3. QED BY <1>1, <2>1, <2>2
  <1>4. k \in DOMAIN t /\ t[k] = m
    BY <1>1 DEF Inserted
  <1>5. QED BY <1>2, <1>3, <1>4 DEF Range

LEMMA TotalAppend ==
    ASSUME NEW S, NEW w \in [S -> Nat], NEW s \in Seq(S), NEW m \in S
    PROVE  Total(w, Append(s, m)) = Total(w, s) + w[m]
  <1>1. Append(s, m) \in Seq(S) /\ Inserted(s, Append(s, m), Len(s) + 1, m)
    BY AppendInserts
  <1> DEFINE t == Append(s, m)
  <1> HIDE DEF t
  <1>2. t \in Seq(S) /\ Inserted(s, t, Len(s) + 1, m)
    BY <1>1 DEF t
  <1>3. Total(w, t) = Total(w, s) + w[m]
    BY <1>2, TotalInserted
  <1>4. QED BY <1>3 DEF t

LEMMA TotalTail ==
    ASSUME NEW S, NEW w \in [S -> Nat], NEW s \in Seq(S), s # << >>
    PROVE  Total(w, s) = Total(w, Tail(s)) + w[Head(s)]
  <1>1. Head(s) \in S /\ Tail(s) \in Seq(S) /\ Inserted(Tail(s), s, 1, Head(s))
    BY TailInserts
  <1> DEFINE t == Tail(s)
             h == Head(s)
  <1> HIDE DEF t, h
  <1>2. h \in S /\ t \in Seq(S) /\ Inserted(t, s, 1, h)
    BY <1>1 DEF t, h
  <1>3. Total(w, s) = Total(w, t) + w[h]
    BY <1>2, TotalInserted
  <1>4. QED BY <1>3 DEF t, h

LEMMA TotalAtLeast ==
    ASSUME NEW S, NEW w \in [S -> Nat], NEW s \in Seq(S), NEW i \in DOMAIN s
    PROVE  w[s[i]] <= Total(w, s)
  <1>1. RemoveAt(s, i) \in Seq(S) /\ Inserted(RemoveAt(s, i), s, i, s[i])
    BY RemoveAtInserts
  <1>2. s[i] \in S /\ w[s[i]] \in Nat
    OBVIOUS
  <1>3. Total(w, s) = Total(w, RemoveAt(s, i)) + w[s[i]]
    BY <1>1, <1>2, TotalInserted
  <1>4. Total(w, RemoveAt(s, i)) \in Nat
    BY <1>1, TotalIs
  <1>5. QED BY <1>2, <1>3, <1>4

LEMMA TotalZero ==
    ASSUME NEW S, NEW w \in [S -> Nat], NEW s \in Seq(S), \A i \in DOMAIN s : w[s[i]] = 0
    PROVE  Total(w, s) = 0
  <1> DEFINE g == [i \in 0 .. Len(s) |-> 0]
  <1>1. Len(s) \in Nat /\ DOMAIN s = 1 .. Len(s)
    OBVIOUS
  <1>2. \A k \in 1 .. Len(s) : k - 1 \in 0 .. Len(s) /\ k \in 0 .. Len(s)
    BY <1>1
  <1>3. g \in [0 .. Len(s) -> Nat] /\ g[0] = 0 /\ \A k \in 0 .. Len(s) : g[k] = 0
    BY <1>1
  <1> HIDE DEF g
  <1>4. g \in PartialSums(w, s)
    <2>1. \A k \in 1 .. Len(s) : g[k] = g[k - 1] + w[s[k]]
      BY <1>1, <1>2, <1>3, SMTT(40)
    <2>2. QED BY <1>3, <2>1 DEF PartialSums
  <1>5. QED BY <1>1, <1>3, <1>4, TotalIs

LEMMA TotalSame ==
    ASSUME NEW S, NEW w \in [S -> Nat], NEW s \in Seq(S), NEW t \in Seq(S), Len(s) = Len(t),
           \A i \in DOMAIN s : w[s[i]] = w[t[i]]
    PROVE  Total(w, s) = Total(w, t)
  <1>1. DOMAIN s = 1 .. Len(s)
    OBVIOUS
  <1>2. PICK g \in PartialSums(w, s) : TRUE
    BY TotalIs
  <1>3. g \in PartialSums(w, t)
    BY <1>1 DEF PartialSums
  <1>4. Total(w, s) = g[Len(s)]
    BY <1>2, TotalIs
  <1>5. Total(w, t) = g[Len(t)]
    BY <1>3, TotalIs
  <1>6. QED BY <1>4, <1>5

LEMMA TotalConcatenated ==
    ASSUME NEW S, NEW w \in [S -> Nat], NEW a \in Seq(S), NEW b \in Seq(S)
    PROVE  Total(w, a \o b) = Total(w, a) + Total(w, b)
  <1>1. PICK g \in PartialSums(w, a) : TRUE
    BY TotalIs
  <1>2. PICK h \in PartialSums(w, b) : TRUE
    BY TotalIs
  <1> DEFINE n == Len(a)
             m == Len(b)
             c == a \o b
             x == [i \in 0 .. n + m |-> IF i <= n THEN g[i] ELSE g[n] + h[i - n]]
  <1>3. n \in Nat /\ m \in Nat
    OBVIOUS
  <1>4. g \in [0 .. n -> Nat] /\ g[0] = 0 /\ \A i \in 1 .. n : g[i] = g[i - 1] + w[a[i]]
    BY DEF PartialSums
  <1>5. h \in [0 .. m -> Nat] /\ h[0] = 0 /\ \A i \in 1 .. m : h[i] = h[i - 1] + w[b[i]]
    BY DEF PartialSums
  <1>6. /\ c \in Seq(S) /\ Len(c) = n + m
        /\ \A i \in 1 .. n : c[i] = a[i]
        /\ \A i \in n + 1 .. n + m : c[i] = b[i - n]
    BY Concatenated
  <1>7. \A i \in 1 .. m : b[i] \in S /\ w[b[i]] \in Nat
    OBVIOUS
  <1> HIDE DEF c, n, m
  <1>8. x \in [0 .. n + m -> Nat] /\ x[0] = 0
    BY <1>3, <1>4, <1>5, SMTT(40)
  <1>9. ASSUME NEW i \in 1 .. n + m PROVE x[i] = x[i - 1] + w[c[i]]
    <2>1. CASE i <= n
      <3>1. i \in 1 .. n /\ i \in 0 .. n + m /\ i - 1 \in 0 .. n + m /\ i - 1 <= n
        BY <1>3, <2>1
      <3>2. x[i] = g[i] /\ x[i - 1] = g[i - 1]
        BY <2>1, <3>1
      <3> HIDE DEF x
      <3>3. QED BY <1>4, <1>6, <3>1, <3>2
    <2>2. CASE i = n + 1
      <3>1. i \in 0 .. n + m /\ i - 1 \in 0 .. n + m /\ ~(i <= n) /\ i - 1 = n /\ i - n = 1 /\ i \in n + 1 .. n + m
            /\ 1 \in 1 .. m /\ 1 - 1 = 0
        BY <1>3, <2>2
      <3>2. x[i] = g[n] + h[1] /\ x[i - 1] = g[n]
        BY <3>1
      <3> HIDE DEF x
      <3>3. h[1] = w[b[1]] /\ w[b[1]] \in Nat /\ c[i] = b[1]
        BY <1>5, <1>6, <1>7, <3>1
      <3>4. QED BY <3>2, <3>3
    <2>3. CASE i > n + 1
      <3>1. /\ i \in 0 .. n + m /\ i - 1 \in 0 .. n + m /\ ~(i <= n) /\ ~(i - 1 <= n) /\ i \in n + 1 .. n + m
            /\ i - n \in 1 .. m /\ (i - 1) - n = (i - n) - 1 /\ (i - n) - 1 \in 0 .. m /\ n \in 0 .. n
        BY <1>3, <2>3
      <3>2. x[i] = g[n] + h[i - n] /\ x[i - 1] = g[n] + h[(i - n) - 1]
        BY <3>1
      <3> HIDE DEF x
      <3>3. h[i - n] = h[(i - n) - 1] + w[b[i - n]] /\ w[b[i - n]] \in Nat /\ c[i] = b[i - n]
        BY <1>5, <1>6, <1>7, <3>1
      <3>4. h[(i - n) - 1] \in Nat /\ g[n] \in Nat
        BY <1>4, <1>5, <3>1
      <3>5. QED BY <3>2, <3>3, <3>4
    <2>4. QED BY <1>3, <2>1, <2>2, <2>3
  <1>10. x[n + m] = g[n] + h[m]
    <2>1. CASE m = 0
      BY <1>3, <1>4, <1>5, <2>1
    <2>2. CASE m # 0
      BY <1>3, <2>2
    <2>3. QED BY <2>1, <2>2
  <1> HIDE DEF x
  <1>11. x \in PartialSums(w, c)
    BY <1>6, <1>8, <1>9 DEF PartialSums
  <1>12. Total(w, c) = x[n + m]
    BY <1>6, <1>11, TotalIs
  <1>13. Total(w, a) = g[n] /\ Total(w, b) = h[m]
    BY TotalIs DEF n, m
  <1>14. QED BY <1>10, <1>12, <1>13 DEF c

-----------------------------------------------------------------------------
(* The weights, and what an end holds.                                     *)
LEMMA OneIsNat == \A b \in BOOLEAN : One(b) \in Nat /\ (b => One(b) = 1) /\ (~b => One(b) = 0)
  BY DEF One

LEMMA MessageWeights ==
    /\ \A q : RequestOf(q) \in [Messages -> Nat]
    /\ \A n : RequestNo(n) \in [Messages -> Nat] /\ AnswerNo(n) \in [Messages -> Nat]
  BY DEF RequestOf, RequestNo, AnswerNo, One

LEMMA MessageWeightsAre ==
    ASSUME NEW m \in Messages
    PROVE  /\ \A q : RequestOf(q)[m] = One(m.type = "REQ" /\ m.about = q)
           /\ \A n : RequestNo(n)[m] = One(m.type = "REQ" /\ m.no = n)
           /\ \A n : AnswerNo(n)[m] = One(Answer(m) /\ m.no = n)
  BY DEF RequestOf, RequestNo, AnswerNo

LEMMA FrameWeights ==
    \A n : /\ LastOfRequest(n) \in [Frames -> Nat] /\ LastOfAnswer(n) \in [Frames -> Nat]
           /\ BytesOf(n) \in [Frames -> Nat]
  <1>1. \A n : LastOfRequest(n) \in [Frames -> Nat] /\ LastOfAnswer(n) \in [Frames -> Nat]
    BY DEF LastOfRequest, LastOfAnswer, One
  <1>2. ASSUME NEW n, NEW f \in Frames PROVE (IF Answer(f) /\ f.no = n THEN f.size ELSE 0) \in Nat
    <2>1. CASE f \in DataFrames
      BY <2>1 DEF DataFrames
    <2>2. CASE f = CloseFrame
      BY <2>2 DEF CloseFrame, Answer
    <2>3. QED BY <2>1, <2>2 DEF Frames
  <1>3. \A n : BytesOf(n) \in [Frames -> Nat]
    BY <1>2 DEF BytesOf
  <1>4. QED BY <1>1, <1>3

LEMMA FrameWeightsAre ==
    ASSUME NEW f \in Frames
    PROVE  /\ \A n : LastOfRequest(n)[f] = One(f.type = "REQ" /\ f.no = n /\ ~f.more /\ f.about.reply)
           /\ \A n : LastOfAnswer(n)[f] = One(Answer(f) /\ f.no = n /\ ~f.more)
           /\ \A n : BytesOf(n)[f] = IF Answer(f) /\ f.no = n THEN f.size ELSE 0
  BY DEF LastOfRequest, LastOfAnswer, BytesOf

LEMMA HeldIs ==
    ASSUME NEW w \in [Messages -> Nat], NEW a \in Seq(Messages), NEW b \in Seq(Messages), NEW c \in Seq(Messages)
    PROVE  /\ Total(w, a) \in Nat /\ Total(w, b) \in Nat /\ Total(w, c) \in Nat
           /\ \A m \in Range(a) \cup Range(b) \cup Range(c) :
                 m \in Messages /\ w[m] \in Nat /\ w[m] <= Total(w, a) + Total(w, b) + Total(w, c)
  <1>1. Total(w, a) \in Nat /\ Total(w, b) \in Nat /\ Total(w, c) \in Nat
    BY TotalIs
  <1>2. ASSUME NEW s \in Seq(Messages), NEW m \in Range(s) PROVE m \in Messages /\ w[m] \in Nat /\ w[m] <= Total(w, s)
    <2>1. PICK i \in DOMAIN s : m = s[i]
      BY DEF Range
    <2>2. m \in Messages
      BY <2>1
    <2>3. w[m] \in Nat
      BY <2>2
    <2>4. QED BY <2>1, <2>2, <2>3, TotalAtLeast
  <1>3. QED BY <1>1, <1>2

(* Ends, and peers *)
LEMMA Peers ==
    ASSUME NEW e \in Ends
    PROVE  Peer(e) \in Ends /\ Peer(e) # e /\ Peer(Peer(e)) = e /\ \A x \in Ends : x = e \/ x = Peer(e)
  BY DEF Ends, Peer

(* The frames under way from an end *)
LEMMA ChannelIs ==
    ASSUME NEW a \in Seq(Frames), NEW b \in Seq(Frames)
    PROVE  /\ a \o b \in Seq(Frames)
           /\ \A f \in Frames : a \o Append(b, f) = Append(a \o b, f)
           /\ b # << >> => Append(a, Head(b)) \o Tail(b) = a \o b
           /\ a # << >> => a \o b # << >> /\ Tail(a) \o b = Tail(a \o b) /\ Head(a \o b) = Head(a)
           /\ a \o << >> = a /\ << >> \o b = b
  <1>1. \A f \in Frames : a \o Append(b, f) = Append(a \o b, f)
    OBVIOUS
  <1>2. ASSUME b # << >> PROVE Append(a, Head(b)) \o Tail(b) = a \o b
    BY <1>2
  <1>3. ASSUME a # << >> PROVE a \o b # << >> /\ Tail(a) \o b = Tail(a \o b) /\ Head(a \o b) = Head(a)
    BY <1>3
  <1>4. a \o << >> = a /\ << >> \o b = b
    OBVIOUS
  <1>5. a \o b \in Seq(Frames)
    OBVIOUS
  <1>6. QED BY <1>1, <1>2, <1>3, <1>4, <1>5, Zenon

-----------------------------------------------------------------------------
(* What a step does to the requests and the answers under way: d has the   *)
(* requests of c, or fewer, and the answers of c, or fewer.                *)
Noisy(f) == f.type = "REQ" \/ Answer(f)
RequestsMoved(c, d, s) ==
    /\ \A k \in DOMAIN d : d[k].type = "REQ" => k + s \in DOMAIN c /\ d[k] = c[k + s]
    /\ \A k \in DOMAIN c : c[k].type = "REQ" => k - s \in DOMAIN d /\ c[k] = d[k - s]
AnswersMoved(c, d, s) == \A k \in DOMAIN d : Answer(d[k]) => k + s \in DOMAIN c /\ d[k] = c[k + s]

FewerRequests(c, d) ==
    /\ \A n : Total(LastOfRequest(n), d) <= Total(LastOfRequest(n), c)
    /\ \A k \in DOMAIN d : d[k].type = "REQ" => \E j \in DOMAIN c : d[k] = c[j]
SameRequests(c, d) == FewerRequests(c, d) /\ \E s \in {0, 1} : RequestsMoved(c, d, s)
FewerAnswers(c, d) ==
    /\ \A n : Total(LastOfAnswer(n), d) <= Total(LastOfAnswer(n), c) /\ Total(BytesOf(n), d) <= Total(BytesOf(n), c)
    /\ \A k \in DOMAIN d : Answer(d[k]) /\ ~d[k].more => Total(BytesOf(d[k].no), d) = Total(BytesOf(d[k].no), c)
    /\ \E s \in {0, 1} : AnswersMoved(c, d, s)
SameAnswers(c, d) == FewerAnswers(c, d) /\ \A n : Total(BytesOf(n), d) = Total(BytesOf(n), c)
SameFrames(c, d) == SameRequests(c, d) /\ SameAnswers(c, d)

LEMMA QuietWeights ==
    ASSUME NEW f \in Frames, NEW n
    PROVE  /\ f.type # "REQ" => LastOfRequest(n)[f] = 0
           /\ ~Answer(f) => LastOfAnswer(n)[f] = 0 /\ BytesOf(n)[f] = 0
  BY FrameWeightsAre DEF One

LEMMA CloseFrameQuiet == CloseFrame \in Frames /\ CloseFrame.type # "REQ" /\ ~Answer(CloseFrame) /\ ~Noisy(CloseFrame)
  BY DEF CloseFrame, Frames, Noisy, Answer

LEMMA FrameTotals ==
    ASSUME NEW c \in Seq(Frames), NEW n
    PROVE  /\ Total(LastOfRequest(n), c) \in Nat /\ Total(LastOfAnswer(n), c) \in Nat /\ Total(BytesOf(n), c) \in Nat
  BY FrameWeights, TotalIs

LEMMA UnchangedFrames ==
    ASSUME NEW c \in Seq(Frames)
    PROVE  SameFrames(c, c)
  <1>1. FewerRequests(c, c)
    BY FrameTotals DEF FewerRequests
  <1>2. RequestsMoved(c, c, 0) /\ AnswersMoved(c, c, 0)
    BY DEF RequestsMoved, AnswersMoved
  <1>3. FewerAnswers(c, c)
    BY <1>2, FrameTotals DEF FewerAnswers
  <1>4. QED BY <1>1, <1>2, <1>3 DEF SameFrames, SameRequests, SameAnswers

LEMMA FrameAppended ==
    ASSUME NEW c \in Seq(Frames), NEW f \in Frames
    PROVE  /\ f.type # "REQ" => SameRequests(c, Append(c, f))
           /\ ~Answer(f) => SameAnswers(c, Append(c, f))
  <1> DEFINE d == Append(c, f)
  <1>1. ASSUME NEW w \in [Frames -> Nat], w[f] = 0 PROVE Total(w, d) = Total(w, c) /\ Total(w, d) <= Total(w, c)
    <2>1. Total(w, d) = Total(w, c) + w[f] /\ Total(w, c) \in Nat
      BY TotalAppend, TotalIs
    <2>2. QED BY <1>1, <2>1
  <1>2. /\ DOMAIN c = 1 .. Len(c) /\ DOMAIN d = 1 .. Len(c) + 1 /\ d[Len(c) + 1] = f
        /\ \A k \in 1 .. Len(c) : d[k] = c[k]
    OBVIOUS
  <1> HIDE DEF d
  <1>3. Len(c) \in Nat /\ \A k \in 1 .. Len(c) + 1 : k \in 1 .. Len(c) \/ k = Len(c) + 1
    OBVIOUS
  <1>4. ASSUME f.type # "REQ" PROVE SameRequests(c, d)
    <2>1. \A n : LastOfRequest(n)[f] = 0
      BY <1>4, QuietWeights
    <2>2. \A n : Total(LastOfRequest(n), d) <= Total(LastOfRequest(n), c)
      BY <1>1, <2>1, FrameWeights
    <2>3. RequestsMoved(c, d, 0) /\ \A k \in DOMAIN d : d[k].type = "REQ" => \E j \in DOMAIN c : d[k] = c[j]
      BY <1>2, <1>3, <1>4 DEF RequestsMoved
    <2>4. QED BY <2>2, <2>3 DEF SameRequests, FewerRequests
  <1>5. ASSUME ~Answer(f) PROVE SameAnswers(c, d)
    <2>1. \A n : LastOfAnswer(n)[f] = 0 /\ BytesOf(n)[f] = 0
      BY <1>5, QuietWeights
    <2>2. \A n : /\ Total(LastOfAnswer(n), d) <= Total(LastOfAnswer(n), c)
                 /\ Total(BytesOf(n), d) <= Total(BytesOf(n), c) /\ Total(BytesOf(n), d) = Total(BytesOf(n), c)
      BY <1>1, <2>1, FrameWeights
    <2>3. AnswersMoved(c, d, 0)
      BY <1>2, <1>3, <1>5 DEF AnswersMoved
    <2>4. QED BY <2>2, <2>3 DEF SameAnswers, FewerAnswers
  <1>6. QED BY <1>4, <1>5 DEF d

LEMMA FrameTaken ==
    ASSUME NEW c \in Seq(Frames), c # << >>
    PROVE  /\ FewerRequests(c, Tail(c))
           /\ Head(c).type # "REQ" => SameRequests(c, Tail(c))
           /\ ~Answer(Head(c)) => SameAnswers(c, Tail(c))
  <1> DEFINE d == Tail(c)
             f == Head(c)
  <1>0. f \in Frames /\ d \in Seq(Frames)
    BY TailInserts
  <1>1. ASSUME NEW w \in [Frames -> Nat]
        PROVE  Total(w, d) <= Total(w, c) /\ (w[f] = 0 => Total(w, d) = Total(w, c))
    <2>1. Total(w, c) = Total(w, d) + w[f]
      BY TotalTail
    <2>2. Total(w, d) \in Nat /\ w[f] \in Nat
      BY <1>0, TotalIs
    <2>3. QED BY <2>1, <2>2
  <1>2. /\ DOMAIN c = 1 .. Len(c) /\ DOMAIN d = 1 .. Len(c) - 1 /\ c[1] = f /\ Len(c) \in Nat /\ Len(c) > 0
        /\ \A k \in 1 .. Len(c) - 1 : d[k] = c[k + 1]
    OBVIOUS
  <1> HIDE DEF d, f
  <1>3. ASSUME NEW k \in DOMAIN d PROVE k + 1 \in DOMAIN c /\ d[k] = c[k + 1]
    BY <1>2
  <1>4. FewerRequests(c, d)
    BY <1>1, <1>3, FrameWeights DEF FewerRequests
  <1>5. ASSUME f.type # "REQ" PROVE SameRequests(c, d)
    <2>1. ASSUME NEW k \in DOMAIN c, c[k].type = "REQ" PROVE k - 1 \in DOMAIN d /\ c[k] = d[k - 1]
      <3>1. k # 1
        BY <1>2, <1>5, <2>1
      <3>2. k - 1 \in 1 .. Len(c) - 1 /\ (k - 1) + 1 = k
        BY <1>2, <3>1
      <3>3. QED BY <1>2, <3>2
    <2>2. RequestsMoved(c, d, 1)
      BY <1>3, <2>1 DEF RequestsMoved
    <2>3. QED BY <1>4, <2>2 DEF SameRequests
  <1>6. ASSUME ~Answer(f) PROVE SameAnswers(c, d)
    <2>1. \A n : BytesOf(n)[f] = 0
      BY <1>0, <1>6, QuietWeights
    <2>2. \A n : /\ Total(LastOfAnswer(n), d) <= Total(LastOfAnswer(n), c)
                 /\ Total(BytesOf(n), d) <= Total(BytesOf(n), c) /\ Total(BytesOf(n), d) = Total(BytesOf(n), c)
      BY <1>1, <2>1, FrameWeights
    <2>3. AnswersMoved(c, d, 1)
      BY <1>3 DEF AnswersMoved
    <2>4. QED BY <2>2, <2>3 DEF SameAnswers, FewerAnswers
  <1>7. QED BY <1>4, <1>5, <1>6 DEF d, f

LEMMA TypedChannels ==
    /\ Typed => \A e \in Ends : Channel(e) \in Seq(Frames)
    /\ Typed' => \A e \in Ends : Channel(e)' \in Seq(Frames)
  BY ChannelIs DEF Typed, Channel

LEMMA QuietAppended ==
    ASSUME NEW c \in Seq(Frames), NEW f \in Frames, ~Noisy(f)
    PROVE  SameFrames(c, Append(c, f))
  BY FrameAppended DEF SameFrames, Noisy

LEMMA QuietTaken ==
    ASSUME NEW c \in Seq(Frames), c # << >>, ~Noisy(Head(c))
    PROVE  SameFrames(c, Tail(c))
  BY FrameTaken DEF SameFrames, Noisy

(* What a step does to the messages that an end holds: they stay as they   *)
(* are, but for what has been acknowledged of them, or get fewer.          *)
Alike(k, m) == m.type = k.type /\ m.no = k.no /\ m.about = k.about /\ m.left = k.left /\ m.sent = k.sent
SameHeld(e) ==
    /\ \A q : Held(RequestOf(q), e)' = Held(RequestOf(q), e)
    /\ \A n : Held(RequestNo(n), e)' = Held(RequestNo(n), e) /\ Held(AnswerNo(n), e)' = Held(AnswerNo(n), e)
FewerHeld(e) ==
    \A n : Held(RequestNo(n), e)' <= Held(RequestNo(n), e) /\ Held(AnswerNo(n), e)' <= Held(AnswerNo(n), e)
AlikeHeld(e) == \A m \in HeldBy(e)' : (IsAck(m) /\ m.no # 0) \/ \E k \in HeldBy(e) : Alike(k, m)
Kept(e) == SameHeld(e) /\ AlikeHeld(e)
RequestsKept(e) == \A m \in HeldBy(e)' : m.type = "REQ" /\ m.no # 0 => \E k \in HeldBy(e) : Alike(k, m)
AnswersKept(e) ==
    /\ \A n : Held(AnswerNo(n), e)' <= Held(AnswerNo(n), e)
    /\ \A m \in HeldBy(e)' : Answer(m) => \E k \in HeldBy(e) : Alike(k, m)
NoReopening ==
    /\ \A e \in Ends : Listening(e)' => Listening(e)
    /\ \A e \in Ends : state'[e] = "open" => state[e] = "open"
(* No answer is expected that was not, nor another one. *)
FewerExpected(a, b) == \A n \in DOMAIN b : n \in DOMAIN a /\ b[n].about = a[n].about

LEMMA HeldNat ==
    ASSUME NEW e \in Ends
    PROVE  /\ Typed => /\ \A n : Held(RequestNo(n), e) \in Nat /\ Held(AnswerNo(n), e) \in Nat
                       /\ \A q : Held(RequestOf(q), e) \in Nat
           /\ Typed' => /\ \A n : Held(RequestNo(n), e)' \in Nat /\ Held(AnswerNo(n), e)' \in Nat
                        /\ \A q : Held(RequestOf(q), e)' \in Nat
  <1>1. ASSUME NEW w \in [Messages -> Nat], NEW a \in Seq(Messages), NEW b \in Seq(Messages), NEW c \in Seq(Messages)
        PROVE  Total(w, a) + Total(w, b) + Total(w, c) \in Nat
    <2>1. Total(w, a) \in Nat /\ Total(w, b) \in Nat /\ Total(w, c) \in Nat
      BY TotalIs
    <2>2. QED BY <2>1
  <1>2. ASSUME Typed PROVE mailbox[e] \in Seq(Messages) /\ outbox[e] \in Seq(Messages) /\ icebox[e] \in Seq(Messages)
    BY <1>2 DEF Typed
  <1>3. ASSUME Typed' PROVE mailbox'[e] \in Seq(Messages) /\ outbox'[e] \in Seq(Messages) /\ icebox'[e] \in Seq(Messages)
    BY <1>3 DEF Typed
  <1>4. QED BY <1>1, <1>2, <1>3, MessageWeights DEF Held

LEMMA AlikeKept ==
    ASSUME NEW e, AlikeHeld(e)
    PROVE  /\ RequestsKept(e)
           /\ \A m \in HeldBy(e)' : Answer(m) => \E k \in HeldBy(e) : Alike(k, m)
  <1>1. ASSUME NEW m, m \in HeldBy(e)', m.type = "REQ" \/ Answer(m) PROVE \E k \in HeldBy(e) : Alike(k, m)
    <2>1. \A h \in HeldBy(e)' : (IsAck(h) /\ h.no # 0) \/ \E k \in HeldBy(e) : Alike(k, h)
      BY DEF AlikeHeld
    <2>2. ~IsAck(m)
      BY <1>1 DEF IsAck, Answer
    <2>3. QED BY <1>1, <2>1, <2>2, Zenon
  <1>2. QED BY <1>1 DEF RequestsKept

LEMMA FewerKept ==
    ASSUME NEW e, FewerHeld(e), AlikeHeld(e)
    PROVE  RequestsKept(e) /\ AnswersKept(e)
  BY AlikeKept DEF FewerHeld, AnswersKept

LEMMA KeptIsFewer ==
    ASSUME Typed, NEW e \in Ends, Kept(e)
    PROVE  FewerHeld(e) /\ RequestsKept(e) /\ AnswersKept(e)
  <1>1. FewerHeld(e)
    BY HeldNat DEF FewerHeld, Kept, SameHeld
  <1>2. QED BY <1>1, FewerKept DEF Kept

LEMMA OwnedKept ==
    ASSUME NEW e, Owned(e), AlikeHeld(e), FewerExpected(pendingResponses[e], pendingResponses'[e])
    PROVE  Owned(e)'
  <1>1. ASSUME NEW m, m \in HeldBy(e)'
        PROVE  /\ m.type = "REQ" => m.about.from = e
               /\ m.type # "REQ" => m.no # 0
               /\ Answer(m) => m.sent + m.left = m.about.response
    <2>1. CASE IsAck(m) /\ m.no # 0
      BY <2>1 DEF IsAck, Answer
    <2>2. CASE \E k \in HeldBy(e) : Alike(k, m)
      BY <2>2 DEF Owned, Alike, Answer
    <2>3. QED BY <1>1, <2>1, <2>2 DEF AlikeHeld
  <1> DEFINE a == pendingResponses[e]
             b == pendingResponses'[e]
  <1>2. \A n \in DOMAIN a : /\ a[n].about.from = e /\ a[n].about.reply
                            /\ \A k \in DOMAIN a : a[k].about = a[n].about => k = n
    BY DEF Owned
  <1>3. FewerExpected(a, b)
    OBVIOUS
  <1> HIDE DEF a, b
  <1>4. \A n \in DOMAIN b : /\ b[n].about.from = e /\ b[n].about.reply
                            /\ \A k \in DOMAIN b : b[k].about = b[n].about => k = n
    BY <1>2, <1>3 DEF FewerExpected
  <1>5. QED BY <1>1, <1>4 DEF Owned, b

LEMMA NumberedKept ==
    ASSUME Typed, Typed', NEW e \in Ends, Numbered(e), FewerHeld(e), lastNo[e] <= lastNo'[e],
           FewerExpected(pendingResponses[e], pendingResponses'[e])
    PROVE  Numbered(e)'
  <1>1. ASSUME NEW n \in Nat \ {0}
        PROVE  Held(RequestNo(n), e)' + One(n \in DOMAIN pendingResponses'[e]) <= One(n <= lastNo'[e])
    <2>1. Held(RequestNo(n), e) + One(n \in DOMAIN pendingResponses[e]) <= One(n <= lastNo[e])
      BY DEF Numbered
    <2>2. Held(RequestNo(n), e)' <= Held(RequestNo(n), e)
      BY DEF FewerHeld
    <2>3. Held(RequestNo(n), e)' \in Nat
      BY HeldNat
    <2>4. Held(RequestNo(n), e) \in Nat
      BY HeldNat
    <2>5. One(n \in DOMAIN pendingResponses'[e]) <= One(n \in DOMAIN pendingResponses[e])
      BY DEF One, FewerExpected
    <2>6. One(n <= lastNo[e]) <= One(n <= lastNo'[e])
      BY SMTT(40) DEF One, Typed
    <2>7. /\ One(n \in DOMAIN pendingResponses[e]) \in Nat /\ One(n \in DOMAIN pendingResponses'[e]) \in Nat
          /\ One(n <= lastNo[e]) \in Nat /\ One(n <= lastNo'[e]) \in Nat
      BY DEF One
    <2>8. QED BY <2>1, <2>2, <2>3, <2>4, <2>5, <2>6, <2>7
  <1>2. QED BY <1>1 DEF Numbered

(* The links.  From e to p: what the requests that p has got and those     *)
(* under way say, ...                                                      *)
LEMMA ArriveSame ==
    ASSUME Typed, Typed', NEW e \in Ends, NEW p \in Ends, RequestsArrive(e, p), NoReopening,
           SameRequests(Channel(e), Channel(e)'),
           pendingRequests'[p] = pendingRequests[p], received'[p] = received[p], lastNo[e] <= lastNo'[e]
    PROVE  RequestsArrive(e, p)'
  <1> DEFINE c == Channel(e)
             d == Channel(e)'
  <1>1. PICK s \in {0, 1} : RequestsMoved(c, d, s)
    BY DEF SameRequests
  <1>2. c \in Seq(Frames) /\ d \in Seq(Frames)
    BY TypedChannels
  <1>0. lastNo[e] \in Nat /\ lastNo'[e] \in Nat
    BY DEF Typed
  <1> SUFFICES ASSUME Listening(p)'
               PROVE  /\ DOMAIN pendingRequests'[p] \subseteq 1 .. received'[p]
                      /\ \A k \in DOMAIN d : d[k].type = "REQ" =>
                            /\ d[k].no \in 1 .. lastNo'[e]
                            /\ \A n \in Nat : received'[p] < n /\ n < d[k].no => \E j \in 1 .. k - 1 : IsFrame(d, j, n)
                            /\ d[k].no <= received'[p] => d[k].no \in DOMAIN pendingRequests'[p]
                            /\ d[k].no \in DOMAIN pendingRequests'[p] => pendingRequests'[p][d[k].no].about = d[k].about
                            /\ \A j \in k + 1 .. Len(d) : IsFrame(d, j, d[k].no) => d[k].more /\ d[j].about = d[k].about
    BY DEF RequestsArrive
  <1>3. Listening(p)
    BY DEF NoReopening
  <1> HIDE DEF c, d
  <1>4. /\ DOMAIN pendingRequests[p] \subseteq 1 .. received[p]
        /\ \A k \in DOMAIN c : c[k].type = "REQ" =>
              /\ c[k].no \in 1 .. lastNo[e]
              /\ \A n \in Nat : received[p] < n /\ n < c[k].no => \E j \in 1 .. k - 1 : IsFrame(c, j, n)
              /\ c[k].no <= received[p] => c[k].no \in DOMAIN pendingRequests[p]
              /\ c[k].no \in DOMAIN pendingRequests[p] => pendingRequests[p][c[k].no].about = c[k].about
              /\ \A j \in k + 1 .. Len(c) : IsFrame(c, j, c[k].no) => c[k].more /\ c[j].about = c[k].about
    BY <1>3 DEF RequestsArrive, c
  <1>5. ASSUME NEW k \in DOMAIN d, d[k].type = "REQ"
        PROVE  /\ d[k].no \in 1 .. lastNo'[e]
               /\ \A n \in Nat : received'[p] < n /\ n < d[k].no => \E j \in 1 .. k - 1 : IsFrame(d, j, n)
               /\ d[k].no <= received'[p] => d[k].no \in DOMAIN pendingRequests'[p]
               /\ d[k].no \in DOMAIN pendingRequests'[p] => pendingRequests'[p][d[k].no].about = d[k].about
               /\ \A j \in k + 1 .. Len(d) : IsFrame(d, j, d[k].no) => d[k].more /\ d[j].about = d[k].about
    <2>1. k + s \in DOMAIN c /\ d[k] = c[k + s]
      BY <1>1, <1>5 DEF RequestsMoved
    <2>2. ASSUME NEW n \in Nat, received[p] < n, n < d[k].no PROVE \E j \in 1 .. k - 1 : IsFrame(d, j, n)
      <3>1. PICK j \in 1 .. (k + s) - 1 : IsFrame(c, j, n)
        BY <1>4, <1>5, <2>1, <2>2
      <3>2. j - s \in DOMAIN d /\ c[j] = d[j - s]
        BY <1>1, <3>1 DEF RequestsMoved, IsFrame
      <3>3. j - s \in 1 .. k - 1
        BY <1>2, <3>1, <3>2
      <3>4. QED BY <3>1, <3>2, <3>3 DEF IsFrame
    <2>3. ASSUME NEW j \in k + 1 .. Len(d), IsFrame(d, j, d[k].no) PROVE d[k].more /\ d[j].about = d[k].about
      <3>1. j + s \in DOMAIN c /\ d[j] = c[j + s]
        BY <1>1, <2>3 DEF RequestsMoved, IsFrame
      <3>2. j + s \in (k + s) + 1 .. Len(c)
        BY <1>2, <2>1, <3>1
      <3>3. IsFrame(c, j + s, c[k + s].no)
        BY <2>1, <2>3, <3>1 DEF IsFrame
      <3>4. QED BY <1>4, <1>5, <2>1, <3>1, <3>2, <3>3
    <2>5. d[k].no \in 1 .. lastNo'[e]
      BY <1>0, <1>4, <1>5, <2>1
    <2>4. QED BY <1>4, <1>5, <2>1, <2>2, <2>3, <2>5
  <1>6. QED BY <1>4, <1>5

(* ... what goes on being sent, ...                                        *)
LEMMA GoOnSame ==
    ASSUME NEW e \in Ends, NEW p \in Ends, RequestsGoOn(e, p), NoReopening, RequestsKept(e),
           SameRequests(Channel(e), Channel(e)'),
           pendingRequests'[p] = pendingRequests[p], received'[p] = received[p], lastNo'[e] = lastNo[e]
    PROVE  RequestsGoOn(e, p)'
  <1> DEFINE c == Channel(e)
             d == Channel(e)'
  <1>1. PICK s \in {0, 1} : RequestsMoved(c, d, s)
    BY DEF SameRequests
  <1> SUFFICES ASSUME state'[e] = "open", Listening(p)'
               PROVE  /\ received'[p] <= lastNo'[e]
                      /\ \A n \in Nat : received'[p] < n /\ n <= lastNo'[e] => \E k \in DOMAIN d : IsFrame(d, k, n)
                      /\ \A m \in HeldBy(e)' : m.type = "REQ" /\ m.no # 0 =>
                            /\ m.no <= received'[p] => m.no \in DOMAIN pendingRequests'[p]
                            /\ m.no \in DOMAIN pendingRequests'[p] => pendingRequests'[p][m.no].about = m.about
                            /\ \A k \in DOMAIN d : IsFrame(d, k, m.no) => d[k].more /\ d[k].about = m.about
    BY DEF RequestsGoOn
  <1>2. state[e] = "open" /\ Listening(p)
    BY DEF NoReopening
  <1> HIDE DEF c, d
  <1>3. /\ received[p] <= lastNo[e]
        /\ \A n \in Nat : received[p] < n /\ n <= lastNo[e] => \E k \in DOMAIN c : IsFrame(c, k, n)
        /\ \A m \in HeldBy(e) : m.type = "REQ" /\ m.no # 0 =>
              /\ m.no <= received[p] => m.no \in DOMAIN pendingRequests[p]
              /\ m.no \in DOMAIN pendingRequests[p] => pendingRequests[p][m.no].about = m.about
              /\ \A k \in DOMAIN c : IsFrame(c, k, m.no) => c[k].more /\ c[k].about = m.about
    BY <1>2 DEF RequestsGoOn, c
  <1>4. ASSUME NEW n \in Nat, received[p] < n, n <= lastNo[e] PROVE \E k \in DOMAIN d : IsFrame(d, k, n)
    <2>1. PICK k \in DOMAIN c : IsFrame(c, k, n)
      BY <1>3, <1>4
    <2>2. k - s \in DOMAIN d /\ c[k] = d[k - s]
      BY <1>1, <2>1 DEF RequestsMoved, IsFrame
    <2>3. QED BY <2>1, <2>2 DEF IsFrame
  <1>5. ASSUME NEW m, m \in HeldBy(e)', m.type = "REQ", m.no # 0
        PROVE  /\ m.no <= received[p] => m.no \in DOMAIN pendingRequests[p]
               /\ m.no \in DOMAIN pendingRequests[p] => pendingRequests[p][m.no].about = m.about
               /\ \A k \in DOMAIN d : IsFrame(d, k, m.no) => d[k].more /\ d[k].about = m.about
    <2>1. PICK h \in HeldBy(e) : Alike(h, m)
      BY <1>5 DEF RequestsKept
    <2>2. h.type = "REQ" /\ h.no = m.no /\ h.about = m.about
      BY <1>5, <2>1 DEF Alike
    <2>3. ASSUME NEW k \in DOMAIN d, IsFrame(d, k, m.no) PROVE d[k].more /\ d[k].about = m.about
      <3>1. k + s \in DOMAIN c /\ d[k] = c[k + s]
        BY <1>1, <2>3 DEF RequestsMoved, IsFrame
      <3>2. IsFrame(c, k + s, h.no)
        BY <2>2, <2>3, <3>1 DEF IsFrame
      <3>3. QED BY <1>3, <1>5, <2>2, <3>1, <3>2
    <2>4. QED BY <1>3, <1>5, <2>2, <2>3
  <1>6. QED BY <1>3, <1>4, <1>5

(* ... that there is one answer at most, ...                               *)
LEMMA AnswersAre ==
    ASSUME NEW e \in Ends, NEW p \in Ends, NEW n
    PROVE  /\ Typed => /\ Total(LastOfRequest(n), Channel(e)) \in Nat /\ Total(LastOfAnswer(n), Channel(p)) \in Nat
                       /\ Held(AnswerNo(n), p) \in Nat /\ Asked(inbox[p], n) \in {0, 1}
           /\ Typed' => /\ Total(LastOfRequest(n), Channel(e)') \in Nat /\ Total(LastOfAnswer(n), Channel(p)') \in Nat
                        /\ Held(AnswerNo(n), p)' \in Nat /\ Asked(inbox'[p], n) \in {0, 1}
  BY TypedChannels, FrameTotals, HeldNat DEF Asked

LEMMA OneAnswerSame ==
    ASSUME Typed, Typed', NEW e \in Ends, NEW p \in Ends, OneAnswer(e, p), NoReopening, AnswersKept(p),
           FewerRequests(Channel(e), Channel(e)'), FewerAnswers(Channel(p), Channel(p)'),
           inbox'[p] \subseteq inbox[p], pendingResponses'[e] = pendingResponses[e]
    PROVE  OneAnswer(e, p)'
  <1>1. ASSUME NEW n \in Nat \ {0} PROVE Answers(e, p, n)' <= Answers(e, p, n)
    <2>1. Total(LastOfRequest(n), Channel(e)') <= Total(LastOfRequest(n), Channel(e))
      BY DEF FewerRequests
    <2>2. Total(LastOfAnswer(n), Channel(p)') <= Total(LastOfAnswer(n), Channel(p))
      BY DEF FewerAnswers
    <2>3. Held(AnswerNo(n), p)' <= Held(AnswerNo(n), p)
      BY DEF AnswersKept
    <2>4. Asked(inbox'[p], n) <= Asked(inbox[p], n)
      BY DEF Asked
    <2>5. /\ Total(LastOfRequest(n), Channel(e)) \in Nat /\ Total(LastOfAnswer(n), Channel(p)) \in Nat
          /\ Held(AnswerNo(n), p) \in Nat /\ Asked(inbox[p], n) \in {0, 1}
      BY AnswersAre
    <2>6. /\ Total(LastOfRequest(n), Channel(e)') \in Nat /\ Total(LastOfAnswer(n), Channel(p)') \in Nat
          /\ Held(AnswerNo(n), p)' \in Nat /\ Asked(inbox'[p], n) \in {0, 1}
      BY AnswersAre
    <2>7. QED BY <2>1, <2>2, <2>3, <2>4, <2>5, <2>6 DEF Answers
  <1>2. ASSUME Listening(e)', NEW n \in Nat \ {0} PROVE Answers(e, p, n)' <= One(n \in DOMAIN pendingResponses'[e])
    <2>1. Answers(e, p, n) <= One(n \in DOMAIN pendingResponses[e])
      BY <1>2 DEF OneAnswer, NoReopening
    <2>2. Answers(e, p, n) \in Nat /\ Answers(e, p, n)' \in Nat /\ One(n \in DOMAIN pendingResponses[e]) \in Nat
      BY AnswersAre DEF Answers, One
    <2>3. QED BY <1>1, <2>1, <2>2
  <1>3. QED BY <1>2 DEF OneAnswer

(* ... and that it is the answer to what was asked, and whole.             *)
LEMMA MatchSame ==
    ASSUME Typed, Typed', NEW e \in Ends, NEW p \in Ends, AnswersMatch(e, p), NoReopening, AnswersKept(p),
           FewerRequests(Channel(e), Channel(e)'), FewerAnswers(Channel(p), Channel(p)'),
           state'[p] = "open" => SameAnswers(Channel(p), Channel(p)'),
           inbox'[p] \subseteq inbox[p], pendingResponses'[e] = pendingResponses[e]
    PROVE  AnswersMatch(e, p)'
  <1> DEFINE c == Channel(e)
             d == Channel(p)
             c1 == Channel(e)'
             d1 == Channel(p)'
  <1>1. \A k \in DOMAIN c1 : c1[k].type = "REQ" => \E j \in DOMAIN c : c1[k] = c[j]
    BY DEF FewerRequests
  <1>2. PICK t \in {0, 1} : AnswersMoved(d, d1, t)
    BY DEF FewerAnswers
  <1>3. d \in Seq(Frames) /\ d1 \in Seq(Frames)
    BY TypedChannels
  <1> DEFINE x == pendingResponses[e]
  <1>4. /\ state'[p] = "open" => \A n : Got(x, d1, n) = Got(x, d, n)
        /\ \A k \in DOMAIN d1 : Answer(d1[k]) /\ ~d1[k].more => Got(x, d1, d1[k].no) = Got(x, d, d1[k].no)
    BY DEF FewerAnswers, SameAnswers, Got
  <1>5. ASSUME NEW n \in DOMAIN x, Got(x, d, n) = 0 PROVE Got(x, d1, n) = 0
    <2>1. x[n].raw \in Nat
      BY DEF Typed, IsPending, Pendings
    <2>2. Total(BytesOf(n), d) \in Nat /\ Total(BytesOf(n), d1) \in Nat /\ Total(BytesOf(n), d1) <= Total(BytesOf(n), d)
      BY <1>3, FrameTotals DEF FewerAnswers
    <2> HIDE DEF x, d, d1
    <2>3. QED BY <1>5, <2>1, <2>2 DEF Got
  <1> SUFFICES ASSUME Listening(e)'
               PROVE  /\ \A k \in DOMAIN c1 : c1[k].type = "REQ" /\ ~c1[k].more /\ c1[k].about.reply =>
                            Expects(x, c1[k].no, c1[k].about) /\ Got(x, d1, c1[k].no) = 0
                      /\ \A r \in inbox'[p] : Expects(x, r.no, r.about) /\ Got(x, d1, r.no) = 0
                      /\ \A m \in HeldBy(p)' : Answer(m) =>
                            Expects(x, m.no, m.about) /\ (state'[p] = "open" => Got(x, d1, m.no) = m.sent)
                      /\ \A k \in DOMAIN d1 : Answer(d1[k]) =>
                            /\ Expects(x, d1[k].no, d1[k].about)
                            /\ ~d1[k].more => Got(x, d1, d1[k].no) = d1[k].about.response
                            /\ \A j \in k + 1 .. Len(d1) : Answer(d1[j]) /\ d1[j].no = d1[k].no => d1[k].more
    BY DEF AnswersMatch
  <1>6. Listening(e)
    BY DEF NoReopening
  <1> HIDE DEF c, d, c1, d1, x
  <1>7. /\ \A k \in DOMAIN c : c[k].type = "REQ" /\ ~c[k].more /\ c[k].about.reply =>
              Expects(x, c[k].no, c[k].about) /\ Got(x, d, c[k].no) = 0
        /\ \A r \in inbox[p] : Expects(x, r.no, r.about) /\ Got(x, d, r.no) = 0
        /\ \A m \in HeldBy(p) : Answer(m) =>
              Expects(x, m.no, m.about) /\ (state[p] = "open" => Got(x, d, m.no) = m.sent)
        /\ \A k \in DOMAIN d : Answer(d[k]) =>
              /\ Expects(x, d[k].no, d[k].about)
              /\ ~d[k].more => Got(x, d, d[k].no) = d[k].about.response
              /\ \A j \in k + 1 .. Len(d) : Answer(d[j]) /\ d[j].no = d[k].no => d[k].more
    BY <1>6 DEF AnswersMatch, c, d, x
  <1>8. ASSUME NEW k \in DOMAIN c1, c1[k].type = "REQ", ~c1[k].more, c1[k].about.reply
        PROVE  Expects(x, c1[k].no, c1[k].about) /\ Got(x, d1, c1[k].no) = 0
    <2>1. PICK j \in DOMAIN c : c1[k] = c[j]
      BY <1>1, <1>8
    <2>2. Expects(x, c1[k].no, c1[k].about) /\ Got(x, d, c1[k].no) = 0
      BY <1>7, <1>8, <2>1
    <2>3. QED BY <1>5, <2>2 DEF Expects
  <1>9. ASSUME NEW m, m \in HeldBy(p)', Answer(m)
        PROVE  Expects(x, m.no, m.about) /\ (state'[p] = "open" => Got(x, d1, m.no) = m.sent)
    <2>1. PICK h \in HeldBy(p) : Alike(h, m)
      BY <1>9 DEF AnswersKept
    <2>2. Answer(h) /\ h.no = m.no /\ h.about = m.about /\ h.sent = m.sent
      BY <1>9, <2>1 DEF Alike, Answer
    <2>3. state'[p] = "open" => state[p] = "open"
      BY DEF NoReopening
    <2>4. QED BY <1>4, <1>7, <2>2, <2>3
  <1>10. ASSUME NEW k \in DOMAIN d1, Answer(d1[k])
         PROVE  /\ Expects(x, d1[k].no, d1[k].about)
                /\ ~d1[k].more => Got(x, d1, d1[k].no) = d1[k].about.response
                /\ \A j \in k + 1 .. Len(d1) : Answer(d1[j]) /\ d1[j].no = d1[k].no => d1[k].more
    <2>1. k + t \in DOMAIN d /\ d1[k] = d[k + t]
      BY <1>2, <1>10 DEF AnswersMoved
    <2>2. ASSUME NEW j \in k + 1 .. Len(d1), Answer(d1[j]), d1[j].no = d1[k].no PROVE d1[k].more
      <3>1. j \in DOMAIN d1
        BY <1>3
      <3>2. j + t \in DOMAIN d /\ d1[j] = d[j + t]
        BY <1>2, <2>2, <3>1 DEF AnswersMoved
      <3>3. j + t \in (k + t) + 1 .. Len(d)
        BY <1>3, <2>1, <3>2
      <3>4. QED BY <1>7, <1>10, <2>1, <2>2, <3>2, <3>3
    <2>3. QED BY <1>4, <1>7, <1>10, <2>1, <2>2
  <1>11. \A r \in inbox'[p] : Expects(x, r.no, r.about) /\ Got(x, d1, r.no) = 0
    BY <1>5, <1>7 DEF Expects
  <1>12. QED BY <1>8, <1>9, <1>10, <1>11, Zenon

-----------------------------------------------------------------------------
(* A step that neither sends nor receives a request or an answer           *)
LEMMA KeptUnchanged ==
    ASSUME NEW e, mailbox'[e] = mailbox[e], outbox'[e] = outbox[e], icebox'[e] = icebox[e]
    PROVE  Kept(e)
  <1>1. HeldBy(e)' = HeldBy(e)
    BY DEF HeldBy
  <1>2. \A w : Total(w, mailbox'[e]) + Total(w, outbox'[e]) + Total(w, icebox'[e]) =
               Total(w, mailbox[e]) + Total(w, outbox[e]) + Total(w, icebox[e])
    OBVIOUS
  <1>3. SameHeld(e)
    BY <1>2 DEF SameHeld, Held
  <1>4. QED BY <1>1, <1>3 DEF Kept, AlikeHeld, Alike

LEMMA PlacesKept ==
    ASSUME InOnePlace, \A e \in Ends : SameHeld(e) /\ pendingResponses'[e] = pendingResponses[e], UNCHANGED <<unsent, outcome>>
    PROVE  InOnePlace'
  <1>1. ASSUME NEW q \in Requests PROVE Places(q)' = Places(q)
    <2>1. q.from \in Ends
      BY BLIPAssumption
    <2>2. Held(RequestOf(q), q.from)' = Held(RequestOf(q), q.from)
      BY <2>1 DEF SameHeld
    <2>3. Waits(q)' <=> Waits(q)
      BY <2>1 DEF Waits
    <2>4. QED BY <2>2, <2>3 DEF Places, One
  <1>2. QED BY <1>1 DEF InOnePlace

Quiet ==
    /\ NoReopening
    /\ \A e \in Ends : /\ Kept(e) /\ SameFrames(Channel(e), Channel(e)')
                        /\ pendingResponses'[e] = pendingResponses[e] /\ lastNo'[e] = lastNo[e]
    /\ UNCHANGED <<pendingRequests, received, inbox, unsent, outcome>>

LEMMA QuietStep ==
    ASSUME IInv, Typed', Quiet, NoProtocolError', \A e \in Ends : ClosedIsEmpty(e)'
    PROVE  IInv'
  <1>1. /\ NoReopening
        /\ \A e \in Ends : /\ Kept(e) /\ SameFrames(Channel(e), Channel(e)')
                            /\ pendingResponses'[e] = pendingResponses[e] /\ lastNo'[e] = lastNo[e]
        /\ UNCHANGED <<pendingRequests, received, inbox, unsent, outcome>>
    BY DEF Quiet
  <1>2. Typed
    BY DEF IInv
  <1>3. InOnePlace'
    BY <1>1, PlacesKept DEF IInv, Kept
  <1>4. RightOutcomes'
    BY <1>1 DEF IInv, RightOutcomes
  <1>5. ASSUME NEW e \in Ends PROVE Owned(e)' /\ Numbered(e)'
    <2>1. Owned(e) /\ Numbered(e) /\ AlikeHeld(e) /\ FewerHeld(e)
      BY <1>1, <1>2, KeptIsFewer DEF IInv, Kept
    <2>2. FewerExpected(pendingResponses[e], pendingResponses'[e]) /\ lastNo[e] <= lastNo'[e]
      BY <1>1, <1>2 DEF FewerExpected, Typed
    <2>3. QED BY <1>2, <2>1, <2>2, OwnedKept, NumberedKept
  <1>6. ASSUME NEW e \in Ends, NEW p \in Ends, p = Peer(e) PROVE Link(e, p)'
    <2>1. RequestsArrive(e, p) /\ RequestsGoOn(e, p) /\ OneAnswer(e, p) /\ AnswersMatch(e, p)
      BY <1>6 DEF IInv, Link
    <2>2. /\ SameRequests(Channel(e), Channel(e)') /\ FewerRequests(Channel(e), Channel(e)')
          /\ SameAnswers(Channel(p), Channel(p)') /\ FewerAnswers(Channel(p), Channel(p)')
      BY <1>1 DEF SameFrames, SameRequests, SameAnswers
    <2>3. RequestsKept(e) /\ AnswersKept(p) /\ lastNo[e] <= lastNo'[e]
      <3>1. RequestsKept(e) /\ AnswersKept(p)
        BY <1>1, <1>2, KeptIsFewer
      <3>2. lastNo[e] <= lastNo'[e]
        BY <1>1, <1>2 DEF Typed
      <3>3. QED BY <3>1, <3>2
    <2>4. RequestsArrive(e, p)'
      BY <1>1, <1>2, <2>1, <2>2, <2>3, ArriveSame
    <2>5. RequestsGoOn(e, p)'
      BY <1>1, <2>1, <2>2, <2>3, GoOnSame
    <2>6. OneAnswer(e, p)'
      BY <1>1, <1>2, <2>1, <2>2, <2>3, OneAnswerSame
    <2>7. AnswersMatch(e, p)'
      BY <1>1, <1>2, <2>1, <2>2, <2>3, MatchSame
    <2>8. QED BY <2>4, <2>5, <2>6, <2>7 DEF Link
  <1>7. \A e \in Ends : Link(e, Peer(e))'
    BY <1>6, Peers
  <1>8. QED BY <1>3, <1>4, <1>5, <1>7 DEF IInv

(* Messages that change hands at one end *)
LEMMA RequeueHeld ==
    ASSUME NEW w \in [Messages -> Nat], NEW box \in Seq(Messages), NEW m \in Messages
    PROVE  /\ Requeue(box, m) \in Seq(Messages)
           /\ Total(w, Requeue(box, m)) = Total(w, box) + w[m]
           /\ Range(Requeue(box, m)) = Range(box) \cup {m}
  <1> DEFINE t == Requeue(box, m)
  <1>1. t \in Seq(Messages)
    BY RequeueInserts
  <1>2. PICK k \in Nat : Inserted(box, t, k, m)
    BY RequeueInserts
  <1> HIDE DEF t
  <1>3. Total(w, t) = Total(w, box) + w[m]
    BY <1>1, <1>2, TotalInserted
  <1>4. Range(t) = Range(box) \cup {m}
    BY <1>1, <1>2, RangeInserted
  <1>5. QED BY <1>1, <1>3, <1>4 DEF t

LEMMA AppendHeld ==
    ASSUME NEW S, NEW w \in [S -> Nat], NEW box \in Seq(S), NEW m \in S
    PROVE  /\ Append(box, m) \in Seq(S)
           /\ Total(w, Append(box, m)) = Total(w, box) + w[m]
           /\ Range(Append(box, m)) = Range(box) \cup {m}
  <1> DEFINE t == Append(box, m)
  <1>1. t \in Seq(S) /\ Inserted(box, t, Len(box) + 1, m)
    BY AppendInserts
  <1>2. Total(w, t) = Total(w, box) + w[m]
    BY TotalAppend
  <1> HIDE DEF t
  <1>3. Range(t) = Range(box) \cup {m}
    BY <1>1, RangeInserted
  <1>4. QED BY <1>1, <1>2, <1>3 DEF t

LEMMA TailHeld ==
    ASSUME NEW S, NEW w \in [S -> Nat], NEW box \in Seq(S), box # << >>
    PROVE  /\ Tail(box) \in Seq(S) /\ Head(box) \in S
           /\ Total(w, box) = Total(w, Tail(box)) + w[Head(box)]
           /\ Range(box) = Range(Tail(box)) \cup {Head(box)}
  <1> DEFINE t == Tail(box)
             h == Head(box)
  <1>1. h \in S /\ t \in Seq(S) /\ Inserted(t, box, 1, h)
    BY TailInserts
  <1>2. Total(w, box) = Total(w, t) + w[h]
    BY TotalTail
  <1> HIDE DEF t, h
  <1>3. Range(box) = Range(t) \cup {h}
    BY <1>1, RangeInserted
  <1>4. QED BY <1>1, <1>2, <1>3 DEF t, h

LEMMA RemoveHeld ==
    ASSUME NEW w \in [Messages -> Nat], NEW box \in Seq(Messages), NEW i \in DOMAIN box
    PROVE  /\ RemoveAt(box, i) \in Seq(Messages)
           /\ Total(w, box) = Total(w, RemoveAt(box, i)) + w[box[i]]
           /\ Range(box) = Range(RemoveAt(box, i)) \cup {box[i]}
  <1> DEFINE t == RemoveAt(box, i)
  <1>1. t \in Seq(Messages) /\ Inserted(t, box, i, box[i]) /\ box[i] \in Messages
    BY RemoveAtInserts
  <1> HIDE DEF t
  <1>2. Total(w, box) = Total(w, t) + w[box[i]]
    BY <1>1, TotalInserted
  <1>3. Range(box) = Range(t) \cup {box[i]}
    BY <1>1, RangeInserted
  <1>4. QED BY <1>1, <1>2, <1>3 DEF t

-----------------------------------------------------------------------------
(* The messages and frames that the steps make                             *)
LEMMA MessageOutIs ==
    ASSUME NEW type \in Types, NEW no \in Nat, NEW q \in Requests, NEW urgent \in BOOLEAN, NEW left \in Nat \ {0}
    PROVE  LET m == MessageOut(type, no, q, urgent, left)
           IN  /\ m \in Messages /\ m.type = type /\ m.no = no /\ m.about = q /\ m.left = left /\ m.sent = 0
  BY DEF MessageOut, Messages

LEMMA RequestIs ==
    ASSUME NEW q \in Requests
    PROVE  /\ q.from \in Ends /\ q.urgent \in BOOLEAN /\ q.reply \in BOOLEAN
           /\ q.type \in {"RES", "ERR"} /\ q.size \in Nat \ {0} /\ q.response \in Nat \ {0}
  BY BLIPAssumption

(* The head of the out-box, numbered, the frame of it, and what is left    *)
Numbers(h, no) == IF h.no = 0 THEN [h EXCEPT !.no = no + 1] ELSE h
Rest(m, f) == [m EXCEPT !.left = @ - f.size, !.sent = @ + f.size, !.unacked = @ + f.size]

LEMMA NumbersIs ==
    ASSUME NEW h \in Messages, NEW no \in Nat
    PROVE  LET m == Numbers(h, no)
           IN  /\ m \in Messages /\ m.no # 0 /\ m.no = (IF h.no = 0 THEN no + 1 ELSE h.no)
               /\ m.type = h.type /\ m.about = h.about /\ m.left = h.left /\ m.sent = h.sent
               /\ m.urgent = h.urgent /\ m.unacked = h.unacked
  BY DEF Numbers, Messages

LEMMA NextFrameIs ==
    ASSUME NEW m \in Messages, m.no # 0, NEW rest \in Seq(Messages)
    PROVE  LET f == NextFrame(m, rest)
           IN  /\ f \in DataFrames /\ f.type = m.type /\ f.no = m.no /\ f.about = m.about
               /\ IsAck(m) => ~f.more
               /\ ~IsAck(m) /\ ~f.more => f.size = m.left
               /\ f.more => f.size < m.left
               /\ f.size <= m.left
  <1> DEFINE s == FrameSize(m, rest)
             f == NextFrame(m, rest)
  <1>1. m.left \in Nat \ {0} /\ m.type \in Types /\ m.no \in Nat /\ m.about \in Requests
    BY DEF Messages
  <1>2. BigFrame \in Nat \ {0} /\ SmallFrame \in Nat \ {0}
    BY BLIPAssumption
  <1>3. s \in Nat \ {0} /\ s <= m.left /\ (~(m.left > s) => s = m.left)
    <2> DEFINE max == IF m.urgent \/ rest = << >> \/ ~rest[1].urgent THEN BigFrame ELSE SmallFrame
    <2>1. max \in Nat \ {0}
      BY <1>2
    <2>2. s = IF m.left <= max THEN m.left ELSE max
      BY DEF FrameSize
    <2> HIDE DEF max, s
    <2>3. QED BY <1>1, <2>1, <2>2
  <1> HIDE DEF s
  <1>4. CASE IsAck(m)
    <2>1. f = [type |-> m.type, no |-> m.no, about |-> m.about, size |-> 1, more |-> FALSE, count |-> m.left]
      BY <1>4 DEF NextFrame
    <2>2. f \in DataFrames /\ f.type = m.type /\ f.no = m.no /\ f.about = m.about /\ ~f.more /\ f.size = 1
      BY <1>1, <2>1 DEF DataFrames
    <2> HIDE DEF f
    <2>3. QED BY <1>1, <1>4, <2>2 DEF f
  <1>5. CASE ~IsAck(m)
    <2>1. f = [type |-> m.type, no |-> m.no, about |-> m.about, size |-> s, more |-> m.left > s, count |-> 0]
      BY <1>5 DEF NextFrame, s
    <2>2. (m.left > s) \in BOOLEAN
      BY <1>1, <1>3
    <2>3. f \in DataFrames
      BY <1>1, <1>3, <2>1, <2>2 DEF DataFrames
    <2>4. f.type = m.type /\ f.no = m.no /\ f.about = m.about /\ f.more = (m.left > s) /\ f.size = s
      BY <2>1
    <2> HIDE DEF f
    <2>5. QED BY <1>1, <1>3, <1>5, <2>3, <2>4 DEF f
  <1>6. QED BY <1>4, <1>5

LEMMA RestIs ==
    ASSUME NEW m \in Messages, NEW f \in DataFrames, f.size < m.left
    PROVE  LET n == Rest(m, f)
           IN  /\ n \in Messages /\ n.type = m.type /\ n.no = m.no /\ n.about = m.about
               /\ n.left = m.left - f.size /\ n.sent = m.sent + f.size
  <1>1. m.left \in Nat /\ m.sent \in Nat /\ m.unacked \in Nat /\ f.size \in Nat \ {0}
    BY DEF Messages, DataFrames
  <1>2. m.left - f.size \in Nat \ {0} /\ m.sent + f.size \in Nat /\ m.unacked + f.size \in Nat
    BY <1>1
  <1>3. Rest(m, f) = [m EXCEPT !.left = m.left - f.size, !.sent = m.sent + f.size, !.unacked = m.unacked + f.size]
    BY DEF Rest
  <1>4. QED BY <1>2, <1>3 DEF Messages

LEMMA ReceivedAckIs ==
    ASSUME NEW m \in Messages, NEW count \in Nat
    PROVE  LET n == ReceivedAck(m, count)
           IN  n \in Messages /\ Alike(m, n)
  <1>1. m.sent \in Nat /\ m.unacked \in Nat
    BY DEF Messages
  <1>2. CASE count <= m.sent /\ m.sent - count < m.unacked
    <2>1. m.sent - count \in Nat
      BY <1>1, <1>2
    <2>2. ReceivedAck(m, count) = [m EXCEPT !.unacked = m.sent - count]
      BY <1>2 DEF ReceivedAck
    <2>3. QED BY <2>1, <2>2 DEF Messages, Alike
  <1>3. CASE ~(count <= m.sent /\ m.sent - count < m.unacked)
    BY <1>3 DEF ReceivedAck, Alike
  <1>4. QED BY <1>2, <1>3

LEMMA AcceptIs ==
    ASSUME NEW p \in Pendings, NEW f \in DataFrames
    PROVE  LET q == Accept(p, f)
           IN  q \in Pendings /\ q.about = p.about /\ q.raw = p.raw + f.size
  <1>1. p.raw \in Nat /\ p.unacked \in Nat /\ f.size \in Nat
    BY DEF Pendings, DataFrames
  <1> DEFINE u == IF p.unacked + f.size >= AckThreshold THEN 0 ELSE p.unacked + f.size
  <1>2. p.raw + f.size \in Nat /\ u \in Nat
    BY <1>1
  <1>3. Accept(p, f) = [p EXCEPT !.raw = p.raw + f.size, !.unacked = u]
    BY DEF Accept
  <1> HIDE DEF u
  <1>4. QED BY <1>2, <1>3 DEF Pendings

LEMMA AcksIs ==
    ASSUME NEW p \in Pendings, NEW f \in DataFrames, NEW type \in {"ACKREQ", "ACKRES"}
    PROVE  \/ Acks(p, f, type) = << >>
           \/ \E a \in Messages : IsAck(a) /\ a.no # 0 /\ Acks(p, f, type) = <<a>>
  <1>1. p.raw \in Nat /\ p.about \in Requests /\ f.size \in Nat \ {0} /\ f.no \in Nat \ {0}
    BY DEF Pendings, DataFrames
  <1>2. p.raw + f.size \in Nat \ {0} /\ type \in Types
    BY <1>1 DEF Types
  <1> DEFINE a == MessageOut(type, f.no, p.about, TRUE, p.raw + f.size)
  <1>3. a \in Messages /\ a.type = type /\ a.no = f.no
    <2>1. TRUE \in BOOLEAN
      OBVIOUS
    <2>2. \A urgent \in BOOLEAN : LET m == MessageOut(type, f.no, p.about, urgent, p.raw + f.size)
                                  IN  m \in Messages /\ m.type = type /\ m.no = f.no
      BY <1>1, <1>2, MessageOutIs
    <2>3. QED BY <2>1, <2>2
  <1>4. Acks(p, f, type) = << >> \/ Acks(p, f, type) = <<a>>
    BY DEF Acks
  <1> HIDE DEF a
  <1>5. IsAck(a) /\ a.no # 0
    BY <1>1, <1>3 DEF IsAck
  <1>6. QED BY <1>3, <1>4, <1>5

LEMMA PendingChanges ==
    ASSUME NEW pending, IsPending(pending), NEW no
    PROVE  /\ IsPending(Without(pending, no)) /\ DOMAIN Without(pending, no) = DOMAIN pending \ {no}
           /\ \A n \in DOMAIN pending \ {no} : Without(pending, no)[n] = pending[n]
           /\ \A p \in Pendings : no \in Nat \ {0} =>
                 /\ IsPending(With(pending, no, p)) /\ DOMAIN With(pending, no, p) = DOMAIN pending \cup {no}
                 /\ With(pending, no, p)[no] = p
                 /\ \A n \in DOMAIN pending : n # no => With(pending, no, p)[n] = pending[n]
           /\ IsPending(NothingPending) /\ DOMAIN NothingPending = {}
  <1>1. IsPending(Without(pending, no)) /\ DOMAIN Without(pending, no) = DOMAIN pending \ {no}
        /\ \A n \in DOMAIN pending \ {no} : Without(pending, no)[n] = pending[n]
    BY DEF IsPending, Without
  <1>2. ASSUME NEW p \in Pendings, no \in Nat \ {0}
        PROVE  /\ IsPending(With(pending, no, p)) /\ DOMAIN With(pending, no, p) = DOMAIN pending \cup {no}
               /\ With(pending, no, p)[no] = p
               /\ \A n \in DOMAIN pending : n # no => With(pending, no, p)[n] = pending[n]
    BY <1>2 DEF IsPending, With
  <1>3. IsPending(NothingPending) /\ DOMAIN NothingPending = {}
    BY DEF IsPending, NothingPending
  <1>4. QED BY <1>1, <1>2, <1>3

-----------------------------------------------------------------------------
(* Types *)
LEMMA SequenceUpdated ==
    ASSUME NEW S, NEW f \in [Ends -> Seq(S)], NEW e \in Ends, NEW s \in Seq(S)
    PROVE  /\ [f EXCEPT ![e] = s] \in [Ends -> Seq(S)] /\ [f EXCEPT ![e] = s][e] = s
           /\ \A x \in Ends : x # e => [f EXCEPT ![e] = s][x] = f[x]
  OBVIOUS

LEMMA PendingUpdated ==
    ASSUME NEW f, DOMAIN f = Ends, \A x \in Ends : IsPending(f[x]), NEW e \in Ends, NEW s, IsPending(s)
    PROVE  /\ DOMAIN [f EXCEPT ![e] = s] = Ends /\ \A x \in Ends : IsPending([f EXCEPT ![e] = s][x])
           /\ [f EXCEPT ![e] = s][e] = s
           /\ \A x \in Ends : x # e => [f EXCEPT ![e] = s][x] = f[x]
  OBVIOUS

LEMMA CloseWithErrorIs ==
    ASSUME Typed, NEW e \in Ends, CloseWithError(e)
    PROVE  /\ state' = [state EXCEPT ![e] = "error"]
           /\ state' \in [Ends -> {"open", "closing", "error", "closed"}]
           /\ sock' = sock \/ sock' = [sock EXCEPT ![e] = Append(sock[e], CloseFrame)]
           /\ sock' \in [Ends -> Seq(Frames)]
  <1>1. state' = [state EXCEPT ![e] = "error"]
    BY DEF CloseWithError, Set
  <1>2. state' \in [Ends -> {"open", "closing", "error", "closed"}]
    BY <1>1 DEF Typed
  <1>3. sock' = sock \/ sock' = [sock EXCEPT ![e] = Append(sock[e], CloseFrame)]
    BY DEF CloseWithError
  <1>4. sock \in [Ends -> Seq(Frames)] /\ sock[e] \in Seq(Frames) /\ CloseFrame \in Frames
    BY CloseFrameQuiet DEF Typed
  <1>5. Append(sock[e], CloseFrame) \in Seq(Frames)
    BY <1>4, AppendInserts
  <1>6. [sock EXCEPT ![e] = Append(sock[e], CloseFrame)] \in [Ends -> Seq(Frames)]
    BY <1>4, <1>5, SequenceUpdated
  <1>7. QED BY <1>1, <1>2, <1>3, <1>4, <1>6

LEMMA DisconnectedIs ==
    ASSUME NEW out \in [Requests -> Seq(Outcomes)], NEW qs
    PROVE  /\ Disconnected(out, qs) \in [Requests -> Seq(Outcomes)]
           /\ \A q \in Requests : Disconnected(out, qs)[q] =
                 IF q \in qs /\ q.reply THEN Append(out[q], [result |-> "disconnected"]) ELSE out[q]
  <1>1. [result |-> "disconnected"] \in Outcomes
    BY DEF Outcomes
  <1>2. \A q \in Requests : Append(out[q], [result |-> "disconnected"]) \in Seq(Outcomes)
    BY <1>1, AppendInserts
  <1>3. QED BY <1>2 DEF Disconnected

LEMMA ReceivingIs ==
    ASSUME Typed, NEW e \in Ends, NEW types, Receiving(e, types)
    PROVE  /\ wire[Peer(e)] # << >> /\ ~writing[e] /\ Listening(e)
           /\ wire' = [wire EXCEPT ![Peer(e)] = Tail(wire[Peer(e)])] /\ wire' \in [Ends -> Seq(Frames)]
           /\ Frame(e) \in Frames /\ Frame(e).type \in types
           /\ Frame(e).type # "CLOSE" => Frame(e) \in DataFrames
           /\ Frame(e) = Head(wire[Peer(e)])
  <1>1. Peer(e) \in Ends
    BY Peers
  <1>2. wire \in [Ends -> Seq(Frames)] /\ wire[Peer(e)] \in Seq(Frames) /\ wire[Peer(e)] # << >>
    BY <1>1 DEF Typed, Receiving
  <1>3. wire' = [wire EXCEPT ![Peer(e)] = Tail(wire[Peer(e)])]
    BY DEF Receiving
  <1>4. Tail(wire[Peer(e)]) \in Seq(Frames) /\ Head(wire[Peer(e)]) \in Frames
    BY <1>2, TailInserts
  <1>5. wire' \in [Ends -> Seq(Frames)]
    BY <1>1, <1>2, <1>3, <1>4, SequenceUpdated
  <1>6. Frame(e) \in Frames /\ Frame(e).type \in types
    BY <1>4 DEF Frame, Receiving
  <1>7. Frame(e).type # "CLOSE" => Frame(e) \in DataFrames
    BY <1>6 DEF Frames, CloseFrame
  <1>8. QED BY <1>2, <1>3, <1>5, <1>6, <1>7 DEF Receiving, Listening, Frame

LEMMA TypedSendRequest ==
    ASSUME Typed, NEW q \in Requests, SendRequest(q)
    PROVE  Typed'
  <1> DEFINE m == MessageOut("REQ", 0, q, q.urgent, q.size)
  <1>1. m \in Messages /\ q.from \in Ends
    BY RequestIs, MessageOutIs DEF Types
  <1> HIDE DEF m
  <1>2. mailbox \in [Ends -> Seq(Messages)] /\ mailbox[q.from] \in Seq(Messages)
    BY <1>1 DEF Typed
  <1>3. Append(mailbox[q.from], m) \in Seq(Messages)
    BY <1>1, <1>2, AppendInserts
  <1>4. mailbox' = [mailbox EXCEPT ![q.from] = Append(mailbox[q.from], m)]
    BY DEF SendRequest, m
  <1>5. mailbox' \in [Ends -> Seq(Messages)]
    BY <1>1, <1>2, <1>3, <1>4, SequenceUpdated
  <1>6. unsent' \subseteq Requests
    BY DEF SendRequest, Typed
  <1>7. QED BY <1>5, <1>6 DEF SendRequest, Typed, ends, net

LEMMA TypedRespond ==
    ASSUME Typed, NEW e \in Ends, NEW r \in inbox[e],
           inbox' = [inbox EXCEPT ![e] = @ \ {r}],
           mailbox' = [mailbox EXCEPT ![e] =
                          Append(@, MessageOut(r.about.type, r.no, r.about, r.about.urgent, r.about.response))],
           UNCHANGED <<ends, net, unsent, outcome, faults>>
    PROVE  Typed'
  <1> DEFINE m == MessageOut(r.about.type, r.no, r.about, r.about.urgent, r.about.response)
  <1>1. r.no \in Nat /\ r.about \in Requests
    BY DEF Typed
  <1>2. m \in Messages
    <2> DEFINE q == r.about
    <2>1. q \in Requests
      BY <1>1
    <2> HIDE DEF q
    <2>2. q.type \in Types /\ q.urgent \in BOOLEAN /\ q.response \in Nat \ {0}
      BY <2>1, RequestIs DEF Types
    <2>3. MessageOut(q.type, r.no, q, q.urgent, q.response) \in Messages
      BY <1>1, <2>1, <2>2, MessageOutIs
    <2>4. QED BY <2>3 DEF q
  <1>3. mailbox' = [mailbox EXCEPT ![e] = Append(mailbox[e], m)]
    OBVIOUS
  <1> HIDE DEF m
  <1>4. mailbox \in [Ends -> Seq(Messages)] /\ mailbox[e] \in Seq(Messages)
    BY DEF Typed
  <1>5. Append(mailbox[e], m) \in Seq(Messages)
    BY <1>2, <1>4, AppendInserts
  <1>6. mailbox' \in [Ends -> Seq(Messages)]
    BY <1>3, <1>4, <1>5, SequenceUpdated
  <1>7. inbox' \in [Ends -> SUBSET [no : Nat \ {0}, about : Requests]]
    BY DEF Typed
  <1>8. QED BY <1>6, <1>7 DEF Typed, ends, net

LEMMA TypedQueueMessage ==
    ASSUME Typed, NEW e \in Ends, QueueMessage(e)
    PROVE  Typed'
  <1> DEFINE m == Head(mailbox[e])
  <1>1. mailbox \in [Ends -> Seq(Messages)] /\ mailbox[e] \in Seq(Messages) /\ mailbox[e] # << >>
        /\ outbox \in [Ends -> Seq(Messages)] /\ outbox[e] \in Seq(Messages)
    BY DEF Typed, QueueMessage
  <1>2. m \in Messages /\ Tail(mailbox[e]) \in Seq(Messages)
    BY <1>1, TailInserts
  <1>3. mailbox' = [mailbox EXCEPT ![e] = Tail(mailbox[e])]
    BY DEF QueueMessage
  <1>4. mailbox' \in [Ends -> Seq(Messages)]
    BY <1>1, <1>2, <1>3, SequenceUpdated
  <1>5. CASE state[e] \in {"error", "closed"}
    <2>1. outcome' = Disconnected(outcome, OwnRequests(<<m>>)) /\ UNCHANGED <<outbox, writing>>
      BY <1>5 DEF QueueMessage
    <2>2. outcome' \in [Requests -> Seq(Outcomes)]
      BY <2>1, DisconnectedIs DEF Typed
    <2>3. QED BY <1>4, <2>1, <2>2 DEF Typed, QueueMessage, net
  <1>6. CASE state[e] \notin {"error", "closed"}
    <2>1. /\ outbox' = [outbox EXCEPT ![e] = Requeue(outbox[e], m)]
          /\ writing' = [writing EXCEPT ![e] = writeable[e]] /\ UNCHANGED outcome
      BY <1>6 DEF QueueMessage, Set
    <2> HIDE DEF m
    <2>2. Requeue(outbox[e], m) \in Seq(Messages)
      BY <1>1, <1>2, RequeueInserts
    <2>3. outbox' \in [Ends -> Seq(Messages)]
      BY <1>1, <2>1, <2>2, SequenceUpdated
    <2>4. writing' \in [Ends -> BOOLEAN]
      BY <2>1 DEF Typed
    <2>5. QED BY <1>4, <2>1, <2>3, <2>4 DEF Typed, QueueMessage, net
  <1>7. QED BY <1>5, <1>6

Writes(e) == Numbers(Head(outbox[e]), lastNo[e])
Wrote(e) == NextFrame(Writes(e), Tail(outbox[e]))
Remains(e) == Rest(Writes(e), Wrote(e))

LEMMA WriteFrameIs ==
    ASSUME Typed, NEW e \in Ends, WriteFrame(e), outbox[e] # << >>
    PROVE  /\ Head(outbox[e]) \in Messages /\ Tail(outbox[e]) \in Seq(Messages)
           /\ Writes(e) \in Messages /\ Wrote(e) \in DataFrames /\ (Wrote(e).more => Remains(e) \in Messages)
           /\ lastNo' = (IF Head(outbox[e]).no = 0 THEN [lastNo EXCEPT ![e] = Writes(e).no] ELSE lastNo)
           /\ SendOp(e, Wrote(e))
           /\ outbox' = [outbox EXCEPT ![e] = IF Wrote(e).more /\ ~NeedsAck(Remains(e))
                                             THEN Requeue(Tail(outbox[e]), Remains(e)) ELSE Tail(outbox[e])]
           /\ icebox' = (IF Wrote(e).more /\ NeedsAck(Remains(e))
                         THEN [icebox EXCEPT ![e] = Append(icebox[e], Remains(e))] ELSE icebox)
           /\ pendingResponses' = [pendingResponses EXCEPT ![e] = ExpectResponse(pendingResponses[e], Writes(e), Wrote(e))]
           /\ writing' = [writing EXCEPT ![e] = writeable'[e]]
           /\ UNCHANGED <<received, pendingRequests, state, mailbox, wire, ready, unsent, inbox, outcome, faults>>
  <1>1. outbox[e] \in Seq(Messages) /\ lastNo[e] \in Nat
    BY DEF Typed
  <1>2. Head(outbox[e]) \in Messages /\ Tail(outbox[e]) \in Seq(Messages)
    BY <1>1, TailInserts
  <1>3. Writes(e) \in Messages /\ Writes(e).no # 0
    BY <1>1, <1>2, NumbersIs DEF Writes
  <1>4. Wrote(e) \in DataFrames /\ (Wrote(e).more => Wrote(e).size < Writes(e).left)
    BY <1>2, <1>3, NextFrameIs DEF Wrote
  <1>5. Wrote(e).more => Remains(e) \in Messages
    BY <1>3, <1>4, RestIs DEF Remains
  <1>6. Writes(e) = IF Head(outbox[e]).no = 0 THEN [Head(outbox[e]) EXCEPT !.no = lastNo[e] + 1] ELSE Head(outbox[e])
    BY DEF Writes, Numbers
  <1>7. /\ lastNo' = (IF Head(outbox[e]).no = 0 THEN [lastNo EXCEPT ![e] = Writes(e).no] ELSE lastNo)
        /\ SendOp(e, Wrote(e))
        /\ outbox' = [outbox EXCEPT ![e] = IF Wrote(e).more /\ ~NeedsAck(Remains(e))
                                          THEN Requeue(Tail(outbox[e]), Remains(e)) ELSE Tail(outbox[e])]
        /\ icebox' = (IF Wrote(e).more /\ NeedsAck(Remains(e))
                      THEN [icebox EXCEPT ![e] = Append(icebox[e], Remains(e))] ELSE icebox)
        /\ pendingResponses' = [pendingResponses EXCEPT ![e] = ExpectResponse(pendingResponses[e], Writes(e), Wrote(e))]
        /\ writing' = [writing EXCEPT ![e] = writeable'[e]]
    <2>1. LET rest == Tail(outbox[e])
              h == Head(outbox[e])
              m == IF h.no = 0 THEN [h EXCEPT !.no = lastNo[e] + 1] ELSE h
              f == NextFrame(m, rest)
              n == [m EXCEPT !.left = @ - f.size, !.sent = @ + f.size, !.unacked = @ + f.size]
          IN  /\ lastNo' = IF h.no = 0 THEN Set(lastNo, e, m.no) ELSE lastNo
              /\ SendOp(e, f)
              /\ outbox' = Set(outbox, e, IF f.more /\ ~NeedsAck(n) THEN Requeue(rest, n) ELSE rest)
              /\ icebox' = IF f.more /\ NeedsAck(n) THEN Set(icebox, e, Append(icebox[e], n)) ELSE icebox
              /\ pendingResponses' = [pendingResponses EXCEPT ![e] = ExpectResponse(@, m, f)]
              /\ writing' = Set(writing, e, writeable'[e])
      BY DEF WriteFrame
    <2>2. QED BY <2>1, Zenon DEF Writes, Wrote, Remains, Numbers, Rest, Set
  <1>8. QED BY <1>2, <1>3, <1>4, <1>5, <1>7 DEF WriteFrame

LEMMA SendOpIs ==
    ASSUME Typed, NEW e \in Ends, NEW f \in Frames, SendOp(e, f)
    PROVE  /\ writeable' \in [Ends -> BOOLEAN] /\ sock' \in [Ends -> Seq(Frames)]
           /\ state[e] = "open" => sock' = [sock EXCEPT ![e] = Append(sock[e], f)]
           /\ state[e] # "open" => sock' = sock
  <1>1. sock \in [Ends -> Seq(Frames)] /\ sock[e] \in Seq(Frames)
    BY DEF Typed
  <1>2. Append(sock[e], f) \in Seq(Frames)
    BY <1>1, AppendInserts
  <1>3. writeable' \in [Ends -> BOOLEAN]
    <2>1. CASE state[e] = "open"
      <3>1. writeable' = [writeable EXCEPT ![e] = Size(sock'[e]) <= SendBuffer]
        BY <2>1 DEF SendOp, Set
      <3> DEFINE b == Size(sock'[e]) <= SendBuffer
      <3>2. b \in BOOLEAN
        OBVIOUS
      <3> HIDE DEF b
      <3>3. writeable' = [writeable EXCEPT ![e] = b]
        BY <3>1 DEF b
      <3>4. QED BY <3>2, <3>3 DEF Typed
    <2>2. CASE state[e] # "open"
      <3>1. writeable' = [writeable EXCEPT ![e] = FALSE]
        BY <2>2 DEF SendOp, Set
      <3>2. QED BY <3>1 DEF Typed
    <2>3. QED BY <2>1, <2>2
  <1>4. /\ state[e] = "open" => sock' = [sock EXCEPT ![e] = Append(sock[e], f)]
        /\ state[e] # "open" => sock' = sock
    BY DEF SendOp
  <1>5. sock' \in [Ends -> Seq(Frames)]
    <2> DEFINE s == Append(sock[e], f)
    <2>1. s \in Seq(Frames)
      BY <1>2
    <2>2. sock' = sock \/ sock' = [sock EXCEPT ![e] = s]
      BY <1>4
    <2> HIDE DEF s
    <2>3. QED BY <1>1, <2>1, <2>2
  <1>6. QED BY <1>3, <1>4, <1>5

LEMMA TypedWriteFrame ==
    ASSUME Typed, NEW e \in Ends, WriteFrame(e)
    PROVE  Typed'
  <1>1. CASE outbox[e] = << >>
    <2>1. writing' = [writing EXCEPT ![e] = FALSE] /\ UNCHANGED <<outbox, icebox, writeable, lastNo, pendingResponses, sock>>
      BY <1>1 DEF WriteFrame, Set
    <2>2. writing' \in [Ends -> BOOLEAN]
      BY <2>1 DEF Typed
    <2>3. QED BY <2>1, <2>2 DEF Typed, WriteFrame
  <1>2. CASE outbox[e] # << >>
    <2> DEFINE m == Writes(e)
               f == Wrote(e)
               n == Remains(e)
               rest == Tail(outbox[e])
    <2>1. rest \in Seq(Messages) /\ m \in Messages /\ f \in DataFrames /\ (f.more => n \in Messages)
      BY <1>2, WriteFrameIs
    <2>2. /\ lastNo' = (IF Head(outbox[e]).no = 0 THEN [lastNo EXCEPT ![e] = m.no] ELSE lastNo)
          /\ SendOp(e, f)
          /\ outbox' = [outbox EXCEPT ![e] = IF f.more /\ ~NeedsAck(n) THEN Requeue(rest, n) ELSE rest]
          /\ icebox' = (IF f.more /\ NeedsAck(n) THEN [icebox EXCEPT ![e] = Append(icebox[e], n)] ELSE icebox)
          /\ pendingResponses' = [pendingResponses EXCEPT ![e] = ExpectResponse(pendingResponses[e], m, f)]
          /\ writing' = [writing EXCEPT ![e] = writeable'[e]]
          /\ UNCHANGED <<received, pendingRequests, state, mailbox, wire, ready, unsent, inbox, outcome, faults>>
      BY <1>2, WriteFrameIs
    <2>3. m.no \in Nat \ {0}
      <3>1. Head(outbox[e]) \in Messages /\ lastNo[e] \in Nat
        BY <1>2, WriteFrameIs DEF Typed
      <3>2. m.no # 0
        BY <3>1, NumbersIs DEF Writes
      <3>3. QED BY <2>1, <3>2 DEF Messages
    <2> HIDE DEF m, f, n, rest
    <2>4. lastNo' \in [Ends -> Nat]
      BY <2>2, <2>3 DEF Typed
    <2>5. f \in Frames
      BY <2>1 DEF Frames
    <2>6. writeable' \in [Ends -> BOOLEAN] /\ sock' \in [Ends -> Seq(Frames)]
      BY <2>2, <2>5, SendOpIs
    <2>7. writing' \in [Ends -> BOOLEAN]
      BY <2>2, <2>6 DEF Typed
    <2>8. outbox' \in [Ends -> Seq(Messages)]
      <3>1. CASE f.more /\ ~NeedsAck(n)
        <4>1. Requeue(rest, n) \in Seq(Messages)
          BY <2>1, <3>1, RequeueInserts
        <4>2. QED BY <2>2, <3>1, <4>1 DEF Typed
      <3>2. CASE ~(f.more /\ ~NeedsAck(n))
        BY <2>1, <2>2, <3>2 DEF Typed
      <3>3. QED BY <3>1, <3>2
    <2>9. icebox' \in [Ends -> Seq(Messages)]
      <3>1. CASE f.more /\ NeedsAck(n)
        <4>1. icebox[e] \in Seq(Messages)
          BY DEF Typed
        <4>2. Append(icebox[e], n) \in Seq(Messages)
          BY <2>1, <3>1, <4>1, AppendInserts
        <4>3. QED BY <2>2, <3>1, <4>2 DEF Typed
      <3>2. CASE ~(f.more /\ NeedsAck(n))
        BY <2>2, <3>2 DEF Typed
      <3>3. QED BY <3>1, <3>2
    <2>10. IsPending(ExpectResponse(pendingResponses[e], m, f))
      <3>1. IsPending(pendingResponses[e])
        BY DEF Typed
      <3>2. NewPending(m.about) \in Pendings
        BY <2>1 DEF NewPending, Pendings, Messages
      <3>3. IsPending(With(pendingResponses[e], m.no, NewPending(m.about)))
        BY <2>3, <3>1, <3>2, PendingChanges
      <3>4. QED BY <3>1, <3>3 DEF ExpectResponse
    <2>11. DOMAIN pendingResponses' = Ends /\ \A x \in Ends : IsPending(pendingResponses'[x])
      BY <2>2, <2>10, PendingUpdated DEF Typed
    <2>12. QED BY <2>2, <2>4, <2>6, <2>7, <2>8, <2>9, <2>11 DEF Typed
  <1>3. QED BY <1>1, <1>2

LEMMA ElementIs ==
    ASSUME NEW S, NEW s \in Seq(S), NEW i \in DOMAIN s
    PROVE  i \in Nat /\ s[i] \in S
  OBVIOUS

LEMMA FirstIs ==
    ASSUME NEW s \in SUBSET Nat, s # {}
    PROVE  First(s) \in s
  BY LeastNatural DEF First

(* What an acknowledgement does to the boxes *)
AckedIn(box, i, m) == i \in DOMAIN box /\ m \in Messages /\ Alike(box[i], m)
Acked(e) ==
    \/ UNCHANGED <<outbox, icebox, writing>>
    \/ \E i \in Nat, m \in Messages :
          /\ AckedIn(outbox[e], i, m)
          /\ outbox' = [outbox EXCEPT ![e] = [outbox[e] EXCEPT ![i] = m]] /\ UNCHANGED <<icebox, writing>>
    \/ \E i \in Nat, m \in Messages :
          /\ AckedIn(icebox[e], i, m)
          /\ \/ icebox' = [icebox EXCEPT ![e] = [icebox[e] EXCEPT ![i] = m]] /\ UNCHANGED <<outbox, writing>>
             \/ /\ icebox' = [icebox EXCEPT ![e] = RemoveAt(icebox[e], i)]
                /\ outbox' = [outbox EXCEPT ![e] = Requeue(outbox[e], m)]
                /\ writing' = [writing EXCEPT ![e] = writeable[e]]

LEMMA OnAckIs ==
    ASSUME Typed, NEW e \in Ends, OnAck(e)
    PROVE  Acked(e)
  <1> DEFINE f == Frame(e)
             out == FindMessage(outbox[e], f.no, f.type = "ACKRES")
             ice == FindMessage(icebox[e], f.no, f.type = "ACKRES")
  <1>1. Receiving(e, {"ACKREQ", "ACKRES"})
    BY DEF OnAck
  <1>2. f.count \in Nat
    <2>1. f \in Frames /\ f.type \in {"ACKREQ", "ACKRES"} /\ (f.type # "CLOSE" => f \in DataFrames)
      BY <1>1, ReceivingIs
    <2>2. f \in DataFrames
      BY <2>1
    <2>3. QED BY <2>2 DEF DataFrames
  <1>3. outbox[e] \in Seq(Messages) /\ icebox[e] \in Seq(Messages)
    BY DEF Typed
  <1>4. out \in SUBSET Nat /\ ice \in SUBSET Nat /\ out \subseteq DOMAIN outbox[e] /\ ice \subseteq DOMAIN icebox[e]
    BY <1>3 DEF FindMessage
  <1>5. IF out # {}
        THEN /\ outbox' = [outbox EXCEPT ![e][First(out)] = ReceivedAck(@, f.count)]
             /\ UNCHANGED <<icebox, writing>>
        ELSE IF ice # {}
        THEN LET i == First(ice)
                 m == ReceivedAck(icebox[e][i], f.count)
             IN  IF NeedsAck(m)
                 THEN icebox' = [icebox EXCEPT ![e][i] = m] /\ UNCHANGED <<outbox, writing>>
                 ELSE /\ icebox' = [icebox EXCEPT ![e] = RemoveAt(@, i)]
                      /\ outbox' = [outbox EXCEPT ![e] = Requeue(@, m)]
                      /\ writing' = Set(writing, e, writeable[e])
        ELSE UNCHANGED <<outbox, icebox, writing>>
    BY DEF OnAck
  <1> HIDE DEF f, out, ice
  <1>6. CASE out # {}
    <2> DEFINE i == First(out)
               m == ReceivedAck(outbox[e][i], f.count)
    <2>1. i \in DOMAIN outbox[e] /\ i \in Nat /\ outbox[e][i] \in Messages
      <3>1. First(out) \in out
        BY <1>4, <1>6, FirstIs
      <3>2. i \in DOMAIN outbox[e]
        BY <1>4, <3>1
      <3> HIDE DEF i
      <3>3. QED BY <1>3, <3>2, ElementIs
    <2>2. m \in Messages /\ Alike(outbox[e][i], m)
      BY <1>2, <2>1, ReceivedAckIs
    <2>3. outbox' = [outbox EXCEPT ![e] = [outbox[e] EXCEPT ![i] = m]] /\ UNCHANGED <<icebox, writing>>
      BY <1>5, <1>6
    <2> HIDE DEF i, m
    <2>4. QED BY <2>1, <2>2, <2>3 DEF Acked, AckedIn
  <1>7. CASE out = {} /\ ice # {}
    <2> DEFINE i == First(ice)
               m == ReceivedAck(icebox[e][i], f.count)
    <2>1. i \in DOMAIN icebox[e] /\ i \in Nat /\ icebox[e][i] \in Messages
      <3>1. First(ice) \in ice
        BY <1>4, <1>7, FirstIs
      <3>2. i \in DOMAIN icebox[e]
        BY <1>4, <3>1
      <3> HIDE DEF i
      <3>3. QED BY <1>3, <3>2, ElementIs
    <2>2. m \in Messages /\ Alike(icebox[e][i], m)
      BY <1>2, <2>1, ReceivedAckIs
    <2>3. \/ icebox' = [icebox EXCEPT ![e] = [icebox[e] EXCEPT ![i] = m]] /\ UNCHANGED <<outbox, writing>>
          \/ /\ icebox' = [icebox EXCEPT ![e] = RemoveAt(icebox[e], i)]
             /\ outbox' = [outbox EXCEPT ![e] = Requeue(outbox[e], m)]
             /\ writing' = [writing EXCEPT ![e] = writeable[e]]
      BY <1>5, <1>7 DEF Set
    <2> HIDE DEF i, m
    <2>4. QED BY <2>1, <2>2, <2>3 DEF Acked, AckedIn
  <1>8. CASE out = {} /\ ice = {}
    BY <1>5, <1>8 DEF Acked
  <1>9. QED BY <1>6, <1>7, <1>8

LEMMA Replaced ==
    ASSUME NEW box \in Seq(Messages), NEW i, NEW m, AckedIn(box, i, m)
    PROVE  LET t == [box EXCEPT ![i] = m]
           IN  /\ t \in Seq(Messages) /\ Len(t) = Len(box) /\ DOMAIN t = DOMAIN box /\ t[i] = m
               /\ \A k \in DOMAIN box : k # i => t[k] = box[k]
  BY DEF AckedIn

LEMMA TypedOnAck ==
    ASSUME Typed, NEW e \in Ends, OnAck(e)
    PROVE  Typed'
  <1>1. wire' \in [Ends -> Seq(Frames)]
    BY ReceivingIs DEF OnAck
  <1>2. UNCHANGED <<writeable, lastNo, received, pendingRequests, pendingResponses, state, mailbox, sock, ready, unsent,
                    inbox, outcome, faults>>
    BY DEF OnAck
  <1>3. outbox[e] \in Seq(Messages) /\ icebox[e] \in Seq(Messages)
        /\ outbox \in [Ends -> Seq(Messages)] /\ icebox \in [Ends -> Seq(Messages)]
    BY DEF Typed
  <1>4. outbox' \in [Ends -> Seq(Messages)] /\ icebox' \in [Ends -> Seq(Messages)] /\ writing' \in [Ends -> BOOLEAN]
    <2>1. Acked(e)
      BY OnAckIs
    <2>2. CASE UNCHANGED <<outbox, icebox, writing>>
      BY <2>2 DEF Typed
    <2>3. ASSUME NEW i \in Nat, NEW m \in Messages, AckedIn(outbox[e], i, m),
                 outbox' = [outbox EXCEPT ![e] = [outbox[e] EXCEPT ![i] = m]], UNCHANGED <<icebox, writing>>
          PROVE  outbox' \in [Ends -> Seq(Messages)] /\ icebox' \in [Ends -> Seq(Messages)] /\ writing' \in [Ends -> BOOLEAN]
      <3>1. [outbox[e] EXCEPT ![i] = m] \in Seq(Messages)
        BY <1>3, <2>3, Replaced
      <3>2. outbox' \in [Ends -> Seq(Messages)]
        BY <1>3, <2>3, <3>1, SequenceUpdated
      <3>3. QED BY <2>3, <3>2 DEF Typed
    <2>4. ASSUME NEW i \in Nat, NEW m \in Messages, AckedIn(icebox[e], i, m),
                 icebox' = [icebox EXCEPT ![e] = [icebox[e] EXCEPT ![i] = m]], UNCHANGED <<outbox, writing>>
          PROVE  outbox' \in [Ends -> Seq(Messages)] /\ icebox' \in [Ends -> Seq(Messages)] /\ writing' \in [Ends -> BOOLEAN]
      <3>1. [icebox[e] EXCEPT ![i] = m] \in Seq(Messages)
        BY <1>3, <2>4, Replaced
      <3>2. icebox' \in [Ends -> Seq(Messages)]
        BY <1>3, <2>4, <3>1, SequenceUpdated
      <3>3. QED BY <2>4, <3>2 DEF Typed
    <2>5. ASSUME NEW i \in Nat, NEW m \in Messages, AckedIn(icebox[e], i, m),
                 icebox' = [icebox EXCEPT ![e] = RemoveAt(icebox[e], i)],
                 outbox' = [outbox EXCEPT ![e] = Requeue(outbox[e], m)],
                 writing' = [writing EXCEPT ![e] = writeable[e]]
          PROVE  outbox' \in [Ends -> Seq(Messages)] /\ icebox' \in [Ends -> Seq(Messages)] /\ writing' \in [Ends -> BOOLEAN]
      <3>1. RemoveAt(icebox[e], i) \in Seq(Messages)
        BY <1>3, <2>5, RemoveAtInserts DEF AckedIn
      <3>2. Requeue(outbox[e], m) \in Seq(Messages)
        BY <1>3, RequeueInserts
      <3>3. icebox' \in [Ends -> Seq(Messages)]
        BY <1>3, <2>5, <3>1, SequenceUpdated
      <3>4. outbox' \in [Ends -> Seq(Messages)]
        BY <1>3, <2>5, <3>2, SequenceUpdated
      <3>5. writing' \in [Ends -> BOOLEAN]
        BY <2>5 DEF Typed
      <3>6. QED BY <3>3, <3>4, <3>5
    <2>6. QED BY <2>1, <2>2, <2>3, <2>4, <2>5 DEF Acked
  <1>5. QED BY <1>1, <1>2, <1>4 DEF Typed

LEMMA TypedSocket ==
    ASSUME Typed, NEW e \in Ends, WriteComplete(e) \/ OnWriteable(e) \/ Close(e) \/ OnClose(e)
    PROVE  Typed'
  <1>1. sock \in [Ends -> Seq(Frames)] /\ wire \in [Ends -> Seq(Frames)] /\ sock[e] \in Seq(Frames) /\ wire[e] \in Seq(Frames)
    BY DEF Typed
  <1>2. CASE WriteComplete(e)
    <2>1. sock[e] # << >> /\ sock' = [sock EXCEPT ![e] = Tail(sock[e])]
          /\ wire' = [wire EXCEPT ![e] = Append(wire[e], Head(sock[e]))]
      BY <1>2 DEF WriteComplete
    <2>2. Tail(sock[e]) \in Seq(Frames) /\ Head(sock[e]) \in Frames
      BY <1>1, <2>1, TailInserts
    <2>3. Append(wire[e], Head(sock[e])) \in Seq(Frames)
      BY <1>1, <2>2, AppendInserts
    <2>4. sock' \in [Ends -> Seq(Frames)] /\ wire' \in [Ends -> Seq(Frames)]
      BY <1>1, <2>1, <2>2, <2>3, SequenceUpdated
    <2>5. ready' = ready \/ ready' = [ready EXCEPT ![e] = TRUE]
      BY <1>2 DEF WriteComplete, Set
    <2>6. ready' \in [Ends -> BOOLEAN]
      BY <2>5 DEF Typed
    <2>7. QED BY <1>2, <2>4, <2>6 DEF WriteComplete, Typed, ends
  <1>3. CASE OnWriteable(e)
    <2>1. /\ ready' = [ready EXCEPT ![e] = FALSE] /\ writeable' = [writeable EXCEPT ![e] = TRUE]
          /\ writing' = [writing EXCEPT ![e] = TRUE]
      BY <1>3 DEF OnWriteable, Set
    <2>2. ready' \in [Ends -> BOOLEAN] /\ writeable' \in [Ends -> BOOLEAN] /\ writing' \in [Ends -> BOOLEAN]
      BY <2>1 DEF Typed
    <2>3. QED BY <1>3, <2>2 DEF OnWriteable, Typed
  <1>4. CASE Close(e)
    <2>1. state' = [state EXCEPT ![e] = "closing"] /\ sock' = [sock EXCEPT ![e] = Append(sock[e], CloseFrame)]
          /\ faults' = faults + 1
      BY <1>4 DEF Close, Set, Fault
    <2>2. state' \in [Ends -> {"open", "closing", "error", "closed"}]
      BY <2>1 DEF Typed
    <2>3. Append(sock[e], CloseFrame) \in Seq(Frames)
      BY <1>1, CloseFrameQuiet, AppendInserts
    <2>4. sock' \in [Ends -> Seq(Frames)]
      BY <1>1, <2>1, <2>3, SequenceUpdated
    <2>5. faults' \in Nat
      BY <2>1 DEF Typed
    <2>6. QED BY <1>4, <2>2, <2>4, <2>5 DEF Close, Typed
  <1>5. CASE OnClose(e)
    <2>1. wire' \in [Ends -> Seq(Frames)]
      <3>1. CASE Receiving(e, {"CLOSE"})
        BY <3>1, ReceivingIs
      <3>2. CASE wire[Peer(e)] # << >> /\ wire' = [wire EXCEPT ![Peer(e)] = Tail(@)]
        <4>1. Peer(e) \in Ends /\ wire[Peer(e)] \in Seq(Frames)
          BY <1>1, Peers
        <4>2. Tail(wire[Peer(e)]) \in Seq(Frames)
          BY <3>2, <4>1, TailInserts
        <4>3. QED BY <1>1, <3>2, <4>1, <4>2, SequenceUpdated
      <3>3. QED BY <1>5, <3>1, <3>2 DEF OnClose
    <2>2. QED BY <1>5, <2>1 DEF OnClose, Typed, ends
  <1>6. QED BY <1>2, <1>3, <1>4, <1>5

(* Acknowledgements that an end sends *)
AcksAdded(e) ==
    \/ mailbox' = mailbox
    \/ \E a \in Messages : IsAck(a) /\ a.no # 0 /\ mailbox' = [mailbox EXCEPT ![e] = Append(mailbox[e], a)]

LEMMA AcksAre ==
    ASSUME Typed, NEW e \in Ends, NEW p \in Pendings, NEW f \in DataFrames, NEW type \in {"ACKREQ", "ACKRES"},
           mailbox' = [mailbox EXCEPT ![e] = @ \o Acks(p, f, type)]
    PROVE  AcksAdded(e) /\ mailbox' \in [Ends -> Seq(Messages)]
  <1>1. mailbox \in [Ends -> Seq(Messages)] /\ mailbox[e] \in Seq(Messages)
    BY DEF Typed
  <1>2. CASE Acks(p, f, type) = << >>
    <2>1. mailbox[e] \o << >> = mailbox[e]
      BY <1>1
    <2>2. mailbox' = [mailbox EXCEPT ![e] = mailbox[e]]
      BY <1>2, <2>1
    <2>3. mailbox' = mailbox
      BY <1>1, <2>2
    <2>4. QED BY <1>1, <2>3 DEF AcksAdded
  <1>3. ASSUME NEW a \in Messages, IsAck(a), a.no # 0, Acks(p, f, type) = <<a>>
        PROVE  AcksAdded(e) /\ mailbox' \in [Ends -> Seq(Messages)]
    <2>1. mailbox[e] \o <<a>> = Append(mailbox[e], a)
      BY <1>1
    <2>2. mailbox' = [mailbox EXCEPT ![e] = Append(mailbox[e], a)]
      BY <1>3, <2>1
    <2>3. Append(mailbox[e], a) \in Seq(Messages)
      BY <1>1, AppendInserts
    <2>4. mailbox' \in [Ends -> Seq(Messages)]
      <3> DEFINE s == Append(mailbox[e], a)
      <3>1. mailbox' = [mailbox EXCEPT ![e] = s] /\ s \in Seq(Messages)
        BY <2>2, <2>3
      <3> HIDE DEF s
      <3>2. QED BY <1>1, <3>1
    <2>5. QED BY <1>3, <2>2, <2>4 DEF AcksAdded
  <1>4. QED BY <1>2, <1>3, AcksIs

(* A frame of a request: refused, taken, or damaged *)
RequestPending(e) ==
    IF Frame(e).no \in DOMAIN pendingRequests[e] THEN pendingRequests[e][Frame(e).no] ELSE NewPending(Frame(e).about)

RequestRefused(e) ==
    /\ Frame(e).no \notin DOMAIN pendingRequests[e] /\ Frame(e).no # received[e] + 1
    /\ CloseWithError(e)
    /\ UNCHANGED <<received, pendingRequests, mailbox, inbox, faults>>

RequestTaken(e) ==
    /\ Frame(e).no \in DOMAIN pendingRequests[e] \/ Frame(e).no = received[e] + 1
    /\ received' = IF Frame(e).no \in DOMAIN pendingRequests[e] THEN received ELSE [received EXCEPT ![e] = Frame(e).no]
    /\ AcksAdded(e)
    /\ \/ /\ pendingRequests' = [pendingRequests EXCEPT ![e] =
                                    Keep(pendingRequests[e], Frame(e), Accept(RequestPending(e), Frame(e)))]
          /\ inbox' = IF ~Frame(e).more /\ RequestPending(e).about.reply
                      THEN [inbox EXCEPT ![e] = inbox[e] \cup {[no |-> Frame(e).no, about |-> RequestPending(e).about]}]
                      ELSE inbox
          /\ UNCHANGED <<state, sock, faults>>
       \/ /\ faults' = faults + 1
          /\ pendingRequests' = [pendingRequests EXCEPT ![e] =
                                    PutBack(pendingRequests[e], Frame(e), Accept(RequestPending(e), Frame(e)))]
          /\ CloseWithError(e)
          /\ UNCHANGED inbox

LEMMA OnRequestIs ==
    ASSUME Typed, NEW e \in Ends, OnRequest(e)
    PROVE  /\ Frame(e) \in DataFrames /\ Frame(e).type = "REQ" /\ RequestPending(e) \in Pendings
           /\ UNCHANGED <<outbox, icebox, writeable, writing, lastNo, pendingResponses, ready, unsent, outcome>>
           /\ mailbox' \in [Ends -> Seq(Messages)]
           /\ RequestRefused(e) \/ RequestTaken(e)
  <1> DEFINE f == Frame(e)
             p == RequestPending(e)
  <1>1. f \in DataFrames /\ f.type = "REQ"
    <2>1. Receiving(e, {"REQ"})
      BY DEF OnRequest
    <2>2. f.type \in {"REQ"} /\ (f.type # "CLOSE" => f \in DataFrames)
      BY <2>1, ReceivingIs
    <2>3. QED BY <2>2
  <1>2. f.no \in Nat /\ f.about \in Requests
    BY <1>1 DEF DataFrames
  <1>3. p \in Pendings
    <2>1. CASE f.no \in DOMAIN pendingRequests[e]
      <3>1. IsPending(pendingRequests[e])
        BY DEF Typed
      <3>2. p = pendingRequests[e][f.no]
        BY <2>1 DEF RequestPending
      <3>3. QED BY <2>1, <3>1, <3>2 DEF IsPending
    <2>2. CASE f.no \notin DOMAIN pendingRequests[e]
      <3>1. p = NewPending(f.about)
        BY <2>2 DEF RequestPending
      <3>2. NewPending(f.about) \in Pendings
        BY <1>2 DEF NewPending, Pendings
      <3>3. QED BY <3>1, <3>2
    <2>3. QED BY <2>1, <2>2
  <1>4. UNCHANGED <<outbox, icebox, writeable, writing, lastNo, pendingResponses, ready, unsent, outcome>>
    BY DEF OnRequest
  <1>5. \/ RequestRefused(e)
        \/ /\ f.no \in DOMAIN pendingRequests[e] \/ f.no = received[e] + 1
           /\ received' = IF f.no \in DOMAIN pendingRequests[e] THEN received ELSE [received EXCEPT ![e] = f.no]
           /\ mailbox' = [mailbox EXCEPT ![e] = @ \o Acks(p, f, "ACKREQ")]
           /\ \/ /\ pendingRequests' = [pendingRequests EXCEPT ![e] = Keep(pendingRequests[e], f, Accept(p, f))]
                 /\ inbox' = IF ~f.more /\ p.about.reply
                             THEN [inbox EXCEPT ![e] = inbox[e] \cup {[no |-> f.no, about |-> p.about]}]
                             ELSE inbox
                 /\ UNCHANGED <<state, sock, faults>>
              \/ /\ faults' = faults + 1
                 /\ pendingRequests' = [pendingRequests EXCEPT ![e] = PutBack(pendingRequests[e], f, Accept(p, f))]
                 /\ CloseWithError(e)
                 /\ UNCHANGED inbox
    <2>1. LET g == Frame(e)
              known == g.no \in DOMAIN pendingRequests[e]
              r == IF known THEN pendingRequests[e][g.no] ELSE NewPending(g.about)
              q == Accept(r, g)
          IN  \/ /\ ~known /\ g.no # received[e] + 1
                 /\ CloseWithError(e)
                 /\ UNCHANGED <<received, pendingRequests, mailbox, inbox, faults>>
              \/ /\ known \/ g.no = received[e] + 1
                 /\ received' = IF known THEN received ELSE Set(received, e, g.no)
                 /\ mailbox' = [mailbox EXCEPT ![e] = @ \o Acks(r, g, "ACKREQ")]
                 /\ \/ /\ pendingRequests' = [pendingRequests EXCEPT ![e] = Keep(@, g, q)]
                       /\ inbox' = IF ~g.more /\ r.about.reply
                                   THEN [inbox EXCEPT ![e] = @ \cup {[no |-> g.no, about |-> r.about]}]
                                   ELSE inbox
                       /\ UNCHANGED <<state, sock, faults>>
                    \/ /\ "REQ" \in Damaged /\ Fault
                       /\ pendingRequests' = [pendingRequests EXCEPT ![e] = PutBack(@, g, q)]
                       /\ CloseWithError(e)
                       /\ UNCHANGED inbox
      BY DEF OnRequest
    <2>2. QED BY <2>1, Zenon DEF RequestRefused, RequestPending, Set, Fault
  <1>6. CASE RequestRefused(e)
    BY <1>1, <1>3, <1>4, <1>6 DEF RequestRefused, Typed
  <1>7. CASE ~RequestRefused(e)
    <2>1. AcksAdded(e) /\ mailbox' \in [Ends -> Seq(Messages)]
      <3>1. mailbox' = [mailbox EXCEPT ![e] = @ \o Acks(p, f, "ACKREQ")]
        BY <1>5, <1>7
      <3> HIDE DEF p, f
      <3>2. QED BY <1>1, <1>3, <3>1, AcksAre
    <2>2. RequestTaken(e)
      BY <1>5, <1>7, <2>1 DEF RequestTaken
    <2>3. QED BY <1>1, <1>3, <1>4, <2>1, <2>2
  <1>8. QED BY <1>6, <1>7

LEMMA TypedOnRequest ==
    ASSUME Typed, NEW e \in Ends, OnRequest(e)
    PROVE  Typed'
  <1> DEFINE f == Frame(e)
             p == RequestPending(e)
  <1>1. /\ f \in DataFrames /\ p \in Pendings /\ mailbox' \in [Ends -> Seq(Messages)]
        /\ UNCHANGED <<outbox, icebox, writeable, writing, lastNo, pendingResponses, ready, unsent, outcome>>
        /\ RequestRefused(e) \/ RequestTaken(e)
    BY OnRequestIs
  <1>2. wire' \in [Ends -> Seq(Frames)]
    BY ReceivingIs DEF OnRequest
  <1>3. CASE RequestRefused(e)
    <2>1. state' \in [Ends -> {"open", "closing", "error", "closed"}] /\ sock' \in [Ends -> Seq(Frames)]
      BY <1>3, CloseWithErrorIs DEF RequestRefused
    <2>2. QED BY <1>1, <1>2, <1>3, <2>1 DEF RequestRefused, Typed
  <1>4. CASE RequestTaken(e)
    <2> DEFINE q == Accept(p, f)
    <2>1. IsPending(pendingRequests[e]) /\ received[e] \in Nat /\ received \in [Ends -> Nat]
          /\ DOMAIN pendingRequests = Ends /\ \A x \in Ends : IsPending(pendingRequests[x])
      BY DEF Typed
    <2>2. f.no \in Nat \ {0}
      <3>1. f.no \in DOMAIN pendingRequests[e] \/ f.no = received[e] + 1
        BY <1>4 DEF RequestTaken
      <3>2. QED BY <2>1, <3>1 DEF IsPending
    <2>3. q \in Pendings
      BY <1>1, AcceptIs
    <2>4. received' \in [Ends -> Nat]
      BY <1>4, <2>1, <2>2 DEF RequestTaken
    <2> HIDE DEF q
    <2>5. IsPending(Keep(pendingRequests[e], f, q)) /\ IsPending(PutBack(pendingRequests[e], f, q))
      BY <2>1, <2>2, <2>3, PendingChanges DEF Keep, PutBack
    <2>6. \/ /\ pendingRequests' = [pendingRequests EXCEPT ![e] = Keep(pendingRequests[e], f, q)]
             /\ inbox' = IF ~f.more /\ p.about.reply
                         THEN [inbox EXCEPT ![e] = inbox[e] \cup {[no |-> f.no, about |-> p.about]}]
                         ELSE inbox
             /\ UNCHANGED <<state, sock, faults>>
          \/ /\ faults' = faults + 1
             /\ pendingRequests' = [pendingRequests EXCEPT ![e] = PutBack(pendingRequests[e], f, q)]
             /\ CloseWithError(e)
             /\ UNCHANGED inbox
      BY <1>4 DEF RequestTaken, q
    <2>7. DOMAIN pendingRequests' = Ends /\ \A x \in Ends : IsPending(pendingRequests'[x])
      <3>1. \E s : IsPending(s) /\ pendingRequests' = [pendingRequests EXCEPT ![e] = s]
        BY <2>5, <2>6
      <3>2. QED BY <2>1, <3>1, PendingUpdated
    <2>8. inbox' \in [Ends -> SUBSET [no : Nat \ {0}, about : Requests]]
      <3> DEFINE r == [no |-> f.no, about |-> p.about]
      <3>1. r \in [no : Nat \ {0}, about : Requests]
        BY <1>1, <2>2 DEF Pendings
      <3> HIDE DEF r
      <3>2. inbox' = inbox \/ inbox' = [inbox EXCEPT ![e] = inbox[e] \cup {r}]
        BY <2>6 DEF r
      <3> DEFINE R == [no : Nat \ {0}, about : Requests]
      <3>3. inbox \in [Ends -> SUBSET R] /\ r \in R
        BY <3>1 DEF Typed
      <3> HIDE DEF R
      <3>4. inbox' \in [Ends -> SUBSET R]
        BY <3>2, <3>3
      <3>5. QED BY <3>4 DEF R
    <2>9. state' \in [Ends -> {"open", "closing", "error", "closed"}] /\ sock' \in [Ends -> Seq(Frames)] /\ faults' \in Nat
      <3>1. CASE UNCHANGED <<state, sock, faults>>
        BY <3>1 DEF Typed
      <3>2. CASE faults' = faults + 1 /\ CloseWithError(e)
        BY <3>2, CloseWithErrorIs DEF Typed
      <3>3. QED BY <2>6, <3>1, <3>2
    <2>10. QED BY <1>1, <1>2, <2>4, <2>7, <2>8, <2>9 DEF Typed
  <1>5. QED BY <1>1, <1>3, <1>4

(* A frame of an answer: refused, taken, or damaged *)
ResponseRefused(e) ==
    /\ Frame(e).no \notin DOMAIN pendingResponses[e]
    /\ CloseWithError(e)
    /\ UNCHANGED <<pendingResponses, mailbox, outcome, faults>>

ResponseTaken(e) ==
    LET f == Frame(e)
        p == pendingResponses[e][f.no]
        q == Accept(p, f)
    IN  /\ f.no \in DOMAIN pendingResponses[e]
        /\ AcksAdded(e)
        /\ pendingResponses' = [pendingResponses EXCEPT ![e] = Keep(pendingResponses[e], f, q)]
        /\ outcome' = IF f.more THEN outcome
                      ELSE [outcome EXCEPT ![p.about] =
                               Append(outcome[p.about], [result |-> "reply", to |-> f.about, bytes |-> q.raw])]
        /\ UNCHANGED <<state, sock, faults>>

ResponseDamaged(e) ==
    LET f == Frame(e)
        p == pendingResponses[e][f.no]
    IN  /\ f.no \in DOMAIN pendingResponses[e]
        /\ AcksAdded(e)
        /\ f.type \in Damaged /\ faults' = faults + 1
        /\ pendingResponses' = [pendingResponses EXCEPT ![e] = PutBack(pendingResponses[e], f, Accept(p, f))]
        /\ CloseWithError(e)
        /\ UNCHANGED outcome

LEMMA OnResponseIs ==
    ASSUME Typed, NEW e \in Ends, OnResponse(e)
    PROVE  /\ Frame(e) \in DataFrames /\ Answer(Frame(e))
           /\ UNCHANGED <<outbox, icebox, writeable, writing, lastNo, received, pendingRequests, ready, unsent, inbox>>
           /\ mailbox' \in [Ends -> Seq(Messages)]
           /\ ResponseRefused(e) \/ ResponseTaken(e) \/ ResponseDamaged(e)
  <1> DEFINE f == Frame(e)
             p == pendingResponses[e][f.no]
             q == Accept(p, f)
  <1>1. f \in DataFrames /\ f.type \in {"RES", "ERR"}
    <2>1. Receiving(e, {"RES", "ERR"})
      BY DEF OnResponse
    <2>2. f.type \in {"RES", "ERR"} /\ (f.type # "CLOSE" => f \in DataFrames)
      BY <2>1, ReceivingIs
    <2>3. QED BY <2>2
  <1>2. UNCHANGED <<outbox, icebox, writeable, writing, lastNo, received, pendingRequests, ready, unsent, inbox>>
    BY DEF OnResponse
  <1>3. LET g == Frame(e)
            known == g.no \in DOMAIN pendingResponses[e]
            r == pendingResponses[e][g.no]
            s == Accept(r, g)
        IN  \/ /\ ~known
               /\ CloseWithError(e)
               /\ UNCHANGED <<pendingResponses, mailbox, outcome, faults>>
            \/ /\ known
               /\ mailbox' = [mailbox EXCEPT ![e] = @ \o Acks(r, g, "ACKRES")]
               /\ \/ /\ pendingResponses' = [pendingResponses EXCEPT ![e] = Keep(@, g, s)]
                     /\ outcome' = IF g.more THEN outcome
                                   ELSE [outcome EXCEPT ![r.about] =
                                            Append(@, [result |-> "reply", to |-> g.about, bytes |-> s.raw])]
                     /\ UNCHANGED <<state, sock, faults>>
                  \/ /\ g.type \in Damaged /\ Fault
                     /\ pendingResponses' = [pendingResponses EXCEPT ![e] = PutBack(@, g, s)]
                     /\ CloseWithError(e)
                     /\ UNCHANGED outcome
    BY DEF OnResponse
  <1>4. CASE f.no \notin DOMAIN pendingResponses[e]
    <2>1. CloseWithError(e) /\ UNCHANGED <<pendingResponses, mailbox, outcome, faults>>
      BY <1>3, <1>4
    <2>2. ResponseRefused(e)
      BY <1>4, <2>1 DEF ResponseRefused
    <2>3. mailbox' \in [Ends -> Seq(Messages)]
      BY <2>1 DEF Typed
    <2>4. QED BY <1>1, <1>2, <2>2, <2>3 DEF Answer
  <1>5. CASE f.no \in DOMAIN pendingResponses[e]
    <2>1. mailbox' = [mailbox EXCEPT ![e] = @ \o Acks(p, f, "ACKRES")]
      BY <1>3, <1>5
    <2>2. p \in Pendings
      BY <1>5 DEF Typed, IsPending
    <2>3. \/ /\ pendingResponses' = [pendingResponses EXCEPT ![e] = Keep(pendingResponses[e], f, q)]
             /\ outcome' = IF f.more THEN outcome
                           ELSE [outcome EXCEPT ![p.about] =
                                    Append(outcome[p.about], [result |-> "reply", to |-> f.about, bytes |-> q.raw])]
             /\ UNCHANGED <<state, sock, faults>>
          \/ /\ f.type \in Damaged /\ faults' = faults + 1
             /\ pendingResponses' = [pendingResponses EXCEPT ![e] = PutBack(pendingResponses[e], f, q)]
             /\ CloseWithError(e)
             /\ UNCHANGED outcome
      BY <1>3, <1>5 DEF Fault
    <2>4. AcksAdded(e) /\ mailbox' \in [Ends -> Seq(Messages)]
      <3> HIDE DEF p, f
      <3>1. QED BY <1>1, <2>1, <2>2, AcksAre
    <2>5. ResponseTaken(e) \/ ResponseDamaged(e)
      BY <1>5, <2>3, <2>4 DEF ResponseTaken, ResponseDamaged
    <2>6. QED BY <1>1, <1>2, <2>4, <2>5 DEF Answer
  <1>6. QED BY <1>4, <1>5

LEMMA TypedOnResponse ==
    ASSUME Typed, NEW e \in Ends, OnResponse(e)
    PROVE  Typed'
  <1> DEFINE f == Frame(e)
             p == pendingResponses[e][f.no]
             q == Accept(p, f)
  <1>1. /\ f \in DataFrames /\ mailbox' \in [Ends -> Seq(Messages)]
        /\ UNCHANGED <<outbox, icebox, writeable, writing, lastNo, received, pendingRequests, ready, unsent, inbox>>
        /\ ResponseRefused(e) \/ ResponseTaken(e) \/ ResponseDamaged(e)
    BY OnResponseIs
  <1>2. wire' \in [Ends -> Seq(Frames)]
    BY ReceivingIs DEF OnResponse
  <1>3. CASE ResponseRefused(e)
    <2>1. state' \in [Ends -> {"open", "closing", "error", "closed"}] /\ sock' \in [Ends -> Seq(Frames)]
      BY <1>3, CloseWithErrorIs DEF ResponseRefused
    <2>2. QED BY <1>1, <1>2, <1>3, <2>1 DEF ResponseRefused, Typed
  <1>4. ASSUME f.no \in DOMAIN pendingResponses[e]
        PROVE  /\ p \in Pendings /\ p.about \in Requests /\ q \in Pendings
               /\ IsPending(Keep(pendingResponses[e], f, q)) /\ IsPending(PutBack(pendingResponses[e], f, q))
    <2>1. p \in Pendings /\ f.no \in Nat \ {0} /\ IsPending(pendingResponses[e])
      BY <1>4 DEF Typed, IsPending
    <2>2. q \in Pendings
      BY <1>1, <2>1, AcceptIs
    <2> HIDE DEF q
    <2>3. IsPending(Keep(pendingResponses[e], f, q)) /\ IsPending(PutBack(pendingResponses[e], f, q))
      BY <2>1, <2>2, PendingChanges DEF Keep, PutBack
    <2>4. QED BY <2>1, <2>2, <2>3 DEF Pendings
  <1>5. CASE ResponseTaken(e)
    <2>1. /\ f.no \in DOMAIN pendingResponses[e]
          /\ pendingResponses' = [pendingResponses EXCEPT ![e] = Keep(pendingResponses[e], f, q)]
          /\ outcome' = IF f.more THEN outcome
                        ELSE [outcome EXCEPT ![p.about] =
                                 Append(outcome[p.about], [result |-> "reply", to |-> f.about, bytes |-> q.raw])]
          /\ UNCHANGED <<state, sock, faults>>
      BY <1>5 DEF ResponseTaken
    <2> HIDE DEF q, p
    <2>2. DOMAIN pendingResponses' = Ends /\ \A x \in Ends : IsPending(pendingResponses'[x])
      BY <1>4, <2>1, PendingUpdated DEF Typed
    <2>3. outcome' \in [Requests -> Seq(Outcomes)]
      <3> DEFINE o == [result |-> "reply", to |-> f.about, bytes |-> q.raw]
      <3>1. o \in Outcomes
        BY <1>1, <1>4, <2>1 DEF Outcomes, Pendings, DataFrames
      <3> HIDE DEF o
      <3>2. outcome \in [Requests -> Seq(Outcomes)] /\ p.about \in Requests /\ outcome[p.about] \in Seq(Outcomes)
        BY <1>4, <2>1 DEF Typed
      <3>3. Append(outcome[p.about], o) \in Seq(Outcomes)
        BY <3>1, <3>2, AppendInserts
      <3>4. outcome' = outcome \/ outcome' = [outcome EXCEPT ![p.about] = Append(outcome[p.about], o)]
        BY <2>1 DEF o
      <3>5. QED BY <3>2, <3>3, <3>4
    <2>4. QED BY <1>1, <1>2, <2>1, <2>2, <2>3 DEF Typed
  <1>6. CASE ResponseDamaged(e)
    <2>1. /\ f.no \in DOMAIN pendingResponses[e] /\ faults' = faults + 1
          /\ pendingResponses' = [pendingResponses EXCEPT ![e] = PutBack(pendingResponses[e], f, q)]
          /\ CloseWithError(e) /\ UNCHANGED outcome
      BY <1>6 DEF ResponseDamaged
    <2> HIDE DEF q, p
    <2>2. DOMAIN pendingResponses' = Ends /\ \A x \in Ends : IsPending(pendingResponses'[x])
      BY <1>4, <2>1, PendingUpdated DEF Typed
    <2>3. state' \in [Ends -> {"open", "closing", "error", "closed"}] /\ sock' \in [Ends -> Seq(Frames)]
      BY <2>1, CloseWithErrorIs
    <2>4. faults' \in Nat /\ outcome' = outcome
      BY <2>1 DEF Typed
    <2>5. UNCHANGED <<outbox, icebox, writeable, writing, lastNo, received, pendingRequests, ready, unsent, inbox>>
      BY <1>1
    <2>6. mailbox' \in [Ends -> Seq(Messages)]
      BY <1>1
    <2> HIDE DEF f
    <2>7. QED BY <1>2, <2>2, <2>3, <2>4, <2>5, <2>6 DEF Typed
  <1>7. QED BY <1>1, <1>3, <1>5, <1>6

LEMMA EndConnectionIs ==
    ASSUME Typed, NEW e \in Ends, EndConnection(e)
    PROVE  /\ state' = [state EXCEPT ![e] = "closed"]
           /\ outbox' = [outbox EXCEPT ![e] = << >>] /\ icebox' = [icebox EXCEPT ![e] = << >>]
           /\ pendingRequests' = [pendingRequests EXCEPT ![e] = NothingPending]
           /\ pendingResponses' = [pendingResponses EXCEPT ![e] = NothingPending]
           /\ sock' = [sock EXCEPT ![e] = << >>] /\ wire' = [wire EXCEPT ![Peer(e)] = << >>]
           /\ ready' = [ready EXCEPT ![e] = FALSE]
           /\ ~writing[e]
           /\ UNCHANGED <<writeable, writing, lastNo, received, mailbox, unsent, inbox>>
           /\ outcome' = Disconnected(Disconnected(outcome, OwnRequests(outbox[e] \o icebox[e])),
                                      {pendingResponses[e][n].about : n \in DOMAIN pendingResponses[e]})
  BY DEF EndConnection, Set

LEMMA TypedEnd ==
    ASSUME Typed, NEW e \in Ends, Closed(e) \/ Lost(e)
    PROVE  Typed'
  <1>1. EndConnection(e) /\ (faults' = faults \/ faults' = faults + 1)
    BY DEF Closed, Lost, Fault
  <1>a. /\ outbox' = [outbox EXCEPT ![e] = << >>] /\ icebox' = [icebox EXCEPT ![e] = << >>]
        /\ pendingRequests' = [pendingRequests EXCEPT ![e] = NothingPending]
        /\ pendingResponses' = [pendingResponses EXCEPT ![e] = NothingPending]
        /\ sock' = [sock EXCEPT ![e] = << >>] /\ wire' = [wire EXCEPT ![Peer(e)] = << >>]
    BY <1>1, EndConnectionIs
  <1>2. outbox' \in [Ends -> Seq(Messages)] /\ icebox' \in [Ends -> Seq(Messages)]
    <2>1. << >> \in Seq(Messages) /\ outbox \in [Ends -> Seq(Messages)] /\ icebox \in [Ends -> Seq(Messages)]
      BY DEF Typed
    <2>2. QED BY <1>a, <2>1
  <1>3. sock' \in [Ends -> Seq(Frames)] /\ wire' \in [Ends -> Seq(Frames)]
    <2>1. << >> \in Seq(Frames) /\ sock \in [Ends -> Seq(Frames)] /\ wire \in [Ends -> Seq(Frames)] /\ Peer(e) \in Ends
      BY Peers DEF Typed
    <2>2. QED BY <1>a, <2>1
  <1>4. /\ DOMAIN pendingResponses' = Ends /\ DOMAIN pendingRequests' = Ends
        /\ \A x \in Ends : IsPending(pendingResponses'[x]) /\ IsPending(pendingRequests'[x])
    <2>1. IsPending(NothingPending)
      BY DEF IsPending, NothingPending
    <2>2. DOMAIN pendingResponses' = Ends /\ \A x \in Ends : IsPending(pendingResponses'[x])
      BY <1>a, <2>1, PendingUpdated DEF Typed
    <2>3. DOMAIN pendingRequests' = Ends /\ \A x \in Ends : IsPending(pendingRequests'[x])
      BY <1>a, <2>1, PendingUpdated DEF Typed
    <2>4. QED BY <2>2, <2>3
  <1>5. outcome' \in [Requests -> Seq(Outcomes)]
    <2> DEFINE a == Disconnected(outcome, OwnRequests(outbox[e] \o icebox[e]))
    <2>1. a \in [Requests -> Seq(Outcomes)]
      BY DisconnectedIs DEF Typed
    <2> HIDE DEF a
    <2>2. \E qs : outcome' = Disconnected(a, qs)
      BY <1>1, EndConnectionIs DEF a
    <2>3. QED BY <2>1, <2>2, DisconnectedIs
  <1>6. state' \in [Ends -> {"open", "closing", "error", "closed"}]
    BY <1>1, EndConnectionIs DEF Typed
  <1>7. ready' \in [Ends -> BOOLEAN]
    BY <1>1, EndConnectionIs DEF Typed
  <1>8. UNCHANGED <<writeable, writing, lastNo, received, mailbox, unsent, inbox>>
    BY <1>1, EndConnectionIs
  <1>9. faults' \in Nat
    BY <1>1 DEF Typed
  <1>10. QED BY <1>2, <1>3, <1>4, <1>5, <1>6, <1>7, <1>8, <1>9 DEF Typed

-----------------------------------------------------------------------------
(* The quiet steps *)
Counts(w) ==
    /\ w \in [Messages -> Nat]
    /\ \A k, m \in Messages : Alike(k, m) => w[k] = w[m]
    /\ \A m \in Messages : IsAck(m) => w[m] = 0

LEMMA AllCount ==
    /\ \A q : Counts(RequestOf(q))
    /\ \A n : Counts(RequestNo(n)) /\ Counts(AnswerNo(n))
  <1>1. ASSUME NEW k \in Messages, NEW m \in Messages, Alike(k, m)
        PROVE  /\ \A q : RequestOf(q)[k] = RequestOf(q)[m]
               /\ \A n : RequestNo(n)[k] = RequestNo(n)[m] /\ AnswerNo(n)[k] = AnswerNo(n)[m]
    BY <1>1, MessageWeightsAre DEF Alike, Answer, One
  <1>2. ASSUME NEW m \in Messages, IsAck(m)
        PROVE  /\ \A q : RequestOf(q)[m] = 0
               /\ \A n : RequestNo(n)[m] = 0 /\ AnswerNo(n)[m] = 0
    BY <1>2, MessageWeightsAre DEF IsAck, Answer, One
  <1>3. QED BY <1>1, <1>2, MessageWeights DEF Counts

LEMMA KeptIf ==
    ASSUME NEW e,
           \A w : Counts(w) => Total(w, mailbox'[e]) + Total(w, outbox'[e]) + Total(w, icebox'[e]) =
                               Total(w, mailbox[e]) + Total(w, outbox[e]) + Total(w, icebox[e]),
           \A m \in Range(mailbox'[e]) \cup Range(outbox'[e]) \cup Range(icebox'[e]) :
               (IsAck(m) /\ m.no # 0) \/ \E k \in HeldBy(e) : Alike(k, m)
    PROVE  Kept(e)
  <1>1. SameHeld(e)
    BY AllCount DEF SameHeld, Held
  <1>2. QED BY <1>1 DEF Kept, AlikeHeld, HeldBy

LEMMA AlikeSelf == \A m : Alike(m, m)
  BY DEF Alike

LEMMA ChannelUnchanged ==
    ASSUME Typed, NEW x \in Ends, sock'[x] = sock[x], wire'[x] = wire[x]
    PROVE  Channel(x)' = Channel(x) /\ SameFrames(Channel(x), Channel(x)')
  <1>1. Channel(x)' = Channel(x)
    BY DEF Channel
  <1>2. QED BY <1>1, TypedChannels, UnchangedFrames

LEMMA QueueMessageQuiet ==
    ASSUME IInv, NEW e \in Ends, QueueMessage(e), state[e] \notin {"error", "closed"}
    PROVE  IInv'
  <1> DEFINE m == Head(mailbox[e])
  <1>0. Typed
    BY DEF IInv
  <1>1. /\ mailbox \in [Ends -> Seq(Messages)] /\ mailbox[e] \in Seq(Messages) /\ mailbox[e] # << >>
        /\ outbox \in [Ends -> Seq(Messages)] /\ outbox[e] \in Seq(Messages) /\ icebox[e] \in Seq(Messages)
    BY <1>0 DEF Typed, QueueMessage
  <1>2. m \in Messages /\ Tail(mailbox[e]) \in Seq(Messages)
    BY <1>1, TailInserts
  <1>3. /\ mailbox' = [mailbox EXCEPT ![e] = Tail(mailbox[e])]
        /\ outbox' = [outbox EXCEPT ![e] = Requeue(outbox[e], m)]
        /\ UNCHANGED <<icebox, writeable, lastNo, received, pendingRequests, pendingResponses, state, net, unsent, inbox,
                       faults, outcome>>
    BY DEF QueueMessage
  <1> HIDE DEF m
  <1>4. mailbox'[e] = Tail(mailbox[e]) /\ outbox'[e] = Requeue(outbox[e], m) /\ icebox'[e] = icebox[e]
    BY <1>1, <1>3
  <1>5. Kept(e)
    <2>1. ASSUME NEW w, Counts(w)
          PROVE  Total(w, mailbox'[e]) + Total(w, outbox'[e]) + Total(w, icebox'[e]) =
                 Total(w, mailbox[e]) + Total(w, outbox[e]) + Total(w, icebox[e])
      <3>1. w \in [Messages -> Nat]
        BY <2>1 DEF Counts
      <3>2. Total(w, Requeue(outbox[e], m)) = Total(w, outbox[e]) + w[m]
        BY <1>1, <1>2, <3>1, RequeueHeld
      <3>3. Total(w, mailbox[e]) = Total(w, Tail(mailbox[e])) + w[m]
        BY <1>1, <3>1, TailHeld DEF m
      <3>4. w[m] \in Nat /\ Total(w, Tail(mailbox[e])) \in Nat /\ Total(w, outbox[e]) \in Nat /\ Total(w, icebox[e]) \in Nat
        BY <1>1, <1>2, <3>1, TotalIs
      <3>5. QED BY <1>4, <3>2, <3>3, <3>4
    <2>2. Range(mailbox'[e]) \cup Range(outbox'[e]) \cup Range(icebox'[e]) = HeldBy(e)
      <3>1. PICK w : w \in [Messages -> Nat]
        BY MessageWeights
      <3>2. Range(mailbox[e]) = Range(Tail(mailbox[e])) \cup {m}
        BY <1>1, <3>1, TailHeld DEF m
      <3>3. Range(Requeue(outbox[e], m)) = Range(outbox[e]) \cup {m}
        BY <1>1, <1>2, <3>1, RequeueHeld
      <3>4. QED BY <1>4, <3>2, <3>3 DEF HeldBy
    <2>3. QED BY <2>1, <2>2, KeptIf, AlikeSelf
  <1>6. ASSUME NEW x \in Ends PROVE Kept(x) /\ SameFrames(Channel(x), Channel(x)')
    <2>1. SameFrames(Channel(x), Channel(x)')
      BY <1>0, <1>3, ChannelUnchanged DEF net
    <2>2. CASE x # e
      <3>1. mailbox'[x] = mailbox[x] /\ outbox'[x] = outbox[x] /\ icebox'[x] = icebox[x]
        BY <1>1, <1>3, <2>2
      <3>2. QED BY <2>1, <3>1, KeptUnchanged
    <2>3. QED BY <1>5, <2>1, <2>2
  <1>7. Quiet
    BY <1>3, <1>6 DEF Quiet, NoReopening, Listening
  <1>8. NoProtocolError'
    BY <1>3 DEF IInv, NoProtocolError
  <1>9. \A x \in Ends : ClosedIsEmpty(x)'
    <2>1. TAKE x \in Ends
    <2>2. ClosedIsEmpty(x)
      BY DEF IInv
    <2>3. CASE x = e
      BY <1>3, <2>3 DEF ClosedIsEmpty
    <2>4. CASE x # e
      <3>1. outbox'[x] = outbox[x]
        BY <1>1, <1>3, <2>4
      <3>2. writing'[x] = writing[x]
        <4>1. writing' = [writing EXCEPT ![e] = writeable[e]]
          BY DEF QueueMessage, Set
        <4>2. QED BY <1>0, <2>4, <4>1 DEF Typed
      <3>3. QED BY <1>3, <2>2, <3>1, <3>2 DEF ClosedIsEmpty, net
    <2>5. QED BY <2>3, <2>4
  <1>10. QED BY <1>0, <1>7, <1>8, <1>9, TypedQueueMessage, QuietStep

LEMMA SocketQuiet ==
    ASSUME IInv, NEW e \in Ends, WriteComplete(e) \/ OnWriteable(e)
    PROVE  IInv'
  <1>0. Typed
    BY DEF IInv
  <1>1. UNCHANGED <<outbox, icebox, mailbox, lastNo, received, pendingRequests, pendingResponses, state, unsent, inbox,
                    outcome, faults>>
    BY DEF WriteComplete, OnWriteable, ends
  <1>2. ASSUME NEW x \in Ends PROVE Kept(x)
    BY <1>1, KeptUnchanged
  <1>3. ASSUME NEW x \in Ends PROVE SameFrames(Channel(x), Channel(x)')
    <2>1. CASE WriteComplete(e) /\ x = e
      <3>1. sock[e] \in Seq(Frames) /\ wire[e] \in Seq(Frames) /\ sock[e] # << >>
        BY <1>0, <2>1 DEF Typed, WriteComplete
      <3>2. sock'[e] = Tail(sock[e]) /\ wire'[e] = Append(wire[e], Head(sock[e]))
        BY <1>0, <2>1 DEF Typed, WriteComplete
      <3>3. Append(wire[e], Head(sock[e])) \o Tail(sock[e]) = wire[e] \o sock[e]
        BY <3>1, ChannelIs
      <3>4. Channel(e)' = Channel(e)
        BY <3>2, <3>3 DEF Channel
      <3>5. QED BY <1>0, <2>1, <3>4, TypedChannels, UnchangedFrames
    <2>2. CASE OnWriteable(e) \/ x # e
      <3>1. sock'[x] = sock[x] /\ wire'[x] = wire[x]
        BY <1>0, <2>2 DEF OnWriteable, WriteComplete, Typed
      <3>2. QED BY <1>0, <3>1, ChannelUnchanged
    <2>3. QED BY <2>1, <2>2
  <1>4. Quiet
    BY <1>1, <1>2, <1>3 DEF Quiet, NoReopening, Listening
  <1>5. NoProtocolError'
    BY <1>1 DEF IInv, NoProtocolError
  <1>6. ASSUME NEW x \in Ends PROVE ClosedIsEmpty(x)'
    <2>1. ClosedIsEmpty(x)
      BY DEF IInv
    <2>2. CASE x = e
      <3>1. state[e] # "closed"
        <4>1. CASE WriteComplete(e)
          BY <2>1, <2>2, <4>1 DEF WriteComplete, ClosedIsEmpty
        <4>2. CASE OnWriteable(e)
          BY <2>1, <2>2, <4>2 DEF OnWriteable, ClosedIsEmpty
        <4>3. QED BY <4>1, <4>2
      <3>2. QED BY <1>1, <2>2, <3>1 DEF ClosedIsEmpty
    <2>3. CASE x # e
      <3>1. sock'[x] = sock[x] /\ ready'[x] = ready[x] /\ writing'[x] = writing[x]
        <4>1. CASE WriteComplete(e)
          <5>1. ready' = ready \/ ready' = [ready EXCEPT ![e] = TRUE]
            BY <4>1 DEF WriteComplete, Set
          <5>2. QED BY <1>0, <2>3, <4>1, <5>1 DEF WriteComplete, ends, Typed
        <4>2. CASE OnWriteable(e)
          BY <1>0, <2>3, <4>2 DEF OnWriteable, Set, Typed
        <4>3. QED BY <4>1, <4>2
      <3>2. QED BY <1>1, <2>1, <3>1 DEF ClosedIsEmpty
    <2>4. QED BY <2>2, <2>3
  <1>7. QED BY <1>0, <1>4, <1>5, <1>6, TypedSocket, QuietStep

LEMMA CloseQuiet ==
    ASSUME IInv, NEW e \in Ends, Close(e)
    PROVE  IInv'
  <1>0. Typed
    BY DEF IInv
  <1>1. /\ state[e] = "open" /\ state' = [state EXCEPT ![e] = "closing"] /\ faults' = faults + 1
        /\ sock' = [sock EXCEPT ![e] = Append(sock[e], CloseFrame)]
        /\ UNCHANGED <<outbox, icebox, writeable, writing, lastNo, received, pendingRequests, pendingResponses, mailbox,
                       wire, ready, unsent, inbox, outcome>>
    BY DEF Close, Set, Fault
  <1>2. ASSUME NEW x \in Ends PROVE Kept(x)
    BY <1>1, KeptUnchanged
  <1>3. ASSUME NEW x \in Ends PROVE SameFrames(Channel(x), Channel(x)')
    <2>1. CASE x = e
      <3>1. sock[e] \in Seq(Frames) /\ wire[e] \in Seq(Frames)
        BY <1>0 DEF Typed
      <3>2. sock'[e] = Append(sock[e], CloseFrame)
        BY <1>0, <1>1 DEF Typed
      <3>3. wire[e] \o Append(sock[e], CloseFrame) = Append(wire[e] \o sock[e], CloseFrame)
        <4>1. \A f \in Frames : wire[e] \o Append(sock[e], f) = Append(wire[e] \o sock[e], f)
          BY <3>1, ChannelIs
        <4>2. QED BY <4>1, CloseFrameQuiet
      <3>4. Channel(e)' = Append(Channel(e), CloseFrame)
        BY <1>1, <3>2, <3>3 DEF Channel
      <3>5. QED BY <1>0, <2>1, <3>4, TypedChannels, QuietAppended, CloseFrameQuiet
    <2>2. CASE x # e
      <3>1. sock'[x] = sock[x] /\ wire'[x] = wire[x]
        BY <1>0, <1>1, <2>2 DEF Typed
      <3>2. QED BY <1>0, <3>1, ChannelUnchanged
    <2>3. QED BY <2>1, <2>2
  <1>4. NoReopening
    BY <1>0, <1>1 DEF NoReopening, Listening, Typed
  <1>5. Quiet
    BY <1>1, <1>2, <1>3, <1>4 DEF Quiet
  <1>6. NoProtocolError'
    BY <1>0, <1>1 DEF NoProtocolError, Typed
  <1>7. ASSUME NEW x \in Ends PROVE ClosedIsEmpty(x)'
    <2>1. ClosedIsEmpty(x)
      BY DEF IInv
    <2>2. CASE x = e
      BY <1>0, <1>1, <2>2 DEF ClosedIsEmpty, Typed
    <2>3. CASE x # e
      <3>1. sock'[x] = sock[x] /\ state'[x] = state[x]
        BY <1>0, <1>1, <2>3 DEF Typed
      <3>2. QED BY <1>1, <2>1, <3>1 DEF ClosedIsEmpty
    <2>4. QED BY <2>2, <2>3
  <1>8. QED BY <1>0, <1>5, <1>6, <1>7, TypedSocket, QuietStep

(* The first frame under way to e is taken.                                *)
TookFrame(e) ==
    LET p == Peer(e)
    IN  /\ Channel(p) # << >> /\ Head(Channel(p)) = Frame(e) /\ Channel(p)' = Tail(Channel(p))
        /\ sock'[e] = sock[e] => Channel(e)' = Channel(e)

LEMMA TakesFrame ==
    ASSUME Typed, NEW e \in Ends, wire[Peer(e)] # << >>,
           wire' = [wire EXCEPT ![Peer(e)] = Tail(wire[Peer(e)])], sock'[Peer(e)] = sock[Peer(e)]
    PROVE  TookFrame(e)
  <1> DEFINE p == Peer(e)
  <1>1. p \in Ends /\ p # e
    BY Peers
  <1> HIDE DEF p
  <1>2. wire[p] \in Seq(Frames) /\ sock[p] \in Seq(Frames) /\ wire[p] # << >>
    BY <1>1 DEF Typed, p
  <1>3. wire'[p] = Tail(wire[p]) /\ wire'[e] = wire[e]
    BY <1>1 DEF Typed, p
  <1>4. /\ wire[p] \o sock[p] # << >> /\ Tail(wire[p]) \o sock[p] = Tail(wire[p] \o sock[p])
        /\ Head(wire[p] \o sock[p]) = Head(wire[p])
    BY <1>2, ChannelIs
  <1>5. Channel(p) = wire[p] \o sock[p] /\ Channel(p)' = Tail(wire[p]) \o sock[p]
    BY <1>3 DEF Channel, p
  <1>6. sock'[e] = sock[e] => Channel(e)' = Channel(e)
    BY <1>3 DEF Channel
  <1>7. Frame(e) = Head(wire[p])
    BY DEF Frame, p
  <1>8. QED BY <1>4, <1>5, <1>6, <1>7 DEF TookFrame, p

LEMMA OnCloseQuiet ==
    ASSUME IInv, NEW e \in Ends, Receiving(e, {"CLOSE"}), UNCHANGED <<ends, mailbox, sock, ready, unsent, inbox, outcome, faults>>
    PROVE  IInv'
  <1>0. Typed
    BY DEF IInv
  <1>1. UNCHANGED <<outbox, icebox, writeable, writing, lastNo, received, pendingRequests, pendingResponses, state,
                    mailbox, sock, ready, unsent, inbox, outcome, faults>>
    BY DEF ends
  <1>2. ASSUME NEW x \in Ends PROVE Kept(x)
    BY <1>1, KeptUnchanged
  <1>3. TookFrame(e) /\ Frame(e).type = "CLOSE"
    <2>1. /\ wire[Peer(e)] # << >> /\ wire' = [wire EXCEPT ![Peer(e)] = Tail(wire[Peer(e)])]
          /\ Frame(e).type \in {"CLOSE"}
      BY <1>0, ReceivingIs
    <2>2. QED BY <1>0, <1>1, <2>1, TakesFrame
  <1>4. ASSUME NEW x \in Ends PROVE SameFrames(Channel(x), Channel(x)')
    <2>1. CASE x = Peer(e)
      <3>1. Channel(x) # << >> /\ Channel(x)' = Tail(Channel(x)) /\ ~Noisy(Head(Channel(x)))
        BY <1>3, <2>1 DEF TookFrame, Noisy, Answer
      <3>2. QED BY <1>0, <3>1, TypedChannels, QuietTaken
    <2>2. CASE x = e
      BY <1>0, <1>1, <1>3, <2>2, TypedChannels, UnchangedFrames DEF TookFrame
    <2>3. QED BY <2>1, <2>2, Peers
  <1>5. Quiet
    BY <1>1, <1>2, <1>4 DEF Quiet, NoReopening, Listening
  <1>6. NoProtocolError'
    BY <1>1 DEF IInv, NoProtocolError
  <1>7. ASSUME NEW x \in Ends PROVE ClosedIsEmpty(x)'
    BY <1>1 DEF IInv, ClosedIsEmpty
  <1>8. Typed'
    BY <1>0, TypedSocket DEF OnClose
  <1>9. QED BY <1>5, <1>6, <1>7, <1>8, QuietStep

LEMMA ReplacedHeld ==
    ASSUME NEW w, Counts(w), NEW box \in Seq(Messages), NEW i, NEW m, AckedIn(box, i, m)
    PROVE  Total(w, [box EXCEPT ![i] = m]) = Total(w, box)
  <1> DEFINE t == [box EXCEPT ![i] = m]
  <1>1. /\ t \in Seq(Messages) /\ Len(t) = Len(box) /\ DOMAIN t = DOMAIN box /\ t[i] = m
        /\ \A k \in DOMAIN box : k # i => t[k] = box[k]
    BY Replaced
  <1> HIDE DEF t
  <1>2. w \in [Messages -> Nat]
    BY DEF Counts
  <1>3. \A k \in DOMAIN t : w[t[k]] = w[box[k]]
    <2>1. w[m] = w[box[i]]
      BY DEF Counts, AckedIn
    <2>2. QED BY <1>1, <2>1
  <1>4. Total(w, t) = Total(w, box)
    BY <1>1, <1>2, <1>3, TotalSame
  <1>5. QED BY <1>4 DEF t

LEMMA ReplacedRange ==
    ASSUME NEW box \in Seq(Messages), NEW i, NEW m, AckedIn(box, i, m)
    PROVE  /\ Range([box EXCEPT ![i] = m]) \subseteq Range(box) \cup {m}
           /\ box[i] \in Range(box) /\ Alike(box[i], m)
  <1> DEFINE t == [box EXCEPT ![i] = m]
  <1>1. DOMAIN t = DOMAIN box /\ t[i] = m /\ \A k \in DOMAIN box : k # i => t[k] = box[k]
    BY Replaced
  <1> HIDE DEF t
  <1>2. Range(t) \subseteq Range(box) \cup {m}
    BY <1>1 DEF Range
  <1>3. box[i] \in Range(box) /\ Alike(box[i], m)
    BY DEF Range, AckedIn
  <1>4. QED BY <1>2, <1>3 DEF t

LEMMA AckedKept ==
    ASSUME Typed, NEW e \in Ends, Acked(e), mailbox' = mailbox
    PROVE  Kept(e)
  <1>1. outbox[e] \in Seq(Messages) /\ icebox[e] \in Seq(Messages) /\ mailbox[e] \in Seq(Messages)
        /\ outbox \in [Ends -> Seq(Messages)] /\ icebox \in [Ends -> Seq(Messages)]
    BY DEF Typed
  <1>2. CASE UNCHANGED <<outbox, icebox, writing>>
    BY <1>2, KeptUnchanged
  <1>3. ASSUME NEW i \in Nat, NEW m \in Messages, AckedIn(outbox[e], i, m),
               outbox' = [outbox EXCEPT ![e] = [outbox[e] EXCEPT ![i] = m]], icebox' = icebox
        PROVE  Kept(e)
    <2>1. outbox'[e] = [outbox[e] EXCEPT ![i] = m] /\ icebox'[e] = icebox[e] /\ mailbox'[e] = mailbox[e]
      BY <1>1, <1>3
    <2>2. ASSUME NEW w, Counts(w)
          PROVE  Total(w, mailbox'[e]) + Total(w, outbox'[e]) + Total(w, icebox'[e]) =
                 Total(w, mailbox[e]) + Total(w, outbox[e]) + Total(w, icebox[e])
      <3>1. Total(w, [outbox[e] EXCEPT ![i] = m]) = Total(w, outbox[e])
        <4> DEFINE box == outbox[e]
        <4>1. box \in Seq(Messages) /\ AckedIn(box, i, m)
          BY <1>1, <1>3
        <4> HIDE DEF box
        <4>2. Total(w, [box EXCEPT ![i] = m]) = Total(w, box)
          BY <2>2, <4>1, ReplacedHeld, ZenonT(60)
        <4>3. QED BY <4>2 DEF box
      <3>2. QED BY <2>1, <3>1
    <2>3. /\ Range(outbox'[e]) \subseteq Range(outbox[e]) \cup {m}
          /\ outbox[e][i] \in Range(outbox[e]) /\ Alike(outbox[e][i], m)
      BY <1>1, <1>3, <2>1, ReplacedRange
    <2>4. QED BY <2>1, <2>2, <2>3, KeptIf, AlikeSelf DEF HeldBy
  <1>4. ASSUME NEW i \in Nat, NEW m \in Messages, AckedIn(icebox[e], i, m),
               icebox' = [icebox EXCEPT ![e] = [icebox[e] EXCEPT ![i] = m]], outbox' = outbox
        PROVE  Kept(e)
    <2>1. icebox'[e] = [icebox[e] EXCEPT ![i] = m] /\ outbox'[e] = outbox[e] /\ mailbox'[e] = mailbox[e]
      BY <1>1, <1>4
    <2>2. ASSUME NEW w, Counts(w)
          PROVE  Total(w, mailbox'[e]) + Total(w, outbox'[e]) + Total(w, icebox'[e]) =
                 Total(w, mailbox[e]) + Total(w, outbox[e]) + Total(w, icebox[e])
      <3>1. Total(w, [icebox[e] EXCEPT ![i] = m]) = Total(w, icebox[e])
        <4> DEFINE box == icebox[e]
        <4>1. box \in Seq(Messages) /\ AckedIn(box, i, m)
          BY <1>1, <1>4
        <4> HIDE DEF box
        <4>2. Total(w, [box EXCEPT ![i] = m]) = Total(w, box)
          BY <2>2, <4>1, ReplacedHeld, ZenonT(60)
        <4>3. QED BY <4>2 DEF box
      <3>2. QED BY <2>1, <3>1
    <2>3. /\ Range(icebox'[e]) \subseteq Range(icebox[e]) \cup {m}
          /\ icebox[e][i] \in Range(icebox[e]) /\ Alike(icebox[e][i], m)
      BY <1>1, <1>4, <2>1, ReplacedRange
    <2>4. QED BY <2>1, <2>2, <2>3, KeptIf, AlikeSelf DEF HeldBy
  <1>5. ASSUME NEW i \in Nat, NEW m \in Messages, AckedIn(icebox[e], i, m),
               icebox' = [icebox EXCEPT ![e] = RemoveAt(icebox[e], i)],
               outbox' = [outbox EXCEPT ![e] = Requeue(outbox[e], m)]
        PROVE  Kept(e)
    <2>1. icebox'[e] = RemoveAt(icebox[e], i) /\ outbox'[e] = Requeue(outbox[e], m) /\ mailbox'[e] = mailbox[e]
      BY <1>1, <1>5
    <2> DEFINE k == icebox[e][i]
    <2>2. i \in DOMAIN icebox[e] /\ k \in Messages /\ Alike(k, m)
      BY <1>1, <1>5 DEF AckedIn
    <2> HIDE DEF k
    <2>3. ASSUME NEW w, Counts(w)
          PROVE  Total(w, mailbox'[e]) + Total(w, outbox'[e]) + Total(w, icebox'[e]) =
                 Total(w, mailbox[e]) + Total(w, outbox[e]) + Total(w, icebox[e])
      <3>1. w \in [Messages -> Nat]
        BY <2>3 DEF Counts
      <3>2. w[k] = w[m] /\ w[m] \in Nat
        BY <2>2, <2>3 DEF Counts
      <3>3. Total(w, Requeue(outbox[e], m)) = Total(w, outbox[e]) + w[m]
        BY <1>1, <3>1, RequeueHeld
      <3>4. Total(w, icebox[e]) = Total(w, RemoveAt(icebox[e], i)) + w[k]
        BY <1>1, <2>2, <3>1, RemoveHeld DEF k
      <3>5. RemoveAt(icebox[e], i) \in Seq(Messages)
        BY <1>1, <2>2, RemoveAtInserts
      <3>6. /\ Total(w, mailbox[e]) \in Nat /\ Total(w, outbox[e]) \in Nat /\ Total(w, RemoveAt(icebox[e], i)) \in Nat
        BY <1>1, <3>1, <3>5, TotalIs
      <3>7. QED BY <2>1, <3>2, <3>3, <3>4, <3>6
    <2>4. PICK w : w \in [Messages -> Nat]
      BY MessageWeights
    <2>5. Range(outbox'[e]) = Range(outbox[e]) \cup {m} /\ Range(icebox[e]) = Range(icebox'[e]) \cup {k}
      BY <1>1, <2>1, <2>2, <2>4, RequeueHeld, RemoveHeld DEF k
    <2>6. QED BY <2>1, <2>2, <2>3, <2>5, KeptIf, AlikeSelf DEF HeldBy
  <1>6. QED BY <1>2, <1>3, <1>4, <1>5 DEF Acked

LEMMA AckedElsewhere ==
    ASSUME Typed, NEW e \in Ends, Acked(e), NEW x \in Ends, x # e
    PROVE  outbox'[x] = outbox[x] /\ icebox'[x] = icebox[x] /\ writing'[x] = writing[x]
  BY DEF Acked, Typed

LEMMA OnAckQuiet ==
    ASSUME IInv, NEW e \in Ends, OnAck(e)
    PROVE  IInv'
  <1>0. Typed
    BY DEF IInv
  <1>1. UNCHANGED <<writeable, lastNo, received, pendingRequests, pendingResponses, state, mailbox, sock, ready, unsent,
                    inbox, outcome, faults>>
    BY DEF OnAck
  <1>2. Acked(e)
    BY <1>0, OnAckIs
  <1>3. Receiving(e, {"ACKREQ", "ACKRES"})
    BY DEF OnAck
  <1>4. TookFrame(e) /\ ~Noisy(Frame(e)) /\ Listening(e)
    <2>1. /\ wire[Peer(e)] # << >> /\ wire' = [wire EXCEPT ![Peer(e)] = Tail(wire[Peer(e)])]
          /\ Frame(e).type \in {"ACKREQ", "ACKRES"} /\ Listening(e)
      BY <1>0, <1>3, ReceivingIs
    <2>2. TookFrame(e)
      BY <1>0, <1>1, <2>1, TakesFrame
    <2>3. QED BY <2>1, <2>2 DEF Noisy, Answer
  <1>5. ASSUME NEW x \in Ends PROVE Kept(x)
    <2>1. CASE x = e
      BY <1>0, <1>1, <1>2, <2>1, AckedKept
    <2>2. CASE x # e
      BY <1>0, <1>1, <1>2, <2>2, AckedElsewhere, KeptUnchanged
    <2>3. QED BY <2>1, <2>2
  <1>6. ASSUME NEW x \in Ends PROVE SameFrames(Channel(x), Channel(x)')
    <2>1. CASE x = Peer(e)
      <3>1. Channel(x) # << >> /\ Channel(x)' = Tail(Channel(x)) /\ ~Noisy(Head(Channel(x)))
        BY <1>4, <2>1 DEF TookFrame
      <3>2. QED BY <1>0, <3>1, TypedChannels, QuietTaken
    <2>2. CASE x = e
      BY <1>0, <1>1, <1>4, <2>2, TypedChannels, UnchangedFrames DEF TookFrame
    <2>3. QED BY <2>1, <2>2, Peers
  <1>7. Quiet
    BY <1>1, <1>5, <1>6 DEF Quiet, NoReopening, Listening
  <1>8. NoProtocolError'
    BY <1>1 DEF IInv, NoProtocolError
  <1>9. ASSUME NEW x \in Ends PROVE ClosedIsEmpty(x)'
    <2>1. ClosedIsEmpty(x)
      BY DEF IInv
    <2>2. CASE x = e
      BY <1>1, <1>4, <2>2 DEF ClosedIsEmpty, Listening
    <2>3. CASE x # e
      BY <1>0, <1>1, <1>2, <2>1, <2>3, AckedElsewhere DEF ClosedIsEmpty
    <2>4. QED BY <2>2, <2>3
  <1>10. QED BY <1>0, <1>7, <1>8, <1>9, TypedOnAck, QuietStep

-----------------------------------------------------------------------------
(* writeToWebSocket() sends frame f of message h; if more is left of it,   *)
(* n remains.  Others are the messages that e holds besides.               *)
Others(e) == Range(mailbox[e]) \cup Range(Tail(outbox[e])) \cup Range(icebox[e])
OthersTotal(w, e) == Total(w, mailbox[e]) + Total(w, Tail(outbox[e])) + Total(w, icebox[e])
Answered(pending, h, f) ==
    IF ~f.more /\ h.type = "REQ" /\ h.about.reply THEN With(pending, f.no, NewPending(h.about)) ELSE pending

FrameOf(f, h, n, last) ==
    /\ h \in Messages /\ f \in DataFrames /\ (f.more => n \in Messages)
    /\ f.type = h.type /\ f.about = h.about /\ f.no = (IF h.no = 0 THEN last + 1 ELSE h.no)
    /\ IsAck(h) => ~f.more
    /\ ~IsAck(h) /\ ~f.more => f.size = h.left
    /\ f.more => n.type = h.type /\ n.no = f.no /\ n.about = h.about /\ n.left = h.left - f.size /\ n.sent = h.sent + f.size

HeldSent(e, h, f, n) ==
    /\ Others(e) \subseteq Messages
    /\ HeldBy(e) = Others(e) \cup {h}
    /\ HeldBy(e)' = Others(e) \cup (IF f.more THEN {n} ELSE {})
    /\ \A w \in [Messages -> Nat] :
          /\ OthersTotal(w, e) \in Nat
          /\ Held(w, e) = OthersTotal(w, e) + w[h]
          /\ Held(w, e)' = OthersTotal(w, e) + (IF f.more THEN w[n] ELSE 0)
          /\ \A k \in Others(e) : w[k] <= OthersTotal(w, e)

Elsewhere(e) ==
    \A x \in Ends : x # e =>
        /\ mailbox'[x] = mailbox[x] /\ outbox'[x] = outbox[x] /\ icebox'[x] = icebox[x]
        /\ writing'[x] = writing[x] /\ sock'[x] = sock[x] /\ lastNo'[x] = lastNo[x]
        /\ pendingResponses'[x] = pendingResponses[x] /\ Channel(x)' = Channel(x)

SentFrame(e, h, f, n) ==
    /\ FrameOf(f, h, n, lastNo[e])
    /\ HeldSent(e, h, f, n)
    /\ lastNo'[e] = (IF h.no = 0 THEN lastNo[e] + 1 ELSE lastNo[e])
    /\ pendingResponses'[e] = Answered(pendingResponses[e], h, f)
    /\ state[e] = "open" => Channel(e)' = Append(Channel(e), f)
    /\ state[e] # "open" => Channel(e)' = Channel(e)
    /\ Elsewhere(e)
    /\ writing[e]
    /\ UNCHANGED <<received, pendingRequests, state, mailbox, wire, ready, unsent, inbox, outcome, faults>>

LEMMA WriteFrameSends ==
    ASSUME Typed, NEW e \in Ends, WriteFrame(e), outbox[e] # << >>
    PROVE  SentFrame(e, Head(outbox[e]), Wrote(e), Remains(e))
  <1> DEFINE h == Head(outbox[e])
             rest == Tail(outbox[e])
             m == Writes(e)
             f == Wrote(e)
             n == Remains(e)
  <1>0. /\ lastNo[e] \in Nat /\ lastNo \in [Ends -> Nat]
        /\ mailbox[e] \in Seq(Messages) /\ outbox[e] \in Seq(Messages) /\ icebox[e] \in Seq(Messages)
        /\ outbox \in [Ends -> Seq(Messages)] /\ icebox \in [Ends -> Seq(Messages)]
    BY DEF Typed
  <1>1. /\ h \in Messages /\ rest \in Seq(Messages)
        /\ m \in Messages /\ f \in DataFrames /\ (f.more => n \in Messages)
    BY WriteFrameIs
  <1>2. /\ lastNo' = (IF h.no = 0 THEN [lastNo EXCEPT ![e] = m.no] ELSE lastNo)
        /\ SendOp(e, f)
        /\ outbox' = [outbox EXCEPT ![e] = IF f.more /\ ~NeedsAck(n) THEN Requeue(rest, n) ELSE rest]
        /\ icebox' = (IF f.more /\ NeedsAck(n) THEN [icebox EXCEPT ![e] = Append(icebox[e], n)] ELSE icebox)
        /\ pendingResponses' = [pendingResponses EXCEPT ![e] = ExpectResponse(pendingResponses[e], m, f)]
        /\ writing' = [writing EXCEPT ![e] = writeable'[e]]
        /\ UNCHANGED <<received, pendingRequests, state, mailbox, wire, ready, unsent, inbox, outcome, faults>>
    BY WriteFrameIs
  <1>3. /\ m.no # 0 /\ m.no = (IF h.no = 0 THEN lastNo[e] + 1 ELSE h.no) /\ m.type = h.type /\ m.about = h.about
        /\ m.left = h.left /\ m.sent = h.sent
    BY <1>0, <1>1, NumbersIs DEF Writes
  <1>4. /\ f.type = m.type /\ f.no = m.no /\ f.about = m.about
        /\ IsAck(m) => ~f.more
        /\ ~IsAck(m) /\ ~f.more => f.size = m.left
        /\ f.more => f.size < m.left
    BY <1>1, <1>3, NextFrameIs DEF Wrote
  <1>5. f.more => n.type = m.type /\ n.no = m.no /\ n.about = m.about /\ n.left = m.left - f.size /\ n.sent = m.sent + f.size
    BY <1>1, <1>4, RestIs DEF Remains
  <1>6. h = Head(outbox[e]) /\ rest = Tail(outbox[e])
    OBVIOUS
  <1> HIDE DEF h, rest, m, f, n
  <1>7. FrameOf(f, h, n, lastNo[e])
    BY <1>1, <1>3, <1>4, <1>5 DEF FrameOf, IsAck
  <1>8. mailbox'[e] = mailbox[e]
    BY <1>2
  <1>9. HeldSent(e, h, f, n)
    <2> DEFINE out == outbox'[e]
               ice == icebox'[e]
    <2>1. out = (IF f.more /\ ~NeedsAck(n) THEN Requeue(rest, n) ELSE rest)
      BY <1>0, <1>2
    <2>2. ice = (IF f.more /\ NeedsAck(n) THEN Append(icebox[e], n) ELSE icebox[e])
      BY <1>0, <1>2
    <2>3. PICK v : v \in [Messages -> Nat]
      BY MessageWeights
    <2> HIDE DEF out, ice
    <2>4. ASSUME NEW w \in [Messages -> Nat]
          PROVE  /\ Total(w, out) + Total(w, ice) = Total(w, rest) + Total(w, icebox[e]) + (IF f.more THEN w[n] ELSE 0)
                 /\ Total(w, rest) \in Nat /\ Total(w, icebox[e]) \in Nat /\ Total(w, out) \in Nat /\ Total(w, ice) \in Nat
                 /\ Range(out) \cup Range(ice) = Range(rest) \cup Range(icebox[e]) \cup (IF f.more THEN {n} ELSE {})
      <3>1. Total(w, rest) \in Nat /\ Total(w, icebox[e]) \in Nat /\ (f.more => w[n] \in Nat)
        BY <1>0, <1>1, TotalIs
      <3>2. CASE f.more /\ ~NeedsAck(n)
        <4>1. Total(w, Requeue(rest, n)) = Total(w, rest) + w[n] /\ Range(Requeue(rest, n)) = Range(rest) \cup {n}
          BY <1>1, <3>2, RequeueHeld
        <4>2. out = Requeue(rest, n) /\ ice = icebox[e]
          BY <2>1, <2>2, <3>2
        <4>3. QED BY <3>1, <3>2, <4>1, <4>2
      <3>3. CASE f.more /\ NeedsAck(n)
        <4>1. Total(w, Append(icebox[e], n)) = Total(w, icebox[e]) + w[n] /\ Range(Append(icebox[e], n)) = Range(icebox[e]) \cup {n}
          <5>1. \A box \in Seq(Messages), k \in Messages :
                   Total(w, Append(box, k)) = Total(w, box) + w[k] /\ Range(Append(box, k)) = Range(box) \cup {k}
            BY AppendHeld
          <5>2. QED BY <1>0, <1>1, <3>3, <5>1
        <4>2. out = rest /\ ice = Append(icebox[e], n)
          BY <2>1, <2>2, <3>3
        <4>3. QED BY <3>1, <3>3, <4>1, <4>2
      <3>4. CASE ~f.more
        <4>2. out = rest /\ ice = icebox[e]
          BY <2>1, <2>2, <3>4
        <4>3. QED BY <3>1, <3>4, <4>2
      <3>5. QED BY <3>2, <3>3, <3>4
    <2>5. ASSUME NEW w \in [Messages -> Nat]
          PROVE  /\ Total(w, outbox[e]) = Total(w, rest) + w[h] /\ w[h] \in Nat /\ Total(w, mailbox[e]) \in Nat
                 /\ Range(outbox[e]) = Range(rest) \cup {h}
      BY <1>0, <1>1, <1>6, TailHeld, TotalIs
    <2>6. ASSUME NEW w \in [Messages -> Nat]
          PROVE  /\ Total(w, mailbox[e]) + Total(w, rest) + Total(w, icebox[e]) \in Nat
                 /\ Total(w, mailbox[e]) + Total(w, outbox[e]) + Total(w, icebox[e]) =
                    Total(w, mailbox[e]) + Total(w, rest) + Total(w, icebox[e]) + w[h]
                 /\ Total(w, mailbox[e]) + Total(w, out) + Total(w, ice) =
                    Total(w, mailbox[e]) + Total(w, rest) + Total(w, icebox[e]) + (IF f.more THEN w[n] ELSE 0)
      <3> DEFINE a == IF f.more THEN w[n] ELSE 0
      <3>1. a \in Nat
        BY <1>1
      <3>2. /\ Total(w, out) + Total(w, ice) = Total(w, rest) + Total(w, icebox[e]) + a
            /\ Total(w, rest) \in Nat /\ Total(w, icebox[e]) \in Nat /\ Total(w, out) \in Nat /\ Total(w, ice) \in Nat
        BY <2>4
      <3>3. Total(w, outbox[e]) = Total(w, rest) + w[h] /\ w[h] \in Nat /\ Total(w, mailbox[e]) \in Nat
        BY <2>5
      <3> HIDE DEF a
      <3>4. Total(w, mailbox[e]) + Total(w, out) + Total(w, ice) =
            Total(w, mailbox[e]) + Total(w, rest) + Total(w, icebox[e]) + a
        <4>1. \A x, y, z, r, i \in Nat : y + z = r + i + a => x + y + z = x + r + i + a
          BY <3>1
        <4>2. QED BY <3>2, <3>3, <4>1
      <3>5. QED BY <3>2, <3>3, <3>4, SMTT(40) DEF a
    <2>7. ASSUME NEW w \in [Messages -> Nat], NEW k \in Others(e)
          PROVE  k \in Messages /\ w[k] <= OthersTotal(w, e)
      BY <1>0, <1>1, <1>6, HeldIs DEF Others, OthersTotal
    <2>8. HeldBy(e) = Others(e) \cup {h}
      BY <1>6, <2>3, <2>5 DEF HeldBy, Others
    <2>9. HeldBy(e)' = Others(e) \cup (IF f.more THEN {n} ELSE {})
      <3>1. HeldBy(e)' = Range(mailbox[e]) \cup Range(out) \cup Range(ice)
        BY <1>8 DEF HeldBy, out, ice
      <3>2. Others(e) = Range(mailbox[e]) \cup Range(rest) \cup Range(icebox[e])
        BY <1>6 DEF Others
      <3>3. Range(out) \cup Range(ice) = Range(rest) \cup Range(icebox[e]) \cup (IF f.more THEN {n} ELSE {})
        BY <2>3, <2>4
      <3>4. QED BY <3>1, <3>2, <3>3
    <2>10. ASSUME NEW w \in [Messages -> Nat]
           PROVE  /\ OthersTotal(w, e) \in Nat
                  /\ Held(w, e) = OthersTotal(w, e) + w[h]
                  /\ Held(w, e)' = OthersTotal(w, e) + (IF f.more THEN w[n] ELSE 0)
      BY <1>6, <1>8, <2>6 DEF OthersTotal, Held, out, ice
    <2>11. Others(e) \subseteq Messages
      BY <2>3, <2>7
    <2>12. QED BY <2>7, <2>8, <2>9, <2>10, <2>11 DEF HeldSent
  <1>10. lastNo'[e] = (IF h.no = 0 THEN lastNo[e] + 1 ELSE lastNo[e])
    BY <1>0, <1>2, <1>3
  <1>11. pendingResponses'[e] = Answered(pendingResponses[e], h, f)
    <2>1. pendingResponses'[e] = ExpectResponse(pendingResponses[e], m, f)
      BY <1>2 DEF Typed
    <2>2. ExpectResponse(pendingResponses[e], m, f) = Answered(pendingResponses[e], h, f)
      BY <1>3, <1>4 DEF ExpectResponse, Answered
    <2>3. QED BY <2>1, <2>2
  <1>12. f \in Frames
    BY <1>1 DEF Frames
  <1>13. /\ state[e] = "open" => sock' = [sock EXCEPT ![e] = Append(sock[e], f)]
         /\ state[e] # "open" => sock' = sock
    BY <1>2, <1>12, SendOpIs
  <1>14. wire[e] \in Seq(Frames) /\ sock[e] \in Seq(Frames) /\ sock \in [Ends -> Seq(Frames)]
    BY DEF Typed
  <1>15. state[e] = "open" => Channel(e)' = Append(Channel(e), f)
    <2>1. wire[e] \o Append(sock[e], f) = Append(wire[e] \o sock[e], f)
      <3>1. \A k \in Frames : wire[e] \o Append(sock[e], k) = Append(wire[e] \o sock[e], k)
        BY <1>14, ChannelIs
      <3>2. QED BY <1>12, <3>1
    <2>2. QED BY <1>2, <1>13, <1>14, <2>1 DEF Channel
  <1>16. state[e] # "open" => Channel(e)' = Channel(e)
    BY <1>2, <1>13 DEF Channel
  <1>17. Elsewhere(e)
    <2>1. ASSUME NEW x \in Ends, x # e
          PROVE  /\ mailbox'[x] = mailbox[x] /\ outbox'[x] = outbox[x] /\ icebox'[x] = icebox[x]
                 /\ writing'[x] = writing[x] /\ sock'[x] = sock[x] /\ lastNo'[x] = lastNo[x]
                 /\ pendingResponses'[x] = pendingResponses[x]
      <3>1. mailbox'[x] = mailbox[x] /\ outbox'[x] = outbox[x] /\ icebox'[x] = icebox[x] /\ lastNo'[x] = lastNo[x]
        BY <1>0, <1>2, <2>1
      <3>2. writing'[x] = writing[x] /\ pendingResponses'[x] = pendingResponses[x]
        BY <1>2, <2>1 DEF Typed
      <3>3. sock'[x] = sock[x]
        BY <1>13, <1>14, <2>1
      <3>4. QED BY <3>1, <3>2, <3>3
    <2>2. QED BY <1>2, <2>1 DEF Elsewhere, Channel
  <1>18. writing[e]
    BY DEF WriteFrame
  <1>19. SentFrame(e, h, f, n)
    BY <1>2, <1>7, <1>9, <1>10, <1>11, <1>15, <1>16, <1>17, <1>18 DEF SentFrame
  <1>20. QED BY <1>19 DEF h, f, n

(* What does not depend on the kind of message *)
LEMMA SentAny ==
    ASSUME IInv, Typed', NEW e \in Ends, NEW h, NEW f, NEW n, SentFrame(e, h, f, n)
    PROVE  /\ Typed /\ NoProtocolError' /\ RightOutcomes' /\ NoReopening
           /\ \A x \in Ends : ClosedIsEmpty(x)'
           /\ \A x \in Ends : x # e => Kept(x) /\ Owned(x)' /\ Numbered(x)'
  <1>0. Typed
    BY DEF IInv
  <1>1. /\ Elsewhere(e) /\ writing[e]
        /\ UNCHANGED <<received, pendingRequests, state, mailbox, wire, ready, unsent, inbox, outcome, faults>>
    BY DEF SentFrame
  <1>2. NoProtocolError' /\ NoReopening
    BY <1>1 DEF IInv, NoProtocolError, NoReopening, Listening
  <1>3. RightOutcomes'
    BY <1>1 DEF IInv, RightOutcomes
  <1>4. ASSUME NEW x \in Ends PROVE ClosedIsEmpty(x)'
    <2>1. ClosedIsEmpty(x)
      BY DEF IInv
    <2>2. CASE x = e
      BY <1>1, <2>1, <2>2 DEF ClosedIsEmpty
    <2>3. CASE x # e
      BY <1>1, <2>1, <2>3 DEF ClosedIsEmpty, Elsewhere
    <2>4. QED BY <2>2, <2>3
  <1>5. ASSUME NEW x \in Ends, x # e PROVE Kept(x) /\ Owned(x)' /\ Numbered(x)'
    <2>1. /\ mailbox'[x] = mailbox[x] /\ outbox'[x] = outbox[x] /\ icebox'[x] = icebox[x]
          /\ lastNo'[x] = lastNo[x] /\ pendingResponses'[x] = pendingResponses[x]
      BY <1>1, <1>5 DEF Elsewhere
    <2>2. Kept(x)
      BY <2>1, KeptUnchanged
    <2>3. FewerHeld(x) /\ AlikeHeld(x)
      BY <1>0, <2>2, KeptIsFewer DEF Kept
    <2>4. FewerExpected(pendingResponses[x], pendingResponses'[x]) /\ lastNo[x] <= lastNo'[x]
      BY <1>0, <2>1 DEF FewerExpected, Typed
    <2>5. Owned(x) /\ Numbered(x)
      BY DEF IInv
    <2>6. QED BY <1>0, <2>2, <2>3, <2>4, <2>5, OwnedKept, NumberedKept
  <1>6. QED BY <1>0, <1>2, <1>3, <1>4, <1>5

(* An acknowledgement *)
LEMMA SentAck ==
    ASSUME IInv, Typed', NEW e \in Ends, NEW h, NEW f, NEW n, SentFrame(e, h, f, n), IsAck(h)
    PROVE  IInv'
  <1>1. /\ Typed /\ NoProtocolError' /\ NoReopening
        /\ \A x \in Ends : ClosedIsEmpty(x)'
        /\ \A x \in Ends : x # e => Kept(x)
    BY SentAny
  <1>2. /\ FrameOf(f, h, n, lastNo[e]) /\ HeldSent(e, h, f, n) /\ Elsewhere(e)
        /\ lastNo'[e] = (IF h.no = 0 THEN lastNo[e] + 1 ELSE lastNo[e])
        /\ pendingResponses'[e] = Answered(pendingResponses[e], h, f)
        /\ state[e] = "open" => Channel(e)' = Append(Channel(e), f)
        /\ state[e] # "open" => Channel(e)' = Channel(e)
        /\ UNCHANGED <<received, pendingRequests, state, mailbox, wire, ready, unsent, inbox, outcome, faults>>
    BY DEF SentFrame
  <1>3. /\ h \in Messages /\ f \in Frames /\ ~f.more /\ h.type # "REQ" /\ ~Noisy(f)
    BY <1>2 DEF FrameOf, IsAck, Noisy, Answer, Frames
  <1>4. h \in HeldBy(e) /\ HeldBy(e)' \subseteq HeldBy(e)
    BY <1>2, <1>3 DEF HeldSent
  <1>5. h.no # 0
    BY <1>3, <1>4 DEF IInv, Owned
  <1>6. lastNo'[e] = lastNo[e] /\ pendingResponses'[e] = pendingResponses[e]
    BY <1>2, <1>3, <1>5 DEF Answered
  <1>7. Kept(e)
    <2>1. ASSUME NEW w, Counts(w) PROVE Held(w, e)' = Held(w, e)
      <3>1. w \in [Messages -> Nat] /\ w[h] = 0
        BY <1>3, <2>1 DEF Counts
      <3>2. /\ OthersTotal(w, e) \in Nat
            /\ Held(w, e) = OthersTotal(w, e) + w[h]
            /\ Held(w, e)' = OthersTotal(w, e) + (IF f.more THEN w[n] ELSE 0)
        BY <1>2, <3>1 DEF HeldSent
      <3>3. QED BY <1>3, <3>1, <3>2
    <2>2. SameHeld(e)
      BY <2>1, AllCount DEF SameHeld
    <2>3. QED BY <1>4, <2>2, AlikeSelf DEF Kept, AlikeHeld
  <1>8. SameFrames(Channel(e), Channel(e)')
    <2>1. Channel(e) \in Seq(Frames)
      BY <1>1, TypedChannels
    <2>2. QED BY <1>2, <1>3, <2>1, QuietAppended, UnchangedFrames
  <1>9. ASSUME NEW x \in Ends
        PROVE  /\ Kept(x) /\ SameFrames(Channel(x), Channel(x)')
               /\ pendingResponses'[x] = pendingResponses[x] /\ lastNo'[x] = lastNo[x]
    <2>1. CASE x = e
      BY <1>6, <1>7, <1>8, <2>1
    <2>2. CASE x # e
      <3>1. pendingResponses'[x] = pendingResponses[x] /\ lastNo'[x] = lastNo[x] /\ Channel(x)' = Channel(x)
        BY <1>2, <2>2 DEF Elsewhere
      <3>2. SameFrames(Channel(x), Channel(x)')
        BY <1>1, <3>1, TypedChannels, UnchangedFrames
      <3>3. QED BY <1>1, <2>2, <3>1, <3>2
    <2>3. QED BY <2>1, <2>2
  <1>10. Quiet
    BY <1>1, <1>2, <1>9 DEF Quiet
  <1>11. QED BY <1>1, <1>10, QuietStep

(* A request *)
NewNumber(e, h, f) ==
    /\ h.about \in Requests /\ h.about.from = e
    /\ f.no \in Nat \ {0} /\ f.no \notin DOMAIN pendingResponses[e]
    /\ h.no # 0 => f.no = h.no /\ f.no <= lastNo[e] /\ lastNo'[e] = lastNo[e]
    /\ h.no = 0 => f.no = lastNo[e] + 1 /\ lastNo'[e] = lastNo[e] + 1
    /\ \A k \in Others(e) : ~(k.type = "REQ" /\ k.no = f.no)
    /\ OthersTotal(RequestNo(f.no), e) = 0
    /\ ~Waits(h.about)

LEMMA SentRequestIs ==
    ASSUME IInv, NEW e \in Ends, NEW h, NEW f, NEW n, SentFrame(e, h, f, n), h.type = "REQ"
    PROVE  NewNumber(e, h, f)
  <1>0. Typed
    BY DEF IInv
  <1>1. /\ FrameOf(f, h, n, lastNo[e]) /\ HeldSent(e, h, f, n)
        /\ lastNo'[e] = (IF h.no = 0 THEN lastNo[e] + 1 ELSE lastNo[e])
    BY DEF SentFrame
  <1>2. lastNo[e] \in Nat
    BY <1>0 DEF Typed
  <1>3. /\ h \in Messages /\ h.about \in Requests /\ h.no \in Nat
        /\ f.no = (IF h.no = 0 THEN lastNo[e] + 1 ELSE h.no)
    BY <1>1 DEF FrameOf, Messages
  <1>4. h \in HeldBy(e)
    BY <1>1 DEF HeldSent
  <1>5. h.about.from = e
    BY <1>4 DEF IInv, Owned
  <1>6. f.no \in Nat \ {0}
    BY <1>2, <1>3
  <1> DEFINE w == RequestNo(f.no)
  <1>7. w \in [Messages -> Nat] /\ \A k \in Messages : w[k] = One(k.type = "REQ" /\ k.no = f.no)
    BY MessageWeights, MessageWeightsAre
  <1>8. Held(w, e) + One(f.no \in DOMAIN pendingResponses[e]) <= One(f.no <= lastNo[e])
    BY <1>6 DEF IInv, Numbered
  <1> HIDE DEF w
  <1>9. /\ OthersTotal(w, e) \in Nat /\ Held(w, e) = OthersTotal(w, e) + w[h]
        /\ \A k \in Others(e) : k \in Messages /\ w[k] <= OthersTotal(w, e)
    BY <1>1, <1>7 DEF HeldSent
  <1>10. /\ OthersTotal(w, e) = 0 /\ f.no \notin DOMAIN pendingResponses[e]
         /\ h.no # 0 => f.no <= lastNo[e]
    <2>1. CASE h.no = 0
      <3>1. One(f.no <= lastNo[e]) = 0
        BY <1>2, <1>3, <2>1 DEF One
      <3>2. w[h] \in Nat
        BY <1>3, <1>7
      <3>3. One(f.no \in DOMAIN pendingResponses[e]) \in Nat
        BY DEF One
      <3>4. OthersTotal(w, e) = 0 /\ One(f.no \in DOMAIN pendingResponses[e]) = 0
        BY <1>8, <1>9, <3>1, <3>2, <3>3
      <3>5. QED BY <2>1, <3>4 DEF One
    <2>2. CASE h.no # 0
      <3>1. w[h] = 1
        BY <1>3, <1>7, <2>2 DEF One
      <3>2. One(f.no <= lastNo[e]) \in {0, 1} /\ One(f.no \in DOMAIN pendingResponses[e]) \in Nat
        BY DEF One
      <3>3. OthersTotal(w, e) = 0 /\ One(f.no \in DOMAIN pendingResponses[e]) = 0 /\ One(f.no <= lastNo[e]) = 1
        BY <1>8, <1>9, <3>1, <3>2
      <3>4. QED BY <3>3 DEF One
    <2>3. QED BY <2>1, <2>2
  <1>11. ASSUME NEW k \in Others(e), k.type = "REQ", k.no = f.no PROVE FALSE
    <2>1. w[k] = 1 /\ w[k] <= OthersTotal(w, e)
      BY <1>7, <1>9, <1>11 DEF One
    <2>2. QED BY <1>10, <2>1
  <1>12. ~Waits(h.about)
    <2> DEFINE v == RequestOf(h.about)
    <2>1. v \in [Messages -> Nat] /\ v[h] = 1
      BY <1>3, MessageWeights, MessageWeightsAre DEF One
    <2>2. Places(h.about) <= 1
      BY <1>3 DEF IInv, InOnePlace
    <2>3. Places(h.about) = One(h.about \in unsent) + Held(v, e) + One(Waits(h.about)) + Len(outcome[h.about])
      BY <1>5 DEF Places
    <2> HIDE DEF v
    <2>4. OthersTotal(v, e) \in Nat /\ Held(v, e) = OthersTotal(v, e) + v[h]
      BY <1>1, <2>1 DEF HeldSent
    <2>5. Len(outcome[h.about]) \in Nat /\ One(h.about \in unsent) \in Nat /\ One(Waits(h.about)) \in Nat
      BY <1>0, <1>3 DEF Typed, One
    <2>6. One(Waits(h.about)) = 0
      BY <2>1, <2>2, <2>3, <2>4, <2>5
    <2>7. QED BY <2>6 DEF One
  <1>13. QED BY <1>1, <1>3, <1>5, <1>6, <1>10, <1>11, <1>12 DEF NewNumber, w

(* Whom e then waits for *)
LEMMA SentRequestWaits ==
    ASSUME IInv, NEW e \in Ends, NEW h, NEW f, NEW n, SentFrame(e, h, f, n), h.type = "REQ"
    PROVE  LET x == pendingResponses[e]
               y == pendingResponses'[e]
           IN  /\ IsPending(x)
               /\ (~f.more /\ h.about.reply) =>
                     /\ DOMAIN y = DOMAIN x \cup {f.no} /\ y[f.no] = NewPending(h.about)
                     /\ \A k \in DOMAIN x : k # f.no /\ y[k] = x[k]
               /\ ~(~f.more /\ h.about.reply) => y = x
  <1>1. NewNumber(e, h, f)
    BY SentRequestIs
  <1>2. pendingResponses'[e] = Answered(pendingResponses[e], h, f)
    BY DEF SentFrame
  <1>3. IsPending(pendingResponses[e])
    BY DEF IInv, Typed
  <1>4. NewPending(h.about) \in Pendings /\ f.no \in Nat \ {0} /\ f.no \notin DOMAIN pendingResponses[e]
    BY <1>1 DEF NewNumber, NewPending, Pendings
  <1>5. LET y == With(pendingResponses[e], f.no, NewPending(h.about))
        IN  /\ DOMAIN y = DOMAIN pendingResponses[e] \cup {f.no} /\ y[f.no] = NewPending(h.about)
            /\ \A k \in DOMAIN pendingResponses[e] : k # f.no => y[k] = pendingResponses[e][k]
    BY DEF With
  <1>6. QED BY <1>2, <1>3, <1>4, <1>5 DEF Answered

LEMMA SentRequestPlaces ==
    ASSUME IInv, Typed', NEW e \in Ends, NEW h, NEW f, NEW n, SentFrame(e, h, f, n), h.type = "REQ"
    PROVE  InOnePlace'
  <1>0. Typed
    BY DEF IInv
  <1>1. /\ FrameOf(f, h, n, lastNo[e]) /\ HeldSent(e, h, f, n) /\ Elsewhere(e)
        /\ UNCHANGED <<received, pendingRequests, state, mailbox, wire, ready, unsent, inbox, outcome, faults>>
    BY DEF SentFrame
  <1>2. h.about \in Requests /\ h.about.from = e /\ ~Waits(h.about)
    BY SentRequestIs DEF NewNumber
  <1>3. /\ h \in Messages /\ f.more \in BOOLEAN
        /\ (f.more => n \in Messages /\ n.type = "REQ" /\ n.about = h.about)
    BY <1>1 DEF FrameOf, DataFrames
  <1> DEFINE x == pendingResponses[e]
             y == pendingResponses'[e]
             last == ~f.more /\ h.about.reply
  <1>4. /\ last => /\ DOMAIN y = DOMAIN x \cup {f.no} /\ y[f.no] = NewPending(h.about)
                   /\ \A k \in DOMAIN x : k # f.no /\ y[k] = x[k]
        /\ ~last => y = x
    BY SentRequestWaits
  <1>5. ASSUME NEW q \in Requests
        PROVE  Places(q)' <= 1 /\ (q.reply /\ "ERR" \notin Damaged => Places(q)' = 1)
    <2>0. q.from \in Ends /\ q.reply \in BOOLEAN
      BY RequestIs
    <2>1. Places(q) <= 1 /\ (q.reply /\ "ERR" \notin Damaged => Places(q) = 1)
      BY DEF IInv, InOnePlace
    <2> DEFINE w == RequestOf(q)
               u == One(q \in unsent)
               o == Len(outcome[q])
    <2>2. w \in [Messages -> Nat] /\ \A k \in Messages : w[k] = One(k.type = "REQ" /\ k.about = q)
      BY MessageWeights, MessageWeightsAre
    <2>3. u \in Nat /\ o \in Nat
      BY <1>0 DEF One, Typed
    <2>4. Places(q) = u + Held(w, q.from) + One(Waits(q)) + o /\ Places(q)' = u + Held(w, q.from)' + One(Waits(q)') + o
      BY <1>1 DEF Places
    <2>5. /\ OthersTotal(w, e) \in Nat /\ Held(w, e) = OthersTotal(w, e) + w[h]
          /\ Held(w, e)' = OthersTotal(w, e) + (IF f.more THEN w[n] ELSE 0)
      BY <1>1, <2>2 DEF HeldSent
    <2> HIDE DEF w, u, o
    <2>6. CASE q = h.about
      <3>1. w[h] = 1 /\ (f.more => w[n] = 1)
        BY <1>3, <2>2, <2>6 DEF One
      <3>2. One(Waits(q)) = 0
        BY <1>2, <2>6 DEF One
      <3>3. CASE f.more
        <4>1. y = x
          BY <1>4, <3>3
        <4>2. One(Waits(q)') = 0
          BY <1>2, <2>6, <4>1 DEF Waits, One
        <4>3. Held(w, e)' = OthersTotal(w, e) + 1 /\ Held(w, e) = OthersTotal(w, e) + 1
          BY <2>5, <3>1, <3>3
        <4>4. Held(w, q.from)' = Held(w, e)' /\ Held(w, q.from) = Held(w, e)
          BY <1>2, <2>6
        <4>5. QED BY <2>1, <2>3, <2>4, <2>5, <3>2, <4>2, <4>3, <4>4
      <3>4. CASE ~f.more
        <4>1. Held(w, e)' = OthersTotal(w, e) /\ Held(w, e) = OthersTotal(w, e) + 1
          BY <2>5, <3>1, <3>4
        <4>2. Held(w, q.from)' = Held(w, e)' /\ Held(w, q.from) = Held(w, e)
          BY <1>2, <2>6
        <4>3. One(Waits(q)') \in {0, 1} /\ (q.reply => One(Waits(q)') = 1)
          <5>1. q.reply => Waits(q)'
            <6>1. q.reply => f.no \in DOMAIN y /\ y[f.no].about = q
              BY <1>4, <2>6, <3>4 DEF NewPending
            <6>2. QED BY <1>2, <2>6, <6>1 DEF Waits
          <5>2. QED BY <5>1 DEF One
        <4>4. QED BY <2>1, <2>3, <2>4, <2>5, <3>2, <4>1, <4>2, <4>3
      <3>5. QED BY <1>3, <3>3, <3>4
    <2>7. CASE q # h.about
      <3>1. w[h] = 0 /\ (f.more => w[n] = 0)
        BY <1>3, <2>2, <2>7 DEF One
      <3>2. Held(w, q.from)' = Held(w, q.from)
        <4>1. CASE q.from = e
          BY <2>5, <3>1, <4>1
        <4>2. CASE q.from # e
          <5>1. SameHeld(q.from)
            BY <2>0, <4>2, SentAny DEF Kept
          <5>2. QED BY <5>1 DEF SameHeld, w
        <4>3. QED BY <4>1, <4>2
      <3>3. Waits(q)' <=> Waits(q)
        <4>1. CASE q.from = e
          <5>1. Waits(q)' <=> \E k \in DOMAIN y : y[k].about = q
            BY <4>1 DEF Waits
          <5>2. Waits(q) <=> \E k \in DOMAIN x : x[k].about = q
            BY <4>1 DEF Waits
          <5>3. NewPending(h.about).about = h.about
            BY DEF NewPending
          <5> HIDE DEF x, y
          <5>4. QED BY <1>4, <2>7, <5>1, <5>2, <5>3
        <4>2. CASE q.from # e
          BY <1>1, <2>0, <4>2 DEF Waits, Elsewhere
        <4>3. QED BY <4>1, <4>2
      <3>4. One(Waits(q)') = One(Waits(q))
        BY <3>3 DEF One
      <3>5. QED BY <2>1, <2>4, <3>2, <3>4
    <2>8. QED BY <2>6, <2>7
  <1>6. QED BY <1>5 DEF InOnePlace

LEMMA SentRequestOwned ==
    ASSUME IInv, NEW e \in Ends, NEW h, NEW f, NEW n, SentFrame(e, h, f, n), h.type = "REQ"
    PROVE  Owned(e)' /\ Numbered(e)'
  <1>0. Typed /\ Owned(e) /\ Numbered(e)
    BY DEF IInv
  <1>1. FrameOf(f, h, n, lastNo[e]) /\ HeldSent(e, h, f, n)
    BY DEF SentFrame
  <1>2. /\ h \in Messages /\ (f.more => n \in Messages /\ n.type = "REQ" /\ n.about = h.about /\ n.no = f.no)
    BY <1>1 DEF FrameOf
  <1>3. NewNumber(e, h, f)
    BY SentRequestIs
  <1> DEFINE x == pendingResponses[e]
             y == pendingResponses'[e]
             last == ~f.more /\ h.about.reply
  <1>4. /\ last => /\ DOMAIN y = DOMAIN x \cup {f.no} /\ y[f.no] = NewPending(h.about)
                   /\ \A k \in DOMAIN x : k # f.no /\ y[k] = x[k]
        /\ ~last => y = x
    BY SentRequestWaits
  <1>5. NewPending(h.about).about = h.about
    BY DEF NewPending
  <1>6. /\ \A m \in HeldBy(e) : /\ m.type = "REQ" => m.about.from = e
                                /\ m.type # "REQ" => m.no # 0
                                /\ Answer(m) => m.sent + m.left = m.about.response
        /\ \A k \in DOMAIN x : /\ x[k].about.from = e /\ x[k].about.reply
                               /\ \A j \in DOMAIN x : x[j].about = x[k].about => j = k
    BY <1>0 DEF Owned
  <1>7. h.about.from = e /\ \A k \in DOMAIN x : x[k].about # h.about
    BY <1>3 DEF NewNumber, Waits
  <1>8. ASSUME NEW m, m \in HeldBy(e)'
        PROVE  /\ m.type = "REQ" => m.about.from = e
               /\ m.type # "REQ" => m.no # 0
               /\ Answer(m) => m.sent + m.left = m.about.response
    <2>1. m \in HeldBy(e) \/ (f.more /\ m = n)
      BY <1>1, <1>8 DEF HeldSent
    <2>2. CASE m \in HeldBy(e)
      BY <1>6, <2>2
    <2>3. CASE f.more /\ m = n
      BY <1>2, <1>7, <2>3 DEF Answer
    <2>4. QED BY <2>1, <2>2, <2>3
  <1>9. \A k \in DOMAIN y : /\ y[k].about.from = e /\ y[k].about.reply
                            /\ \A j \in DOMAIN y : y[j].about = y[k].about => j = k
    <2> HIDE DEF x, y
    <2>1. CASE last
      BY <1>4, <1>5, <1>6, <1>7, <2>1
    <2>2. CASE ~last
      BY <1>4, <1>6, <2>2
    <2>3. QED BY <2>1, <2>2
  <1>10. Owned(e)'
    BY <1>8, <1>9 DEF Owned
  <1>11. ASSUME NEW k \in Nat \ {0}
         PROVE  Held(RequestNo(k), e)' + One(k \in DOMAIN y) <= One(k <= lastNo'[e])
    <2> DEFINE w == RequestNo(k)
    <2>1. w \in [Messages -> Nat] /\ \A m \in Messages : w[m] = One(m.type = "REQ" /\ m.no = k)
      BY MessageWeights, MessageWeightsAre
    <2>2. Held(w, e) + One(k \in DOMAIN x) <= One(k <= lastNo[e])
      BY <1>0 DEF Numbered
    <2>3. /\ OthersTotal(w, e) \in Nat /\ Held(w, e) = OthersTotal(w, e) + w[h]
          /\ Held(w, e)' = OthersTotal(w, e) + (IF f.more THEN w[n] ELSE 0)
      BY <1>1, <2>1 DEF HeldSent
    <2>4. OthersTotal(RequestNo(f.no), e) = 0 /\ lastNo[e] \in Nat
      BY <1>0, <1>3 DEF NewNumber, Typed
    <2>5. /\ f.no \notin DOMAIN x /\ f.no \in Nat \ {0}
          /\ h.no # 0 => f.no = h.no /\ f.no <= lastNo[e] /\ lastNo'[e] = lastNo[e]
          /\ h.no = 0 => f.no = lastNo[e] + 1 /\ lastNo'[e] = lastNo[e] + 1
      BY <1>3 DEF NewNumber
    <2>6. CASE k = f.no
      <3>1. OthersTotal(w, e) = 0
        BY <2>4, <2>6
      <3>2. f.more => w[n] = 1
        BY <1>2, <2>1, <2>6 DEF One
      <3>3. One(k <= lastNo'[e]) = 1
        BY <2>4, <2>5, <2>6 DEF One
      <3>4. One(k \in DOMAIN y) \in {0, 1}
        BY DEF One
      <3>5. f.more => One(k \in DOMAIN y) = 0
        BY <1>4, <2>5, <2>6 DEF One
      <3> HIDE DEF w
      <3>6. QED BY <2>3, <3>1, <3>2, <3>3, <3>4, <3>5 DEF w
    <2>7. CASE k # f.no
      <3>1. f.more => w[n] = 0
        BY <1>2, <2>1, <2>7 DEF One
      <3>2. w[h] \in Nat
        BY <1>2, <2>1
      <3>3. One(k \in DOMAIN y) = One(k \in DOMAIN x)
        BY <1>4, <2>7 DEF One
      <3>4. One(k <= lastNo[e]) <= One(k <= lastNo'[e])
        BY <2>4, <2>5 DEF One
      <3>5. One(k \in DOMAIN x) \in Nat /\ One(k <= lastNo[e]) \in Nat /\ One(k <= lastNo'[e]) \in Nat
        BY DEF One
      <3> HIDE DEF w
      <3>6. Held(w, e)' = OthersTotal(w, e)
        BY <2>3, <3>1
      <3>7. QED BY <2>2, <2>3, <3>2, <3>3, <3>4, <3>5, <3>6 DEF w
    <2>8. QED BY <2>6, <2>7
  <1>12. QED BY <1>10, <1>11 DEF Numbered

LEMMA Appended ==
    ASSUME NEW S, NEW c \in Seq(S), NEW f \in S
    PROVE  LET d == Append(c, f)
           IN  /\ DOMAIN c = 1 .. Len(c) /\ DOMAIN d = 1 .. Len(c) + 1 /\ Len(d) = Len(c) + 1 /\ Len(c) \in Nat
               /\ d[Len(c) + 1] = f /\ \A k \in DOMAIN c : d[k] = c[k]
               /\ \A k \in DOMAIN d : k \in DOMAIN c \/ k = Len(c) + 1
  OBVIOUS

LEMMA SentRequestArrives ==
    ASSUME IInv, Typed', NEW e \in Ends, NEW h, NEW f, NEW n, SentFrame(e, h, f, n), h.type = "REQ",
           NEW p \in Ends, p = Peer(e)
    PROVE  RequestsArrive(e, p)'
  <1>0. Typed /\ RequestsArrive(e, p) /\ RequestsGoOn(e, p)
    BY DEF IInv, Link
  <1>1. /\ FrameOf(f, h, n, lastNo[e]) /\ HeldSent(e, h, f, n)
        /\ state[e] = "open" => Channel(e)' = Append(Channel(e), f)
        /\ state[e] # "open" => Channel(e)' = Channel(e)
        /\ UNCHANGED <<received, pendingRequests, state, mailbox, wire, ready, unsent, inbox, outcome, faults>>
    BY DEF SentFrame
  <1>2. NewNumber(e, h, f) /\ NoReopening
    BY SentRequestIs, SentAny
  <1>3. /\ f \in Frames /\ f.type = "REQ" /\ f.about = h.about /\ h \in HeldBy(e)
    BY <1>1 DEF FrameOf, Frames, HeldSent
  <1>4. Channel(e) \in Seq(Frames) /\ Channel(e)' \in Seq(Frames) /\ lastNo[e] \in Nat /\ lastNo'[e] \in Nat /\ received[p] \in Nat
    BY <1>0, TypedChannels DEF Typed
  <1>5. /\ f.no \in Nat \ {0} /\ lastNo[e] <= lastNo'[e] /\ f.no <= lastNo'[e]
        /\ h.no # 0 => f.no = h.no /\ f.no <= lastNo[e]
        /\ h.no = 0 => f.no = lastNo[e] + 1
    BY <1>2, <1>4 DEF NewNumber
  <1>6. CASE state[e] # "open"
    <2>1. SameRequests(Channel(e), Channel(e)')
      BY <1>1, <1>4, <1>6, UnchangedFrames DEF SameFrames
    <2>2. QED BY <1>0, <1>1, <1>2, <1>5, <2>1, ArriveSame
  <1>7. CASE state[e] = "open" /\ Listening(p)'
    <2> DEFINE c == Channel(e)
               d == Channel(e)'
               last == Len(c) + 1
    <2>1. d = Append(c, f)
      BY <1>1, <1>7
    <2>2. c \in Seq(Frames) /\ Listening(p)
      BY <1>2, <1>4, <1>7 DEF NoReopening
    <2>3. /\ DOMAIN pendingRequests[p] \subseteq 1 .. received[p]
          /\ \A k \in DOMAIN c : c[k].type = "REQ" =>
                /\ c[k].no \in 1 .. lastNo[e]
                /\ \A j \in Nat : received[p] < j /\ j < c[k].no => \E i \in 1 .. k - 1 : IsFrame(c, i, j)
                /\ c[k].no <= received[p] => c[k].no \in DOMAIN pendingRequests[p]
                /\ c[k].no \in DOMAIN pendingRequests[p] => pendingRequests[p][c[k].no].about = c[k].about
                /\ \A j \in k + 1 .. Len(c) : IsFrame(c, j, c[k].no) => c[k].more /\ c[j].about = c[k].about
      BY <1>0, <2>2 DEF RequestsArrive
    <2>4. /\ received[p] <= lastNo[e]
          /\ \A j \in Nat : received[p] < j /\ j <= lastNo[e] => \E k \in DOMAIN c : IsFrame(c, k, j)
          /\ h.no # 0 =>
                /\ h.no <= received[p] => h.no \in DOMAIN pendingRequests[p]
                /\ h.no \in DOMAIN pendingRequests[p] => pendingRequests[p][h.no].about = h.about
                /\ \A k \in DOMAIN c : IsFrame(c, k, h.no) => c[k].more /\ c[k].about = h.about
      BY <1>0, <1>3, <1>7, <2>2 DEF RequestsGoOn
    <2> SUFFICES /\ DOMAIN pendingRequests[p] \subseteq 1 .. received[p]
                 /\ \A k \in DOMAIN d : d[k].type = "REQ" =>
                       /\ d[k].no \in 1 .. lastNo'[e]
                       /\ \A j \in Nat : received[p] < j /\ j < d[k].no => \E i \in 1 .. k - 1 : IsFrame(d, i, j)
                       /\ d[k].no <= received[p] => d[k].no \in DOMAIN pendingRequests[p]
                       /\ d[k].no \in DOMAIN pendingRequests[p] => pendingRequests[p][d[k].no].about = d[k].about
                       /\ \A j \in k + 1 .. Len(d) : IsFrame(d, j, d[k].no) => d[k].more /\ d[j].about = d[k].about
      BY <1>1 DEF RequestsArrive
    <2>5. /\ DOMAIN c = 1 .. Len(c) /\ DOMAIN d = 1 .. Len(c) + 1 /\ Len(d) = Len(c) + 1 /\ Len(c) \in Nat
          /\ d[last] = f /\ \A k \in DOMAIN c : d[k] = c[k]
          /\ \A k \in DOMAIN d : k \in DOMAIN c \/ k = last
      BY <1>3, <2>1, <2>2, Appended
    <2> HIDE DEF c, d, last
    <2>6. \A i, j : IsFrame(c, i, j) => IsFrame(d, i, j)
      BY <2>5 DEF IsFrame
    <2>7. \A k \in DOMAIN c : IsFrame(c, k, f.no) => h.no # 0
      BY <1>4, <1>5, <2>3 DEF IsFrame
    <2>8. f.no \in DOMAIN pendingRequests[p] \/ f.no <= received[p] => h.no # 0
      BY <1>4, <1>5, <2>3, <2>4
    <2>9. ASSUME NEW k \in DOMAIN c, c[k].type = "REQ"
          PROVE  /\ d[k].no \in 1 .. lastNo'[e]
                 /\ \A j \in Nat : received[p] < j /\ j < d[k].no => \E i \in 1 .. k - 1 : IsFrame(d, i, j)
                 /\ d[k].no <= received[p] => d[k].no \in DOMAIN pendingRequests[p]
                 /\ d[k].no \in DOMAIN pendingRequests[p] => pendingRequests[p][d[k].no].about = d[k].about
                 /\ \A j \in k + 1 .. Len(d) : IsFrame(d, j, d[k].no) => d[k].more /\ d[j].about = d[k].about
      <3>1. d[k] = c[k]
        BY <2>5
      <3>2. d[k].no \in 1 .. lastNo'[e]
        BY <1>4, <1>5, <2>3, <2>9, <3>1
      <3>3. \A j \in Nat : received[p] < j /\ j < d[k].no => \E i \in 1 .. k - 1 : IsFrame(d, i, j)
        BY <2>3, <2>6, <2>9, <3>1
      <3>4. /\ d[k].no <= received[p] => d[k].no \in DOMAIN pendingRequests[p]
            /\ d[k].no \in DOMAIN pendingRequests[p] => pendingRequests[p][d[k].no].about = d[k].about
        BY <2>3, <2>9, <3>1
      <3>5. ASSUME NEW j \in k + 1 .. Len(d), IsFrame(d, j, d[k].no) PROVE d[k].more /\ d[j].about = d[k].about
        <4>1. CASE j = last
          <5>1. IsFrame(c, k, f.no)
            BY <2>5, <2>9, <3>1, <3>5, <4>1 DEF IsFrame
          <5>2. h.no # 0 /\ f.no = h.no
            BY <1>5, <2>7, <5>1
          <5>3. QED BY <1>3, <2>4, <2>5, <3>1, <4>1, <5>1, <5>2
        <4>2. CASE j # last
          <5>1. j \in k + 1 .. Len(c) /\ j \in DOMAIN c
            BY <2>5, <2>9, <3>5, <4>2 DEF last
          <5>2. IsFrame(c, j, c[k].no) /\ d[j] = c[j]
            BY <2>5, <3>1, <3>5, <5>1 DEF IsFrame
          <5>3. QED BY <2>3, <2>9, <3>1, <5>1, <5>2
        <4>3. QED BY <4>1, <4>2
      <3>6. QED BY <3>2, <3>3, <3>4, <3>5
    <2>10. /\ d[last].no \in 1 .. lastNo'[e]
           /\ \A j \in Nat : received[p] < j /\ j < d[last].no => \E i \in 1 .. last - 1 : IsFrame(d, i, j)
           /\ d[last].no <= received[p] => d[last].no \in DOMAIN pendingRequests[p]
           /\ d[last].no \in DOMAIN pendingRequests[p] => pendingRequests[p][d[last].no].about = d[last].about
           /\ \A j \in last + 1 .. Len(d) : IsFrame(d, j, d[last].no) => d[last].more /\ d[j].about = d[last].about
      <3>1. d[last] = f /\ last - 1 = Len(c)
        BY <2>5 DEF last
      <3>2. f.no \in 1 .. lastNo'[e]
        BY <1>4, <1>5
      <3>3. ASSUME NEW j \in Nat, received[p] < j, j < f.no PROVE \E i \in 1 .. Len(c) : IsFrame(d, i, j)
        <4>1. j <= lastNo[e]
          BY <1>4, <1>5, <3>3
        <4>2. QED BY <2>4, <2>5, <2>6, <3>3, <4>1
      <3>4. /\ f.no <= received[p] => f.no \in DOMAIN pendingRequests[p]
            /\ f.no \in DOMAIN pendingRequests[p] => pendingRequests[p][f.no].about = f.about
        BY <1>3, <1>5, <2>4, <2>8
      <3>5. last + 1 .. Len(d) = {}
        BY <2>5 DEF last
      <3>6. QED BY <3>1, <3>2, <3>3, <3>4, <3>5
    <2>11. QED BY <2>3, <2>5, <2>9, <2>10
  <1>8. CASE ~Listening(p)'
    BY <1>8 DEF RequestsArrive
  <1>9. QED BY <1>6, <1>7, <1>8

LEMMA SentRequestGoesOn ==
    ASSUME IInv, Typed', NEW e \in Ends, NEW h, NEW f, NEW n, SentFrame(e, h, f, n), h.type = "REQ",
           NEW p \in Ends, p = Peer(e)
    PROVE  RequestsGoOn(e, p)'
  <1>0. Typed /\ RequestsArrive(e, p) /\ RequestsGoOn(e, p)
    BY DEF IInv, Link
  <1>1. /\ FrameOf(f, h, n, lastNo[e]) /\ HeldSent(e, h, f, n)
        /\ state[e] = "open" => Channel(e)' = Append(Channel(e), f)
        /\ UNCHANGED <<received, pendingRequests, state, mailbox, wire, ready, unsent, inbox, outcome, faults>>
    BY DEF SentFrame
  <1>2. NewNumber(e, h, f)
    BY SentRequestIs
  <1>3. /\ f \in Frames /\ f.type = "REQ" /\ f.about = h.about /\ h \in HeldBy(e) /\ Others(e) \subseteq HeldBy(e)
        /\ f.more => n.about = h.about /\ n.no = f.no
    BY <1>1 DEF FrameOf, Frames, HeldSent
  <1>4. Channel(e) \in Seq(Frames) /\ lastNo[e] \in Nat /\ lastNo'[e] \in Nat /\ received[p] \in Nat
    BY <1>0, TypedChannels DEF Typed
  <1>5. /\ f.no \in Nat \ {0} /\ lastNo[e] <= lastNo'[e]
        /\ h.no # 0 => f.no = h.no /\ f.no <= lastNo[e] /\ lastNo'[e] = lastNo[e]
        /\ h.no = 0 => f.no = lastNo[e] + 1 /\ lastNo'[e] = lastNo[e] + 1
        /\ \A k \in Others(e) : ~(k.type = "REQ" /\ k.no = f.no)
    BY <1>2, <1>4 DEF NewNumber
  <1> SUFFICES ASSUME state'[e] = "open", Listening(p)'
               PROVE  LET d == Channel(e)'
                      IN  /\ received'[p] <= lastNo'[e]
                          /\ \A j \in Nat : received'[p] < j /\ j <= lastNo'[e] => \E k \in DOMAIN d : IsFrame(d, k, j)
                          /\ \A m \in HeldBy(e)' : m.type = "REQ" /\ m.no # 0 =>
                                /\ m.no <= received'[p] => m.no \in DOMAIN pendingRequests'[p]
                                /\ m.no \in DOMAIN pendingRequests'[p] => pendingRequests'[p][m.no].about = m.about
                                /\ \A k \in DOMAIN d : IsFrame(d, k, m.no) => d[k].more /\ d[k].about = m.about
    BY DEF RequestsGoOn
  <1> DEFINE c == Channel(e)
             d == Channel(e)'
             last == Len(c) + 1
  <1>6. state[e] = "open" /\ Listening(p)
    BY <1>1 DEF Listening
  <1>7. d = Append(c, f)
    BY <1>1, <1>6
  <1>8. /\ DOMAIN pendingRequests[p] \subseteq 1 .. received[p]
        /\ \A k \in DOMAIN c : c[k].type = "REQ" => c[k].no \in 1 .. lastNo[e]
    BY <1>0, <1>6 DEF RequestsArrive
  <1>9. /\ received[p] <= lastNo[e]
        /\ \A j \in Nat : received[p] < j /\ j <= lastNo[e] => \E k \in DOMAIN c : IsFrame(c, k, j)
        /\ \A m \in HeldBy(e) : m.type = "REQ" /\ m.no # 0 =>
              /\ m.no <= received[p] => m.no \in DOMAIN pendingRequests[p]
              /\ m.no \in DOMAIN pendingRequests[p] => pendingRequests[p][m.no].about = m.about
              /\ \A k \in DOMAIN c : IsFrame(c, k, m.no) => c[k].more /\ c[k].about = m.about
    BY <1>0, <1>6 DEF RequestsGoOn
  <1>10. /\ DOMAIN c = 1 .. Len(c) /\ DOMAIN d = 1 .. Len(c) + 1 /\ Len(c) \in Nat
         /\ d[last] = f /\ \A k \in DOMAIN c : d[k] = c[k]
         /\ \A k \in DOMAIN d : k \in DOMAIN c \/ k = last
    BY <1>3, <1>4, <1>7, Appended
  <1> HIDE DEF c, d, last
  <1>11. \A i, j : IsFrame(c, i, j) => IsFrame(d, i, j)
    BY <1>10 DEF IsFrame
  <1>12. \A i, j : IsFrame(d, i, j) => (IsFrame(c, i, j) /\ d[i] = c[i]) \/ (i = last /\ j = f.no)
    BY <1>10 DEF IsFrame
  <1>13. ASSUME NEW j \in Nat, received[p] < j, j <= lastNo'[e] PROVE \E k \in DOMAIN d : IsFrame(d, k, j)
    <2>1. CASE j <= lastNo[e]
      BY <1>9, <1>10, <1>11, <1>13, <2>1
    <2>2. CASE ~(j <= lastNo[e])
      <3>1. j = f.no
        BY <1>4, <1>5, <1>13, <2>2
      <3>2. last \in DOMAIN d /\ IsFrame(d, last, j)
        BY <1>3, <1>10, <3>1 DEF IsFrame, last
      <3>3. QED BY <3>2
    <2>3. QED BY <2>1, <2>2
  <1>14. ASSUME NEW m, m \in HeldBy(e)', m.type = "REQ", m.no # 0
         PROVE  /\ m.no <= received[p] => m.no \in DOMAIN pendingRequests[p]
                /\ m.no \in DOMAIN pendingRequests[p] => pendingRequests[p][m.no].about = m.about
                /\ \A k \in DOMAIN d : IsFrame(d, k, m.no) => d[k].more /\ d[k].about = m.about
    <2>1. m \in Others(e) \/ (f.more /\ m = n)
      BY <1>1, <1>14 DEF HeldSent
    <2>2. CASE m \in Others(e)
      <3>1. m.no # f.no /\ m \in HeldBy(e)
        BY <1>3, <1>5, <1>14, <2>2
      <3>2. QED BY <1>9, <1>12, <1>14, <3>1 DEF IsFrame
    <2>3. CASE f.more /\ m = n
      <3>1. m.no = f.no /\ m.about = h.about /\ f.more
        BY <1>3, <2>3
      <3>2. CASE h.no # 0
        <4>1. /\ f.no <= received[p] => f.no \in DOMAIN pendingRequests[p]
              /\ f.no \in DOMAIN pendingRequests[p] => pendingRequests[p][f.no].about = h.about
              /\ \A k \in DOMAIN c : IsFrame(c, k, f.no) => c[k].more /\ c[k].about = h.about
          BY <1>3, <1>5, <1>9, <3>2
        <4>2. \A k \in DOMAIN d : IsFrame(d, k, f.no) => d[k].more /\ d[k].about = h.about
          BY <1>3, <1>10, <1>12, <3>1, <4>1 DEF IsFrame
        <4>3. QED BY <3>1, <4>1, <4>2
      <3>3. CASE h.no = 0
        <4>1. ~(f.no <= received[p]) /\ f.no \notin DOMAIN pendingRequests[p]
          BY <1>4, <1>5, <1>8, <1>9, <3>3
        <4>2. \A k : ~IsFrame(c, k, f.no)
          BY <1>4, <1>5, <1>8, <3>3 DEF IsFrame
        <4>3. \A k \in DOMAIN d : IsFrame(d, k, f.no) => d[k].more /\ d[k].about = h.about
          BY <1>3, <1>10, <1>12, <3>1, <4>2
        <4>4. QED BY <3>1, <4>1, <4>3
      <3>4. QED BY <3>2, <3>3
    <2>4. QED BY <2>1, <2>2, <2>3
  <1>15. received'[p] = received[p] /\ pendingRequests'[p] = pendingRequests[p] /\ received[p] <= lastNo'[e]
    BY <1>1, <1>4, <1>5, <1>9
  <1>16. QED BY <1>13, <1>14, <1>15 DEF d

LEMMA SentRequestAsks ==
    ASSUME IInv, Typed', NEW e \in Ends, NEW h, NEW f, NEW n, SentFrame(e, h, f, n), h.type = "REQ",
           NEW p \in Ends, p = Peer(e)
    PROVE  OneAnswer(e, p)'
  <1>0. Typed /\ OneAnswer(e, p)
    BY DEF IInv, Link
  <1>1. /\ FrameOf(f, h, n, lastNo[e]) /\ Elsewhere(e)
        /\ state[e] = "open" => Channel(e)' = Append(Channel(e), f)
        /\ state[e] # "open" => Channel(e)' = Channel(e)
        /\ UNCHANGED <<received, pendingRequests, state, mailbox, wire, ready, unsent, inbox, outcome, faults>>
    BY DEF SentFrame
  <1>2. NewNumber(e, h, f) /\ p # e
    BY SentRequestIs, Peers
  <1>3. f \in Frames /\ f.type = "REQ" /\ f.about = h.about
    BY <1>1 DEF FrameOf, Frames
  <1> DEFINE x == pendingResponses[e]
             y == pendingResponses'[e]
             last == ~f.more /\ h.about.reply
  <1>4. /\ last => DOMAIN y = DOMAIN x \cup {f.no}
        /\ ~last => y = x
    BY SentRequestWaits
  <1>5. Channel(e) \in Seq(Frames)
    BY <1>0, TypedChannels
  <1>6. ASSUME Listening(e)', NEW k \in Nat \ {0}
        PROVE  Answers(e, p, k)' <= One(k \in DOMAIN y)
    <2> DEFINE w == LastOfRequest(k)
    <2>1. w[f] = One(f.type = "REQ" /\ f.no = k /\ ~f.more /\ f.about.reply) /\ w \in [Frames -> Nat]
      BY <1>3, FrameWeightsAre, FrameWeights
    <2>2. /\ Total(w, Channel(e)) \in Nat /\ Total(LastOfAnswer(k), Channel(p)) \in Nat
          /\ Held(AnswerNo(k), p) \in Nat /\ Asked(inbox[p], k) \in {0, 1}
      BY <1>0, AnswersAre
    <2>3. Held(AnswerNo(k), p)' = Held(AnswerNo(k), p)
      <3>1. SameHeld(p)
        BY <1>2, SentAny DEF Kept
      <3>2. QED BY <3>1 DEF SameHeld
    <2>4. Channel(p)' = Channel(p) /\ inbox'[p] = inbox[p]
      BY <1>1, <1>2 DEF Elsewhere
    <2>5. Answers(e, p, k) <= One(k \in DOMAIN x)
      BY <1>0, <1>1, <1>6 DEF OneAnswer, Listening
    <2>6. Answers(e, p, k) = Total(w, Channel(e)) + Asked(inbox[p], k) + Held(AnswerNo(k), p) + Total(LastOfAnswer(k), Channel(p))
      BY DEF Answers
    <2>7. Answers(e, p, k)' = Total(w, Channel(e)') + Asked(inbox[p], k) + Held(AnswerNo(k), p) + Total(LastOfAnswer(k), Channel(p))
      BY <2>3, <2>4 DEF Answers
    <2>8. Total(w, Channel(e)') = Total(w, Channel(e)) \/ Total(w, Channel(e)') = Total(w, Channel(e)) + w[f]
      BY <1>1, <1>3, <1>5, <2>1, TotalAppend
    <2> HIDE DEF w
    <2>9. CASE last /\ k = f.no
      <3>1. One(k \in DOMAIN x) = 0 /\ One(k \in DOMAIN y) = 1
        BY <1>2, <1>4, <2>9 DEF One, NewNumber
      <3>2. w[f] \in {0, 1}
        BY <2>1 DEF One
      <3>3. QED BY <2>2, <2>5, <2>6, <2>7, <2>8, <3>1, <3>2
    <2>10. CASE ~(last /\ k = f.no)
      <3>1. w[f] = 0
        BY <1>3, <2>1, <2>10 DEF One
      <3>2. One(k \in DOMAIN x) = One(k \in DOMAIN y)
        BY <1>4, <2>10 DEF One
      <3>3. QED BY <2>2, <2>5, <2>6, <2>7, <2>8, <3>1, <3>2
    <2>11. QED BY <2>9, <2>10
  <1>7. QED BY <1>6 DEF OneAnswer

LEMMA SentRequestMatches ==
    ASSUME IInv, Typed', NEW e \in Ends, NEW h, NEW f, NEW n, SentFrame(e, h, f, n), h.type = "REQ",
           NEW p \in Ends, p = Peer(e)
    PROVE  AnswersMatch(e, p)'
  <1>0. Typed /\ AnswersMatch(e, p)
    BY DEF IInv, Link
  <1>1. /\ FrameOf(f, h, n, lastNo[e]) /\ Elsewhere(e)
        /\ state[e] = "open" => Channel(e)' = Append(Channel(e), f)
        /\ state[e] # "open" => Channel(e)' = Channel(e)
        /\ UNCHANGED <<received, pendingRequests, state, mailbox, wire, ready, unsent, inbox, outcome, faults>>
    BY DEF SentFrame
  <1>2. f.no \notin DOMAIN pendingResponses[e] /\ p # e
    BY SentRequestIs, Peers DEF NewNumber
  <1>3. f \in Frames /\ f.type = "REQ" /\ f.about = h.about
    BY <1>1 DEF FrameOf, Frames
  <1>4. Channel(e) \in Seq(Frames) /\ Channel(p) \in Seq(Frames)
    BY <1>0, TypedChannels
  <1> DEFINE c == Channel(e)
             d == Channel(p)
             c1 == Channel(e)'
             x == pendingResponses[e]
             y == pendingResponses'[e]
  <1>5. HeldBy(p)' = HeldBy(p) /\ Channel(p)' = d /\ inbox'[p] = inbox[p] /\ state'[p] = state[p]
    BY <1>1, <1>2 DEF Elsewhere, HeldBy
  <1> DEFINE d1 == Channel(p)'
  <1> SUFFICES ASSUME Listening(e)'
               PROVE  /\ \A k \in DOMAIN c1 : c1[k].type = "REQ" /\ ~c1[k].more /\ c1[k].about.reply =>
                            Expects(y, c1[k].no, c1[k].about) /\ Got(y, d1, c1[k].no) = 0
                      /\ \A r \in inbox'[p] : Expects(y, r.no, r.about) /\ Got(y, d1, r.no) = 0
                      /\ \A m \in HeldBy(p)' : Answer(m) =>
                            Expects(y, m.no, m.about) /\ (state'[p] = "open" => Got(y, d1, m.no) = m.sent)
                      /\ \A k \in DOMAIN d1 : Answer(d1[k]) =>
                            /\ Expects(y, d1[k].no, d1[k].about)
                            /\ ~d1[k].more => Got(y, d1, d1[k].no) = d1[k].about.response
                            /\ \A j \in k + 1 .. Len(d1) : Answer(d1[j]) /\ d1[j].no = d1[k].no => d1[k].more
    BY DEF AnswersMatch
  <1>6. Listening(e)
    BY <1>1 DEF Listening
  <1>7. \A k \in DOMAIN c1 : (k \in DOMAIN c /\ c1[k] = c[k]) \/ c1[k] = f
    BY <1>1, <1>3, <1>4, Appended
  <1>8. /\ ~f.more /\ h.about.reply =>
              /\ DOMAIN y = DOMAIN x \cup {f.no} /\ y[f.no] = NewPending(h.about)
              /\ \A k \in DOMAIN x : k # f.no /\ y[k] = x[k]
        /\ ~(~f.more /\ h.about.reply) => y = x
    BY SentRequestWaits
  <1>9. /\ \A k \in DOMAIN c : c[k].type = "REQ" /\ ~c[k].more /\ c[k].about.reply =>
              Expects(x, c[k].no, c[k].about) /\ Got(x, d, c[k].no) = 0
        /\ \A r \in inbox[p] : Expects(x, r.no, r.about) /\ Got(x, d, r.no) = 0
        /\ \A m \in HeldBy(p) : Answer(m) =>
              Expects(x, m.no, m.about) /\ (state[p] = "open" => Got(x, d, m.no) = m.sent)
        /\ \A k \in DOMAIN d : Answer(d[k]) =>
              /\ Expects(x, d[k].no, d[k].about)
              /\ ~d[k].more => Got(x, d, d[k].no) = d[k].about.response
              /\ \A j \in k + 1 .. Len(d) : Answer(d[j]) /\ d[j].no = d[k].no => d[k].more
    BY <1>0, <1>6, Zenon DEF AnswersMatch
  <1> HIDE DEF c, d, c1, d1, x, y
  <1>10. \A k, q : Expects(x, k, q) => Expects(y, k, q) /\ Got(y, d, k) = Got(x, d, k)
    BY <1>8 DEF Expects, Got
  <1>11. ~f.more /\ f.about.reply => Expects(y, f.no, f.about) /\ Got(y, d, f.no) = 0
    <2>1. \A k \in DOMAIN d : Answer(d[k]) => d[k].no # f.no
      BY <1>2, <1>9 DEF Expects, x
    <2>2. \A k \in DOMAIN d : BytesOf(f.no)[d[k]] = 0
      <3>1. ASSUME NEW k \in DOMAIN d PROVE BytesOf(f.no)[d[k]] = 0
        <4>1. d[k] \in Frames
          BY <1>4, ElementIs DEF d
        <4>2. BytesOf(f.no)[d[k]] = IF Answer(d[k]) /\ d[k].no = f.no THEN d[k].size ELSE 0
          BY <4>1, FrameWeightsAre
        <4>3. QED BY <2>1, <4>2
      <3>2. QED BY <3>1
    <2>3. Total(BytesOf(f.no), d) = 0
      <3>1. BytesOf(f.no) \in [Frames -> Nat] /\ d \in Seq(Frames)
        BY <1>4, FrameWeights DEF d
      <3>2. QED BY <2>2, <3>1, TotalZero
    <2>4. NewPending(h.about).about = h.about /\ NewPending(h.about).raw = 0
      BY DEF NewPending
    <2>5. QED BY <1>3, <1>8, <2>3, <2>4 DEF Expects, Got
  <1>12. ASSUME NEW k \in DOMAIN c1, c1[k].type = "REQ", ~c1[k].more, c1[k].about.reply
         PROVE  Expects(y, c1[k].no, c1[k].about) /\ Got(y, d, c1[k].no) = 0
    BY <1>7, <1>9, <1>10, <1>11, <1>12
  <1>13. /\ \A r \in inbox[p] : Expects(y, r.no, r.about) /\ Got(y, d, r.no) = 0
         /\ \A m \in HeldBy(p) : Answer(m) =>
               Expects(y, m.no, m.about) /\ (state[p] = "open" => Got(y, d, m.no) = m.sent)
    BY <1>9, <1>10
  <1>14. \A k \in DOMAIN d : Answer(d[k]) =>
            /\ Expects(y, d[k].no, d[k].about)
            /\ ~d[k].more => Got(y, d, d[k].no) = d[k].about.response
            /\ \A j \in k + 1 .. Len(d) : Answer(d[j]) /\ d[j].no = d[k].no => d[k].more
    BY <1>9, <1>10
  <1>15. d1 = d
    BY <1>5 DEF d1
  <1>16. QED BY <1>5, <1>12, <1>13, <1>14, <1>15

(* The requests of the other end, and the answers of this one, stay as     *)
(* they are.                                                               *)
LEMMA SentRequest ==
    ASSUME IInv, Typed', NEW e \in Ends, NEW h, NEW f, NEW n, SentFrame(e, h, f, n), h.type = "REQ"
    PROVE  IInv'
  <1> DEFINE p == Peer(e)
  <1>0. p \in Ends /\ p # e /\ Peer(p) = e /\ \A x \in Ends : x = e \/ x = p
    BY Peers
  <1>1. /\ Typed /\ NoProtocolError' /\ RightOutcomes' /\ NoReopening
        /\ \A x \in Ends : ClosedIsEmpty(x)'
        /\ Kept(p) /\ Owned(p)' /\ Numbered(p)'
    BY <1>0, SentAny
  <1>2. InOnePlace' /\ Owned(e)' /\ Numbered(e)'
    BY SentRequestPlaces, SentRequestOwned
  <1>3. Link(e, p)'
    BY <1>0, SentRequestArrives, SentRequestGoesOn, SentRequestAsks, SentRequestMatches DEF Link
  <1>4. Link(p, e)'
    <2>1. RequestsArrive(p, e) /\ RequestsGoOn(p, e) /\ OneAnswer(p, e) /\ AnswersMatch(p, e)
      <3>1. Link(p, Peer(p))
        BY <1>0 DEF IInv
      <3>2. QED BY <1>0, <3>1 DEF Link
    <2>2. /\ FrameOf(f, h, n, lastNo[e]) /\ HeldSent(e, h, f, n) /\ Elsewhere(e)
          /\ state[e] = "open" => Channel(e)' = Append(Channel(e), f)
          /\ state[e] # "open" => Channel(e)' = Channel(e)
          /\ UNCHANGED <<received, pendingRequests, state, mailbox, wire, ready, unsent, inbox, outcome, faults>>
      BY DEF SentFrame
    <2> HIDE DEF p
    <2>3. Channel(e) \in Seq(Frames) /\ Channel(p) \in Seq(Frames)
      BY <1>0, <1>1, TypedChannels
    <2>4. /\ lastNo'[p] = lastNo[p] /\ pendingResponses'[p] = pendingResponses[p] /\ Channel(p)' = Channel(p)
          /\ lastNo[p] <= lastNo'[p] /\ inbox'[e] \subseteq inbox[e]
          /\ pendingRequests'[e] = pendingRequests[e] /\ received'[e] = received[e]
      BY <1>0, <1>1, <2>2 DEF Elsewhere, Typed
    <2>5. SameRequests(Channel(p), Channel(p)') /\ FewerRequests(Channel(p), Channel(p)')
      BY <2>3, <2>4, UnchangedFrames DEF SameFrames, SameRequests
    <2>6. f \in Frames /\ ~Answer(f)
      BY <2>2 DEF FrameOf, Frames, Answer
    <2>7. SameAnswers(Channel(e), Channel(e)') /\ FewerAnswers(Channel(e), Channel(e)')
      <3>1. SameAnswers(Channel(e), Channel(e)')
        BY <2>2, <2>3, <2>6, FrameAppended, UnchangedFrames DEF SameFrames
      <3>2. QED BY <3>1 DEF SameAnswers
    <2>8. RequestsKept(p)
      BY <1>0, <1>1, KeptIsFewer
    <2>9. AnswersKept(e)
      <3>1. h \in Messages /\ (f.more => n \in Messages /\ n.type = "REQ")
        BY <2>2 DEF FrameOf
      <3>2. ASSUME NEW k PROVE Held(AnswerNo(k), e)' <= Held(AnswerNo(k), e)
        <4> DEFINE w == AnswerNo(k)
        <4>1. w \in [Messages -> Nat] /\ w[h] = 0 /\ (f.more => w[n] = 0)
          BY <3>1, MessageWeights, MessageWeightsAre DEF One, Answer
        <4> HIDE DEF w
        <4>2. /\ OthersTotal(w, e) \in Nat /\ Held(w, e) = OthersTotal(w, e) + w[h]
              /\ Held(w, e)' = OthersTotal(w, e) + (IF f.more THEN w[n] ELSE 0)
          BY <2>2, <4>1 DEF HeldSent
        <4>3. Held(w, e)' <= Held(w, e)
          BY <4>1, <4>2
        <4>4. QED BY <4>3 DEF w
      <3>3. ASSUME NEW m, m \in HeldBy(e)', Answer(m) PROVE \E k \in HeldBy(e) : Alike(k, m)
        <4>1. m \in Others(e) \/ (f.more /\ m = n)
          BY <2>2, <3>3 DEF HeldSent
        <4>2. m \in HeldBy(e)
          BY <2>2, <3>1, <3>3, <4>1 DEF HeldSent, Answer
        <4>3. QED BY <4>2, AlikeSelf
      <3>4. QED BY <3>2, <3>3 DEF AnswersKept
    <2>10. RequestsArrive(p, e)'
      BY <1>0, <1>1, <2>1, <2>4, <2>5, ArriveSame
    <2>11. RequestsGoOn(p, e)'
      BY <1>0, <1>1, <2>1, <2>4, <2>5, <2>8, GoOnSame
    <2>12. OneAnswer(p, e)'
      BY <1>0, <1>1, <2>1, <2>4, <2>5, <2>7, <2>9, OneAnswerSame
    <2>13. AnswersMatch(p, e)'
      BY <1>0, <1>1, <2>1, <2>4, <2>5, <2>7, <2>9, MatchSame
    <2>14. QED BY <2>10, <2>11, <2>12, <2>13 DEF Link
  <1>5. \A x \in Ends : Owned(x)' /\ Numbered(x)' /\ Link(x, Peer(x))'
    <2>1. ASSUME NEW x \in Ends PROVE Owned(x)' /\ Numbered(x)' /\ Link(x, Peer(x))'
      <3>1. CASE x = e
        BY <1>2, <1>3, <3>1
      <3>2. CASE x = p
        BY <1>0, <1>1, <1>4, <3>2
      <3>3. QED BY <1>0, <3>1, <3>2
    <2>2. QED BY <2>1
  <1>6. QED BY <1>1, <1>2, <1>5 DEF IInv

(* An answer is in one place: as the last frame of the request, in the     *)
(* in-box, among the messages to be sent, or as its own last frame.        *)
AskedFor(c, n) == \E k \in DOMAIN c : c[k].type = "REQ" /\ c[k].no = n /\ ~c[k].more /\ c[k].about.reply
Waiting(box, n) == \E r \in box : r.no = n
Answering(msgs, n) == \E m \in msgs : Answer(m) /\ m.no = n
Ended(d, n) == \E k \in DOMAIN d : Answer(d[k]) /\ d[k].no = n /\ ~d[k].more

LEMMA AnswerPlaces ==
    ASSUME Typed, NEW e \in Ends, NEW p \in Ends, NEW n \in Nat \ {0}
    PROVE  /\ AskedFor(Channel(e), n) => Total(LastOfRequest(n), Channel(e)) >= 1
           /\ Waiting(inbox[p], n) => Asked(inbox[p], n) = 1
           /\ Answering(HeldBy(p), n) => Held(AnswerNo(n), p) >= 1
           /\ Ended(Channel(p), n) => Total(LastOfAnswer(n), Channel(p)) >= 1
  <1>0. Channel(e) \in Seq(Frames) /\ Channel(p) \in Seq(Frames)
    BY TypedChannels
  <1>1. ASSUME AskedFor(Channel(e), n) PROVE Total(LastOfRequest(n), Channel(e)) >= 1
    <2> DEFINE c == Channel(e)
               w == LastOfRequest(n)
    <2>1. PICK k \in DOMAIN c : c[k].type = "REQ" /\ c[k].no = n /\ ~c[k].more /\ c[k].about.reply
      BY <1>1 DEF AskedFor
    <2>2. c[k] \in Frames
      BY <1>0, <2>1, ElementIs
    <2>3. w[c[k]] = 1
      BY <2>1, <2>2, FrameWeightsAre DEF One
    <2>4. w \in [Frames -> Nat] /\ c \in Seq(Frames) /\ Total(w, c) \in Nat
      BY <1>0, FrameWeights, FrameTotals
    <2> HIDE DEF c, w
    <2>5. w[c[k]] <= Total(w, c)
      BY <2>1, <2>4, TotalAtLeast
    <2>6. Total(w, c) >= 1
      BY <2>3, <2>4, <2>5
    <2>7. QED BY <2>6 DEF c, w
  <1>2. Waiting(inbox[p], n) => Asked(inbox[p], n) = 1
    BY DEF Waiting, Asked
  <1>3. ASSUME Answering(HeldBy(p), n) PROVE Held(AnswerNo(n), p) >= 1
    <2> DEFINE w == AnswerNo(n)
    <2>1. PICK m \in HeldBy(p) : Answer(m) /\ m.no = n
      BY <1>3 DEF Answering
    <2>2. w \in [Messages -> Nat]
      BY MessageWeights
    <2>3. mailbox[p] \in Seq(Messages) /\ outbox[p] \in Seq(Messages) /\ icebox[p] \in Seq(Messages)
      BY DEF Typed
    <2>4. m \in Range(mailbox[p]) \cup Range(outbox[p]) \cup Range(icebox[p])
      BY <2>1 DEF HeldBy
    <2> HIDE DEF w
    <2>5. m \in Messages /\ w[m] <= Total(w, mailbox[p]) + Total(w, outbox[p]) + Total(w, icebox[p])
      BY <2>2, <2>3, <2>4, HeldIs
    <2>6. w[m] = 1
      BY <2>1, <2>5, MessageWeightsAre DEF One, w
    <2>7. 1 <= Held(w, p)
      BY <2>5, <2>6 DEF Held
    <2>8. Held(w, p) \in Nat
      BY HeldNat DEF w
    <2>9. Held(w, p) >= 1
      BY <2>7, <2>8
    <2>10. QED BY <2>9 DEF w
  <1>4. ASSUME Ended(Channel(p), n) PROVE Total(LastOfAnswer(n), Channel(p)) >= 1
    <2> DEFINE c == Channel(p)
               w == LastOfAnswer(n)
    <2>1. PICK k \in DOMAIN c : Answer(c[k]) /\ c[k].no = n /\ ~c[k].more
      BY <1>4 DEF Ended
    <2>2. c[k] \in Frames
      BY <1>0, <2>1, ElementIs
    <2>3. w[c[k]] = 1
      BY <2>1, <2>2, FrameWeightsAre DEF One
    <2>4. w \in [Frames -> Nat] /\ c \in Seq(Frames) /\ Total(w, c) \in Nat
      BY <1>0, FrameWeights, FrameTotals
    <2> HIDE DEF c, w
    <2>5. w[c[k]] <= Total(w, c)
      BY <2>1, <2>4, TotalAtLeast
    <2>6. Total(w, c) >= 1
      BY <2>3, <2>4, <2>5
    <2>7. QED BY <2>6 DEF c, w
  <1>5. QED BY <1>1, <1>2, <1>3, <1>4

LEMMA SoleAnswer ==
    ASSUME Typed, NEW e \in Ends, NEW p \in Ends, OneAnswer(e, p), Listening(e), NEW n \in Nat \ {0}
    PROVE  /\ AskedFor(Channel(e), n) => /\ ~Waiting(inbox[p], n) /\ ~Answering(HeldBy(p), n) /\ ~Ended(Channel(p), n)
                                         /\ Total(LastOfRequest(n), Channel(e)) = 1
           /\ Waiting(inbox[p], n) => ~Answering(HeldBy(p), n) /\ ~Ended(Channel(p), n)
           /\ Answering(HeldBy(p), n) => ~Ended(Channel(p), n) /\ Held(AnswerNo(n), p) = 1
           /\ Ended(Channel(p), n) => Total(LastOfAnswer(n), Channel(p)) = 1
           /\ n \notin DOMAIN pendingResponses[e] =>
                 ~AskedFor(Channel(e), n) /\ ~Waiting(inbox[p], n) /\ ~Answering(HeldBy(p), n) /\ ~Ended(Channel(p), n)
  <1> DEFINE a == Total(LastOfRequest(n), Channel(e))
             b == Asked(inbox[p], n)
             h == Held(AnswerNo(n), p)
             d == Total(LastOfAnswer(n), Channel(p))
             i == One(n \in DOMAIN pendingResponses[e])
  <1>1. a \in Nat /\ b \in Nat /\ h \in Nat /\ d \in Nat
    BY AnswersAre
  <1>2. a + b + h + d <= i
    BY DEF OneAnswer, Answers
  <1>3. i \in {0, 1} /\ (n \notin DOMAIN pendingResponses[e] => i = 0)
    BY DEF One
  <1>4. /\ AskedFor(Channel(e), n) => a >= 1
        /\ Waiting(inbox[p], n) => b >= 1
        /\ Answering(HeldBy(p), n) => h >= 1
        /\ Ended(Channel(p), n) => d >= 1
    BY <1>1, AnswerPlaces
  <1> HIDE DEF a, b, h, d, i
  <1>5. /\ AskedFor(Channel(e), n) => /\ ~Waiting(inbox[p], n) /\ ~Answering(HeldBy(p), n) /\ ~Ended(Channel(p), n)
                                      /\ a = 1
        /\ Waiting(inbox[p], n) => ~Answering(HeldBy(p), n) /\ ~Ended(Channel(p), n)
        /\ Answering(HeldBy(p), n) => ~Ended(Channel(p), n) /\ h = 1
        /\ Ended(Channel(p), n) => d = 1
        /\ n \notin DOMAIN pendingResponses[e] =>
              ~AskedFor(Channel(e), n) /\ ~Waiting(inbox[p], n) /\ ~Answering(HeldBy(p), n) /\ ~Ended(Channel(p), n)
    BY <1>1, <1>2, <1>3, <1>4
  <1>6. QED BY <1>5 DEF a, h, d

(* An answer is sent *)
AnswerSent(e, h, f, n) ==
    /\ h \in HeldBy(e) /\ h \in Messages /\ f \in Frames /\ Answer(h) /\ Answer(f) /\ f.type # "REQ"
    /\ f.no = h.no /\ f.no \in Nat \ {0} /\ f.about = h.about /\ f.size \in Nat /\ h.sent \in Nat
    /\ h.sent + h.left = h.about.response
    /\ ~f.more => f.size = h.left
    /\ f.more => /\ n \in Messages /\ n.type = h.type /\ n.no = f.no /\ n.about = h.about
                 /\ n.sent = h.sent + f.size /\ n.sent + n.left = n.about.response
    /\ \A x \in Ends : lastNo'[x] = lastNo[x] /\ pendingResponses'[x] = pendingResponses[x]

LEMMA SentAnswerIs ==
    ASSUME IInv, NEW e \in Ends, NEW h, NEW f, NEW n, SentFrame(e, h, f, n), Answer(h)
    PROVE  AnswerSent(e, h, f, n)
  <1>1. /\ FrameOf(f, h, n, lastNo[e]) /\ HeldSent(e, h, f, n) /\ Elsewhere(e)
        /\ lastNo'[e] = (IF h.no = 0 THEN lastNo[e] + 1 ELSE lastNo[e])
        /\ pendingResponses'[e] = Answered(pendingResponses[e], h, f)
    BY DEF SentFrame
  <1>2. /\ h \in Messages /\ f \in DataFrames /\ f \in Frames /\ h \in HeldBy(e) /\ h.type # "REQ" /\ f.type = h.type
        /\ ~IsAck(h)
    BY <1>1 DEF FrameOf, HeldSent, Frames, Answer, IsAck
  <1>3. h.no # 0 /\ h.sent + h.left = h.about.response
    BY <1>2 DEF IInv, Owned
  <1>4. Answer(f) /\ f.no = h.no /\ f.about = h.about /\ f.type # "REQ"
    BY <1>1, <1>2, <1>3 DEF FrameOf, Answer
  <1>5. h.sent \in Nat /\ h.left \in Nat /\ f.size \in Nat /\ f.no \in Nat \ {0}
    BY <1>2 DEF Messages, DataFrames
  <1>6. ~f.more => f.size = h.left
    BY <1>1, <1>2 DEF FrameOf
  <1>7. f.more => /\ n \in Messages /\ n.type = h.type /\ n.no = f.no /\ n.about = h.about
                  /\ n.sent = h.sent + f.size /\ n.left = h.left - f.size
    BY <1>1 DEF FrameOf
  <1>8. f.more => n.sent + n.left = n.about.response
    BY <1>3, <1>5, <1>7
  <1>9. \A x \in Ends : lastNo'[x] = lastNo[x] /\ pendingResponses'[x] = pendingResponses[x]
    BY <1>1, <1>2, <1>3 DEF Answered, Elsewhere
  <1>10. QED BY <1>2, <1>3, <1>4, <1>5, <1>6, <1>7, <1>8, <1>9 DEF AnswerSent

(* Nothing changes for the requests that are held. *)
LEMMA SentAnswerHeld ==
    ASSUME IInv, Typed', NEW e \in Ends, NEW h, NEW f, NEW n, SentFrame(e, h, f, n), Answer(h)
    PROVE  /\ \A q : Held(RequestOf(q), e)' = Held(RequestOf(q), e)
           /\ \A k : Held(RequestNo(k), e)' = Held(RequestNo(k), e)
           /\ \A k : k # f.no => Held(AnswerNo(k), e)' = Held(AnswerNo(k), e)
           /\ Held(AnswerNo(f.no), e) = OthersTotal(AnswerNo(f.no), e) + 1
           /\ Held(AnswerNo(f.no), e)' = OthersTotal(AnswerNo(f.no), e) + (IF f.more THEN 1 ELSE 0)
           /\ RequestsKept(e) /\ Owned(e)' /\ Numbered(e)' /\ InOnePlace'
  <1>1. AnswerSent(e, h, f, n)
    BY SentAnswerIs
  <1>2. /\ h \in HeldBy(e) /\ h \in Messages /\ Answer(h) /\ h.no = f.no /\ h.type # "REQ"
        /\ f.more => n \in Messages /\ Answer(n) /\ n.no = f.no /\ n.type # "REQ" /\ n.sent + n.left = n.about.response
                     /\ n.no # 0
    BY <1>1 DEF AnswerSent, Answer
  <1>3. HeldSent(e, h, f, n) /\ UNCHANGED <<unsent, outcome>> /\ Elsewhere(e)
    BY DEF SentFrame
  <1>4. \A w \in [Messages -> Nat] :
          /\ OthersTotal(w, e) \in Nat /\ Held(w, e) = OthersTotal(w, e) + w[h]
          /\ Held(w, e)' = OthersTotal(w, e) + (IF f.more THEN w[n] ELSE 0)
    BY <1>3 DEF HeldSent
  <1>5. ASSUME NEW q PROVE Held(RequestOf(q), e)' = Held(RequestOf(q), e)
    <2> DEFINE w == RequestOf(q)
    <2>1. w \in [Messages -> Nat] /\ w[h] = 0 /\ (f.more => w[n] = 0)
      BY <1>2, MessageWeights, MessageWeightsAre DEF One
    <2> HIDE DEF w
    <2>2. Held(w, e)' = Held(w, e)
      BY <1>4, <2>1
    <2>3. QED BY <2>2 DEF w
  <1>6. ASSUME NEW k PROVE Held(RequestNo(k), e)' = Held(RequestNo(k), e)
    <2> DEFINE w == RequestNo(k)
    <2>1. w \in [Messages -> Nat] /\ w[h] = 0 /\ (f.more => w[n] = 0)
      BY <1>2, MessageWeights, MessageWeightsAre DEF One
    <2> HIDE DEF w
    <2>2. Held(w, e)' = Held(w, e)
      BY <1>4, <2>1
    <2>3. QED BY <2>2 DEF w
  <1>7. ASSUME NEW k, k # f.no PROVE Held(AnswerNo(k), e)' = Held(AnswerNo(k), e)
    <2> DEFINE w == AnswerNo(k)
    <2>1. w \in [Messages -> Nat] /\ w[h] = 0 /\ (f.more => w[n] = 0)
      BY <1>2, <1>7, MessageWeights, MessageWeightsAre DEF One
    <2> HIDE DEF w
    <2>2. Held(w, e)' = Held(w, e)
      BY <1>4, <2>1
    <2>3. QED BY <2>2 DEF w
  <1>8. /\ Held(AnswerNo(f.no), e) = OthersTotal(AnswerNo(f.no), e) + 1
        /\ Held(AnswerNo(f.no), e)' = OthersTotal(AnswerNo(f.no), e) + (IF f.more THEN 1 ELSE 0)
    <2> DEFINE w == AnswerNo(f.no)
    <2>1. w \in [Messages -> Nat] /\ w[h] = 1 /\ (f.more => w[n] = 1)
      BY <1>2, MessageWeights, MessageWeightsAre DEF One
    <2> HIDE DEF w
    <2>2. Held(w, e) = OthersTotal(w, e) + 1 /\ Held(w, e)' = OthersTotal(w, e) + (IF f.more THEN 1 ELSE 0)
      BY <1>4, <2>1
    <2>3. QED BY <2>2 DEF w
  <1>9. \A m \in HeldBy(e)' : m \in HeldBy(e) \/ (f.more /\ m = n)
    BY <1>3 DEF HeldSent
  <1>10. RequestsKept(e)
    BY <1>2, <1>9, AlikeSelf DEF RequestsKept
  <1>11. lastNo'[e] = lastNo[e] /\ \A x \in Ends : pendingResponses'[x] = pendingResponses[x]
    BY <1>1 DEF AnswerSent
  <1>12. Owned(e)'
    <2>1. Owned(e)
      BY DEF IInv
    <2>2. \A m \in HeldBy(e)' : /\ m.type = "REQ" => m.about.from = e
                                /\ m.type # "REQ" => m.no # 0
                                /\ Answer(m) => m.sent + m.left = m.about.response
      BY <1>2, <1>9, <2>1 DEF Owned
    <2>3. QED BY <1>11, <2>1, <2>2 DEF Owned
  <1>13. Numbered(e)'
    <2>1. Numbered(e)
      BY DEF IInv
    <2>2. QED BY <1>6, <1>11, <2>1 DEF Numbered
  <1>14. InOnePlace'
    <2>1. ASSUME NEW q \in Requests PROVE Places(q)' = Places(q)
      <3>1. q.from \in Ends
        BY RequestIs
      <3>2. Held(RequestOf(q), q.from)' = Held(RequestOf(q), q.from)
        <4>1. CASE q.from = e
          BY <1>5, <4>1
        <4>2. CASE q.from # e
          <5>1. SameHeld(q.from)
            BY <3>1, <4>2, SentAny DEF Kept
          <5>2. QED BY <5>1 DEF SameHeld
        <4>3. QED BY <4>1, <4>2
      <3>3. Waits(q)' = Waits(q)
        BY <1>11, <3>1 DEF Waits
      <3>4. QED BY <1>3, <3>2, <3>3 DEF Places
    <2>2. InOnePlace
      BY DEF IInv
    <2>3. QED BY <2>1, <2>2 DEF InOnePlace
  <1>15. QED BY <1>5, <1>6, <1>7, <1>8, <1>10, <1>12, <1>13, <1>14

LEMMA SentAnswerCounts ==
    ASSUME IInv, Typed', NEW e \in Ends, NEW h, NEW f, NEW n, SentFrame(e, h, f, n), Answer(h),
           NEW p \in Ends, e = Peer(p)
    PROVE  OneAnswer(p, e)'
  <1>0. Typed /\ OneAnswer(p, e) /\ p # e
    BY Peers DEF IInv, Link
  <1>1. /\ Elsewhere(e)
        /\ state[e] = "open" => Channel(e)' = Append(Channel(e), f)
        /\ state[e] # "open" => Channel(e)' = Channel(e)
        /\ UNCHANGED <<received, pendingRequests, state, mailbox, wire, ready, unsent, inbox, outcome, faults>>
    BY DEF SentFrame
  <1>2. f \in Frames /\ Answer(f) /\ pendingResponses'[p] = pendingResponses[p]
    BY SentAnswerIs DEF AnswerSent
  <1>3. Channel(p)' = Channel(p) /\ inbox'[e] = inbox[e]
    BY <1>0, <1>1 DEF Elsewhere
  <1>4. Channel(e) \in Seq(Frames)
    BY <1>0, TypedChannels
  <1>5. ASSUME Listening(p)', NEW k \in Nat \ {0}
        PROVE  Answers(p, e, k)' <= One(k \in DOMAIN pendingResponses'[p])
    <2> DEFINE w == LastOfAnswer(k)
    <2>1. w[f] = One(f.no = k /\ ~f.more) /\ w \in [Frames -> Nat]
      BY <1>2, FrameWeightsAre, FrameWeights DEF One
    <2>2. /\ Total(LastOfRequest(k), Channel(p)) \in Nat /\ Total(w, Channel(e)) \in Nat
          /\ Held(AnswerNo(k), e) \in Nat /\ Asked(inbox[e], k) \in {0, 1}
      BY <1>0, AnswersAre
    <2>3. Held(AnswerNo(k), e)' \in Nat
      BY HeldNat
    <2>4. Answers(p, e, k) <= One(k \in DOMAIN pendingResponses[p])
      BY <1>0, <1>1, <1>5 DEF OneAnswer, Listening
    <2>5. Answers(p, e, k) = Total(LastOfRequest(k), Channel(p)) + Asked(inbox[e], k) + Held(AnswerNo(k), e) + Total(w, Channel(e))
      BY DEF Answers
    <2>6. Answers(p, e, k)' = Total(LastOfRequest(k), Channel(p)) + Asked(inbox[e], k) + Held(AnswerNo(k), e)' + Total(w, Channel(e)')
      BY <1>3 DEF Answers
    <2> HIDE DEF w
    <2>7. Total(w, Channel(e)') = Total(w, Channel(e)) \/ Total(w, Channel(e)') = Total(w, Channel(e)) + w[f]
      <3>1. Total(w, Append(Channel(e), f)) = Total(w, Channel(e)) + w[f]
        BY <1>2, <1>4, <2>1, TotalAppend
      <3>2. Channel(e)' = Append(Channel(e), f) \/ Channel(e)' = Channel(e)
        BY <1>1
      <3>3. QED BY <3>1, <3>2
    <2>8. CASE k = f.no
      <3>1. /\ Held(AnswerNo(k), e) = OthersTotal(AnswerNo(k), e) + 1
            /\ Held(AnswerNo(k), e)' = OthersTotal(AnswerNo(k), e) + (IF f.more THEN 1 ELSE 0)
        BY <2>8, SentAnswerHeld
      <3>2. OthersTotal(AnswerNo(k), e) \in Nat
        <4>1. HeldSent(e, h, f, n)
          BY DEF SentFrame
        <4>2. QED BY <4>1, MessageWeights DEF HeldSent
      <3>3. w[f] = (IF f.more THEN 0 ELSE 1)
        BY <2>1, <2>8 DEF One
      <3>4. Held(AnswerNo(k), e)' + w[f] = Held(AnswerNo(k), e) /\ w[f] \in Nat
        BY <3>1, <3>2, <3>3
      <3>5. One(k \in DOMAIN pendingResponses[p]) \in Nat
        BY DEF One
      <3>6. QED BY <1>2, <2>2, <2>3, <2>4, <2>5, <2>6, <2>7, <3>4, <3>5
    <2>9. CASE k # f.no
      <3>1. Held(AnswerNo(k), e)' = Held(AnswerNo(k), e)
        BY <2>9, SentAnswerHeld
      <3>2. w[f] = 0
        BY <2>1, <2>9 DEF One
      <3>3. QED BY <1>2, <2>2, <2>4, <2>5, <2>6, <2>7, <3>1, <3>2
    <2>10. QED BY <2>8, <2>9
  <1>6. QED BY <1>5 DEF OneAnswer

(* A frame of an answer adds its bytes to what has been got of it.         *)
LEMMA GotAppended ==
    ASSUME NEW d \in Seq(Frames), NEW f \in Frames, Answer(f), NEW x, IsPending(x), NEW k \in DOMAIN x
    PROVE  /\ k # f.no => Got(x, Append(d, f), k) = Got(x, d, k)
           /\ k = f.no => Got(x, Append(d, f), k) = Got(x, d, k) + f.size
  <1> DEFINE w == BytesOf(k)
  <1>1. w \in [Frames -> Nat] /\ w[f] = (IF f.no = k THEN f.size ELSE 0) /\ Total(w, d) \in Nat
    BY FrameWeights, FrameWeightsAre, FrameTotals
  <1>2. w[f] \in Nat /\ x[k].raw \in Nat
    BY <1>1 DEF IsPending, Pendings
  <1> HIDE DEF w
  <1>3. Total(w, Append(d, f)) = Total(w, d) + w[f]
    BY <1>1, TotalAppend
  <1>4. x[k].raw + Total(w, Append(d, f)) = (x[k].raw + Total(w, d)) + w[f]
    BY <1>1, <1>2, <1>3
  <1>5. Got(x, Append(d, f), k) = Got(x, d, k) + w[f] /\ Got(x, d, k) \in Nat
    BY <1>1, <1>2, <1>4 DEF Got, w
  <1>6. QED BY <1>1, <1>2, <1>5

LEMMA SentAnswerMatches ==
    ASSUME IInv, Typed', NEW e \in Ends, NEW h, NEW f, NEW n, SentFrame(e, h, f, n), Answer(h),
           NEW p \in Ends, e = Peer(p)
    PROVE  AnswersMatch(p, e)'
  <1>0. Typed /\ AnswersMatch(p, e) /\ OneAnswer(p, e) /\ p # e
    BY Peers DEF IInv, Link
  <1>1. /\ Elsewhere(e) /\ HeldSent(e, h, f, n)
        /\ state[e] = "open" => Channel(e)' = Append(Channel(e), f)
        /\ state[e] # "open" => Channel(e)' = Channel(e)
        /\ UNCHANGED <<received, pendingRequests, state, mailbox, wire, ready, unsent, inbox, outcome, faults>>
    BY DEF SentFrame
  <1>2. AnswerSent(e, h, f, n)
    BY SentAnswerIs
  <1> DEFINE c1 == Channel(p)'
             d1 == Channel(e)'
             c == Channel(p)
             d == Channel(e)
             x == pendingResponses[p]
             y == pendingResponses'[p]
  <1>3. y = x
    BY <1>2 DEF AnswerSent
  <1>4. c1 = c /\ inbox'[e] = inbox[e] /\ state'[e] = state[e]
    BY <1>0, <1>1 DEF Elsewhere
  <1>5. d \in Seq(Frames) /\ f \in Frames /\ Answer(f) /\ IsPending(x)
    BY <1>0, <1>2, TypedChannels DEF AnswerSent, Typed
  <1> SUFFICES ASSUME Listening(p)'
               PROVE  /\ \A k \in DOMAIN c1 : c1[k].type = "REQ" /\ ~c1[k].more /\ c1[k].about.reply =>
                            Expects(y, c1[k].no, c1[k].about) /\ Got(y, d1, c1[k].no) = 0
                      /\ \A r \in inbox'[e] : Expects(y, r.no, r.about) /\ Got(y, d1, r.no) = 0
                      /\ \A m \in HeldBy(e)' : Answer(m) =>
                            Expects(y, m.no, m.about) /\ (state'[e] = "open" => Got(y, d1, m.no) = m.sent)
                      /\ \A k \in DOMAIN d1 : Answer(d1[k]) =>
                            /\ Expects(y, d1[k].no, d1[k].about)
                            /\ ~d1[k].more => Got(y, d1, d1[k].no) = d1[k].about.response
                            /\ \A j \in k + 1 .. Len(d1) : Answer(d1[j]) /\ d1[j].no = d1[k].no => d1[k].more
    BY DEF AnswersMatch
  <1>6. Listening(p)
    BY <1>1 DEF Listening
  <1>7. /\ \A k \in DOMAIN c : c[k].type = "REQ" /\ ~c[k].more /\ c[k].about.reply =>
              Expects(x, c[k].no, c[k].about) /\ Got(x, d, c[k].no) = 0
        /\ \A r \in inbox[e] : Expects(x, r.no, r.about) /\ Got(x, d, r.no) = 0
        /\ \A m \in HeldBy(e) : Answer(m) =>
              Expects(x, m.no, m.about) /\ (state[e] = "open" => Got(x, d, m.no) = m.sent)
        /\ \A k \in DOMAIN d : Answer(d[k]) =>
              /\ Expects(x, d[k].no, d[k].about)
              /\ ~d[k].more => Got(x, d, d[k].no) = d[k].about.response
              /\ \A j \in k + 1 .. Len(d) : Answer(d[j]) /\ d[j].no = d[k].no => d[k].more
    BY <1>0, <1>6, Zenon DEF AnswersMatch
  <1>8. /\ ~AskedFor(c, f.no) /\ ~Waiting(inbox[e], f.no) /\ ~Ended(d, f.no)
        /\ Held(AnswerNo(f.no), e) = 1
    <2>1. Answering(HeldBy(e), f.no) /\ f.no \in Nat \ {0}
      BY <1>2 DEF AnswerSent, Answering
    <2>2. QED BY <1>0, <1>6, <2>1, SoleAnswer
  <1>9. \A m \in Others(e) : Answer(m) => m.no # f.no
    <2> DEFINE w == AnswerNo(f.no)
    <2>1. w \in [Messages -> Nat] /\ Others(e) \subseteq Messages
      BY <1>1, MessageWeights DEF HeldSent
    <2>2. Held(w, e) = OthersTotal(w, e) + 1
      BY SentAnswerHeld
    <2>3. ASSUME NEW m \in Others(e), Answer(m), m.no = f.no PROVE FALSE
      <3>1. m \in Messages
        BY <2>1
      <3>2. w[m] = 1
        BY <2>3, <3>1, MessageWeightsAre DEF One
      <3> HIDE DEF w
      <3>3. w[m] <= OthersTotal(w, e) /\ OthersTotal(w, e) \in Nat
        BY <1>1, <2>1, <2>3 DEF HeldSent
      <3>4. Held(w, e) = 1
        BY <1>8 DEF w
      <3>5. QED BY <2>2, <3>2, <3>3, <3>4
    <2>4. QED BY <2>3
  <1>21. /\ state[e] = "open" => d1 = Append(d, f)
         /\ state[e] # "open" => d1 = d
    BY <1>1
  <1>12. /\ state[e] = "open" =>
              /\ DOMAIN d = 1 .. Len(d) /\ DOMAIN d1 = 1 .. Len(d) + 1 /\ Len(d1) = Len(d) + 1 /\ Len(d) \in Nat
              /\ d1[Len(d) + 1] = f /\ \A k \in DOMAIN d : d1[k] = d[k]
              /\ \A k \in DOMAIN d1 : k \in DOMAIN d \/ k = Len(d) + 1
         /\ state[e] # "open" => d1 = d
    BY <1>5, <1>21, Appended
  <1>13. Expects(x, f.no, f.about) /\ (state[e] = "open" => Got(x, d, f.no) = h.sent)
    BY <1>2, <1>7 DEF AnswerSent
  <1>14. \A m \in HeldBy(e)' : m \in Others(e) \/ (f.more /\ m = n)
    BY <1>1 DEF HeldSent
  <1>15. Others(e) \subseteq HeldBy(e)
    BY <1>1 DEF HeldSent
  <1> HIDE DEF c, d, c1, d1, x, y
  <1>22. \A k \in DOMAIN x : /\ k # f.no => Got(x, Append(d, f), k) = Got(x, d, k)
                             /\ k = f.no => Got(x, Append(d, f), k) = Got(x, d, k) + f.size
    BY <1>5, GotAppended
  <1>10. \A k \in DOMAIN x : k # f.no => Got(x, d1, k) = Got(x, d, k)
    BY <1>21, <1>22
  <1>11. state[e] = "open" => \A k \in DOMAIN x : k = f.no => Got(x, d1, k) = Got(x, d, k) + f.size
    BY <1>21, <1>22
  <1>16. ASSUME NEW k \in DOMAIN c, c[k].type = "REQ", ~c[k].more, c[k].about.reply
         PROVE  Expects(x, c[k].no, c[k].about) /\ Got(x, d1, c[k].no) = 0
    BY <1>7, <1>8, <1>10, <1>16 DEF AskedFor, Expects
  <1>17. \A r \in inbox[e] : Expects(x, r.no, r.about) /\ Got(x, d1, r.no) = 0
    BY <1>7, <1>8, <1>10 DEF Waiting, Expects
  <1>18. ASSUME NEW m, m \in HeldBy(e)', Answer(m)
         PROVE  Expects(x, m.no, m.about) /\ (state[e] = "open" => Got(x, d1, m.no) = m.sent)
    <2>1. CASE m \in Others(e)
      BY <1>7, <1>9, <1>10, <1>15, <1>18, <2>1 DEF Expects
    <2>2. CASE f.more /\ m = n
      <3>1. n.no = f.no /\ n.about = f.about /\ n.sent = h.sent + f.size
        BY <1>2, <2>2 DEF AnswerSent
      <3>2. QED BY <1>11, <1>13, <2>2, <3>1 DEF Expects
    <2>3. QED BY <1>14, <1>18, <2>1, <2>2
  <1>19. ASSUME NEW k \in DOMAIN d1, Answer(d1[k])
         PROVE  /\ Expects(x, d1[k].no, d1[k].about)
                /\ ~d1[k].more => Got(x, d1, d1[k].no) = d1[k].about.response
                /\ \A j \in k + 1 .. Len(d1) : Answer(d1[j]) /\ d1[j].no = d1[k].no => d1[k].more
    <2>1. CASE state[e] # "open"
      <3>1. d1 = d /\ k \in DOMAIN d
        BY <1>12, <1>19, <2>1
      <3>2. QED BY <1>7, <1>19, <3>1
    <2>2. CASE state[e] = "open" /\ k \in DOMAIN d
      <3>1. d1[k] = d[k] /\ Expects(x, d[k].no, d[k].about) /\ Answer(d[k])
        BY <1>7, <1>12, <1>19, <2>2
      <3>2. ~d[k].more => d[k].no # f.no
        BY <1>8, <2>2, <3>1 DEF Ended
      <3>3. ~d[k].more => Got(x, d1, d[k].no) = d[k].about.response
        BY <1>7, <1>10, <2>2, <3>1, <3>2 DEF Expects
      <3>4. ASSUME NEW j \in k + 1 .. Len(d1), Answer(d1[j]), d1[j].no = d[k].no PROVE d[k].more
        <4>1. j \in k + 1 .. Len(d) \/ j = Len(d) + 1
          BY <1>12, <2>2, <3>4
        <4>2. CASE j \in k + 1 .. Len(d)
          <5>1. j \in DOMAIN d /\ d1[j] = d[j]
            BY <1>12, <2>2, <4>2
          <5>2. QED BY <1>7, <2>2, <3>1, <3>4, <4>2, <5>1
        <4>3. CASE j = Len(d) + 1
          BY <1>12, <2>2, <3>2, <3>4, <4>3
        <4>4. QED BY <4>1, <4>2, <4>3
      <3>5. QED BY <3>1, <3>3, <3>4
    <2>3. CASE state[e] = "open" /\ k = Len(d) + 1
      <3>1. d1[k] = f
        BY <1>12, <2>3
      <3>2. f.about = h.about /\ h.sent \in Nat /\ h.sent + h.left = h.about.response /\ (~f.more => f.size = h.left)
        BY <1>2 DEF AnswerSent
      <3>3. ~f.more => Got(x, d1, f.no) = f.about.response
        BY <1>11, <1>13, <2>3, <3>2 DEF Expects
      <3>4. \A j \in k + 1 .. Len(d1) : FALSE
        BY <1>12, <2>3
      <3>5. QED BY <1>13, <3>1, <3>3, <3>4
    <2>4. QED BY <1>12, <1>19, <2>1, <2>2, <2>3
  <1>20. QED BY <1>3, <1>4, <1>16, <1>17, <1>18, <1>19

(* The answers of the other end, and the requests of this one, stay as     *)
(* they are.                                                               *)
LEMMA SentAnswer ==
    ASSUME IInv, Typed', NEW e \in Ends, NEW h, NEW f, NEW n, SentFrame(e, h, f, n), Answer(h)
    PROVE  IInv'
  <1> DEFINE p == Peer(e)
  <1>0. p \in Ends /\ p # e /\ Peer(p) = e /\ \A x \in Ends : x = e \/ x = p
    BY Peers
  <1>1. /\ Typed /\ NoProtocolError' /\ RightOutcomes' /\ NoReopening
        /\ \A x \in Ends : ClosedIsEmpty(x)'
        /\ Kept(p) /\ Owned(p)' /\ Numbered(p)'
    BY <1>0, SentAny
  <1>2. InOnePlace' /\ Owned(e)' /\ Numbered(e)' /\ RequestsKept(e)
    BY SentAnswerHeld
  <1>3. /\ f \in Frames /\ f.type # "REQ"
        /\ \A x \in Ends : lastNo'[x] = lastNo[x] /\ pendingResponses'[x] = pendingResponses[x]
    BY SentAnswerIs DEF AnswerSent
  <1>4. /\ Elsewhere(e)
        /\ state[e] = "open" => Channel(e)' = Append(Channel(e), f)
        /\ state[e] # "open" => Channel(e)' = Channel(e)
        /\ UNCHANGED <<received, pendingRequests, state, mailbox, wire, ready, unsent, inbox, outcome, faults>>
    BY DEF SentFrame
  <1>5. RequestsArrive(e, p) /\ RequestsGoOn(e, p) /\ OneAnswer(e, p) /\ AnswersMatch(e, p)
    BY DEF IInv, Link
  <1>6. RequestsArrive(p, e) /\ RequestsGoOn(p, e)
    <2>1. Link(p, Peer(p))
      BY <1>0 DEF IInv
    <2>2. QED BY <1>0, <2>1 DEF Link
  <1>7. OneAnswer(p, e)' /\ AnswersMatch(p, e)'
    BY <1>0, SentAnswerCounts, SentAnswerMatches
  <1> HIDE DEF p
  <1>8. Channel(e) \in Seq(Frames) /\ Channel(p) \in Seq(Frames)
    BY <1>0, <1>1, TypedChannels
  <1>9. /\ Channel(p)' = Channel(p) /\ SameFrames(Channel(p), Channel(p)')
        /\ \A x \in Ends : /\ lastNo[x] <= lastNo'[x] /\ inbox'[x] \subseteq inbox[x] /\ state'[x] = state[x]
                           /\ pendingRequests'[x] = pendingRequests[x] /\ received'[x] = received[x]
    <2>1. Channel(p)' = Channel(p)
      BY <1>0, <1>4 DEF Elsewhere
    <2>2. SameFrames(Channel(p), Channel(p)')
      BY <1>8, <2>1, UnchangedFrames
    <2>3. \A x \in Ends : lastNo[x] <= lastNo'[x]
      BY <1>1, <1>3 DEF Typed
    <2>4. \A x \in Ends : /\ inbox'[x] \subseteq inbox[x] /\ state'[x] = state[x]
                          /\ pendingRequests'[x] = pendingRequests[x] /\ received'[x] = received[x]
      BY <1>4
    <2>5. QED BY <2>1, <2>2, <2>3, <2>4
  <1>10. SameRequests(Channel(e), Channel(e)')
    BY <1>3, <1>4, <1>8, FrameAppended, UnchangedFrames DEF SameFrames
  <1>11. SameRequests(Channel(p), Channel(p)') /\ SameAnswers(Channel(p), Channel(p)') /\ FewerAnswers(Channel(p), Channel(p)')
    BY <1>9 DEF SameFrames, SameAnswers
  <1>12. FewerRequests(Channel(e), Channel(e)')
    BY <1>10 DEF SameRequests
  <1>13. RequestsKept(p) /\ AnswersKept(p)
    BY <1>0, <1>1, KeptIsFewer
  <1>14. RequestsArrive(e, p)' /\ RequestsArrive(p, e)'
    BY <1>0, <1>1, <1>5, <1>6, <1>9, <1>10, <1>11, ArriveSame
  <1>15. RequestsGoOn(e, p)'
    BY <1>0, <1>1, <1>2, <1>3, <1>5, <1>9, <1>10, GoOnSame
  <1>16. RequestsGoOn(p, e)'
    BY <1>0, <1>1, <1>3, <1>6, <1>9, <1>11, <1>13, GoOnSame
  <1>22. inbox'[p] \subseteq inbox[p] /\ pendingResponses'[e] = pendingResponses[e]
    BY <1>0, <1>3, <1>9
  <1>17. OneAnswer(e, p)'
    BY <1>0, <1>1, <1>5, <1>11, <1>12, <1>13, <1>22, OneAnswerSame
  <1>18. AnswersMatch(e, p)'
    BY <1>0, <1>1, <1>5, <1>11, <1>12, <1>13, <1>22, MatchSame
  <1>19. Link(e, p)' /\ Link(p, e)'
    BY <1>7, <1>14, <1>15, <1>16, <1>17, <1>18 DEF Link
  <1>20. \A x \in Ends : Owned(x)' /\ Numbered(x)' /\ Link(x, Peer(x))'
    <2>1. ASSUME NEW x \in Ends PROVE Owned(x)' /\ Numbered(x)' /\ Link(x, Peer(x))'
      <3>1. CASE x = e
        BY <1>2, <1>19, <3>1 DEF p
      <3>2. CASE x = p
        BY <1>0, <1>1, <1>19, <3>2
      <3>3. QED BY <1>0, <3>1, <3>2
    <2>2. QED BY <2>1
  <1>21. QED BY <1>1, <1>2, <1>20 DEF IInv

(* writeToWebSocket() *)
LEMMA WriteFrameStep ==
    ASSUME IInv, NEW e \in Ends, WriteFrame(e)
    PROVE  IInv'
  <1>0. Typed /\ Typed'
    BY TypedWriteFrame DEF IInv
  <1>1. CASE outbox[e] # << >>
    <2> DEFINE h == Head(outbox[e])
               f == Wrote(e)
               n == Remains(e)
    <2>1. SentFrame(e, h, f, n)
      BY <1>0, <1>1, WriteFrameSends
    <2>2. h.type \in Types
      <3>1. h \in Messages
        BY <2>1 DEF SentFrame, FrameOf
      <3>2. QED BY <3>1 DEF Messages
    <2> HIDE DEF h, f, n
    <2>3. IsAck(h) \/ h.type = "REQ" \/ Answer(h)
      BY <2>2 DEF Types, IsAck, Answer
    <2>4. QED BY <1>0, <2>1, <2>3, SentAck, SentRequest, SentAnswer
  <1>2. CASE outbox[e] = << >>
    <2>1. /\ writing[e] /\ writing' = [writing EXCEPT ![e] = FALSE]
          /\ UNCHANGED <<outbox, icebox, writeable, lastNo, pendingResponses, sock>>
          /\ UNCHANGED <<received, pendingRequests, state, mailbox, wire, ready, unsent, inbox, outcome, faults>>
      BY <1>2 DEF WriteFrame, Set
    <2>2. NoReopening /\ NoProtocolError'
      BY <2>1 DEF IInv, NoProtocolError, NoReopening, Listening
    <2>3. \A x \in Ends : ClosedIsEmpty(x)'
      BY <1>0, <2>1 DEF IInv, ClosedIsEmpty, Typed
    <2>4. \A x \in Ends : Kept(x) /\ SameFrames(Channel(x), Channel(x)')
      BY <1>0, <2>1, KeptUnchanged, ChannelUnchanged
    <2>5. Quiet
      BY <2>1, <2>2, <2>4 DEF Quiet
    <2>6. QED BY <1>0, <2>2, <2>3, <2>5, QuietStep
  <1>3. QED BY <1>1, <1>2

-----------------------------------------------------------------------------
(* The clients: what a link keeps if no more is under way on it            *)
LEMMA LinkSame ==
    ASSUME IInv, Typed', NoReopening, NEW e \in Ends, NEW p \in Ends, p = Peer(e),
           RequestsKept(e), AnswersKept(p), SameRequests(Channel(e), Channel(e)'),
           FewerAnswers(Channel(p), Channel(p)'), state'[p] = "open" => SameAnswers(Channel(p), Channel(p)'),
           pendingRequests'[p] = pendingRequests[p], received'[p] = received[p], lastNo'[e] = lastNo[e],
           inbox'[p] \subseteq inbox[p], pendingResponses'[e] = pendingResponses[e]
    PROVE  Link(e, p)'
  <1>1. Typed /\ RequestsArrive(e, p) /\ RequestsGoOn(e, p) /\ OneAnswer(e, p) /\ AnswersMatch(e, p)
    BY DEF IInv, Link
  <1>2. lastNo[e] <= lastNo'[e] /\ FewerRequests(Channel(e), Channel(e)')
    BY <1>1 DEF Typed, SameRequests
  <1>3. RequestsArrive(e, p)'
    BY <1>1, <1>2, ArriveSame
  <1>4. RequestsGoOn(e, p)'
    BY <1>1, GoOnSame
  <1>5. OneAnswer(e, p)'
    BY <1>1, <1>2, OneAnswerSame
  <1>6. AnswersMatch(e, p)'
    BY <1>1, <1>2, MatchSame
  <1>7. QED BY <1>3, <1>4, <1>5, <1>6 DEF Link

(* BLIPIO at e is asked to send m.                                         *)
Posted(e, m) ==
    /\ m \in Messages /\ mailbox' = [mailbox EXCEPT ![e] = Append(mailbox[e], m)]
    /\ UNCHANGED <<ends, net, outcome, faults>>

LEMMA PostedHeld ==
    ASSUME Typed, NEW e \in Ends, NEW m, Posted(e, m)
    PROVE  /\ HeldBy(e)' = HeldBy(e) \cup {m}
           /\ \A w \in [Messages -> Nat] : Held(w, e) \in Nat /\ Held(w, e)' = Held(w, e) + w[m]
  <1>1. mailbox[e] \in Seq(Messages) /\ outbox[e] \in Seq(Messages) /\ icebox[e] \in Seq(Messages) /\ m \in Messages
    BY DEF Typed, Posted
  <1>2. mailbox'[e] = Append(mailbox[e], m) /\ outbox'[e] = outbox[e] /\ icebox'[e] = icebox[e]
    BY DEF Typed, Posted, ends
  <1>3. HeldBy(e)' = HeldBy(e) \cup {m}
    <2>1. PICK w : w \in [Messages -> Nat]
      BY MessageWeights
    <2>2. Range(Append(mailbox[e], m)) = Range(mailbox[e]) \cup {m}
      BY <1>1, <2>1, AppendHeld
    <2>3. QED BY <1>2, <2>2 DEF HeldBy
  <1>4. ASSUME NEW w \in [Messages -> Nat] PROVE Held(w, e) \in Nat /\ Held(w, e)' = Held(w, e) + w[m]
    <2>1. Total(w, Append(mailbox[e], m)) = Total(w, mailbox[e]) + w[m]
      BY <1>1, AppendHeld
    <2>2. Total(w, mailbox[e]) \in Nat /\ Total(w, outbox[e]) \in Nat /\ Total(w, icebox[e]) \in Nat /\ w[m] \in Nat
      BY <1>1, TotalIs
    <2>3. Held(w, e)' = Total(w, mailbox'[e]) + Total(w, outbox'[e]) + Total(w, icebox'[e])
      BY DEF Held
    <2>4. QED BY <1>2, <2>1, <2>2, <2>3 DEF Held
  <1>5. QED BY <1>3, <1>4

(* What does not depend on what m is *)
LEMMA PostedAny ==
    ASSUME IInv, Typed', NEW e \in Ends, NEW m, Posted(e, m), NEW p \in Ends, p = Peer(e)
    PROVE  /\ Typed /\ NoProtocolError' /\ RightOutcomes' /\ NoReopening
           /\ Kept(p) /\ RequestsKept(p) /\ AnswersKept(p) /\ Owned(p)' /\ Numbered(p)'
           /\ \A x \in Ends : /\ ClosedIsEmpty(x)' /\ Channel(x)' = Channel(x)
                              /\ SameRequests(Channel(x), Channel(x)') /\ SameAnswers(Channel(x), Channel(x)')
                              /\ FewerAnswers(Channel(x), Channel(x)')
  <1>0. Typed
    BY DEF IInv
  <1>1. UNCHANGED <<ends, net, outcome, faults>> /\ p # e
    BY Peers DEF Posted
  <1>2. NoProtocolError' /\ NoReopening /\ RightOutcomes'
    BY <1>1 DEF IInv, NoProtocolError, NoReopening, Listening, RightOutcomes, ends
  <1>3. mailbox'[p] = mailbox[p] /\ outbox'[p] = outbox[p] /\ icebox'[p] = icebox[p]
    BY <1>0, <1>1 DEF Typed, Posted, ends
  <1>4. Kept(p)
    BY <1>3, KeptUnchanged
  <1>5. FewerHeld(p) /\ AlikeHeld(p) /\ RequestsKept(p) /\ AnswersKept(p)
    BY <1>0, <1>4, KeptIsFewer DEF Kept
  <1>6. FewerExpected(pendingResponses[p], pendingResponses'[p]) /\ lastNo[p] <= lastNo'[p] /\ Owned(p) /\ Numbered(p)
    BY <1>0, <1>1, SMTT(40) DEF FewerExpected, Typed, ends, IInv
  <1>7. Owned(p)' /\ Numbered(p)'
    BY <1>0, <1>5, <1>6, OwnedKept, NumberedKept
  <1>8. ASSUME NEW x \in Ends
        PROVE  /\ ClosedIsEmpty(x)' /\ Channel(x)' = Channel(x)
               /\ SameRequests(Channel(x), Channel(x)') /\ SameAnswers(Channel(x), Channel(x)')
               /\ FewerAnswers(Channel(x), Channel(x)')
    <2>1. ClosedIsEmpty(x)'
      BY <1>1 DEF IInv, ClosedIsEmpty, ends, net
    <2>2. Channel(x)' = Channel(x) /\ SameFrames(Channel(x), Channel(x)')
      BY <1>0, <1>1, ChannelUnchanged DEF net
    <2>3. QED BY <2>1, <2>2 DEF SameFrames, SameAnswers
  <1>9. QED BY <1>0, <1>2, <1>4, <1>5, <1>7, <1>8

(* sendRequest() *)
LEMMA SendRequestStep ==
    ASSUME IInv, NEW q \in Requests, SendRequest(q)
    PROVE  IInv'
  <1> DEFINE e == q.from
             p == Peer(e)
             m == MessageOut("REQ", 0, q, q.urgent, q.size)
  <1>0. Typed /\ Typed'
    BY TypedSendRequest DEF IInv
  <1>1. e \in Ends /\ p \in Ends /\ p # e /\ Peer(p) = e /\ \A x \in Ends : x = e \/ x = p
    BY RequestIs, Peers
  <1>2. m \in Messages /\ m.type = "REQ" /\ m.no = 0 /\ m.about = q
    BY RequestIs, MessageOutIs DEF Types
  <1>3. /\ q \in unsent /\ unsent' = unsent \ {q} /\ inbox' = inbox
        /\ UNCHANGED <<ends, net, outcome, faults>>
        /\ Posted(e, m)
    BY <1>2 DEF SendRequest, Posted
  <1>4. q.from = e
    OBVIOUS
  <1> HIDE DEF e, p, m
  <1>5. /\ NoProtocolError' /\ RightOutcomes' /\ NoReopening
        /\ Kept(p) /\ RequestsKept(p) /\ AnswersKept(p) /\ Owned(p)' /\ Numbered(p)'
        /\ \A x \in Ends : /\ ClosedIsEmpty(x)'
                           /\ SameRequests(Channel(x), Channel(x)') /\ SameAnswers(Channel(x), Channel(x)')
                           /\ FewerAnswers(Channel(x), Channel(x)')
    BY <1>0, <1>1, <1>3, PostedAny DEF p
  <1>6. /\ HeldBy(e)' = HeldBy(e) \cup {m}
        /\ \A w \in [Messages -> Nat] : Held(w, e) \in Nat /\ Held(w, e)' = Held(w, e) + w[m]
    BY <1>0, <1>1, <1>3, PostedHeld
  <1>7. \A n \in Nat \ {0} : RequestNo(n)[m] = 0
    BY <1>2, MessageWeightsAre DEF One
  <1>8. \A n : AnswerNo(n)[m] = 0
    BY <1>2, MessageWeightsAre DEF One, Answer
  <1>9. \A k \in Requests : RequestOf(k)[m] = One(k = q)
    BY <1>2, MessageWeightsAre DEF One
  <1>10. RequestsKept(e) /\ AnswersKept(e)
    <2>1. \A n : Held(AnswerNo(n), e)' <= Held(AnswerNo(n), e)
      BY <1>6, <1>8, MessageWeights
    <2>2. QED BY <1>2, <1>6, <2>1, AlikeSelf DEF RequestsKept, AnswersKept, Answer
  <1>11. Owned(e)'
    <2>1. Owned(e) /\ pendingResponses' = pendingResponses
      BY <1>1, <1>3 DEF IInv, ends
    <2>2. QED BY <1>2, <1>4, <1>6, <2>1 DEF Owned, Answer
  <1>12. Numbered(e)'
    <2>1. Numbered(e) /\ pendingResponses' = pendingResponses /\ lastNo' = lastNo
      BY <1>1, <1>3 DEF IInv, ends
    <2>2. \A n \in Nat \ {0} : Held(RequestNo(n), e)' = Held(RequestNo(n), e)
      BY <1>6, <1>7, MessageWeights
    <2>3. QED BY <2>1, <2>2 DEF Numbered
  <1>13. InOnePlace'
    <2>1. ASSUME NEW k \in Requests PROVE Places(k)' = Places(k)
      <3>1. Waits(k)' = Waits(k) /\ outcome'[k] = outcome[k] /\ k.from \in Ends
        BY <1>3, RequestIs DEF Waits, ends
      <3>2. CASE k = q
        <4>1. RequestOf(k) \in [Messages -> Nat] /\ RequestOf(k)[m] = 1
          BY <1>9, <3>2, MessageWeights DEF One
        <4>2. Held(RequestOf(k), k.from)' = Held(RequestOf(k), k.from) + 1 /\ Held(RequestOf(k), k.from) \in Nat
          BY <1>4, <1>6, <3>2, <4>1
        <4>3. One(k \in unsent) = 1 /\ One((k \in unsent)') = 0
          BY <1>3, <3>2 DEF One
        <4>4. Len(outcome[k]) \in Nat /\ One(Waits(k)) \in Nat
          BY <1>0 DEF Typed, One
        <4>5. Places(k)' = One((k \in unsent)') + Held(RequestOf(k), k.from)' + One(Waits(k)) + Len(outcome[k])
          BY <3>1 DEF Places
        <4>6. Places(k) = One(k \in unsent) + Held(RequestOf(k), k.from) + One(Waits(k)) + Len(outcome[k])
          BY DEF Places
        <4> HIDE DEF Places
        <4>7. QED BY <4>2, <4>3, <4>4, <4>5, <4>6
      <3>3. CASE k # q
        <4>1. Held(RequestOf(k), k.from)' = Held(RequestOf(k), k.from)
          <5>1. CASE k.from = e
            <6>1. RequestOf(k) \in [Messages -> Nat] /\ RequestOf(k)[m] = 0
              BY <1>9, <3>3, MessageWeights DEF One
            <6>2. QED BY <1>6, <5>1, <6>1
          <5>2. CASE k.from = p
            BY <1>5, <5>2 DEF Kept, SameHeld
          <5>3. QED BY <1>1, <3>1, <5>1, <5>2
        <4>2. (k \in unsent)' = (k \in unsent)
          BY <1>3, <3>3
        <4>3. QED BY <3>1, <4>1, <4>2 DEF Places
      <3>4. QED BY <3>2, <3>3
    <2>2. InOnePlace
      BY DEF IInv
    <2>3. QED BY <2>1, <2>2 DEF InOnePlace
  <1>14. UNCHANGED <<pendingRequests, pendingResponses, received, lastNo, inbox>>
    BY <1>3 DEF ends
  <1>15. Link(e, p)'
    BY <1>0, <1>1, <1>5, <1>10, <1>14, LinkSame DEF p
  <1>16. Link(p, e)'
    BY <1>0, <1>1, <1>5, <1>10, <1>14, LinkSame
  <1>17. \A x \in Ends : Owned(x)' /\ Numbered(x)' /\ Link(x, Peer(x))'
    BY <1>1, <1>5, <1>11, <1>12, <1>15, <1>16 DEF p
  <1>18. QED BY <1>0, <1>5, <1>13, <1>17 DEF IInv

(* respond() *)
LEMMA RespondStep ==
    ASSUME IInv, NEW e \in Ends, Respond(e)
    PROVE  IInv'
  <1>1. PICK r \in inbox[e] :
           /\ inbox' = [inbox EXCEPT ![e] = @ \ {r}]
           /\ mailbox' = [mailbox EXCEPT ![e] =
                             Append(@, MessageOut(r.about.type, r.no, r.about, r.about.urgent, r.about.response))]
           /\ UNCHANGED <<ends, net, unsent, outcome, faults>>
    BY DEF Respond
  <1> DEFINE p == Peer(e)
             m == MessageOut(r.about.type, r.no, r.about, r.about.urgent, r.about.response)
  <1>0. Typed /\ Typed'
    BY <1>1, TypedRespond DEF IInv
  <1>2. p \in Ends /\ p # e /\ Peer(p) = e /\ \A x \in Ends : x = e \/ x = p
    BY Peers
  <1>3. /\ inbox \in [Ends -> SUBSET [no : Nat \ {0}, about : Requests]]
        /\ inbox[e] \subseteq [no : Nat \ {0}, about : Requests]
    BY <1>0 DEF Typed
  <1>4. r.no \in Nat \ {0} /\ r.about \in Requests
    BY <1>3
  <1>5. /\ m \in Messages /\ Answer(m) /\ m.type # "REQ" /\ m.no = r.no /\ m.about = r.about /\ m.sent = 0
        /\ m.left = m.about.response /\ m.about.response \in Nat
    <2>1. /\ r.about.type \in Types /\ r.about.type \in {"RES", "ERR"} /\ r.about.urgent \in BOOLEAN
          /\ r.about.response \in Nat \ {0} /\ r.no \in Nat
      BY <1>4, RequestIs DEF Types
    <2>2. /\ m \in Messages /\ m.type = r.about.type /\ m.no = r.no /\ m.about = r.about /\ m.left = r.about.response
          /\ m.sent = 0
      BY <1>4, <2>1, MessageOutIs
    <2> HIDE DEF m
    <2>3. QED BY <2>1, <2>2 DEF Answer
  <1>6. Posted(e, m) /\ unsent' = unsent
    BY <1>1, <1>5 DEF Posted
  <1>7. inbox'[e] = inbox[e] \ {r} /\ inbox'[p] = inbox[p]
    BY <1>1, <1>2, <1>3
  <1> HIDE DEF p, m
  <1>8. /\ NoProtocolError' /\ RightOutcomes' /\ NoReopening
        /\ Kept(p) /\ RequestsKept(p) /\ AnswersKept(p) /\ Owned(p)' /\ Numbered(p)'
        /\ \A x \in Ends : /\ ClosedIsEmpty(x)' /\ Channel(x)' = Channel(x)
                           /\ SameRequests(Channel(x), Channel(x)') /\ SameAnswers(Channel(x), Channel(x)')
                           /\ FewerAnswers(Channel(x), Channel(x)')
    BY <1>0, <1>2, <1>6, PostedAny DEF p
  <1>9. /\ HeldBy(e)' = HeldBy(e) \cup {m}
        /\ \A w \in [Messages -> Nat] : Held(w, e) \in Nat /\ Held(w, e)' = Held(w, e) + w[m]
    BY <1>0, <1>6, PostedHeld
  <1>10. UNCHANGED <<pendingRequests, pendingResponses, received, lastNo, state, outcome>>
    BY <1>1 DEF ends
  <1>11. ASSUME NEW w \in [Messages -> Nat], w[m] = 0 PROVE Held(w, e)' = Held(w, e)
    BY <1>9, <1>11
  <1>12. /\ \A n : Held(RequestNo(n), e)' = Held(RequestNo(n), e)
         /\ \A q : Held(RequestOf(q), e)' = Held(RequestOf(q), e)
         /\ \A n : n # r.no => Held(AnswerNo(n), e)' = Held(AnswerNo(n), e)
    <2>1. /\ \A n : RequestNo(n) \in [Messages -> Nat] /\ RequestNo(n)[m] = 0
          /\ \A q : RequestOf(q) \in [Messages -> Nat] /\ RequestOf(q)[m] = 0
          /\ \A n : AnswerNo(n) \in [Messages -> Nat] /\ (n # r.no => AnswerNo(n)[m] = 0)
      BY <1>5, MessageWeights, MessageWeightsAre DEF One
    <2>2. QED BY <1>11, <2>1
  <1>13. Held(AnswerNo(r.no), e)' = Held(AnswerNo(r.no), e) + 1
    <2>1. AnswerNo(r.no) \in [Messages -> Nat] /\ AnswerNo(r.no)[m] = 1
      BY <1>5, MessageWeights, MessageWeightsAre DEF One
    <2>2. QED BY <1>9, <2>1
  <1>14. RequestsKept(e)
    BY <1>5, <1>9, AlikeSelf DEF RequestsKept
  <1>15. Owned(e)'
    <2>1. Owned(e)
      BY DEF IInv
    <2>2. m.no # 0 /\ m.sent + m.left = m.about.response
      BY <1>4, <1>5
    <2>3. QED BY <1>5, <1>9, <1>10, <2>1, <2>2 DEF Owned
  <1>16. Numbered(e)'
    <2>1. Numbered(e)
      BY DEF IInv
    <2>2. QED BY <1>10, <1>12, <2>1 DEF Numbered
  <1>17. InOnePlace'
    <2>1. \A x \in Ends : \A q : Held(RequestOf(q), x)' = Held(RequestOf(q), x)
      BY <1>2, <1>8, <1>12 DEF Kept, SameHeld
    <2>2. ASSUME NEW q \in Requests PROVE Places(q)' = Places(q)
      <3>1. Waits(q)' = Waits(q) /\ q.from \in Ends
        BY <1>10, RequestIs DEF Waits
      <3>2. QED BY <1>6, <1>10, <2>1, <3>1 DEF Places
    <2>3. InOnePlace
      BY DEF IInv
    <2>4. QED BY <2>2, <2>3 DEF InOnePlace
  <1>18. Link(e, p)'
    BY <1>0, <1>2, <1>7, <1>8, <1>10, <1>14, LinkSame DEF p
  <1>19. RequestsArrive(p, e) /\ RequestsGoOn(p, e) /\ OneAnswer(p, e) /\ AnswersMatch(p, e)
    <2>1. Link(p, Peer(p))
      BY <1>2 DEF IInv
    <2>2. QED BY <1>2, <2>1 DEF Link
  <1>20. RequestsArrive(p, e)' /\ RequestsGoOn(p, e)'
    <2>1. lastNo[p] <= lastNo'[p]
      BY <1>0, <1>2, <1>10 DEF Typed
    <2>2. QED BY <1>0, <1>2, <1>8, <1>10, <1>19, <2>1, ArriveSame, GoOnSame
  <1>21. OneAnswer(p, e)'
    <2>1. ASSUME Listening(p)', NEW n \in Nat \ {0}
          PROVE  Answers(p, e, n)' <= One(n \in DOMAIN pendingResponses'[p])
      <3>1. Listening(p)
        BY <1>2, <1>8, <2>1 DEF NoReopening
      <3>2. Answers(p, e, n) <= One(n \in DOMAIN pendingResponses[p])
        BY <1>19, <3>1 DEF OneAnswer
      <3>3. Asked(inbox'[e], n) + Held(AnswerNo(n), e)' <= Asked(inbox[e], n) + Held(AnswerNo(n), e)
        <4>1. Held(AnswerNo(n), e) \in Nat
          BY <1>0, HeldNat
        <4>2. CASE n = r.no
          <5>1. Asked(inbox[e], n) = 1
            BY <4>2 DEF Asked
          <5>2. ASSUME NEW s \in inbox[e], s.no = r.no PROVE s = r
            <6>1. Expects(pendingResponses[p], s.no, s.about) /\ Expects(pendingResponses[p], r.no, r.about)
              BY <1>19, <3>1 DEF AnswersMatch
            <6>2. s.about = r.about
              BY <5>2, <6>1 DEF Expects
            <6>3. s \in [no : Nat \ {0}, about : Requests] /\ r \in [no : Nat \ {0}, about : Requests]
              BY <1>3
            <6>4. QED BY <5>2, <6>2, <6>3
          <5>3. Asked(inbox'[e], n) = 0
            BY <1>7, <4>2, <5>2 DEF Asked
          <5>4. QED BY <1>13, <4>1, <4>2, <5>1, <5>3
        <4>3. CASE n # r.no
          <5>1. Asked(inbox'[e], n) = Asked(inbox[e], n)
            BY <1>7, <4>3 DEF Asked
          <5>2. Asked(inbox[e], n) \in Nat
            BY DEF Asked
          <5>3. QED BY <1>12, <4>1, <4>3, <5>1, <5>2
        <4>4. QED BY <4>2, <4>3
      <3>4. /\ Total(LastOfRequest(n), Channel(p)) \in Nat /\ Total(LastOfAnswer(n), Channel(e)) \in Nat
            /\ Held(AnswerNo(n), e) \in Nat /\ Asked(inbox[e], n) \in {0, 1}
        BY <1>0, <1>2, AnswersAre
      <3>5. Held(AnswerNo(n), e)' \in Nat /\ Asked(inbox'[e], n) \in {0, 1}
        BY <1>0, <1>2, AnswersAre
      <3>6. Answers(p, e, n) = Total(LastOfRequest(n), Channel(p)) + Asked(inbox[e], n) + Held(AnswerNo(n), e)
                               + Total(LastOfAnswer(n), Channel(e))
        BY DEF Answers
      <3>7. Answers(p, e, n)' = Total(LastOfRequest(n), Channel(p)) + Asked(inbox'[e], n) + Held(AnswerNo(n), e)'
                                + Total(LastOfAnswer(n), Channel(e))
        BY <1>2, <1>8 DEF Answers
      <3>8. One(n \in DOMAIN pendingResponses[p]) \in Nat
        BY DEF One
      <3>9. QED BY <1>10, <3>2, <3>3, <3>4, <3>5, <3>6, <3>7, <3>8
    <2>2. QED BY <2>1 DEF OneAnswer
  <1>22. AnswersMatch(p, e)'
    <2> DEFINE c1 == Channel(p)'
               d1 == Channel(e)'
               y == pendingResponses'[p]
    <2> SUFFICES ASSUME Listening(p)'
                 PROVE  /\ \A k \in DOMAIN c1 : c1[k].type = "REQ" /\ ~c1[k].more /\ c1[k].about.reply =>
                              Expects(y, c1[k].no, c1[k].about) /\ Got(y, d1, c1[k].no) = 0
                        /\ \A s \in inbox'[e] : Expects(y, s.no, s.about) /\ Got(y, d1, s.no) = 0
                        /\ \A a \in HeldBy(e)' : Answer(a) =>
                              Expects(y, a.no, a.about) /\ (state'[e] = "open" => Got(y, d1, a.no) = a.sent)
                        /\ \A k \in DOMAIN d1 : Answer(d1[k]) =>
                              /\ Expects(y, d1[k].no, d1[k].about)
                              /\ ~d1[k].more => Got(y, d1, d1[k].no) = d1[k].about.response
                              /\ \A j \in k + 1 .. Len(d1) : Answer(d1[j]) /\ d1[j].no = d1[k].no => d1[k].more
      BY DEF AnswersMatch
    <2>1. Listening(p)
      BY <1>2, <1>8 DEF NoReopening
    <2>2. c1 = Channel(p) /\ d1 = Channel(e) /\ y = pendingResponses[p]
      BY <1>2, <1>8, <1>10
    <2> HIDE DEF c1, d1, y
    <2>3. /\ \A k \in DOMAIN c1 : c1[k].type = "REQ" /\ ~c1[k].more /\ c1[k].about.reply =>
                Expects(y, c1[k].no, c1[k].about) /\ Got(y, d1, c1[k].no) = 0
          /\ \A s \in inbox[e] : Expects(y, s.no, s.about) /\ Got(y, d1, s.no) = 0
          /\ \A a \in HeldBy(e) : Answer(a) =>
                Expects(y, a.no, a.about) /\ (state[e] = "open" => Got(y, d1, a.no) = a.sent)
          /\ \A k \in DOMAIN d1 : Answer(d1[k]) =>
                /\ Expects(y, d1[k].no, d1[k].about)
                /\ ~d1[k].more => Got(y, d1, d1[k].no) = d1[k].about.response
                /\ \A j \in k + 1 .. Len(d1) : Answer(d1[j]) /\ d1[j].no = d1[k].no => d1[k].more
      BY <1>19, <2>1, <2>2 DEF AnswersMatch
    <2>4. ASSUME NEW a, a \in HeldBy(e)', Answer(a)
          PROVE  Expects(y, a.no, a.about) /\ (state[e] = "open" => Got(y, d1, a.no) = a.sent)
      BY <1>5, <1>9, <2>3, <2>4
    <2>5. QED BY <1>7, <1>10, <2>3, <2>4
  <1>23. Link(p, e)'
    BY <1>20, <1>21, <1>22 DEF Link
  <1>24. \A x \in Ends : Owned(x)' /\ Numbered(x)' /\ Link(x, Peer(x))'
    BY <1>2, <1>8, <1>15, <1>16, <1>18, <1>23 DEF p
  <1>25. QED BY <1>0, <1>8, <1>17, <1>24 DEF IInv

(* _queueMessage(), when the connection has closed: the message is dropped *)
(* and the one who waits for a reply is told.                              *)
LEMMA OwnRequestsTotal ==
    ASSUME NEW box \in Seq(Messages), NEW q
    PROVE  /\ q \in OwnRequests(box) => Total(RequestOf(q), box) >= 1
           /\ q \notin OwnRequests(box) => Total(RequestOf(q), box) = 0
           /\ q \in OwnRequests(box) => \E i \in DOMAIN box : box[i].type = "REQ" /\ box[i].about = q
  <1> DEFINE w == RequestOf(q)
  <1>1. w \in [Messages -> Nat] /\ Total(w, box) \in Nat
    BY MessageWeights, TotalIs
  <1>2. \A i \in DOMAIN box : w[box[i]] = One(box[i].type = "REQ" /\ box[i].about = q)
    BY ElementIs, MessageWeightsAre
  <1>3. q \in OwnRequests(box) <=> \E i \in DOMAIN box : box[i].type = "REQ" /\ box[i].about = q
    BY DEF OwnRequests
  <1> HIDE DEF w
  <1>4. ASSUME q \in OwnRequests(box) PROVE Total(w, box) >= 1
    <2>1. PICK i \in DOMAIN box : box[i].type = "REQ" /\ box[i].about = q
      BY <1>3, <1>4
    <2>2. w[box[i]] = 1
      BY <1>2, <2>1 DEF One
    <2>3. w[box[i]] <= Total(w, box)
      BY <1>1, TotalAtLeast
    <2>4. QED BY <1>1, <2>2, <2>3
  <1>5. ASSUME q \notin OwnRequests(box) PROVE Total(w, box) = 0
    <2>1. \A i \in DOMAIN box : w[box[i]] = 0
      BY <1>2, <1>3, <1>5 DEF One
    <2>2. QED BY <1>1, <2>1, TotalZero
  <1>6. QED BY <1>3, <1>4, <1>5 DEF w

ToldOnly(a, b) == \A i \in DOMAIN b : (i \in DOMAIN a /\ b[i] = a[i]) \/ b[i].result = "disconnected"
RightOnly(out) ==
    \A q \in Requests : \A i \in DOMAIN out[q] :
        out[q][i].result = "reply" => out[q][i].to = q /\ out[q][i].bytes = q.response

LEMMA DisconnectedOutcomes ==
    ASSUME NEW out \in [Requests -> Seq(Outcomes)], NEW qs, NEW q \in Requests
    PROVE  /\ Len(out[q]) \in Nat
           /\ Len(Disconnected(out, qs)[q]) = Len(out[q]) + (IF q \in qs /\ q.reply THEN 1 ELSE 0)
           /\ ToldOnly(out[q], Disconnected(out, qs)[q])
  <1> DEFINE r == [result |-> "disconnected"]
  <1>1. Disconnected(out, qs)[q] = IF q \in qs /\ q.reply THEN Append(out[q], r) ELSE out[q]
    BY DisconnectedIs
  <1>2. r \in Outcomes /\ r.result = "disconnected"
    BY DEF Outcomes
  <1> HIDE DEF r
  <1>3. out[q] \in Seq(Outcomes)
    OBVIOUS
  <1>4. /\ Len(Append(out[q], r)) = Len(out[q]) + 1 /\ Len(out[q]) \in Nat
        /\ \A i \in DOMAIN Append(out[q], r) : (i \in DOMAIN out[q] /\ Append(out[q], r)[i] = out[q][i]) \/ Append(out[q], r)[i] = r
    BY <1>2, <1>3, Appended
  <1>5. CASE q \in qs /\ q.reply
    BY <1>1, <1>2, <1>4, <1>5 DEF ToldOnly
  <1>6. CASE ~(q \in qs /\ q.reply)
    BY <1>1, <1>4, <1>6 DEF ToldOnly
  <1>7. QED BY <1>5, <1>6

LEMMA RightDisconnected ==
    ASSUME NEW out \in [Requests -> Seq(Outcomes)], NEW qs, RightOnly(out)
    PROVE  RightOnly(Disconnected(out, qs))
  <1> DEFINE more == Disconnected(out, qs)
  <1>1. \A q \in Requests : ToldOnly(out[q], more[q])
    BY DisconnectedOutcomes
  <1> HIDE DEF more
  <1>2. RightOnly(more)
    BY <1>1 DEF RightOnly, ToldOnly
  <1>3. QED BY <1>2 DEF more

LEMMA QueueMessageDropped ==
    ASSUME IInv, NEW e \in Ends, QueueMessage(e), state[e] \in {"error", "closed"}
    PROVE  IInv'
  <1> DEFINE m == Head(mailbox[e])
             p == Peer(e)
             box == <<m>>
  <1>0. Typed /\ Typed'
    BY TypedQueueMessage DEF IInv
  <1>1. /\ mailbox[e] # << >> /\ mailbox' = [mailbox EXCEPT ![e] = Tail(mailbox[e])]
        /\ outcome' = Disconnected(outcome, OwnRequests(box)) /\ UNCHANGED <<outbox, writing>>
        /\ UNCHANGED <<icebox, writeable, lastNo, received, pendingRequests, pendingResponses, state, net, unsent, inbox,
                       faults>>
    BY DEF QueueMessage
  <1>2. p \in Ends /\ p # e /\ Peer(p) = e /\ \A x \in Ends : x = e \/ x = p
    BY Peers
  <1>3. /\ mailbox \in [Ends -> Seq(Messages)] /\ mailbox[e] \in Seq(Messages) /\ outbox[e] \in Seq(Messages)
        /\ icebox[e] \in Seq(Messages) /\ outcome \in [Requests -> Seq(Outcomes)]
    BY <1>0 DEF Typed
  <1>4. m \in Messages /\ Tail(mailbox[e]) \in Seq(Messages) /\ m \in HeldBy(e)
    <2>1. PICK w : w \in [Messages -> Nat]
      BY MessageWeights
    <2>2. Tail(mailbox[e]) \in Seq(Messages) /\ m \in Messages /\ Range(mailbox[e]) = Range(Tail(mailbox[e])) \cup {m}
      BY <1>1, <1>3, <2>1, TailHeld
    <2>3. QED BY <2>2 DEF HeldBy
  <1>5. \A q : q \in OwnRequests(box) <=> m.type = "REQ" /\ m.about = q
    BY DEF OwnRequests
  <1>6. ASSUME NEW w \in [Messages -> Nat]
        PROVE  Held(w, e) = Held(w, e)' + w[m] /\ Held(w, e)' \in Nat /\ w[m] \in Nat
    <2>1. Total(w, mailbox[e]) = Total(w, Tail(mailbox[e])) + w[m]
      <3> DEFINE b == mailbox[e]
      <3>1. b \in Seq(Messages) /\ b # << >>
        BY <1>1, <1>3
      <3> HIDE DEF b
      <3>2. Total(w, b) = Total(w, Tail(b)) + w[Head(b)]
        BY <3>1, TailHeld
      <3>3. QED BY <3>2 DEF b
    <2>2. w[m] \in Nat /\ Total(w, Tail(mailbox[e])) \in Nat /\ Total(w, outbox[e]) \in Nat /\ Total(w, icebox[e]) \in Nat
      BY <1>3, <1>4, TotalIs
    <2>3. Held(w, e)' = Total(w, mailbox'[e]) + Total(w, outbox'[e]) + Total(w, icebox'[e])
      BY DEF Held
    <2>4. mailbox'[e] = Tail(mailbox[e]) /\ outbox'[e] = outbox[e] /\ icebox'[e] = icebox[e]
      BY <1>1, <1>3
    <2> HIDE DEF m
    <2>5. QED BY <2>1, <2>2, <2>3, <2>4 DEF Held
  <1>7. HeldBy(e)' \subseteq HeldBy(e)
    <2>1. PICK w : w \in [Messages -> Nat]
      BY MessageWeights
    <2>2. Range(mailbox[e]) = Range(Tail(mailbox[e])) \cup {m}
      BY <1>1, <1>3, <2>1, TailHeld
    <2>3. mailbox'[e] = Tail(mailbox[e])
      BY <1>1, <1>3
    <2>4. QED BY <1>1, <2>2, <2>3 DEF HeldBy
  <1> HIDE DEF m, p, box
  <1>8. FewerHeld(e) /\ AlikeHeld(e)
    <2>1. \A w \in [Messages -> Nat] : Held(w, e)' <= Held(w, e)
      BY <1>6
    <2>2. QED BY <1>7, <2>1, AlikeSelf, MessageWeights DEF FewerHeld, AlikeHeld
  <1>9. mailbox'[p] = mailbox[p] /\ outbox'[p] = outbox[p] /\ icebox'[p] = icebox[p]
    BY <1>1, <1>2, <1>3
  <1>10. Kept(p) /\ FewerHeld(p) /\ AlikeHeld(p)
    BY <1>0, <1>2, <1>9, KeptUnchanged, KeptIsFewer DEF Kept
  <1>11. \A x \in Ends : RequestsKept(x) /\ AnswersKept(x) /\ FewerHeld(x) /\ AlikeHeld(x)
    BY <1>2, <1>8, <1>10, FewerKept
  <1>12. NoReopening /\ NoProtocolError'
    BY <1>1 DEF IInv, NoProtocolError, NoReopening, Listening
  <1>13. \A x \in Ends : ClosedIsEmpty(x)'
    BY <1>1 DEF IInv, ClosedIsEmpty, net
  <1>14. ASSUME NEW x \in Ends PROVE Owned(x)' /\ Numbered(x)'
    <2>1. FewerExpected(pendingResponses[x], pendingResponses'[x]) /\ lastNo[x] <= lastNo'[x] /\ Owned(x) /\ Numbered(x)
      BY <1>0, <1>1 DEF FewerExpected, Typed, IInv
    <2>2. QED BY <1>0, <1>11, <2>1, OwnedKept, NumberedKept
  <1>15. ASSUME NEW x \in Ends PROVE Link(x, Peer(x))'
    <2> DEFINE z == Peer(x)
    <2>1. z \in Ends
      BY Peers
    <2>2. SameFrames(Channel(x), Channel(x)') /\ SameFrames(Channel(z), Channel(z)')
      BY <1>0, <1>1, <2>1, ChannelUnchanged DEF net
    <2>3. SameRequests(Channel(x), Channel(x)') /\ SameAnswers(Channel(z), Channel(z)') /\ FewerAnswers(Channel(z), Channel(z)')
      BY <2>2 DEF SameFrames, SameAnswers
    <2>4. /\ inbox'[z] \subseteq inbox[z] /\ pendingResponses'[x] = pendingResponses[x] /\ lastNo'[x] = lastNo[x]
          /\ pendingRequests'[z] = pendingRequests[z] /\ received'[z] = received[z]
      BY <1>1
    <2>5. QED BY <1>0, <1>11, <1>12, <2>1, <2>3, <2>4, LinkSame
  <1>16. RightOutcomes'
    <2>1. RightOnly(outcome)
      BY DEF IInv, RightOutcomes, RightOnly
    <2>2. RightOnly(outcome')
      BY <1>1, <1>3, <2>1, RightDisconnected
    <2>3. QED BY <2>2 DEF RightOutcomes, RightOnly
  <1>17. InOnePlace'
    <2>1. ASSUME NEW q \in Requests
          PROVE  Places(q)' <= Places(q) /\ (q.reply => Places(q)' = Places(q))
      <3> DEFINE w == RequestOf(q)
      <3>1. q.from \in Ends /\ w \in [Messages -> Nat]
        BY RequestIs, MessageWeights
      <3>2. w[m] = One(m.type = "REQ" /\ m.about = q)
        BY <1>4, MessageWeightsAre
      <3>3. m.type = "REQ" /\ m.about = q => q.from = e
        BY <1>4 DEF IInv, Owned
      <3>4. Len(outcome'[q]) = Len(outcome[q]) + (IF q \in OwnRequests(box) /\ q.reply THEN 1 ELSE 0)
        BY <1>1, <1>3, DisconnectedOutcomes
      <3>14. Len(outcome[q]) \in Nat
        BY <1>3, DisconnectedOutcomes
      <3>5. Waits(q)' = Waits(q)
        BY <1>1 DEF Waits
      <3>6. Places(q) = One(q \in unsent) + Held(w, q.from) + One(Waits(q)) + Len(outcome[q])
        BY DEF Places
      <3>7. Places(q)' = One(q \in unsent) + Held(w, q.from)' + One(Waits(q)) + Len(outcome'[q])
        BY <1>1, <3>5 DEF Places
      <3>8. One(q \in unsent) \in Nat /\ One(Waits(q)) \in Nat
        BY DEF One
      <3>9. q.from # e => Held(w, q.from)' = Held(w, q.from) /\ Held(w, q.from) \in Nat
        BY <1>0, <1>2, <1>10, <3>1, HeldNat DEF Kept, SameHeld
      <3>10. Held(w, e) = Held(w, e)' + w[m] /\ Held(w, e)' \in Nat /\ w[m] \in Nat
        BY <1>6, <3>1
      <3> HIDE DEF w
      <3>11. CASE m.type = "REQ" /\ m.about = q
        <4>1. w[m] = 1 /\ q \in OwnRequests(box) /\ q.from = e
          BY <1>5, <3>2, <3>3, <3>11 DEF One
        <4>2. Held(w, q.from) = Held(w, q.from)' + 1 /\ Held(w, q.from)' \in Nat
          BY <3>10, <4>1
        <4>3. CASE q.reply
          <5>1. Len(outcome'[q]) = Len(outcome[q]) + 1
            BY <3>4, <3>14, <4>1, <4>3
          <5>2. Places(q)' = Places(q) /\ Places(q) \in Nat
            BY <3>6, <3>7, <3>8, <3>14, <4>2, <5>1
          <5>3. QED BY <5>2
        <4>4. CASE ~q.reply
          <5>1. Len(outcome'[q]) = Len(outcome[q])
            BY <3>4, <3>14, <4>1, <4>4
          <5>2. Places(q)' <= Places(q)
            BY <3>6, <3>7, <3>8, <3>14, <4>2, <5>1
          <5>3. QED BY <4>4, <5>2
        <4>5. QED BY <4>3, <4>4
      <3>12. CASE ~(m.type = "REQ" /\ m.about = q)
        <4>1. w[m] = 0 /\ q \notin OwnRequests(box)
          BY <1>5, <3>2, <3>12 DEF One
        <4>2. Held(w, q.from)' = Held(w, q.from) /\ Held(w, q.from) \in Nat
          BY <3>1, <3>9, <3>10, <4>1
        <4>3. Len(outcome'[q]) = Len(outcome[q])
          BY <3>4, <3>14, <4>1
        <4>4. Places(q)' = Places(q) /\ Places(q) \in Nat
          BY <3>6, <3>7, <3>8, <3>14, <4>2, <4>3
        <4>5. QED BY <4>4
      <3>13. QED BY <3>11, <3>12
    <2>2. InOnePlace
      BY DEF IInv
    <2>3. ASSUME NEW q \in Requests PROVE Places(q) \in Nat /\ Places(q)' \in Nat
      <3>1. q.from \in Ends
        BY RequestIs
      <3>2. Held(RequestOf(q), q.from) \in Nat /\ Held(RequestOf(q), q.from)' \in Nat
        BY <1>0, <3>1, HeldNat
      <3>3. Len(outcome[q]) \in Nat /\ Len(outcome'[q]) \in Nat
        BY <1>0, SMTT(40) DEF Typed
      <3>4. One(q \in unsent) \in Nat /\ One(Waits(q)) \in Nat /\ One((q \in unsent)') \in Nat /\ One(Waits(q)') \in Nat
        BY DEF One
      <3>5. Places(q) \in Nat
        BY <3>2, <3>3, <3>4 DEF Places
      <3>6. Places(q)' = One((q \in unsent)') + Held(RequestOf(q), q.from)' + One(Waits(q)') + Len(outcome'[q])
        BY DEF Places
      <3>7. QED BY <3>2, <3>3, <3>4, <3>5, <3>6
    <2>4. QED BY <2>1, <2>2, <2>3 DEF InOnePlace
  <1>18. QED BY <1>0, <1>12, <1>13, <1>14, <1>15, <1>16, <1>17 DEF IInv

-----------------------------------------------------------------------------
(* An end that no longer listens expects nothing.                          *)
LEMMA DeafLink ==
    ASSUME IInv, Typed', NoReopening, NEW e \in Ends, NEW p \in Ends, p = Peer(e), ~Listening(e)',
           RequestsArrive(e, p)', RequestsGoOn(e, p)', AnswersKept(e),
           FewerRequests(Channel(p), Channel(p)'), FewerAnswers(Channel(e), Channel(e)'),
           inbox'[e] \subseteq inbox[e], pendingResponses'[p] = pendingResponses[p]
    PROVE  Link(e, p)' /\ Link(p, e)'
  <1>1. Peer(p) = e
    BY Peers
  <1>2. Typed /\ OneAnswer(p, e) /\ AnswersMatch(p, e)
    BY <1>1 DEF IInv, Link
  <1>3. OneAnswer(e, p)' /\ AnswersMatch(e, p)' /\ RequestsArrive(p, e)' /\ RequestsGoOn(p, e)'
    BY DEF OneAnswer, AnswersMatch, RequestsArrive, RequestsGoOn
  <1>4. state'[e] # "open"
    BY DEF Listening
  <1>5. OneAnswer(p, e)'
    BY <1>2, OneAnswerSame
  <1>6. AnswersMatch(p, e)'
    BY <1>2, <1>4, MatchSame
  <1>7. QED BY <1>3, <1>5, <1>6 DEF Link

(* Frames that come after an error are dropped.                            *)
LEMMA OnCloseDropped ==
    ASSUME IInv, NEW e \in Ends, OnClose(e), state[e] \in {"error", "closed"}
    PROVE  IInv'
  <1> DEFINE p == Peer(e)
  <1>0. Typed /\ Typed'
    BY TypedSocket DEF IInv
  <1>1. p \in Ends /\ p # e /\ Peer(p) = e /\ \A x \in Ends : x = e \/ x = p
    BY Peers
  <1>2. /\ wire[Peer(e)] # << >> /\ wire' = [wire EXCEPT ![Peer(e)] = Tail(wire[Peer(e)])]
        /\ UNCHANGED <<ends, mailbox, sock, ready, unsent, inbox, outcome, faults>>
    BY DEF OnClose, Receiving
  <1>3. TookFrame(e)
    BY <1>0, <1>2, TakesFrame
  <1>4. Channel(p) # << >> /\ Channel(p)' = Tail(Channel(p)) /\ Channel(e)' = Channel(e)
    BY <1>2, <1>3 DEF TookFrame
  <1> HIDE DEF p
  <1>5. Channel(e) \in Seq(Frames) /\ Channel(p) \in Seq(Frames)
    BY <1>0, <1>1, TypedChannels
  <1>6. FewerRequests(Channel(p), Channel(p)')
    BY <1>4, <1>5, FrameTaken
  <1>7. SameRequests(Channel(e), Channel(e)') /\ FewerAnswers(Channel(e), Channel(e)')
    BY <1>4, <1>5, UnchangedFrames DEF SameFrames, SameAnswers
  <1>8. NoReopening /\ NoProtocolError' /\ RightOutcomes' /\ ~Listening(e)'
    BY <1>2 DEF IInv, NoProtocolError, NoReopening, Listening, RightOutcomes, ends
  <1>9. \A x \in Ends : ClosedIsEmpty(x)'
    BY <1>2 DEF IInv, ClosedIsEmpty, ends
  <1>10. \A x \in Ends : Kept(x)
    BY <1>2, KeptUnchanged DEF ends
  <1>11. \A x \in Ends : RequestsKept(x) /\ AnswersKept(x) /\ FewerHeld(x) /\ AlikeHeld(x)
    BY <1>0, <1>10, KeptIsFewer DEF Kept
  <1>12. UNCHANGED <<pendingRequests, pendingResponses, received, lastNo, unsent, inbox, outcome>>
    BY <1>2 DEF ends
  <1>13. ASSUME NEW x \in Ends PROVE Owned(x)' /\ Numbered(x)'
    <2>1. FewerExpected(pendingResponses[x], pendingResponses'[x]) /\ lastNo[x] <= lastNo'[x] /\ Owned(x) /\ Numbered(x)
      BY <1>0, <1>12 DEF FewerExpected, Typed, IInv
    <2>2. QED BY <1>0, <1>11, <2>1, OwnedKept, NumberedKept
  <1>14. InOnePlace'
    BY <1>10, <1>12, PlacesKept DEF IInv, Kept
  <1>15. RequestsArrive(e, p)' /\ RequestsGoOn(e, p)'
    <2>1. RequestsArrive(e, p) /\ RequestsGoOn(e, p)
      BY DEF IInv, Link, p
    <2>2. lastNo[e] <= lastNo'[e]
      BY <1>0, <1>12 DEF Typed
    <2>3. QED BY <1>0, <1>1, <1>7, <1>8, <1>11, <1>12, <2>1, <2>2, ArriveSame, GoOnSame
  <1>16. Link(e, p)' /\ Link(p, e)'
    <2>1. inbox'[e] \subseteq inbox[e] /\ pendingResponses'[p] = pendingResponses[p] /\ p = Peer(e)
      BY <1>12 DEF p
    <2>2. QED BY <1>0, <1>1, <1>6, <1>7, <1>8, <1>11, <1>15, <2>1, DeafLink
  <1>17. \A x \in Ends : Link(x, Peer(x))'
    BY <1>1, <1>16 DEF p
  <1>18. QED BY <1>0, <1>8, <1>9, <1>13, <1>14, <1>17 DEF IInv

LEMMA OnCloseStep ==
    ASSUME IInv, NEW e \in Ends, OnClose(e)
    PROVE  IInv'
  <1>1. CASE state[e] \in {"error", "closed"}
    BY <1>1, OnCloseDropped
  <1>2. CASE state[e] \notin {"error", "closed"}
    <2>1. Receiving(e, {"CLOSE"}) /\ UNCHANGED <<ends, mailbox, sock, ready, unsent, inbox, outcome, faults>>
      BY <1>2 DEF OnClose
    <2>2. QED BY <2>1, OnCloseQuiet
  <1>3. QED BY <1>1, <1>2

(* A frame is received: the acknowledgement of it is to be sent, ...       *)
LEMMA AcksKept ==
    ASSUME Typed, NEW e \in Ends, AcksAdded(e), UNCHANGED <<outbox, icebox>>
    PROVE  \A x \in Ends : Kept(x)
  <1>1. CASE mailbox' = mailbox
    BY <1>1, KeptUnchanged
  <1>2. CASE mailbox' # mailbox
    <2>1. PICK a \in Messages : IsAck(a) /\ a.no # 0 /\ mailbox' = [mailbox EXCEPT ![e] = Append(mailbox[e], a)]
      BY <1>2 DEF AcksAdded
    <2>2. mailbox \in [Ends -> Seq(Messages)] /\ mailbox[e] \in Seq(Messages) /\ outbox[e] \in Seq(Messages) /\ icebox[e] \in Seq(Messages)
      BY DEF Typed
    <2>3. mailbox'[e] = Append(mailbox[e], a) /\ \A x \in Ends : x # e => mailbox'[x] = mailbox[x]
      BY <2>1, <2>2
    <2>4. ASSUME NEW w, Counts(w)
          PROVE  Total(w, mailbox'[e]) + Total(w, outbox'[e]) + Total(w, icebox'[e]) =
                 Total(w, mailbox[e]) + Total(w, outbox[e]) + Total(w, icebox[e])
      <3>1. w \in [Messages -> Nat] /\ w[a] = 0
        BY <2>1, <2>4 DEF Counts
      <3>2. Total(w, Append(mailbox[e], a)) = Total(w, mailbox[e]) + w[a]
        BY <2>1, <2>2, <3>1, AppendHeld
      <3>4. Total(w, mailbox[e]) \in Nat
        BY <2>2, <3>1, TotalIs
      <3>3. QED BY <2>3, <3>1, <3>2, <3>4
    <2>5. \A m \in Range(mailbox'[e]) \cup Range(outbox'[e]) \cup Range(icebox'[e]) :
              (IsAck(m) /\ m.no # 0) \/ \E k \in HeldBy(e) : Alike(k, m)
      <3>1. PICK w : w \in [Messages -> Nat]
        BY MessageWeights
      <3>2. Range(Append(mailbox[e], a)) = Range(mailbox[e]) \cup {a}
        <4>1. mailbox[e] \in Seq(Messages) /\ a \in Messages
          BY <2>1, <2>2
        <4>2. QED BY <3>1, <4>1, AppendHeld
      <3>3. QED BY <2>1, <2>3, <3>2, AlikeSelf DEF HeldBy
    <2>6. Kept(e)
      BY <2>4, <2>5, KeptIf
    <2>7. \A x \in Ends : x # e => Kept(x)
      BY <2>3, KeptUnchanged
    <2>8. QED BY <2>6, <2>7
  <1>3. QED BY <1>1, <1>2

(* ... and the connection goes on, ...                                     *)
GoesOn(e, p) ==
    /\ Listening(e) /\ NoReopening
    /\ Channel(p) # << >> /\ Head(Channel(p)) = Frame(e) /\ Channel(p)' = Tail(Channel(p))
    /\ Channel(e)' = Channel(e) /\ SameFrames(Channel(e), Channel(e)')
    /\ \A x \in Ends : ClosedIsEmpty(x)'

LEMMA FrameGoesOn ==
    ASSUME IInv, NEW e \in Ends, NEW p \in Ends, p = Peer(e), NEW types, Receiving(e, types),
           UNCHANGED <<state, sock, outbox, icebox, writing, ready>>, pendingResponses'[p] = pendingResponses[p]
    PROVE  GoesOn(e, p)
  <1>0. Typed
    BY DEF IInv
  <1>1. /\ wire[p] # << >> /\ Listening(e) /\ wire' = [wire EXCEPT ![p] = Tail(wire[p])]
    BY <1>0, ReceivingIs
  <1>2. TookFrame(e)
    BY <1>0, <1>1, TakesFrame
  <1>3. /\ Channel(p) # << >> /\ Head(Channel(p)) = Frame(e) /\ Channel(p)' = Tail(Channel(p))
        /\ Channel(e)' = Channel(e)
    BY <1>2 DEF TookFrame
  <1>4. SameFrames(Channel(e), Channel(e)')
    BY <1>0, <1>3, TypedChannels, UnchangedFrames
  <1>5. NoReopening
    BY DEF NoReopening, Listening
  <1>6. ASSUME NEW x \in Ends PROVE ClosedIsEmpty(x)'
    <2>1. ClosedIsEmpty(x)
      BY DEF IInv
    <2>2. CASE x = e
      BY <1>1, <2>2 DEF ClosedIsEmpty, Listening
    <2>3. CASE x = p
      BY <2>1, <2>3 DEF ClosedIsEmpty
    <2>4. QED BY <2>2, <2>3, Peers
  <1>7. QED BY <1>1, <1>3, <1>4, <1>5, <1>6 DEF GoesOn

(* ... or it is closed with an error.                                      *)
Fails(e, p) ==
    /\ Listening(e) /\ ~Listening(e)' /\ NoReopening
    /\ Channel(p) # << >> /\ Channel(p)' = Tail(Channel(p))
    /\ SameFrames(Channel(e), Channel(e)')
    /\ \A x \in Ends : ClosedIsEmpty(x)'

LEMMA FrameFails ==
    ASSUME IInv, NEW e \in Ends, NEW p \in Ends, p = Peer(e), NEW types, Receiving(e, types),
           CloseWithError(e), UNCHANGED <<outbox, icebox, writing, ready>>, pendingResponses'[p] = pendingResponses[p]
    PROVE  Fails(e, p)
  <1>0. Typed
    BY DEF IInv
  <1>1. /\ wire[p] # << >> /\ Listening(e) /\ wire' = [wire EXCEPT ![p] = Tail(wire[p])]
    BY <1>0, ReceivingIs
  <1>2. /\ state' = [state EXCEPT ![e] = "error"]
        /\ sock' = sock \/ sock' = [sock EXCEPT ![e] = Append(sock[e], CloseFrame)]
    BY <1>0, CloseWithErrorIs
  <1>3. p # e /\ \A x \in Ends : x = e \/ x = p
    BY Peers
  <1>4. sock \in [Ends -> Seq(Frames)] /\ wire \in [Ends -> Seq(Frames)] /\ state \in [Ends -> {"open", "closing", "error", "closed"}]
    BY <1>0 DEF Typed
  <1>5. sock'[p] = sock[p] /\ state'[p] = state[p] /\ state'[e] = "error" /\ wire'[e] = wire[e]
    BY <1>1, <1>2, <1>3, <1>4
  <1>6. TookFrame(e)
    BY <1>0, <1>1, <1>5, TakesFrame
  <1>7. Channel(p) # << >> /\ Channel(p)' = Tail(Channel(p))
    BY <1>6 DEF TookFrame
  <1>8. SameFrames(Channel(e), Channel(e)')
    <2>1. CASE sock' = sock
      BY <1>0, <1>5, <2>1, ChannelUnchanged
    <2>2. CASE sock' = [sock EXCEPT ![e] = Append(sock[e], CloseFrame)]
      <3>1. sock[e] \in Seq(Frames) /\ wire[e] \in Seq(Frames) /\ sock'[e] = Append(sock[e], CloseFrame)
        BY <1>4, <2>2
      <3>2. \A f \in Frames : wire[e] \o Append(sock[e], f) = Append(wire[e] \o sock[e], f)
        BY <3>1, ChannelIs
      <3>3. Channel(e)' = Append(Channel(e), CloseFrame)
        BY <1>5, <3>1, <3>2, CloseFrameQuiet DEF Channel
      <3>4. QED BY <1>0, <3>3, TypedChannels, QuietAppended, CloseFrameQuiet
    <2>3. QED BY <1>2, <2>1, <2>2
  <1>9. ~Listening(e)'
    BY <1>5 DEF Listening
  <1>10. NoReopening
    BY <1>3, <1>5 DEF NoReopening, Listening
  <1>11. ASSUME NEW x \in Ends PROVE ClosedIsEmpty(x)'
    <2>1. ClosedIsEmpty(x)
      BY DEF IInv
    <2>2. CASE x = e
      BY <1>5, <2>2 DEF ClosedIsEmpty
    <2>3. CASE x = p
      BY <1>5, <2>1, <2>3 DEF ClosedIsEmpty
    <2>4. QED BY <1>3, <2>2, <2>3
  <1>12. QED BY <1>1, <1>7, <1>8, <1>9, <1>10, <1>11 DEF Fails

(* A frame of a request is the one to be expected.                         *)
LEMMA Tailed ==
    ASSUME NEW S, NEW c \in Seq(S), c # << >>
    PROVE  LET d == Tail(c)
           IN  /\ DOMAIN c = 1 .. Len(c) /\ Len(c) \in Nat /\ 1 \in DOMAIN c /\ c[1] = Head(c)
               /\ DOMAIN d = 1 .. Len(c) - 1 /\ Len(d) = Len(c) - 1
               /\ \A k \in DOMAIN d : k \in Nat /\ k + 1 \in DOMAIN c /\ d[k] = c[k + 1]
               /\ \A k \in DOMAIN c : k # 1 => k - 1 \in DOMAIN d /\ d[k - 1] = c[k]
  OBVIOUS

RequestExpected(e, p) ==
    LET f == Frame(e)
    IN  /\ f.no \in DOMAIN pendingRequests[e] \/ f.no = received[e] + 1
        /\ f.no \in Nat \ {0} /\ f.no <= lastNo[p]
        /\ RequestPending(e).about = f.about

LEMMA RequestIsExpected ==
    ASSUME IInv, NEW e \in Ends, NEW p \in Ends, p = Peer(e), OnRequest(e), Listening(e),
           Channel(p) # << >>, Head(Channel(p)) = Frame(e)
    PROVE  RequestExpected(e, p)
  <1> DEFINE c == Channel(p)
             f == Frame(e)
  <1>0. Typed
    BY DEF IInv
  <1>1. Peer(p) = e
    BY Peers
  <1>2. RequestsArrive(p, e)
    BY <1>1 DEF IInv, Link
  <1>3. f \in DataFrames /\ f.type = "REQ"
    BY <1>0, OnRequestIs
  <1>4. c \in Seq(Frames) /\ received[e] \in Nat /\ lastNo[p] \in Nat
    BY <1>0, TypedChannels DEF Typed
  <1>5. 1 \in DOMAIN c /\ c[1] = f
    BY <1>4, Tailed
  <1>6. \A k \in DOMAIN c : c[k].type = "REQ" =>
           /\ c[k].no \in 1 .. lastNo[p]
           /\ \A n \in Nat : received[e] < n /\ n < c[k].no => \E j \in 1 .. k - 1 : IsFrame(c, j, n)
           /\ c[k].no <= received[e] => c[k].no \in DOMAIN pendingRequests[e]
           /\ c[k].no \in DOMAIN pendingRequests[e] => pendingRequests[e][c[k].no].about = c[k].about
    BY <1>2 DEF RequestsArrive
  <1> HIDE DEF c, f
  <1>7. /\ f.no \in 1 .. lastNo[p]
        /\ \A n \in Nat : received[e] < n /\ n < f.no => \E j \in 1 .. 1 - 1 : IsFrame(c, j, n)
        /\ f.no <= received[e] => f.no \in DOMAIN pendingRequests[e]
        /\ f.no \in DOMAIN pendingRequests[e] => pendingRequests[e][f.no].about = f.about
    BY <1>3, <1>5, <1>6
  <1>8. f.no \in Nat \ {0} /\ f.no <= lastNo[p]
    BY <1>4, <1>7
  <1>9. f.no \in DOMAIN pendingRequests[e] \/ f.no = received[e] + 1
    <2>1. ~(received[e] < received[e] + 1 /\ received[e] + 1 < f.no)
      BY <1>4, <1>7
    <2>2. QED BY <1>4, <1>7, <1>8, <2>1
  <1>10. RequestPending(e).about = f.about
    BY <1>7 DEF RequestPending, NewPending, f
  <1>11. QED BY <1>8, <1>9, <1>10 DEF RequestExpected, f

(* What is taken of it *)
RequestKept(e, x, y, r, s) ==
    LET f == Frame(e)
    IN  /\ IsPending(x) /\ r \in Nat /\ s \in Nat
        /\ \/ f.no \in DOMAIN x /\ s = r
           \/ f.no \notin DOMAIN x /\ s = f.no /\ f.no = r + 1
        /\ f.more => DOMAIN y = DOMAIN x \cup {f.no} /\ y[f.no].about = f.about
        /\ ~f.more => DOMAIN y = DOMAIN x \ {f.no}
        /\ \A k \in DOMAIN y : k # f.no => y[k] = x[k]

LEMMA RequestIsKept ==
    ASSUME IInv, NEW e \in Ends, NEW p \in Ends, OnRequest(e), RequestTaken(e), RequestExpected(e, p),
           pendingRequests' = [pendingRequests EXCEPT ![e] =
                                  Keep(pendingRequests[e], Frame(e), Accept(RequestPending(e), Frame(e)))]
    PROVE  RequestKept(e, pendingRequests[e], pendingRequests'[e], received[e], received'[e])
  <1> DEFINE f == Frame(e)
             x == pendingRequests[e]
             y == pendingRequests'[e]
             a == Accept(RequestPending(e), f)
  <1>0. Typed
    BY DEF IInv
  <1>1. f \in DataFrames /\ RequestPending(e) \in Pendings
    BY <1>0, OnRequestIs
  <1>2. a \in Pendings /\ a.about = f.about
    BY <1>1, AcceptIs DEF RequestExpected
  <1>3. IsPending(x) /\ y = Keep(x, f, a) /\ f.no \in Nat \ {0}
    <2>1. DOMAIN pendingRequests = Ends /\ IsPending(x)
      BY <1>0 DEF Typed
    <2>2. f.no \in Nat \ {0}
      BY <1>1 DEF DataFrames
    <2>3. pendingRequests' = [pendingRequests EXCEPT ![e] = Keep(x, f, a)]
      OBVIOUS
    <2> HIDE DEF a, f, x
    <2>4. QED BY <2>1, <2>2, <2>3
  <1> HIDE DEF a
  <1>4. /\ f.more => DOMAIN y = DOMAIN x \cup {f.no} /\ y[f.no].about = f.about
        /\ ~f.more => DOMAIN y = DOMAIN x \ {f.no}
        /\ \A k \in DOMAIN y : k # f.no => y[k] = x[k]
    BY <1>2, <1>3 DEF Keep, With, Without
  <1>5. received \in [Ends -> Nat] /\ received' = (IF f.no \in DOMAIN x THEN received ELSE [received EXCEPT ![e] = f.no])
    BY <1>0 DEF Typed, RequestTaken
  <1>6. f.no \in DOMAIN x \/ f.no = received[e] + 1
    BY DEF RequestExpected
  <1> HIDE DEF x, y, f
  <1>7. /\ received[e] \in Nat /\ received'[e] \in Nat
        /\ \/ f.no \in DOMAIN x /\ received'[e] = received[e]
           \/ f.no \notin DOMAIN x /\ received'[e] = f.no /\ f.no = received[e] + 1
    <2>1. CASE f.no \in DOMAIN x
      <3>1. received' = received
        BY <1>5, <2>1
      <3>2. received'[e] = received[e] /\ received[e] \in Nat
        BY <1>5, <3>1
      <3>3. QED BY <2>1, <3>2
    <2>2. CASE f.no \notin DOMAIN x
      <3>1. received' = [received EXCEPT ![e] = f.no]
        BY <1>5, <2>2
      <3>2. received'[e] = f.no /\ received[e] \in Nat
        BY <1>5, <3>1
      <3>3. QED BY <1>3, <1>6, <2>2, <3>2
    <2>3. QED BY <2>1, <2>2
  <1>8. QED BY <1>3, <1>4, <1>7 DEF RequestKept, x, y, f

(* The frames that come after it are the next to be expected.              *)
LEMMA RequestArrives ==
    ASSUME IInv, Typed', NEW e \in Ends, NEW p \in Ends, p = Peer(e), GoesOn(e, p), Frame(e).type = "REQ",
           RequestExpected(e, p), RequestKept(e, pendingRequests[e], pendingRequests'[e], received[e], received'[e]),
           lastNo'[p] = lastNo[p]
    PROVE  RequestsArrive(p, e)'
  <1> DEFINE c == Channel(p)
             d == Channel(p)'
             f == Frame(e)
             x == pendingRequests[e]
             y == pendingRequests'[e]
             r == received[e]
             s == received'[e]
  <1>0. Typed /\ Peer(p) = e
    BY Peers DEF IInv
  <1>1. RequestsArrive(p, e)
    BY <1>0 DEF IInv, Link
  <1>2. c \in Seq(Frames) /\ c # << >> /\ Head(c) = f /\ d = Tail(c) /\ Listening(e)
    BY <1>0, TypedChannels DEF GoesOn
  <1>3. /\ DOMAIN c = 1 .. Len(c) /\ Len(c) \in Nat /\ 1 \in DOMAIN c /\ c[1] = f
        /\ DOMAIN d = 1 .. Len(c) - 1 /\ Len(d) = Len(c) - 1
        /\ \A k \in DOMAIN d : k \in Nat /\ k + 1 \in DOMAIN c /\ d[k] = c[k + 1]
        /\ \A k \in DOMAIN c : k # 1 => k - 1 \in DOMAIN d /\ d[k - 1] = c[k]
    BY <1>2, Tailed
  <1>4. /\ DOMAIN x \subseteq 1 .. r
        /\ \A k \in DOMAIN c : c[k].type = "REQ" =>
              /\ c[k].no \in 1 .. lastNo[p]
              /\ \A n \in Nat : r < n /\ n < c[k].no => \E j \in 1 .. k - 1 : IsFrame(c, j, n)
              /\ c[k].no <= r => c[k].no \in DOMAIN x
              /\ c[k].no \in DOMAIN x => x[c[k].no].about = c[k].about
              /\ \A j \in k + 1 .. Len(c) : IsFrame(c, j, c[k].no) => c[k].more /\ c[j].about = c[k].about
    BY <1>1, <1>2 DEF RequestsArrive
  <1>5. /\ r \in Nat /\ s \in Nat /\ f.no \in Nat \ {0} /\ f.type = "REQ"
        /\ \/ f.no \in DOMAIN x /\ s = r
           \/ f.no \notin DOMAIN x /\ s = f.no /\ f.no = r + 1
        /\ f.more => DOMAIN y = DOMAIN x \cup {f.no} /\ y[f.no].about = f.about
        /\ ~f.more => DOMAIN y = DOMAIN x \ {f.no}
        /\ \A k \in DOMAIN y : k # f.no => y[k] = x[k]
    BY DEF RequestKept, RequestExpected
  <1>6. lastNo[p] \in Nat
    BY <1>0 DEF Typed
  <1> SUFFICES /\ DOMAIN y \subseteq 1 .. s
               /\ \A k \in DOMAIN d : d[k].type = "REQ" =>
                     /\ d[k].no \in 1 .. lastNo'[p]
                     /\ \A n \in Nat : s < n /\ n < d[k].no => \E j \in 1 .. k - 1 : IsFrame(d, j, n)
                     /\ d[k].no <= s => d[k].no \in DOMAIN y
                     /\ d[k].no \in DOMAIN y => y[d[k].no].about = d[k].about
                     /\ \A j \in k + 1 .. Len(d) : IsFrame(d, j, d[k].no) => d[k].more /\ d[j].about = d[k].about
    BY DEF RequestsArrive
  <1> HIDE DEF c, d, f, x, y, r, s
  <1>7. f.no <= s /\ r <= s /\ (\A n \in Nat : n <= s /\ n # f.no => n <= r)
    BY <1>4, <1>5
  <1>8. DOMAIN y \subseteq 1 .. s
    BY <1>4, <1>5, <1>7
  <1>9. ASSUME NEW k \in DOMAIN d, d[k].type = "REQ"
        PROVE  /\ d[k].no \in 1 .. lastNo'[p]
               /\ \A n \in Nat : s < n /\ n < d[k].no => \E j \in 1 .. k - 1 : IsFrame(d, j, n)
               /\ d[k].no <= s => d[k].no \in DOMAIN y
               /\ d[k].no \in DOMAIN y => y[d[k].no].about = d[k].about
               /\ \A j \in k + 1 .. Len(d) : IsFrame(d, j, d[k].no) => d[k].more /\ d[j].about = d[k].about
    <2>1. k \in Nat /\ k + 1 \in DOMAIN c /\ d[k] = c[k + 1]
      BY <1>3, <1>9
    <2>2. /\ d[k].no \in 1 .. lastNo[p]
          /\ \A n \in Nat : r < n /\ n < d[k].no => \E j \in 1 .. (k + 1) - 1 : IsFrame(c, j, n)
          /\ d[k].no <= r => d[k].no \in DOMAIN x
          /\ d[k].no \in DOMAIN x => x[d[k].no].about = d[k].about
          /\ \A j \in (k + 1) + 1 .. Len(c) : IsFrame(c, j, d[k].no) => d[k].more /\ c[j].about = d[k].about
      BY <1>4, <1>9, <2>1
    <2>3. d[k].no = f.no => f.more /\ d[k].about = f.about
      <3>1. k + 1 \in 1 + 1 .. Len(c)
        BY <1>3, <2>1
      <3>2. d[k].no = f.no => IsFrame(c, k + 1, c[1].no)
        BY <1>3, <1>9, <2>1 DEF IsFrame
      <3>3. \A j \in 1 + 1 .. Len(c) : IsFrame(c, j, c[1].no) => c[1].more /\ c[j].about = c[1].about
        BY <1>3, <1>4, <1>5
      <3>4. QED BY <1>3, <2>1, <3>1, <3>2, <3>3
    <2>4. ASSUME NEW n \in Nat, s < n, n < d[k].no PROVE \E j \in 1 .. k - 1 : IsFrame(d, j, n)
      <3>1. PICK j \in 1 .. (k + 1) - 1 : IsFrame(c, j, n)
        BY <1>5, <1>7, <2>2, <2>4
      <3>2. j # 1
        BY <1>3, <1>5, <1>7, <2>4, <3>1 DEF IsFrame
      <3>3. j \in DOMAIN c /\ j - 1 \in DOMAIN d /\ d[j - 1] = c[j] /\ j - 1 \in 1 .. k - 1
        BY <1>3, <2>1, <3>1, <3>2 DEF IsFrame
      <3>4. IsFrame(d, j - 1, n)
        BY <3>1, <3>3 DEF IsFrame
      <3>5. QED BY <3>3, <3>4
    <2>5. d[k].no <= s => d[k].no \in DOMAIN y
      <3>1. CASE d[k].no = f.no
        BY <1>5, <2>3, <3>1
      <3>2. CASE d[k].no # f.no
        <4>1. d[k].no <= s => d[k].no \in DOMAIN x
          BY <1>6, <1>7, <2>2, <3>2
        <4>2. QED BY <1>5, <3>2, <4>1
      <3>3. QED BY <3>1, <3>2
    <2>6. d[k].no \in DOMAIN y => y[d[k].no].about = d[k].about
      <3>1. CASE d[k].no = f.no
        BY <1>5, <2>3, <3>1
      <3>2. CASE d[k].no # f.no
        BY <1>5, <2>2, <3>2
      <3>3. QED BY <3>1, <3>2
    <2>7. ASSUME NEW j \in k + 1 .. Len(d), IsFrame(d, j, d[k].no) PROVE d[k].more /\ d[j].about = d[k].about
      <3>1. j \in DOMAIN d /\ j + 1 \in DOMAIN c /\ d[j] = c[j + 1] /\ j + 1 \in (k + 1) + 1 .. Len(c)
        BY <1>3, <2>1, <2>7 DEF IsFrame
      <3>2. IsFrame(c, j + 1, d[k].no)
        BY <2>7, <3>1 DEF IsFrame
      <3>3. QED BY <2>2, <3>1, <3>2
    <2>8. d[k].no \in 1 .. lastNo'[p]
      BY <2>2
    <2>9. QED BY <2>4, <2>5, <2>6, <2>7, <2>8
  <1>10. QED BY <1>8, <1>9

LEMMA RequestGoesOn ==
    ASSUME IInv, Typed', NEW e \in Ends, NEW p \in Ends, p = Peer(e), GoesOn(e, p), Frame(e).type = "REQ",
           RequestExpected(e, p), RequestKept(e, pendingRequests[e], pendingRequests'[e], received[e], received'[e]),
           lastNo'[p] = lastNo[p], RequestsKept(p)
    PROVE  RequestsGoOn(p, e)'
  <1> DEFINE c == Channel(p)
             d == Channel(p)'
             f == Frame(e)
             x == pendingRequests[e]
             y == pendingRequests'[e]
             r == received[e]
             s == received'[e]
  <1>0. Typed /\ Peer(p) = e
    BY Peers DEF IInv
  <1>1. RequestsGoOn(p, e) /\ RequestsArrive(p, e)
    BY <1>0 DEF IInv, Link
  <1>2. c \in Seq(Frames) /\ c # << >> /\ Head(c) = f /\ d = Tail(c) /\ Listening(e) /\ NoReopening
    BY <1>0, TypedChannels DEF GoesOn
  <1>3. /\ DOMAIN c = 1 .. Len(c) /\ Len(c) \in Nat /\ 1 \in DOMAIN c /\ c[1] = f
        /\ \A k \in DOMAIN d : k \in Nat /\ k + 1 \in DOMAIN c /\ d[k] = c[k + 1]
        /\ \A k \in DOMAIN c : k # 1 => k - 1 \in DOMAIN d /\ d[k - 1] = c[k]
    BY <1>2, Tailed
  <1>4. /\ r \in Nat /\ s \in Nat /\ f.no \in Nat \ {0} /\ f.type = "REQ" /\ f.no <= lastNo[p]
        /\ \/ f.no \in DOMAIN x /\ s = r
           \/ f.no \notin DOMAIN x /\ s = f.no /\ f.no = r + 1
        /\ f.more => DOMAIN y = DOMAIN x \cup {f.no} /\ y[f.no].about = f.about
        /\ ~f.more => DOMAIN y = DOMAIN x \ {f.no}
        /\ \A k \in DOMAIN y : k # f.no => y[k] = x[k]
    BY DEF RequestKept, RequestExpected
  <1>5. lastNo[p] \in Nat /\ DOMAIN x \subseteq 1 .. r
    BY <1>0, <1>1, <1>2 DEF Typed, RequestsArrive
  <1> SUFFICES ASSUME state'[p] = "open"
               PROVE  /\ s <= lastNo'[p]
                      /\ \A n \in Nat : s < n /\ n <= lastNo'[p] => \E k \in DOMAIN d : IsFrame(d, k, n)
                      /\ \A m \in HeldBy(p)' : m.type = "REQ" /\ m.no # 0 =>
                            /\ m.no <= s => m.no \in DOMAIN y
                            /\ m.no \in DOMAIN y => y[m.no].about = m.about
                            /\ \A k \in DOMAIN d : IsFrame(d, k, m.no) => d[k].more /\ d[k].about = m.about
    BY DEF RequestsGoOn
  <1>6. state[p] = "open"
    BY <1>2 DEF NoReopening
  <1>7. /\ r <= lastNo[p]
        /\ \A n \in Nat : r < n /\ n <= lastNo[p] => \E k \in DOMAIN c : IsFrame(c, k, n)
        /\ \A m \in HeldBy(p) : m.type = "REQ" /\ m.no # 0 =>
              /\ m.no <= r => m.no \in DOMAIN x
              /\ m.no \in DOMAIN x => x[m.no].about = m.about
              /\ \A k \in DOMAIN c : IsFrame(c, k, m.no) => c[k].more /\ c[k].about = m.about
    BY <1>1, <1>2, <1>6 DEF RequestsGoOn
  <1>8. HeldBy(p) \subseteq Messages
    <2>1. PICK w : w \in [Messages -> Nat]
      BY MessageWeights
    <2>2. mailbox[p] \in Seq(Messages) /\ outbox[p] \in Seq(Messages) /\ icebox[p] \in Seq(Messages)
      BY <1>0 DEF Typed
    <2>3. QED BY <2>1, <2>2, HeldIs DEF HeldBy
  <1> HIDE DEF c, d, f, x, y, r, s
  <1>9. f.no <= s /\ r <= s /\ (\A n \in Nat : n <= s /\ n # f.no => n <= r)
    BY <1>4, <1>5
  <1>10. s <= lastNo'[p]
    BY <1>4, <1>7
  <1>11. ASSUME NEW n \in Nat, s < n, n <= lastNo'[p] PROVE \E k \in DOMAIN d : IsFrame(d, k, n)
    <2>1. PICK k \in DOMAIN c : IsFrame(c, k, n)
      BY <1>4, <1>7, <1>9, <1>11
    <2>2. k # 1
      BY <1>3, <1>4, <1>9, <1>11, <2>1 DEF IsFrame
    <2>3. k - 1 \in DOMAIN d /\ d[k - 1] = c[k]
      BY <1>3, <2>1, <2>2
    <2>4. IsFrame(d, k - 1, n)
      BY <2>1, <2>3 DEF IsFrame
    <2>5. QED BY <2>3, <2>4
  <1>12. ASSUME NEW m, m \in HeldBy(p)', m.type = "REQ", m.no # 0
         PROVE  /\ m.no <= s => m.no \in DOMAIN y
                /\ m.no \in DOMAIN y => y[m.no].about = m.about
                /\ \A k \in DOMAIN d : IsFrame(d, k, m.no) => d[k].more /\ d[k].about = m.about
    <2>1. PICK h \in HeldBy(p) : Alike(h, m)
      BY <1>12 DEF RequestsKept
    <2>2. h.type = "REQ" /\ h.no = m.no /\ h.about = m.about
      BY <1>12, <2>1 DEF Alike
    <2>3. m.no \in Nat
      BY <1>8, <2>1, <2>2 DEF Messages
    <2>4. /\ m.no <= r => m.no \in DOMAIN x
          /\ m.no \in DOMAIN x => x[m.no].about = m.about
          /\ \A k \in DOMAIN c : IsFrame(c, k, m.no) => c[k].more /\ c[k].about = m.about
      BY <1>7, <1>12, <2>1, <2>2
    <2>5. m.no = f.no => f.more /\ f.about = m.about
      BY <1>3, <1>4, <2>4 DEF IsFrame
    <2>6. \A k \in DOMAIN d : IsFrame(d, k, m.no) => d[k].more /\ d[k].about = m.about
      BY <1>3, <2>4 DEF IsFrame
    <2>7. CASE m.no = f.no
      BY <1>4, <2>5, <2>6, <2>7
    <2>8. CASE m.no # f.no
      <3>1. m.no <= s => m.no \in DOMAIN x
        BY <1>9, <2>3, <2>4, <2>8
      <3>2. QED BY <1>4, <2>4, <2>6, <2>8, <3>1
    <2>9. QED BY <2>7, <2>8
  <1>13. QED BY <1>10, <1>11, <1>12

(* A complete request is to be answered.                                   *)
Handed(e, box) ==
    LET f == Frame(e)
    IN  IF ~f.more /\ f.about.reply THEN box \cup {[no |-> f.no, about |-> f.about]} ELSE box

LEMMA RequestAsks ==
    ASSUME IInv, Typed', NEW e \in Ends, NEW p \in Ends, p = Peer(e), GoesOn(e, p), Frame(e) \in DataFrames,
           Frame(e).type = "REQ", inbox'[e] = Handed(e, inbox[e]), AnswersKept(e),
           pendingResponses'[p] = pendingResponses[p]
    PROVE  OneAnswer(p, e)'
  <1> DEFINE c == Channel(p)
             f == Frame(e)
  <1>0. Typed /\ Peer(p) = e
    BY Peers DEF IInv
  <1>1. OneAnswer(p, e)
    BY <1>0 DEF IInv, Link
  <1>2. c \in Seq(Frames) /\ c # << >> /\ Head(c) = f /\ Channel(p)' = Tail(c) /\ Channel(e)' = Channel(e) /\ NoReopening
    BY <1>0, TypedChannels DEF GoesOn
  <1>3. f \in Frames
    BY DEF Frames
  <1>4. ASSUME Listening(p)', NEW n \in Nat \ {0} PROVE Answers(p, e, n)' <= One(n \in DOMAIN pendingResponses'[p])
    <2> DEFINE w == LastOfRequest(n)
               t == [no |-> f.no, about |-> f.about]
    <2>1. Listening(p)
      BY <1>2, <1>4 DEF NoReopening
    <2>2. Answers(p, e, n) <= One(n \in DOMAIN pendingResponses[p])
      BY <1>1, <2>1 DEF OneAnswer
    <2>3. w \in [Frames -> Nat] /\ w[f] = One(f.type = "REQ" /\ f.no = n /\ ~f.more /\ f.about.reply)
      BY <1>3, FrameWeights, FrameWeightsAre
    <2>4. t.no = f.no
      OBVIOUS
    <2>5. inbox'[e] = IF ~f.more /\ f.about.reply THEN inbox[e] \cup {t} ELSE inbox[e]
      BY DEF Handed
    <2>6. Total(w, c) \in Nat /\ Total(w, Channel(p)') \in Nat
      BY <1>0, AnswersAre
    <2> HIDE DEF w, t, c, f
    <2>7. Total(w, c) = Total(w, Channel(p)') + w[f]
      BY <1>2, <2>3, TotalTail
    <2>8. Asked(inbox'[e], n) <= Asked(inbox[e], n) + w[f]
      <3>1. CASE f.no = n /\ ~f.more /\ f.about.reply
        <4>1. w[f] = 1
          BY <2>3, <3>1 DEF One, f
        <4>2. QED BY <4>1 DEF Asked
      <3>2. CASE ~(f.no = n /\ ~f.more /\ f.about.reply)
        <4>1. w[f] = 0
          BY <2>3, <3>2 DEF One, f
        <4>2. Asked(inbox'[e], n) = Asked(inbox[e], n)
          BY <2>4, <2>5, <3>2 DEF Asked
        <4>3. QED BY <4>1, <4>2 DEF Asked
      <3>3. QED BY <3>1, <3>2
    <2>9. Held(AnswerNo(n), e)' <= Held(AnswerNo(n), e)
      BY DEF AnswersKept
    <2>10. /\ Held(AnswerNo(n), e) \in Nat /\ Held(AnswerNo(n), e)' \in Nat /\ Total(LastOfAnswer(n), Channel(e)) \in Nat
           /\ Asked(inbox[e], n) \in {0, 1} /\ Asked(inbox'[e], n) \in {0, 1}
      BY <1>0, AnswersAre
    <2>11. Answers(p, e, n) = Total(w, c) + Asked(inbox[e], n) + Held(AnswerNo(n), e) + Total(LastOfAnswer(n), Channel(e))
      BY DEF Answers, w, c
    <2>12. Answers(p, e, n)' = Total(w, Channel(p)') + Asked(inbox'[e], n) + Held(AnswerNo(n), e)' + Total(LastOfAnswer(n), Channel(e))
      BY <1>2 DEF Answers, w
    <2>13. One(n \in DOMAIN pendingResponses[p]) \in Nat
      BY DEF One
    <2>14. w[f] \in Nat
      BY <1>3, <2>3 DEF f
    <2>15. QED BY <2>2, <2>6, <2>7, <2>8, <2>9, <2>10, <2>11, <2>12, <2>13, <2>14
  <1>5. QED BY <1>4 DEF OneAnswer

LEMMA RequestMatches ==
    ASSUME IInv, Typed', NEW e \in Ends, NEW p \in Ends, p = Peer(e), GoesOn(e, p), Frame(e) \in DataFrames,
           Frame(e).type = "REQ", inbox'[e] = Handed(e, inbox[e]), AnswersKept(e),
           pendingResponses'[p] = pendingResponses[p], state' = state
    PROVE  AnswersMatch(p, e)'
  <1> DEFINE c == Channel(p)
             c1 == Channel(p)'
             d1 == Channel(e)'
             f == Frame(e)
             x == pendingResponses[p]
             y == pendingResponses'[p]
  <1>0. Typed /\ Peer(p) = e
    BY Peers DEF IInv
  <1>1. AnswersMatch(p, e)
    BY <1>0 DEF IInv, Link
  <1>2. /\ c \in Seq(Frames) /\ c # << >> /\ Head(c) = f /\ c1 = Tail(c) /\ d1 = Channel(e) /\ y = x /\ NoReopening
        /\ state'[e] = state[e]
    BY <1>0, TypedChannels DEF GoesOn
  <1>3. /\ 1 \in DOMAIN c /\ c[1] = f
        /\ \A k \in DOMAIN c1 : k + 1 \in DOMAIN c /\ c1[k] = c[k + 1]
    BY <1>2, Tailed
  <1> SUFFICES ASSUME Listening(p)'
               PROVE  /\ \A k \in DOMAIN c1 : c1[k].type = "REQ" /\ ~c1[k].more /\ c1[k].about.reply =>
                            Expects(y, c1[k].no, c1[k].about) /\ Got(y, d1, c1[k].no) = 0
                      /\ \A r \in inbox'[e] : Expects(y, r.no, r.about) /\ Got(y, d1, r.no) = 0
                      /\ \A m \in HeldBy(e)' : Answer(m) =>
                            Expects(y, m.no, m.about) /\ (state'[e] = "open" => Got(y, d1, m.no) = m.sent)
                      /\ \A k \in DOMAIN d1 : Answer(d1[k]) =>
                            /\ Expects(y, d1[k].no, d1[k].about)
                            /\ ~d1[k].more => Got(y, d1, d1[k].no) = d1[k].about.response
                            /\ \A j \in k + 1 .. Len(d1) : Answer(d1[j]) /\ d1[j].no = d1[k].no => d1[k].more
    BY DEF AnswersMatch
  <1>4. Listening(p)
    BY <1>2 DEF NoReopening
  <1> DEFINE t == [no |-> f.no, about |-> f.about]
  <1>5. t.no = f.no /\ t.about = f.about
    OBVIOUS
  <1>6. inbox'[e] = IF ~f.more /\ f.about.reply THEN inbox[e] \cup {t} ELSE inbox[e]
    BY DEF Handed
  <1>7. f.type = "REQ"
    OBVIOUS
  <1> HIDE DEF c, c1, d1, f, x, y, t
  <1>8. /\ \A k \in DOMAIN c : c[k].type = "REQ" /\ ~c[k].more /\ c[k].about.reply =>
              Expects(y, c[k].no, c[k].about) /\ Got(y, d1, c[k].no) = 0
        /\ \A r \in inbox[e] : Expects(y, r.no, r.about) /\ Got(y, d1, r.no) = 0
        /\ \A m \in HeldBy(e) : Answer(m) =>
              Expects(y, m.no, m.about) /\ (state[e] = "open" => Got(y, d1, m.no) = m.sent)
        /\ \A k \in DOMAIN d1 : Answer(d1[k]) =>
              /\ Expects(y, d1[k].no, d1[k].about)
              /\ ~d1[k].more => Got(y, d1, d1[k].no) = d1[k].about.response
              /\ \A j \in k + 1 .. Len(d1) : Answer(d1[j]) /\ d1[j].no = d1[k].no => d1[k].more
    BY <1>1, <1>2, <1>4 DEF AnswersMatch, c, x
  <1>9. \A k \in DOMAIN c1 : c1[k].type = "REQ" /\ ~c1[k].more /\ c1[k].about.reply =>
           Expects(y, c1[k].no, c1[k].about) /\ Got(y, d1, c1[k].no) = 0
    BY <1>3, <1>8
  <1>10. ~f.more /\ f.about.reply => Expects(y, t.no, t.about) /\ Got(y, d1, t.no) = 0
    BY <1>3, <1>5, <1>7, <1>8
  <1>11. \A r \in inbox'[e] : Expects(y, r.no, r.about) /\ Got(y, d1, r.no) = 0
    <2>1. \A r \in inbox'[e] : r \in inbox[e] \/ (r = t /\ ~f.more /\ f.about.reply)
      BY <1>6
    <2>2. QED BY <1>8, <1>10, <2>1
  <1>12. ASSUME NEW m, m \in HeldBy(e)', Answer(m)
         PROVE  Expects(y, m.no, m.about) /\ (state'[e] = "open" => Got(y, d1, m.no) = m.sent)
    <2>1. PICK h \in HeldBy(e) : Alike(h, m)
      BY <1>12 DEF AnswersKept
    <2>2. Answer(h) /\ h.no = m.no /\ h.about = m.about /\ h.sent = m.sent
      BY <1>12, <2>1 DEF Alike, Answer
    <2>3. QED BY <1>2, <1>8, <2>2
  <1>13. QED BY <1>8, <1>9, <1>11, <1>12

(* What a frame that is received leaves alone, whatever it is              *)
ReceivedOnly(e) ==
    /\ AcksAdded(e)
    /\ UNCHANGED <<outbox, icebox, lastNo, unsent>>

LEMMA ReceivedAny ==
    ASSUME Typed, NEW e \in Ends, ReceivedOnly(e)
    PROVE  \A x \in Ends : /\ SameHeld(x) /\ RequestsKept(x) /\ AnswersKept(x) /\ FewerHeld(x) /\ AlikeHeld(x)
                           /\ lastNo'[x] = lastNo[x] /\ lastNo[x] <= lastNo'[x]
  <1>1. \A x \in Ends : Kept(x)
    BY AcksKept DEF ReceivedOnly
  <1>2. \A x \in Ends : lastNo'[x] = lastNo[x] /\ lastNo[x] <= lastNo'[x]
    BY DEF Typed, ReceivedOnly
  <1>3. QED BY <1>1, <1>2, KeptIsFewer DEF Kept

LEMMA OwnedReceived ==
    ASSUME IInv, Typed', NEW e \in Ends, ReceivedOnly(e),
           \A x \in Ends : FewerExpected(pendingResponses[x], pendingResponses'[x])
    PROVE  \A x \in Ends : Owned(x)' /\ Numbered(x)'
  <1> TAKE x \in Ends
  <1>1. Typed /\ Owned(x) /\ Numbered(x)
    BY DEF IInv
  <1>2. AlikeHeld(x) /\ FewerHeld(x) /\ lastNo[x] <= lastNo'[x]
    BY <1>1, ReceivedAny
  <1>3. QED BY <1>1, <1>2, OwnedKept, NumberedKept

(* The connection is closed with an error: what is left of the links       *)
LEMMA FailedLinks ==
    ASSUME IInv, Typed', NEW e \in Ends, NEW p \in Ends, p = Peer(e), ReceivedOnly(e), Fails(e, p),
           inbox'[e] \subseteq inbox[e], pendingResponses'[p] = pendingResponses[p],
           pendingRequests'[p] = pendingRequests[p], received'[p] = received[p]
    PROVE  Link(e, p)' /\ Link(p, e)'
  <1>0. Typed
    BY DEF IInv
  <1>1. RequestsKept(e) /\ AnswersKept(e) /\ lastNo'[e] = lastNo[e] /\ lastNo[e] <= lastNo'[e]
    BY <1>0, ReceivedAny
  <1>2. /\ ~Listening(e)' /\ NoReopening /\ Channel(p) # << >> /\ Channel(p)' = Tail(Channel(p))
        /\ SameRequests(Channel(e), Channel(e)') /\ FewerAnswers(Channel(e), Channel(e)')
    BY DEF Fails, SameFrames, SameAnswers
  <1>3. FewerRequests(Channel(p), Channel(p)')
    <2>1. Channel(p) \in Seq(Frames)
      BY <1>0, TypedChannels
    <2>2. QED BY <1>2, <2>1, FrameTaken
  <1>4. RequestsArrive(e, p) /\ RequestsGoOn(e, p)
    BY DEF IInv, Link
  <1>5. RequestsArrive(e, p)'
    BY <1>0, <1>1, <1>2, <1>4, ArriveSame
  <1>6. RequestsGoOn(e, p)'
    BY <1>1, <1>2, <1>4, GoOnSame
  <1>7. QED BY <1>1, <1>2, <1>3, <1>5, <1>6, DeafLink

(* A frame of a request *)
LEMMA RequestFrameTaken ==
    ASSUME IInv, Typed', NEW e \in Ends, NEW p \in Ends, p = Peer(e), OnRequest(e), RequestTaken(e),
           RequestExpected(e, p), GoesOn(e, p), UNCHANGED <<state, sock, faults>>,
           pendingRequests' = [pendingRequests EXCEPT ![e] =
                                  Keep(pendingRequests[e], Frame(e), Accept(RequestPending(e), Frame(e)))],
           inbox' = (IF ~Frame(e).more /\ RequestPending(e).about.reply
                     THEN [inbox EXCEPT ![e] = inbox[e] \cup {[no |-> Frame(e).no, about |-> RequestPending(e).about]}]
                     ELSE inbox)
    PROVE  Link(e, p)' /\ Link(p, e)'
  <1>0. Typed /\ e # p
    BY Peers DEF IInv
  <1>1. /\ Frame(e) \in DataFrames /\ Frame(e).type = "REQ"
        /\ UNCHANGED <<outbox, icebox, writeable, writing, lastNo, pendingResponses, ready, unsent, outcome>>
    BY <1>0, OnRequestIs
  <1>2. ReceivedOnly(e)
    BY <1>1 DEF ReceivedOnly, RequestTaken
  <1>3. /\ RequestsKept(e) /\ AnswersKept(e) /\ RequestsKept(p) /\ AnswersKept(p)
        /\ lastNo'[p] = lastNo[p] /\ lastNo'[e] = lastNo[e]
    BY <1>0, <1>2, ReceivedAny
  <1>4. inbox'[e] = Handed(e, inbox[e]) /\ inbox'[p] = inbox[p]
    <2>1. inbox \in [Ends -> SUBSET [no : Nat \ {0}, about : Requests]]
      BY <1>0 DEF Typed
    <2>2. RequestPending(e).about = Frame(e).about
      BY DEF RequestExpected
    <2>3. CASE ~Frame(e).more /\ Frame(e).about.reply
      <3>1. inbox' = [inbox EXCEPT ![e] = inbox[e] \cup {[no |-> Frame(e).no, about |-> Frame(e).about]}]
        BY <2>2, <2>3
      <3>2. inbox'[e] = inbox[e] \cup {[no |-> Frame(e).no, about |-> Frame(e).about]} /\ inbox'[p] = inbox[p]
        BY <1>0, <2>1, <3>1
      <3>3. QED BY <2>3, <3>2 DEF Handed
    <2>4. CASE ~(~Frame(e).more /\ Frame(e).about.reply)
      BY <2>2, <2>4 DEF Handed
    <2>5. QED BY <2>3, <2>4
  <1>5. RequestKept(e, pendingRequests[e], pendingRequests'[e], received[e], received'[e])
    BY RequestIsKept
  <1>6. pendingRequests'[p] = pendingRequests[p] /\ received'[p] = received[p]
    <2>1. pendingRequests'[p] = pendingRequests[p]
      BY <1>0
    <2>2. received \in [Ends -> Nat] /\ received' = IF Frame(e).no \in DOMAIN pendingRequests[e] THEN received ELSE [received EXCEPT ![e] = Frame(e).no]
      BY <1>0 DEF Typed, RequestTaken
    <2>3. received' = received \/ received' = [received EXCEPT ![e] = Frame(e).no]
      BY <2>2
    <2>4. QED BY <1>0, <2>1, <2>2, <2>3
  <1>7. RequestsArrive(p, e)'
    BY <1>1, <1>3, <1>5, RequestArrives
  <1>8. RequestsGoOn(p, e)'
    BY <1>1, <1>3, <1>5, RequestGoesOn
  <1>9. pendingResponses'[p] = pendingResponses[p] /\ pendingResponses'[e] = pendingResponses[e]
    BY <1>1
  <1>10. OneAnswer(p, e)'
    BY <1>1, <1>3, <1>4, <1>9, RequestAsks
  <1>11. AnswersMatch(p, e)'
    BY <1>1, <1>3, <1>4, <1>9, RequestMatches
  <1>12. Link(e, p)'
    <2>1. NoReopening /\ SameRequests(Channel(e), Channel(e)')
      BY DEF GoesOn, SameFrames
    <2>2. SameAnswers(Channel(p), Channel(p)')
      <3>1. Channel(p) \in Seq(Frames) /\ Channel(p) # << >> /\ Channel(p)' = Tail(Channel(p)) /\ ~Answer(Head(Channel(p)))
        BY <1>0, <1>1, TypedChannels DEF GoesOn, Answer
      <3>2. QED BY <3>1, FrameTaken
    <2>3. FewerAnswers(Channel(p), Channel(p)')
      BY <2>2 DEF SameAnswers
    <2>4. QED BY <1>3, <1>4, <1>6, <1>9, <2>1, <2>2, <2>3, LinkSame
  <1>13. QED BY <1>7, <1>8, <1>10, <1>11, <1>12 DEF Link

(* pendingRequest() and receivedFrame() *)
LEMMA OnRequestStep ==
    ASSUME IInv, NEW e \in Ends, OnRequest(e)
    PROVE  IInv'
  <1> DEFINE p == Peer(e)
  <1>0. Typed /\ Typed'
    BY TypedOnRequest DEF IInv
  <1>1. p \in Ends /\ p # e /\ Peer(p) = e /\ \A x \in Ends : x = e \/ x = p
    BY Peers
  <1>2. /\ UNCHANGED <<outbox, icebox, writeable, writing, lastNo, pendingResponses, ready, unsent, outcome>>
        /\ RequestRefused(e) \/ RequestTaken(e)
    BY <1>0, OnRequestIs
  <1>3. Receiving(e, {"REQ"})
    BY DEF OnRequest
  <1>4. RequestExpected(e, p)
    <2>1. wire[p] # << >> /\ Listening(e) /\ wire[p] \in Seq(Frames) /\ sock[p] \in Seq(Frames) /\ Frame(e) = Head(wire[p])
      BY <1>0, <1>1, <1>3, ReceivingIs DEF Typed
    <2>2. Channel(p) # << >> /\ Head(Channel(p)) = Frame(e)
      BY <2>1, ChannelIs DEF Channel
    <2>3. QED BY <1>1, <2>1, <2>2, RequestIsExpected
  <1>5. RequestTaken(e)
    BY <1>2, <1>4 DEF RequestRefused, RequestExpected
  <1>6. ReceivedOnly(e)
    BY <1>2, <1>5 DEF ReceivedOnly, RequestTaken
  <1>7. \A x \in Ends : Owned(x)' /\ Numbered(x)'
    <2>1. \A x \in Ends : FewerExpected(pendingResponses[x], pendingResponses'[x])
      BY <1>2 DEF FewerExpected
    <2>2. QED BY <1>0, <1>6, <2>1, OwnedReceived
  <1>8. InOnePlace' /\ RightOutcomes'
    <2>1. \A x \in Ends : SameHeld(x) /\ pendingResponses'[x] = pendingResponses[x]
      BY <1>0, <1>2, <1>6, ReceivedAny
    <2>2. InOnePlace'
      BY <1>2, <2>1, PlacesKept DEF IInv
    <2>3. RightOutcomes'
      BY <1>2 DEF IInv, RightOutcomes
    <2>4. QED BY <2>2, <2>3
  <1>9. pendingResponses'[p] = pendingResponses[p] /\ p = Peer(e)
    BY <1>2
  <1>10. CASE ~(faults' = faults + 1)
    <2>1. /\ UNCHANGED <<state, sock, faults>>
          /\ pendingRequests' = [pendingRequests EXCEPT ![e] =
                                    Keep(pendingRequests[e], Frame(e), Accept(RequestPending(e), Frame(e)))]
          /\ inbox' = (IF ~Frame(e).more /\ RequestPending(e).about.reply
                       THEN [inbox EXCEPT ![e] = inbox[e] \cup {[no |-> Frame(e).no, about |-> RequestPending(e).about]}]
                       ELSE inbox)
      BY <1>5, <1>10 DEF RequestTaken
    <2> HIDE DEF p
    <2>2. GoesOn(e, p)
      BY <1>1, <1>2, <1>3, <1>9, <2>1, FrameGoesOn
    <2>3. Link(e, p)' /\ Link(p, e)'
      BY <1>0, <1>1, <1>4, <1>5, <1>9, <2>1, <2>2, RequestFrameTaken
    <2>4. NoProtocolError'
      BY <2>1 DEF IInv, NoProtocolError
    <2>5. \A x \in Ends : ClosedIsEmpty(x)'
      BY <2>2 DEF GoesOn
    <2>6. \A x \in Ends : Link(x, Peer(x))'
      BY <1>1, <1>9, <2>3
    <2>7. QED BY <1>0, <1>7, <1>8, <2>4, <2>5, <2>6 DEF IInv
  <1>11. CASE faults' = faults + 1
    <2>1. /\ CloseWithError(e) /\ UNCHANGED inbox
          /\ pendingRequests' = [pendingRequests EXCEPT ![e] =
                                    PutBack(pendingRequests[e], Frame(e), Accept(RequestPending(e), Frame(e)))]
          /\ received' = received \/ received' = [received EXCEPT ![e] = Frame(e).no]
      <3>1. faults' # faults
        BY <1>0, <1>11 DEF Typed
      <3>2. QED BY <1>5, <3>1 DEF RequestTaken
    <2>2. pendingRequests'[p] = pendingRequests[p] /\ received'[p] = received[p]
      <3>1. DOMAIN pendingRequests = Ends /\ received \in [Ends -> Nat]
        BY <1>0 DEF Typed
      <3> HIDE DEF p
      <3>2. QED BY <1>1, <2>1, <3>1
    <2> HIDE DEF p
    <2>3. Fails(e, p)
      BY <1>1, <1>2, <1>3, <1>9, <2>1, FrameFails
    <2>4. Link(e, p)' /\ Link(p, e)'
      BY <1>0, <1>1, <1>6, <1>9, <2>1, <2>2, <2>3, FailedLinks
    <2>5. NoProtocolError'
      BY <1>0, <1>11 DEF Typed, NoProtocolError
    <2>6. \A x \in Ends : ClosedIsEmpty(x)'
      BY <2>3 DEF Fails
    <2>7. \A x \in Ends : Link(x, Peer(x))'
      BY <1>1, <1>9, <2>4
    <2>8. QED BY <1>0, <1>7, <1>8, <2>5, <2>6, <2>7 DEF IInv
  <1>12. QED BY <1>10, <1>11

(* A frame of an answer is one that is expected, of the answer to what was *)
(* asked, and the last frame completes it.                                 *)
AnswerExpected(x, d, f) ==
    /\ f \in DataFrames /\ Answer(f) /\ f.no \in DOMAIN x /\ x[f.no].about = f.about
    /\ d \in Seq(Frames) /\ d # << >> /\ Head(d) = f /\ IsPending(x)
    /\ ~f.more => /\ Got(x, d, f.no) = f.about.response
                  /\ \A k \in DOMAIN Tail(d) : ~(Answer(Tail(d)[k]) /\ Tail(d)[k].no = f.no)

LEMMA AnswerIsExpected ==
    ASSUME IInv, NEW e \in Ends, NEW p \in Ends, p = Peer(e), OnResponse(e)
    PROVE  AnswerExpected(pendingResponses[e], Channel(p), Frame(e))
  <1> DEFINE x == pendingResponses[e]
             d == Channel(p)
             f == Frame(e)
  <1>0. Typed
    BY DEF IInv
  <1>1. Receiving(e, {"RES", "ERR"})
    BY DEF OnResponse
  <1>2. wire[p] # << >> /\ Listening(e) /\ wire[p] \in Seq(Frames) /\ sock[p] \in Seq(Frames) /\ f = Head(wire[p])
    BY <1>0, <1>1, ReceivingIs DEF Typed
  <1>3. d # << >> /\ Head(d) = f
    BY <1>2, ChannelIs DEF Channel
  <1>4. f \in DataFrames /\ Answer(f) /\ d \in Seq(Frames) /\ IsPending(x)
    BY <1>0, OnResponseIs, TypedChannels DEF Typed
  <1>5. \A k \in DOMAIN d : Answer(d[k]) =>
           /\ Expects(x, d[k].no, d[k].about)
           /\ ~d[k].more => Got(x, d, d[k].no) = d[k].about.response
           /\ \A j \in k + 1 .. Len(d) : Answer(d[j]) /\ d[j].no = d[k].no => d[k].more
    BY <1>2 DEF IInv, Link, AnswersMatch
  <1> HIDE DEF x, d, f
  <1>6. /\ DOMAIN d = 1 .. Len(d) /\ Len(d) \in Nat /\ 1 \in DOMAIN d /\ d[1] = f
        /\ \A k \in DOMAIN Tail(d) : k \in Nat /\ k + 1 \in DOMAIN d /\ Tail(d)[k] = d[k + 1]
        /\ DOMAIN Tail(d) = 1 .. Len(d) - 1
    BY <1>3, <1>4, Tailed
  <1>7. /\ Expects(x, f.no, f.about)
        /\ ~f.more => Got(x, d, f.no) = f.about.response
        /\ \A j \in 1 + 1 .. Len(d) : Answer(d[j]) /\ d[j].no = f.no => f.more
    BY <1>4, <1>5, <1>6
  <1>8. ASSUME ~f.more, NEW k \in DOMAIN Tail(d) PROVE ~(Answer(Tail(d)[k]) /\ Tail(d)[k].no = f.no)
    <2>1. k + 1 \in 1 + 1 .. Len(d) /\ Tail(d)[k] = d[k + 1]
      BY <1>6
    <2>2. QED BY <1>7, <1>8, <2>1
  <1>9. QED BY <1>3, <1>4, <1>7, <1>8 DEF AnswerExpected, Expects, x, d, f

(* What is still expected after it *)
AnswerTaken(x, y, d, f) ==
    /\ DOMAIN y = IF f.more THEN DOMAIN x ELSE DOMAIN x \ {f.no}
    /\ \A n \in DOMAIN y : n \in DOMAIN x /\ y[n].about = x[n].about /\ Got(y, Tail(d), n) = Got(x, d, n)
    /\ ~f.more => Accept(x[f.no], f).raw = f.about.response

LEMMA AnswerIsTaken ==
    ASSUME NEW x, NEW y, NEW d, NEW f, AnswerExpected(x, d, f), y = Keep(x, f, Accept(x[f.no], f))
    PROVE  AnswerTaken(x, y, d, f)
  <1> DEFINE a == Accept(x[f.no], f)
             w(n) == BytesOf(n)
  <1>1. /\ f \in DataFrames /\ Answer(f) /\ f.no \in DOMAIN x /\ IsPending(x) /\ x[f.no] \in Pendings
        /\ d \in Seq(Frames) /\ d # << >> /\ Head(d) = f /\ f \in Frames /\ f.size \in Nat
    BY DEF AnswerExpected, IsPending, Frames, DataFrames
  <1>2. a \in Pendings /\ a.about = x[f.no].about /\ a.raw = x[f.no].raw + f.size /\ x[f.no].raw \in Nat
    BY <1>1, AcceptIs DEF Pendings
  <1>3. \A n : Total(w(n), d) = Total(w(n), Tail(d)) + w(n)[f]
    BY <1>1, FrameWeights, TotalTail
  <1>4. \A n : w(n)[f] = IF f.no = n THEN f.size ELSE 0
    BY <1>1, FrameWeightsAre
  <1>5. \A n : Total(w(n), Tail(d)) \in Nat
    <2>1. Tail(d) \in Seq(Frames)
      BY <1>1, TailInserts
    <2>2. QED BY <2>1, FrameTotals
  <1> HIDE DEF a
  <1>6. y = IF f.more THEN With(x, f.no, a) ELSE Without(x, f.no)
    BY DEF Keep, a
  <1>7. DOMAIN y = IF f.more THEN DOMAIN x ELSE DOMAIN x \ {f.no}
    <2>1. DOMAIN x \cup {f.no} = DOMAIN x
      BY <1>1
    <2>2. QED BY <1>6, <2>1 DEF With, Without
  <1>8. ASSUME NEW n \in DOMAIN y
        PROVE  n \in DOMAIN x /\ y[n].about = x[n].about /\ Got(y, Tail(d), n) = Got(x, d, n)
    <2>1. n \in DOMAIN x /\ x[n] \in Pendings /\ x[n].raw \in Nat
      BY <1>1, <1>7 DEF IsPending, Pendings
    <2>2. CASE n = f.no
      <3>1. y[n] = a
        BY <1>6, <1>7, <2>2 DEF With
      <3>2. Got(y, Tail(d), n) = x[n].raw + f.size + Total(w(n), Tail(d))
        BY <1>2, <2>2, <3>1 DEF Got
      <3>3. Got(x, d, n) = x[n].raw + (Total(w(n), Tail(d)) + f.size)
        BY <1>3, <1>4, <2>2 DEF Got
      <3>4. Total(w(n), Tail(d)) \in Nat
        BY <1>5
      <3> HIDE DEF w
      <3>5. x[n].raw + f.size + Total(w(n), Tail(d)) = x[n].raw + (Total(w(n), Tail(d)) + f.size)
        BY <1>1, <2>1, <3>4
      <3>6. QED BY <1>2, <2>1, <2>2, <3>1, <3>2, <3>3, <3>5
    <2>3. CASE n # f.no
      <3>1. y[n] = x[n]
        BY <1>6, <1>7, <2>1, <2>3 DEF With, Without
      <3>2. Total(w(n), d) = Total(w(n), Tail(d)) + 0
        BY <1>3, <1>4, <2>3
      <3>3. Total(w(n), Tail(d)) \in Nat
        BY <1>5
      <3>4. Total(w(n), d) = Total(w(n), Tail(d))
        BY <3>2, <3>3
      <3>5. QED BY <2>1, <3>1, <3>4 DEF Got
    <2>4. QED BY <2>2, <2>3
  <1>9. ASSUME ~f.more PROVE a.raw = f.about.response
    <2>1. Total(w(f.no), Tail(d)) = 0
      <3>1. Tail(d) \in Seq(Frames) /\ w(f.no) \in [Frames -> Nat]
        BY <1>1, TailInserts, FrameWeights
      <3>2. ASSUME NEW k \in DOMAIN Tail(d) PROVE w(f.no)[Tail(d)[k]] = 0
        <4>1. Tail(d)[k] \in Frames
          BY <3>1, ElementIs
        <4>2. ~(Answer(Tail(d)[k]) /\ Tail(d)[k].no = f.no)
          BY <1>9 DEF AnswerExpected
        <4> DEFINE g == Tail(d)[k]
        <4> HIDE DEF g
        <4>3. BytesOf(f.no)[g] = IF Answer(g) /\ g.no = f.no THEN g.size ELSE 0
          BY <4>1, FrameWeightsAre DEF g
        <4>4. QED BY <4>2, <4>3 DEF g
      <3> HIDE DEF w
      <3>3. QED BY <3>1, <3>2, TotalZero
    <2>2. Total(w(f.no), d) = 0 + f.size
      BY <1>3, <1>4, <2>1
    <2>3. Got(x, d, f.no) = x[f.no].raw + f.size
      BY <1>1, <2>2 DEF Got
    <2>4. QED BY <1>2, <1>9, <2>3 DEF AnswerExpected
  <1>10. QED BY <1>7, <1>8, <1>9 DEF AnswerTaken, a

(* A frame of an answer is taken, from the state of affairs x, d to y.     *)
ResponseGoesOn(e, p) ==
    /\ AnswerExpected(pendingResponses[e], Channel(p), Frame(e))
    /\ AnswerTaken(pendingResponses[e], pendingResponses'[e], Channel(p), Frame(e))
    /\ GoesOn(e, p) /\ SameHeld(p) /\ AnswersKept(p)
    /\ UNCHANGED <<state, inbox>>

LEMMA ResponseCounts ==
    ASSUME IInv, Typed', NEW e \in Ends, NEW p \in Ends, p = Peer(e), ResponseGoesOn(e, p)
    PROVE  OneAnswer(e, p)'
  <1> DEFINE d == Channel(p)
             f == Frame(e)
             x == pendingResponses[e]
             y == pendingResponses'[e]
  <1>0. Typed /\ OneAnswer(e, p)
    BY DEF IInv, Link
  <1>1. /\ d \in Seq(Frames) /\ d # << >> /\ Head(d) = f /\ f \in Frames /\ Answer(f)
        /\ Channel(p)' = Tail(d) /\ Channel(e)' = Channel(e) /\ Listening(e) /\ inbox'[p] = inbox[p]
        /\ f.no \in DOMAIN x
    BY DEF ResponseGoesOn, AnswerExpected, GoesOn, Frames
  <1>2. DOMAIN y = IF f.more THEN DOMAIN x ELSE DOMAIN x \ {f.no}
    BY DEF ResponseGoesOn, AnswerTaken
  <1>3. ASSUME NEW n \in Nat \ {0} PROVE Answers(e, p, n)' <= One(n \in DOMAIN y)
    <2> DEFINE w == LastOfAnswer(n)
               r == Total(LastOfRequest(n), Channel(e))
               h == Held(AnswerNo(n), p)
               i == Asked(inbox[p], n)
    <2>1. Answers(e, p, n) <= One(n \in DOMAIN x)
      BY <1>0, <1>1 DEF OneAnswer
    <2>2. w \in [Frames -> Nat] /\ w[f] = One(Answer(f) /\ f.no = n /\ ~f.more)
      BY <1>1, FrameWeights, FrameWeightsAre
    <2>3. r \in Nat /\ h \in Nat /\ i \in Nat /\ Total(w, Channel(p)') \in Nat /\ Total(w, d) \in Nat
      BY <1>0, AnswersAre
    <2>4. Held(AnswerNo(n), p)' = h
      BY DEF ResponseGoesOn, SameHeld
    <2>5. Answers(e, p, n) = r + i + h + Total(w, d)
      BY DEF Answers
    <2>6. Answers(e, p, n)' = r + i + h + Total(w, Channel(p)')
      BY <1>1, <2>4 DEF Answers
    <2> HIDE DEF w, r, h, i, d, f, x, y
    <2>7. Total(w, d) = Total(w, Channel(p)') + w[f]
      BY <1>1, <2>2, TotalTail
    <2>8. CASE f.no = n /\ ~f.more
      <3>1. w[f] = 1 /\ n \notin DOMAIN y
        BY <1>1, <1>2, <2>2, <2>8 DEF One
      <3>2. One(n \in DOMAIN x) <= 1 /\ One(n \in DOMAIN y) = 0
        BY <3>1 DEF One
      <3>3. One(n \in DOMAIN x) \in Nat
        BY DEF One
      <3>4. QED BY <2>1, <2>3, <2>5, <2>6, <2>7, <3>1, <3>2, <3>3
    <2>9. CASE ~(f.no = n /\ ~f.more)
      <3>1. w[f] = 0 /\ (n \in DOMAIN y <=> n \in DOMAIN x)
        BY <1>1, <1>2, <2>2, <2>9 DEF One
      <3>2. One(n \in DOMAIN x) = One(n \in DOMAIN y)
        BY <3>1 DEF One
      <3>3. One(n \in DOMAIN x) \in Nat
        BY DEF One
      <3>4. QED BY <2>1, <2>3, <2>5, <2>6, <2>7, <3>1, <3>2, <3>3
    <2>10. QED BY <2>8, <2>9
  <1>4. QED BY <1>3 DEF OneAnswer

LEMMA ResponseMatches ==
    ASSUME IInv, Typed', NEW e \in Ends, NEW p \in Ends, p = Peer(e), ResponseGoesOn(e, p)
    PROVE  AnswersMatch(e, p)'
  <1> DEFINE c == Channel(e)
             c1 == Channel(e)'
             d == Channel(p)
             d1 == Channel(p)'
             f == Frame(e)
             x == pendingResponses[e]
             y == pendingResponses'[e]
  <1>0. Typed /\ OneAnswer(e, p) /\ AnswersMatch(e, p)
    BY DEF IInv, Link
  <1>1. /\ d \in Seq(Frames) /\ d # << >> /\ Head(d) = f /\ Answer(f) /\ f.no \in Nat \ {0}
        /\ d1 = Tail(d) /\ c1 = c /\ Listening(e) /\ inbox'[p] = inbox[p] /\ state'[p] = state[p]
        /\ c \in Seq(Frames)
        /\ ~f.more => \A k \in DOMAIN d1 : ~(Answer(d1[k]) /\ d1[k].no = f.no)
    BY <1>0, TypedChannels DEF ResponseGoesOn, AnswerExpected, GoesOn, DataFrames
  <1>2. /\ DOMAIN y = IF f.more THEN DOMAIN x ELSE DOMAIN x \ {f.no}
        /\ \A n \in DOMAIN y : y[n].about = x[n].about /\ Got(y, d1, n) = Got(x, d, n)
    BY <1>1 DEF ResponseGoesOn, AnswerTaken
  <1>3. /\ 1 \in DOMAIN d /\ d[1] = f /\ DOMAIN d = 1 .. Len(d) /\ Len(d) \in Nat
        /\ DOMAIN d1 = 1 .. Len(d) - 1 /\ Len(d1) = Len(d) - 1
        /\ \A k \in DOMAIN d1 : k \in Nat /\ k + 1 \in DOMAIN d /\ d1[k] = d[k + 1]
    BY <1>1, Tailed
  <1>4. ~f.more => ~AskedFor(c, f.no) /\ ~Waiting(inbox[p], f.no) /\ ~Answering(HeldBy(p), f.no)
    <2>1. ~f.more => Ended(d, f.no)
      BY <1>1, <1>3 DEF Ended
    <2> HIDE DEF f, x, y
    <2>2. QED BY <1>0, <1>1, <2>1, SoleAnswer
  <1> SUFFICES ASSUME Listening(e)'
               PROVE  /\ \A k \in DOMAIN c1 : c1[k].type = "REQ" /\ ~c1[k].more /\ c1[k].about.reply =>
                            Expects(y, c1[k].no, c1[k].about) /\ Got(y, d1, c1[k].no) = 0
                      /\ \A r \in inbox'[p] : Expects(y, r.no, r.about) /\ Got(y, d1, r.no) = 0
                      /\ \A m \in HeldBy(p)' : Answer(m) =>
                            Expects(y, m.no, m.about) /\ (state'[p] = "open" => Got(y, d1, m.no) = m.sent)
                      /\ \A k \in DOMAIN d1 : Answer(d1[k]) =>
                            /\ Expects(y, d1[k].no, d1[k].about)
                            /\ ~d1[k].more => Got(y, d1, d1[k].no) = d1[k].about.response
                            /\ \A j \in k + 1 .. Len(d1) : Answer(d1[j]) /\ d1[j].no = d1[k].no => d1[k].more
    BY DEF AnswersMatch
  <1>5. /\ \A k \in DOMAIN c : c[k].type = "REQ" /\ ~c[k].more /\ c[k].about.reply =>
              Expects(x, c[k].no, c[k].about) /\ Got(x, d, c[k].no) = 0
        /\ \A r \in inbox[p] : Expects(x, r.no, r.about) /\ Got(x, d, r.no) = 0
        /\ \A m \in HeldBy(p) : Answer(m) =>
              Expects(x, m.no, m.about) /\ (state[p] = "open" => Got(x, d, m.no) = m.sent)
        /\ \A k \in DOMAIN d : Answer(d[k]) =>
              /\ Expects(x, d[k].no, d[k].about)
              /\ ~d[k].more => Got(x, d, d[k].no) = d[k].about.response
              /\ \A j \in k + 1 .. Len(d) : Answer(d[j]) /\ d[j].no = d[k].no => d[k].more
    BY <1>0, <1>1 DEF AnswersMatch
  <1>6. \A m : m \in HeldBy(p)' /\ Answer(m) => \E k \in HeldBy(p) : Alike(k, m)
    BY DEF ResponseGoesOn, AnswersKept
  <1> HIDE DEF c, c1, d, d1, f, x, y
  <1>7. ASSUME NEW n, NEW q, Expects(x, n, q), f.more \/ n # f.no
        PROVE  Expects(y, n, q) /\ Got(y, d1, n) = Got(x, d, n)
    BY <1>2, <1>7 DEF Expects
  <1>8. ASSUME NEW k \in DOMAIN c1, c1[k].type = "REQ", ~c1[k].more, c1[k].about.reply
        PROVE  Expects(y, c1[k].no, c1[k].about) /\ Got(y, d1, c1[k].no) = 0
    <2>1. f.more \/ c1[k].no # f.no
      BY <1>1, <1>4, <1>8 DEF AskedFor
    <2>2. QED BY <1>1, <1>5, <1>7, <1>8, <2>1
  <1>9. ASSUME NEW r, r \in inbox'[p] PROVE Expects(y, r.no, r.about) /\ Got(y, d1, r.no) = 0
    <2>1. f.more \/ r.no # f.no
      BY <1>1, <1>4, <1>9 DEF Waiting
    <2>2. QED BY <1>1, <1>5, <1>7, <1>9, <2>1
  <1>10. ASSUME NEW m, m \in HeldBy(p)', Answer(m)
         PROVE  Expects(y, m.no, m.about) /\ (state'[p] = "open" => Got(y, d1, m.no) = m.sent)
    <2>1. PICK h \in HeldBy(p) : Alike(h, m)
      BY <1>6, <1>10
    <2>2. Answer(h) /\ h.no = m.no /\ h.about = m.about /\ h.sent = m.sent
      BY <1>10, <2>1 DEF Alike, Answer
    <2>3. f.more \/ m.no # f.no
      BY <1>4, <2>2 DEF Answering
    <2>4. Expects(x, m.no, m.about) /\ (state[p] = "open" => Got(x, d, m.no) = m.sent)
      BY <1>5, <2>2
    <2>5. QED BY <1>1, <1>7, <2>3, <2>4
  <1>11. ASSUME NEW k \in DOMAIN d1, Answer(d1[k])
         PROVE  /\ Expects(y, d1[k].no, d1[k].about)
                /\ ~d1[k].more => Got(y, d1, d1[k].no) = d1[k].about.response
                /\ \A j \in k + 1 .. Len(d1) : Answer(d1[j]) /\ d1[j].no = d1[k].no => d1[k].more
    <2>1. k \in Nat /\ k + 1 \in DOMAIN d /\ d1[k] = d[k + 1]
      BY <1>3
    <2>2. f.more \/ d1[k].no # f.no
      BY <1>1, <1>11
    <2>3. /\ Expects(x, d1[k].no, d1[k].about)
          /\ ~d1[k].more => Got(x, d, d1[k].no) = d1[k].about.response
          /\ \A j \in (k + 1) + 1 .. Len(d) : Answer(d[j]) /\ d[j].no = d1[k].no => d1[k].more
      BY <1>5, <1>11, <2>1
    <2>4. ASSUME NEW j \in k + 1 .. Len(d1), Answer(d1[j]), d1[j].no = d1[k].no PROVE d1[k].more
      <3>1. j \in DOMAIN d1 /\ j + 1 \in (k + 1) + 1 .. Len(d) /\ d1[j] = d[j + 1]
        BY <1>3, <2>1
      <3>2. QED BY <2>3, <2>4, <3>1
    <2>5. QED BY <1>7, <2>2, <2>3, <2>4
  <1>12. QED BY <1>8, <1>9, <1>10, <1>11

(* Who waits after a step in which at most one of e's answers is dropped   *)
(* from those expected                                                     *)
LEMMA WaitsElsewhere ==
    ASSUME NEW q \in Requests, pendingResponses'[q.from] = pendingResponses[q.from]
    PROVE  Waits(q)' = Waits(q)
  BY DEF Waits

LEMMA StillWaits ==
    ASSUME NEW e \in Ends, NEW q \in Requests, q.from = e,
           DOMAIN pendingResponses'[e] = DOMAIN pendingResponses[e],
           \A n \in DOMAIN pendingResponses[e] : pendingResponses'[e][n].about = pendingResponses[e][n].about
    PROVE  Waits(q)' = Waits(q)
  <1> DEFINE x == pendingResponses[e]
             y == pendingResponses'[e]
  <1>1. (\E n \in DOMAIN y : y[n].about = q) = (\E n \in DOMAIN x : x[n].about = q)
    OBVIOUS
  <1>2. QED BY <1>1 DEF Waits

LEMMA WaitsNoMore ==
    ASSUME NEW e \in Ends, NEW q \in Requests, q.from = e, Owned(e), NEW k \in DOMAIN pendingResponses[e],
           DOMAIN pendingResponses'[e] = DOMAIN pendingResponses[e] \ {k},
           \A n \in DOMAIN pendingResponses'[e] : pendingResponses'[e][n].about = pendingResponses[e][n].about
    PROVE  /\ pendingResponses[e][k].about = q => Waits(q) /\ ~Waits(q)'
           /\ pendingResponses[e][k].about # q => Waits(q)' = Waits(q)
  <1> DEFINE x == pendingResponses[e]
             y == pendingResponses'[e]
  <1>1. Waits(q) = (\E n \in DOMAIN x : x[n].about = q) /\ Waits(q)' = (\E n \in DOMAIN y : y[n].about = q)
    BY DEF Waits
  <1>2. \A n \in DOMAIN x : x[n].about = x[k].about => n = k
    BY DEF Owned
  <1>3. x[k].about = q => ~\E n \in DOMAIN y : y[n].about = q
    BY <1>2
  <1>4. x[k].about # q => (\E n \in DOMAIN y : y[n].about = q) = (\E n \in DOMAIN x : x[n].about = q)
    OBVIOUS
  <1>5. QED BY <1>1, <1>3, <1>4

LEMMA ResponsePlaces ==
    ASSUME IInv, Typed', NEW e \in Ends, NEW p \in Ends, p = Peer(e), ReceivedOnly(e), ResponseTaken(e),
           AnswerExpected(pendingResponses[e], Channel(p), Frame(e)),
           AnswerTaken(pendingResponses[e], pendingResponses'[e], Channel(p), Frame(e)),
           pendingResponses'[p] = pendingResponses[p]
    PROVE  InOnePlace' /\ RightOutcomes'
  <1> DEFINE f == Frame(e)
             x == pendingResponses[e]
             y == pendingResponses'[e]
             a == [result |-> "reply", to |-> f.about, bytes |-> Accept(x[f.no], f).raw]
  <1>0. /\ Typed /\ Owned(e) /\ outcome \in [Requests -> Seq(Outcomes)] /\ outcome' \in [Requests -> Seq(Outcomes)]
        /\ unsent' = unsent
    BY DEF IInv, Typed, ReceivedOnly
  <1>1. f.no \in DOMAIN x /\ x[f.no].about = f.about /\ f.about \in Requests /\ f.about.from = e
    BY <1>0 DEF AnswerExpected, DataFrames, Owned
  <1>2. /\ DOMAIN y = IF f.more THEN DOMAIN x ELSE DOMAIN x \ {f.no}
        /\ \A n \in DOMAIN y : y[n].about = x[n].about
        /\ ~f.more => Accept(x[f.no], f).raw = f.about.response
    BY DEF AnswerTaken
  <1>3. outcome' = IF f.more THEN outcome ELSE [outcome EXCEPT ![f.about] = Append(outcome[f.about], a)]
    BY <1>1 DEF ResponseTaken
  <1>4. a.to = f.about /\ (~f.more => a.bytes = f.about.response)
    BY <1>2
  <1>5. \A q \in Requests : q.from \in Ends
    BY RequestIs
  <1>6. \A q \in Requests : Held(RequestOf(q), q.from)' = Held(RequestOf(q), q.from) /\ Held(RequestOf(q), q.from) \in Nat
    <2>1. \A z \in Ends : SameHeld(z)
      BY <1>0, ReceivedAny
    <2>2. QED BY <1>0, <1>5, <2>1, HeldNat DEF SameHeld
  <1>7. \A q \in Requests : q.from # e => q.from = p
    BY <1>5, Peers
  <1> HIDE DEF a, f, x, y
  <1>8. ASSUME NEW q \in Requests
        PROVE  One(Waits(q)') + Len(outcome'[q]) = One(Waits(q)) + Len(outcome[q])
    <2>1. outcome[q] \in Seq(Outcomes) /\ Len(outcome[q]) \in Nat
      BY <1>0
    <2>2. CASE f.more
      <3>1. outcome'[q] = outcome[q]
        BY <1>3, <2>2
      <3>2. Waits(q)' = Waits(q)
        BY <1>2, <1>7, <2>2, WaitsElsewhere, StillWaits DEF x, y
      <3>3. QED BY <3>1, <3>2
    <2>3. CASE ~f.more /\ q # f.about
      <3>1. outcome'[q] = outcome[q]
        BY <1>0, <1>3, <2>3
      <3>2. Waits(q)' = Waits(q)
        <4>1. CASE q.from = e
          <5>1. DOMAIN y = DOMAIN x \ {f.no}
            BY <1>2, <2>3
          <5>2. QED BY <1>0, <1>1, <1>2, <2>3, <4>1, <5>1, WaitsNoMore DEF x, y
        <4>2. CASE q.from # e
          BY <1>7, <4>2, WaitsElsewhere
        <4>3. QED BY <4>1, <4>2
      <3>3. QED BY <3>1, <3>2
    <2>4. CASE ~f.more /\ q = f.about
      <3>1. outcome'[q] = Append(outcome[q], a)
        BY <1>0, <1>3, <2>4
      <3>2. Waits(q) /\ ~Waits(q)'
        <4>1. DOMAIN y = DOMAIN x \ {f.no}
          BY <1>2, <2>4
        <4>2. QED BY <1>0, <1>1, <1>2, <2>4, <4>1, WaitsNoMore DEF x, y
      <3>3. One(Waits(q)) = 1 /\ One(Waits(q)') = 0
        BY <3>2 DEF One
      <3>4. Len(outcome'[q]) = Len(outcome[q]) + 1
        BY <2>1, <3>1
      <3>5. QED BY <2>1, <3>3, <3>4
    <2>5. QED BY <2>2, <2>3, <2>4
  <1>9. \A q \in Requests : Places(q)' = Places(q)
    <2> TAKE q \in Requests
    <2> DEFINE h == Held(RequestOf(q), q.from)
               u == One(q \in unsent)
               b == One(Waits(q))
               b1 == One(Waits(q)')
               l == Len(outcome[q])
               l1 == Len(outcome'[q])
    <2>1. Places(q) = u + h + b + l
      BY DEF Places
    <2>2. Places(q)' = u + h + b1 + l1
      BY <1>0, <1>6 DEF Places
    <2>3. u \in Nat /\ b \in Nat /\ b1 \in Nat /\ h \in Nat /\ l \in Nat /\ l1 \in Nat
      BY <1>0, <1>6 DEF One
    <2>4. b1 + l1 = b + l
      BY <1>8
    <2> HIDE DEF h, u, b, b1, l, l1
    <2>5. u + h + b1 + l1 = u + h + b + l
      BY <2>3, <2>4
    <2>6. QED BY <2>1, <2>2, <2>5
  <1>10. InOnePlace'
    BY <1>9 DEF IInv, InOnePlace
  <1>11. RightOutcomes'
    <2>1. ASSUME NEW q \in Requests, NEW i \in DOMAIN outcome'[q], outcome'[q][i].result = "reply"
          PROVE  outcome'[q][i].to = q /\ outcome'[q][i].bytes = q.response
      <3>1. RightOutcomes
        BY DEF IInv
      <3>2. CASE ~f.more /\ q = f.about
        <4>1. outcome'[q] = Append(outcome[q], a) /\ outcome[q] \in Seq(Outcomes)
          BY <1>0, <1>3, <3>2
        <4>2. (i \in DOMAIN outcome[q] /\ outcome'[q][i] = outcome[q][i]) \/ outcome'[q][i] = a
          BY <2>1, <4>1
        <4>3. QED BY <1>4, <2>1, <3>1, <3>2, <4>2 DEF RightOutcomes
      <3>3. CASE ~(~f.more /\ q = f.about)
        <4>1. outcome'[q] = outcome[q]
          BY <1>0, <1>3, <3>3
        <4>2. QED BY <2>1, <3>1, <4>1 DEF RightOutcomes
      <3>4. QED BY <3>2, <3>3
    <2>2. QED BY <2>1 DEF RightOutcomes
  <1>12. QED BY <1>10, <1>11

(* A damaged frame: an answer that is put back is waited for.              *)
LEMMA DamagedPending ==
    ASSUME Typed, NEW e \in Ends, ResponseDamaged(e), Frame(e) \in DataFrames, Answer(Frame(e))
    PROVE  LET x == pendingResponses[e]
               y == pendingResponses'[e]
           IN  /\ FewerExpected(x, y) /\ DOMAIN y \subseteq DOMAIN x
               /\ "ERR" \notin Damaged => DOMAIN y = DOMAIN x
               /\ \A z \in Ends : z # e => pendingResponses'[z] = pendingResponses[z]
  <1> DEFINE f == Frame(e)
             x == pendingResponses[e]
             y == pendingResponses'[e]
             a == Accept(x[f.no], f)
  <1>1. DOMAIN pendingResponses = Ends /\ f.no \in DOMAIN x /\ f.type \in Damaged /\ IsPending(x)
    BY DEF Typed, ResponseDamaged
  <1>2. pendingResponses' = [pendingResponses EXCEPT ![e] = PutBack(x, f, a)]
    BY DEF ResponseDamaged
  <1>3. y = PutBack(x, f, a) /\ \A z \in Ends : z # e => pendingResponses'[z] = pendingResponses[z]
    BY <1>1, <1>2
  <1>4. x[f.no] \in Pendings
    BY <1>1 DEF IsPending
  <1>5. a.about = x[f.no].about
    BY <1>4, AcceptIs
  <1>6. "ERR" \notin Damaged => f.type = "RES"
    BY <1>1 DEF Answer
  <1> HIDE DEF a, f, x, y
  <1>7. CASE f.more \/ f.type \in {"REQ", "RES"}
    <2>1. y = With(x, f.no, a)
      BY <1>3, <1>7 DEF PutBack
    <2>2. DOMAIN y = DOMAIN x \cup {f.no} /\ y[f.no] = a /\ \A n \in DOMAIN x : n # f.no => y[n] = x[n]
      BY <2>1 DEF With
    <2>3. DOMAIN y = DOMAIN x
      BY <1>1, <2>2
    <2>4. QED BY <1>3, <1>5, <2>2, <2>3 DEF FewerExpected, x, y
  <1>8. CASE ~(f.more \/ f.type \in {"REQ", "RES"})
    <2>1. y = Without(x, f.no)
      BY <1>3, <1>8 DEF PutBack
    <2>2. DOMAIN y = DOMAIN x \ {f.no} /\ \A n \in DOMAIN y : y[n] = x[n]
      BY <2>1 DEF Without
    <2>3. ~("ERR" \notin Damaged)
      BY <1>6, <1>8
    <2>4. QED BY <1>3, <2>2, <2>3 DEF FewerExpected, x, y
  <1>9. QED BY <1>7, <1>8

LEMMA DamagedPlaces ==
    ASSUME IInv, Typed', NEW e \in Ends, ReceivedOnly(e), ResponseDamaged(e), Frame(e) \in DataFrames, Answer(Frame(e))
    PROVE  InOnePlace' /\ RightOutcomes'
  <1>0. Typed /\ unsent' = unsent /\ outcome' = outcome /\ outcome \in [Requests -> Seq(Outcomes)]
    BY DEF IInv, ReceivedOnly, ResponseDamaged, Typed
  <1>1. \A q \in Requests : q.from \in Ends
    BY RequestIs
  <1>2. \A q \in Requests : Held(RequestOf(q), q.from)' = Held(RequestOf(q), q.from) /\ Held(RequestOf(q), q.from) \in Nat
    <2>1. \A z \in Ends : SameHeld(z)
      BY <1>0, ReceivedAny
    <2>2. QED BY <1>0, <1>1, <2>1, HeldNat DEF SameHeld
  <1>3. /\ FewerExpected(pendingResponses[e], pendingResponses'[e])
        /\ "ERR" \notin Damaged => DOMAIN pendingResponses'[e] = DOMAIN pendingResponses[e]
        /\ \A z \in Ends : z # e => pendingResponses'[z] = pendingResponses[z]
    BY <1>0, DamagedPending
  <1>4. ASSUME NEW q \in Requests PROVE (Waits(q)' => Waits(q)) /\ ("ERR" \notin Damaged => (Waits(q)' <=> Waits(q)))
    <2>1. CASE q.from = e
      <3>1. Waits(q)' => Waits(q)
        BY <1>3, <2>1 DEF Waits, FewerExpected
      <3>2. "ERR" \notin Damaged => (Waits(q) => Waits(q)')
        BY <1>3, <2>1 DEF Waits, FewerExpected
      <3>3. QED BY <3>1, <3>2
    <2>2. CASE q.from # e
      <3>1. pendingResponses'[q.from] = pendingResponses[q.from]
        BY <1>1, <1>3, <2>2
      <3>2. QED BY <3>1 DEF Waits
    <2>3. QED BY <2>1, <2>2
  <1>5. ASSUME NEW q \in Requests PROVE Places(q)' <= Places(q) /\ ("ERR" \notin Damaged => Places(q)' = Places(q)) /\ Places(q) \in Nat /\ Places(q)' \in Nat
    <2> DEFINE h == Held(RequestOf(q), q.from)
               u == One(q \in unsent)
               b == One(Waits(q))
               b1 == One(Waits(q)')
               l == Len(outcome[q])
    <2>1. Places(q) = u + h + b + l
      BY DEF Places
    <2>2. Places(q)' = u + h + b1 + l
      BY <1>0, <1>2 DEF Places
    <2>3. u \in Nat /\ b \in Nat /\ b1 \in Nat /\ h \in Nat /\ l \in Nat
      BY <1>0, <1>2 DEF One
    <2>4. b1 <= b /\ ("ERR" \notin Damaged => b1 = b)
      BY <1>4 DEF One
    <2> HIDE DEF h, u, b, b1, l
    <2>5. /\ u + h + b1 + l <= u + h + b + l /\ u + h + b1 + l \in Nat /\ u + h + b + l \in Nat
          /\ b1 = b => u + h + b1 + l = u + h + b + l
      BY <2>3, <2>4
    <2>6. QED BY <2>1, <2>2, <2>4, <2>5
  <1>6. InOnePlace'
    <2>1. ASSUME NEW q \in Requests PROVE Places(q)' <= 1 /\ (q.reply /\ "ERR" \notin Damaged => Places(q)' = 1)
      <3>1. Places(q) <= 1 /\ (q.reply /\ "ERR" \notin Damaged => Places(q) = 1)
        BY DEF IInv, InOnePlace
      <3>2. /\ Places(q)' <= Places(q) /\ ("ERR" \notin Damaged => Places(q)' = Places(q))
            /\ Places(q) \in Nat /\ Places(q)' \in Nat
        BY <1>5
      <3>3. Places(q)' <= 1
        BY <3>1, <3>2
      <3>4. QED BY <3>1, <3>2, <3>3
    <2>2. QED BY <2>1 DEF InOnePlace
  <1>7. RightOutcomes'
    BY <1>0 DEF IInv, RightOutcomes
  <1>8. QED BY <1>6, <1>7

(* A frame of a response *)
LEMMA OnResponseStep ==
    ASSUME IInv, NEW e \in Ends, OnResponse(e)
    PROVE  IInv'
  <1> DEFINE p == Peer(e)
  <1>0. Typed /\ Typed'
    BY TypedOnResponse DEF IInv
  <1>1. p \in Ends /\ p # e /\ Peer(p) = e /\ p = Peer(e) /\ \A x \in Ends : x = e \/ x = p
    BY Peers
  <1>2. /\ Frame(e) \in DataFrames /\ Answer(Frame(e))
        /\ UNCHANGED <<outbox, icebox, writeable, writing, lastNo, received, pendingRequests, ready, unsent, inbox>>
        /\ ResponseRefused(e) \/ ResponseTaken(e) \/ ResponseDamaged(e)
    BY <1>0, OnResponseIs
  <1>3. Receiving(e, {"RES", "ERR"})
    BY DEF OnResponse
  <1> HIDE DEF p
  <1>4. AnswerExpected(pendingResponses[e], Channel(p), Frame(e))
    BY <1>1, AnswerIsExpected
  <1>5. ~ResponseRefused(e)
    BY <1>4 DEF ResponseRefused, AnswerExpected
  <1>6. ReceivedOnly(e)
    BY <1>2, <1>5 DEF ReceivedOnly, ResponseTaken, ResponseDamaged
  <1>7. pendingRequests'[p] = pendingRequests[p] /\ received'[p] = received[p] /\ inbox'[e] = inbox[e] /\ inbox'[p] = inbox[p]
    BY <1>2
  <1>8. CASE ResponseTaken(e)
    <2>1. /\ pendingResponses' = [pendingResponses EXCEPT ![e] =
                                   Keep(pendingResponses[e], Frame(e), Accept(pendingResponses[e][Frame(e).no], Frame(e)))]
          /\ UNCHANGED <<state, sock, faults>>
      BY <1>8 DEF ResponseTaken
    <2>2. /\ pendingResponses'[e] = Keep(pendingResponses[e], Frame(e), Accept(pendingResponses[e][Frame(e).no], Frame(e)))
          /\ pendingResponses'[p] = pendingResponses[p]
      <3>1. DOMAIN pendingResponses = Ends
        BY <1>0 DEF Typed
      <3>2. QED BY <1>1, <2>1, <3>1
    <2>3. AnswerTaken(pendingResponses[e], pendingResponses'[e], Channel(p), Frame(e))
      BY <1>4, <2>2, AnswerIsTaken
    <2>4. GoesOn(e, p)
      BY <1>1, <1>2, <1>3, <2>1, <2>2, FrameGoesOn
    <2>5. /\ SameHeld(p) /\ AnswersKept(p) /\ RequestsKept(e) /\ RequestsKept(p) /\ AnswersKept(e)
          /\ lastNo'[p] = lastNo[p] /\ lastNo'[e] = lastNo[e]
      BY <1>0, <1>1, <1>6, ReceivedAny
    <2>6. ResponseGoesOn(e, p)
      BY <1>2, <1>4, <2>1, <2>3, <2>4, <2>5 DEF ResponseGoesOn
    <2>7. InOnePlace' /\ RightOutcomes'
      BY <1>0, <1>1, <1>4, <1>6, <1>8, <2>2, <2>3, ResponsePlaces
    <2>8. \A x \in Ends : Owned(x)' /\ Numbered(x)'
      <3>1. FewerExpected(pendingResponses[e], pendingResponses'[e])
        BY <2>3 DEF FewerExpected, AnswerTaken
      <3>2. FewerExpected(pendingResponses[p], pendingResponses'[p])
        BY <2>2 DEF FewerExpected
      <3>3. \A x \in Ends : FewerExpected(pendingResponses[x], pendingResponses'[x])
        BY <1>1, <3>1, <3>2
      <3>4. QED BY <1>0, <1>6, <3>3, OwnedReceived
    <2>9. NoReopening /\ Channel(e)' = Channel(e) /\ SameRequests(Channel(e), Channel(e)') /\ SameAnswers(Channel(e), Channel(e)')
      BY <2>4 DEF GoesOn, SameFrames
    <2>10. SameRequests(Channel(p), Channel(p)')
      <3>1. Channel(p) \in Seq(Frames) /\ Channel(p) # << >> /\ Channel(p)' = Tail(Channel(p)) /\ Head(Channel(p)).type # "REQ"
        BY <1>0, <1>1, <1>2, <2>4, TypedChannels DEF GoesOn, Answer
      <3>2. QED BY <3>1, FrameTaken
    <2>11. Link(e, p)'
      <3>1. RequestsArrive(e, p) /\ RequestsGoOn(e, p) /\ lastNo[e] <= lastNo'[e]
        BY <1>0, <1>1, <2>5 DEF IInv, Link, Typed
      <3>2. RequestsArrive(e, p)'
        BY <1>0, <1>1, <1>7, <2>9, <3>1, ArriveSame
      <3>3. RequestsGoOn(e, p)'
        BY <1>1, <1>7, <2>5, <2>9, <3>1, GoOnSame
      <3>4. QED BY <1>0, <1>1, <2>6, <3>2, <3>3, ResponseCounts, ResponseMatches DEF Link
    <2>12. Link(p, e)'
      <3>1. FewerAnswers(Channel(e), Channel(e)') /\ pendingRequests'[e] = pendingRequests[e] /\ received'[e] = received[e]
        BY <1>2, <2>9 DEF SameAnswers
      <3>2. QED BY <1>0, <1>1, <1>7, <2>2, <2>5, <2>9, <2>10, <3>1, LinkSame
    <2>13. NoProtocolError'
      BY <2>1 DEF IInv, NoProtocolError
    <2>14. \A x \in Ends : ClosedIsEmpty(x)' /\ Link(x, Peer(x))'
      BY <1>1, <2>4, <2>11, <2>12 DEF GoesOn
    <2>15. QED BY <1>0, <2>7, <2>8, <2>13, <2>14 DEF IInv
  <1>9. CASE ResponseDamaged(e)
    <2>1. CloseWithError(e) /\ faults' = faults + 1
      BY <1>9 DEF ResponseDamaged
    <2>2. FewerExpected(pendingResponses[e], pendingResponses'[e]) /\ pendingResponses'[p] = pendingResponses[p]
      BY <1>0, <1>1, <1>2, <1>9, DamagedPending
    <2>3. Fails(e, p)
      BY <1>1, <1>2, <1>3, <2>1, <2>2, FrameFails
    <2>4. Link(e, p)' /\ Link(p, e)'
      BY <1>0, <1>1, <1>6, <1>7, <2>2, <2>3, FailedLinks
    <2>5. InOnePlace' /\ RightOutcomes'
      BY <1>0, <1>2, <1>6, <1>9, DamagedPlaces
    <2>6. \A x \in Ends : Owned(x)' /\ Numbered(x)'
      <3>1. FewerExpected(pendingResponses[p], pendingResponses'[p])
        BY <2>2 DEF FewerExpected
      <3>2. \A x \in Ends : FewerExpected(pendingResponses[x], pendingResponses'[x])
        BY <1>1, <2>2, <3>1
      <3>3. QED BY <1>0, <1>6, <3>2, OwnedReceived
    <2>7. NoProtocolError'
      BY <1>0, <2>1 DEF Typed, NoProtocolError
    <2>8. \A x \in Ends : ClosedIsEmpty(x)' /\ Link(x, Peer(x))'
      BY <1>1, <2>3, <2>4 DEF Fails
    <2>9. QED BY <1>0, <2>5, <2>6, <2>7, <2>8 DEF IInv
  <1>10. QED BY <1>2, <1>5, <1>8, <1>9

-----------------------------------------------------------------------------
(* The connection ends: what was in the socket of e, and on the way to it, *)
(* is lost.  A first part of the frames, and a last part                   *)
LEMMA FirstRequests ==
    ASSUME NEW a \in Seq(Frames), NEW b \in Seq(Frames)
    PROVE  FewerRequests(a \o b, b)
  <1> DEFINE c == a \o b
  <1>1. /\ c \in Seq(Frames) /\ Len(c) = Len(a) + Len(b) /\ Len(a) \in Nat /\ Len(b) \in Nat
        /\ \A i \in Len(a) + 1 .. Len(a) + Len(b) : c[i] = b[i - Len(a)]
    BY Concatenated
  <1>2. ASSUME NEW n PROVE Total(LastOfRequest(n), b) <= Total(LastOfRequest(n), c)
    <2>1. LastOfRequest(n) \in [Frames -> Nat]
      BY FrameWeights
    <2>2. Total(LastOfRequest(n), c) = Total(LastOfRequest(n), a) + Total(LastOfRequest(n), b)
      BY <2>1, TotalConcatenated
    <2>3. Total(LastOfRequest(n), a) \in Nat /\ Total(LastOfRequest(n), b) \in Nat
      BY FrameTotals
    <2> HIDE DEF c
    <2>4. QED BY <2>2, <2>3
  <1>3. ASSUME NEW k \in DOMAIN b PROVE \E j \in DOMAIN c : b[k] = c[j]
    <2>1. k \in 1 .. Len(b) /\ DOMAIN c = 1 .. Len(c)
      BY <1>1
    <2> HIDE DEF c
    <2>2. Len(a) + k \in DOMAIN c /\ c[Len(a) + k] = b[(Len(a) + k) - Len(a)] /\ (Len(a) + k) - Len(a) = k
      BY <1>1, <2>1
    <2>3. QED BY <2>2
  <1>4. QED BY <1>2, <1>3 DEF FewerRequests

LEMMA LastAnswers ==
    ASSUME NEW a \in Seq(Frames), NEW b \in Seq(Frames),
           \A k \in DOMAIN (a \o b) : Answer((a \o b)[k]) =>
               \A j \in k + 1 .. Len(a \o b) :
                   Answer((a \o b)[j]) /\ (a \o b)[j].no = (a \o b)[k].no => (a \o b)[k].more
    PROVE  FewerAnswers(a \o b, a)
  <1> DEFINE c == a \o b
  <1>1. /\ c \in Seq(Frames) /\ Len(c) = Len(a) + Len(b) /\ Len(a) \in Nat /\ Len(b) \in Nat
        /\ \A i \in 1 .. Len(a) : c[i] = a[i]
        /\ \A i \in Len(a) + 1 .. Len(a) + Len(b) : c[i] = b[i - Len(a)]
        /\ DOMAIN a = 1 .. Len(a) /\ DOMAIN b = 1 .. Len(b) /\ DOMAIN c = 1 .. Len(c)
    BY Concatenated
  <1>2. \A k \in DOMAIN c : Answer(c[k]) => \A j \in k + 1 .. Len(c) : Answer(c[j]) /\ c[j].no = c[k].no => c[k].more
    OBVIOUS
  <1>3. \A n : /\ Total(LastOfAnswer(n), c) = Total(LastOfAnswer(n), a) + Total(LastOfAnswer(n), b)
               /\ Total(BytesOf(n), c) = Total(BytesOf(n), a) + Total(BytesOf(n), b)
    <2>1. \A n : LastOfAnswer(n) \in [Frames -> Nat] /\ BytesOf(n) \in [Frames -> Nat]
      BY FrameWeights
    <2>2. QED BY <2>1, TotalConcatenated
  <1>4. \A n : /\ Total(LastOfAnswer(n), a) \in Nat /\ Total(LastOfAnswer(n), b) \in Nat
               /\ Total(BytesOf(n), a) \in Nat /\ Total(BytesOf(n), b) \in Nat
    BY FrameTotals
  <1> HIDE DEF c
  <1>5. \A n : Total(LastOfAnswer(n), a) <= Total(LastOfAnswer(n), c) /\ Total(BytesOf(n), a) <= Total(BytesOf(n), c)
    BY <1>3, <1>4
  <1>6. ASSUME NEW k \in DOMAIN a, Answer(a[k]), ~a[k].more PROVE Total(BytesOf(a[k].no), a) = Total(BytesOf(a[k].no), c)
    <2> DEFINE n == a[k].no
    <2>1. k \in DOMAIN c /\ c[k] = a[k] /\ k \in Nat /\ k <= Len(a)
      BY <1>1
    <2>2. \A j \in k + 1 .. Len(c) : ~(Answer(c[j]) /\ c[j].no = n)
      BY <1>2, <1>6, <2>1
    <2> HIDE DEF n
    <2>3. ASSUME NEW i \in DOMAIN b PROVE BytesOf(n)[b[i]] = 0
      <3>1. Len(a) + i \in k + 1 .. Len(c) /\ Len(a) + i \in Len(a) + 1 .. Len(a) + Len(b) /\ (Len(a) + i) - Len(a) = i
        BY <1>1, <2>1
      <3>2. c[Len(a) + i] = b[i]
        BY <1>1, <3>1
      <3>3. ~(Answer(b[i]) /\ b[i].no = n) /\ b[i] \in Frames
        BY <1>1, <2>2, <3>1, <3>2, ElementIs
      <3> DEFINE g == b[i]
      <3> HIDE DEF g
      <3>4. BytesOf(n)[g] = IF Answer(g) /\ g.no = n THEN g.size ELSE 0
        BY <3>3, FrameWeightsAre DEF g
      <3>5. QED BY <3>3, <3>4 DEF g
    <2>4. Total(BytesOf(n), b) = 0
      <3>1. BytesOf(n) \in [Frames -> Nat]
        BY FrameWeights
      <3>2. QED BY <2>3, <3>1, TotalZero
    <2>5. Total(BytesOf(n), c) = Total(BytesOf(n), a) + 0
      BY <1>3, <2>4
    <2>6. QED BY <1>4, <2>5 DEF n
  <1>7. AnswersMoved(c, a, 0)
    <2>1. ASSUME NEW k \in DOMAIN a PROVE k + 0 \in DOMAIN c /\ a[k] = c[k + 0]
      BY <1>1
    <2>2. QED BY <2>1 DEF AnswersMoved
  <1>8. FewerAnswers(c, a)
    BY <1>5, <1>6, <1>7 DEF FewerAnswers
  <1>9. QED BY <1>8 DEF c

(* What is left at the ends *)
EndedAt(e, p) ==
    /\ state'[e] = "closed" /\ state'[p] = state[p]
    /\ outbox'[e] = << >> /\ icebox'[e] = << >> /\ mailbox'[e] = mailbox[e]
    /\ outbox'[p] = outbox[p] /\ icebox'[p] = icebox[p] /\ mailbox'[p] = mailbox[p]
    /\ DOMAIN pendingResponses'[e] = {} /\ pendingResponses'[p] = pendingResponses[p]
    /\ pendingRequests'[p] = pendingRequests[p]
    /\ sock'[e] = << >> /\ sock'[p] = sock[p] /\ wire'[p] = << >> /\ wire'[e] = wire[e]
    /\ Channel(e)' = wire[e] /\ Channel(p)' = sock[p]
    /\ ~ready'[e] /\ ready'[p] = ready[p] /\ ~writing[e]
    /\ UNCHANGED <<writeable, writing, lastNo, received, mailbox, unsent, inbox>>

LEMMA ConnectionEnds ==
    ASSUME Typed, NEW e \in Ends, NEW p \in Ends, p = Peer(e), EndConnection(e)
    PROVE  EndedAt(e, p)
  <1>1. p # e
    BY Peers
  <1>2. /\ state' = [state EXCEPT ![e] = "closed"]
        /\ outbox' = [outbox EXCEPT ![e] = << >>] /\ icebox' = [icebox EXCEPT ![e] = << >>]
        /\ pendingRequests' = [pendingRequests EXCEPT ![e] = NothingPending]
        /\ pendingResponses' = [pendingResponses EXCEPT ![e] = NothingPending]
        /\ sock' = [sock EXCEPT ![e] = << >>] /\ wire' = [wire EXCEPT ![p] = << >>]
        /\ ready' = [ready EXCEPT ![e] = FALSE]
        /\ ~writing[e]
        /\ UNCHANGED <<writeable, writing, lastNo, received, mailbox, unsent, inbox>>
    BY EndConnectionIs
  <1>3. /\ DOMAIN pendingRequests = Ends /\ DOMAIN pendingResponses = Ends
        /\ outbox \in [Ends -> Seq(Messages)] /\ icebox \in [Ends -> Seq(Messages)]
        /\ state \in [Ends -> {"open", "closing", "error", "closed"}]
        /\ sock \in [Ends -> Seq(Frames)] /\ wire \in [Ends -> Seq(Frames)] /\ ready \in [Ends -> BOOLEAN]
    BY DEF Typed
  <1>4. /\ state'[e] = "closed" /\ state'[p] = state[p]
        /\ outbox'[e] = << >> /\ outbox'[p] = outbox[p] /\ icebox'[e] = << >> /\ icebox'[p] = icebox[p]
        /\ mailbox'[e] = mailbox[e] /\ mailbox'[p] = mailbox[p] /\ ~ready'[e] /\ ready'[p] = ready[p]
    BY <1>1, <1>2, <1>3
  <1>5. DOMAIN pendingResponses'[e] = {} /\ pendingResponses'[p] = pendingResponses[p] /\ pendingRequests'[p] = pendingRequests[p]
    <2>1. DOMAIN NothingPending = {}
      BY DEF NothingPending
    <2>2. pendingResponses'[e] = NothingPending /\ pendingResponses'[p] = pendingResponses[p] /\ pendingRequests'[p] = pendingRequests[p]
      BY <1>1, <1>2, <1>3
    <2>3. QED BY <2>1, <2>2
  <1>6. sock'[e] = << >> /\ sock'[p] = sock[p] /\ wire'[p] = << >> /\ wire'[e] = wire[e]
    BY <1>1, <1>2, <1>3
  <1>7. Channel(e)' = wire[e] /\ Channel(p)' = sock[p]
    <2>1. wire[e] \in Seq(Frames) /\ sock[e] \in Seq(Frames) /\ wire[p] \in Seq(Frames) /\ sock[p] \in Seq(Frames)
      BY <1>3
    <2>2. wire[e] \o << >> = wire[e] /\ << >> \o sock[p] = sock[p]
      BY <2>1, ChannelIs
    <2>3. QED BY <1>6, <2>2 DEF Channel
  <1>8. QED BY <1>2, <1>4, <1>5, <1>6, <1>7 DEF EndedAt

LEMMA EndedHeld ==
    ASSUME IInv, Typed', NEW e \in Ends, NEW p \in Ends, p = Peer(e), EndedAt(e, p)
    PROVE  /\ AnswersKept(e) /\ AlikeHeld(e) /\ FewerHeld(e) /\ Kept(p)
           /\ \A x \in Ends : Owned(x)' /\ Numbered(x)' /\ ClosedIsEmpty(x)'
           /\ \A w \in [Messages -> Nat] :
                 /\ Held(w, e) = Total(w, mailbox[e]) + Total(w, outbox[e] \o icebox[e])
                 /\ Held(w, e)' = Total(w, mailbox[e])
                 /\ Total(w, mailbox[e]) \in Nat /\ Total(w, outbox[e] \o icebox[e]) \in Nat
  <1>0. Typed /\ mailbox[e] \in Seq(Messages) /\ outbox[e] \in Seq(Messages) /\ icebox[e] \in Seq(Messages)
    BY DEF IInv, Typed
  <1>1. /\ mailbox'[e] = mailbox[e] /\ outbox'[e] = << >> /\ icebox'[e] = << >>
        /\ mailbox'[p] = mailbox[p] /\ outbox'[p] = outbox[p] /\ icebox'[p] = icebox[p]
        /\ lastNo' = lastNo
    BY DEF EndedAt
  <1>2. ASSUME NEW w \in [Messages -> Nat]
        PROVE  /\ Held(w, e) = Total(w, mailbox[e]) + Total(w, outbox[e] \o icebox[e])
               /\ Held(w, e)' = Total(w, mailbox[e])
               /\ Total(w, mailbox[e]) \in Nat /\ Total(w, outbox[e] \o icebox[e]) \in Nat
    <2> DEFINE a == Total(w, mailbox[e])
               b == Total(w, outbox[e])
               c == Total(w, icebox[e])
               t == Total(w, outbox[e] \o icebox[e])
    <2>1. a \in Nat /\ b \in Nat /\ c \in Nat
      BY <1>0, TotalIs
    <2>2. t = b + c
      BY <1>0, TotalConcatenated
    <2>3. Held(w, e) = a + b + c
      BY DEF Held
    <2>4. Total(w, << >>) = 0
      BY TotalOfNone
    <2>5. Held(w, e)' = a + 0 + 0
      BY <1>1, <2>4 DEF Held
    <2> HIDE DEF a, b, c, t
    <2>6. a + b + c = a + t /\ a + 0 + 0 = a /\ t \in Nat
      BY <2>1, <2>2
    <2>7. QED BY <2>1, <2>3, <2>5, <2>6 DEF a, t
  <1>3. FewerHeld(e)
    <2>1. ASSUME NEW w \in [Messages -> Nat] PROVE Held(w, e)' <= Held(w, e)
      <3>1. Held(w, e) = Total(w, mailbox[e]) + Total(w, outbox[e] \o icebox[e]) /\ Held(w, e)' = Total(w, mailbox[e])
            /\ Total(w, mailbox[e]) \in Nat /\ Total(w, outbox[e] \o icebox[e]) \in Nat
        BY <1>2
      <3> DEFINE a == Total(w, mailbox[e])
                 t == Total(w, outbox[e] \o icebox[e])
      <3> HIDE DEF a, t
      <3>2. a <= a + t
        BY <3>1 DEF a, t
      <3>3. QED BY <3>1, <3>2 DEF a, t
    <2>2. ASSUME NEW n PROVE Held(RequestNo(n), e)' <= Held(RequestNo(n), e) /\ Held(AnswerNo(n), e)' <= Held(AnswerNo(n), e)
      <3>1. RequestNo(n) \in [Messages -> Nat] /\ AnswerNo(n) \in [Messages -> Nat]
        BY MessageWeights
      <3>2. QED BY <2>1, <3>1
    <2>3. QED BY <2>2 DEF FewerHeld
  <1>4. AlikeHeld(e)
    <2>1. HeldBy(e)' = Range(mailbox[e]) \cup Range(<< >>) \cup Range(<< >>)
      BY <1>1 DEF HeldBy
    <2>2. Range(<< >>) = {}
      BY DEF Range
    <2>3. HeldBy(e)' \subseteq HeldBy(e)
      BY <2>1, <2>2 DEF HeldBy
    <2>4. QED BY <2>3, AlikeSelf DEF AlikeHeld
  <1>5. AnswersKept(e)
    BY <1>3, <1>4, FewerKept
  <1>6. Kept(p)
    BY <1>1, KeptUnchanged
  <1>7. FewerHeld(p) /\ AlikeHeld(p)
    BY <1>0, <1>6, KeptIsFewer DEF Kept
  <1>8. FewerExpected(pendingResponses[e], pendingResponses'[e]) /\ FewerExpected(pendingResponses[p], pendingResponses'[p])
    BY DEF FewerExpected, EndedAt
  <1>9. \A x \in Ends : x = e \/ x = p
    BY Peers
  <1>10. ASSUME NEW x \in Ends PROVE Owned(x)' /\ Numbered(x)' /\ ClosedIsEmpty(x)'
    <2>1. Owned(x) /\ Numbered(x) /\ ClosedIsEmpty(x) /\ lastNo[x] <= lastNo'[x]
      BY <1>0, <1>1 DEF IInv, Typed
    <2>2. Owned(x)'
      BY <1>4, <1>7, <1>8, <1>9, <2>1, OwnedKept
    <2>3. Numbered(x)'
      BY <1>0, <1>3, <1>7, <1>8, <1>9, <2>1, NumberedKept
    <2>4. ClosedIsEmpty(x)'
      <3>1. CASE x = e
        BY <3>1 DEF ClosedIsEmpty, EndedAt
      <3>2. CASE x = p
        BY <2>1, <3>2 DEF ClosedIsEmpty, EndedAt
      <3>3. QED BY <1>9, <3>1, <3>2
    <2>5. QED BY <2>2, <2>3, <2>4
  <1>11. QED BY <1>2, <1>3, <1>4, <1>5, <1>6, <1>10

LEMMA EndedArrives ==
    ASSUME IInv, Typed', NEW e \in Ends, NEW p \in Ends, p = Peer(e), EndedAt(e, p)
    PROVE  RequestsArrive(e, p)'
  <1> DEFINE a == wire[e]
             b == sock[e]
             c == Channel(e)
             c1 == Channel(e)'
  <1>0. Typed /\ RequestsArrive(e, p) /\ a \in Seq(Frames) /\ b \in Seq(Frames) /\ c = a \o b /\ c1 = a
    BY DEF IInv, Typed, Link, Channel, EndedAt
  <1>1. /\ Len(c) = Len(a) + Len(b) /\ Len(a) \in Nat /\ Len(b) \in Nat /\ DOMAIN a = 1 .. Len(a)
        /\ DOMAIN c = 1 .. Len(c) /\ \A i \in 1 .. Len(a) : c[i] = a[i]
    <2> HIDE DEF a, b, c, c1
    <2>1. /\ Len(a \o b) = Len(a) + Len(b) /\ a \o b \in Seq(Frames)
          /\ \A i \in 1 .. Len(a) : (a \o b)[i] = a[i]
      BY <1>0, Concatenated
    <2>2. QED BY <1>0, <2>1
  <1>2. /\ pendingRequests'[p] = pendingRequests[p] /\ received'[p] = received[p] /\ lastNo'[e] = lastNo[e]
        /\ state'[p] = state[p]
    BY DEF EndedAt
  <1> SUFFICES ASSUME Listening(p)'
               PROVE  /\ DOMAIN pendingRequests'[p] \subseteq 1 .. received'[p]
                      /\ \A k \in DOMAIN c1 : c1[k].type = "REQ" =>
                            /\ c1[k].no \in 1 .. lastNo'[e]
                            /\ \A n \in Nat : received'[p] < n /\ n < c1[k].no => \E j \in 1 .. k - 1 : IsFrame(c1, j, n)
                            /\ c1[k].no <= received'[p] => c1[k].no \in DOMAIN pendingRequests'[p]
                            /\ c1[k].no \in DOMAIN pendingRequests'[p] => pendingRequests'[p][c1[k].no].about = c1[k].about
                            /\ \A j \in k + 1 .. Len(c1) : IsFrame(c1, j, c1[k].no) => c1[k].more /\ c1[j].about = c1[k].about
    BY DEF RequestsArrive
  <1>3. Listening(p)
    BY <1>2 DEF Listening
  <1>4. /\ DOMAIN pendingRequests[p] \subseteq 1 .. received[p]
        /\ \A k \in DOMAIN c : c[k].type = "REQ" =>
              /\ c[k].no \in 1 .. lastNo[e]
              /\ \A n \in Nat : received[p] < n /\ n < c[k].no => \E j \in 1 .. k - 1 : IsFrame(c, j, n)
              /\ c[k].no <= received[p] => c[k].no \in DOMAIN pendingRequests[p]
              /\ c[k].no \in DOMAIN pendingRequests[p] => pendingRequests[p][c[k].no].about = c[k].about
              /\ \A j \in k + 1 .. Len(c) : IsFrame(c, j, c[k].no) => c[k].more /\ c[j].about = c[k].about
    BY <1>0, <1>3 DEF RequestsArrive
  <1> HIDE DEF a, b, c, c1
  <1>5. ASSUME NEW k \in DOMAIN a, a[k].type = "REQ"
        PROVE  /\ a[k].no \in 1 .. lastNo[e]
               /\ \A n \in Nat : received[p] < n /\ n < a[k].no => \E j \in 1 .. k - 1 : IsFrame(a, j, n)
               /\ a[k].no <= received[p] => a[k].no \in DOMAIN pendingRequests[p]
               /\ a[k].no \in DOMAIN pendingRequests[p] => pendingRequests[p][a[k].no].about = a[k].about
               /\ \A j \in k + 1 .. Len(a) : IsFrame(a, j, a[k].no) => a[k].more /\ a[j].about = a[k].about
    <2>1. k \in DOMAIN c /\ c[k] = a[k] /\ k \in 1 .. Len(a)
      BY <1>1
    <2>2. /\ a[k].no \in 1 .. lastNo[e]
          /\ \A n \in Nat : received[p] < n /\ n < a[k].no => \E j \in 1 .. k - 1 : IsFrame(c, j, n)
          /\ a[k].no <= received[p] => a[k].no \in DOMAIN pendingRequests[p]
          /\ a[k].no \in DOMAIN pendingRequests[p] => pendingRequests[p][a[k].no].about = a[k].about
          /\ \A j \in k + 1 .. Len(c) : IsFrame(c, j, a[k].no) => a[k].more /\ c[j].about = a[k].about
      BY <1>4, <1>5, <2>1
    <2>3. \A j \in 1 .. Len(a) : \A n : IsFrame(a, j, n) <=> IsFrame(c, j, n)
      BY <1>1 DEF IsFrame
    <2>4. \A j \in 1 .. k - 1 : j \in 1 .. Len(a)
      BY <1>1, <2>1
    <2>5. \A n \in Nat : received[p] < n /\ n < a[k].no => \E j \in 1 .. k - 1 : IsFrame(a, j, n)
      BY <2>2, <2>3, <2>4
    <2>6. ASSUME NEW j \in k + 1 .. Len(a), IsFrame(a, j, a[k].no) PROVE a[k].more /\ a[j].about = a[k].about
      <3>1. j \in k + 1 .. Len(c) /\ j \in 1 .. Len(a) /\ c[j] = a[j]
        BY <1>1, <2>1
      <3>2. QED BY <2>2, <2>3, <2>6, <3>1
    <2>7. QED BY <2>2, <2>5, <2>6
  <1>6. QED BY <1>0, <1>2, <1>4, <1>5

LEMMA EndedLinks ==
    ASSUME IInv, Typed', NEW e \in Ends, NEW p \in Ends, p = Peer(e), EndedAt(e, p)
    PROVE  Link(e, p)' /\ Link(p, e)'
  <1>0. /\ Typed /\ wire[e] \in Seq(Frames) /\ sock[e] \in Seq(Frames) /\ wire[p] \in Seq(Frames) /\ sock[p] \in Seq(Frames)
        /\ Peer(p) = e /\ \A x \in Ends : x = e \/ x = p
    BY Peers DEF IInv, Typed
  <1>1. state'[e] = "closed" /\ state'[p] = state[p] /\ ~Listening(e)'
    BY DEF EndedAt, Listening
  <1>2. RequestsArrive(e, p)'
    BY EndedArrives
  <1>3. RequestsGoOn(e, p)'
    BY <1>1 DEF RequestsGoOn
  <1>4. CASE ~Listening(p)
    <2>1. ~Listening(p)'
      BY <1>1, <1>4 DEF Listening
    <2>2. OneAnswer(e, p)' /\ AnswersMatch(e, p)' /\ RequestsArrive(p, e)' /\ RequestsGoOn(p, e)'
      BY <1>1 DEF OneAnswer, AnswersMatch, RequestsArrive, RequestsGoOn
    <2>3. OneAnswer(p, e)' /\ AnswersMatch(p, e)'
      BY <2>1 DEF OneAnswer, AnswersMatch
    <2>4. QED BY <1>2, <1>3, <2>2, <2>3 DEF Link
  <1>5. CASE Listening(p)
    <2>1. FewerRequests(Channel(p), Channel(p)')
      BY <1>0, FirstRequests DEF Channel, EndedAt
    <2>2. FewerAnswers(Channel(e), Channel(e)')
      <3> DEFINE c == wire[e] \o sock[e]
      <3>1. AnswersMatch(p, e)
        BY <1>0 DEF IInv, Link
      <3>2. \A k \in DOMAIN c : Answer(c[k]) =>
               \A j \in k + 1 .. Len(c) : Answer(c[j]) /\ c[j].no = c[k].no => c[k].more
        BY <1>5, <3>1 DEF AnswersMatch, Channel
      <3>3. FewerAnswers(c, wire[e])
        BY <1>0, <3>2, LastAnswers
      <3>4. QED BY <3>3 DEF Channel, EndedAt
    <2>3. NoReopening
      BY <1>0, <1>1 DEF NoReopening, Listening
    <2>4. AnswersKept(e)
      BY EndedHeld
    <2>5. inbox'[e] \subseteq inbox[e] /\ pendingResponses'[p] = pendingResponses[p]
      BY DEF EndedAt
    <2>6. QED BY <1>1, <1>2, <1>3, <2>1, <2>2, <2>3, <2>4, <2>5, DeafLink
  <1>6. QED BY <1>4, <1>5

(* Everyone who waits is told: the requests in the out-box and the icebox, *)
(* and those of which an answer is expected.                               *)
LEMMA EndedPlaces ==
    ASSUME IInv, Typed', NEW e \in Ends, NEW p \in Ends, p = Peer(e), EndedAt(e, p),
           outcome' = Disconnected(Disconnected(outcome, OwnRequests(outbox[e] \o icebox[e])),
                                   {pendingResponses[e][n].about : n \in DOMAIN pendingResponses[e]})
    PROVE  InOnePlace'
  <1> DEFINE box == outbox[e] \o icebox[e]
             x == pendingResponses[e]
             waiting == {x[n].about : n \in DOMAIN x}
             out == Disconnected(outcome, OwnRequests(box))
  <1>0. /\ Typed /\ Owned(e) /\ outcome \in [Requests -> Seq(Outcomes)] /\ box \in Seq(Messages)
        /\ out \in [Requests -> Seq(Outcomes)] /\ unsent' = unsent /\ p # e
    <2>1. Typed /\ Owned(e) /\ outcome \in [Requests -> Seq(Outcomes)] /\ unsent' = unsent /\ p # e
      BY Peers DEF IInv, Typed, EndedAt
    <2>2. outbox[e] \in Seq(Messages) /\ icebox[e] \in Seq(Messages)
      BY <2>1 DEF Typed
    <2>3. box \in Seq(Messages)
      BY <2>2, Concatenated
    <2>4. QED BY <2>1, <2>3, DisconnectedIs
  <1>1. \A q \in Requests : q.from \in Ends /\ q.reply \in BOOLEAN
    BY RequestIs
  <1>2. \A q \in Requests : q.from = e \/ q.from = p
    BY <1>1, Peers
  <1>3. \A i \in DOMAIN box : box[i] \in HeldBy(e)
    <2> DEFINE a == outbox[e]
               b == icebox[e]
               c == a \o b
    <2>1. a \in Seq(Messages) /\ b \in Seq(Messages)
      BY <1>0 DEF Typed
    <2>2. Range(a) \subseteq HeldBy(e) /\ Range(b) \subseteq HeldBy(e)
      BY DEF HeldBy
    <2> HIDE DEF a, b
    <2>3. /\ c \in Seq(Messages) /\ Len(c) = Len(a) + Len(b)
          /\ \A i \in 1 .. Len(a) : c[i] = a[i]
          /\ \A i \in Len(a) + 1 .. Len(a) + Len(b) : c[i] = b[i - Len(a)]
      BY <2>1, Concatenated
    <2> HIDE DEF c
    <2>4. /\ DOMAIN c = 1 .. Len(c) /\ Len(a) \in Nat /\ Len(b) \in Nat
          /\ DOMAIN a = 1 .. Len(a) /\ DOMAIN b = 1 .. Len(b)
      BY <2>1, <2>3
    <2>5. ASSUME NEW i \in DOMAIN c PROVE c[i] \in Range(a) \cup Range(b)
      <3>1. CASE i <= Len(a)
        <4>1. i \in DOMAIN a /\ c[i] = a[i]
          BY <2>3, <2>4, <3>1
        <4>2. QED BY <4>1 DEF Range
      <3>2. CASE ~(i <= Len(a))
        <4>1. i - Len(a) \in DOMAIN b /\ c[i] = b[i - Len(a)]
          BY <2>3, <2>4, <3>2
        <4>2. QED BY <4>1 DEF Range
      <3>3. QED BY <3>1, <3>2
    <2>6. \A i \in DOMAIN c : c[i] \in HeldBy(e)
      BY <2>2, <2>5
    <2>7. QED BY <2>6 DEF a, b, c
  <1>4. \A q : q \in OwnRequests(box) => q.from = e
    <2>1. ASSUME NEW q, q \in OwnRequests(box) PROVE q.from = e
      <3>1. PICK i \in DOMAIN box : box[i].type = "REQ" /\ box[i].about = q
        BY <2>1 DEF OwnRequests
      <3>2. box[i] \in HeldBy(e)
        BY <1>3
      <3> HIDE DEF box
      <3>3. QED BY <1>0, <3>1, <3>2 DEF Owned
    <2>2. QED BY <2>1
  <1>5. \A q : q \in waiting => q.from = e /\ q.reply
    BY <1>0 DEF Owned
  <1>6. \A q \in Requests : q.from = e => (Waits(q) <=> q \in waiting) /\ ~Waits(q)'
    BY DEF Waits, EndedAt
  <1>7. outcome' = Disconnected(out, waiting)
    OBVIOUS
  <1>8. ASSUME NEW q \in Requests
        PROVE  /\ Len(outcome[q]) \in Nat
               /\ Len(out[q]) = Len(outcome[q]) + (IF q \in OwnRequests(box) /\ q.reply THEN 1 ELSE 0)
               /\ Len(outcome'[q]) = Len(out[q]) + (IF q \in waiting /\ q.reply THEN 1 ELSE 0)
    <2> HIDE DEF box, waiting
    <2>1. Len(outcome[q]) \in Nat /\ Len(out[q]) = Len(outcome[q]) + (IF q \in OwnRequests(box) /\ q.reply THEN 1 ELSE 0)
      BY <1>0, DisconnectedOutcomes
    <2> HIDE DEF out
    <2>2. Len(Disconnected(out, waiting)[q]) = Len(out[q]) + (IF q \in waiting /\ q.reply THEN 1 ELSE 0)
      BY <1>0, DisconnectedOutcomes
    <2>3. QED BY <1>7, <2>1, <2>2
  <1>9. ASSUME NEW q \in Requests, q.from = e
        PROVE  Places(q)' <= 1 /\ (q.reply /\ "ERR" \notin Damaged => Places(q)' = 1)
    <2> DEFINE u == One(q \in unsent)
               m == Total(RequestOf(q), mailbox[e])
               t == Total(RequestOf(q), box)
               l == Len(outcome[q])
               i == One(Waits(q))
               k == Len(out[q])
               l1 == Len(outcome'[q])
    <2>1. RequestOf(q) \in [Messages -> Nat]
      BY MessageWeights
    <2>2. Held(RequestOf(q), e) = m + t /\ Held(RequestOf(q), e)' = m /\ m \in Nat /\ t \in Nat
      BY <2>1, EndedHeld
    <2>3. Places(q) = u + (m + t) + i + l
      BY <1>9, <2>2 DEF Places
    <2>4. Places(q)' = u + m + 0 + l1
      <3>1. ~Waits(q)'
        BY <1>6, <1>9
      <3>2. One(Waits(q)') = 0
        BY <3>1 DEF One
      <3>3. Places(q)' = u + Held(RequestOf(q), e)' + One(Waits(q)') + l1
        BY <1>0, <1>9 DEF Places
      <3>4. QED BY <2>2, <3>2, <3>3
    <2>5. Places(q) <= 1 /\ (q.reply /\ "ERR" \notin Damaged => Places(q) = 1)
      BY DEF IInv, InOnePlace
    <2>6. u \in Nat /\ i \in Nat /\ l \in Nat
      BY <1>8 DEF One
    <2>7. l1 = k + i
      <3>1. CASE Waits(q)
        <4>1. q \in waiting /\ q.reply
          BY <1>5, <1>6, <1>9, <3>1
        <4>2. l1 = k + 1
          BY <1>8, <4>1
        <4>3. i = 1
          BY <3>1 DEF One
        <4>4. QED BY <4>2, <4>3
      <3>2. CASE ~Waits(q)
        <4>1. q \notin waiting
          BY <1>6, <1>9, <3>2
        <4>2. l1 = k + 0
          BY <1>8, <4>1
        <4>3. i = 0
          BY <3>2 DEF One
        <4>4. QED BY <4>2, <4>3
      <3>3. QED BY <3>1, <3>2
    <2>8. /\ (q \in OwnRequests(box) /\ q.reply) => k = l + 1
          /\ ~(q \in OwnRequests(box) /\ q.reply) => k = l + 0
      BY <1>8
    <2>9. (q \in OwnRequests(box) => t >= 1) /\ (q \notin OwnRequests(box) => t = 0)
      BY <1>0, OwnRequestsTotal
    <2> HIDE DEF u, m, t, l, i, k, l1, box
    <2>10. CASE q \in OwnRequests(box) /\ q.reply
      <3>1. k = l + 1 /\ t >= 1
        BY <2>8, <2>9, <2>10
      <3>2. u + m + 0 + l1 <= 1 /\ (u + (m + t) + i + l = 1 => u + m + 0 + l1 = 1)
        BY <2>2, <2>3, <2>5, <2>6, <2>7, <3>1
      <3>3. QED BY <2>3, <2>4, <2>5, <3>2
    <2>11. CASE ~(q \in OwnRequests(box) /\ q.reply)
      <3>1. k = l
        BY <2>6, <2>8, <2>11
      <3>2. q.reply => t = 0
        BY <2>9, <2>11
      <3>3. u + m + 0 + l1 <= 1 /\ (t = 0 /\ u + (m + t) + i + l = 1 => u + m + 0 + l1 = 1)
        BY <2>2, <2>3, <2>5, <2>6, <2>7, <3>1
      <3>4. QED BY <2>3, <2>4, <2>5, <3>2, <3>3
    <2>12. QED BY <2>10, <2>11
  <1>10. ASSUME NEW q \in Requests, q.from = p PROVE Places(q)' = Places(q)
    <2>1. SameHeld(p)
      BY EndedHeld DEF Kept
    <2>2. Held(RequestOf(q), p)' = Held(RequestOf(q), p)
      BY <2>1 DEF SameHeld
    <2>3. Waits(q)' = Waits(q)
      BY <1>10 DEF Waits, EndedAt
    <2>4. q \notin OwnRequests(box) /\ q \notin waiting
      BY <1>0, <1>4, <1>5, <1>10
    <2>5. Len(outcome'[q]) = Len(outcome[q])
      <3>1. Len(outcome[q]) \in Nat /\ Len(out[q]) = Len(outcome[q]) + 0 /\ Len(outcome'[q]) = Len(out[q]) + 0
        BY <1>8, <2>4
      <3>2. QED BY <3>1
    <2>6. QED BY <1>0, <1>10, <2>2, <2>3, <2>5 DEF Places
  <1>11. ASSUME NEW q \in Requests PROVE Places(q)' <= 1 /\ (q.reply /\ "ERR" \notin Damaged => Places(q)' = 1)
    <2>1. Places(q) <= 1 /\ (q.reply /\ "ERR" \notin Damaged => Places(q) = 1)
      BY DEF IInv, InOnePlace
    <2>2. QED BY <1>2, <1>9, <1>10, <2>1
  <1>12. QED BY <1>11 DEF InOnePlace

(* _closed(), at either end, and a connection that is lost *)
LEMMA EndStep ==
    ASSUME IInv, NEW e \in Ends, Closed(e) \/ Lost(e)
    PROVE  IInv'
  <1> DEFINE p == Peer(e)
  <1>0. Typed /\ Typed'
    BY TypedEnd DEF IInv
  <1>1. p \in Ends /\ p = Peer(e) /\ Peer(p) = e /\ \A x \in Ends : x = e \/ x = p
    BY Peers
  <1>2. EndConnection(e)
    BY DEF Closed, Lost
  <1> HIDE DEF p
  <1>3. EndedAt(e, p)
    BY <1>0, <1>1, <1>2, ConnectionEnds
  <1>4. outcome' = Disconnected(Disconnected(outcome, OwnRequests(outbox[e] \o icebox[e])),
                                {pendingResponses[e][n].about : n \in DOMAIN pendingResponses[e]})
    BY <1>0, <1>2, EndConnectionIs
  <1>5. InOnePlace'
    BY <1>0, <1>1, <1>3, <1>4, EndedPlaces
  <1>6. RightOutcomes'
    <2> DEFINE qs == OwnRequests(outbox[e] \o icebox[e])
               out == Disconnected(outcome, qs)
               rs == {pendingResponses[e][n].about : n \in DOMAIN pendingResponses[e]}
    <2>1. outcome \in [Requests -> Seq(Outcomes)] /\ RightOnly(outcome)
      BY <1>0 DEF Typed, IInv, RightOutcomes, RightOnly
    <2> HIDE DEF qs, rs
    <2>2. RightOnly(out) /\ out \in [Requests -> Seq(Outcomes)]
      BY <2>1, RightDisconnected, DisconnectedIs
    <2> HIDE DEF out
    <2>3. RightOnly(Disconnected(out, rs))
      BY <2>2, RightDisconnected
    <2>4. RightOnly(outcome')
      BY <1>4, <2>3 DEF out, qs, rs
    <2>5. QED BY <2>4 DEF RightOnly, RightOutcomes
  <1>7. NoProtocolError'
    <2>1. CASE Closed(e)
      BY <2>1 DEF Closed, IInv, NoProtocolError
    <2>2. CASE Lost(e)
      BY <1>0, <2>2 DEF Lost, Fault, NoProtocolError, Typed
    <2>3. QED BY <2>1, <2>2
  <1>8. \A x \in Ends : Owned(x)' /\ Numbered(x)' /\ ClosedIsEmpty(x)'
    BY <1>0, <1>1, <1>3, EndedHeld
  <1>9. \A x \in Ends : Link(x, Peer(x))'
    BY <1>0, <1>1, <1>3, EndedLinks
  <1>10. QED BY <1>0, <1>5, <1>6, <1>7, <1>8, <1>9 DEF IInv

-----------------------------------------------------------------------------
(* At first nothing is under way.                                          *)
LEMMA NothingAtFirst ==
    ASSUME Init
    PROVE  IInv
  <1>1. Typed
    <2>1. IsPending(NothingPending)
      BY DEF NothingPending, IsPending
    <2>2. /\ outbox \in [Ends -> Seq(Messages)] /\ icebox \in [Ends -> Seq(Messages)] /\ mailbox \in [Ends -> Seq(Messages)]
          /\ sock \in [Ends -> Seq(Frames)] /\ wire \in [Ends -> Seq(Frames)]
      BY DEF Init
    <2>3. /\ DOMAIN pendingRequests = Ends /\ DOMAIN pendingResponses = Ends
          /\ \A e \in Ends : IsPending(pendingRequests[e]) /\ IsPending(pendingResponses[e])
      BY <2>1 DEF Init
    <2>4. outcome \in [Requests -> Seq(Outcomes)]
      BY DEF Init
    <2>5. /\ writeable \in [Ends -> BOOLEAN] /\ writing \in [Ends -> BOOLEAN] /\ ready \in [Ends -> BOOLEAN]
          /\ lastNo \in [Ends -> Nat] /\ received \in [Ends -> Nat]
          /\ state \in [Ends -> {"open", "closing", "error", "closed"}]
          /\ unsent \subseteq Requests /\ faults \in Nat
          /\ inbox \in [Ends -> SUBSET [no : Nat \ {0}, about : Requests]]
      BY DEF Init
    <2>6. QED BY <2>2, <2>3, <2>4, <2>5 DEF Typed
  <1>2. ASSUME NEW e \in Ends
        PROVE  /\ mailbox[e] = << >> /\ outbox[e] = << >> /\ icebox[e] = << >> /\ sock[e] = << >> /\ wire[e] = << >>
               /\ DOMAIN pendingRequests[e] = {} /\ DOMAIN pendingResponses[e] = {}
               /\ inbox[e] = {} /\ lastNo[e] = 0 /\ received[e] = 0 /\ state[e] = "open"
    BY DEF Init, NothingPending
  <1>3. ASSUME NEW e \in Ends PROVE HeldBy(e) = {} /\ Channel(e) = << >> /\ \A w \in [Messages -> Nat] : Held(w, e) = 0
    <2>1. Range(<< >>) = {}
      BY DEF Range
    <2>2. HeldBy(e) = {}
      BY <1>2, <2>1 DEF HeldBy
    <2>3. Channel(e) = << >>
      <3>1. << >> \in Seq(Frames)
        OBVIOUS
      <3>2. << >> \o << >> = << >>
        BY <3>1, ChannelIs
      <3>3. QED BY <1>2, <3>2 DEF Channel
    <2>4. ASSUME NEW w \in [Messages -> Nat] PROVE Held(w, e) = 0
      <3>1. Total(w, << >>) = 0
        BY TotalOfNone
      <3>2. QED BY <1>2, <3>1 DEF Held
    <2>5. QED BY <2>2, <2>3, <2>4
  <1>4. InOnePlace
    <2>1. ASSUME NEW q \in Requests PROVE Places(q) = 1
      <3>1. q.from \in Ends /\ RequestOf(q) \in [Messages -> Nat]
        BY RequestIs, MessageWeights
      <3>2. Held(RequestOf(q), q.from) = 0
        BY <1>3, <3>1
      <3>3. One(q \in unsent) = 1
        BY DEF Init, One
      <3>4. One(Waits(q)) = 0
        BY <1>2, <3>1 DEF One, Waits
      <3>5. Len(outcome[q]) = 0
        BY DEF Init
      <3>6. QED BY <3>2, <3>3, <3>4, <3>5 DEF Places
    <2>2. QED BY <2>1 DEF InOnePlace
  <1>5. RightOutcomes /\ NoProtocolError
    BY DEF Init, RightOutcomes, NoProtocolError
  <1>6. ASSUME NEW e \in Ends, NEW p \in Ends
        PROVE  Owned(e) /\ Numbered(e) /\ ClosedIsEmpty(e) /\ Link(e, p)
    <2>1. Owned(e) /\ ClosedIsEmpty(e)
      BY <1>2, <1>3 DEF Owned, ClosedIsEmpty
    <2>2. Numbered(e)
      <3>1. ASSUME NEW n \in Nat \ {0}
            PROVE  Held(RequestNo(n), e) + One(n \in DOMAIN pendingResponses[e]) <= One(n <= lastNo[e])
        <4>1. Held(RequestNo(n), e) = 0
          BY <1>3, MessageWeights
        <4>2. One(n \in DOMAIN pendingResponses[e]) = 0 /\ One(n <= lastNo[e]) \in Nat
          BY <1>2 DEF One
        <4>3. QED BY <4>1, <4>2
      <3>2. QED BY <3>1 DEF Numbered
    <2>3. RequestsArrive(e, p) /\ RequestsGoOn(e, p) /\ AnswersMatch(e, p)
      <3>1. DOMAIN Channel(e) = {} /\ DOMAIN Channel(p) = {} /\ HeldBy(e) = {} /\ HeldBy(p) = {}
        BY <1>3
      <3>2. RequestsArrive(e, p)
        BY <1>2, <3>1 DEF RequestsArrive
      <3>3. RequestsGoOn(e, p)
        BY <1>2, <3>1 DEF RequestsGoOn
      <3>4. AnswersMatch(e, p)
        BY <1>2, <3>1 DEF AnswersMatch
      <3>5. QED BY <3>2, <3>3, <3>4
    <2>4. OneAnswer(e, p)
      <3>1. ASSUME NEW n \in Nat \ {0} PROVE Answers(e, p, n) = 0
        <4>1. Total(LastOfRequest(n), << >>) = 0 /\ Total(LastOfAnswer(n), << >>) = 0
          BY FrameWeights, TotalOfNone
        <4>2. Held(AnswerNo(n), p) = 0
          BY <1>3, MessageWeights
        <4>3. Asked(inbox[p], n) = 0
          BY <1>2 DEF Asked
        <4>4. Total(LastOfRequest(n), Channel(e)) = 0 /\ Total(LastOfAnswer(n), Channel(p)) = 0
          BY <1>3, <4>1
        <4>5. QED BY <4>2, <4>3, <4>4 DEF Answers
      <3>2. \A n : One(n \in DOMAIN pendingResponses[e]) \in Nat
        BY DEF One
      <3>3. QED BY <3>1, <3>2 DEF OneAnswer
    <2>5. QED BY <2>1, <2>2, <2>3, <2>4 DEF Link
  <1>7. QED BY <1>1, <1>4, <1>5, <1>6, Peers DEF IInv

LEMMA Unchanged ==
    ASSUME IInv, UNCHANGED vars
    PROVE  IInv'
  <1>1. UNCHANGED <<outbox, icebox, writeable, writing, lastNo, received, pendingRequests, pendingResponses, state, mailbox,
                    sock, wire, ready, unsent, inbox, outcome, faults>>
    BY DEF vars, ends, net
  <1>2. Typed /\ Typed'
    BY <1>1 DEF IInv, Typed
  <1>3. NoProtocolError' /\ NoReopening /\ \A e \in Ends : ClosedIsEmpty(e)'
    BY <1>1 DEF IInv, NoProtocolError, NoReopening, Listening, ClosedIsEmpty
  <1>4. \A e \in Ends : Kept(e) /\ SameFrames(Channel(e), Channel(e)')
    BY <1>1, <1>2, KeptUnchanged, ChannelUnchanged
  <1>5. Quiet
    BY <1>1, <1>3, <1>4 DEF Quiet
  <1>6. QED BY <1>2, <1>3, <1>5, QuietStep

(* Every step of the two ends, their sockets and their clients keeps it.   *)
LEMMA Inductive ==
    ASSUME IInv, [Next]_vars
    PROVE  IInv'
  <1>1. ASSUME NEW e \in Ends, QueueMessage(e) PROVE IInv'
    BY <1>1, QueueMessageQuiet, QueueMessageDropped
  <1>2. ASSUME NEW e \in Ends, WriteFrame(e) PROVE IInv'
    BY <1>2, WriteFrameStep
  <1>3. ASSUME NEW e \in Ends, WriteComplete(e) \/ OnWriteable(e) PROVE IInv'
    BY <1>3, SocketQuiet
  <1>4. ASSUME NEW e \in Ends, OnAck(e) PROVE IInv'
    BY <1>4, OnAckQuiet
  <1>5. ASSUME NEW e \in Ends, OnRequest(e) PROVE IInv'
    BY <1>5, OnRequestStep
  <1>6. ASSUME NEW e \in Ends, OnResponse(e) PROVE IInv'
    BY <1>6, OnResponseStep
  <1>7. ASSUME NEW e \in Ends, OnClose(e) PROVE IInv'
    BY <1>7, OnCloseStep
  <1>8. ASSUME NEW e \in Ends, Closed(e) \/ Lost(e) PROVE IInv'
    BY <1>8, EndStep
  <1>9. ASSUME NEW e \in Ends, Respond(e) PROVE IInv'
    BY <1>9, RespondStep
  <1>10. ASSUME NEW e \in Ends, Close(e) PROVE IInv'
    BY <1>10, CloseQuiet
  <1>11. ASSUME NEW q \in Requests, SendRequest(q) PROVE IInv'
    BY <1>11, SendRequestStep
  <1>12. ASSUME UNCHANGED vars PROVE IInv'
    BY <1>12, Unchanged
  <1>13. QED
    BY <1>1, <1>2, <1>3, <1>4, <1>5, <1>6, <1>7, <1>8, <1>9, <1>10, <1>11, <1>12 DEF Next, System

(* The invariant that the others follow from: where each request is, what  *)
(* is under way of it and of its answer, and that what arrives is what the *)
(* receiver expects next.                                                  *)
THEOREM Invariant == Spec => []IInv
  <1>1. Init => IInv
    BY NothingAtFirst
  <1>2. IInv /\ [Next]_vars => IInv'
    BY Inductive
  <1>3. QED BY <1>1, <1>2, PTL DEF Spec

(* pendingRequest() and pendingResponse() never refuse what the other end  *)
(* has sent: an end that follows the protocol is not taken for one that    *)
(* does not, whatever the order in which requests overtake each other.     *)
THEOREM NoProtocolErrorEver == Spec => []NoProtocolError
  <1>1. IInv => NoProtocolError
    BY DEF IInv
  <1>2. QED BY <1>1, Invariant, PTL

(* A request has one outcome at most; a reply is the reply to this request *)
(* and has all of its bytes, however frames were interleaved, damaged, or  *)
(* dropped with the connection.                                            *)
THEOREM OneOutcomeOnly == Spec => []OneOutcome
  <1>1. IInv => OneOutcome
    <2> SUFFICES ASSUME IInv PROVE OneOutcome
      OBVIOUS
    <2>1. ASSUME NEW q \in Requests PROVE Len(outcome[q]) <= 1
      <3> DEFINE u == One(q \in unsent)
                 h == Held(RequestOf(q), q.from)
                 i == One(Waits(q))
                 l == Len(outcome[q])
      <3>1. u + h + i + l <= 1
        BY DEF IInv, InOnePlace, Places
      <3>2. u \in Nat /\ i \in Nat
        BY DEF One
      <3>3. h \in Nat /\ l \in Nat
        <4>1. Typed /\ q.from \in Ends /\ outcome[q] \in Seq(Outcomes)
          BY RequestIs DEF IInv, Typed
        <4>2. h \in Nat
          BY <4>1, HeldNat
        <4>3. QED BY <4>1, <4>2
      <3> HIDE DEF u, h, i, l
      <3>4. l <= 1
        BY <3>1, <3>2, <3>3
      <3>5. QED BY <3>4 DEF l
    <2>2. QED BY <2>1 DEF IInv, RightOutcomes, OneOutcome
  <1>2. QED BY <1>1, Invariant, PTL

(* When _closed() has come at an end, everyone there who waits for a reply *)
(* has been told, unless the message is still on its way to BLIPIO.  This  *)
(* holds if no frame of an error reply is damaged: the last frame of one   *)
(* is not put back, and the one who waits for it is never told.            *)
THEOREM ClosingSettlesAll ==
    ASSUME "ERR" \notin Damaged
    PROVE  Spec => []ClosedSettlesAll
  <1>1. IInv => ClosedSettlesAll
    <2> SUFFICES ASSUME IInv, NEW q \in Requests \ unsent, q.reply, state[q.from] = "closed",
                        \A i \in DOMAIN mailbox[q.from] : mailbox[q.from][i].about # q
                 PROVE  outcome[q] # << >>
      BY DEF ClosedSettlesAll
    <2> DEFINE e == q.from
               w == RequestOf(q)
    <2>1. e \in Ends /\ w \in [Messages -> Nat] /\ Typed /\ mailbox[e] \in Seq(Messages)
      BY RequestIs, MessageWeights DEF IInv, Typed
    <2>2. One(q \in unsent) + Held(w, e) + One(Waits(q)) + Len(outcome[q]) = 1
      BY DEF IInv, InOnePlace, Places
    <2>3. One(q \in unsent) = 0
      BY DEF One
    <2>4. ClosedIsEmpty(e) /\ state[e] = "closed"
      BY <2>1 DEF IInv
    <2>5. outbox[e] = << >> /\ icebox[e] = << >> /\ DOMAIN pendingResponses[e] = {}
      BY <2>4 DEF ClosedIsEmpty
    <2>6. One(Waits(q)) = 0
      BY <2>5 DEF One, Waits
    <2>7. \A i \in DOMAIN mailbox[e] : mailbox[e][i].about # q
      OBVIOUS
    <2> HIDE DEF e
    <2>8. ASSUME NEW i \in DOMAIN mailbox[e] PROVE w[mailbox[e][i]] = 0
      <3> DEFINE m == mailbox[e][i]
      <3>1. m \in Messages /\ m.about # q
        BY <2>1, <2>7, ElementIs
      <3> HIDE DEF m
      <3>2. RequestOf(q)[m] = One(m.type = "REQ" /\ m.about = q)
        BY <3>1, MessageWeightsAre
      <3>3. QED BY <3>1, <3>2 DEF One, m
    <2> HIDE DEF w
    <2>9. Total(w, mailbox[e]) = 0
      BY <2>1, <2>8, TotalZero
    <2>10. Total(w, << >>) = 0
      BY <2>1, TotalOfNone
    <2>11. Held(w, e) = 0
      BY <2>5, <2>9, <2>10 DEF Held
    <2>12. Len(outcome[q]) = 1
      <3>1. Len(outcome[q]) \in Nat
        BY <2>1 DEF Typed
      <3>2. 0 + 0 + 0 + Len(outcome[q]) = 1
        BY <2>2, <2>3, <2>6, <2>11 DEF e
      <3>3. QED BY <3>1, <3>2
    <2>13. Len(<< >>) = 0
      OBVIOUS
    <2>14. ASSUME outcome[q] = << >> PROVE FALSE
      BY <2>12, <2>13, <2>14
    <2>15. QED BY <2>14
  <1>2. QED BY <1>1, Invariant, PTL
=============================================================================
