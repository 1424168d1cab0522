--------------------------- MODULE BLIPFlowProofs ---------------------------
(***************************************************************************)
(* Proofs about the flow control of BLIPIO, for any requests and replies,  *)
(* frame sizes, windows, thresholds, buffers and number of faults: what is *)
(* under way of a message stays below the window plus one frame, and when  *)
(* both ends have nothing more to do, no request is frozen and nothing is  *)
(* left to be written.                                                     *)
(*                                                                         *)
(* The invariant FlowInv goes on from that of BLIPIOProofs.  Of one end it *)
(* says where a message waits, and that someone will wake it (Steady); of  *)
(* the two, how the counts of the sender, the counts of the receiver, the  *)
(* frames under way and the acknowledgements under way go together (Flow). *)
(* The proof first says what these operators make of sequences and         *)
(* messages, then what sending, receiving and acknowledging a frame do to  *)
(* Flow, apart from where messages are; then takes one action after the    *)
(* other, first for Steady and then for Flow.                              *)
(***************************************************************************)
EXTENDS BLIPIOProofs

-----------------------------------------------------------------------------
(***************************************************************************)
(* Flow control.  What a sender believes to be acknowledged has arrived,   *)
(* and what has arrived has been acknowledged, or will be when the         *)
(* acknowledgements under way are there: AcksOf(e) are those that e sends, *)
(* as the frames they are or will be.                                      *)
(***************************************************************************)
Open == \A e \in Ends : state[e] = "open"

AcksIn(held, c) ==
    {NextFrame(m, << >>) : m \in {k \in held : IsAck(k)}} \cup {f \in Range(c) : IsAck(f)}
AcksOf(e) == AcksIn(HeldBy(e), Channel(e))

(* How much of a message has arrived, and how much of that is not yet      *)
(* acknowledged                                                            *)
RequestBytes(n) == [f \in Frames |-> IF f.type = "REQ" /\ f.no = n THEN f.size ELSE 0]
Raw(pending, n) == IF n \in DOMAIN pending THEN pending[n].raw ELSE 0
Unacked(pending, n) == IF n \in DOMAIN pending THEN pending[n].unacked ELSE 0

(* A message stays in the out-box, and is sent on, until as much as the    *)
(* window allows is not acknowledged; then it is in the icebox.            *)
WindowsIn(mail, out, ice) ==
    /\ \A m \in mail \cup out \cup ice : m.unacked <= m.sent /\ (m.no = 0 \/ IsAck(m) => m.sent = 0)
    /\ \A m \in mail : m.sent = 0 /\ (m.type = "REQ" => m.no = 0)
    /\ \A m \in out : m.unacked < MaxUnacked
    /\ \A m \in ice : ~IsAck(m) /\ m.no # 0 /\ m.unacked >= MaxUnacked /\ m.unacked < MaxUnacked + BigFrame
Windows(e) == WindowsIn(Range(mailbox[e]), Range(outbox[e]), Range(icebox[e]))

(* Whoever has something to write waits for the socket, which has more in  *)
(* its buffer than it wants, or has called.                                *)
Wakes(e) ==
    /\ outbox[e] # << >> /\ ~writing[e] => ~writeable[e]
    /\ state[e] = "open" /\ ~writeable[e] => Size(sock[e]) > SendBuffer \/ ready[e]

(* Requests: c is what is under way from the sender, and acks what the     *)
(* receiver, which has got the first no, acknowledges.                     *)
Acknowledged(m, pending, acks) ==
    \/ Raw(pending, m.no) + m.unacked <= m.sent + Unacked(pending, m.no)
    \/ \E a \in acks : a.type = "ACKREQ" /\ a.no = m.no /\ Raw(pending, m.no) <= a.count + Unacked(pending, m.no)
RequestIn(m, pending, c, acks) ==
    /\ Raw(pending, m.no) + Total(RequestBytes(m.no), c) = m.sent
    /\ m.sent <= m.unacked + Raw(pending, m.no)
    /\ Acknowledged(m, pending, acks)
RequestsIn(held, pending, c, acks) ==
    \A m \in held : m.type = "REQ" /\ m.no # 0 => RequestIn(m, pending, c, acks)
RequestAcks(acks, pending, no) ==
    \A a \in acks : a.type = "ACKREQ" => a.no \in 1 .. no /\ (a.no \in DOMAIN pending => a.count <= pending[a.no].raw)
LowPending(pending) ==
    \A n \in DOMAIN pending : pending[n].unacked < AckThreshold /\ pending[n].unacked <= pending[n].raw
RequestFlow(e, p) ==
    /\ LowPending(pendingRequests[p])
    /\ RequestsIn(HeldBy(e), pendingRequests[p], Channel(e), AcksOf(p))
    /\ RequestAcks(AcksOf(p), pendingRequests[p], received[p])

(* Answers: acks is what the receiver, which has sent own and has given no *)
(* numbers to its requests, acknowledges.                                  *)
AnswersIn(held, pending) == \A m \in held : Answer(m) => m.sent <= m.unacked + Raw(pending, m.no)
AnswerAcks(acks, pending, no, own) ==
    \A a \in acks : a.type = "ACKRES" =>
        /\ a.no \in 1 .. no /\ \A m \in own : m.type = "REQ" => m.no # a.no
        /\ a.no \in DOMAIN pending => a.count <= pending[a.no].raw
AnswerFlow(e, p) ==
    AnswersIn(HeldBy(e), pendingResponses[p]) /\ AnswerAcks(AcksOf(p), pendingResponses[p], lastNo[p], HeldBy(p))

FInv ==
    /\ \A e \in Ends : Windows(e) /\ Wakes(e)
    /\ Open => \A e \in Ends : RequestFlow(e, Peer(e)) /\ AnswerFlow(e, Peer(e))

-----------------------------------------------------------------------------
LEMMA FrameSizes == \A f \in Frames : f.size \in Nat
  BY DEF Frames, DataFrames, CloseFrame

LEMMA RequestBytesIs ==
    \A n : /\ RequestBytes(n) \in [Frames -> Nat]
           /\ \A f \in Frames : RequestBytes(n)[f] = IF f.type = "REQ" /\ f.no = n THEN f.size ELSE 0
  BY FrameSizes DEF RequestBytes

(* The recursive function of Size exists: it is a function of partial      *)
(* sums.                                                                   *)
LEMMA SizeIs ==
    /\ \A s \in Seq(Frames) : Size(s) \in Nat
    /\ Size(<< >>) = 0
  <1>1. ASSUME NEW s \in Seq(Frames) PROVE Size(s) \in Nat /\ (s = << >> => Size(s) = 0)
    <2> DEFINE n == Len(s)
               Sums(g) == g = [i \in 0 .. n |-> IF i = 0 THEN 0 ELSE g[i - 1] + s[i].size]
               h == CHOOSE g : Sums(g)
               w == [f \in Frames |-> f.size]
    <2>1. w \in [Frames -> Nat] /\ n \in Nat /\ \A i \in 1 .. n : s[i] \in Frames /\ w[s[i]] = s[i].size /\ s[i].size \in Nat
      BY FrameSizes
    <2>2. PICK g \in PartialSums(w, s) : TRUE
      BY <2>1, PartialSumsExist
    <2>3. g \in [0 .. n -> Nat] /\ g[0] = 0 /\ \A k \in 1 .. n : g[k] = g[k - 1] + w[s[k]]
      BY DEF PartialSums
    <2>4. \A i \in 0 .. n : g[i] = IF i = 0 THEN 0 ELSE g[i - 1] + s[i].size
      <3> HIDE DEF w, n
      <3>1. \A i \in 0 .. n : i = 0 \/ i \in 1 .. n
        BY <2>1
      <3>2. QED BY <2>1, <2>3, <3>1
    <2>5. Sums(g)
      <3> HIDE DEF w, n
      <3>1. QED BY <2>3, <2>4
    <2>6. Sums(h)
      BY <2>5
    <2>7. Size(s) = h[n]
      BY DEF Size
    <2> HIDE DEF h
    <2>8. h[n] \in Nat /\ (n = 0 => h[n] = 0)
      <3> DEFINE T == {i \in Nat : i <= n /\ h[i] \notin Nat}
      <3>1. \A i \in 0 .. n : h[i] = IF i = 0 THEN 0 ELSE h[i - 1] + s[i].size
        BY <2>6
      <3> HIDE DEF w, n, Sums
      <3>2. ASSUME T # {} PROVE FALSE
        <4>1. PICK d \in T : \A i \in T : d <= i
          BY <3>2, LeastNatural
        <4>2. d \in 0 .. n /\ d # 0 /\ d \in 1 .. n
          BY <2>1, <3>1, <4>1
        <4>3. d - 1 \in Nat /\ d - 1 <= n /\ d - 1 \notin T
          BY <2>1, <4>1, <4>2
        <4>4. h[d - 1] \in Nat
          BY <4>3
        <4>5. h[d] = h[d - 1] + s[d].size
          BY <3>1, <4>2, Zenon
        <4>6. s[d].size \in Nat
          BY <2>1, <4>2, Zenon
        <4>7. h[d] \in Nat
          <5> HIDE DEF T
          <5>1. QED BY <4>4, <4>5, <4>6
        <4>8. QED BY <4>1, <4>7
      <3>3. 0 \in 0 .. n /\ n \in 0 .. n /\ n \in Nat /\ n <= n
        BY <2>1
      <3>4. h[n] \in Nat
        BY <3>2, <3>3
      <3>5. h[0] = 0
        BY <3>1, <3>3
      <3>6. QED BY <3>4, <3>5
    <2>9. QED BY <2>7, <2>8
  <1>2. << >> \in Seq(Frames)
    OBVIOUS
  <1>3. QED BY <1>1, <1>2


LEMMA RequestBytesAre ==
    ASSUME NEW c \in Seq(Frames)
    PROVE  /\ \A n : Total(RequestBytes(n), c) \in Nat
           /\ \A n : \A f \in Frames :
                 Total(RequestBytes(n), Append(c, f)) =
                 Total(RequestBytes(n), c) + (IF f.type = "REQ" /\ f.no = n THEN f.size ELSE 0)
           /\ c # << >> => \A n :
                 Total(RequestBytes(n), c) = Total(RequestBytes(n), Tail(c)) + 
                 (IF Head(c).type = "REQ" /\ Head(c).no = n THEN Head(c).size ELSE 0)
  <1>1. ASSUME NEW n PROVE Total(RequestBytes(n), c) \in Nat
    BY RequestBytesIs, TotalIs
  <1>2. ASSUME NEW n, NEW f \in Frames
        PROVE  Total(RequestBytes(n), Append(c, f)) =
               Total(RequestBytes(n), c) + (IF f.type = "REQ" /\ f.no = n THEN f.size ELSE 0)
    <2>1. Total(RequestBytes(n), Append(c, f)) = Total(RequestBytes(n), c) + RequestBytes(n)[f]
      BY RequestBytesIs, TotalAppend
    <2>2. QED BY <2>1, RequestBytesIs
  <1>3. ASSUME NEW n, c # << >>
        PROVE  Total(RequestBytes(n), c) = Total(RequestBytes(n), Tail(c)) + 
               (IF Head(c).type = "REQ" /\ Head(c).no = n THEN Head(c).size ELSE 0)
    <2>1. Total(RequestBytes(n), c) = Total(RequestBytes(n), Tail(c)) + RequestBytes(n)[Head(c)]
      BY <1>3, RequestBytesIs, TotalTail
    <2>2. Head(c) \in Frames
      BY <1>3, TailInserts
    <2>3. QED BY <2>1, <2>2, RequestBytesIs
  <1>4. QED BY <1>1, <1>2, <1>3

LEMMA RawIs ==
    ASSUME NEW x, IsPending(x)
    PROVE  \A n : Raw(x, n) \in Nat /\ Unacked(x, n) \in Nat
  BY DEF IsPending, Raw, Unacked, Pendings

LEMMA MessageFields ==
    \A m \in Messages : m.sent \in Nat /\ m.unacked \in Nat /\ m.no \in Nat /\ m.left \in Nat \ {0} /\ m.type \in Types
  BY DEF Messages

(* What an acknowledgement is, as a message and as a frame                 *)
LEMMA AckIs ==
    ASSUME NEW m \in Messages, IsAck(m), m.no # 0, NEW rest
    PROVE  LET a == NextFrame(m, << >>)
           IN  /\ NextFrame(m, rest) = a /\ a \in DataFrames /\ a.type = m.type /\ a.no = m.no /\ a.count = m.left
               /\ IsAck(a)
  <1> DEFINE a == [type |-> m.type, no |-> m.no, about |-> m.about, size |-> 1, more |-> FALSE, count |-> m.left]
  <1>1. NextFrame(m, rest) = a /\ NextFrame(m, << >>) = a
    BY DEF NextFrame
  <1>2. a \in DataFrames /\ a.type = m.type /\ a.no = m.no /\ a.count = m.left
    BY DEF Messages, DataFrames
  <1> HIDE DEF a
  <1>3. QED BY <1>1, <1>2 DEF IsAck

(* The acknowledgements that are under way, as what is held and what is    *)
(* in the channel change                                                   *)
SameAcks(A, B) == \A a : a \in B <=> a \in A

LEMMA AcksMember ==
    ASSUME NEW H, NEW c
    PROVE  \A a : a \in AcksIn(H, c) <=>
                 \/ \E m \in H : IsAck(m) /\ a = NextFrame(m, << >>)
                 \/ IsAck(a) /\ \E i \in DOMAIN c : c[i] = a
  BY DEF AcksIn, Range

LEMMA AcksAppended ==
    ASSUME NEW H, NEW c \in Seq(Frames), NEW f \in Frames
    PROVE  \A a : a \in AcksIn(H, Append(c, f)) <=> a \in AcksIn(H, c) \/ (IsAck(f) /\ a = f)
  <1> DEFINE d == Append(c, f)
  <1>1. DOMAIN d = DOMAIN c \cup {Len(c) + 1} /\ d[Len(c) + 1] = f /\ \A i \in DOMAIN c : d[i] = c[i]
    OBVIOUS
  <1> HIDE DEF d
  <1>2. \A a : (\E i \in DOMAIN d : d[i] = a) <=> (\E i \in DOMAIN c : c[i] = a) \/ a = f
    BY <1>1
  <1>3. \A a : a \in AcksIn(H, d) <=> a \in AcksIn(H, c) \/ (IsAck(f) /\ a = f)
    BY <1>2, AcksMember
  <1>4. QED BY <1>3 DEF d

LEMMA AcksTaken ==
    ASSUME NEW H, NEW c \in Seq(Frames), c # << >>
    PROVE  \A a : a \in AcksIn(H, c) <=> a \in AcksIn(H, Tail(c)) \/ (IsAck(Head(c)) /\ a = Head(c))
  <1> DEFINE d == Tail(c)
             f == Head(c)
             n == Len(c)
  <1>1. n \in Nat /\ n > 0 /\ DOMAIN c = 1 .. n /\ DOMAIN d = 1 .. n - 1 /\ c[1] = f /\ \A i \in 1 .. n - 1 : d[i] = c[i + 1]
    OBVIOUS
  <1> HIDE DEF d, f, n
  <1>2. ASSUME NEW a PROVE (\E i \in DOMAIN c : c[i] = a) <=> (\E i \in DOMAIN d : d[i] = a) \/ a = f
    <2>1. ASSUME NEW i \in DOMAIN c, c[i] = a, i # 1 PROVE \E j \in DOMAIN d : d[j] = a
      <3>1. i - 1 \in 1 .. n - 1 /\ (i - 1) + 1 = i
        BY <1>1, <2>1
      <3>2. d[i - 1] = a
        BY <1>1, <2>1, <3>1
      <3>3. QED BY <1>1, <3>1, <3>2
    <2>2. ASSUME NEW i \in DOMAIN d, d[i] = a PROVE \E j \in DOMAIN c : c[j] = a
      <3>1. i + 1 \in DOMAIN c /\ c[i + 1] = a
        BY <1>1, <2>2
      <3>2. QED BY <3>1
    <2>3. 1 \in DOMAIN c
      BY <1>1
    <2>4. QED BY <1>1, <2>1, <2>2, <2>3
  <1>3. \A a : a \in AcksIn(H, c) <=> a \in AcksIn(H, d) \/ (IsAck(f) /\ a = f)
    BY <1>2, AcksMember
  <1>4. QED BY <1>3 DEF d, f

LEMMA RangeMessages == \A s \in Seq(Messages) : Range(s) \subseteq Messages
  BY DEF Range

LEMMA HeldMessages ==
    ASSUME NEW e \in Ends
    PROVE  /\ Typed => HeldBy(e) \subseteq Messages
           /\ Typed' => HeldBy(e)' \subseteq Messages
  <1>1. Typed => mailbox[e] \in Seq(Messages) /\ outbox[e] \in Seq(Messages) /\ icebox[e] \in Seq(Messages)
    BY DEF Typed
  <1>2. Typed' => mailbox'[e] \in Seq(Messages) /\ outbox'[e] \in Seq(Messages) /\ icebox'[e] \in Seq(Messages)
    BY DEF Typed
  <1>3. QED BY <1>1, <1>2, RangeMessages DEF HeldBy

(* What a step leaves of the flow if it does not matter to it              *)
OldRequests(H, G) == \A m \in G : m.type = "REQ" /\ m.no # 0 => m \in H
OldAnswers(H, G) == \A m \in G : Answer(m) => m \in H \/ m.sent = 0
OldNumbers(H, G) == \A m \in G : m.type = "REQ" /\ m.no # 0 => \E k \in H : k.type = "REQ" /\ k.no = m.no
SameBytes(c, d) == \A n : Total(RequestBytes(n), d) = Total(RequestBytes(n), c)
SameRequestAcks(A, B) == \A a : a.type = "ACKREQ" => (a \in B <=> a \in A)
FewerAnswerAcks(A, B) == \A a \in B : a.type = "ACKRES" => a \in A

LEMMA RequestsInKept ==
    ASSUME NEW H, NEW G, NEW x, NEW c, NEW d, NEW A, NEW B, NEW no, RequestsIn(H, x, c, A), RequestAcks(A, x, no),
           OldRequests(H, G), SameBytes(c, d), SameRequestAcks(A, B)
    PROVE  RequestsIn(G, x, d, B) /\ RequestAcks(B, x, no)
  <1>1. ASSUME NEW m \in G, m.type = "REQ", m.no # 0 PROVE RequestIn(m, x, d, B)
    <2>1. RequestIn(m, x, c, A)
      BY <1>1 DEF RequestsIn, OldRequests
    <2>2. Acknowledged(m, x, B)
      BY <2>1 DEF RequestIn, Acknowledged, SameRequestAcks
    <2>3. Total(RequestBytes(m.no), d) = Total(RequestBytes(m.no), c)
      BY DEF SameBytes
    <2>4. QED BY <2>1, <2>2, <2>3 DEF RequestIn
  <1>2. RequestAcks(B, x, no)
    BY DEF RequestAcks, SameRequestAcks
  <1>3. QED BY <1>1, <1>2 DEF RequestsIn

LEMMA AnswersInKept ==
    ASSUME NEW H, NEW G \in SUBSET Messages, NEW x, IsPending(x), NEW A, NEW B, NEW no \in Nat, NEW K, NEW L,
           AnswersIn(H, x), AnswerAcks(A, x, no, K),
           OldAnswers(H, G), FewerAnswerAcks(A, B), OldNumbers(K, L)
    PROVE  AnswersIn(G, x) /\ AnswerAcks(B, x, no, L)
  <1>1. ASSUME NEW m \in G, Answer(m) PROVE m.sent <= m.unacked + Raw(x, m.no)
    <2>1. CASE m \in H
      BY <1>1, <2>1 DEF AnswersIn
    <2>2. CASE m.sent = 0
      <3>1. m.unacked \in Nat /\ Raw(x, m.no) \in Nat
        BY MessageFields, RawIs
      <3>2. QED BY <2>2, <3>1
    <2>3. QED BY <1>1, <2>1, <2>2 DEF OldAnswers
  <1>2. ASSUME NEW a \in B, a.type = "ACKRES"
        PROVE  /\ a.no \in 1 .. no /\ \A m \in L : m.type = "REQ" => m.no # a.no
               /\ a.no \in DOMAIN x => a.count <= x[a.no].raw
    <2>1. a \in A
      BY <1>2 DEF FewerAnswerAcks
    <2>2. /\ a.no \in 1 .. no /\ \A m \in K : m.type = "REQ" => m.no # a.no
          /\ a.no \in DOMAIN x => a.count <= x[a.no].raw
      BY <1>2, <2>1 DEF AnswerAcks
    <2>3. ASSUME NEW m \in L, m.type = "REQ", m.no = a.no PROVE FALSE
      <3>1. m.no # 0
        BY <2>2, <2>3
      <3>2. QED BY <2>2, <2>3, <3>1 DEF OldNumbers
    <2>4. QED BY <2>2, <2>3
  <1>3. QED BY <1>1, <1>2 DEF AnswersIn, AnswerAcks

LEMMA RequestFlowKept ==
    ASSUME NEW e, NEW p, RequestFlow(e, p), OldRequests(HeldBy(e), HeldBy(e)'), SameBytes(Channel(e), Channel(e)'),
           SameRequestAcks(AcksOf(p), AcksOf(p)'), pendingRequests'[p] = pendingRequests[p], received'[p] = received[p]
    PROVE  RequestFlow(e, p)'
  <1>1. RequestsIn(HeldBy(e), pendingRequests[p], Channel(e), AcksOf(p)) /\ RequestAcks(AcksOf(p), pendingRequests[p], received[p])
    BY DEF RequestFlow
  <1>2. /\ RequestsIn(HeldBy(e)', pendingRequests[p], Channel(e)', AcksOf(p)')
        /\ RequestAcks(AcksOf(p)', pendingRequests[p], received[p])
    BY <1>1, RequestsInKept
  <1>3. QED BY <1>2 DEF RequestFlow

LEMMA AnswerFlowKept ==
    ASSUME Typed, Typed', NEW e \in Ends, NEW p \in Ends, AnswerFlow(e, p), OldAnswers(HeldBy(e), HeldBy(e)'),
           FewerAnswerAcks(AcksOf(p), AcksOf(p)'), OldNumbers(HeldBy(p), HeldBy(p)'),
           pendingResponses'[p] = pendingResponses[p], lastNo'[p] = lastNo[p]
    PROVE  AnswerFlow(e, p)'
  <1>1. AnswersIn(HeldBy(e), pendingResponses[p]) /\ AnswerAcks(AcksOf(p), pendingResponses[p], lastNo[p], HeldBy(p))
    BY DEF AnswerFlow
  <1>2. IsPending(pendingResponses[p]) /\ lastNo[p] \in Nat
    BY DEF Typed
  <1>3. HeldBy(e)' \in SUBSET Messages
    BY HeldMessages
  <1>4. /\ AnswersIn(HeldBy(e)', pendingResponses[p])
        /\ AnswerAcks(AcksOf(p)', pendingResponses[p], lastNo[p], HeldBy(p)')
    BY <1>1, <1>2, <1>3, AnswersInKept
  <1>5. QED BY <1>4 DEF AnswerFlow

(* A frame of a request is sent: ...                                       *)
LEMMA RequestFrameSent ==
    ASSUME NEW O \in SUBSET Messages, NEW h, NEW f, NEW n, NEW last, FrameOf(f, h, n, last), h.type = "REQ",
           f.more => n.unacked = h.unacked + f.size,
           NEW x, IsPending(x), NEW c \in Seq(Frames), NEW A, RequestsIn(O \cup {h}, x, c, A),
           \A m \in O : m.type = "REQ" => m.no # f.no,
           h.no = 0 => h.sent = 0 /\ h.unacked = 0 /\ f.no \notin DOMAIN x /\ Total(RequestBytes(f.no), c) = 0
    PROVE  RequestsIn(O \cup (IF f.more THEN {n} ELSE {}), x, Append(c, f), A)
  <1>0. f \in DataFrames /\ f \in Frames /\ f.type = "REQ" /\ f.size \in Nat /\ f.no # 0 /\ h \in Messages
    BY DEF FrameOf, DataFrames, Frames
  <1> DEFINE d == Append(c, f)
  <1>1. \A k : Total(RequestBytes(k), d) = Total(RequestBytes(k), c) + (IF k = f.no THEN f.size ELSE 0)
    BY <1>0, RequestBytesAre
  <1>2. \A k : Total(RequestBytes(k), c) \in Nat
    BY RequestBytesAre
  <1> HIDE DEF d
  <1>3. ASSUME NEW m \in O, m.type = "REQ", m.no # 0 PROVE RequestIn(m, x, d, A)
    <2>1. RequestIn(m, x, c, A) /\ m.no # f.no
      BY <1>3 DEF RequestsIn
    <2>2. Total(RequestBytes(m.no), d) = Total(RequestBytes(m.no), c)
      BY <1>1, <1>2, <2>1
    <2>3. QED BY <2>1, <2>2 DEF RequestIn
  <1>4. ASSUME f.more PROVE RequestIn(n, x, d, A)
    <2> DEFINE raw == Raw(x, f.no)
               un == Unacked(x, f.no)
               t == Total(RequestBytes(f.no), c)
    <2>1. raw \in Nat /\ un \in Nat /\ t \in Nat
      BY <1>2, RawIs
    <2>2. h.sent \in Nat /\ h.unacked \in Nat
      BY <1>0, MessageFields
    <2>3. n.no = f.no /\ n.sent = h.sent + f.size /\ n.unacked = h.unacked + f.size
      BY <1>4 DEF FrameOf
    <2>4. /\ raw + t = h.sent
          /\ h.sent <= h.unacked + raw
          /\ raw + h.unacked <= h.sent + un \/ \E a \in A : a.type = "ACKREQ" /\ a.no = f.no /\ raw <= a.count + un
      <3>1. CASE h.no = 0
        <4>1. raw = 0 /\ t = 0
          BY <3>1 DEF Raw
        <4> HIDE DEF raw, t, un
        <4>2. QED BY <2>1, <3>1, <4>1
      <3>2. CASE h.no # 0
        <4>1. RequestIn(h, x, c, A) /\ h.no = f.no
          BY <3>2 DEF RequestsIn, FrameOf
        <4>2. QED BY <4>1 DEF RequestIn, Acknowledged
      <3>3. QED BY <3>1, <3>2
    <2>5. Total(RequestBytes(f.no), d) = t + f.size
      BY <1>1
    <2> HIDE DEF raw, un, t
    <2>6. raw + (t + f.size) = n.sent /\ n.sent <= n.unacked + raw
      BY <1>0, <2>1, <2>2, <2>3, <2>4
    <2>7. raw + n.unacked <= n.sent + un \/ \E a \in A : a.type = "ACKREQ" /\ a.no = f.no /\ raw <= a.count + un
      BY <1>0, <2>1, <2>2, <2>3, <2>4
    <2>8. QED BY <2>3, <2>5, <2>6, <2>7 DEF RequestIn, Acknowledged, raw, un
  <1>5. RequestsIn(O \cup (IF f.more THEN {n} ELSE {}), x, d, A)
    BY <1>3, <1>4 DEF RequestsIn
  <1>6. QED BY <1>5 DEF d

(* ... and a frame is received: what is pending then, and what is not      *)
(* acknowledged of it.                                                     *)
NowPending(x, y, f, p, q) ==
    /\ f.more => f.no \in DOMAIN y /\ y[f.no] = q
    /\ f.no \in DOMAIN y => f.more
    /\ \A n : n # f.no => (n \in DOMAIN y <=> n \in DOMAIN x) /\ (n \in DOMAIN x => y[n] = x[n])
    /\ q.raw = p.raw + f.size
    /\ q.unacked = IF p.unacked + f.size >= AckThreshold THEN 0 ELSE p.unacked + f.size
    /\ p.raw \in Nat /\ p.unacked \in Nat /\ q.raw \in Nat /\ q.unacked \in Nat /\ f.size \in Nat

LEMMA AcceptUnacked ==
    ASSUME NEW p \in Pendings, NEW f \in DataFrames
    PROVE  Accept(p, f).unacked = IF p.unacked + f.size >= AckThreshold THEN 0 ELSE p.unacked + f.size
  <1> DEFINE u == IF p.unacked + f.size >= AckThreshold THEN 0 ELSE p.unacked + f.size
  <1>1. Accept(p, f) = [p EXCEPT !.raw = p.raw + f.size, !.unacked = u]
    BY DEF Accept
  <1> HIDE DEF u
  <1>2. Accept(p, f).unacked = u
    BY <1>1 DEF Pendings
  <1>3. QED BY <1>2 DEF u

LEMMA KeepIs ==
    ASSUME NEW x, IsPending(x), NEW f \in DataFrames, NEW p \in Pendings
    PROVE  NowPending(x, Keep(x, f, Accept(p, f)), f, p, Accept(p, f))
  <1> DEFINE q == Accept(p, f)
             y == Keep(x, f, q)
  <1>1. q \in Pendings /\ q.raw = p.raw + f.size
    BY AcceptIs
  <1>2. q.unacked = IF p.unacked + f.size >= AckThreshold THEN 0 ELSE p.unacked + f.size
    BY AcceptUnacked
  <1>3. p.raw \in Nat /\ p.unacked \in Nat /\ q.raw \in Nat /\ q.unacked \in Nat /\ f.size \in Nat /\ f.no \in Nat \ {0}
    BY <1>1 DEF Pendings, DataFrames
  <1> HIDE DEF q
  <1>4. CASE f.more
    <2>1. y = With(x, f.no, q)
      BY <1>4 DEF Keep
    <2>2. /\ DOMAIN y = DOMAIN x \cup {f.no} /\ y[f.no] = q
          /\ \A n \in DOMAIN x : n # f.no => y[n] = x[n]
      <3> HIDE DEF y
      <3>1. /\ DOMAIN With(x, f.no, q) = DOMAIN x \cup {f.no} /\ With(x, f.no, q)[f.no] = q
            /\ \A n \in DOMAIN x : n # f.no => With(x, f.no, q)[n] = x[n]
        BY DEF With
      <3>2. QED BY <2>1, <3>1
    <2> HIDE DEF y
    <2>3. \A n : n # f.no => (n \in DOMAIN y <=> n \in DOMAIN x) /\ (n \in DOMAIN x => y[n] = x[n])
      BY <2>2
    <2>4. f.no \in DOMAIN y
      BY <2>2
    <2>5. NowPending(x, y, f, p, q)
      BY <1>1, <1>2, <1>3, <1>4, <2>2, <2>3, <2>4, Zenon DEF NowPending
    <2>6. QED BY <2>5 DEF q, y
  <1>5. CASE ~f.more
    <2>1. y = Without(x, f.no)
      BY <1>5 DEF Keep
    <2>2. DOMAIN y = DOMAIN x \ {f.no} /\ \A n \in DOMAIN x \ {f.no} : y[n] = x[n]
      <3> HIDE DEF y
      <3>1. DOMAIN Without(x, f.no) = DOMAIN x \ {f.no} /\ \A n \in DOMAIN x \ {f.no} : Without(x, f.no)[n] = x[n]
        BY PendingChanges
      <3>2. QED BY <2>1, <3>1
    <2> HIDE DEF y
    <2>3. \A n : n # f.no => (n \in DOMAIN y <=> n \in DOMAIN x) /\ (n \in DOMAIN x => y[n] = x[n])
      BY <2>2
    <2>4. f.no \notin DOMAIN y
      BY <2>2
    <2>5. NowPending(x, y, f, p, q)
      BY <1>1, <1>2, <1>3, <1>5, <2>3, <2>4, Zenon DEF NowPending
    <2>6. QED BY <2>5 DEF q, y
  <1>6. QED BY <1>4, <1>5

AcksSent(A, B, f, p, q, type) ==
    /\ \A a \in A : a \in B
    /\ \A b \in B : b.type \in {"ACKREQ", "ACKRES"} => b \in A \/ (b.type = type /\ b.no = f.no /\ b.count = q.raw)
    /\ p.unacked + f.size >= AckThreshold => \E b \in B : b.type = type /\ b.no = f.no /\ b.count = q.raw

LEMMA RequestFrameReceived ==
    ASSUME NEW H \in SUBSET Messages, NEW x, IsPending(x), NEW y, NEW c \in Seq(Frames), c # << >>,
           NEW A, NEW B, NEW r \in Nat, NEW s, NEW p, NEW q, \A a \in A : a.count \in Nat,
           Head(c).type = "REQ", DOMAIN x \subseteq 1 .. r,
           LowPending(x), RequestsIn(H, x, c, A), RequestAcks(A, x, r), AcksSent(A, B, Head(c), p, q, "ACKREQ"),
           NowPending(x, y, Head(c), p, q),
           IF Head(c).no \in DOMAIN x THEN p = x[Head(c).no] /\ s = r ELSE p.raw = 0 /\ p.unacked = 0 /\ Head(c).no = r + 1 /\ s = r + 1,
           \A m \in H : m.type = "REQ" /\ m.no = Head(c).no => Head(c).more
    PROVE  LowPending(y) /\ RequestsIn(H, y, Tail(c), B) /\ RequestAcks(B, y, s)
  <1> DEFINE f == Head(c)
             d == Tail(c)
  <1>1. /\ f.more => f.no \in DOMAIN y /\ y[f.no] = q
        /\ f.no \in DOMAIN y => f.more
        /\ \A n : n # f.no => (n \in DOMAIN y <=> n \in DOMAIN x) /\ (n \in DOMAIN x => y[n] = x[n])
        /\ q.raw = p.raw + f.size
        /\ q.unacked = IF p.unacked + f.size >= AckThreshold THEN 0 ELSE p.unacked + f.size
        /\ p.raw \in Nat /\ p.unacked \in Nat /\ q.raw \in Nat /\ q.unacked \in Nat /\ f.size \in Nat
    BY DEF NowPending
  <1>2. p.raw = Raw(x, f.no) /\ p.unacked = Unacked(x, f.no)
    BY DEF Raw, Unacked
  <1>3. AckThreshold \in Nat \ {0}
    BY BLIPAssumption
  <1>4. p.unacked <= p.raw
    BY DEF LowPending
  <1>5. \A n : Total(RequestBytes(n), c) = Total(RequestBytes(n), d) + (IF f.no = n THEN f.size ELSE 0)
    BY RequestBytesAre
  <1>6. \A n : Total(RequestBytes(n), d) \in Nat
    BY TailInserts, RequestBytesAre
  <1>7. IF f.no \in DOMAIN x THEN p = x[f.no] /\ s = r ELSE p.raw = 0 /\ p.unacked = 0 /\ f.no = r + 1 /\ s = r + 1
    OBVIOUS
  <1>8. AcksSent(A, B, f, p, q, "ACKREQ") /\ \A m \in H : m.type = "REQ" /\ m.no = f.no => f.more
    OBVIOUS
  <1> HIDE DEF f, d
  <1>9. LowPending(y)
    <2>1. ASSUME NEW n \in DOMAIN y PROVE y[n].unacked < AckThreshold /\ y[n].unacked <= y[n].raw
      <3>1. CASE n = f.no
        <4>1. y[n] = q
          BY <1>1, <2>1, <3>1
        <4>2. QED BY <1>1, <1>3, <1>4, <4>1
      <3>2. CASE n # f.no
        BY <1>1, <2>1, <3>2 DEF LowPending
      <3>3. QED BY <3>1, <3>2
    <2>2. QED BY <2>1 DEF LowPending
  <1>10. ASSUME NEW m \in H, m.type = "REQ", m.no # 0 PROVE RequestIn(m, y, d, B)
    <2>1. RequestIn(m, x, c, A)
      BY <1>10 DEF RequestsIn
    <2>2. CASE m.no # f.no
      <3>1. Raw(y, m.no) = Raw(x, m.no) /\ Unacked(y, m.no) = Unacked(x, m.no)
        BY <1>1, <2>2 DEF Raw, Unacked
      <3>2. Total(RequestBytes(m.no), d) = Total(RequestBytes(m.no), c)
        BY <1>5, <1>6, <2>2
      <3>3. Acknowledged(m, y, B)
        BY <1>8, <2>1, <3>1 DEF RequestIn, Acknowledged, AcksSent
      <3>4. QED BY <2>1, <3>1, <3>2, <3>3 DEF RequestIn
    <2>3. CASE m.no = f.no
      <3>1. f.more
        BY <1>8, <1>10, <2>3
      <3>2. Raw(y, m.no) = q.raw /\ Unacked(y, m.no) = q.unacked /\ Raw(x, m.no) = p.raw /\ Unacked(x, m.no) = p.unacked
        BY <1>1, <1>2, <2>3, <3>1 DEF Raw, Unacked
      <3> DEFINE t == Total(RequestBytes(m.no), d)
      <3>3. Total(RequestBytes(m.no), c) = t + f.size /\ t \in Nat
        BY <1>5, <1>6, <2>3
      <3>4. m.sent \in Nat /\ m.unacked \in Nat
        BY MessageFields
      <3>5. p.raw + (t + f.size) = m.sent /\ m.sent <= m.unacked + p.raw /\ Acknowledged(m, x, A)
        BY <2>1, <3>2, <3>3 DEF RequestIn
      <3> HIDE DEF t
      <3>6. q.raw + t = m.sent /\ m.sent <= m.unacked + q.raw
        BY <1>1, <3>3, <3>4, <3>5, SMTT(60)
      <3>7. Acknowledged(m, y, B)
        <4>1. CASE p.unacked + f.size >= AckThreshold
          <5>1. PICK b \in B : b.type = "ACKREQ" /\ b.no = f.no /\ b.count = q.raw
            BY <1>8, <4>1 DEF AcksSent
          <5>2. q.raw <= b.count + q.unacked
            BY <1>1, <5>1
          <5>3. QED BY <2>3, <3>2, <5>1, <5>2 DEF Acknowledged
        <4>2. CASE ~(p.unacked + f.size >= AckThreshold)
          <5>1. q.unacked = p.unacked + f.size
            BY <1>1, <4>2
          <5>2. CASE p.raw + m.unacked <= m.sent + p.unacked
            <6>1. q.raw + m.unacked <= m.sent + q.unacked
              BY <1>1, <3>4, <5>1, <5>2, SMTT(60)
            <6>2. QED BY <3>2, <6>1 DEF Acknowledged
          <5>3. ASSUME NEW a \in A, a.type = "ACKREQ", a.no = m.no, p.raw <= a.count + p.unacked
                PROVE  Acknowledged(m, y, B)
            <6>1. a \in B
              BY <1>8 DEF AcksSent
            <6>2. q.raw <= a.count + q.unacked
              <7>1. a.count \in Nat
                OBVIOUS
              <7>2. QED BY <1>1, <5>1, <5>3, <7>1
            <6>3. QED BY <3>2, <5>3, <6>1, <6>2 DEF Acknowledged
          <5>4. QED BY <3>2, <3>5, <5>2, <5>3 DEF Acknowledged
        <4>3. QED BY <4>1, <4>2
      <3>8. QED BY <3>2, <3>6, <3>7 DEF RequestIn, t
    <2>4. QED BY <2>2, <2>3
  <1>11. ASSUME NEW b \in B, b.type = "ACKREQ"
         PROVE  b.no \in 1 .. s /\ (b.no \in DOMAIN y => b.count <= y[b.no].raw)
    <2>1. r + 1 \in Nat /\ 1 .. r \subseteq 1 .. s /\ f.no \in 1 .. s
      BY <1>7
    <2>2. CASE b \in A
      <3>1. b.no \in 1 .. r /\ (b.no \in DOMAIN x => b.count <= x[b.no].raw)
        BY <1>11, <2>2 DEF RequestAcks
      <3>2. CASE b.no # f.no
        BY <1>1, <2>1, <3>1, <3>2
      <3>3. CASE b.no = f.no
        <4>1. f.no \in DOMAIN x /\ p = x[f.no]
          BY <1>7, <3>1, <3>3
        <4>2. b.count <= p.raw
          BY <3>1, <3>3, <4>1
        <4>3. f.no \in DOMAIN y => y[f.no] = q
          BY <1>1
        <4>4. b.count <= q.raw
          <5>1. b.count \in Nat
            BY <2>2
          <5>2. QED BY <1>1, <4>2, <5>1
        <4>5. QED BY <2>1, <3>1, <3>3, <4>3, <4>4
      <3>4. QED BY <3>2, <3>3
    <2>3. CASE b.no = f.no /\ b.count = q.raw
      BY <1>1, <2>1, <2>3
    <2>4. QED BY <1>8, <1>11, <2>2, <2>3 DEF AcksSent
  <1>12. LowPending(y) /\ RequestsIn(H, y, d, B) /\ RequestAcks(B, y, s)
    BY <1>9, <1>10, <1>11 DEF RequestsIn, RequestAcks
  <1>13. QED BY <1>12 DEF d

LEMMA AnswerFrameReceived ==
    ASSUME NEW H \in SUBSET Messages, NEW x, IsPending(x), NEW y, NEW A, NEW B, NEW no, NEW K, NEW L, NEW f, NEW q,
           f.no \in DOMAIN x, \A a \in A : a.count \in Nat,
           AnswersIn(H, x), AnswerAcks(A, x, no, K), AcksSent(A, B, f, x[f.no], q, "ACKRES"), NowPending(x, y, f, x[f.no], q),
           \A m \in H : Answer(m) /\ m.no = f.no => f.more,
           f.no \in 1 .. no, \A m \in K : m.type = "REQ" => m.no # f.no, \A m \in L : m.type = "REQ" => m \in K
    PROVE  AnswersIn(H, y) /\ AnswerAcks(B, y, no, L)
  <1> DEFINE p == x[f.no]
  <1>1. /\ f.more => f.no \in DOMAIN y /\ y[f.no] = q
        /\ f.no \in DOMAIN y => f.more
        /\ \A n : n # f.no => (n \in DOMAIN y <=> n \in DOMAIN x) /\ (n \in DOMAIN x => y[n] = x[n])
        /\ q.raw = p.raw + f.size
        /\ p.raw \in Nat /\ q.raw \in Nat /\ f.size \in Nat
    BY DEF NowPending
  <1>2. p.raw = Raw(x, f.no)
    BY DEF Raw
  <1>3. p = x[f.no]
    OBVIOUS
  <1> HIDE DEF p
  <1>4. ASSUME NEW m \in H, Answer(m) PROVE m.sent <= m.unacked + Raw(y, m.no)
    <2>1. m.sent <= m.unacked + Raw(x, m.no)
      BY <1>4 DEF AnswersIn
    <2>2. CASE m.no # f.no
      BY <1>1, <2>1, <2>2 DEF Raw
    <2>3. CASE m.no = f.no
      <3>1. Raw(y, m.no) = q.raw
        BY <1>1, <1>4, <2>3 DEF Raw
      <3>2. m.sent \in Nat /\ m.unacked \in Nat /\ m.sent <= m.unacked + p.raw
        BY <1>2, <2>1, <2>3, MessageFields
      <3>3. QED BY <1>1, <3>1, <3>2
    <2>4. QED BY <2>2, <2>3
  <1>5. ASSUME NEW b \in B, b.type = "ACKRES"
        PROVE  /\ b.no \in 1 .. no /\ \A m \in L : m.type = "REQ" => m.no # b.no
               /\ b.no \in DOMAIN y => b.count <= y[b.no].raw
    <2>1. CASE b \in A
      <3>1. /\ b.no \in 1 .. no /\ \A m \in K : m.type = "REQ" => m.no # b.no
            /\ b.no \in DOMAIN x => b.count <= x[b.no].raw
        BY <1>5, <2>1 DEF AnswerAcks
      <3>2. CASE b.no # f.no
        BY <1>1, <3>1, <3>2
      <3>3. CASE b.no = f.no
        <4>1. b.count <= p.raw /\ b.count \in Nat
          BY <1>3, <2>1, <3>1, <3>3
        <4>2. b.count <= q.raw
          BY <1>1, <4>1
        <4>3. b.no \in DOMAIN y => y[b.no] = q
          BY <1>1, <3>3
        <4>4. QED BY <3>1, <4>2, <4>3
      <3>4. QED BY <3>2, <3>3
    <2>2. CASE b.no = f.no /\ b.count = q.raw
      <3>1. b.no \in DOMAIN y => b.count <= y[b.no].raw
        BY <1>1, <2>2
      <3>2. QED BY <2>2, <3>1
    <2>3. QED BY <1>5, <2>1, <2>2 DEF AcksSent
  <1>6. QED BY <1>4, <1>5 DEF AnswersIn, AnswerAcks

(* An answer is expected: e has sent all of the request numbered n.        *)
SameExcept(x, y, n) == \A k : k # n => (k \in DOMAIN y <=> k \in DOMAIN x) /\ (k \in DOMAIN x => y[k] = x[k])
NotAnswered(H, A, n) == (\A m \in H : Answer(m) => m.no # n) /\ \A a \in A : a.type = "ACKRES" => a.no # n
AddsOnly(K, L, n) == \A m \in L : m.type = "REQ" => m.no = n \/ m \in K

LEMMA AnswerIsAwaited ==
    ASSUME NEW H, NEW x, NEW y, NEW A, NEW no \in Nat, NEW last \in Nat, no <= last, NEW K, NEW L, NEW n,
           AnswersIn(H, x), AnswerAcks(A, x, no, K), SameExcept(x, y, n), NotAnswered(H, A, n), AddsOnly(K, L, n)
    PROVE  AnswersIn(H, y) /\ AnswerAcks(A, y, last, L)
  <1>1. ASSUME NEW m \in H, Answer(m) PROVE m.sent <= m.unacked + Raw(y, m.no)
    BY <1>1 DEF AnswersIn, Raw, SameExcept, NotAnswered
  <1>2. ASSUME NEW a \in A, a.type = "ACKRES"
        PROVE  /\ a.no \in 1 .. last /\ \A m \in L : m.type = "REQ" => m.no # a.no
               /\ a.no \in DOMAIN y => a.count <= y[a.no].raw
    <2>1. /\ a.no \in 1 .. no /\ \A m \in K : m.type = "REQ" => m.no # a.no
          /\ a.no \in DOMAIN x => a.count <= x[a.no].raw
      BY <1>2 DEF AnswerAcks
    <2>2. a.no # n
      BY <1>2 DEF NotAnswered
    <2>3. a.no \in 1 .. last
      BY <2>1
    <2>4. \A m \in L : m.type = "REQ" => m.no # a.no
      BY <2>1, <2>2 DEF AddsOnly
    <2>5. a.no \in DOMAIN y => a.count <= y[a.no].raw
      BY <2>1, <2>2 DEF SameExcept
    <2>6. QED BY <2>3, <2>4, <2>5
  <1>3. QED BY <1>1, <1>2 DEF AnswersIn, AnswerAcks

(* Part of an answer is sent.                                              *)
LEMMA AnswerFrameSent ==
    ASSUME NEW O, NEW h, NEW f, NEW n, NEW last, FrameOf(f, h, n, last), Answer(h), h.no # 0,
           f.more => n.unacked = h.unacked + f.size, NEW x, IsPending(x), AnswersIn(O \cup {h}, x)
    PROVE  AnswersIn(O \cup (IF f.more THEN {n} ELSE {}), x)
  <1>1. ASSUME f.more PROVE n.sent <= n.unacked + Raw(x, n.no)
    <2>1. h.sent <= h.unacked + Raw(x, h.no)
      BY DEF AnswersIn
    <2>2. n.no = h.no /\ n.sent = h.sent + f.size /\ n.unacked = h.unacked + f.size
      BY <1>1 DEF FrameOf
    <2>3. h.sent \in Nat /\ h.unacked \in Nat /\ f.size \in Nat /\ Raw(x, h.no) \in Nat
      BY MessageFields, RawIs DEF FrameOf, DataFrames
    <2>4. QED BY <2>1, <2>2, <2>3
  <1>2. QED BY <1>1 DEF AnswersIn

(* An acknowledgement is received: k is acknowledged, and becomes m.       *)
LEMMA ReceivedAckUnacked ==
    ASSUME NEW k \in Messages, NEW count \in Nat, k.unacked <= k.sent
    PROVE  LET m == ReceivedAck(k, count)
           IN  /\ m \in Messages /\ m.unacked <= k.unacked /\ (m = k \/ (count <= k.sent /\ m.unacked = k.sent - count))
               /\ count <= k.sent => m.unacked + count <= k.sent
               /\ k.unacked = 0 => m = k
  <1>1. k.sent \in Nat /\ k.unacked \in Nat
    BY DEF Messages
  <1>2. CASE count <= k.sent /\ k.sent - count < k.unacked
    <2>1. k.sent - count \in Nat
      BY <1>1, <1>2
    <2>2. ReceivedAck(k, count) = [k EXCEPT !.unacked = k.sent - count]
      BY <1>2 DEF ReceivedAck
    <2>3. [k EXCEPT !.unacked = k.sent - count] \in Messages /\ [k EXCEPT !.unacked = k.sent - count].unacked = k.sent - count
      BY <2>1 DEF Messages
    <2>4. PICK m : m = ReceivedAck(k, count)
      OBVIOUS
    <2>5. m \in Messages /\ m.unacked = k.sent - count
      BY <2>2, <2>3, <2>4
    <2>6. k.unacked # 0 /\ m.unacked <= k.unacked /\ m.unacked + count <= k.sent
      BY <1>1, <1>2, <2>1, <2>5
    <2>7. QED BY <1>2, <2>4, <2>5, <2>6
  <1>3. CASE ~(count <= k.sent /\ k.sent - count < k.unacked)
    <2>1. ReceivedAck(k, count) = k
      BY <1>3 DEF ReceivedAck
    <2>2. count <= k.sent => k.unacked + count <= k.sent
      BY <1>1, <1>3
    <2>3. QED BY <1>1, <2>1, <2>2
  <1>4. QED BY <1>2, <1>3

LEMMA RequestAcknowledged ==
    ASSUME NEW O, NEW k \in Messages, NEW m, NEW f, NEW x, IsPending(x), NEW c \in Seq(Frames), NEW A, NEW B, NEW r,
           RequestsIn(O \cup {k}, x, c, A), RequestAcks(A, x, r), f \in A, f.count \in Nat,
           f.type = "ACKREQ", k.type = "REQ", k.no = f.no, k.no # 0, k.no \in DOMAIN x, k.unacked <= k.sent,
           m = ReceivedAck(k, f.count),
           \A j \in O : j.type = "REQ" => j.no # f.no,
           \A a \in A : a \in B \/ a = f
    PROVE  RequestsIn(O \cup {m}, x, c, B)
  <1>1. ASSUME NEW j \in O, j.type = "REQ", j.no # 0 PROVE RequestIn(j, x, c, B)
    <2>1. RequestIn(j, x, c, A) /\ j.no # f.no
      BY <1>1 DEF RequestsIn
    <2>2. Acknowledged(j, x, B)
      BY <2>1 DEF RequestIn, Acknowledged
    <2>3. QED BY <2>1, <2>2 DEF RequestIn
  <1>2. RequestIn(k, x, c, A)
    BY DEF RequestsIn
  <1> DEFINE raw == Raw(x, f.no)
             un == Unacked(x, f.no)
             t == Total(RequestBytes(f.no), c)
  <1>3. raw \in Nat /\ un \in Nat /\ t \in Nat
    BY RawIs, RequestBytesAre
  <1>4. /\ raw + t = k.sent
        /\ k.sent <= k.unacked + raw
        /\ \/ raw + k.unacked <= k.sent + un
           \/ \E a \in A : a.type = "ACKREQ" /\ a.no = f.no /\ raw <= a.count + un
    BY <1>2 DEF RequestIn, Acknowledged
  <1>5. f.count <= raw
    BY DEF RequestAcks, Raw
  <1>6. /\ Alike(k, m) /\ m \in Messages /\ m.unacked <= k.unacked
        /\ m = k \/ (f.count <= k.sent /\ m.unacked = k.sent - f.count)
        /\ f.count <= k.sent => m.unacked + f.count <= k.sent
    BY ReceivedAckIs, ReceivedAckUnacked
  <1>7. m.no = f.no /\ m.sent = k.sent
    BY <1>6 DEF Alike
  <1>8. k.sent \in Nat /\ k.unacked \in Nat /\ m.unacked \in Nat
    BY <1>6, MessageFields
  <1> HIDE DEF raw, un, t
  <1>9. m.sent <= m.unacked + raw
    <2>1. CASE m = k
      BY <1>4, <2>1
    <2>2. CASE f.count <= k.sent /\ m.unacked = k.sent - f.count
      BY <1>3, <1>5, <1>7, <1>8, <2>2
    <2>3. QED BY <1>6, <2>1, <2>2
  <1>10. \/ raw + m.unacked <= m.sent + un
         \/ \E a \in B : a.type = "ACKREQ" /\ a.no = f.no /\ raw <= a.count + un
    <2>1. CASE raw + k.unacked <= k.sent + un
      BY <1>3, <1>6, <1>7, <1>8, <2>1
    <2>2. ASSUME NEW a \in A, a.type = "ACKREQ", a.no = f.no, raw <= a.count + un, a # f
          PROVE  \E b \in B : b.type = "ACKREQ" /\ b.no = f.no /\ raw <= b.count + un
      BY <2>2
    <2>3. CASE raw <= f.count + un
      <3>1. f.count <= k.sent
        BY <1>3, <1>4, <1>5, <1>8
      <3>2. m.unacked + f.count <= k.sent
        BY <1>6, <3>1
      <3>3. QED BY <1>3, <1>7, <1>8, <2>3, <3>2
    <2>4. QED BY <1>4, <2>1, <2>2, <2>3
  <1>11. RequestIn(m, x, c, B)
    BY <1>4, <1>7, <1>9, <1>10 DEF RequestIn, Acknowledged, raw, un, t
  <1>12. QED BY <1>1, <1>11 DEF RequestsIn

LEMMA AnswerAcknowledged ==
    ASSUME NEW O, NEW k \in Messages, NEW m, NEW f, NEW x, IsPending(x), NEW A, NEW no, NEW K,
           AnswersIn(O \cup {k}, x), AnswerAcks(A, x, no, K), f \in A, f.count \in Nat,
           f.type = "ACKRES", Answer(k), k.no = f.no, k.no \in DOMAIN x, k.unacked <= k.sent,
           m = ReceivedAck(k, f.count)
    PROVE  AnswersIn(O \cup {m}, x)
  <1>1. k.sent <= k.unacked + Raw(x, k.no)
    BY DEF AnswersIn
  <1>2. f.count <= Raw(x, k.no)
    BY DEF AnswerAcks, Raw
  <1>3. /\ Alike(k, m) /\ m \in Messages
        /\ m = k \/ (f.count <= k.sent /\ m.unacked = k.sent - f.count)
    BY ReceivedAckIs, ReceivedAckUnacked
  <1>4. m.no = k.no /\ m.sent = k.sent /\ k.sent \in Nat /\ Raw(x, k.no) \in Nat
    BY <1>3, MessageFields, RawIs DEF Alike
  <1>5. m.sent <= m.unacked + Raw(x, m.no)
    <2>1. CASE m = k
      BY <1>1, <2>1
    <2>2. CASE f.count <= k.sent /\ m.unacked = k.sent - f.count
      BY <1>2, <1>4, <2>2
    <2>3. QED BY <1>3, <2>1, <2>2
  <1>6. QED BY <1>5 DEF AnswersIn

-----------------------------------------------------------------------------
(* The windows and the waking, step by step                                *)
LEMMA BoxRanges ==
    ASSUME NEW box \in Seq(Messages), NEW m \in Messages
    PROVE  /\ Append(box, m) \in Seq(Messages) /\ Range(Append(box, m)) = Range(box) \cup {m}
           /\ Requeue(box, m) \in Seq(Messages) /\ Range(Requeue(box, m)) = Range(box) \cup {m}
           /\ box # << >> => /\ Tail(box) \in Seq(Messages) /\ Head(box) \in Messages
                             /\ Range(box) = Range(Tail(box)) \cup {Head(box)}
           /\ Range(<< >>) = {}
  <1>1. PICK w : w \in [Messages -> Nat]
    BY MessageWeights
  <1>2. Append(box, m) \in Seq(Messages) /\ Range(Append(box, m)) = Range(box) \cup {m}
    BY <1>1, AppendHeld
  <1>3. Requeue(box, m) \in Seq(Messages) /\ Range(Requeue(box, m)) = Range(box) \cup {m}
    BY <1>1, RequeueHeld
  <1>4. box # << >> => /\ Tail(box) \in Seq(Messages) /\ Head(box) \in Messages
                       /\ Range(box) = Range(Tail(box)) \cup {Head(box)}
    BY <1>1, TailHeld
  <1>5. Range(<< >>) = {}
    BY DEF Range
  <1>6. QED BY <1>2, <1>3, <1>4, <1>5

LEMMA WindowsSame ==
    ASSUME NEW e, Windows(e), mailbox'[e] = mailbox[e], outbox'[e] = outbox[e], icebox'[e] = icebox[e]
    PROVE  Windows(e)'
  BY DEF Windows

LEMMA WakesSame ==
    ASSUME NEW e, Wakes(e), outbox'[e] = outbox[e], writing'[e] = writing[e], writeable'[e] = writeable[e],
           state'[e] = "open" => state[e] = "open" /\ sock'[e] = sock[e] /\ ready'[e] = ready[e]
    PROVE  Wakes(e)'
  BY DEF Wakes

(* A message that nothing has been sent of *)
NewMessage(m) == m \in Messages /\ m.sent = 0 /\ m.unacked = 0 /\ (m.type = "REQ" => m.no = 0)

LEMMA NewMessageIs ==
    ASSUME NEW type \in Types, NEW no \in Nat, NEW q \in Requests, NEW urgent \in BOOLEAN, NEW left \in Nat \ {0},
           type = "REQ" => no = 0
    PROVE  NewMessage(MessageOut(type, no, q, urgent, left))
  <1> DEFINE m == MessageOut(type, no, q, urgent, left)
  <1>1. m \in Messages /\ m.type = type /\ m.no = no /\ m.sent = 0
    BY MessageOutIs
  <1>2. m.unacked = 0
    BY DEF MessageOut
  <1> HIDE DEF m
  <1>3. NewMessage(m)
    BY <1>1, <1>2 DEF NewMessage
  <1>4. QED BY <1>3 DEF m

LEMMA WindowsPosted ==
    ASSUME NEW e, Windows(e), outbox'[e] = outbox[e], icebox'[e] = icebox[e],
           \A m \in Range(mailbox'[e]) : m \in Range(mailbox[e]) \/ NewMessage(m)
    PROVE  Windows(e)'
  <1> DEFINE M == Range(mailbox[e])
             N == Range(mailbox'[e])
             O == Range(outbox[e])
             I == Range(icebox[e])
  <1>1. WindowsIn(M, O, I) /\ \A m \in N : m \in M \/ NewMessage(m)
    BY DEF Windows
  <1> HIDE DEF M, N, O, I
  <1>2. ASSUME NEW m \in N
        PROVE  m.unacked <= m.sent /\ (m.no = 0 \/ IsAck(m) => m.sent = 0) /\ m.sent = 0 /\ (m.type = "REQ" => m.no = 0)
    BY <1>1 DEF WindowsIn, NewMessage
  <1>3. WindowsIn(N, O, I)
    BY <1>1, <1>2 DEF WindowsIn
  <1>4. QED BY <1>3 DEF Windows, N, O, I

(* The acknowledgement that a frame makes the receiver send, if any        *)
NewAck(p, f, type) == MessageOut(type, f.no, p.about, TRUE, p.raw + f.size)
AckPosted(e, p, f, type) ==
    /\ \A x \in Ends : x # e => mailbox'[x] = mailbox[x]
    /\ \A m : m \in Range(mailbox'[e]) <=>
                 \/ m \in Range(mailbox[e])
                 \/ p.unacked + f.size >= AckThreshold /\ m = NewAck(p, f, type)

LEMMA NewAckIs ==
    ASSUME NEW p \in Pendings, NEW f \in DataFrames, NEW type \in {"ACKREQ", "ACKRES"}
    PROVE  LET a == NewAck(p, f, type)
           IN  /\ NewMessage(a) /\ IsAck(a) /\ a.type = type /\ a.no = f.no /\ a.no # 0 /\ a.left = p.raw + f.size
  <1>1. p.raw \in Nat /\ p.about \in Requests /\ f.size \in Nat \ {0} /\ f.no \in Nat \ {0}
    BY DEF Pendings, DataFrames
  <1>2. p.raw + f.size \in Nat \ {0} /\ type \in Types /\ type # "REQ" /\ TRUE \in BOOLEAN
    BY <1>1 DEF Types
  <1> DEFINE a == NewAck(p, f, type)
  <1>3. a \in Messages /\ a.type = type /\ a.no = f.no /\ a.left = p.raw + f.size /\ NewMessage(a)
    <2>1. \A urgent \in BOOLEAN :
             LET m == MessageOut(type, f.no, p.about, urgent, p.raw + f.size)
             IN  m \in Messages /\ m.type = type /\ m.no = f.no /\ m.left = p.raw + f.size /\ NewMessage(m)
      BY <1>1, <1>2, MessageOutIs, NewMessageIs
    <2>2. QED BY <1>2, <2>1 DEF NewAck
  <1> HIDE DEF a
  <1>4. IsAck(a)
    BY <1>3 DEF IsAck
  <1>5. QED BY <1>1, <1>3, <1>4 DEF a

LEMMA AckIsPosted ==
    ASSUME Typed, NEW e \in Ends, NEW p \in Pendings, NEW f \in DataFrames, NEW type \in {"ACKREQ", "ACKRES"},
           mailbox' = [mailbox EXCEPT ![e] = @ \o Acks(p, f, type)]
    PROVE  AckPosted(e, p, f, type)
  <1>1. mailbox \in [Ends -> Seq(Messages)] /\ mailbox[e] \in Seq(Messages)
    BY DEF Typed
  <1>2. mailbox'[e] = mailbox[e] \o Acks(p, f, type) /\ \A x \in Ends : x # e => mailbox'[x] = mailbox[x]
    BY <1>1
  <1> DEFINE a == NewAck(p, f, type)
  <1>3. a \in Messages
    BY NewAckIs DEF NewMessage
  <1>4. CASE p.unacked + f.size >= AckThreshold
    <2>1. Acks(p, f, type) = <<a>>
      BY <1>4 DEF Acks, NewAck
    <2> HIDE DEF a
    <2>2. mailbox[e] \o <<a>> = Append(mailbox[e], a)
      BY <1>1, <1>3
    <2>3. mailbox'[e] = Append(mailbox[e], a)
      BY <1>2, <2>1, <2>2
    <2>4. Range(mailbox'[e]) = Range(mailbox[e]) \cup {a}
      BY <1>1, <1>3, <2>3, BoxRanges
    <2>5. QED BY <1>2, <1>4, <2>4 DEF AckPosted, a
  <1>5. CASE ~(p.unacked + f.size >= AckThreshold)
    <2>1. Acks(p, f, type) = << >>
      BY <1>5 DEF Acks
    <2>2. mailbox[e] \o << >> = mailbox[e]
      BY <1>1
    <2>3. mailbox'[e] = mailbox[e]
      BY <1>2, <2>1, <2>2
    <2>4. QED BY <1>2, <1>5, <2>3 DEF AckPosted
  <1>6. QED BY <1>4, <1>5

LEMMA OnRequestAcks ==
    ASSUME Typed, NEW e \in Ends, OnRequest(e)
    PROVE  RequestRefused(e) \/ AckPosted(e, RequestPending(e), Frame(e), "ACKREQ")
  <1>1. RequestRefused(e) \/ mailbox' = [mailbox EXCEPT ![e] = @ \o Acks(RequestPending(e), Frame(e), "ACKREQ")]
    BY Zenon DEF OnRequest, RequestPending, RequestRefused
  <1>2. RequestPending(e) \in Pendings /\ Frame(e) \in DataFrames /\ "ACKREQ" \in {"ACKREQ", "ACKRES"}
    BY OnRequestIs
  <1>3. QED BY <1>1, <1>2, AckIsPosted

LEMMA OnResponseAcks ==
    ASSUME Typed, NEW e \in Ends, OnResponse(e)
    PROVE  ResponseRefused(e) \/ (/\ Frame(e).no \in DOMAIN pendingResponses[e]
                                  /\ AckPosted(e, pendingResponses[e][Frame(e).no], Frame(e), "ACKRES"))
  <1>1. \/ ResponseRefused(e)
        \/ /\ Frame(e).no \in DOMAIN pendingResponses[e]
           /\ mailbox' = [mailbox EXCEPT ![e] = @ \o Acks(pendingResponses[e][Frame(e).no], Frame(e), "ACKRES")]
    BY Zenon DEF OnResponse, ResponseRefused
  <1>2. Frame(e) \in DataFrames /\ "ACKRES" \in {"ACKREQ", "ACKRES"}
    BY OnResponseIs
  <1>3. Frame(e).no \in DOMAIN pendingResponses[e] => pendingResponses[e][Frame(e).no] \in Pendings
    BY DEF Typed, IsPending
  <1>4. QED BY <1>1, <1>2, <1>3, AckIsPosted

Steady(e) == Windows(e) /\ Wakes(e)

LEMMA SteadyPosted ==
    ASSUME Typed, \A x \in Ends : Steady(x), NEW e \in Ends, NEW m, NewMessage(m), Posted(e, m)
    PROVE  \A x \in Ends : Steady(x)'
  <1>1. ASSUME NEW x \in Ends PROVE Steady(x)'
    <2>1. UNCHANGED <<outbox, icebox, writeable, writing, state, sock, ready>>
      BY DEF Posted, ends, net
    <2>2. mailbox \in [Ends -> Seq(Messages)] /\ mailbox[e] \in Seq(Messages) /\ m \in Messages
      BY DEF Typed, NewMessage
    <2>3. mailbox'[x] = (IF x = e THEN Append(mailbox[e], m) ELSE mailbox[x])
      BY <2>2 DEF Posted
    <2>4. Range(Append(mailbox[e], m)) = Range(mailbox[e]) \cup {m}
      BY <2>2, BoxRanges
    <2>5. \A k \in Range(mailbox'[x]) : k \in Range(mailbox[x]) \/ NewMessage(k)
      BY <2>3, <2>4
    <2>6. Windows(x)'
      BY <2>1, <2>5, WindowsPosted DEF Steady
    <2>7. Wakes(x)'
      BY <2>1, WakesSame DEF Steady
    <2>8. QED BY <2>6, <2>7 DEF Steady
  <1>2. QED BY <1>1

LEMMA SendRequestPosts ==
    ASSUME Typed, NEW q \in Requests, SendRequest(q)
    PROVE  q.from \in Ends /\ \E m : NewMessage(m) /\ m.type = "REQ" /\ Posted(q.from, m)
  <1> DEFINE m == MessageOut("REQ", 0, q, q.urgent, q.size)
  <1>1. "REQ" \in Types /\ 0 \in Nat /\ q.urgent \in BOOLEAN /\ q.size \in Nat \ {0} /\ q.from \in Ends
    BY RequestIs DEF Types
  <1>2. NewMessage(m) /\ m \in Messages /\ m.type = "REQ"
    BY <1>1, NewMessageIs, MessageOutIs
  <1>3. Posted(q.from, m)
    BY <1>2 DEF SendRequest, Posted
  <1> HIDE DEF m
  <1>4. QED BY <1>1, <1>2, <1>3

LEMMA RespondPosts ==
    ASSUME Typed, NEW e \in Ends, Respond(e)
    PROVE  \E m : NewMessage(m) /\ Answer(m) /\ Posted(e, m)
  <1>1. PICK r \in inbox[e] :
           /\ mailbox' = [mailbox EXCEPT ![e] =
                             Append(@, MessageOut(r.about.type, r.no, r.about, r.about.urgent, r.about.response))]
           /\ UNCHANGED <<ends, net, unsent, outcome, faults>>
    BY DEF Respond
  <1> DEFINE m == MessageOut(r.about.type, r.no, r.about, r.about.urgent, r.about.response)
  <1>2. inbox[e] \subseteq [no : Nat \ {0}, about : Requests]
    BY DEF Typed
  <1>3. r.no \in Nat /\ r.about \in Requests
    BY <1>2
  <1>4. /\ r.about.type \in Types /\ r.about.type \in {"RES", "ERR"} /\ r.about.type # "REQ" /\ r.about.urgent \in BOOLEAN
        /\ r.about.response \in Nat \ {0}
    BY <1>3, RequestIs DEF Types
  <1>5. NewMessage(m) /\ m \in Messages /\ m.type = r.about.type
    BY <1>3, <1>4, NewMessageIs, MessageOutIs
  <1>6. Posted(e, m)
    BY <1>1, <1>5 DEF Posted
  <1> HIDE DEF m
  <1>7. QED BY <1>4, <1>5, <1>6 DEF Answer

LEMMA QueueMessageMoves ==
    ASSUME Typed, NEW e \in Ends, QueueMessage(e)
    PROVE  /\ \A x \in Ends : x # e => /\ mailbox'[x] = mailbox[x] /\ outbox'[x] = outbox[x] /\ writing'[x] = writing[x]
           /\ UNCHANGED <<icebox, writeable, lastNo, received, pendingRequests, pendingResponses, state, net, unsent, inbox>>
           /\ \E m : /\ Range(mailbox[e]) = Range(mailbox'[e]) \cup {m}
                     /\ \/ state[e] \in {"error", "closed"} /\ UNCHANGED <<outbox, writing>>
                        \/ /\ Range(outbox'[e]) = Range(outbox[e]) \cup {m} /\ writing'[e] = writeable[e]
                           /\ state[e] \notin {"error", "closed"}
  <1> DEFINE m == Head(mailbox[e])
  <1>1. /\ mailbox \in [Ends -> Seq(Messages)] /\ mailbox[e] \in Seq(Messages) /\ mailbox[e] # << >>
        /\ outbox \in [Ends -> Seq(Messages)] /\ outbox[e] \in Seq(Messages) /\ writing \in [Ends -> BOOLEAN]
    BY DEF Typed, QueueMessage
  <1>2. /\ mailbox' = [mailbox EXCEPT ![e] = Tail(mailbox[e])]
        /\ \/ state[e] \in {"error", "closed"} /\ UNCHANGED <<outbox, writing>>
           \/ /\ state[e] \notin {"error", "closed"}
              /\ outbox' = [outbox EXCEPT ![e] = Requeue(outbox[e], m)] /\ writing' = [writing EXCEPT ![e] = writeable[e]]
    BY Zenon DEF QueueMessage, Set
  <1>3. UNCHANGED <<icebox, writeable, lastNo, received, pendingRequests, pendingResponses, state, net, unsent, inbox>>
    BY DEF QueueMessage
  <1>4. m \in Messages /\ Range(mailbox[e]) = Range(Tail(mailbox[e])) \cup {m}
    <2>1. PICK w : w \in [Messages -> Nat]
      BY MessageWeights
    <2>2. QED BY <1>1, <2>1, TailHeld
  <1> HIDE DEF m
  <1>5. Range(Requeue(outbox[e], m)) = Range(outbox[e]) \cup {m}
    BY <1>1, <1>4, BoxRanges
  <1>6. \A x \in Ends : x # e => mailbox'[x] = mailbox[x] /\ outbox'[x] = outbox[x] /\ writing'[x] = writing[x]
    BY <1>1, <1>2
  <1>7. mailbox'[e] = Tail(mailbox[e])
    BY <1>1, <1>2
  <1>8. CASE state[e] \in {"error", "closed"} /\ UNCHANGED <<outbox, writing>>
    BY <1>3, <1>4, <1>6, <1>7, <1>8
  <1>9. CASE /\ state[e] \notin {"error", "closed"}
             /\ outbox' = [outbox EXCEPT ![e] = Requeue(outbox[e], m)] /\ writing' = [writing EXCEPT ![e] = writeable[e]]
    <2>1. outbox'[e] = Requeue(outbox[e], m) /\ writing'[e] = writeable[e]
      BY <1>1, <1>9
    <2>2. QED BY <1>3, <1>4, <1>5, <1>6, <1>7, <1>9, <2>1
  <1>10. QED BY <1>2, <1>8, <1>9

LEMMA SteadyQueueMessage ==
    ASSUME Typed, \A x \in Ends : Steady(x), NEW e \in Ends, QueueMessage(e)
    PROVE  \A x \in Ends : Steady(x)'
  <1>1. /\ \A x \in Ends : x # e => /\ mailbox'[x] = mailbox[x] /\ outbox'[x] = outbox[x] /\ writing'[x] = writing[x]
        /\ UNCHANGED <<icebox, writeable, state, sock, ready>>
    BY QueueMessageMoves DEF net
  <1>2. PICK m : /\ Range(mailbox[e]) = Range(mailbox'[e]) \cup {m}
                 /\ \/ UNCHANGED <<outbox, writing>>
                    \/ Range(outbox'[e]) = Range(outbox[e]) \cup {m} /\ writing'[e] = writeable[e]
    BY QueueMessageMoves
  <1>3. ASSUME NEW x \in Ends, x # e PROVE Steady(x)'
    BY <1>1, <1>3, WindowsSame, WakesSame DEF Steady
  <1>4. Windows(e)'
    <2> DEFINE M == Range(mailbox[e])
               N == Range(mailbox'[e])
               O == Range(outbox[e])
               P == Range(outbox'[e])
               I == Range(icebox[e])
    <2>1. WindowsIn(M, O, I) /\ M = N \cup {m} /\ \A k \in P : k \in O \/ k = m
      BY <1>2 DEF Steady, Windows
    <2>2. m.unacked < MaxUnacked
      <3>1. m \in Messages
        <4>1. mailbox[e] \in Seq(Messages)
          BY DEF Typed
        <4>2. M \subseteq Messages
          BY <4>1, RangeMessages
        <4>3. QED BY <2>1, <4>2
      <3>2. m.unacked \in Nat /\ MaxUnacked \in Nat \ {0}
        BY <3>1, MessageFields, BLIPAssumption
      <3> HIDE DEF M, N, O, P, I
      <3>3. m.unacked <= 0
        BY <2>1 DEF WindowsIn
      <3>4. QED BY <3>2, <3>3
    <2> HIDE DEF M, N, O, P, I
    <2>3. WindowsIn(N, P, I)
      BY <2>1, <2>2 DEF WindowsIn
    <2>4. QED BY <1>1, <2>3 DEF Windows, N, P, I
  <1>5. Wakes(e)'
    <2>1. CASE UNCHANGED <<outbox, writing>>
      BY <1>1, <2>1, WakesSame DEF Steady
    <2>2. CASE writing'[e] = writeable[e]
      BY <1>1, <2>2 DEF Steady, Wakes
    <2>3. QED BY <1>2, <2>1, <2>2
  <1>6. QED BY <1>3, <1>4, <1>5 DEF Steady

LEMMA SteadyReceived ==
    ASSUME Typed, \A x \in Ends : Steady(x), NEW e \in Ends, NEW p \in Pendings, NEW f \in DataFrames,
           NEW type \in {"ACKREQ", "ACKRES"}, mailbox' = mailbox \/ AckPosted(e, p, f, type),
           UNCHANGED <<outbox, icebox, writeable, writing, ready>>,
           CloseWithError(e) \/ UNCHANGED <<state, sock>>
    PROVE  \A x \in Ends : Steady(x)'
  <1>1. ASSUME NEW x \in Ends PROVE Windows(x)'
    <2>1. NewMessage(NewAck(p, f, type))
      BY NewAckIs
    <2>2. \A m \in Range(mailbox'[x]) : m \in Range(mailbox[x]) \/ NewMessage(m)
      <3>1. CASE mailbox' = mailbox
        BY <3>1
      <3>2. CASE AckPosted(e, p, f, type) /\ x = e
        BY <2>1, <3>2 DEF AckPosted
      <3>3. CASE AckPosted(e, p, f, type) /\ x # e
        BY <3>3 DEF AckPosted
      <3>4. QED BY <3>1, <3>2, <3>3
    <2>3. QED BY <2>2, WindowsPosted DEF Steady
  <1>2. ASSUME NEW x \in Ends PROVE Wakes(x)'
    <2>1. state'[x] = "open" => state[x] = "open" /\ sock'[x] = sock[x]
      <3>1. CASE UNCHANGED <<state, sock>>
        BY <3>1
      <3>2. CASE CloseWithError(e)
        BY <3>2, CloseWithErrorIs, ZenonT(60) DEF Typed
      <3>3. QED BY <3>1, <3>2
    <2>2. QED BY <2>1, WakesSame DEF Steady
  <1>3. QED BY <1>1, <1>2 DEF Steady

LEMMA SteadyOnRequest ==
    ASSUME Typed, \A x \in Ends : Steady(x), NEW e \in Ends, OnRequest(e)
    PROVE  \A x \in Ends : Steady(x)'
  <1>1. /\ Frame(e) \in DataFrames /\ RequestPending(e) \in Pendings
        /\ UNCHANGED <<outbox, icebox, writeable, writing, ready>>
        /\ RequestRefused(e) \/ RequestTaken(e)
    BY OnRequestIs
  <1>2. CloseWithError(e) \/ UNCHANGED <<state, sock>>
    BY <1>1 DEF RequestRefused, RequestTaken
  <1>3. mailbox' = mailbox \/ AckPosted(e, RequestPending(e), Frame(e), "ACKREQ")
    BY OnRequestAcks DEF RequestRefused
  <1>4. QED BY <1>1, <1>2, <1>3, SteadyReceived

LEMMA SteadyOnResponse ==
    ASSUME Typed, \A x \in Ends : Steady(x), NEW e \in Ends, OnResponse(e)
    PROVE  \A x \in Ends : Steady(x)'
  <1>1. /\ Frame(e) \in DataFrames
        /\ UNCHANGED <<outbox, icebox, writeable, writing, ready>>
        /\ ResponseRefused(e) \/ ResponseTaken(e) \/ ResponseDamaged(e)
    BY OnResponseIs, SMTT(40)
  <1>2. CloseWithError(e) \/ UNCHANGED <<state, sock>>
    BY <1>1 DEF ResponseRefused, ResponseTaken, ResponseDamaged
  <1>3. \/ mailbox' = mailbox
        \/ \E p \in Pendings : AckPosted(e, p, Frame(e), "ACKRES")
    BY OnResponseAcks DEF ResponseRefused, Typed, IsPending
  <1>4. PICK p \in Pendings : mailbox' = mailbox \/ AckPosted(e, p, Frame(e), "ACKRES")
    <2>1. CASE mailbox' = mailbox
      <3>1. Frame(e).about \in Requests
        BY <1>1 DEF DataFrames
      <3>2. NewPending(Frame(e).about) \in Pendings
        BY <3>1 DEF NewPending, Pendings
      <3>3. QED BY <2>1, <3>2
    <2>2. QED BY <1>3, <2>1
  <1>5. QED BY <1>1, <1>2, <1>4, SteadyReceived

LEMMA SteadySocket ==
    ASSUME Typed, \A x \in Ends : Steady(x), NEW e \in Ends, WriteComplete(e) \/ OnWriteable(e)
    PROVE  \A x \in Ends : Steady(x)'
  <1>1. UNCHANGED <<mailbox, outbox, icebox, state>>
    BY DEF WriteComplete, OnWriteable, ends
  <1>2. \A x \in Ends : Windows(x)'
    BY <1>1, WindowsSame DEF Steady
  <1>3. CASE WriteComplete(e)
    <2>1. /\ UNCHANGED <<writeable, writing>> /\ sock[e] # << >> /\ sock' = [sock EXCEPT ![e] = Tail(sock[e])]
          /\ ready' = IF Size(sock[e]) > SendBuffer /\ Size(sock'[e]) <= SendBuffer THEN [ready EXCEPT ![e] = TRUE] ELSE ready
      BY <1>3 DEF WriteComplete, ends, Set
    <2>2. sock \in [Ends -> Seq(Frames)] /\ sock[e] \in Seq(Frames) /\ ready \in [Ends -> BOOLEAN]
      BY DEF Typed
    <2>3. sock'[e] = Tail(sock[e]) /\ \A x \in Ends : x # e => sock'[x] = sock[x] /\ ready'[x] = ready[x]
      BY <2>1, <2>2
    <2>4. ASSUME NEW x \in Ends, x # e PROVE Wakes(x)'
      BY <1>1, <2>1, <2>3, <2>4, WakesSame DEF Steady
    <2>5. Tail(sock[e]) \in Seq(Frames)
      BY <2>1, <2>2, TailInserts
    <2>6. Size(sock[e]) \in Nat /\ Size(sock'[e]) \in Nat /\ SendBuffer \in Nat
      BY <2>2, <2>3, <2>5, SizeIs, BLIPAssumption
    <2>7. Size(sock[e]) > SendBuffer \/ ready[e] => Size(sock'[e]) > SendBuffer \/ ready'[e]
      BY <2>1, <2>2, <2>6
    <2>8. Wakes(e)'
      BY <1>1, <2>1, <2>7 DEF Steady, Wakes
    <2>9. QED BY <1>2, <2>4, <2>8 DEF Steady
  <1>4. CASE OnWriteable(e)
    <2>1. /\ UNCHANGED <<sock>> /\ ready' = [ready EXCEPT ![e] = FALSE]
          /\ writeable' = [writeable EXCEPT ![e] = TRUE] /\ writing' = [writing EXCEPT ![e] = TRUE]
      BY <1>4 DEF OnWriteable, Set
    <2>2. ready \in [Ends -> BOOLEAN] /\ writeable \in [Ends -> BOOLEAN] /\ writing \in [Ends -> BOOLEAN]
      BY DEF Typed
    <2>3. writeable'[e] /\ writing'[e]
      BY <2>1, <2>2
    <2>4. ASSUME NEW x \in Ends, x # e PROVE Wakes(x)'
      <3>1. writing'[x] = writing[x] /\ writeable'[x] = writeable[x] /\ ready'[x] = ready[x]
        BY <2>1, <2>2, <2>4
      <3>2. QED BY <1>1, <2>1, <3>1, WakesSame DEF Steady
    <2>5. Wakes(e)'
      BY <2>3 DEF Wakes
    <2>6. QED BY <1>2, <2>4, <2>5 DEF Steady
  <1>5. QED BY <1>3, <1>4

LEMMA SteadyClosing ==
    ASSUME Typed, \A x \in Ends : Steady(x), NEW e \in Ends, Close(e) \/ Closed(e) \/ Lost(e) \/ OnClose(e)
    PROVE  \A x \in Ends : Steady(x)'
  <1>1. CASE Close(e)
    <2>1. /\ UNCHANGED <<outbox, icebox, writeable, writing, mailbox, ready>>
          /\ state' = [state EXCEPT ![e] = "closing"] /\ sock' = [sock EXCEPT ![e] = Append(@, CloseFrame)]
      BY <1>1 DEF Close, Set
    <2>2. ASSUME NEW x \in Ends PROVE Steady(x)'
      <3>1. state'[x] = "open" => state[x] = "open" /\ sock'[x] = sock[x]
        BY <2>1 DEF Typed
      <3>2. QED BY <2>1, <3>1, WindowsSame, WakesSame DEF Steady
    <2>3. QED BY <2>2
  <1>2. CASE OnClose(e)
    <2>1. UNCHANGED <<outbox, icebox, writeable, writing, mailbox, ready, state, sock>>
      BY <1>2 DEF OnClose, ends
    <2>2. QED BY <2>1, WindowsSame, WakesSame DEF Steady
  <1>3. CASE Closed(e) \/ Lost(e)
    <2>1. EndConnection(e)
      BY <1>3 DEF Closed, Lost
    <2>2. /\ outbox' = [outbox EXCEPT ![e] = << >>] /\ icebox' = [icebox EXCEPT ![e] = << >>]
          /\ state' = [state EXCEPT ![e] = "closed"] /\ sock' = [sock EXCEPT ![e] = << >>] /\ ready' = [ready EXCEPT ![e] = FALSE]
          /\ UNCHANGED <<writeable, writing, mailbox>>
      BY <2>1, EndConnectionIs
    <2>3. /\ outbox'[e] = << >> /\ icebox'[e] = << >> /\ state'[e] = "closed"
          /\ \A x \in Ends : x # e => /\ outbox'[x] = outbox[x] /\ icebox'[x] = icebox[x] /\ state'[x] = state[x]
                                      /\ sock'[x] = sock[x] /\ ready'[x] = ready[x]
      BY <2>2 DEF Typed
    <2>4. ASSUME NEW x \in Ends, x # e PROVE Steady(x)'
      BY <2>2, <2>3, <2>4, WindowsSame, WakesSame DEF Steady
    <2>5. Wakes(e)'
      BY <2>3 DEF Wakes
    <2>6. Windows(e)'
      <3>1. Range(outbox'[e]) = {} /\ Range(icebox'[e]) = {}
        BY <2>3 DEF Range
      <3> DEFINE M == Range(mailbox[e])
                 O == Range(outbox[e])
                 I == Range(icebox[e])
      <3>2. WindowsIn(M, O, I)
        BY DEF Steady, Windows
      <3> HIDE DEF M, O, I
      <3>3. WindowsIn(M, {}, {})
        BY <3>2 DEF WindowsIn
      <3>4. QED BY <2>2, <3>1, <3>3 DEF Windows, M
    <2>7. QED BY <2>4, <2>5, <2>6 DEF Steady
  <1>4. QED BY <1>1, <1>2, <1>3

(* What an acknowledgement changes: the message k that it is for, found    *)
(* among the others, a in the out-box and b in the icebox.                 *)
Matches(k, f) == k.no = f.no /\ (IsResponse(k) <=> f.type = "ACKRES")
OnlyOne(e, k, a, b) == \A w \in [Messages -> Nat] : \A j \in Range(mailbox[e]) \cup a \cup b : w[j] + w[k] <= Held(w, e)
AckedOut(e, k, m, a, b) ==
    /\ Range(outbox[e]) = a \cup {k} /\ Range(outbox'[e]) = a \cup {m}
    /\ Range(icebox[e]) = b /\ Range(icebox'[e]) = b
    /\ outbox[e] # << >> /\ writing'[e] = writing[e]
AckedIce(e, k, m, a, b) ==
    /\ Range(outbox[e]) = a /\ outbox'[e] = outbox[e]
    /\ Range(icebox[e]) = b \cup {k} /\ Range(icebox'[e]) = b \cup {m}
    /\ m.unacked >= MaxUnacked /\ writing'[e] = writing[e]
Thawed(e, k, m, a, b) ==
    /\ Range(outbox[e]) = a /\ Range(outbox'[e]) = a \cup {m}
    /\ Range(icebox[e]) = b \cup {k} /\ Range(icebox'[e]) = b
    /\ ~(m.unacked >= MaxUnacked) /\ writing'[e] = writeable[e]
AckMatched(e, k, m, a, b) ==
    /\ k \in Messages /\ a \subseteq Messages /\ b \subseteq Messages
    /\ Matches(k, Frame(e)) /\ m = ReceivedAck(k, Frame(e).count)
    /\ OnlyOne(e, k, a, b)
    /\ AckedOut(e, k, m, a, b) \/ AckedIce(e, k, m, a, b) \/ Thawed(e, k, m, a, b)
NoneMatched(e) ==
    /\ UNCHANGED <<outbox, icebox, writing>>
    /\ \A k \in Range(outbox[e]) \cup Range(icebox[e]) : ~Matches(k, Frame(e))

LEMMA BoxReplaced ==
    ASSUME NEW box \in Seq(Messages), NEW i \in DOMAIN box, NEW m \in Messages
    PROVE  LET r == RemoveAt(box, i)
           IN  /\ r \in Seq(Messages) /\ Range(r) \subseteq Messages
               /\ Range(box) = Range(r) \cup {box[i]} /\ Range([box EXCEPT ![i] = m]) = Range(r) \cup {m}
               /\ \A w \in [Messages -> Nat] :
                     Total(w, box) = Total(w, r) + w[box[i]] /\ Total(w, r) \in Nat /\ \A j \in Range(r) : w[j] <= Total(w, r)
  <1> DEFINE r == RemoveAt(box, i)
             t == [box EXCEPT ![i] = m]
  <1>1. PICK v : v \in [Messages -> Nat]
    BY MessageWeights
  <1>2. r \in Seq(Messages) /\ Inserted(r, box, i, box[i])
    BY RemoveAtInserts
  <1>3. Range(box) = Range(r) \cup {box[i]}
    BY <1>1, RemoveHeld
  <1>4. t \in Seq(Messages) /\ Len(t) = Len(box) /\ t[i] = m /\ DOMAIN box = 1 .. Len(box) /\ Len(box) \in Nat
    OBVIOUS
  <1>5. \A j \in 1 .. Len(box) : j # i => t[j] = box[j]
    OBVIOUS
  <1> HIDE DEF r, t
  <1>6. Inserted(r, t, i, m)
    <2>1. /\ i \in 1 .. Len(r) + 1 /\ Len(box) = Len(r) + 1 /\ Len(r) \in Nat
          /\ \A j \in 1 .. i - 1 : box[j] = r[j]
          /\ \A j \in i .. Len(r) : box[j + 1] = r[j]
      BY <1>2 DEF Inserted
    <2>2. \A j \in 1 .. i - 1 : t[j] = r[j]
      BY <1>5, <2>1
    <2>3. \A j \in i .. Len(r) : t[j + 1] = r[j]
      BY <1>5, <2>1
    <2>4. QED BY <1>4, <2>1, <2>2, <2>3 DEF Inserted
  <1>7. Range(t) = Range(r) \cup {m}
    BY <1>2, <1>4, <1>6, RangeInserted
  <1>8. ASSUME NEW w \in [Messages -> Nat]
        PROVE  Total(w, box) = Total(w, r) + w[box[i]] /\ Total(w, r) \in Nat /\ \A j \in Range(r) : w[j] <= Total(w, r)
    <2>1. Total(w, box) = Total(w, r) + w[box[i]]
      BY RemoveHeld DEF r
    <2>2. Total(w, r) \in Nat
      BY <1>2, TotalIs
    <2>3. \A j \in Range(r) : w[j] <= Total(w, r)
      <3>1. TAKE j \in Range(r)
      <3>2. PICK l \in DOMAIN r : r[l] = j
        BY DEF Range
      <3>3. QED BY <1>2, <3>2, TotalAtLeast
    <2>4. QED BY <2>1, <2>2, <2>3
  <1>9. Range(r) \subseteq Messages
    BY <1>2, RangeMessages
  <1>10. QED BY <1>2, <1>3, <1>7, <1>8, <1>9 DEF r, t

LEMMA OnlyOneIs ==
    ASSUME NEW w \in [Messages -> Nat], NEW x \in Seq(Messages), NEW y \in Seq(Messages), NEW r \in Seq(Messages),
           NEW k \in Messages, NEW T, T = Total(w, r) + w[k],
           NEW j \in Range(x) \cup Range(y) \cup Range(r)
    PROVE  w[j] + w[k] <= Total(w, x) + Total(w, y) + T /\ w[j] + w[k] <= Total(w, x) + T + Total(w, y)
  <1>1. Total(w, x) \in Nat /\ Total(w, y) \in Nat /\ Total(w, r) \in Nat /\ w[k] \in Nat
    BY TotalIs
  <1>2. w[j] \in Nat /\ w[j] <= Total(w, x) + Total(w, y) + Total(w, r)
    BY HeldIs
  <1>3. QED BY <1>1, <1>2

LEMMA FoundIs ==
    ASSUME NEW box \in Seq(Messages), NEW no, NEW b \in BOOLEAN
    PROVE  LET s == FindMessage(box, no, b)
           IN  /\ s # {} => First(s) \in DOMAIN box /\ box[First(s)].no = no /\ (IsResponse(box[First(s)]) <=> b)
               /\ s = {} => \A k \in Range(box) : ~(k.no = no /\ (IsResponse(k) <=> b))
  <1> DEFINE s == FindMessage(box, no, b)
  <1>1. s = {i \in DOMAIN box : box[i].no = no /\ IsResponse(box[i]) = b}
    BY DEF FindMessage
  <1>2. \A i : IsResponse(box[i]) \in BOOLEAN
    BY DEF IsResponse
  <1>3. \A i \in DOMAIN box : i \in s <=> box[i].no = no /\ (IsResponse(box[i]) <=> b)
    BY <1>1, <1>2
  <1>4. s \subseteq DOMAIN box /\ s \in SUBSET Nat
    BY <1>1
  <1> HIDE DEF s
  <1>5. s # {} => First(s) \in s
    BY <1>4, FirstIs
  <1>6. s # {} => First(s) \in DOMAIN box /\ box[First(s)].no = no /\ (IsResponse(box[First(s)]) <=> b)
    BY <1>3, <1>4, <1>5
  <1>7. s = {} => \A k \in Range(box) : ~(k.no = no /\ (IsResponse(k) <=> b))
    <2>1. ASSUME s = {}, NEW k \in Range(box), k.no = no, IsResponse(k) <=> b PROVE FALSE
      <3>1. PICK i \in DOMAIN box : box[i] = k
        BY DEF Range
      <3>2. i \in s
        BY <1>3, <2>1, <3>1
      <3>3. QED BY <2>1, <3>2
    <2>2. QED BY <2>1
  <1>8. QED BY <1>6, <1>7 DEF s

LEMMA OnAckMatches ==
    ASSUME Typed, NEW e \in Ends, OnAck(e)
    PROVE  /\ Frame(e) \in DataFrames /\ IsAck(Frame(e)) /\ Receiving(e, {"ACKREQ", "ACKRES"})
           /\ \A x \in Ends : x # e => outbox'[x] = outbox[x] /\ icebox'[x] = icebox[x] /\ writing'[x] = writing[x]
           /\ UNCHANGED <<writeable, lastNo, received, pendingRequests, pendingResponses, state, mailbox, sock, ready>>
           /\ NoneMatched(e) \/ \E k, m, a, b : AckMatched(e, k, m, a, b)
  <1> DEFINE f == Frame(e)
             isRes == (f.type = "ACKRES")
             out == FindMessage(outbox[e], f.no, isRes)
             ice == FindMessage(icebox[e], f.no, isRes)
  <1>1. Receiving(e, {"ACKREQ", "ACKRES"})
    BY DEF OnAck
  <1>2. f \in DataFrames /\ f.type \in {"ACKREQ", "ACKRES"} /\ f.count \in Nat
    <2>1. f \in Frames /\ f.type \in {"ACKREQ", "ACKRES"} /\ (f.type # "CLOSE" => f \in DataFrames)
      BY <1>1, ReceivingIs
    <2>2. f \in DataFrames
      BY <2>1
    <2>3. QED BY <2>1, <2>2 DEF DataFrames
  <1>3. /\ outbox[e] \in Seq(Messages) /\ icebox[e] \in Seq(Messages) /\ mailbox[e] \in Seq(Messages)
        /\ outbox \in [Ends -> Seq(Messages)] /\ icebox \in [Ends -> Seq(Messages)] /\ writing \in [Ends -> BOOLEAN]
    BY DEF Typed
  <1>4. isRes \in BOOLEAN
    OBVIOUS
  <1>5. IF out # {}
        THEN /\ outbox' = [outbox EXCEPT ![e][First(out)] = ReceivedAck(@, f.count)]
             /\ UNCHANGED <<icebox, writing>>
        ELSE IF ice # {}
        THEN LET i == First(ice)
                 m == ReceivedAck(icebox[e][i], f.count)
             IN  IF NeedsAck(m)
                 THEN icebox' = [icebox EXCEPT ![e][i] = m] /\ UNCHANGED <<outbox, writing>>
                 ELSE /\ icebox' = [icebox EXCEPT ![e] = RemoveAt(@, i)]
                      /\ outbox' = [outbox EXCEPT ![e] = Requeue(@, m)]
                      /\ writing' = Set(writing, e, writeable[e])
        ELSE UNCHANGED <<outbox, icebox, writing>>
    BY DEF OnAck
  <1>6. \A x \in Ends : x # e => outbox'[x] = outbox[x] /\ icebox'[x] = icebox[x] /\ writing'[x] = writing[x]
    BY OnAckIs, AckedElsewhere
  <1>7. UNCHANGED <<writeable, lastNo, received, pendingRequests, pendingResponses, state, mailbox, sock, ready>>
    BY DEF OnAck
  <1>8. /\ out # {} => /\ First(out) \in DOMAIN outbox[e] /\ outbox[e][First(out)].no = f.no
                       /\ (IsResponse(outbox[e][First(out)]) <=> isRes)
        /\ out = {} => \A k \in Range(outbox[e]) : ~(k.no = f.no /\ (IsResponse(k) <=> isRes))
    <2> DEFINE box == outbox[e]
               no == f.no
    <2>1. box \in Seq(Messages) /\ out = FindMessage(box, no, isRes)
      BY <1>3
    <2> HIDE DEF isRes, f, out, box, no
    <2>2. /\ out # {} => First(out) \in DOMAIN box /\ box[First(out)].no = no /\ (IsResponse(box[First(out)]) <=> isRes)
          /\ out = {} => \A k \in Range(box) : ~(k.no = no /\ (IsResponse(k) <=> isRes))
      BY <1>4, <2>1, FoundIs
    <2>3. QED BY <2>2 DEF box, no
  <1>9. /\ ice # {} => /\ First(ice) \in DOMAIN icebox[e] /\ icebox[e][First(ice)].no = f.no
                       /\ (IsResponse(icebox[e][First(ice)]) <=> isRes)
        /\ ice = {} => \A k \in Range(icebox[e]) : ~(k.no = f.no /\ (IsResponse(k) <=> isRes))
    <2> DEFINE box == icebox[e]
               no == f.no
    <2>1. box \in Seq(Messages) /\ ice = FindMessage(box, no, isRes)
      BY <1>3
    <2> HIDE DEF isRes, f, ice, box, no
    <2>2. /\ ice # {} => First(ice) \in DOMAIN box /\ box[First(ice)].no = no /\ (IsResponse(box[First(ice)]) <=> isRes)
          /\ ice = {} => \A k \in Range(box) : ~(k.no = no /\ (IsResponse(k) <=> isRes))
      BY <1>4, <2>1, FoundIs
    <2>3. QED BY <2>2 DEF box, no
  <1>10. isRes <=> Frame(e).type = "ACKRES"
    OBVIOUS
  <1>11. f = Frame(e)
    OBVIOUS
  <1> HIDE DEF f, out, ice, isRes
  <1>12. CASE out # {}
    <2> DEFINE i == First(out)
               box == outbox[e]
               k == box[i]
               m == ReceivedAck(k, f.count)
               r == RemoveAt(box, i)
    <2>1. i \in DOMAIN box /\ k.no = f.no /\ (IsResponse(k) <=> isRes) /\ k \in Messages /\ box \in Seq(Messages)
      <3>1. i \in DOMAIN box /\ k.no = f.no /\ (IsResponse(k) <=> isRes) /\ box \in Seq(Messages)
        BY <1>3, <1>8, <1>12
      <3> HIDE DEF i, box
      <3>2. QED BY <3>1, ElementIs
    <2>2. m \in Messages
      BY <1>2, <2>1, ReceivedAckIs
    <2>3. outbox' = [outbox EXCEPT ![e] = [box EXCEPT ![i] = m]] /\ UNCHANGED <<icebox, writing>>
      BY <1>5, <1>12
    <2>4. box = outbox[e] /\ m = ReceivedAck(k, f.count) /\ k = box[i] /\ r = RemoveAt(box, i)
      OBVIOUS
    <2> HIDE DEF i, box, k, m, r
    <2>5. /\ r \in Seq(Messages) /\ Range(r) \subseteq Messages
          /\ Range(box) = Range(r) \cup {k} /\ Range([box EXCEPT ![i] = m]) = Range(r) \cup {m}
          /\ \A w \in [Messages -> Nat] : Total(w, box) = Total(w, r) + w[k]
      BY <2>1, <2>2, <2>4, BoxReplaced
    <2>6. outbox'[e] = [box EXCEPT ![i] = m] /\ icebox'[e] = icebox[e] /\ writing'[e] = writing[e]
      <3> DEFINE t == [box EXCEPT ![i] = m]
      <3>1. outbox' = [outbox EXCEPT ![e] = t]
        BY <2>3
      <3> HIDE DEF t
      <3>2. outbox'[e] = t
        BY <1>3, <3>1
      <3>3. QED BY <2>3, <3>2 DEF t
    <2>7. box # << >>
      BY <2>1
    <2>8. OnlyOne(e, k, Range(r), Range(icebox[e]))
      <3>1. ASSUME NEW w \in [Messages -> Nat], NEW j \in Range(mailbox[e]) \cup Range(r) \cup Range(icebox[e])
            PROVE  w[j] + w[k] <= Held(w, e)
        <4>1. Total(w, box) = Total(w, r) + w[k] /\ j \in Range(mailbox[e]) \cup Range(icebox[e]) \cup Range(r)
          BY <2>5, <3>1
        <4>2. w[j] + w[k] <= Total(w, mailbox[e]) + Total(w, box) + Total(w, icebox[e])
          BY <1>3, <2>1, <2>5, <4>1, OnlyOneIs
        <4>3. QED BY <2>4, <4>2 DEF Held
      <3>2. QED BY <3>1 DEF OnlyOne
    <2>9. AckedOut(e, k, m, Range(r), Range(icebox[e]))
      BY <2>4, <2>5, <2>6, <2>7 DEF AckedOut
    <2>10. Matches(k, Frame(e)) /\ m = ReceivedAck(k, Frame(e).count) /\ Range(icebox[e]) \subseteq Messages
      BY <1>3, <1>10, <1>11, <2>1, <2>4, RangeMessages DEF Matches
    <2>11. AckMatched(e, k, m, Range(r), Range(icebox[e]))
      BY <2>1, <2>5, <2>8, <2>9, <2>10 DEF AckMatched
    <2>12. QED BY <1>1, <1>2, <1>6, <1>7, <1>11, <2>11 DEF IsAck
  <1>13. CASE out = {} /\ ice # {}
    <2> DEFINE i == First(ice)
               box == icebox[e]
               k == box[i]
               m == ReceivedAck(k, f.count)
               r == RemoveAt(box, i)
    <2>1. i \in DOMAIN box /\ k.no = f.no /\ (IsResponse(k) <=> isRes) /\ k \in Messages /\ box \in Seq(Messages)
      <3>1. i \in DOMAIN box /\ k.no = f.no /\ (IsResponse(k) <=> isRes) /\ box \in Seq(Messages)
        BY <1>3, <1>9, <1>13
      <3> HIDE DEF i, box
      <3>2. QED BY <3>1, ElementIs
    <2>2. m \in Messages
      BY <1>2, <2>1, ReceivedAckIs
    <2>3. \/ NeedsAck(m) /\ icebox' = [icebox EXCEPT ![e] = [box EXCEPT ![i] = m]] /\ UNCHANGED <<outbox, writing>>
          \/ /\ ~NeedsAck(m)
             /\ icebox' = [icebox EXCEPT ![e] = RemoveAt(box, i)]
             /\ outbox' = [outbox EXCEPT ![e] = Requeue(outbox[e], m)]
             /\ writing' = [writing EXCEPT ![e] = writeable[e]]
      BY <1>5, <1>13 DEF Set
    <2>4. box = icebox[e] /\ m = ReceivedAck(k, f.count) /\ k = box[i] /\ r = RemoveAt(box, i)
      OBVIOUS
    <2> HIDE DEF i, box, k, m, r
    <2>5. /\ r \in Seq(Messages) /\ Range(r) \subseteq Messages
          /\ Range(box) = Range(r) \cup {k} /\ Range([box EXCEPT ![i] = m]) = Range(r) \cup {m}
          /\ \A w \in [Messages -> Nat] : Total(w, box) = Total(w, r) + w[k]
      BY <2>1, <2>2, <2>4, BoxReplaced
    <2>6. OnlyOne(e, k, Range(outbox[e]), Range(r))
      <3>1. ASSUME NEW w \in [Messages -> Nat], NEW j \in Range(mailbox[e]) \cup Range(outbox[e]) \cup Range(r)
            PROVE  w[j] + w[k] <= Held(w, e)
        <4>1. Total(w, box) = Total(w, r) + w[k]
          BY <2>5
        <4>2. w[j] + w[k] <= Total(w, mailbox[e]) + Total(w, outbox[e]) + Total(w, box)
          BY <1>3, <2>1, <2>5, <4>1, OnlyOneIs
        <4>3. QED BY <2>4, <4>2 DEF Held
      <3>2. QED BY <3>1 DEF OnlyOne
    <2>7. Matches(k, Frame(e)) /\ m = ReceivedAck(k, Frame(e).count) /\ Range(outbox[e]) \subseteq Messages
      BY <1>3, <1>10, <1>11, <2>1, <2>4, RangeMessages DEF Matches
    <2>8. AckedIce(e, k, m, Range(outbox[e]), Range(r)) \/ Thawed(e, k, m, Range(outbox[e]), Range(r))
      <3>1. CASE NeedsAck(m) /\ icebox' = [icebox EXCEPT ![e] = [box EXCEPT ![i] = m]] /\ UNCHANGED <<outbox, writing>>
        <4> DEFINE t == [box EXCEPT ![i] = m]
        <4>1. icebox' = [icebox EXCEPT ![e] = t]
          BY <3>1
        <4>2. Range(t) = Range(r) \cup {m}
          BY <2>5
        <4> HIDE DEF t
        <4>3. icebox'[e] = t
          BY <1>3, <4>1
        <4>4. QED BY <2>4, <2>5, <3>1, <4>2, <4>3 DEF AckedIce, NeedsAck
      <3>2. CASE /\ ~NeedsAck(m)
                 /\ icebox' = [icebox EXCEPT ![e] = RemoveAt(box, i)]
                 /\ outbox' = [outbox EXCEPT ![e] = Requeue(outbox[e], m)]
                 /\ writing' = [writing EXCEPT ![e] = writeable[e]]
        <4>1. icebox'[e] = r /\ outbox'[e] = Requeue(outbox[e], m) /\ writing'[e] = writeable[e]
          BY <1>3, <2>4, <3>2
        <4>2. Range(Requeue(outbox[e], m)) = Range(outbox[e]) \cup {m}
          BY <1>3, <2>2, BoxRanges
        <4>3. QED BY <2>4, <2>5, <3>2, <4>1, <4>2 DEF Thawed, NeedsAck
      <3>3. QED BY <2>3, <3>1, <3>2
    <2>9. AckMatched(e, k, m, Range(outbox[e]), Range(r))
      BY <2>1, <2>5, <2>6, <2>7, <2>8 DEF AckMatched
    <2>10. QED BY <1>1, <1>2, <1>6, <1>7, <1>11, <2>9 DEF IsAck
  <1>14. CASE out = {} /\ ice = {}
    <2>1. NoneMatched(e)
      BY <1>5, <1>8, <1>9, <1>10, <1>11, <1>14 DEF NoneMatched, Matches
    <2>2. QED BY <1>1, <1>2, <1>6, <1>7, <1>11, <2>1 DEF IsAck
  <1>15. QED BY <1>12, <1>13, <1>14

LEMMA SteadyOnAck ==
    ASSUME Typed, \A x \in Ends : Steady(x), NEW e \in Ends, OnAck(e)
    PROVE  \A x \in Ends : Steady(x)'
  <1>1. /\ Frame(e) \in DataFrames /\ Frame(e).count \in Nat
        /\ \A x \in Ends : x # e => outbox'[x] = outbox[x] /\ icebox'[x] = icebox[x] /\ writing'[x] = writing[x]
        /\ UNCHANGED <<writeable, state, mailbox, sock, ready>>
        /\ NoneMatched(e) \/ \E k, m, a, b : AckMatched(e, k, m, a, b)
    BY OnAckMatches DEF DataFrames
  <1>2. ASSUME NEW x \in Ends, x # e PROVE Steady(x)'
    BY <1>1, <1>2, WindowsSame, WakesSame DEF Steady
  <1>3. CASE NoneMatched(e)
    <2>1. Steady(e)'
      BY <1>1, <1>3, WindowsSame, WakesSame DEF Steady, NoneMatched
    <2>2. QED BY <1>2, <2>1
  <1>4. ASSUME NEW k, NEW m, NEW a, NEW b, AckMatched(e, k, m, a, b) PROVE Steady(e)'
    <2> DEFINE M == Range(mailbox[e])
               O == Range(outbox[e])
               I == Range(icebox[e])
               P == Range(outbox'[e])
               J == Range(icebox'[e])
    <2>1. WindowsIn(M, O, I) /\ Windows(e)' = WindowsIn(M, P, J)
      BY <1>1 DEF Steady, Windows
    <2>2. \/ O = a \cup {k} /\ P = a \cup {m} /\ I = b /\ J = b
          \/ O = a /\ P = a /\ I = b \cup {k} /\ J = b \cup {m} /\ m.unacked >= MaxUnacked
          \/ O = a /\ P = a \cup {m} /\ I = b \cup {k} /\ J = b /\ ~(m.unacked >= MaxUnacked)
      BY <1>4 DEF AckMatched, AckedOut, AckedIce, Thawed
    <2> HIDE DEF M, O, I, P, J
    <2>3. k \in Messages /\ m = ReceivedAck(k, Frame(e).count) /\ k.unacked <= k.sent
      BY <1>4, <2>1, <2>2 DEF AckMatched, WindowsIn
    <2>4. /\ m \in Messages /\ Alike(k, m) /\ m.unacked <= k.unacked
      BY <1>1, <2>3, ReceivedAckIs, ReceivedAckUnacked
    <2>5. /\ m.unacked \in Nat /\ k.unacked \in Nat /\ k.sent \in Nat /\ m.no = k.no /\ m.sent = k.sent /\ m.type = k.type
          /\ MaxUnacked \in Nat /\ BigFrame \in Nat
      BY <2>3, <2>4, MessageFields, BLIPAssumption DEF Alike
    <2>6. m.unacked <= m.sent /\ (IsAck(m) <=> IsAck(k))
      BY <2>3, <2>4, <2>5 DEF IsAck
    <2>7. WindowsIn(M, P, J)
      <3>1. k \in O \cup I
        BY <2>2
      <3>2. m.no = 0 \/ IsAck(m) => m.sent = 0
        BY <2>1, <2>5, <2>6, <3>1 DEF WindowsIn
      <3>3. CASE O = a \cup {k} /\ P = a \cup {m} /\ I = b /\ J = b
        <4>1. m.unacked < MaxUnacked
          <5>1. k.unacked < MaxUnacked
            BY <2>1, <3>3 DEF WindowsIn
          <5>2. QED BY <2>4, <2>5, <5>1
        <4>2. QED BY <2>1, <2>6, <3>2, <3>3, <4>1 DEF WindowsIn
      <3>4. CASE O = a /\ P = a /\ I = b \cup {k} /\ J = b \cup {m} /\ m.unacked >= MaxUnacked
        <4>1. ~IsAck(m) /\ m.no # 0 /\ m.unacked < MaxUnacked + BigFrame
          <5>1. ~IsAck(k) /\ k.no # 0 /\ k.unacked < MaxUnacked + BigFrame
            BY <2>1, <3>4 DEF WindowsIn
          <5>2. QED BY <2>4, <2>5, <2>6, <5>1
        <4>2. QED BY <2>1, <2>6, <3>2, <3>4, <4>1 DEF WindowsIn
      <3>5. CASE O = a /\ P = a \cup {m} /\ I = b \cup {k} /\ J = b /\ ~(m.unacked >= MaxUnacked)
        <4>1. m.unacked < MaxUnacked
          BY <2>5, <3>5
        <4>2. QED BY <2>1, <2>6, <3>2, <3>5, <4>1 DEF WindowsIn
      <3>6. QED BY <2>2, <3>3, <3>4, <3>5
    <2>8. Wakes(e)'
      <3>1. CASE AckedOut(e, k, m, a, b)
        BY <1>1, <3>1 DEF AckedOut, Steady, Wakes
      <3>2. CASE AckedIce(e, k, m, a, b)
        BY <1>1, <3>2 DEF AckedIce, Steady, Wakes
      <3>3. CASE Thawed(e, k, m, a, b)
        BY <1>1, <3>3 DEF Thawed, Steady, Wakes
      <3>4. QED BY <1>4, <3>1, <3>2, <3>3 DEF AckMatched
    <2>9. QED BY <2>1, <2>7, <2>8 DEF Steady
  <1>5. QED BY <1>1, <1>2, <1>3, <1>4
(* What writeToWebSocket() sends of a message and keeps of it              *)
FramedAs(f, h, n) ==
    /\ f.more => n.unacked = h.unacked + f.size
    /\ ~IsAck(h) => f.size <= BigFrame
    /\ IsAck(h) /\ h.no # 0 => f = NextFrame(h, << >>)

LEMMA FrameSizeIs ==
    ASSUME NEW m \in Messages, NEW rest, ~IsAck(m)
    PROVE  NextFrame(m, rest).size <= BigFrame
  <1> DEFINE max == IF m.urgent \/ rest = << >> \/ ~rest[1].urgent THEN BigFrame ELSE SmallFrame
             s == FrameSize(m, rest)
  <1>1. BigFrame \in Nat /\ SmallFrame \in Nat /\ SmallFrame <= BigFrame /\ m.left \in Nat
    BY BLIPAssumption, MessageFields
  <1>2. max \in Nat /\ max <= BigFrame
    BY <1>1
  <1>3. s = IF m.left <= max THEN m.left ELSE max
    BY DEF FrameSize
  <1> HIDE DEF max
  <1>4. s <= BigFrame
    <2> HIDE DEF s
    <2>1. QED BY <1>1, <1>2, <1>3
  <1>5. NextFrame(m, rest).size = s
    BY DEF NextFrame
  <1>6. QED BY <1>4, <1>5

LEMMA RestUnacked ==
    ASSUME NEW m \in Messages, NEW f
    PROVE  Rest(m, f).unacked = m.unacked + f.size
  <1>1. Rest(m, f) = [m EXCEPT !.left = m.left - f.size, !.sent = m.sent + f.size, !.unacked = m.unacked + f.size]
    BY DEF Rest
  <1>2. QED BY <1>1 DEF Messages

LEMMA WriteFrameFrames ==
    ASSUME Typed, NEW e \in Ends, WriteFrame(e), outbox[e] # << >>
    PROVE  FramedAs(Wrote(e), Head(outbox[e]), Remains(e))
  <1> DEFINE h == Head(outbox[e])
             m == Writes(e)
             f == Wrote(e)
             n == Remains(e)
  <1>1. h \in Messages /\ lastNo[e] \in Nat /\ m \in Messages
    BY WriteFrameIs DEF Typed
  <1>2. m.unacked = h.unacked /\ m.type = h.type
    BY <1>1, NumbersIs DEF Writes
  <1>3. n.unacked = m.unacked + f.size
    BY <1>1, RestUnacked DEF Remains
  <1>4. ~IsAck(h) => f.size <= BigFrame
    BY <1>1, <1>2, FrameSizeIs DEF Wrote, IsAck
  <1>5. IsAck(h) /\ h.no # 0 => f = NextFrame(h, << >>)
    <2>1. h.no # 0 => m = h
      BY DEF Writes, Numbers
    <2>2. f = NextFrame(m, Tail(outbox[e]))
      BY DEF Wrote
    <2> HIDE DEF h, m, f
    <2>3. QED BY <1>1, <2>1, <2>2, AckIs
  <1> HIDE DEF h, m, f, n
  <1>6. FramedAs(f, h, n)
    BY <1>2, <1>3, <1>4, <1>5 DEF FramedAs
  <1>7. QED BY <1>6 DEF h, f, n

LEMMA WindowsSent ==
    ASSUME NEW M, NEW R, NEW I, NEW h, NEW f, NEW n, NEW last, FrameOf(f, h, n, last), FramedAs(f, h, n),
           WindowsIn(M, R \cup {h}, I), NEW P, NEW J,
           \/ ~f.more /\ P = R /\ J = I
           \/ f.more /\ n.unacked >= MaxUnacked /\ P = R /\ J = I \cup {n}
           \/ f.more /\ ~(n.unacked >= MaxUnacked) /\ P = R \cup {n} /\ J = I
    PROVE  WindowsIn(M, P, J)
  <1>1. CASE ~f.more /\ P = R /\ J = I
    BY <1>1 DEF WindowsIn
  <1>2. CASE f.more
    <2>1. h.unacked <= h.sent /\ h.unacked < MaxUnacked
      BY DEF WindowsIn
    <2>2. /\ h \in Messages /\ n \in Messages /\ f \in DataFrames /\ ~IsAck(h) /\ n.type = h.type /\ n.no = f.no
          /\ n.sent = h.sent + f.size /\ n.unacked = h.unacked + f.size /\ f.size <= BigFrame
      BY <1>2 DEF FrameOf, FramedAs
    <2>3. h.sent \in Nat /\ h.unacked \in Nat /\ f.size \in Nat /\ f.no # 0 /\ BigFrame \in Nat /\ MaxUnacked \in Nat
      BY <2>2, MessageFields, BLIPAssumption DEF DataFrames
    <2>4. n.unacked <= n.sent /\ n.no # 0 /\ n.unacked < MaxUnacked + BigFrame
      BY <2>1, <2>2, <2>3
    <2>5. ~IsAck(n)
      BY <2>2 DEF IsAck
    <2>6. CASE n.unacked >= MaxUnacked /\ P = R /\ J = I \cup {n}
      BY <2>4, <2>5, <2>6 DEF WindowsIn
    <2>7. CASE ~(n.unacked >= MaxUnacked) /\ P = R \cup {n} /\ J = I
      <3>1. n.unacked < MaxUnacked
        BY <2>2, <2>3, <2>7
      <3>2. QED BY <2>4, <2>5, <2>7, <3>1 DEF WindowsIn
    <2>8. QED BY <1>2, <2>6, <2>7
  <1>3. QED BY <1>1, <1>2

LEMMA SteadyWriteFrame ==
    ASSUME Typed, \A x \in Ends : Steady(x), NEW e \in Ends, WriteFrame(e)
    PROVE  \A x \in Ends : Steady(x)'
  <1>1. CASE outbox[e] = << >>
    <2>1. /\ writing' = [writing EXCEPT ![e] = FALSE]
          /\ UNCHANGED <<outbox, icebox, writeable, sock, state, mailbox, ready>>
      BY <1>1 DEF WriteFrame, Set
    <2>2. \A x \in Ends : Windows(x)'
      BY <2>1, WindowsSame DEF Steady
    <2>3. Wakes(e)'
      BY <1>1, <2>1 DEF Steady, Wakes
    <2>4. ASSUME NEW x \in Ends, x # e PROVE Wakes(x)'
      <3>1. writing'[x] = writing[x]
        BY <2>1, <2>4 DEF Typed
      <3>2. QED BY <2>1, <3>1, WakesSame DEF Steady
    <2>5. QED BY <2>2, <2>3, <2>4 DEF Steady
  <1>2. CASE outbox[e] # << >>
    <2> DEFINE h == Head(outbox[e])
               rest == Tail(outbox[e])
               f == Wrote(e)
               n == Remains(e)
    <2>1. /\ SendOp(e, f) /\ writing' = [writing EXCEPT ![e] = writeable'[e]]
          /\ outbox' = [outbox EXCEPT ![e] = IF f.more /\ ~NeedsAck(n) THEN Requeue(rest, n) ELSE rest]
          /\ icebox' = (IF f.more /\ NeedsAck(n) THEN [icebox EXCEPT ![e] = Append(icebox[e], n)] ELSE icebox)
          /\ UNCHANGED <<state, mailbox, ready>>
          /\ rest \in Seq(Messages) /\ f \in Frames /\ (f.more => n \in Messages)
      BY <1>2, WriteFrameIs DEF Frames
    <2>2. SentFrame(e, h, f, n)
      BY <1>2, WriteFrameSends
    <2>3. FramedAs(f, h, n)
      BY <1>2, WriteFrameFrames
    <2>4. Range(outbox[e]) = Range(rest) \cup {h}
      <3>1. outbox[e] \in Seq(Messages) /\ h \in Messages
        BY <1>2, WriteFrameIs DEF Typed
      <3>2. QED BY <1>2, <3>1, BoxRanges
    <2> HIDE DEF h, rest, f, n
    <2>5. FrameOf(f, h, n, lastNo[e]) /\ Elsewhere(e)
      BY <2>2 DEF SentFrame
    <2>6. /\ outbox \in [Ends -> Seq(Messages)] /\ icebox \in [Ends -> Seq(Messages)] /\ icebox[e] \in Seq(Messages)
          /\ writing \in [Ends -> BOOLEAN] /\ writeable \in [Ends -> BOOLEAN] /\ sock \in [Ends -> Seq(Frames)]
      BY DEF Typed
    <2>7. /\ outbox'[e] = (IF f.more /\ ~NeedsAck(n) THEN Requeue(rest, n) ELSE rest)
          /\ icebox'[e] = (IF f.more /\ NeedsAck(n) THEN Append(icebox[e], n) ELSE icebox[e])
          /\ writing'[e] = writeable'[e]
      BY <2>1, <2>6
    <2>8. Windows(e)'
      <3> DEFINE M == Range(mailbox[e])
                 R == Range(rest)
                 I == Range(icebox[e])
                 P == Range(outbox'[e])
                 J == Range(icebox'[e])
      <3>1. WindowsIn(M, R \cup {h}, I)
        BY <2>4 DEF Steady, Windows
      <3>2. \/ ~f.more /\ P = R /\ J = I
            \/ f.more /\ n.unacked >= MaxUnacked /\ P = R /\ J = I \cup {n}
            \/ f.more /\ ~(n.unacked >= MaxUnacked) /\ P = R \cup {n} /\ J = I
        <4>1. CASE ~f.more
          BY <2>7, <4>1
        <4>2. CASE f.more /\ NeedsAck(n)
          <5>1. Range(Append(icebox[e], n)) = I \cup {n}
            BY <2>1, <2>6, <4>2, BoxRanges
          <5>2. QED BY <2>7, <4>2, <5>1 DEF NeedsAck
        <4>3. CASE f.more /\ ~NeedsAck(n)
          <5>1. Range(Requeue(rest, n)) = R \cup {n}
            BY <2>1, <4>3, BoxRanges
          <5>2. QED BY <2>7, <4>3, <5>1 DEF NeedsAck
        <4>4. QED BY <4>1, <4>2, <4>3
      <3> HIDE DEF M, R, I, P, J
      <3>3. WindowsIn(M, P, J)
        BY <2>3, <2>5, <3>1, <3>2, WindowsSent
      <3>4. QED BY <2>1, <3>3 DEF Windows, M, P, J
    <2>9. Wakes(e)'
      <3>1. state[e] = "open" => (writeable'[e] <=> Size(sock'[e]) <= SendBuffer)
        <4>1. ASSUME state[e] = "open" PROVE writeable'[e] <=> Size(sock'[e]) <= SendBuffer
          <5> DEFINE b == Size(sock'[e]) <= SendBuffer
          <5>1. writeable' = [writeable EXCEPT ![e] = b]
            BY <2>1, <4>1 DEF SendOp, Set
          <5> HIDE DEF b
          <5>2. writeable'[e] = b
            BY <2>6, <5>1
          <5>3. QED BY <5>2 DEF b
        <4>2. QED BY <4>1
      <3>2. state[e] = "open" => Size(sock'[e]) \in Nat /\ SendBuffer \in Nat
        <4>1. sock' \in [Ends -> Seq(Frames)]
          BY <2>1, SendOpIs
        <4>2. QED BY <4>1, SizeIs, BLIPAssumption
      <3>3. state[e] = "open" /\ ~writeable'[e] => Size(sock'[e]) > SendBuffer
        BY <3>1, <3>2
      <3>4. QED BY <2>1, <2>7, <3>3 DEF Wakes
    <2>10. ASSUME NEW x \in Ends, x # e PROVE Steady(x)'
      <3>1. /\ mailbox'[x] = mailbox[x] /\ outbox'[x] = outbox[x] /\ icebox'[x] = icebox[x]
            /\ writing'[x] = writing[x] /\ sock'[x] = sock[x]
        BY <2>5, <2>10 DEF Elsewhere
      <3>2. writeable'[x] = writeable[x]
        <4> DEFINE b == Size(sock'[e]) <= SendBuffer
        <4>1. writeable' = [writeable EXCEPT ![e] = b] \/ writeable' = [writeable EXCEPT ![e] = FALSE]
          BY <2>1 DEF SendOp, Set
        <4> HIDE DEF b
        <4>2. QED BY <2>6, <2>10, <4>1
      <3>3. QED BY <2>1, <3>1, <3>2, WindowsSame, WakesSame DEF Steady
    <2>11. QED BY <2>8, <2>9, <2>10 DEF Steady
  <1>3. QED BY <1>1, <1>2

-----------------------------------------------------------------------------
(* The flow of requests and of answers, step by step, as long as both ends *)
(* are open                                                                *)
Flow == \A e \in Ends : RequestFlow(e, Peer(e)) /\ AnswerFlow(e, Peer(e))

(* What matters of an end to the flow stays as it is.                      *)
FlowSame(e) ==
    /\ OldRequests(HeldBy(e), HeldBy(e)') /\ OldAnswers(HeldBy(e), HeldBy(e)') /\ OldNumbers(HeldBy(e), HeldBy(e)')
    /\ SameBytes(Channel(e), Channel(e)') /\ SameAcks(AcksOf(e), AcksOf(e)')

LEMMA BothEnds ==
    ASSUME NEW e \in Ends, NEW p, p = Peer(e)
    PROVE  /\ p \in Ends /\ p # e /\ Peer(p) = e
           /\ Flow <=> RequestFlow(e, p) /\ AnswerFlow(e, p) /\ RequestFlow(p, e) /\ AnswerFlow(p, e)
           /\ Flow' <=> RequestFlow(e, p)' /\ AnswerFlow(e, p)' /\ RequestFlow(p, e)' /\ AnswerFlow(p, e)'
  <1>1. p \in Ends /\ p # e /\ Peer(p) = e /\ \A x \in Ends : x = e \/ x = p
    BY Peers
  <1>2. Flow <=> RequestFlow(e, p) /\ AnswerFlow(e, p) /\ RequestFlow(p, e) /\ AnswerFlow(p, e)
    BY <1>1 DEF Flow
  <1>3. Flow' <=> RequestFlow(e, p)' /\ AnswerFlow(e, p)' /\ RequestFlow(p, e)' /\ AnswerFlow(p, e)'
    BY <1>1 DEF Flow
  <1>4. QED BY <1>1, <1>2, <1>3

LEMMA SameAcksAre ==
    ASSUME NEW A, NEW B, SameAcks(A, B)
    PROVE  SameRequestAcks(A, B) /\ FewerAnswerAcks(A, B)
  BY DEF SameAcks, SameRequestAcks, FewerAnswerAcks

LEMMA RequestFlowSame ==
    ASSUME NEW e, NEW p, RequestFlow(e, p), FlowSame(e), FlowSame(p), pendingRequests'[p] = pendingRequests[p],
           received'[p] = received[p]
    PROVE  RequestFlow(e, p)'
  <1>1. OldRequests(HeldBy(e), HeldBy(e)') /\ SameBytes(Channel(e), Channel(e)') /\ SameAcks(AcksOf(p), AcksOf(p)')
    BY DEF FlowSame
  <1>2. SameRequestAcks(AcksOf(p), AcksOf(p)')
    BY <1>1, SameAcksAre
  <1>3. QED BY <1>1, <1>2, RequestFlowKept

LEMMA AnswerFlowSame ==
    ASSUME Typed, Typed', NEW e \in Ends, NEW p \in Ends, AnswerFlow(e, p), FlowSame(e), FlowSame(p),
           pendingResponses'[p] = pendingResponses[p], lastNo'[p] = lastNo[p]
    PROVE  AnswerFlow(e, p)'
  <1>1. OldAnswers(HeldBy(e), HeldBy(e)') /\ SameAcks(AcksOf(p), AcksOf(p)') /\ OldNumbers(HeldBy(p), HeldBy(p)')
    BY DEF FlowSame
  <1>2. FewerAnswerAcks(AcksOf(p), AcksOf(p)')
    BY <1>1, SameAcksAre
  <1>3. QED BY <1>1, <1>2, AnswerFlowKept

LEMMA FlowKept ==
    ASSUME Typed, Typed', Flow, \A x \in Ends : FlowSame(x), UNCHANGED <<pendingRequests, received, pendingResponses, lastNo>>
    PROVE  Flow'
  <1>1. ASSUME NEW e \in Ends PROVE RequestFlow(e, Peer(e))' /\ AnswerFlow(e, Peer(e))'
    <2> DEFINE p == Peer(e)
    <2>1. p \in Ends /\ RequestFlow(e, p) /\ AnswerFlow(e, p)
      BY BothEnds DEF Flow
    <2> HIDE DEF p
    <2>2. FlowSame(e) /\ FlowSame(p) /\ pendingRequests'[p] = pendingRequests[p] /\ received'[p] = received[p]
      BY <2>1
    <2>3. pendingResponses'[p] = pendingResponses[p] /\ lastNo'[p] = lastNo[p]
      OBVIOUS
    <2>4. RequestFlow(e, p)' /\ AnswerFlow(e, p)'
      BY <2>1, <2>2, <2>3, RequestFlowSame, AnswerFlowSame
    <2>5. QED BY <2>4 DEF p
  <1>2. QED BY <1>1 DEF Flow

LEMMA HeldOn ==
    \A H : OldRequests(H, H) /\ OldAnswers(H, H) /\ OldNumbers(H, H)
  BY DEF OldRequests, OldAnswers, OldNumbers

LEMMA FlowUnchanged ==
    ASSUME NEW e, HeldBy(e)' = HeldBy(e), Channel(e)' = Channel(e)
    PROVE  FlowSame(e)
  <1>1. SameBytes(Channel(e), Channel(e)') /\ SameAcks(AcksOf(e), AcksOf(e)')
    BY DEF SameBytes, SameAcks, AcksOf
  <1>2. QED BY <1>1, HeldOn DEF FlowSame

(* A frame is taken that is not of a request and is not an acknowledgement *)
LEMMA FlowTaken ==
    ASSUME Typed, NEW e \in Ends, HeldBy(e)' = HeldBy(e), Channel(e) # << >>, Channel(e)' = Tail(Channel(e)),
           Head(Channel(e)).type # "REQ", ~IsAck(Head(Channel(e)))
    PROVE  FlowSame(e)
  <1>1. Channel(e) \in Seq(Frames)
    BY TypedChannels
  <1> DEFINE c == Channel(e)
             d == Tail(c)
             H == HeldBy(e)
  <1>2. c \in Seq(Frames) /\ c # << >> /\ Head(c).type # "REQ" /\ ~IsAck(Head(c))
    BY <1>1
  <1>3. SameBytes(c, Channel(e)')
    <2>1. d \in Seq(Frames) /\ Channel(e)' = d
      BY <1>1, TailInserts
    <2> HIDE DEF c
    <2>2. ASSUME NEW n PROVE Total(RequestBytes(n), d) = Total(RequestBytes(n), c)
      <3>1. Total(RequestBytes(n), c) = Total(RequestBytes(n), d) + 0 /\ Total(RequestBytes(n), d) \in Nat
        BY <1>2, <2>1, RequestBytesAre
      <3>2. QED BY <3>1
    <2>3. QED BY <2>1, <2>2 DEF SameBytes
  <1>4. SameAcks(AcksOf(e), AcksOf(e)')
    <2>1. AcksOf(e) = AcksIn(H, c) /\ AcksOf(e)' = AcksIn(H, d)
      BY DEF AcksOf
    <2> HIDE DEF c, H
    <2>2. \A a : a \in AcksIn(H, c) <=> a \in AcksIn(H, d)
      BY <1>2, AcksTaken
    <2>3. QED BY <2>1, <2>2 DEF SameAcks
  <1>5. QED BY <1>3, <1>4, HeldOn DEF FlowSame

(* A message is asked to be sent.                                          *)
LEMMA FlowPosted ==
    ASSUME Typed, Typed', Flow, NEW e \in Ends, NEW m, NewMessage(m), ~IsAck(m), Posted(e, m)
    PROVE  Flow'
  <1>1. UNCHANGED <<outbox, icebox, pendingRequests, received, pendingResponses, lastNo, sock, wire>>
    BY DEF Posted, ends, net
  <1>2. \A x \in Ends : Channel(x)' = Channel(x)
    BY <1>1 DEF Channel
  <1>3. ASSUME NEW x \in Ends, x # e PROVE FlowSame(x)
    <2>1. mailbox'[x] = mailbox[x]
      BY <1>3 DEF Typed, Posted
    <2>2. HeldBy(x)' = HeldBy(x)
      BY <1>1, <2>1 DEF HeldBy
    <2>3. QED BY <1>2, <2>2, FlowUnchanged
  <1>4. FlowSame(e)
    <2> DEFINE H == HeldBy(e)
               G == HeldBy(e)'
               c == Channel(e)
    <2>1. G = H \cup {m}
      BY PostedHeld
    <2>2. AcksOf(e) = AcksIn(H, c) /\ AcksOf(e)' = AcksIn(G, c)
      BY <1>2 DEF AcksOf
    <2>3. SameBytes(Channel(e), Channel(e)')
      BY <1>2 DEF SameBytes
    <2> HIDE DEF G, H, c
    <2>4. \A a : a \in AcksIn(G, c) <=> a \in AcksIn(H, c)
      BY <2>1, AcksMember
    <2>5. SameAcks(AcksOf(e), AcksOf(e)')
      BY <2>2, <2>4 DEF SameAcks
    <2>6. OldRequests(H, G) /\ OldAnswers(H, G) /\ OldNumbers(H, G)
      BY <2>1 DEF OldRequests, OldAnswers, OldNumbers, NewMessage
    <2>7. QED BY <2>3, <2>5, <2>6 DEF FlowSame, G, H
  <1>5. QED BY <1>1, <1>3, <1>4, FlowKept

LEMMA FlowQueueMessage ==
    ASSUME Typed, Typed', Flow, NEW e \in Ends, QueueMessage(e), state[e] = "open"
    PROVE  Flow'
  <1>1. /\ \A x \in Ends : x # e => mailbox'[x] = mailbox[x] /\ outbox'[x] = outbox[x]
        /\ UNCHANGED <<icebox, lastNo, received, pendingRequests, pendingResponses, sock, wire>>
    BY QueueMessageMoves DEF net
  <1>2. PICK m : Range(mailbox[e]) = Range(mailbox'[e]) \cup {m} /\ Range(outbox'[e]) = Range(outbox[e]) \cup {m}
    BY QueueMessageMoves
  <1>3. HeldBy(e)' = HeldBy(e)
    BY <1>1, <1>2 DEF HeldBy
  <1>4. ASSUME NEW x \in Ends PROVE FlowSame(x)
    <2>1. HeldBy(x)' = HeldBy(x)
      BY <1>1, <1>3 DEF HeldBy
    <2>2. Channel(x)' = Channel(x)
      BY <1>1 DEF Channel
    <2>3. QED BY <2>1, <2>2, FlowUnchanged
  <1>5. QED BY <1>1, <1>4, FlowKept

LEMMA FlowSocket ==
    ASSUME Typed, Typed', Flow, NEW e \in Ends, WriteComplete(e) \/ OnWriteable(e)
    PROVE  Flow'
  <1>1. UNCHANGED <<outbox, icebox, mailbox, lastNo, received, pendingRequests, pendingResponses>>
    BY DEF WriteComplete, OnWriteable, ends
  <1>2. ASSUME NEW x \in Ends PROVE Channel(x)' = Channel(x)
    <2>1. CASE WriteComplete(e) /\ x = e
      <3>1. sock[e] \in Seq(Frames) /\ wire[e] \in Seq(Frames) /\ sock[e] # << >>
        BY <2>1 DEF Typed, WriteComplete
      <3>2. sock'[e] = Tail(sock[e]) /\ wire'[e] = Append(wire[e], Head(sock[e]))
        BY <2>1 DEF Typed, WriteComplete
      <3>3. Append(wire[e], Head(sock[e])) \o Tail(sock[e]) = wire[e] \o sock[e]
        BY <3>1, ChannelIs
      <3>4. QED BY <2>1, <3>2, <3>3 DEF Channel
    <2>2. CASE OnWriteable(e) \/ x # e
      <3>1. sock'[x] = sock[x] /\ wire'[x] = wire[x]
        BY <2>2, ZenonT(60) DEF OnWriteable, WriteComplete, Typed
      <3>2. QED BY <3>1 DEF Channel
    <2>3. QED BY <2>1, <2>2
  <1>3. ASSUME NEW x \in Ends PROVE FlowSame(x)
    <2>1. HeldBy(x)' = HeldBy(x)
      BY <1>1 DEF HeldBy
    <2>2. QED BY <1>2, <2>1, FlowUnchanged
  <1>4. QED BY <1>1, <1>3, FlowKept

LEMMA FlowOnClose ==
    ASSUME Typed, Typed', Flow, Open, NEW e \in Ends, OnClose(e)
    PROVE  Flow'
  <1>1. UNCHANGED <<outbox, icebox, mailbox, lastNo, received, pendingRequests, pendingResponses, sock>>
    BY DEF OnClose, ends
  <1>2. Receiving(e, {"CLOSE"})
    BY DEF OnClose, Open
  <1> DEFINE p == Peer(e)
  <1>3. p \in Ends /\ \A x \in Ends : x = e \/ x = p
    BY Peers
  <1>4. TookFrame(e) /\ Frame(e).type = "CLOSE"
    BY <1>1, <1>2, ReceivingIs, TakesFrame
  <1>5. /\ Channel(p) # << >> /\ Head(Channel(p)) = Frame(e) /\ Channel(p)' = Tail(Channel(p))
        /\ Channel(e)' = Channel(e)
    BY <1>1, <1>4 DEF TookFrame
  <1> HIDE DEF p
  <1>6. \A x \in Ends : HeldBy(x)' = HeldBy(x)
    BY <1>1 DEF HeldBy
  <1>7. FlowSame(p)
    BY <1>3, <1>4, <1>5, <1>6, FlowTaken DEF IsAck
  <1>8. FlowSame(e)
    BY <1>5, <1>6, FlowUnchanged
  <1>9. QED BY <1>1, <1>3, <1>7, <1>8, FlowKept

(* What is received                                                        *)
LEMMA AcksAreFrames ==
    ASSUME Typed, NEW e \in Ends, Owned(e)
    PROVE  \A a \in AcksOf(e) : a \in DataFrames /\ a.count \in Nat /\ a.no # 0
  <1> DEFINE H == HeldBy(e)
             c == Channel(e)
  <1>1. H \subseteq Messages /\ c \in Seq(Frames) /\ AcksOf(e) = AcksIn(H, c)
    BY HeldMessages, TypedChannels DEF AcksOf
  <1>2. \A m \in H : IsAck(m) => m.no # 0
    BY DEF Owned, IsAck
  <1> HIDE DEF H, c
  <1>3. ASSUME NEW a \in AcksIn(H, c) PROVE a \in DataFrames
    <2>1. CASE \E m \in H : IsAck(m) /\ a = NextFrame(m, << >>)
      <3>1. PICK m \in H : IsAck(m) /\ a = NextFrame(m, << >>)
        BY <2>1
      <3>2. m \in Messages /\ m.no # 0
        BY <1>1, <1>2, <3>1
      <3>3. NextFrame(m, << >>) \in DataFrames
        BY <3>1, <3>2, AckIs
      <3>4. QED BY <3>1, <3>3
    <2>2. CASE IsAck(a) /\ \E i \in DOMAIN c : c[i] = a
      <3>1. a \in Frames
        BY <1>1, <2>2
      <3>2. QED BY <2>2, <3>1 DEF Frames, CloseFrame, IsAck
    <2>3. QED BY <1>3, <2>1, <2>2, AcksMember
  <1>4. QED BY <1>1, <1>3 DEF DataFrames

LEMMA AckJoins ==
    ASSUME Typed, NEW e \in Ends, NEW p \in Pendings, NEW f \in DataFrames, NEW type \in {"ACKREQ", "ACKRES"},
           NEW q, q.raw = p.raw + f.size,
           AckPosted(e, p, f, type), outbox'[e] = outbox[e], icebox'[e] = icebox[e], Channel(e)' = Channel(e)
    PROVE  /\ OldRequests(HeldBy(e), HeldBy(e)') /\ OldAnswers(HeldBy(e), HeldBy(e)') /\ OldNumbers(HeldBy(e), HeldBy(e)')
           /\ \A m \in HeldBy(e)' : m.type = "REQ" => m \in HeldBy(e)
           /\ AcksSent(AcksOf(e), AcksOf(e)', f, p, q, type)
           /\ type = "ACKREQ" => FewerAnswerAcks(AcksOf(e), AcksOf(e)')
           /\ type = "ACKRES" => SameRequestAcks(AcksOf(e), AcksOf(e)')
  <1> DEFINE H == HeldBy(e)
             G == HeldBy(e)'
             c == Channel(e)
             k == NewAck(p, f, type)
             a == NextFrame(k, << >>)
             posted == p.unacked + f.size >= AckThreshold
             A == AcksIn(H, c)
             B == AcksIn(G, c)
  <1>1. \A m : m \in G <=> m \in H \/ (posted /\ m = k)
    BY DEF HeldBy, AckPosted
  <1>2. k \in Messages /\ IsAck(k) /\ k.type = type /\ k.no = f.no /\ k.no # 0 /\ k.left = p.raw + f.size
    BY NewAckIs DEF NewMessage
  <1> HIDE DEF k
  <1>3. a.type = type /\ a.no = f.no /\ a.count = q.raw
    BY <1>2, AckIs
  <1>4. AcksOf(e) = A /\ AcksOf(e)' = B
    BY DEF AcksOf
  <1> HIDE DEF H, G, c, a, posted
  <1>5. \A b : b \in B <=> b \in A \/ (posted /\ b = a)
    <2>1. \A b : b \in B <=> \/ \E m \in G : IsAck(m) /\ b = NextFrame(m, << >>)
                             \/ IsAck(b) /\ \E i \in DOMAIN c : c[i] = b
      BY AcksMember
    <2>2. \A b : b \in A <=> \/ \E m \in H : IsAck(m) /\ b = NextFrame(m, << >>)
                             \/ IsAck(b) /\ \E i \in DOMAIN c : c[i] = b
      BY AcksMember
    <2>3. \A b : (\E m \in G : IsAck(m) /\ b = NextFrame(m, << >>))
                 <=> (\E m \in H : IsAck(m) /\ b = NextFrame(m, << >>)) \/ (posted /\ b = a)
      BY <1>1, <1>2 DEF a
    <2> HIDE DEF A, B
    <2>4. QED BY <2>1, <2>2, <2>3
  <1> HIDE DEF A, B
  <1>6. AcksSent(A, B, f, p, q, type)
    BY <1>3, <1>5 DEF AcksSent, posted
  <1>7. type = "ACKREQ" => FewerAnswerAcks(A, B)
    BY <1>3, <1>5 DEF FewerAnswerAcks
  <1>8. type = "ACKRES" => SameRequestAcks(A, B)
    BY <1>3, <1>5 DEF SameRequestAcks
  <1>9. k.type # "REQ" /\ ~Answer(k)
    BY <1>2 DEF Answer
  <1>10. OldRequests(H, G) /\ OldAnswers(H, G) /\ OldNumbers(H, G) /\ \A m \in G : m.type = "REQ" => m \in H
    BY <1>1, <1>9 DEF OldRequests, OldAnswers, OldNumbers
  <1>11. QED BY <1>4, <1>6, <1>7, <1>8, <1>10 DEF H, G

LEMMA TakenAcks ==
    ASSUME Typed, NEW p \in Ends, HeldBy(p)' = HeldBy(p), Channel(p) # << >>, Channel(p)' = Tail(Channel(p)),
           ~IsAck(Head(Channel(p)))
    PROVE  SameAcks(AcksOf(p), AcksOf(p)')
  <1> DEFINE H == HeldBy(p)
             c == Channel(p)
  <1>1. c \in Seq(Frames) /\ AcksOf(p) = AcksIn(H, c) /\ AcksOf(p)' = AcksIn(H, Tail(c)) /\ c # << >> /\ ~IsAck(Head(c))
    BY TypedChannels DEF AcksOf
  <1> HIDE DEF H, c
  <1>2. QED BY <1>1, AcksTaken DEF SameAcks

(* What an end that listens has received is pending or was.                *)
LEMMA LinkedTo ==
    ASSUME IInv, NEW e \in Ends, NEW p, p = Peer(e)
    PROVE  Link(e, p) /\ Link(p, e) /\ p \in Ends
  <1>1. p \in Ends /\ Peer(p) = e
    BY Peers
  <1>2. QED BY <1>1 DEF IInv

LEMMA FlowOnRequest ==
    ASSUME IInv, Typed', Flow, Open, Open', NEW e \in Ends, OnRequest(e)
    PROVE  Flow'
  <1> DEFINE f == Frame(e)
             r == RequestPending(e)
             q == Accept(r, f)
             x == pendingRequests[e]
             y == pendingRequests'[e]
  <1>0. Typed /\ Owned(e)
    BY DEF IInv
  <1>1. PICK p : p = Peer(e)
    OBVIOUS
  <1>2. /\ p \in Ends /\ p # e
        /\ RequestFlow(e, p) /\ AnswerFlow(e, p) /\ RequestFlow(p, e) /\ AnswerFlow(p, e)
    BY <1>1, BothEnds
  <1>3. /\ f \in DataFrames /\ f.type = "REQ" /\ r \in Pendings
        /\ UNCHANGED <<outbox, icebox, lastNo, pendingResponses>>
        /\ RequestRefused(e) \/ RequestTaken(e)
    BY <1>0, OnRequestIs
  <1>4. ~CloseWithError(e)
    <2>1. state'[e] = "open"
      BY DEF Open
    <2>2. QED BY <1>0, <2>1 DEF CloseWithError, Set, Typed
  <1>5. /\ f.no \in DOMAIN x \/ f.no = received[e] + 1
        /\ received' = (IF f.no \in DOMAIN x THEN received ELSE [received EXCEPT ![e] = f.no])
        /\ pendingRequests' = [pendingRequests EXCEPT ![e] = Keep(x, f, q)]
        /\ UNCHANGED <<state, sock>>
    BY <1>3, <1>4 DEF RequestRefused, RequestTaken
  <1>6. AckPosted(e, r, f, "ACKREQ")
    BY <1>0, <1>4, OnRequestAcks DEF RequestRefused
  <1>7. TookFrame(e) /\ f.type = "REQ"
    <2>1. Receiving(e, {"REQ"})
      BY DEF OnRequest
    <2>2. QED BY <1>0, <1>3, <1>5, <2>1, ReceivingIs, TakesFrame
  <1>8. /\ Channel(p) # << >> /\ Head(Channel(p)) = f /\ Channel(p)' = Tail(Channel(p)) /\ Channel(e)' = Channel(e)
        /\ Channel(p) \in Seq(Frames)
    BY <1>0, <1>1, <1>2, <1>5, <1>7, TypedChannels DEF TookFrame
  <1>9. HeldBy(p)' = HeldBy(p)
    BY <1>2, <1>3, <1>6 DEF HeldBy, AckPosted
  <1>10. SameAcks(AcksOf(p), AcksOf(p)')
    BY <1>0, <1>2, <1>3, <1>8, <1>9, TakenAcks DEF IsAck
  <1>11. /\ IsPending(x) /\ received[e] \in Nat /\ pendingRequests'[p] = pendingRequests[p] /\ received'[p] = received[p]
         /\ y = Keep(x, f, q) /\ received'[e] = (IF f.no \in DOMAIN x THEN received[e] ELSE received[e] + 1)
    BY <1>0, <1>2, <1>5 DEF Typed
  <1>12. q.raw = r.raw + f.size /\ NowPending(x, y, f, r, q)
    BY <1>3, <1>11, AcceptIs, KeepIs
  <1>13. IF f.no \in DOMAIN x THEN r = x[f.no] ELSE r.raw = 0 /\ r.unacked = 0 /\ f.no = received[e] + 1
    BY <1>5 DEF RequestPending, NewPending
  <1> HIDE DEF f, r, q, x, y
  <1>14. /\ OldRequests(HeldBy(e), HeldBy(e)') /\ OldAnswers(HeldBy(e), HeldBy(e)') /\ OldNumbers(HeldBy(e), HeldBy(e)')
         /\ AcksSent(AcksOf(e), AcksOf(e)', f, r, q, "ACKREQ")
         /\ FewerAnswerAcks(AcksOf(e), AcksOf(e)')
    BY <1>0, <1>3, <1>6, <1>8, <1>12, AckJoins
  <1>15. SameRequestAcks(AcksOf(p), AcksOf(p)') /\ FewerAnswerAcks(AcksOf(p), AcksOf(p)')
    BY <1>10, SameAcksAre
  <1>16. RequestFlow(e, p)'
    <2>1. SameBytes(Channel(e), Channel(e)')
      BY <1>8 DEF SameBytes
    <2>2. QED BY <1>2, <1>11, <1>14, <1>15, <2>1, RequestFlowKept
  <1>17. AnswerFlow(e, p)'
    BY <1>0, <1>2, <1>3, <1>9, <1>14, <1>15, HeldOn, AnswerFlowKept
  <1>18. AnswerFlow(p, e)'
    BY <1>0, <1>2, <1>3, <1>9, <1>14, HeldOn, AnswerFlowKept
  <1>19. RequestFlow(p, e)'
    <2> DEFINE H == HeldBy(p)
               c == Channel(p)
               A == AcksOf(e)
               B == AcksOf(e)'
    <2>1. H \in SUBSET Messages /\ \A a \in A : a.count \in Nat
      BY <1>0, <1>2, HeldMessages, AcksAreFrames
    <2>2. LowPending(x) /\ RequestsIn(H, x, c, A) /\ RequestAcks(A, x, received[e])
      BY <1>2 DEF RequestFlow, x
    <2>3. RequestsArrive(p, e) /\ RequestsGoOn(p, e)
      BY <1>1, LinkedTo DEF Link
    <2>4. Listening(e) /\ state[p] = "open"
      BY <1>2 DEF Open, Listening
    <2>5. DOMAIN x \subseteq 1 .. received[e]
      BY <2>3, <2>4 DEF RequestsArrive, x
    <2>6. ASSUME NEW m \in H, m.type = "REQ", m.no = f.no PROVE f.more
      <3>1. 1 \in DOMAIN c /\ c[1] = f /\ f.no # 0
        BY <1>3, <1>8 DEF DataFrames
      <3>2. \A k \in DOMAIN c : IsFrame(c, k, m.no) => c[k].more
        BY <2>3, <2>4, <2>6, <3>1 DEF RequestsGoOn
      <3> HIDE DEF c
      <3>3. QED BY <1>3, <2>6, <3>1, <3>2 DEF IsFrame
    <2>7. c \in Seq(Frames) /\ c # << >> /\ f = Head(c) /\ Channel(p)' = Tail(c) /\ A = AcksOf(e) /\ B = AcksOf(e)' /\ H = HeldBy(p)
      BY <1>8
    <2> HIDE DEF H, c, A, B
    <2>8. LowPending(y) /\ RequestsIn(H, y, Tail(c), B) /\ RequestAcks(B, y, received'[e])
      <3>1. AcksSent(A, B, Head(c), r, q, "ACKREQ")
        BY <1>14, <2>7
      <3>2. NowPending(x, y, Head(c), r, q)
        BY <1>12, <2>7
      <3>3. IF Head(c).no \in DOMAIN x THEN r = x[Head(c).no] /\ received'[e] = received[e]
            ELSE r.raw = 0 /\ r.unacked = 0 /\ Head(c).no = received[e] + 1 /\ received'[e] = received[e] + 1
        BY <1>11, <1>13, <2>7
      <3>4. \A m \in H : m.type = "REQ" /\ m.no = Head(c).no => Head(c).more
        BY <2>6, <2>7
      <3>5. Head(c).type = "REQ"
        BY <1>3, <2>7
      <3>6. QED BY <1>11, <2>1, <2>2, <2>5, <2>7, <3>1, <3>2, <3>3, <3>4, <3>5, RequestFrameReceived, ZenonT(60)
    <2>9. QED BY <1>9, <2>7, <2>8 DEF RequestFlow, y
  <1>20. QED BY <1>1, <1>16, <1>17, <1>18, <1>19, BothEnds

(* Whoever still waits for an answer has a number for it, and no request   *)
(* to send has that number; a last frame of an answer leaves none of it.   *)
LEMMA WaitedFor ==
    ASSUME IInv, NEW e \in Ends, NEW n \in DOMAIN pendingResponses[e]
    PROVE  n \in 1 .. lastNo[e] /\ \A m \in HeldBy(e) : m.type = "REQ" => m.no # n
  <1>0. Typed
    BY DEF IInv
  <1>1. n \in Nat \ {0} /\ lastNo[e] \in Nat
    BY <1>0 DEF Typed, IsPending
  <1> DEFINE w == RequestNo(n)
             h == Held(w, e)
  <1>2. h + One(n \in DOMAIN pendingResponses[e]) <= One(n <= lastNo[e])
    BY <1>1 DEF IInv, Numbered
  <1>3. One(n \in DOMAIN pendingResponses[e]) = 1 /\ One(n <= lastNo[e]) \in {0, 1}
    BY DEF One
  <1>4. w \in [Messages -> Nat] /\ \A m \in Messages : w[m] = One(m.type = "REQ" /\ m.no = n)
    BY MessageWeights, MessageWeightsAre
  <1>5. h \in Nat
    BY <1>0, HeldNat
  <1>6. h = 0 /\ One(n <= lastNo[e]) = 1
    <2> HIDE DEF h
    <2>1. QED BY <1>2, <1>3, <1>5
  <1>7. n <= lastNo[e]
    BY <1>6 DEF One
  <1>8. ASSUME NEW m \in HeldBy(e), m.type = "REQ", m.no = n PROVE FALSE
    <2>1. m \in Messages
      BY <1>0, HeldMessages
    <2>2. w[m] = 1
      BY <1>4, <1>8, <2>1 DEF One
    <2>3. mailbox[e] \in Seq(Messages) /\ outbox[e] \in Seq(Messages) /\ icebox[e] \in Seq(Messages)
      BY <1>0 DEF Typed
    <2> HIDE DEF w
    <2>4. w[m] <= Total(w, mailbox[e]) + Total(w, outbox[e]) + Total(w, icebox[e])
      BY <1>4, <2>3, HeldIs DEF HeldBy
    <2>5. QED BY <1>6, <2>2, <2>4 DEF Held
  <1>9. QED BY <1>1, <1>7, <1>8

LEMMA LastLeavesNone ==
    ASSUME IInv, NEW e \in Ends, NEW p, p = Peer(e), Listening(e), NEW f \in Frames, Channel(p) # << >>, Head(Channel(p)) = f,
           Answer(f), f.no \in Nat \ {0}, NEW m \in HeldBy(p), Answer(m), m.no = f.no
    PROVE  f.more
  <1> SUFFICES ASSUME ~f.more PROVE FALSE
    OBVIOUS
  <1>0. Typed /\ p \in Ends /\ p # e
    BY Peers DEF IInv
  <1> DEFINE n == f.no
             c == Channel(p)
             a == Total(LastOfRequest(n), Channel(e))
             b == Asked(inbox[p], n)
             h == Held(AnswerNo(n), p)
             t == Total(LastOfAnswer(n), c)
  <1>1. a + b + h + t <= One(n \in DOMAIN pendingResponses[e])
    <2>1. OneAnswer(e, p)
      BY LinkedTo DEF Link
    <2>2. QED BY <2>1 DEF OneAnswer, Answers
  <1>2. a \in Nat /\ b \in {0, 1} /\ h \in Nat /\ t \in Nat
    BY <1>0, AnswersAre
  <1>3. h >= 1
    <2> DEFINE w == AnswerNo(n)
    <2>1. m \in Messages /\ w \in [Messages -> Nat]
      BY <1>0, HeldMessages, MessageWeights
    <2>2. w[m] = One(Answer(m) /\ m.no = n)
      BY <2>1, MessageWeightsAre
    <2>3. w[m] = 1
      BY <2>2 DEF One
    <2>4. mailbox[p] \in Seq(Messages) /\ outbox[p] \in Seq(Messages) /\ icebox[p] \in Seq(Messages)
      BY <1>0 DEF Typed
    <2>5. h = Total(w, mailbox[p]) + Total(w, outbox[p]) + Total(w, icebox[p])
      BY DEF Held
    <2> HIDE DEF w, h
    <2>6. w[m] <= Total(w, mailbox[p]) + Total(w, outbox[p]) + Total(w, icebox[p])
      BY <2>1, <2>4, HeldIs DEF HeldBy
    <2>7. QED BY <1>2, <2>3, <2>5, <2>6
  <1>4. t >= 1
    <2> DEFINE v == LastOfAnswer(n)
    <2>1. c \in Seq(Frames) /\ v \in [Frames -> Nat]
      BY <1>0, TypedChannels, FrameWeights
    <2>2. v[f] = One(Answer(f) /\ f.no = n /\ ~f.more)
      BY FrameWeightsAre
    <2>3. v[f] = 1
      BY <2>2 DEF One
    <2>4. 1 \in DOMAIN c /\ c[1] = f
      BY <2>1
    <2>5. v[c[1]] <= t
      <3>1. t = Total(v, c)
        OBVIOUS
      <3> HIDE DEF v, c, t
      <3>2. v[c[1]] <= Total(v, c)
        BY <2>1, <2>4, TotalAtLeast
      <3>3. QED BY <3>1, <3>2
    <2>6. QED BY <1>2, <2>3, <2>4, <2>5
  <1>5. One(n \in DOMAIN pendingResponses[e]) <= 1
    BY DEF One
  <1>6. One(n \in DOMAIN pendingResponses[e]) \in Nat
    BY DEF One
  <1> HIDE DEF a, b, h, t
  <1>7. QED BY <1>1, <1>2, <1>3, <1>4, <1>5, <1>6

LEMMA FlowOnResponse ==
    ASSUME IInv, Typed', Flow, Open, Open', NEW e \in Ends, OnResponse(e)
    PROVE  Flow'
  <1> DEFINE f == Frame(e)
             x == pendingResponses[e]
             r == x[f.no]
             q == Accept(r, f)
             y == pendingResponses'[e]
  <1>0. Typed /\ Owned(e)
    BY DEF IInv
  <1>1. PICK p : p = Peer(e)
    OBVIOUS
  <1>2. /\ p \in Ends /\ p # e
        /\ RequestFlow(e, p) /\ AnswerFlow(e, p) /\ RequestFlow(p, e) /\ AnswerFlow(p, e)
    BY <1>1, BothEnds
  <1>3. /\ f \in DataFrames /\ Answer(f)
        /\ UNCHANGED <<outbox, icebox, lastNo, received, pendingRequests>>
        /\ ResponseRefused(e) \/ ResponseTaken(e) \/ ResponseDamaged(e)
    BY <1>0, OnResponseIs, SMTT(40)
  <1>4. ~CloseWithError(e)
    <2>1. state'[e] = "open"
      BY DEF Open
    <2>2. QED BY <1>0, <2>1 DEF CloseWithError, Set, Typed
  <1>5. /\ f.no \in DOMAIN x
        /\ pendingResponses' = [pendingResponses EXCEPT ![e] = Keep(x, f, q)]
        /\ UNCHANGED <<state, sock>>
    BY <1>3, <1>4 DEF ResponseRefused, ResponseTaken, ResponseDamaged
  <1>6. AckPosted(e, r, f, "ACKRES")
    BY <1>0, <1>4, OnResponseAcks DEF ResponseRefused
  <1>7. TookFrame(e)
    <2>1. Receiving(e, {"RES", "ERR"})
      BY ZenonT(60) DEF OnResponse
    <2>2. QED BY <1>0, <1>3, <1>5, <2>1, ReceivingIs, TakesFrame, SMTT(40)
  <1>8. /\ Channel(p) # << >> /\ Head(Channel(p)) = f /\ Channel(p)' = Tail(Channel(p)) /\ Channel(e)' = Channel(e)
        /\ Channel(p) \in Seq(Frames)
    BY <1>0, <1>1, <1>2, <1>5, <1>7, TypedChannels DEF TookFrame
  <1>9. HeldBy(p)' = HeldBy(p)
    BY <1>2, <1>3, <1>6 DEF HeldBy, AckPosted
  <1>10. /\ IsPending(x) /\ r \in Pendings /\ pendingResponses'[p] = pendingResponses[p] /\ y = Keep(x, f, q)
         /\ f.no \in Nat \ {0} /\ f \in Frames
    <2>1. IsPending(x) /\ DOMAIN pendingResponses = Ends
      BY <1>0 DEF Typed
    <2>2. r \in Pendings
      BY <1>5, <2>1 DEF IsPending
    <2>3. f.no \in Nat \ {0} /\ f \in Frames
      BY <1>3 DEF DataFrames, Frames
    <2> DEFINE k == Keep(x, f, q)
    <2>4. pendingResponses' = [pendingResponses EXCEPT ![e] = k]
      BY <1>5
    <2> HIDE DEF k
    <2>5. pendingResponses'[p] = pendingResponses[p] /\ pendingResponses'[e] = k
      BY <1>2, <2>1, <2>4
    <2>6. QED BY <2>1, <2>2, <2>3, <2>5 DEF k
  <1>11. q.raw = r.raw + f.size /\ NowPending(x, y, f, r, q)
    BY <1>3, <1>10, AcceptIs, KeepIs
  <1>12. f.no \in 1 .. lastNo[e] /\ \A m \in HeldBy(e) : m.type = "REQ" => m.no # f.no
    BY <1>5, WaitedFor
  <1>13. r = x[f.no]
    OBVIOUS
  <1> HIDE DEF f, r, q, x, y
  <1>14. f.type # "REQ" /\ ~IsAck(f)
    BY <1>3 DEF Answer, IsAck
  <1>15. FlowSame(p)
    BY <1>0, <1>2, <1>8, <1>9, <1>14, FlowTaken
  <1>16. /\ OldRequests(HeldBy(p), HeldBy(p)') /\ OldAnswers(HeldBy(p), HeldBy(p)') /\ OldNumbers(HeldBy(p), HeldBy(p)')
         /\ SameBytes(Channel(p), Channel(p)')
         /\ SameRequestAcks(AcksOf(p), AcksOf(p)') /\ FewerAnswerAcks(AcksOf(p), AcksOf(p)')
    BY <1>15, SameAcksAre DEF FlowSame
  <1>17. /\ OldRequests(HeldBy(e), HeldBy(e)') /\ OldAnswers(HeldBy(e), HeldBy(e)') /\ OldNumbers(HeldBy(e), HeldBy(e)')
         /\ \A m \in HeldBy(e)' : m.type = "REQ" => m \in HeldBy(e)
         /\ AcksSent(AcksOf(e), AcksOf(e)', f, r, q, "ACKRES")
         /\ SameRequestAcks(AcksOf(e), AcksOf(e)')
    BY <1>0, <1>3, <1>6, <1>8, <1>10, <1>11, AckJoins
  <1>18. RequestFlow(e, p)'
    <2>1. SameBytes(Channel(e), Channel(e)')
      BY <1>8 DEF SameBytes
    <2>2. QED BY <1>2, <1>3, <1>16, <1>17, <2>1, RequestFlowKept
  <1>19. RequestFlow(p, e)'
    BY <1>2, <1>3, <1>16, <1>17, RequestFlowKept
  <1>20. AnswerFlow(e, p)'
    BY <1>0, <1>2, <1>3, <1>10, <1>16, <1>17, AnswerFlowKept
  <1>21. AnswerFlow(p, e)'
    <2> DEFINE H == HeldBy(p)
               A == AcksOf(e)
               B == AcksOf(e)'
               K == HeldBy(e)
               L == HeldBy(e)'
               no == lastNo[e]
    <2>1. H \in SUBSET Messages /\ \A a \in A : a.count \in Nat
      BY <1>0, <1>2, HeldMessages, AcksAreFrames
    <2>2. AnswersIn(H, x) /\ AnswerAcks(A, x, no, K)
      BY <1>2 DEF AnswerFlow, x
    <2>3. Listening(e)
      BY DEF Open, Listening
    <2>4. \A m \in H : Answer(m) /\ m.no = f.no => f.more
      BY <1>1, <1>3, <1>8, <1>10, <2>3, LastLeavesNone
    <2>5. \A m \in K : m.type = "REQ" => m.no # f.no
      BY <1>12
    <2>6. \A m \in L : m.type = "REQ" => m \in K
      BY <1>17
    <2>7. AcksSent(A, B, f, x[f.no], q, "ACKRES") /\ NowPending(x, y, f, x[f.no], q) /\ f.no \in DOMAIN x /\ f.no \in 1 .. no
      BY <1>5, <1>11, <1>12, <1>13, <1>17 DEF x, f
    <2> HIDE DEF H, A, B, K, L, no
    <2>8. AnswersIn(H, y) /\ AnswerAcks(B, y, no, L)
      <3>1. IsPending(x) /\ H \in SUBSET Messages
        BY <1>10, <2>1
      <3>2. \A a \in A : a.count \in Nat
        BY <2>1
      <3> DEFINE s == x[f.no]
      <3>3. AcksSent(A, B, f, s, q, "ACKRES") /\ NowPending(x, y, f, s, q)
        BY <2>7
      <3>4. QED BY <2>2, <2>4, <2>5, <2>6, <2>7, <3>1, <3>2, <3>3, AnswerFrameReceived, ZenonT(60)
    <2>9. QED BY <1>3, <1>9, <2>8 DEF AnswerFlow, y, H, B, L, no
  <1>22. QED BY <1>1, <1>18, <1>19, <1>20, <1>21, BothEnds

(* An acknowledgement is received: what e holds is O and k, which becomes  *)
(* m.                                                                      *)
Acks1(A, B, f) == \A a : a \in A <=> a \in B \/ a = f
AckedHeld(e, O, k, m) ==
    /\ HeldBy(e) = O \cup {k} /\ HeldBy(e)' = O \cup {m} /\ k \in Messages /\ O \in SUBSET Messages
    /\ Matches(k, Frame(e)) /\ m = ReceivedAck(k, Frame(e).count) /\ k.unacked <= k.sent
    /\ Alike(k, m) /\ (IsAck(k) => m = k)
    /\ k.type = "REQ" => \A j \in O : j.type = "REQ" => j.no # k.no

LEMMA OnAckHeld ==
    ASSUME IInv, NEW e \in Ends, Windows(e), NEW k, NEW m, NEW a, NEW b, AckMatched(e, k, m, a, b),
           mailbox'[e] = mailbox[e], Frame(e) \in DataFrames
    PROVE  AckedHeld(e, Range(mailbox[e]) \cup a \cup b, k, m)
  <1> DEFINE M == Range(mailbox[e])
             O == M \cup a \cup b
             f == Frame(e)
  <1>0. Typed /\ f.count \in Nat /\ f.no \in Nat \ {0}
    BY DEF IInv, DataFrames
  <1>1. /\ k \in Messages /\ a \subseteq Messages /\ b \subseteq Messages
        /\ Matches(k, f) /\ m = ReceivedAck(k, f.count) /\ OnlyOne(e, k, a, b)
    BY DEF AckMatched
  <1>2. \/ /\ Range(outbox[e]) = a \cup {k} /\ Range(outbox'[e]) = a \cup {m}
           /\ Range(icebox[e]) = b /\ Range(icebox'[e]) = b
        \/ /\ Range(outbox[e]) = a /\ Range(outbox'[e]) = a
           /\ Range(icebox[e]) = b \cup {k} /\ Range(icebox'[e]) = b \cup {m}
        \/ /\ Range(outbox[e]) = a /\ Range(outbox'[e]) = a \cup {m}
           /\ Range(icebox[e]) = b \cup {k} /\ Range(icebox'[e]) = b
    <2>1. CASE AckedOut(e, k, m, a, b)
      BY <2>1 DEF AckedOut
    <2>2. CASE AckedIce(e, k, m, a, b)
      BY <2>2 DEF AckedIce
    <2>3. CASE Thawed(e, k, m, a, b)
      BY <2>3 DEF Thawed
    <2>4. QED BY <2>1, <2>2, <2>3 DEF AckMatched
  <1>3. HeldBy(e) = O \cup {k} /\ HeldBy(e)' = O \cup {m}
    <2>1. HeldBy(e) = M \cup Range(outbox[e]) \cup Range(icebox[e])
      BY DEF HeldBy
    <2>2. HeldBy(e)' = M \cup Range(outbox'[e]) \cup Range(icebox'[e])
      BY DEF HeldBy
    <2> HIDE DEF M
    <2>3. QED BY <1>2, <2>1, <2>2
  <1>4. HeldBy(e) \subseteq Messages
    BY <1>0, HeldMessages
  <1>5. k.unacked <= k.sent /\ (IsAck(k) => k.sent = 0)
    <2>1. WindowsIn(M, Range(outbox[e]), Range(icebox[e])) /\ k \in HeldBy(e)
      BY <1>3 DEF Windows
    <2>2. QED BY <2>1 DEF WindowsIn, HeldBy
  <1>6. Alike(k, m) /\ (k.unacked = 0 => m = k)
    BY <1>0, <1>1, <1>5, ReceivedAckIs, ReceivedAckUnacked
  <1>7. IsAck(k) => m = k
    <2>1. k.unacked \in Nat
      BY <1>1, MessageFields
    <2>2. QED BY <1>5, <1>6, <2>1
  <1>8. ASSUME k.type = "REQ", NEW j \in O, j.type = "REQ", j.no = k.no PROVE FALSE
    <2> DEFINE w == RequestNo(f.no)
    <2>1. w \in [Messages -> Nat] /\ \A i \in Messages : w[i] = One(i.type = "REQ" /\ i.no = f.no)
      BY MessageWeights, MessageWeightsAre
    <2>2. j \in Messages /\ k \in Messages /\ k.no = f.no
      BY <1>1, <1>3, <1>4 DEF Matches
    <2>3. w[j] = 1 /\ w[k] = 1
      BY <1>8, <2>1, <2>2 DEF One
    <2>4. Held(w, e) + One(f.no \in DOMAIN pendingResponses[e]) <= One(f.no <= lastNo[e])
      BY <1>0 DEF IInv, Numbered
    <2>5. Held(w, e) \in Nat
      BY <1>0, HeldNat
    <2>6. One(f.no \in DOMAIN pendingResponses[e]) \in Nat /\ One(f.no <= lastNo[e]) \in {0, 1}
      BY DEF One
    <2> HIDE DEF w, f
    <2>7. w[j] + w[k] <= Held(w, e)
      BY <1>1, <2>1 DEF OnlyOne
    <2>8. QED BY <2>3, <2>4, <2>5, <2>6, <2>7
  <1>9. O \in SUBSET Messages
    BY <1>3, <1>4
  <1> HIDE DEF M, O, f
  <1>10. AckedHeld(e, O, k, m)
    BY <1>1, <1>3, <1>5, <1>6, <1>7, <1>8, <1>9 DEF AckedHeld, f
  <1>11. QED BY <1>10 DEF O, M

(* An acknowledgement of a request that is not held any more               *)
LEMMA AckForNone ==
    ASSUME NEW H, NEW x, NEW c, NEW A, NEW B, NEW f, RequestsIn(H, x, c, A), Acks1(A, B, f),
           \A m \in H : m.type = "REQ" => m.no # f.no
    PROVE  RequestsIn(H, x, c, B)
  <1>1. ASSUME NEW m \in H, m.type = "REQ", m.no # 0 PROVE RequestIn(m, x, c, B)
    <2>1. RequestIn(m, x, c, A) /\ m.no # f.no
      BY <1>1 DEF RequestsIn
    <2>2. Acknowledged(m, x, B)
      BY <2>1 DEF RequestIn, Acknowledged, Acks1
    <2>3. QED BY <2>1, <2>2 DEF RequestIn
  <1>2. QED BY <1>1 DEF RequestsIn

LEMMA AckedKeeps ==
    ASSUME NEW e, NEW O, NEW k, NEW m, AckedHeld(e, O, k, m), Channel(e)' = Channel(e)
    PROVE  /\ SameAcks(AcksOf(e), AcksOf(e)') /\ OldNumbers(HeldBy(e), HeldBy(e)')
           /\ k.type # "REQ" => OldRequests(HeldBy(e), HeldBy(e)')
           /\ ~Answer(k) => OldAnswers(HeldBy(e), HeldBy(e)')
  <1> DEFINE H == HeldBy(e)
             G == HeldBy(e)'
             c == Channel(e)
  <1>1. H = O \cup {k} /\ G = O \cup {m} /\ Alike(k, m) /\ (IsAck(k) => m = k)
    BY DEF AckedHeld
  <1>2. AcksOf(e) = AcksIn(H, c) /\ AcksOf(e)' = AcksIn(G, c)
    BY DEF AcksOf
  <1> HIDE DEF H, G, c
  <1>3. m.type = k.type /\ m.no = k.no /\ (IsAck(m) <=> IsAck(k)) /\ (Answer(m) <=> Answer(k))
    BY <1>1 DEF Alike, IsAck, Answer
  <1>4. \A j : IsAck(j) => (j \in G <=> j \in H)
    BY <1>1, <1>3
  <1>5. \A a : a \in AcksIn(G, c) <=> a \in AcksIn(H, c)
    BY <1>4, AcksMember
  <1>6. OldNumbers(H, G)
    BY <1>1, <1>3 DEF OldNumbers
  <1>7. (k.type # "REQ" => OldRequests(H, G)) /\ (~Answer(k) => OldAnswers(H, G))
    BY <1>1, <1>3 DEF OldRequests, OldAnswers
  <1>8. QED BY <1>2, <1>5, <1>6, <1>7 DEF SameAcks, H, G

LEMMA FlowOnAck ==
    ASSUME IInv, Typed', Flow, Open, \A x \in Ends : Steady(x), NEW e \in Ends, OnAck(e)
    PROVE  Flow'
  <1> DEFINE f == Frame(e)
  <1>0. Typed /\ Windows(e)
    BY DEF IInv, Steady
  <1>1. PICK p : p = Peer(e)
    OBVIOUS
  <1>2. /\ p \in Ends /\ p # e
        /\ RequestFlow(e, p) /\ AnswerFlow(e, p) /\ RequestFlow(p, e) /\ AnswerFlow(p, e)
    BY <1>1, BothEnds
  <1>3. /\ f \in DataFrames /\ IsAck(f) /\ Receiving(e, {"ACKREQ", "ACKRES"})
        /\ outbox'[p] = outbox[p] /\ icebox'[p] = icebox[p]
        /\ UNCHANGED <<lastNo, received, pendingRequests, pendingResponses, mailbox, sock>>
        /\ NoneMatched(e) \/ \E k, m, a, b : AckMatched(e, k, m, a, b)
    BY <1>0, <1>2, OnAckMatches
  <1>4. TookFrame(e)
    BY <1>0, <1>3, ReceivingIs, TakesFrame
  <1>5. /\ Channel(p) # << >> /\ Head(Channel(p)) = f /\ Channel(p)' = Tail(Channel(p)) /\ Channel(e)' = Channel(e)
        /\ Channel(p) \in Seq(Frames)
    BY <1>0, <1>1, <1>2, <1>3, <1>4, TypedChannels DEF TookFrame
  <1>6. HeldBy(p)' = HeldBy(p)
    BY <1>3 DEF HeldBy
  <1>7. f.no # 0 /\ f.count \in Nat /\ (f.type = "ACKREQ" \/ f.type = "ACKRES") /\ f.type # "REQ"
    BY <1>3 DEF DataFrames, IsAck
  <1> DEFINE A == AcksOf(p)
             B == AcksOf(p)'
             H == HeldBy(p)
             c == Channel(p)
  <1>8. Acks1(A, B, f)
    <2>1. A = AcksIn(H, c) /\ B = AcksIn(H, Tail(c)) /\ c \in Seq(Frames) /\ c # << >> /\ Head(c) = f
      BY <1>5, <1>6 DEF AcksOf
    <2> HIDE DEF A, B, H, c, f
    <2>2. QED BY <1>3, <2>1, AcksTaken DEF Acks1
  <1>9. SameBytes(Channel(p), Channel(p)')
    <2>1. c \in Seq(Frames) /\ c # << >> /\ Head(c) = f /\ Tail(c) \in Seq(Frames) /\ Channel(p)' = Tail(c) /\ c = Channel(p)
      BY <1>5, TailInserts
    <2> HIDE DEF c, f
    <2>2. ASSUME NEW n PROVE Total(RequestBytes(n), Tail(c)) = Total(RequestBytes(n), c)
      <3>1. Total(RequestBytes(n), c) = Total(RequestBytes(n), Tail(c)) + 0 /\ Total(RequestBytes(n), Tail(c)) \in Nat
        BY <1>7, <2>1, RequestBytesAre
      <3>2. QED BY <3>1
    <2>3. QED BY <2>1, <2>2 DEF SameBytes
  <1>10. f = Frame(e) /\ A = AcksOf(p) /\ B = AcksOf(p)'
    OBVIOUS
  <1> HIDE DEF f, A, B, H, c
  <1>11. f \in A /\ FewerAnswerAcks(A, B) /\ (f.type = "ACKRES" => SameRequestAcks(A, B))
    BY <1>8 DEF Acks1, FewerAnswerAcks, SameRequestAcks
  <1>12. RequestAcks(B, pendingRequests[p], received[p])
    <2>1. RequestAcks(A, pendingRequests[p], received[p])
      BY <1>2, <1>10 DEF RequestFlow
    <2>2. QED BY <1>8, <2>1 DEF RequestAcks, Acks1
  <1>13. SameBytes(Channel(e), Channel(e)')
    BY <1>5 DEF SameBytes
  <1>14. /\ LowPending(pendingRequests[p]) /\ RequestsIn(HeldBy(e), pendingRequests[p], Channel(e), A)
         /\ RequestAcks(A, pendingRequests[p], received[p])
    BY <1>2, <1>10 DEF RequestFlow
  <1>15. CASE NoneMatched(e)
    <2>1. HeldBy(e)' = HeldBy(e)
      BY <1>3, <1>15 DEF NoneMatched, HeldBy
    <2>2. FlowSame(e)
      BY <1>5, <2>1, FlowUnchanged
    <2>3. SameRequestAcks(AcksOf(e), AcksOf(e)') /\ FewerAnswerAcks(AcksOf(e), AcksOf(e)')
      BY <2>2, SameAcksAre DEF FlowSame
    <2>4. RequestFlow(p, e)'
      BY <1>2, <1>3, <1>6, <1>9, <2>3, HeldOn, RequestFlowKept
    <2>5. AnswerFlow(p, e)'
      BY <1>0, <1>2, <1>3, <1>6, <2>1, <2>3, HeldOn, AnswerFlowKept
    <2>6. AnswerFlow(e, p)'
      BY <1>0, <1>2, <1>3, <1>6, <1>10, <1>11, <2>1, HeldOn, AnswerFlowKept
    <2>7. RequestFlow(e, p)'
      <3>1. CASE f.type = "ACKRES"
        BY <1>2, <1>3, <1>10, <1>11, <1>13, <2>1, <3>1, HeldOn, RequestFlowKept
      <3>2. CASE f.type = "ACKREQ"
        <4>1. ASSUME NEW m \in HeldBy(e), m.type = "REQ", m.no = f.no PROVE FALSE
          <5>1. WindowsIn(Range(mailbox[e]), Range(outbox[e]), Range(icebox[e]))
            BY <1>0 DEF Windows
          <5>2. m \notin Range(mailbox[e])
            BY <1>7, <4>1, <5>1 DEF WindowsIn
          <5>3. m \in Range(outbox[e]) \cup Range(icebox[e])
            BY <5>2 DEF HeldBy
          <5>4. ~Matches(m, f)
            BY <1>10, <1>15, <5>3 DEF NoneMatched
          <5>5. QED BY <3>2, <4>1, <5>4 DEF Matches, IsResponse
        <4>2. RequestsIn(HeldBy(e), pendingRequests[p], Channel(e), B)
          BY <1>8, <1>14, <4>1, AckForNone
        <4>3. QED BY <1>3, <1>5, <1>10, <1>12, <1>14, <2>1, <4>2 DEF RequestFlow
      <3>3. QED BY <1>7, <3>1, <3>2
    <2>8. QED BY <1>1, <2>4, <2>5, <2>6, <2>7, BothEnds
  <1>16. ASSUME NEW k, NEW m, NEW a, NEW b, AckMatched(e, k, m, a, b) PROVE Flow'
    <2>1. PICK O : AckedHeld(e, O, k, m)
      <3>1. mailbox'[e] = mailbox[e] /\ Frame(e) \in DataFrames
        BY <1>3, <1>10
      <3>2. QED BY <1>0, <1>16, <3>1, OnAckHeld
    <2>2. /\ HeldBy(e) = O \cup {k} /\ HeldBy(e)' = O \cup {m} /\ k \in Messages
          /\ Matches(k, f) /\ m = ReceivedAck(k, f.count) /\ k.unacked <= k.sent
          /\ k.type = "REQ" => \A j \in O : j.type = "REQ" => j.no # k.no
      BY <1>10, <2>1 DEF AckedHeld
    <2>3. /\ SameAcks(AcksOf(e), AcksOf(e)') /\ OldNumbers(HeldBy(e), HeldBy(e)')
          /\ k.type # "REQ" => OldRequests(HeldBy(e), HeldBy(e)')
          /\ ~Answer(k) => OldAnswers(HeldBy(e), HeldBy(e)')
      BY <1>5, <2>1, AckedKeeps
    <2>4. SameRequestAcks(AcksOf(e), AcksOf(e)') /\ FewerAnswerAcks(AcksOf(e), AcksOf(e)')
      BY <2>3, SameAcksAre
    <2>5. RequestFlow(p, e)'
      BY <1>2, <1>3, <1>6, <1>9, <2>4, HeldOn, RequestFlowKept
    <2>6. AnswerFlow(p, e)'
      BY <1>0, <1>2, <1>3, <1>6, <2>3, <2>4, HeldOn, AnswerFlowKept
    <2>7. k.no = f.no /\ (f.type = "ACKRES" <=> k.type # "REQ")
      BY <2>2 DEF Matches, IsResponse
    <2>8. RequestFlow(e, p)'
      <3>1. CASE f.type = "ACKRES"
        BY <1>2, <1>3, <1>10, <1>11, <1>13, <2>3, <2>7, <3>1, RequestFlowKept
      <3>2. CASE f.type = "ACKREQ"
        <4> DEFINE x == pendingRequests[p]
        <4>1. k.type = "REQ" /\ \A j \in O : j.type = "REQ" => j.no # f.no
          BY <2>2, <2>7, <3>2
        <4>2. k.no \in DOMAIN x
          <5>1. f.no \in 1 .. received[p]
            BY <1>11, <1>14, <3>2 DEF RequestAcks
          <5>2. RequestsGoOn(e, p) /\ state[e] = "open" /\ Listening(p) /\ received[p] \in Nat
            BY <1>0, <1>1, <1>2, LinkedTo DEF Link, Open, Listening, Typed
          <5>3. k \in HeldBy(e) /\ k.no # 0 /\ k.no <= received[p]
            BY <1>7, <2>2, <2>7, <5>1, <5>2
          <5>4. QED BY <4>1, <5>2, <5>3 DEF RequestsGoOn
        <4>3. IsPending(x) /\ Channel(e) \in Seq(Frames)
          BY <1>0, <1>2, TypedChannels DEF Typed
        <4>4. RequestsIn(O \cup {k}, x, Channel(e), A) /\ RequestAcks(A, x, received[p])
          BY <1>14, <2>2
        <4>5. \A i \in A : i \in B \/ i = f
          BY <1>8 DEF Acks1
        <4> HIDE DEF x
        <4>6. RequestsIn(O \cup {m}, x, Channel(e), B)
          BY <1>7, <1>11, <2>2, <2>7, <3>2, <4>1, <4>2, <4>3, <4>4, <4>5, RequestAcknowledged
        <4>7. QED BY <1>3, <1>5, <1>10, <1>12, <1>14, <2>2, <4>6 DEF RequestFlow, x
      <3>3. QED BY <1>7, <3>1, <3>2
    <2>9. AnswerFlow(e, p)'
      <3>1. CASE ~Answer(k)
        BY <1>0, <1>2, <1>3, <1>6, <1>10, <1>11, <2>3, <3>1, HeldOn, AnswerFlowKept
      <3>2. CASE Answer(k)
        <4> DEFINE x == pendingResponses[p]
                   no == lastNo[p]
                   K == HeldBy(p)
        <4>1. AnswersIn(O \cup {k}, x) /\ AnswerAcks(A, x, no, K)
          BY <1>2, <1>10, <2>2 DEF AnswerFlow
        <4>2. f.type = "ACKRES"
          BY <2>7, <3>2 DEF Answer
        <4>3. k.no \in DOMAIN x
          <5>1. AnswersMatch(p, e) /\ Listening(p)
            BY <1>1, <1>2, LinkedTo DEF Link, Open, Listening
          <5>2. k \in HeldBy(e)
            BY <2>2
          <5>3. QED BY <3>2, <5>1, <5>2 DEF AnswersMatch, Expects
        <4>4. IsPending(x)
          BY <1>0, <1>2 DEF Typed
        <4>5. AnswerAcks(B, x, no, K)
          BY <1>8, <4>1 DEF AnswerAcks, Acks1
        <4>6. K = HeldBy(p)
          OBVIOUS
        <4> HIDE DEF x, no, K
        <4>7. AnswersIn(O \cup {m}, x)
          BY <1>7, <1>11, <2>2, <2>7, <3>2, <4>1, <4>2, <4>3, <4>4, AnswerAcknowledged
        <4>8. QED BY <1>3, <1>6, <1>10, <2>2, <4>5, <4>6, <4>7 DEF AnswerFlow, x, no
      <3>3. QED BY <3>1, <3>2
    <2>10. QED BY <1>1, <2>5, <2>6, <2>8, <2>9, BothEnds
  <1>17. QED BY <1>3, <1>15, <1>16

(* A frame is sent: of an acknowledgement, ...                             *)
LEMMA FlowSentAck ==
    ASSUME IInv, Typed', Flow, Open, NEW e \in Ends, NEW h, NEW f, NEW n, SentFrame(e, h, f, n), FramedAs(f, h, n), IsAck(h)
    PROVE  Flow'
  <1>0. Typed /\ Owned(e)
    BY DEF IInv
  <1>1. /\ FrameOf(f, h, n, lastNo[e]) /\ HeldSent(e, h, f, n) /\ Elsewhere(e)
        /\ lastNo'[e] = (IF h.no = 0 THEN lastNo[e] + 1 ELSE lastNo[e])
        /\ pendingResponses'[e] = Answered(pendingResponses[e], h, f)
        /\ Channel(e)' = Append(Channel(e), f)
        /\ UNCHANGED <<received, pendingRequests>>
    BY DEF SentFrame, Open
  <1> DEFINE H == HeldBy(e)
             G == HeldBy(e)'
             c == Channel(e)
  <1>2. /\ h \in Messages /\ f \in Frames /\ ~f.more /\ h.type # "REQ" /\ f.type = h.type
    BY <1>1 DEF FrameOf, IsAck, Frames
  <1>3. H = Others(e) \cup {h} /\ G = Others(e)
    BY <1>1, <1>2 DEF HeldSent
  <1>4. h.no # 0 /\ f = NextFrame(h, << >>) /\ IsAck(f)
    BY <1>0, <1>2, <1>3 DEF Owned, FramedAs, IsAck
  <1>5. lastNo'[e] = lastNo[e] /\ pendingResponses'[e] = pendingResponses[e]
    BY <1>1, <1>2, <1>4 DEF Answered
  <1>6. c \in Seq(Frames) /\ AcksOf(e) = AcksIn(H, c) /\ AcksOf(e)' = AcksIn(G, Append(c, f))
    BY <1>0, <1>1, TypedChannels DEF AcksOf
  <1>7. SameBytes(Channel(e), Channel(e)')
    <2>1. Channel(e)' = Append(c, f) /\ c = Channel(e)
      BY <1>1
    <2> HIDE DEF c
    <2>2. ASSUME NEW i PROVE Total(RequestBytes(i), Append(c, f)) = Total(RequestBytes(i), c)
      <3>1. Total(RequestBytes(i), Append(c, f)) = Total(RequestBytes(i), c) + 0 /\ Total(RequestBytes(i), c) \in Nat
        BY <1>2, <1>6, RequestBytesAre
      <3>2. QED BY <3>1
    <2>3. QED BY <2>1, <2>2 DEF SameBytes
  <1>8. OldRequests(H, G) /\ OldAnswers(H, G) /\ OldNumbers(H, G)
    <2> HIDE DEF H, G
    <2>1. QED BY <1>3 DEF OldRequests, OldAnswers, OldNumbers
  <1>9. SameAcks(AcksOf(e), AcksOf(e)')
    <2> DEFINE O == Others(e)
               d == Append(c, f)
    <2>1. H = O \cup {h} /\ G = O
      BY <1>3
    <2> HIDE DEF H, G, c, O, d
    <2>2. \A a : a \in AcksIn(G, d) <=> a \in AcksIn(G, c) \/ a = f
      <3>1. c \in Seq(Frames) /\ f \in Frames /\ IsAck(f)
        BY <1>2, <1>4, <1>6
      <3>2. \A a : a \in AcksIn(G, Append(c, f)) <=> a \in AcksIn(G, c) \/ a = f
        BY <3>1, AcksAppended
      <3>3. QED BY <3>2 DEF d
    <2>3. \A a : a \in AcksIn(H, c) <=> a \in AcksIn(G, c) \/ a = f
      <3>1. \A a : (\E m \in H : IsAck(m) /\ a = NextFrame(m, << >>))
                   <=> (\E m \in G : IsAck(m) /\ a = NextFrame(m, << >>)) \/ a = f
        BY <1>4, <2>1
      <3>2. QED BY <3>1, AcksMember
    <2>4. QED BY <1>6, <2>2, <2>3 DEF SameAcks, d
  <1>10. FlowSame(e)
    BY <1>7, <1>8, <1>9 DEF FlowSame
  <1>11. ASSUME NEW x \in Ends
         PROVE  FlowSame(x) /\ pendingResponses'[x] = pendingResponses[x] /\ lastNo'[x] = lastNo[x]
    <2>1. CASE x = e
      BY <1>5, <1>10, <2>1
    <2>2. CASE x # e
      <3>1. /\ mailbox'[x] = mailbox[x] /\ outbox'[x] = outbox[x] /\ icebox'[x] = icebox[x] /\ Channel(x)' = Channel(x)
            /\ pendingResponses'[x] = pendingResponses[x] /\ lastNo'[x] = lastNo[x]
        BY <1>1, <2>2 DEF Elsewhere
      <3>2. HeldBy(x)' = HeldBy(x)
        BY <3>1 DEF HeldBy
      <3>3. QED BY <3>1, <3>2, FlowUnchanged
    <2>3. QED BY <2>1, <2>2
  <1>12. QED
    <2>1. PICK p : p = Peer(e)
      OBVIOUS
    <2>2. /\ p \in Ends /\ RequestFlow(e, p) /\ AnswerFlow(e, p) /\ RequestFlow(p, e) /\ AnswerFlow(p, e)
      BY <2>1, BothEnds
    <2>3. RequestFlow(e, p)' /\ RequestFlow(p, e)'
      BY <1>1, <1>11, <2>2, RequestFlowSame
    <2>4. AnswerFlow(e, p)' /\ AnswerFlow(p, e)'
      BY <1>0, <1>11, <2>2, AnswerFlowSame
    <2>5. QED BY <2>1, <2>3, <2>4, BothEnds

(* ... and of a request or an answer, which changes nothing of what is     *)
(* acknowledged, nor anything at the other end.                            *)
LEMMA SentElse ==
    ASSUME IInv, Open, NEW e \in Ends, NEW h, NEW f, NEW n, SentFrame(e, h, f, n), ~IsAck(h), NEW p, p = Peer(e)
    PROVE  /\ p \in Ends /\ FlowSame(p) /\ pendingResponses'[p] = pendingResponses[p] /\ lastNo'[p] = lastNo[p]
           /\ UNCHANGED <<received, pendingRequests>>
           /\ SameAcks(AcksOf(e), AcksOf(e)')
           /\ f.type # "REQ" => SameBytes(Channel(e), Channel(e)')
           /\ HeldBy(e) = Others(e) \cup {h} /\ HeldBy(e)' = Others(e) \cup (IF f.more THEN {n} ELSE {})
           /\ f \in Frames /\ Channel(e) \in Seq(Frames) /\ Channel(e)' = Append(Channel(e), f)
  <1>0. Typed /\ p \in Ends /\ p # e
    BY Peers DEF IInv
  <1>1. /\ FrameOf(f, h, n, lastNo[e]) /\ HeldSent(e, h, f, n) /\ Elsewhere(e)
        /\ Channel(e)' = Append(Channel(e), f)
        /\ UNCHANGED <<received, pendingRequests>>
    BY DEF SentFrame, Open
  <1>2. /\ mailbox'[p] = mailbox[p] /\ outbox'[p] = outbox[p] /\ icebox'[p] = icebox[p] /\ Channel(p)' = Channel(p)
        /\ pendingResponses'[p] = pendingResponses[p] /\ lastNo'[p] = lastNo[p]
    BY <1>0, <1>1 DEF Elsewhere
  <1>3. HeldBy(p)' = HeldBy(p)
    BY <1>2 DEF HeldBy
  <1>4. FlowSame(p)
    BY <1>2, <1>3, FlowUnchanged
  <1> DEFINE H == HeldBy(e)
             G == HeldBy(e)'
             c == Channel(e)
             O == Others(e)
  <1>5. H = O \cup {h} /\ G = O \cup (IF f.more THEN {n} ELSE {})
    BY <1>1 DEF HeldSent
  <1>6. f \in Frames /\ f.type = h.type /\ (f.more => n.type = h.type)
    BY <1>1 DEF FrameOf, Frames
  <1>7. ~IsAck(f) /\ (f.more => ~IsAck(n))
    BY <1>6 DEF IsAck
  <1>8. c \in Seq(Frames) /\ AcksOf(e) = AcksIn(H, c) /\ AcksOf(e)' = AcksIn(G, Append(c, f)) /\ Channel(e)' = Append(c, f)
    BY <1>0, <1>1, TypedChannels DEF AcksOf
  <1>9. f.type # "REQ" => SameBytes(Channel(e), Channel(e)')
    <2>1. c = Channel(e)
      OBVIOUS
    <2> HIDE DEF c
    <2>2. ASSUME f.type # "REQ", NEW i PROVE Total(RequestBytes(i), Append(c, f)) = Total(RequestBytes(i), c)
      <3>1. Total(RequestBytes(i), Append(c, f)) = Total(RequestBytes(i), c) + 0 /\ Total(RequestBytes(i), c) \in Nat
        BY <1>6, <1>8, <2>2, RequestBytesAre
      <3>2. QED BY <3>1
    <2>3. QED BY <1>8, <2>1, <2>2 DEF SameBytes
  <1>10. SameAcks(AcksOf(e), AcksOf(e)')
    <2> DEFINE d == Append(c, f)
    <2>1. \A m : IsAck(m) => (m \in G <=> m \in H)
      <3> HIDE DEF H, G, O
      <3>1. QED BY <1>5, <1>7
    <2> HIDE DEF H, G, c, O, d
    <2>2. \A a : a \in AcksIn(G, d) <=> a \in AcksIn(G, c)
      BY <1>6, <1>7, <1>8, AcksAppended DEF d
    <2>3. \A a : a \in AcksIn(H, c) <=> a \in AcksIn(G, c)
      BY <2>1, AcksMember
    <2>4. QED BY <1>8, <2>2, <2>3 DEF SameAcks, d
  <1>11. QED BY <1>0, <1>1, <1>2, <1>4, <1>5, <1>6, <1>8, <1>9, <1>10

LEMMA FlowSentAnswer ==
    ASSUME IInv, Typed', Flow, Open, NEW e \in Ends, NEW h, NEW f, NEW n, SentFrame(e, h, f, n), FramedAs(f, h, n), Answer(h)
    PROVE  Flow'
  <1>0. Typed /\ Owned(e)
    BY DEF IInv
  <1>1. PICK p : p = Peer(e)
    OBVIOUS
  <1>2. /\ p \in Ends /\ p # e
        /\ RequestFlow(e, p) /\ AnswerFlow(e, p) /\ RequestFlow(p, e) /\ AnswerFlow(p, e)
    BY <1>1, BothEnds
  <1>3. ~IsAck(h) /\ h.type # "REQ"
    BY DEF Answer, IsAck
  <1>4. /\ FlowSame(p) /\ pendingResponses'[p] = pendingResponses[p] /\ lastNo'[p] = lastNo[p]
        /\ UNCHANGED <<received, pendingRequests>>
        /\ SameAcks(AcksOf(e), AcksOf(e)')
        /\ f.type # "REQ" => SameBytes(Channel(e), Channel(e)')
        /\ HeldBy(e) = Others(e) \cup {h} /\ HeldBy(e)' = Others(e) \cup (IF f.more THEN {n} ELSE {})
    BY <1>1, <1>3, SentElse
  <1>5. /\ FrameOf(f, h, n, lastNo[e]) /\ lastNo'[e] = (IF h.no = 0 THEN lastNo[e] + 1 ELSE lastNo[e])
        /\ pendingResponses'[e] = Answered(pendingResponses[e], h, f)
    BY DEF SentFrame
  <1>6. f.type # "REQ" /\ (f.more => n.type # "REQ") /\ h.no # 0
    BY <1>0, <1>3, <1>4, <1>5 DEF FrameOf, Owned
  <1>7. lastNo'[e] = lastNo[e] /\ pendingResponses'[e] = pendingResponses[e]
    BY <1>3, <1>5, <1>6 DEF Answered
  <1>8. OldRequests(HeldBy(e), HeldBy(e)') /\ OldNumbers(HeldBy(e), HeldBy(e)')
    BY <1>4, <1>6 DEF OldRequests, OldNumbers
  <1>9. SameBytes(Channel(e), Channel(e)') /\ SameRequestAcks(AcksOf(e), AcksOf(e)') /\ FewerAnswerAcks(AcksOf(e), AcksOf(e)')
    BY <1>4, <1>6, SameAcksAre
  <1>10. /\ OldRequests(HeldBy(p), HeldBy(p)') /\ OldAnswers(HeldBy(p), HeldBy(p)') /\ OldNumbers(HeldBy(p), HeldBy(p)')
         /\ SameBytes(Channel(p), Channel(p)')
         /\ SameRequestAcks(AcksOf(p), AcksOf(p)') /\ FewerAnswerAcks(AcksOf(p), AcksOf(p)')
    BY <1>4, SameAcksAre DEF FlowSame
  <1>11. RequestFlow(e, p)'
    BY <1>2, <1>4, <1>8, <1>9, <1>10, RequestFlowKept
  <1>12. RequestFlow(p, e)'
    BY <1>2, <1>4, <1>9, <1>10, RequestFlowKept
  <1>13. AnswerFlow(p, e)'
    BY <1>0, <1>2, <1>7, <1>8, <1>9, <1>10, AnswerFlowKept
  <1>14. AnswerFlow(e, p)'
    <2> DEFINE x == pendingResponses[p]
               no == lastNo[p]
               K == HeldBy(p)
               L == HeldBy(p)'
               A == AcksOf(p)
               B == AcksOf(p)'
               O == Others(e)
    <2>1. AnswersIn(O \cup {h}, x) /\ AnswerAcks(A, x, no, K)
      BY <1>2, <1>4 DEF AnswerFlow
    <2>2. IsPending(x) /\ no \in Nat
      BY <1>0, <1>2 DEF Typed
    <2>3. FewerAnswerAcks(A, B) /\ OldNumbers(K, L)
      BY <1>10
    <2>4. AnswersIn({}, x)
      BY DEF AnswersIn
    <2> HIDE DEF x, no, K, L, A, B, O
    <2>5. AnswersIn(O \cup (IF f.more THEN {n} ELSE {}), x)
      BY <1>5, <1>6, <2>1, <2>2, AnswerFrameSent DEF FramedAs
    <2>6. AnswerAcks(B, x, no, L)
      <3>1. {} \in SUBSET Messages /\ OldAnswers({}, {})
        BY DEF OldAnswers
      <3>2. QED BY <2>1, <2>2, <2>3, <2>4, <3>1, AnswersInKept
    <2>7. QED BY <1>4, <2>5, <2>6 DEF AnswerFlow, x, no, L, B, O
  <1>15. QED BY <1>1, <1>11, <1>12, <1>13, <1>14, BothEnds

LEMMA FlowSentRequest ==
    ASSUME IInv, Typed', Flow, Open, NEW e \in Ends, Windows(e), outbox[e] # << >>,
           NEW h, h = Head(outbox[e]), NEW f, NEW n, SentFrame(e, h, f, n), FramedAs(f, h, n), h.type = "REQ"
    PROVE  Flow'
  <1>0. Typed
    BY DEF IInv
  <1>1. PICK p : p = Peer(e)
    OBVIOUS
  <1>2. /\ p \in Ends /\ p # e
        /\ RequestFlow(e, p) /\ AnswerFlow(e, p) /\ RequestFlow(p, e) /\ AnswerFlow(p, e)
    BY <1>1, BothEnds
  <1>3. ~IsAck(h)
    BY DEF IsAck
  <1>4. /\ FlowSame(p) /\ pendingResponses'[p] = pendingResponses[p] /\ lastNo'[p] = lastNo[p]
        /\ UNCHANGED <<received, pendingRequests>>
        /\ SameAcks(AcksOf(e), AcksOf(e)')
        /\ HeldBy(e) = Others(e) \cup {h} /\ HeldBy(e)' = Others(e) \cup (IF f.more THEN {n} ELSE {})
        /\ f \in Frames /\ Channel(e) \in Seq(Frames) /\ Channel(e)' = Append(Channel(e), f)
    BY <1>1, <1>3, SentElse
  <1>5. FrameOf(f, h, n, lastNo[e]) /\ Others(e) \subseteq Messages
    BY DEF SentFrame, HeldSent
  <1>6. /\ f.no \in Nat \ {0} /\ f.no \notin DOMAIN pendingResponses[e]
        /\ h.no # 0 => f.no = h.no /\ f.no <= lastNo[e] /\ lastNo'[e] = lastNo[e]
        /\ h.no = 0 => f.no = lastNo[e] + 1 /\ lastNo'[e] = lastNo[e] + 1
        /\ \A k \in Others(e) : k.type = "REQ" => k.no # f.no
    BY SentRequestIs DEF NewNumber
  <1>7. f.type = "REQ" /\ (f.more => n.type = "REQ" /\ n.no = f.no) /\ h \in Messages
    BY <1>5 DEF FrameOf
  <1>8. Link(e, p) /\ Link(p, e) /\ Listening(p) /\ Listening(e) /\ state[e] = "open"
    BY <1>1, <1>2, LinkedTo DEF Open, Listening
  <1>9. lastNo[e] \in Nat /\ received[p] \in Nat /\ IsPending(pendingRequests[p]) /\ IsPending(pendingResponses[e])
    BY <1>0, <1>2 DEF Typed
  <1>10. /\ OldRequests(HeldBy(p), HeldBy(p)') /\ OldAnswers(HeldBy(p), HeldBy(p)') /\ OldNumbers(HeldBy(p), HeldBy(p)')
         /\ SameBytes(Channel(p), Channel(p)')
         /\ SameRequestAcks(AcksOf(p), AcksOf(p)') /\ FewerAnswerAcks(AcksOf(p), AcksOf(p)')
         /\ SameRequestAcks(AcksOf(e), AcksOf(e)') /\ FewerAnswerAcks(AcksOf(e), AcksOf(e)')
    BY <1>4, SameAcksAre DEF FlowSame
  <1>11. RequestFlow(p, e)'
    BY <1>2, <1>4, <1>10, RequestFlowKept
  <1>12. AnswerFlow(e, p)'
    <2>1. OldAnswers(HeldBy(e), HeldBy(e)')
      BY <1>4, <1>7 DEF OldAnswers, Answer
    <2>2. QED BY <1>0, <1>2, <1>4, <1>10, <2>1, AnswerFlowKept
  <1>13. h.no = 0 => h.sent = 0 /\ h.unacked = 0
    <2>1. h \in Range(outbox[e])
      <3>1. outbox[e] \in Seq(Messages)
        BY <1>0 DEF Typed
      <3>2. 1 \in DOMAIN outbox[e] /\ h = outbox[e][1]
        BY <3>1
      <3>3. QED BY <3>2 DEF Range
    <2>2. h.unacked <= h.sent /\ (h.no = 0 => h.sent = 0)
      BY <2>1 DEF Windows, WindowsIn
    <2>3. h.unacked \in Nat
      BY <1>7, MessageFields
    <2>4. QED BY <2>2, <2>3
  <1>14. h.no = 0 => f.no \notin DOMAIN pendingRequests[p] /\ Total(RequestBytes(f.no), Channel(e)) = 0
    <2> DEFINE c == Channel(e)
    <2>1. received[p] <= lastNo[e] /\ DOMAIN pendingRequests[p] \subseteq 1 .. received[p]
      BY <1>8 DEF Link, RequestsGoOn, RequestsArrive
    <2>2. \A k \in DOMAIN c : c[k].type = "REQ" => c[k].no \in 1 .. lastNo[e]
      BY <1>8, Zenon DEF Link, RequestsArrive
    <2>3. c \in Seq(Frames)
      BY <1>4
    <2> HIDE DEF c
    <2>4. ASSUME h.no = 0, NEW k \in DOMAIN c PROVE RequestBytes(f.no)[c[k]] = 0
      <3>1. c[k] \in Frames
        BY <2>3, ElementIs
      <3>2. ~(c[k].type = "REQ" /\ c[k].no = f.no)
        BY <1>6, <1>9, <2>2, <2>4
      <3>3. QED BY <3>1, <3>2, RequestBytesIs
    <2>5. h.no = 0 => Total(RequestBytes(f.no), c) = 0
      BY <2>3, <2>4, RequestBytesIs, TotalZero
    <2>6. h.no = 0 => f.no \notin DOMAIN pendingRequests[p]
      BY <1>6, <1>9, <2>1
    <2>7. QED BY <2>5, <2>6 DEF c
  <1>15. RequestFlow(e, p)'
    <2> DEFINE x == pendingRequests[p]
               c == Channel(e)
               A == AcksOf(p)
               B == AcksOf(p)'
               O == Others(e)
               G == HeldBy(e)'
    <2>1. LowPending(x) /\ RequestsIn(O \cup {h}, x, c, A) /\ RequestAcks(A, x, received[p])
      BY <1>2, <1>4 DEF RequestFlow
    <2>2. c \in Seq(Frames) /\ IsPending(x) /\ O \in SUBSET Messages
      BY <1>4, <1>5, <1>9
    <2>3. h.no = 0 => h.sent = 0 /\ h.unacked = 0 /\ f.no \notin DOMAIN x /\ Total(RequestBytes(f.no), c) = 0
      BY <1>13, <1>14
    <2>4. \A m \in O : m.type = "REQ" => m.no # f.no
      BY <1>6
    <2>5. f.more => n.unacked = h.unacked + f.size
      BY DEF FramedAs
    <2>6. G = O \cup (IF f.more THEN {n} ELSE {}) /\ Channel(e)' = Append(c, f) /\ SameRequestAcks(A, B)
      BY <1>4, <1>10
    <2> HIDE DEF x, c, A, B, O, G
    <2>7. RequestsIn(O \cup (IF f.more THEN {n} ELSE {}), x, Append(c, f), A)
      BY <1>5, <2>1, <2>2, <2>3, <2>4, <2>5, RequestFrameSent
    <2>8. RequestsIn(G, x, Append(c, f), A)
      BY <2>6, <2>7
    <2>9. OldRequests(G, G) /\ SameBytes(Append(c, f), Append(c, f))
      BY HeldOn DEF SameBytes
    <2>10. RequestsIn(G, x, Append(c, f), B) /\ RequestAcks(B, x, received[p])
      BY <2>1, <2>6, <2>8, <2>9, RequestsInKept
    <2>11. x = pendingRequests'[p] /\ received'[p] = received[p]
      BY <1>4 DEF x
    <2>12. QED BY <2>1, <2>6, <2>10, <2>11 DEF RequestFlow, G, B
  <1>16. AnswerFlow(p, e)'
    <2> DEFINE H == HeldBy(p)
               x == pendingResponses[e]
               y == pendingResponses'[e]
               A == AcksOf(e)
               B == AcksOf(e)'
               K == HeldBy(e)
               L == HeldBy(e)'
               no == lastNo[e]
               last == lastNo'[e]
    <2>1. AnswersIn(H, x) /\ AnswerAcks(A, x, no, K)
      BY <1>2 DEF AnswerFlow
    <2>2. no \in Nat /\ last \in Nat /\ no <= last /\ IsPending(y)
      BY <1>6, <1>9 DEF Typed
    <2>3. /\ ~f.more /\ h.about.reply =>
                /\ DOMAIN y = DOMAIN x \cup {f.no}
                /\ \A k \in DOMAIN x : k # f.no /\ y[k] = x[k]
          /\ ~(~f.more /\ h.about.reply) => y = x
      BY SentRequestWaits
    <2>4. \A m \in H : Answer(m) => m.no \in DOMAIN x
      BY <1>8, Zenon DEF Link, AnswersMatch, Expects
    <2>5. K = Others(e) \cup {h} /\ L = Others(e) \cup (IF f.more THEN {n} ELSE {}) /\ FewerAnswerAcks(A, B)
      BY <1>4, <1>10
    <2>6. f.no \notin DOMAIN x
      BY <1>6
    <2>7. h.no = 0 => f.no = no + 1
      BY <1>6
    <2>8. OldAnswers(H, HeldBy(p)')
      BY <1>10
    <2>9. HeldBy(p)' \in SUBSET Messages
      BY <1>2, HeldMessages
    <2> HIDE DEF H, x, y, A, B, K, L, no, last
    <2>10. SameExcept(x, y, f.no)
      BY <2>3 DEF SameExcept
    <2>11. ASSUME NEW a \in A, a.type = "ACKRES" PROVE a.no # f.no
      <3>1. a.no \in 1 .. no /\ h.no # a.no
        BY <2>1, <2>5, <2>11 DEF AnswerAcks
      <3>2. QED BY <1>6, <2>2, <2>7, <3>1
    <2>12. NotAnswered(H, A, f.no)
      BY <2>4, <2>6, <2>11 DEF NotAnswered
    <2>13. AddsOnly(K, L, f.no)
      BY <1>7, <2>5 DEF AddsOnly
    <2>14. AnswersIn(H, y) /\ AnswerAcks(A, y, last, L)
      BY <2>1, <2>2, <2>10, <2>12, <2>13, AnswerIsAwaited
    <2>15. OldNumbers(L, L)
      BY HeldOn
    <2>16. AnswersIn(HeldBy(p)', y) /\ AnswerAcks(B, y, last, L)
      BY <2>2, <2>5, <2>8, <2>9, <2>14, <2>15, AnswersInKept
    <2>17. QED BY <2>16 DEF AnswerFlow, B, y, last, L
  <1>17. QED BY <1>1, <1>11, <1>12, <1>15, <1>16, BothEnds

LEMMA FlowWriteFrame ==
    ASSUME IInv, Typed', Flow, Open, \A x \in Ends : Steady(x), NEW e \in Ends, WriteFrame(e)
    PROVE  Flow'
  <1>0. Typed /\ Windows(e)
    BY DEF IInv, Steady
  <1>1. CASE outbox[e] # << >>
    <2> DEFINE h == Head(outbox[e])
               f == Wrote(e)
               n == Remains(e)
    <2>1. SentFrame(e, h, f, n) /\ FramedAs(f, h, n)
      BY <1>0, <1>1, WriteFrameSends, WriteFrameFrames
    <2>2. h.type \in Types
      <3>1. h \in Messages
        BY <2>1 DEF SentFrame, FrameOf
      <3>2. QED BY <3>1 DEF Messages
    <2>3. h = Head(outbox[e])
      OBVIOUS
    <2> HIDE DEF h, f, n
    <2>4. IsAck(h) \/ h.type = "REQ" \/ Answer(h)
      BY <2>2 DEF Types, IsAck, Answer
    <2>5. QED BY <1>0, <1>1, <2>1, <2>3, <2>4, FlowSentAck, FlowSentRequest, FlowSentAnswer
  <1>2. CASE outbox[e] = << >>
    <2>1. /\ UNCHANGED <<outbox, icebox, mailbox, lastNo, pendingResponses, sock, received, pendingRequests, wire>>
      BY <1>2 DEF WriteFrame, Set
    <2>2. ASSUME NEW x \in Ends PROVE FlowSame(x)
      <3>1. HeldBy(x)' = HeldBy(x) /\ Channel(x)' = Channel(x)
        BY <2>1 DEF HeldBy, Channel
      <3>2. QED BY <3>1, FlowUnchanged
    <2>3. QED BY <1>0, <2>1, <2>2, FlowKept
  <1>3. QED BY <1>1, <1>2

-----------------------------------------------------------------------------
(* A request is pending only if it has been counted, and there are no more *)
(* faults than MaxFaults.                                                  *)
Counted == faults <= MaxFaults /\ \A e \in Ends : DOMAIN pendingRequests[e] \subseteq 1 .. received[e]

LEMMA CountedOnRequest ==
    ASSUME Typed, Counted, NEW e \in Ends, OnRequest(e)
    PROVE  Counted'
  <1> DEFINE f == Frame(e)
             x == pendingRequests[e]
  <1>1. f \in DataFrames /\ (RequestRefused(e) \/ RequestTaken(e))
    BY OnRequestIs
  <1>2. f.no \in Nat \ {0} /\ received[e] \in Nat /\ received \in [Ends -> Nat] /\ DOMAIN pendingRequests = Ends
    BY <1>1 DEF DataFrames, Typed
  <1>3. faults' <= MaxFaults
    <2>1. faults' = faults \/ Fault
      BY DEF OnRequest
    <2>2. faults \in Nat /\ MaxFaults \in Nat
      BY BLIPAssumption DEF Typed
    <2>3. QED BY <2>1, <2>2 DEF Fault, Counted
  <1>4. CASE RequestRefused(e)
    BY <1>3, <1>4 DEF RequestRefused, Counted
  <1>5. CASE RequestTaken(e)
    <2>1. /\ f.no \in DOMAIN x \/ f.no = received[e] + 1
          /\ received' = IF f.no \in DOMAIN x THEN received ELSE [received EXCEPT ![e] = f.no]
      BY <1>5 DEF RequestTaken
    <2>2. PICK y : pendingRequests' = [pendingRequests EXCEPT ![e] = y] /\ DOMAIN y \subseteq DOMAIN x \cup {f.no}
      <3>1. \A z : DOMAIN Keep(x, f, z) \subseteq DOMAIN x \cup {f.no} /\ DOMAIN PutBack(x, f, z) \subseteq DOMAIN x \cup {f.no}
        BY DEF Keep, PutBack, With, Without
      <3>2. \E z : \/ pendingRequests' = [pendingRequests EXCEPT ![e] = Keep(x, f, z)]
                   \/ pendingRequests' = [pendingRequests EXCEPT ![e] = PutBack(x, f, z)]
        BY <1>5 DEF RequestTaken
      <3> HIDE DEF x, f
      <3>3. QED BY <3>1, <3>2
    <2>3. DOMAIN x \subseteq 1 .. received[e]
      BY DEF Counted
    <2> HIDE DEF x, f
    <2>4. DOMAIN y \subseteq 1 .. received'[e]
      <3>1. CASE f.no \in DOMAIN x
        BY <1>2, <2>1, <2>2, <2>3, <3>1
      <3>2. CASE f.no \notin DOMAIN x
        <4>1. f.no = received[e] + 1 /\ received'[e] = f.no
          BY <1>2, <2>1, <3>2
        <4>2. QED BY <1>2, <2>2, <2>3, <4>1
      <3>3. QED BY <3>1, <3>2
    <2>5. \A d \in Ends : d # e => received'[d] = received[d]
      BY <1>2, <2>1
    <2>6. \A d \in Ends : DOMAIN pendingRequests'[d] \subseteq 1 .. received'[d]
      BY <1>2, <2>2, <2>4, <2>5 DEF Counted
    <2>7. QED BY <1>3, <2>6 DEF Counted
  <1>6. QED BY <1>1, <1>4, <1>5

LEMMA CountedStep ==
    ASSUME Typed, Counted, [Next]_vars
    PROVE  Counted'
  <1>0. faults \in Nat /\ MaxFaults \in Nat /\ DOMAIN pendingRequests = Ends
    BY BLIPAssumption DEF Typed
  <1>1. ASSUME UNCHANGED <<received, pendingRequests>>, faults' = faults \/ Fault PROVE Counted'
    BY <1>0, <1>1 DEF Counted, Fault
  <1>2. ASSUME NEW e \in Ends, QueueMessage(e) PROVE Counted'
    BY <1>1, <1>2 DEF QueueMessage
  <1>3. ASSUME NEW e \in Ends, WriteFrame(e) PROVE Counted'
    BY <1>1, <1>3 DEF WriteFrame
  <1>4. ASSUME NEW e \in Ends, WriteComplete(e) \/ OnWriteable(e) PROVE Counted'
    BY <1>1, <1>4, ZenonT(60) DEF WriteComplete, OnWriteable, ends
  <1>5. ASSUME NEW e \in Ends, OnAck(e) PROVE Counted'
    BY <1>1, <1>5 DEF OnAck
  <1>6. ASSUME NEW e \in Ends, OnRequest(e) PROVE Counted'
    BY <1>6, CountedOnRequest, SMTT(40)
  <1>7. ASSUME NEW e \in Ends, OnResponse(e) PROVE Counted'
    BY <1>1, <1>7, ZenonT(60) DEF OnResponse
  <1>8. ASSUME NEW e \in Ends, OnClose(e) PROVE Counted'
    BY <1>1, <1>8 DEF OnClose, ends
  <1>9. ASSUME NEW e \in Ends, Closed(e) \/ Lost(e) PROVE Counted'
    <2>1. pendingRequests' = [pendingRequests EXCEPT ![e] = NothingPending] /\ received' = received
      BY <1>9 DEF Closed, Lost, EndConnection, Set
    <2>2. faults' = faults \/ Fault
      BY <1>9 DEF Closed, Lost
    <2>3. DOMAIN NothingPending = {}
      BY DEF NothingPending
    <2>4. \A d \in Ends : DOMAIN pendingRequests'[d] \subseteq 1 .. received'[d]
      BY <1>0, <2>1, <2>3 DEF Counted
    <2>5. QED BY <1>0, <2>2, <2>4 DEF Counted, Fault
  <1>10. ASSUME NEW e \in Ends, Respond(e) PROVE Counted'
    BY <1>1, <1>10 DEF Respond, ends
  <1>11. ASSUME NEW e \in Ends, Close(e) PROVE Counted'
    BY <1>1, <1>11 DEF Close
  <1>12. ASSUME NEW q \in Requests, SendRequest(q) PROVE Counted'
    BY <1>1, <1>12 DEF SendRequest, ends
  <1>13. ASSUME UNCHANGED vars PROVE Counted'
    BY <1>1, <1>13 DEF vars, ends
  <1>14. QED
    BY <1>2, <1>3, <1>4, <1>5, <1>6, <1>7, <1>8, <1>9, <1>10, <1>11, <1>12, <1>13 DEF Next, System

(* Both ends have been open if they are.                                   *)
LEMMA WasOpen ==
    ASSUME Typed, [Next]_vars, Open'
    PROVE  Open /\ \A e \in Ends : ~Close(e) /\ ~Closed(e) /\ ~Lost(e)
  <1>1. ASSUME NEW e \in Ends, Close(e) \/ Closed(e) \/ Lost(e) PROVE FALSE
    <2>1. state' = [state EXCEPT ![e] = "closing"] \/ state' = [state EXCEPT ![e] = "closed"]
      BY <1>1 DEF Close, Closed, Lost, EndConnection, Set
    <2>2. state'[e] # "open"
      BY <2>1 DEF Typed
    <2>3. QED BY <2>2 DEF Open
  <1>2. ASSUME NEW e \in Ends, CloseWithError(e) PROVE FALSE
    <2>1. state' = [state EXCEPT ![e] = "error"]
      BY <1>2 DEF CloseWithError, Set
    <2>2. state'[e] # "open"
      BY <2>1, SMTT(40) DEF Typed
    <2>3. QED BY <2>2 DEF Open
  <1>3. ASSUME NEW e \in Ends, OnRequest(e) \/ OnResponse(e) PROVE state' = state
    BY <1>2, <1>3, ZenonT(60) DEF OnRequest, OnResponse
  <1>4. ASSUME NEW e \in Ends, QueueMessage(e) \/ WriteFrame(e) \/ WriteComplete(e) \/ OnWriteable(e) \/ OnAck(e)
                               \/ OnClose(e) \/ Respond(e)
        PROVE  state' = state
    BY <1>4 DEF QueueMessage, WriteFrame, WriteComplete, OnWriteable, OnAck, OnClose, Respond, ends
  <1>5. ASSUME NEW q \in Requests, SendRequest(q) PROVE state' = state
    BY <1>5 DEF SendRequest, ends
  <1>6. state' = state
    BY <1>1, <1>3, <1>4, <1>5 DEF Next, System, vars, ends
  <1>7. QED BY <1>1, <1>6 DEF Open

(* Every step keeps what flow control relies on.                           *)
FlowInv == FInv /\ Counted

LEMMA FlowInductive ==
    ASSUME IInv, FlowInv, [Next]_vars
    PROVE  FlowInv'
  <1>0. /\ Typed /\ Typed' /\ IInv' /\ Counted'
        /\ \A x \in Ends : Steady(x)
        /\ Open => Flow
    BY Inductive, CountedStep DEF IInv, FlowInv, FInv, Steady, Flow
  <1> DEFINE Goal == (\A x \in Ends : Steady(x)') /\ (Open' => Flow')
  <1>1. ASSUME NEW e \in Ends, QueueMessage(e) PROVE Goal
    BY <1>0, <1>1, SteadyQueueMessage, FlowQueueMessage, WasOpen DEF Open
  <1>2. ASSUME NEW e \in Ends, WriteFrame(e) PROVE Goal
    BY <1>0, <1>2, SteadyWriteFrame, FlowWriteFrame, WasOpen
  <1>3. ASSUME NEW e \in Ends, WriteComplete(e) \/ OnWriteable(e) PROVE Goal
    BY <1>0, <1>3, SteadySocket, FlowSocket, WasOpen
  <1>4. ASSUME NEW e \in Ends, OnAck(e) PROVE Goal
    BY <1>0, <1>4, SteadyOnAck, FlowOnAck, WasOpen
  <1>5. ASSUME NEW e \in Ends, OnRequest(e) PROVE Goal
    BY <1>0, <1>5, SteadyOnRequest, FlowOnRequest, WasOpen
  <1>6. ASSUME NEW e \in Ends, OnResponse(e) PROVE Goal
    BY <1>0, <1>6, SteadyOnResponse, FlowOnResponse, WasOpen
  <1>7. ASSUME NEW e \in Ends, OnClose(e) PROVE Goal
    BY <1>0, <1>7, SteadyClosing, FlowOnClose, WasOpen
  <1>8. ASSUME NEW e \in Ends, Close(e) \/ Closed(e) \/ Lost(e) PROVE Goal
    BY <1>0, <1>8, SteadyClosing, WasOpen
  <1>9. ASSUME NEW e \in Ends, NEW m, NewMessage(m), ~IsAck(m), Posted(e, m) PROVE Goal
    BY <1>0, <1>9, SteadyPosted, FlowPosted, WasOpen
  <1>10. ASSUME NEW e \in Ends, Respond(e) PROVE Goal
    <2>1. PICK m : NewMessage(m) /\ Answer(m) /\ Posted(e, m)
      BY <1>0, <1>10, RespondPosts
    <2>2. ~IsAck(m)
      BY <2>1 DEF Answer, IsAck
    <2>3. QED BY <1>9, <2>1, <2>2
  <1>11. ASSUME NEW q \in Requests, SendRequest(q) PROVE Goal
    <2>1. PICK m : NewMessage(m) /\ m.type = "REQ" /\ Posted(q.from, m)
      BY <1>0, <1>11, SendRequestPosts
    <2>2. ~IsAck(m) /\ q.from \in Ends
      BY <1>0, <1>11, <2>1, SendRequestPosts DEF IsAck
    <2>3. QED BY <1>9, <2>1, <2>2
  <1>12. ASSUME UNCHANGED vars PROVE Goal
    <2>1. UNCHANGED <<outbox, icebox, writeable, writing, lastNo, received, pendingRequests, pendingResponses, state, mailbox,
                      sock, wire, ready>>
      BY <1>12 DEF vars, ends, net
    <2>2. \A x \in Ends : Steady(x)'
      BY <1>0, <2>1 DEF Steady, Windows, Wakes
    <2>3. ASSUME NEW x \in Ends PROVE FlowSame(x)
      <3>1. HeldBy(x)' = HeldBy(x) /\ Channel(x)' = Channel(x)
        BY <2>1 DEF HeldBy, Channel
      <3>2. QED BY <3>1, FlowUnchanged
    <2>4. ASSUME Open' PROVE Flow'
      <3>1. Flow
        BY <1>0, <2>4, WasOpen
      <3>2. QED BY <1>0, <2>1, <2>3, <3>1, FlowKept
    <2>5. QED BY <2>2, <2>4
  <1> HIDE DEF Goal
  <1>13. Goal
    BY <1>1, <1>2, <1>3, <1>4, <1>5, <1>6, <1>7, <1>8, <1>10, <1>11, <1>12 DEF Next, System
  <1>14. QED BY <1>0, <1>13 DEF Goal, FlowInv, FInv, Steady, Flow

LEMMA NothingFlows ==
    ASSUME Init
    PROVE  FlowInv
  <1>1. /\ \A e \in Ends : outbox[e] = << >> /\ icebox[e] = << >> /\ mailbox[e] = << >> /\ sock[e] = << >> /\ wire[e] = << >>
        /\ \A e \in Ends : writeable[e] /\ pendingRequests[e] = NothingPending
    BY DEF Init
  <1>2. Range(<< >>) = {} /\ << >> \o << >> = << >> /\ DOMAIN NothingPending = {}
    BY DEF Range, NothingPending
  <1>3. \A e \in Ends : HeldBy(e) = {} /\ Channel(e) = << >>
    BY <1>1, <1>2 DEF HeldBy, Channel
  <1>4. \A e \in Ends : Windows(e) /\ Wakes(e)
    BY <1>1, <1>2 DEF Windows, WindowsIn, Wakes
  <1>5. \A e \in Ends : AcksOf(e) = {}
    BY <1>2, <1>3 DEF AcksOf, AcksIn
  <1>6. ASSUME NEW e \in Ends PROVE RequestFlow(e, Peer(e)) /\ AnswerFlow(e, Peer(e))
    <2>1. Peer(e) \in Ends
      BY Peers
    <2>2. QED BY <1>1, <1>2, <1>3, <1>5, <2>1
            DEF RequestFlow, LowPending, RequestsIn, RequestAcks, AnswerFlow, AnswersIn, AnswerAcks
  <1>7. Counted
    <2>1. faults = 0 /\ MaxFaults \in Nat
      BY BLIPAssumption DEF Init
    <2>2. QED BY <1>1, <1>2, <2>1 DEF Counted
  <1>8. QED BY <1>4, <1>6, <1>7 DEF FlowInv, FInv

(* What is under way of a message                                          *)
LEMMA InWindow ==
    ASSUME IInv, FlowInv, Open, NEW e \in Ends, NEW m \in Range(outbox[e]) \cup Range(icebox[e])
    PROVE  Partly(e, m) < MaxUnacked + BigFrame
  <1>1. PICK p : p = Peer(e)
    OBVIOUS
  <1>2. Flow /\ Windows(e) /\ Typed
    BY DEF FlowInv, FInv, Flow, IInv
  <1>3. p \in Ends /\ RequestFlow(e, p) /\ AnswerFlow(e, p)
    BY <1>1, <1>2, BothEnds
  <1>4. m \in HeldBy(e) /\ m \in Messages
    BY <1>2, HeldMessages DEF HeldBy
  <1>5. m.sent \in Nat /\ m.unacked \in Nat /\ m.no \in Nat /\ m.type \in Types
    BY <1>4, MessageFields
  <1>6. MaxUnacked \in Nat \ {0} /\ BigFrame \in Nat
    BY BLIPAssumption
  <1>7. m.unacked < MaxUnacked + BigFrame /\ (m.no = 0 \/ IsAck(m) => m.sent = 0)
    BY <1>2, <1>5, <1>6 DEF Windows, WindowsIn
  <1> DEFINE x == IF m.type = "REQ" THEN pendingRequests[p] ELSE pendingResponses[p]
  <1>8. IsPending(x)
    BY <1>2, <1>3 DEF Typed
  <1>9. Partly(e, m) = m.sent - Raw(x, m.no)
    <2>1. Partly(e, m) = IF m.no \in DOMAIN x THEN m.sent - x[m.no].raw ELSE m.sent
      BY <1>1 DEF Partly
    <2> HIDE DEF x
    <2>2. m.sent = m.sent - 0
      BY <1>5
    <2>3. QED BY <2>1, <2>2 DEF Raw
  <1>10. m.no # 0 /\ ~IsAck(m) => m.sent <= m.unacked + Raw(x, m.no)
    <2>1. CASE m.type = "REQ"
      BY <1>3, <1>4, <2>1 DEF RequestFlow, RequestsIn, RequestIn
    <2>2. CASE m.type # "REQ"
      <3>1. ~IsAck(m) => Answer(m)
        BY <1>5, <2>2 DEF Types, IsAck, Answer
      <3>2. QED BY <1>3, <1>4, <2>2, <3>1 DEF AnswerFlow, AnswersIn
    <2>3. QED BY <2>1, <2>2
  <1>11. Raw(x, m.no) \in Nat
    BY <1>8, RawIs
  <1> HIDE DEF x
  <1>12. PICK r \in Nat : r = Raw(x, m.no)
    BY <1>11
  <1>13. QED BY <1>5, <1>6, <1>7, <1>9, <1>10, <1>12

(* When both ends have nothing more to do, nothing is acknowledged any     *)
(* more, and what remains in an icebox is no request.                      *)
LEMMA IdleAcks ==
    ASSUME IInv, FlowInv, Idle, NEW e \in Ends
    PROVE  outbox[e] = << >> /\ Channel(e) = << >> /\ AcksOf(e) = {}
  <1>1. Windows(e) /\ Wakes(e)
    BY DEF FlowInv, FInv
  <1>2. state[e] = "open" /\ mailbox[e] = << >> /\ sock[e] = << >> /\ wire[e] = << >> /\ ~writing[e] /\ ~ready[e]
    BY DEF Idle
  <1>3. SendBuffer \in Nat /\ Size(<< >>) = 0
    BY BLIPAssumption, SizeIs
  <1>4. outbox[e] = << >>
    BY <1>1, <1>2, <1>3 DEF Wakes
  <1>5. Range(<< >>) = {} /\ << >> \o << >> = << >>
    BY DEF Range
  <1>6. Channel(e) = << >> /\ HeldBy(e) = Range(icebox[e])
    BY <1>2, <1>4, <1>5 DEF Channel, HeldBy
  <1>7. \A m \in Range(icebox[e]) : ~IsAck(m)
    BY <1>1 DEF Windows, WindowsIn
  <1>8. AcksOf(e) = {}
    BY <1>5, <1>6, <1>7 DEF AcksOf, AcksIn
  <1>9. QED BY <1>4, <1>6, <1>8

LEMMA NoRequestFrozen ==
    ASSUME IInv, FlowInv, Idle, NEW e \in Ends, NEW m \in Range(icebox[e])
    PROVE  m.type # "REQ"
  <1> SUFFICES ASSUME m.type = "REQ" PROVE FALSE
    OBVIOUS
  <1>1. PICK p : p = Peer(e)
    OBVIOUS
  <1>2. Flow /\ Windows(e) /\ Typed
    BY DEF FlowInv, FInv, Flow, IInv, Idle, Open
  <1>3. p \in Ends /\ RequestFlow(e, p)
    BY <1>1, <1>2, BothEnds
  <1>4. m \in HeldBy(e) /\ m \in Messages
    BY <1>2, HeldMessages DEF HeldBy
  <1>5. m.no # 0 /\ m.unacked >= MaxUnacked
    BY <1>2 DEF Windows, WindowsIn
  <1> DEFINE x == pendingRequests[p]
  <1>6. AcksOf(p) = {} /\ Channel(e) = << >>
    BY <1>3, IdleAcks
  <1>7. RequestIn(m, x, << >>, {})
    BY <1>3, <1>4, <1>5, <1>6 DEF RequestFlow, RequestsIn
  <1>8. Total(RequestBytes(m.no), << >>) = 0
    BY RequestBytesIs, TotalOfNone
  <1>9. IsPending(x) /\ LowPending(x)
    BY <1>2, <1>3 DEF Typed, RequestFlow
  <1> HIDE DEF x
  <1>10. /\ Raw(x, m.no) + 0 = m.sent
         /\ Raw(x, m.no) + m.unacked <= m.sent + Unacked(x, m.no)
    BY <1>7, <1>8 DEF RequestIn, Acknowledged
  <1>11. Raw(x, m.no) \in Nat /\ Unacked(x, m.no) \in Nat /\ m.sent \in Nat /\ m.unacked \in Nat
    BY <1>4, <1>9, RawIs, MessageFields
  <1>12. MaxUnacked \in Nat \ {0} /\ AckThreshold \in Nat \ {0} /\ AckThreshold <= MaxUnacked
    BY BLIPAssumption
  <1>13. Unacked(x, m.no) < MaxUnacked
    BY <1>9, <1>11, <1>12 DEF LowPending, Unacked
  <1>14. PICK r \in Nat, u \in Nat : r = Raw(x, m.no) /\ u = Unacked(x, m.no)
    BY <1>11
  <1>15. QED BY <1>5, <1>10, <1>11, <1>12, <1>13, <1>14

LEMMA AllTyped ==
    ASSUME IInv, FlowInv
    PROVE  TypeOK
  <1>1. Typed /\ Counted /\ \A e \in Ends : Windows(e) /\ Numbered(e)
    BY DEF IInv, FlowInv, FInv
  <1>2. ASSUME NEW e \in Ends PROVE DOMAIN pendingResponses[e] \subseteq 1 .. lastNo[e]
    <2>1. ASSUME NEW n \in DOMAIN pendingResponses[e] PROVE n \in 1 .. lastNo[e]
      <3>1. n \in Nat \ {0} /\ lastNo[e] \in Nat
        BY <1>1 DEF Typed, IsPending
      <3>2. Held(RequestNo(n), e) + One(n \in DOMAIN pendingResponses[e]) <= One(n <= lastNo[e])
        BY <1>1, <3>1 DEF Numbered
      <3>3. Held(RequestNo(n), e) \in Nat /\ One(n \in DOMAIN pendingResponses[e]) = 1
        BY <1>1, HeldNat DEF One
      <3>4. One(n <= lastNo[e]) # 0
        <4>1. One(n <= lastNo[e]) \in {0, 1}
          BY DEF One
        <4>2. QED BY <3>2, <3>3, <4>1
      <3>5. QED BY <3>1, <3>4 DEF One
    <2>2. QED BY <2>1
  <1>3. ASSUME NEW e \in Ends, NEW i \in DOMAIN outbox[e] PROVE outbox[e][i].type \in Types /\ outbox[e][i].left > 0
    <2>1. outbox[e][i] \in Messages
      BY <1>1, ElementIs DEF Typed
    <2>2. QED BY <2>1, MessageFields
  <1>4. ASSUME NEW e \in Ends, NEW i \in DOMAIN icebox[e]
        PROVE  icebox[e][i].type \in Types \ {"ACKREQ", "ACKRES"} /\ NeedsAck(icebox[e][i])
    <2>1. icebox[e][i] \in Messages /\ icebox[e][i] \in Range(icebox[e])
      BY <1>1, ElementIs DEF Typed, Range
    <2>2. ~IsAck(icebox[e][i]) /\ icebox[e][i].unacked >= MaxUnacked
      BY <1>1, <2>1 DEF Windows, WindowsIn
    <2>3. QED BY <2>1, <2>2, MessageFields DEF IsAck, NeedsAck
  <1>5. ASSUME NEW e \in Ends
        PROVE  /\ {writeable[e], writing[e], ready[e]} \subseteq BOOLEAN
               /\ lastNo[e] \in Nat /\ received[e] \in Nat
               /\ DOMAIN pendingRequests[e] \subseteq 1 .. received[e]
               /\ state[e] \in {"open", "closing", "error", "closed"}
    BY <1>1 DEF Typed, Counted
  <1>6. unsent \subseteq Requests /\ faults \in 0 .. MaxFaults
    BY <1>1, BLIPAssumption DEF Typed, Counted
  <1>7. QED BY <1>2, <1>3, <1>4, <1>5, <1>6 DEF TypeOK

(* The invariant of flow control: a message is frozen just when its window *)
(* is full; who has something to write will be woken; and what a sender    *)
(* does not take for acknowledged is under way, or has arrived and is not  *)
(* acknowledged yet, or its acknowledgement is under way.                  *)
THEOREM FlowInvariant == Spec => [](IInv /\ FlowInv)
  <1>1. Init => IInv /\ FlowInv
    BY NothingAtFirst, NothingFlows
  <1>2. (IInv /\ FlowInv) /\ [Next]_vars => (IInv /\ FlowInv)'
    BY Inductive, FlowInductive
  <1>3. QED BY <1>1, <1>2, PTL DEF Spec

(* writeToWebSocket(), receivedAck() and acknowledge(): what is under way  *)
(* of a message, sent and not received, stays below kMaxUnackedBytes plus  *)
(* one frame; and when both ends have nothing more to do, no request stays *)
(* in an icebox and nothing in an out-box.                                 *)
THEOREM FlowAlwaysControlled == Spec => []FlowIsControlled
  <1>1. ASSUME IInv, FlowInv PROVE FlowIsControlled
    <2>1. TypeOK
      BY <1>1, AllTyped
    <2>2. FlowIsLimited
      <3> SUFFICES ASSUME NEW e \in Ends, NEW box \in {outbox[e], icebox[e]}, NEW i \in DOMAIN box,
                          state["A"] = "open", state["B"] = "open"
                   PROVE  Partly(e, box[i]) < MaxUnacked + BigFrame
        BY DEF FlowIsLimited
      <3>1. Open
        BY DEF Open, Ends
      <3>2. box[i] \in Range(outbox[e]) \cup Range(icebox[e])
        BY DEF Range
      <3>3. QED BY <1>1, <3>1, <3>2, InWindow
    <2>3. NoRequestStalls
      <3> SUFFICES ASSUME Idle, NEW e \in Ends
                   PROVE  outbox[e] = << >> /\ \A i \in DOMAIN icebox[e] : icebox[e][i].type # "REQ"
        BY DEF NoRequestStalls
      <3>1. \A i \in DOMAIN icebox[e] : icebox[e][i] \in Range(icebox[e])
        BY DEF Range
      <3>2. QED BY <1>1, <3>1, IdleAcks, NoRequestFrozen
    <2>4. QED BY <2>1, <2>2, <2>3 DEF FlowIsControlled
  <1>2. IInv /\ FlowInv => FlowIsControlled
    BY <1>1
  <1>3. QED BY <1>2, FlowInvariant, PTL

(* If every reply fits in the window, nothing stays frozen at all.  This   *)
(* is as far as the code goes: the acknowledgement of a longer reply may   *)
(* be taken for one of an acknowledgement with the same number that        *)
(* findMessage() meets first, and then the reply stays frozen.             *)
THEOREM ShortRepliesNeverStall ==
    ASSUME \A q \in Requests : q.response <= MaxUnacked
    PROVE  Spec => []NoStall
  <1>1. ASSUME IInv, FlowInv, Idle, NEW e \in Ends PROVE icebox[e] = << >>
    <2>1. Windows(e) /\ Typed /\ Owned(e) /\ icebox[e] \in Seq(Messages)
      BY <1>1 DEF FlowInv, FInv, IInv, Typed
    <2>2. ASSUME NEW m \in Range(icebox[e]) PROVE FALSE
      <3>1. m \in HeldBy(e) /\ m \in Messages
        BY <2>1, HeldMessages DEF HeldBy
      <3>2. m.sent \in Nat /\ m.unacked \in Nat /\ m.left \in Nat \ {0} /\ m.type \in Types /\ m.about \in Requests
        BY <3>1, MessageFields DEF Messages
      <3>3. ~IsAck(m) /\ m.unacked >= MaxUnacked /\ m.unacked <= m.sent
        BY <2>1 DEF Windows, WindowsIn
      <3>4. m.type # "REQ"
        BY <1>1, NoRequestFrozen
      <3>5. m.sent + m.left = m.about.response
        BY <2>1, <3>1, <3>2, <3>3, <3>4 DEF Owned, Answer, IsAck, Types
      <3>6. m.about.response <= MaxUnacked /\ MaxUnacked \in Nat
        BY <3>2, BLIPAssumption
      <3>7. QED BY <3>2, <3>3, <3>5, <3>6
    <2>3. icebox[e] # << >> => icebox[e][1] \in Range(icebox[e])
      <3>1. icebox[e] # << >> => 1 \in DOMAIN icebox[e]
        BY <2>1
      <3>2. QED BY <3>1 DEF Range
    <2>4. QED BY <2>2, <2>3
  <1>2. IInv /\ FlowInv => NoStall
    BY <1>1, IdleAcks DEF NoStall
  <1>3. QED BY <1>2, FlowInvariant, PTL
=============================================================================
