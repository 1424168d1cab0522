------------------------------- MODULE BLIPIO -------------------------------
(***************************************************************************)
(* BLIP: requests and responses, cut into frames, multiplexed over a       *)
(* WebSocket, with flow control for each message.  Two ends, each with the *)
(* actor BLIPIO and a WebSocket that buffers what it is given to send.     *)
(*                                                                         *)
(* An event of the actor is one step, except that the loop of              *)
(* writeToWebSocket() takes one step per frame (`writing'), because the    *)
(* socket writes meanwhile.  Sizes are counted in units.                   *)
(***************************************************************************)
EXTENDS Naturals, Sequences, FiniteSets, SequencesExt

CONSTANTS Requests,      \* what the clients send, and the type and size of the reply
                         \* that they get: [from, size, urgent, reply, type, response]
          BigFrame, SmallFrame,
          MaxUnacked,    \* kMaxUnackedBytes
          AckThreshold,  \* kIncomingAckThreshold
          SendBuffer,    \* kSendBufferSize
          Damaged,       \* the types of frames that may arrive damaged
          MaxFaults      \* bound on damaged frames, and on connections that are closed

Ends == {"A", "B"}
Peer(e) == IF e = "A" THEN "B" ELSE "A"

ASSUME BLIPAssumption ==
    /\ \A q \in Requests : /\ q.from \in Ends /\ {q.urgent, q.reply} \subseteq BOOLEAN
                           /\ q.type \in {"RES", "ERR"} /\ {q.size, q.response} \subseteq Nat \ {0}
    /\ {SmallFrame, MaxUnacked, AckThreshold} \subseteq Nat \ {0} /\ BigFrame \in Nat /\ BigFrame >= SmallFrame
    /\ AckThreshold <= MaxUnacked
    /\ SendBuffer \in Nat /\ MaxFaults \in Nat
    /\ Damaged \subseteq {"REQ", "RES", "ERR"}

VARIABLES
    \* BLIPIO, at each end:
    outbox, icebox,      \* messages to be sent
    writeable, writing,  \* _writeable; writeToWebSocket() is looping
    lastNo, received,    \* _lastMessageNo, _numRequestsReceived
    pendingRequests, pendingResponses,   \* messages of which frames are yet to come, by number
    state,               \* "open"; "closing", because of a close() or an "error"; "closed"
    mailbox,             \* messages that BLIPIO has been asked to send
    ready,               \* onWebSocketWriteable has been called
    \* The WebSockets and the network:
    sock, wire,          \* frames in the send buffer, and under way, by sender
    \* The clients: requests not sent yet, requests to be answered, and what came of a request
    unsent, inbox, outcome,
    faults

ends == <<outbox, icebox, writeable, writing, lastNo, received, pendingRequests, pendingResponses, state>>
net == <<sock, wire, ready>>
vars == <<ends, mailbox, net, unsent, inbox, outcome, faults>>

Types == {"REQ", "RES", "ERR", "ACKREQ", "ACKRES"}
IsAck(m) == m.type \in {"ACKREQ", "ACKRES"}
(* Message::isResponse(): type() >= kResponseType *)
IsResponse(m) == m.type # "REQ"

MessageOut(type, no, q, urgent, left) ==
    [type |-> type, no |-> no, about |-> q, urgent |-> urgent, left |-> left, sent |-> 0, unacked |-> 0]
NewPending(q) == [about |-> q, raw |-> 0, unacked |-> 0]
NothingPending == [n \in {} |-> 0]
Without(pending, no) == [n \in DOMAIN pending \ {no} |-> pending[n]]
With(pending, no, p) == [n \in DOMAIN pending \cup {no} |-> IF n = no THEN p ELSE pending[n]]

Size(frames) ==
    LET Sum[i \in 0 .. Len(frames)] == IF i = 0 THEN 0 ELSE Sum[i - 1] + frames[i].size
    IN  Sum[Len(frames)]

Init ==
    /\ outbox = [e \in Ends |-> << >>] /\ icebox = [e \in Ends |-> << >>]
    /\ writeable = [e \in Ends |-> TRUE] /\ writing = [e \in Ends |-> FALSE]
    /\ lastNo = [e \in Ends |-> 0] /\ received = [e \in Ends |-> 0]
    /\ pendingRequests = [e \in Ends |-> NothingPending]
    /\ pendingResponses = [e \in Ends |-> NothingPending]
    /\ state = [e \in Ends |-> "open"]
    /\ mailbox = [e \in Ends |-> << >>] /\ ready = [e \in Ends |-> FALSE]
    /\ sock = [e \in Ends |-> << >>] /\ wire = [e \in Ends |-> << >>]
    /\ unsent = Requests /\ inbox = [e \in Ends |-> {}]
    /\ outcome = [q \in Requests |-> << >>]
    /\ faults = 0

Set(f, e, x) == [f EXCEPT ![e] = x]
Fault == faults < MaxFaults /\ faults' = faults + 1

(* disconnected(), of MessageOut and MessageIn: it means something to the  *)
(* one who waits for a reply.                                              *)
Disconnected(out, qs) ==
    [q \in Requests |-> IF q \in qs /\ q.reply THEN Append(out[q], [result |-> "disconnected"]) ELSE out[q]]
OwnRequests(msgs) == {msgs[i].about : i \in {j \in DOMAIN msgs : msgs[j].type = "REQ"}}

-----------------------------------------------------------------------------
(* requeue(): an urgent message goes behind the last urgent one, leaving   *)
(* one regular message between if possible, and never before one that has  *)
(* not begun if it is new itself.                                          *)
Requeue(box, m) ==
    LET n == Len(box)
        stops == {j \in 1 .. n : box[j].urgent \/ (m.sent = 0 /\ box[j].sent = 0)}
        j == IF stops = {} THEN 1 ELSE CHOOSE k \in stops : \A l \in stops : l <= k
        after == IF stops # {} /\ box[j].urgent /\ j < n THEN j + 1 ELSE j
    IN  IF m.urgent /\ n > 1 THEN SubSeq(box, 1, after) \o <<m>> \o SubSeq(box, after + 1, n)
        ELSE Append(box, m)

(* sendRequest(), and respond(): BLIPIO is asked to send *)
SendRequest(q) ==
    /\ q \in unsent
    /\ unsent' = unsent \ {q}
    /\ mailbox' = [mailbox EXCEPT ![q.from] = Append(@, MessageOut("REQ", 0, q, q.urgent, q.size))]
    /\ UNCHANGED <<ends, net, inbox, outcome, faults>>

Respond(e) ==
    \E r \in inbox[e] :
        /\ inbox' = [inbox EXCEPT ![e] = @ \ {r}]
        /\ mailbox' = [mailbox EXCEPT ![e] =
                          Append(@, MessageOut(r.about.type, r.no, r.about, r.about.urgent, r.about.response))]
        /\ UNCHANGED <<ends, net, unsent, outcome, faults>>

(* _queueMessage(): the number of a request is left open, so that one that *)
(* overtakes it can be numbered first.                                     *)
QueueMessage(e) ==
    /\ mailbox[e] # << >> /\ ~writing[e]
    /\ mailbox' = [mailbox EXCEPT ![e] = Tail(@)]
    /\ LET m == Head(mailbox[e])
       IN  IF state[e] \in {"error", "closed"}
           THEN /\ outcome' = Disconnected(outcome, OwnRequests(<<m>>))
                /\ UNCHANGED <<outbox, writing>>
           ELSE /\ outbox' = [outbox EXCEPT ![e] = Requeue(@, m)]
                /\ writing' = Set(writing, e, writeable[e])
                /\ UNCHANGED outcome
    /\ UNCHANGED <<icebox, writeable, lastNo, received, pendingRequests, pendingResponses, state, net, unsent, inbox,
                   faults>>

(* writeToWebSocket(), one round of its loop; nextFrameToSend(); and       *)
(* WebSocketImpl::sendOp(), which refuses what comes after a CLOSE.        *)
BadNeedsAck(m) == m.unacked > MaxUnacked

NeedsAck(m) == m.unacked >= MaxUnacked

FrameSize(m, rest) ==
    LET max == IF m.urgent \/ rest = << >> \/ ~rest[1].urgent THEN BigFrame ELSE SmallFrame
    IN  IF m.left <= max THEN m.left ELSE max

NextFrame(m, rest) ==
    IF IsAck(m) THEN [type |-> m.type, no |-> m.no, about |-> m.about, size |-> 1, more |-> FALSE, count |-> m.left]
    ELSE LET n == FrameSize(m, rest)
         IN  [type |-> m.type, no |-> m.no, about |-> m.about, size |-> n, more |-> m.left > n, count |-> 0]

(* The response to a request is expected once all of the request has been  *)
(* sent.                                                                   *)
BadExpectResponse(pending, m, f) ==
    IF m.type = "REQ" /\ m.about.reply THEN With(pending, m.no, NewPending(m.about)) ELSE pending

ExpectResponse(pending, m, f) ==
    IF ~f.more /\ m.type = "REQ" /\ m.about.reply THEN With(pending, m.no, NewPending(m.about)) ELSE pending

SendOp(e, f) ==
    IF state[e] = "open"
    THEN /\ sock' = [sock EXCEPT ![e] = Append(@, f)]
         /\ writeable' = Set(writeable, e, Size(sock'[e]) <= SendBuffer)
    ELSE writeable' = Set(writeable, e, FALSE) /\ UNCHANGED sock

WriteFrame(e) ==
    /\ writing[e]
    /\ IF outbox[e] = << >>
       THEN writing' = Set(writing, e, FALSE) /\ UNCHANGED <<outbox, icebox, writeable, lastNo, pendingResponses, sock>>
       ELSE LET rest == Tail(outbox[e])
                h == Head(outbox[e])
                m == IF h.no = 0 THEN [h EXCEPT !.no = lastNo[e] + 1] ELSE h
                f == NextFrame(m, rest)
                n == [m EXCEPT !.left = @ - f.size, !.sent = @ + f.size, !.unacked = @ + f.size]
            IN  /\ lastNo' = IF h.no = 0 THEN Set(lastNo, e, m.no) ELSE lastNo
                /\ SendOp(e, f)
                /\ outbox' = Set(outbox, e, IF f.more /\ ~NeedsAck(n) THEN Requeue(rest, n) ELSE rest)
                /\ icebox' = IF f.more /\ NeedsAck(n) THEN Set(icebox, e, Append(icebox[e], n)) ELSE icebox
                /\ pendingResponses' = [pendingResponses EXCEPT ![e] = ExpectResponse(@, m, f)]
                /\ writing' = Set(writing, e, writeable'[e])
    /\ UNCHANGED <<received, pendingRequests, state, mailbox, wire, ready, unsent, inbox, outcome, faults>>

(* WebSocketImpl::onWriteComplete(), and _onWebSocketWriteable() *)
WriteComplete(e) ==
    /\ sock[e] # << >>
    /\ sock' = [sock EXCEPT ![e] = Tail(@)]
    /\ wire' = [wire EXCEPT ![e] = Append(@, Head(sock[e]))]
    /\ ready' = IF Size(sock[e]) > SendBuffer /\ Size(sock'[e]) <= SendBuffer THEN Set(ready, e, TRUE) ELSE ready
    /\ UNCHANGED <<ends, mailbox, unsent, inbox, outcome, faults>>

OnWriteable(e) ==
    /\ ready[e] /\ ~writing[e]
    /\ ready' = Set(ready, e, FALSE)
    /\ writeable' = Set(writeable, e, TRUE)
    /\ writing' = Set(writing, e, TRUE)
    /\ UNCHANGED <<outbox, icebox, lastNo, received, pendingRequests, pendingResponses, state, mailbox, sock, wire,
                   unsent, inbox, outcome, faults>>

-----------------------------------------------------------------------------
(* Closing: _close() and _closeWithError().  Whichever end begins, and     *)
(* also if the connection is just lost, _closed() comes at both ends.      *)
CloseFrame == [type |-> "CLOSE", size |-> 1]

Close(e) ==
    /\ state[e] = "open" /\ ~writing[e]
    /\ Fault
    /\ state' = Set(state, e, "closing")
    /\ sock' = [sock EXCEPT ![e] = Append(@, CloseFrame)]
    /\ UNCHANGED <<outbox, icebox, writeable, writing, lastNo, received, pendingRequests, pendingResponses, mailbox,
                   wire, ready, unsent, inbox, outcome>>

EndConnection(e) ==
    /\ state[e] # "closed" /\ ~writing[e]
    /\ state' = Set(state, e, "closed")
    /\ outbox' = Set(outbox, e, << >>) /\ icebox' = Set(icebox, e, << >>)
    /\ pendingRequests' = Set(pendingRequests, e, NothingPending)
    /\ pendingResponses' = Set(pendingResponses, e, NothingPending)
    /\ outcome' = Disconnected(Disconnected(outcome, OwnRequests(outbox[e] \o icebox[e])),
                               {pendingResponses[e][n].about : n \in DOMAIN pendingResponses[e]})
    /\ sock' = Set(sock, e, << >>) /\ wire' = Set(wire, Peer(e), << >>)
    /\ ready' = Set(ready, e, FALSE)
    /\ UNCHANGED <<writeable, writing, lastNo, received, mailbox, unsent, inbox>>

Closed(e) == (\E x \in Ends : state[x] # "open") /\ EndConnection(e) /\ UNCHANGED faults
Lost(e) == (\A x \in Ends : state[x] = "open") /\ EndConnection(e) /\ Fault

-----------------------------------------------------------------------------
(* The receiving side: _onWebSocketMessages(), one frame.                  *)
Frame(e) == Head(wire[Peer(e)])
Receiving(e, types) ==
    /\ wire[Peer(e)] # << >> /\ ~writing[e] /\ state[e] \in {"open", "closing"}
    /\ Frame(e).type \in types
    /\ wire' = [wire EXCEPT ![Peer(e)] = Tail(@)]

(* MessageOut::receivedAck() *)
ReceivedAck(m, count) ==
    IF count <= m.sent /\ m.sent - count < m.unacked THEN [m EXCEPT !.unacked = m.sent - count] ELSE m

(* findMessage() *)
FindMessage(box, no, isResponse) == {i \in DOMAIN box : box[i].no = no /\ IsResponse(box[i]) = isResponse}
First(s) == CHOOSE i \in s : \A j \in s : i <= j

(* BLIPIO::receivedAck() *)
OnAck(e) ==
    /\ Receiving(e, {"ACKREQ", "ACKRES"})
    /\ LET f == Frame(e)
           out == FindMessage(outbox[e], f.no, f.type = "ACKRES")
           ice == FindMessage(icebox[e], f.no, f.type = "ACKRES")
       IN  IF out # {}
           THEN /\ outbox' = [outbox EXCEPT ![e][First(out)] = ReceivedAck(@, f.count)]
                /\ UNCHANGED <<icebox, writing>>
           ELSE IF ice # {}
           THEN LET i == First(ice)
                    m == ReceivedAck(icebox[e][i], f.count)
                IN  IF NeedsAck(m)
                    THEN icebox' = [icebox EXCEPT ![e][i] = m] /\ UNCHANGED <<outbox, writing>>
                    ELSE /\ icebox' = [icebox EXCEPT ![e] = RemoveAt(@, i)]
                         /\ outbox' = [outbox EXCEPT ![e] = Requeue(@, m)]
                         /\ writing' = Set(writing, e, writeable[e])
           ELSE UNCHANGED <<outbox, icebox, writing>>
    /\ UNCHANGED <<writeable, lastNo, received, pendingRequests, pendingResponses, state, mailbox, sock, ready, unsent,
                   inbox, outcome, faults>>

(* MessageIn::receivedFrame() and acknowledge(): the message, and the      *)
(* acknowledgements it sends.                                              *)
Accept(p, f) ==
    LET n == p.unacked + f.size
    IN  [p EXCEPT !.raw = @ + f.size, !.unacked = IF n >= AckThreshold THEN 0 ELSE n]

BadAcks(p, f, type) ==
    IF p.unacked + f.size > AckThreshold THEN <<MessageOut(type, f.no, p.about, TRUE, p.raw + f.size)>> ELSE << >>

Acks(p, f, type) ==
    IF p.unacked + f.size >= AckThreshold THEN <<MessageOut(type, f.no, p.about, TRUE, p.raw + f.size)>> ELSE << >>

(* _closeWithError() *)
CloseWithError(e) ==
    IF state[e] = "open"
    THEN state' = Set(state, e, "error") /\ sock' = [sock EXCEPT ![e] = Append(@, CloseFrame)]
    ELSE state' = Set(state, e, "error") /\ UNCHANGED sock

(* A message is kept until its last frame has come.                        *)
BadKeep(pending, f, p) ==
    IF f.more /\ f.no \in DOMAIN pending THEN With(pending, f.no, p) ELSE Without(pending, f.no)

Keep(pending, f, p) == IF f.more THEN With(pending, f.no, p) ELSE Without(pending, f.no)

(* A message of which the last frame was damaged is put back, to be        *)
(* cancelled with the others.                                              *)
BadPutBack(pending, f, p) == IF f.more THEN With(pending, f.no, p) ELSE Without(pending, f.no)

PutBack(pending, f, p) ==
    IF f.more \/ f.type \in {"REQ", "RES"} THEN With(pending, f.no, p) ELSE Without(pending, f.no)

(* A frame of a request: pendingRequest(), receivedFrame(), and            *)
(* handleRequestReceived() when it is complete.                            *)
OnRequest(e) ==
    /\ Receiving(e, {"REQ"})
    /\ UNCHANGED <<outbox, icebox, writeable, writing, lastNo, pendingResponses, ready, unsent, outcome>>
    /\ LET f == Frame(e)
           known == f.no \in DOMAIN pendingRequests[e]
           p == IF known THEN pendingRequests[e][f.no] ELSE NewPending(f.about)
           q == Accept(p, f)
       IN  \/ /\ ~known /\ f.no # received[e] + 1
              /\ CloseWithError(e)
              /\ UNCHANGED <<received, pendingRequests, mailbox, inbox, faults>>
           \/ /\ known \/ f.no = received[e] + 1
              /\ received' = IF known THEN received ELSE Set(received, e, f.no)
              /\ mailbox' = [mailbox EXCEPT ![e] = @ \o Acks(p, f, "ACKREQ")]
              /\ \/ /\ pendingRequests' = [pendingRequests EXCEPT ![e] = Keep(@, f, q)]
                    /\ inbox' = IF ~f.more /\ p.about.reply
                                THEN [inbox EXCEPT ![e] = @ \cup {[no |-> f.no, about |-> p.about]}]
                                ELSE inbox
                    /\ UNCHANGED <<state, sock, faults>>
                 \/ /\ "REQ" \in Damaged /\ Fault
                    /\ pendingRequests' = [pendingRequests EXCEPT ![e] = PutBack(@, f, q)]
                    /\ CloseWithError(e)
                    /\ UNCHANGED inbox

(* A frame of a response, which may be an error *)
OnResponse(e) ==
    /\ Receiving(e, {"RES", "ERR"})
    /\ UNCHANGED <<outbox, icebox, writeable, writing, lastNo, received, pendingRequests, ready, unsent, inbox>>
    /\ LET f == Frame(e)
           known == f.no \in DOMAIN pendingResponses[e]
           p == pendingResponses[e][f.no]
           q == Accept(p, f)
       IN  \/ /\ ~known
              /\ CloseWithError(e)
              /\ UNCHANGED <<pendingResponses, mailbox, outcome, faults>>
           \/ /\ known
              /\ mailbox' = [mailbox EXCEPT ![e] = @ \o Acks(p, f, "ACKRES")]
              /\ \/ /\ pendingResponses' = [pendingResponses EXCEPT ![e] = Keep(@, f, q)]
                    /\ outcome' = IF f.more THEN outcome
                                  ELSE [outcome EXCEPT ![p.about] =
                                           Append(@, [result |-> "reply", to |-> f.about, bytes |-> q.raw])]
                    /\ UNCHANGED <<state, sock, faults>>
                 \/ /\ f.type \in Damaged /\ Fault
                    /\ pendingResponses' = [pendingResponses EXCEPT ![e] = PutBack(@, f, q)]
                    /\ CloseWithError(e)
                    /\ UNCHANGED outcome

(* A CLOSE is for the WebSocket (receivedClose).  It echoes it and takes   *)
(* nothing more to send; here frames may still be written until Closed(e), *)
(* which allows more.  After an error frames are no longer looked at.      *)
OnClose(e) ==
    /\ \/ Receiving(e, {"CLOSE"})
       \/ /\ wire[Peer(e)] # << >> /\ state[e] \in {"error", "closed"}
          /\ wire' = [wire EXCEPT ![Peer(e)] = Tail(@)]
    /\ UNCHANGED <<ends, mailbox, sock, ready, unsent, inbox, outcome, faults>>

-----------------------------------------------------------------------------
System ==
    \E e \in Ends :
        \/ QueueMessage(e) \/ WriteFrame(e) \/ WriteComplete(e) \/ OnWriteable(e)
        \/ OnAck(e) \/ OnRequest(e) \/ OnResponse(e) \/ OnClose(e) \/ Closed(e)
        \/ Respond(e)

Next == System \/ (\E q \in Requests : SendRequest(q)) \/ \E e \in Ends : Close(e) \/ Lost(e)

Spec == Init /\ [][Next]_vars

(* The actors and the sockets run when they have something to do, and a    *)
(* request is answered in the end.                                         *)
FairSpec == Spec /\ WF_vars(System)

-----------------------------------------------------------------------------
(* Every variable has its type, and a message is in one place only. *)
TypeOK ==
    /\ \A e \in Ends :
          /\ \A i \in DOMAIN outbox[e] : outbox[e][i].type \in Types /\ outbox[e][i].left > 0
          /\ \A i \in DOMAIN icebox[e] : icebox[e][i].type \in Types \ {"ACKREQ", "ACKRES"}
                                         /\ NeedsAck(icebox[e][i])
          /\ {writeable[e], writing[e], ready[e]} \subseteq BOOLEAN
          /\ lastNo[e] \in Nat /\ received[e] \in Nat
          /\ DOMAIN pendingRequests[e] \subseteq 1 .. received[e]
          /\ DOMAIN pendingResponses[e] \subseteq 1 .. lastNo[e]
          /\ state[e] \in {"open", "closing", "error", "closed"}
    /\ unsent \subseteq Requests /\ faults \in 0 .. MaxFaults

(* Two ends that follow the protocol never take each other for one that    *)
(* does not: with no fault (no damaged frame, no close, no loss of the     *)
(* connection) both stay open, however their frames interleave.            *)
NoProtocolError == faults = 0 => \A e \in Ends : state[e] = "open"

(* What is under way of a message, sent and not received, stays below the  *)
(* limit plus one frame, in both directions.                               *)
Partly(e, m) ==
    LET pending == IF m.type = "REQ" THEN pendingRequests[Peer(e)] ELSE pendingResponses[Peer(e)]
    IN  IF m.no \in DOMAIN pending THEN m.sent - pending[m.no].raw ELSE m.sent
FlowIsLimited ==
    \A e \in Ends : \A box \in {outbox[e], icebox[e]} : \A i \in DOMAIN box :
        state["A"] = "open" /\ state["B"] = "open" => Partly(e, box[i]) < MaxUnacked + BigFrame

(* A request has one outcome at most; a reply is the reply to this         *)
(* request, and whole.                                                     *)
OneOutcome ==
    \A q \in Requests :
        /\ Len(outcome[q]) <= 1
        /\ \A i \in DOMAIN outcome[q] :
              outcome[q][i].result = "reply" => outcome[q][i].to = q /\ outcome[q][i].bytes = q.response

(* When the connection has closed, everyone who waits for a reply has been *)
(* told.                                                                   *)
ClosedSettlesAll ==
    \A q \in Requests \ unsent :
        q.reply /\ state[q.from] = "closed" /\ (\A i \in DOMAIN mailbox[q.from] : mailbox[q.from][i].about # q)
        => outcome[q] # << >>

(* Both ends have nothing more to do: what could go has gone.              *)
Idle ==
    \A e \in Ends : /\ state[e] = "open" /\ mailbox[e] = << >> /\ sock[e] = << >> /\ wire[e] = << >>
                    /\ ~writing[e] /\ ~ready[e]
NoRequestStalls ==
    Idle => \A e \in Ends : outbox[e] = << >> /\ \A i \in DOMAIN icebox[e] : icebox[e][i].type # "REQ"

(* Flow control limits what is under way, and yet no request stays frozen, *)
(* and nothing stays unwritten, when both ends have nothing more to do: no *)
(* acknowledgement of a request is lost, nor a notice that the socket can  *)
(* be written to.                                                          *)
FlowIsControlled == TypeOK /\ FlowIsLimited /\ NoRequestStalls

(* Nor does a reply stay frozen.  Of replies longer than MaxUnacked this   *)
(* is not true in general: receivedAck() may give the acknowledgement of a *)
(* reply to an acknowledgement that is queued.  EveryRequestEnds has it    *)
(* for the replies that it is checked with.                                *)
NoStall == Idle => \A e \in Ends : outbox[e] = << >> /\ icebox[e] = << >>

(* Every request that has been sent comes to an end: urgent messages do    *)
(* not starve it, and flow control does not freeze it for ever.  Not so in *)
(* general where two replies longer than MaxUnacked cross (see NoStall).   *)
EveryRequestEnds ==
    \A q \in Requests : (q.reply /\ q \notin unsent) ~> outcome[q] # << >>
=============================================================================
