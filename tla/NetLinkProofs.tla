---------------------------- MODULE NetLinkProofs ----------------------------
(***************************************************************************)
(* Proofs about the listener, codec and status path model, for every set  *)
(* of clients and frame kinds and every bound allowed by LinkAssumption.  *)
(***************************************************************************)
EXTENDS NetLink, TLAPS

\* Frame n of a client's stream has msg_id n.
SentIds(c) == \A n \in DOMAIN sentLog[c] : sentLog[c][n].id = n

\* What is still unread on a connection is the tail of what the client
\* sent: read() takes everything, and Send appends to both.
InbufTail(c) ==
    /\ Len(inbuf[c]) <= Len(sentLog[c])
    /\ \A k \in DOMAIN inbuf[c] :
         inbuf[c][k] = sentLog[c][Len(sentLog[c]) - Len(inbuf[c]) + k]

\* Every ACK/NAK written to c answers a frame that is no longer unread.
AnsweredBeforeInbuf(c) ==
    \A k \in DOMAIN wire[c] :
      wire[c][k].cls \in {ACK, NAK} => wire[c][k].id <= Len(sentLog[c]) - Len(inbuf[c])

\* RepliesInSendOrder is not inductive: it needs why the next reply on a
\* connection answers a later frame than every earlier one.  The reply
\* answers the head of the unread frames, which are the tail of the stream
\* (InbufTail), and every frame answered so far precedes them
\* (AnsweredBeforeInbuf).
IInv ==
    /\ TypeOK
    /\ \A c \in Clients : SentIds(c) /\ InbufTail(c) /\ AnsweredBeforeInbuf(c)
    /\ RepliesInSendOrder
    /\ RequestAcknowledged

\* RepliesInSendOrder for one connection.
InOrder(c) ==
    \A k, m \in DOMAIN wire[c] :
      /\ wire[c][k].cls \in {ACK, NAK} => wire[c][k].id <= Len(sentLog[c])
      /\ (k < m /\ wire[c][k].cls \in {ACK, NAK} /\ wire[c][m].cls \in {ACK, NAK})
           => wire[c][k].id < wire[c][m].id

-----------------------------------------------------------------------------
LEMMA RepliesOrderByClient ==
    /\ RepliesInSendOrder <=> \A c \in Clients : InOrder(c)
    /\ RepliesInSendOrder' <=> \A c \in Clients : InOrder(c)'
BY DEF RepliesInSendOrder, InOrder

\* The ACK/NAK ids of a sequence of written frames.
AnsIds(w) == {w[k].id : k \in {k \in DOMAIN w : w[k].cls \in {ACK, NAK}}}

LEMMA AnswerIdsDef ==
    ASSUME NEW c
    PROVE  AnswerIds(c) = AnsIds(wire[c])
BY DEF AnswerIds, AnsIds

\* An element of a sequence is in the sequence's element set.
LEMMA SeqElem ==
    ASSUME NEW S, NEW s \in Seq(S), NEW i \in DOMAIN s
    PROVE  s[i] \in S
OBVIOUS

\* Writing a frame adds its id to the answers when it is an ACK or NAK,
\* and nothing otherwise.
LEMMA AnsIdsAppend ==
    ASSUME NEW w \in Seq(Reply), NEW x \in Reply
    PROVE  AnsIds(Append(w, x)) =
             AnsIds(w) \cup (IF x.cls \in {ACK, NAK} THEN {x.id} ELSE {})
<1>1. /\ DOMAIN Append(w, x) = 1..(Len(w) + 1)
      /\ Append(w, x)[Len(w) + 1] = x
      /\ \A k \in 1..Len(w) : Append(w, x)[k] = w[k]
      /\ DOMAIN w = 1..Len(w)
    OBVIOUS
<1>. QED
    BY <1>1 DEF AnsIds

\* A bound below a difference that grows stays a bound.
LEMMA BoundGrows ==
    ASSUME NEW a \in Nat, NEW b \in Nat, NEW x \in Nat, NEW y \in Nat, NEW z \in Nat,
           a <= b - x, b - x <= y - z
    PROVE  a <= y - z
OBVIOUS

\* A step that leaves the streams, the unread frames, the written frames
\* and the requests alone keeps IInv once it keeps the types.
LEMMA DataFrame ==
    ASSUME IInv, TypeOK', UNCHANGED <<inbuf, sentLog, wire, delivered>>
    PROVE  IInv'
<1>1. /\ inbuf' = inbuf /\ sentLog' = sentLog
      /\ wire' = wire /\ delivered' = delivered
    OBVIOUS
<1>2. \A c \in Clients : SentIds(c)' /\ InbufTail(c)' /\ AnsweredBeforeInbuf(c)'
    BY <1>1 DEF IInv, SentIds, InbufTail, AnsweredBeforeInbuf
<1>3. RepliesInSendOrder' /\ RequestAcknowledged'
    BY <1>1 DEF IInv, RepliesInSendOrder, RequestAcknowledged, AnswerIds
<1>. QED
    BY <1>2, <1>3 DEF IInv

-----------------------------------------------------------------------------
LEMMA InitIInv == Init => IInv
<1> SUFFICES ASSUME Init PROVE IInv
    OBVIOUS
<1>1. TypeOK
    BY LinkAssumption DEF Init, TypeOK, Conn
<1>. QED
    BY <1>1 DEF Init, IInv, SentIds, InbufTail, AnsweredBeforeInbuf,
           RepliesInSendOrder, RequestAcknowledged

\* The client-side steps and the connection bookkeeping of the listener.
LEMMA ConnStepsIInv ==
    ASSUME IInv,
           \/ \E c \in Clients : Connect(c) \/ Shutdown(c) \/ Accept(c) \/ DetectClose(c)
           \/ SelectTimeout \/ Crashed \/ UNCHANGED vars
    PROVE  IInv'
<1>1. TypeOK'
    BY DEF IInv, TypeOK, Connect, Shutdown, Accept, onAccept, DetectClose, close,
           SelectTimeout, Crashed, vars, Conn
<1>2. UNCHANGED <<inbuf, sentLog, wire, delivered>>
    BY DEF Connect, Shutdown, Accept, DetectClose, SelectTimeout, Crashed, vars
<1>. QED
    BY <1>1, <1>2, DataFrame

\* A client sends frame h: it goes to the end of both its stream and its
\* unread frames, with the next msg_id.
LEMMA SendIInv ==
    ASSUME IInv, NEW c \in Clients, NEW h \in FrameKinds, Send(c, h)
    PROVE  IInv'
<1> DEFINE L == Len(sentLog[c])
           n == Len(inbuf[c])
           f == [id |-> L + 1, hdr |-> h]
<1>0. /\ sentLog \in [Clients -> Seq(Frame)] /\ inbuf \in [Clients -> Seq(Frame)]
      /\ wire \in [Clients -> Seq(Reply)]
      /\ L < MaxFrames /\ n <= L /\ L \in Nat /\ n \in Nat
      /\ DOMAIN sentLog[c] = 1..L /\ DOMAIN inbuf[c] = 1..n
    BY DEF IInv, TypeOK, Send, InbufTail
<1>1. f \in Frame
    BY <1>0, LinkAssumption DEF Frame, Ids
<1>2. /\ sentLog' = [sentLog EXCEPT ![c] = Append(@, f)]
      /\ inbuf' = [inbuf EXCEPT ![c] = Append(@, f)]
      /\ UNCHANGED <<conn, peerOpen, wire, delivered, socket_, nstatus, crash>>
    BY DEF Send
<1>3. TypeOK'
    BY <1>1, <1>2 DEF IInv, TypeOK
<1>4. ASSUME NEW d \in Clients
      PROVE  SentIds(d)' /\ InbufTail(d)' /\ AnsweredBeforeInbuf(d)'
    <2>1. CASE d = c
        <3>1. /\ Len(sentLog'[c]) = L + 1 /\ Len(inbuf'[c]) = n + 1
              /\ sentLog'[c][L + 1] = f /\ inbuf'[c][n + 1] = f
              /\ \A k \in 1..L : sentLog'[c][k] = sentLog[c][k]
              /\ \A k \in 1..n : inbuf'[c][k] = inbuf[c][k]
              /\ DOMAIN sentLog'[c] = 1..(L + 1) /\ DOMAIN inbuf'[c] = 1..(n + 1)
            BY <1>0, <1>2
        <3>2. SentIds(c)'
            <4>1. ASSUME NEW k \in DOMAIN sentLog'[c] PROVE sentLog'[c][k].id = k
                <5>1. CASE k \in 1..L
                    BY <1>0, <3>1, <5>1 DEF IInv, SentIds
                <5>2. CASE k = L + 1
                    BY <3>1, <5>2
                <5>. QED
                    BY <1>0, <3>1, <4>1, <5>1, <5>2
            <4>. QED
                BY <4>1 DEF SentIds
        <3>3. InbufTail(c)'
            <4>1. ASSUME NEW k \in DOMAIN inbuf'[c]
                  PROVE  inbuf'[c][k] = sentLog'[c][(L + 1) - (n + 1) + k]
                <5>1. CASE k \in 1..n
                    <6>0. InbufTail(c)
                        BY DEF IInv
                    <6>1. inbuf[c][k] = sentLog[c][L - n + k] /\ L - n + k \in 1..L
                        BY <1>0, <5>1, <6>0 DEF InbufTail
                    <6>. QED
                        BY <1>0, <3>1, <5>1, <6>1
                <5>2. CASE k = n + 1
                    BY <1>0, <3>1, <5>2
                <5>. QED
                    BY <1>0, <3>1, <4>1, <5>1, <5>2
            <4>. QED
                BY <1>0, <3>1, <4>1 DEF InbufTail
        <3>4. AnsweredBeforeInbuf(c)'
            BY <1>0, <1>2, <3>1 DEF IInv, AnsweredBeforeInbuf
        <3>. QED
            BY <2>1, <3>2, <3>3, <3>4
    <2>2. CASE d # c
        <3>1. sentLog'[d] = sentLog[d] /\ inbuf'[d] = inbuf[d] /\ wire'[d] = wire[d]
            BY <1>0, <1>2, <2>2
        <3>. QED
            BY <3>1 DEF IInv, SentIds, InbufTail, AnsweredBeforeInbuf
    <2>. QED
        BY <2>1, <2>2
<1>5. RepliesInSendOrder'
    <2>1. \A d \in Clients : Len(sentLog[d]) <= Len(sentLog'[d])
        BY <1>0, <1>2
    <2>2. wire' = wire
        BY <1>2
    <2>3. ASSUME NEW d \in Clients, NEW k \in DOMAIN wire[d]
          PROVE  wire[d][k].cls \in {ACK, NAK} => wire[d][k].id <= Len(sentLog'[d])
        <3>1. wire[d][k].cls \in {ACK, NAK} => wire[d][k].id <= Len(sentLog[d])
            BY Zenon DEF IInv, RepliesInSendOrder
        <3>2. wire[d] \in Seq(Reply) /\ sentLog[d] \in Seq(Frame)
            BY <1>0, <2>3
        <3>3. wire[d][k] \in Reply
            BY <2>3, <3>2
        <3>4. wire[d][k].id \in Nat /\ Len(sentLog[d]) \in Nat
            BY <3>2, <3>3, LinkAssumption DEF Reply, Ids
        <3>. QED
            BY <2>1, <2>3, <3>1, <3>4
    <2>. QED
        BY <2>2, <2>3 DEF IInv, RepliesInSendOrder
<1>6. RequestAcknowledged'
    BY <1>2 DEF IInv, RequestAcknowledged, AnswerIds
<1>. QED
    BY <1>3, <1>4, <1>5, <1>6 DEF IInv

\* onRead: the listener reads everything unread on c and answers its
\* first frame, which is the earliest frame of c's stream not yet
\* answered; the request goes on only if the reply was written.
LEMMA ReadIInv ==
    ASSUME IInv, NEW c \in Clients, Read(c)
    PROVE  IInv'
<1> DEFINE L == Len(sentLog[c])
           n == Len(inbuf[c])
           f == Head(inbuf[c])
           r == HandleReply(c, f)
<1>0. /\ sentLog \in [Clients -> Seq(Frame)] /\ inbuf \in [Clients -> Seq(Frame)]
      /\ wire \in [Clients -> Seq(Reply)]
      /\ delivered \in Seq([origin : Clients, id : Ids])
      /\ L \in Nat /\ n \in Nat /\ 1 <= n /\ n <= L
    BY DEF IInv, TypeOK, Read, InbufTail
<1>1. /\ f = sentLog[c][L - n + 1] /\ f.id = L - n + 1 /\ L - n + 1 \in 1..L
      /\ f \in Frame
    <2>1. f = inbuf[c][1]
        BY <1>0
    <2>2. InbufTail(c) /\ SentIds(c)
        BY DEF IInv
    <2>3. f = sentLog[c][L - n + 1] /\ L - n + 1 \in 1..L
        BY <1>0, <2>1, <2>2 DEF InbufTail
    <2>. QED
        BY <1>0, <2>2, <2>3 DEF SentIds
<1>2. /\ r \in Reply /\ r.cls \in {ACK, NAK} /\ r.id = L - n + 1 /\ r.rx = c
    BY <1>1 DEF HandleReply, ReplyClass, Reply, ACK, NAK, Frame
<1>3. /\ inbuf' = [inbuf EXCEPT ![c] = <<>>]
      /\ UNCHANGED <<conn, peerOpen, sentLog, socket_, nstatus, crash>>
      /\ \/ /\ wire' = [wire EXCEPT ![c] = Append(@, r)]
            /\ delivered' = input_data_consumer(c, f)
         \/ UNCHANGED <<wire, delivered>>
    BY DEF Read, read, WriteOutcomes
\* Frames answered before this step, and the one answered now, all
\* precede what is left unread afterwards.
<1>4. \A d \in Clients : SentIds(d)' /\ InbufTail(d)'
    BY <1>0, <1>3 DEF IInv, SentIds, InbufTail
<1>5. CASE UNCHANGED <<wire, delivered>>
    <2>1. TypeOK'
        BY <1>0, <1>3, <1>5 DEF IInv, TypeOK
    <2>2. \A d \in Clients : AnsweredBeforeInbuf(d)'
        <3>1. ASSUME NEW d \in Clients PROVE AnsweredBeforeInbuf(d)'
            <4>1. AnsweredBeforeInbuf(d)
                BY DEF IInv
            <4>2. Len(inbuf[d]) \in Nat /\ Len(sentLog[d]) \in Nat
                BY <1>0, <3>1
            <4>3. Len(sentLog[d]) - Len(inbuf[d]) <= Len(sentLog'[d]) - Len(inbuf'[d])
                BY <1>0, <1>3, <3>1, <4>2
            <4>4. ASSUME NEW k \in DOMAIN wire[d], wire[d][k].cls \in {ACK, NAK}
                  PROVE  wire[d][k].id <= Len(sentLog'[d]) - Len(inbuf'[d])
                <5>1. wire[d][k] \in Reply
                    BY <1>0, <3>1, <4>4
                <5>2. wire[d][k].id \in Nat
                    BY <5>1, LinkAssumption DEF Reply, Ids
                <5>3. wire[d][k].id <= Len(sentLog[d]) - Len(inbuf[d])
                    BY <4>1, <4>4 DEF AnsweredBeforeInbuf
                <5>4. Len(sentLog'[d]) \in Nat /\ Len(inbuf'[d]) \in Nat
                    BY <1>0, <1>3, <3>1
                <5>. QED
                    BY <4>2, <4>3, <5>2, <5>3, <5>4, BoundGrows
            <4>. QED
                BY <1>5, <4>4 DEF AnsweredBeforeInbuf
        <3>. QED
            BY <3>1
    <2>3. RepliesInSendOrder' /\ RequestAcknowledged'
        BY <1>3, <1>5 DEF IInv, RepliesInSendOrder, RequestAcknowledged, AnswerIds
    <2>. QED
        BY <1>4, <2>1, <2>2, <2>3 DEF IInv
<1>6. CASE /\ wire' = [wire EXCEPT ![c] = Append(@, r)]
           /\ delivered' = input_data_consumer(c, f)
    <2>1. /\ wire'[c] = Append(wire[c], r)
          /\ \A d \in Clients \ {c} : wire'[d] = wire[d]
          /\ \A d \in Clients \ {c} : inbuf'[d] = inbuf[d]
          /\ inbuf'[c] = <<>>
        BY <1>0, <1>3, <1>6
    <2>2. \/ delivered' = Append(delivered, [origin |-> c, id |-> L - n + 1])
          \/ delivered' = delivered
        BY <1>1, <1>6 DEF input_data_consumer
    <2>3. TypeOK'
        <3>1. wire' \in [Clients -> Seq(Reply)]
            BY <1>0, <1>2, <1>6
        <3>2. delivered' \in Seq([origin : Clients, id : Ids])
            <4>1. [origin |-> c, id |-> L - n + 1] \in [origin : Clients, id : Ids]
                BY <1>1 DEF Frame
            <4>2. Append(delivered, [origin |-> c, id |-> L - n + 1])
                    \in Seq([origin : Clients, id : Ids])
                BY <1>0, <4>1
            <4>. QED
                BY <1>0, <2>2, <4>2
        <3>3. inbuf' \in [Clients -> Seq(Frame)]
            BY <1>0, <1>3
        <3>. QED
            BY <1>3, <3>1, <3>2, <3>3 DEF IInv, TypeOK
    <2>4. AnsIds(wire'[c]) = AnsIds(wire[c]) \cup {L - n + 1}
        BY <1>0, <1>2, <2>1, AnsIdsAppend
    <2>5. \A d \in Clients : AnsIds(wire[d]) \subseteq AnsIds(wire'[d])
        BY <2>1, <2>4
    <2>6. ASSUME NEW d \in Clients
          PROVE  AnsweredBeforeInbuf(d)' /\ InOrder(d)'
        <3>1. CASE d # c
            <4>1. wire'[d] = wire[d] /\ inbuf'[d] = inbuf[d] /\ sentLog' = sentLog
                BY <1>3, <2>1, <3>1
            <4>2. AnsweredBeforeInbuf(d) /\ InOrder(d)
                BY RepliesOrderByClient DEF IInv
            <4>. QED
                BY <4>1, <4>2 DEF AnsweredBeforeInbuf, InOrder
        <3>2. CASE d = c
            <4> DEFINE W == wire[c]
            <4>1. /\ W \in Seq(Reply) /\ Len(W) \in Nat
                  /\ DOMAIN wire'[c] = 1..(Len(W) + 1)
                  /\ wire'[c][Len(W) + 1] = r
                  /\ \A k \in 1..Len(W) : wire'[c][k] = W[k]
                  /\ DOMAIN W = 1..Len(W)
                  /\ Len(sentLog'[c]) - Len(inbuf'[c]) = L
                BY <1>0, <1>3, <2>1
            <4>2. AnsweredBeforeInbuf(c) /\ InOrder(c)
                BY RepliesOrderByClient DEF IInv
            \* Every earlier answer is below the frame answered now.
            <4>3. ASSUME NEW k \in 1..Len(W), W[k].cls \in {ACK, NAK}
                  PROVE  W[k].id \in Nat /\ W[k].id <= L - n
                <5>1. W[k] \in Reply
                    BY <4>1, <4>3
                <5>2. W[k].id \in Nat
                    BY <5>1, LinkAssumption DEF Reply, Ids
                <5>3. k \in DOMAIN wire[c]
                    BY <4>1
                <5>4. W[k].id <= Len(sentLog[c]) - Len(inbuf[c])
                    BY <4>2, <4>3, <5>3 DEF AnsweredBeforeInbuf
                <5>. QED
                    BY <5>2, <5>4
            <4>6. ASSUME NEW k \in DOMAIN wire'[c], wire'[c][k].cls \in {ACK, NAK}
                  PROVE  wire'[c][k].id <= L
                <5>1. CASE k \in 1..Len(W)
                    BY <1>0, <4>1, <4>3, <4>6, <5>1
                <5>2. CASE k = Len(W) + 1
                    BY <1>0, <1>2, <4>1, <5>2
                <5>. QED
                    BY <4>1, <4>6, <5>1, <5>2
            <4>4. AnsweredBeforeInbuf(c)'
                BY <4>1, <4>6, <3>2 DEF AnsweredBeforeInbuf
            <4>5. InOrder(c)'
                <5>1. ASSUME NEW k \in DOMAIN wire'[c], NEW m \in DOMAIN wire'[c],
                             wire'[c][k].cls \in {ACK, NAK}
                      PROVE  /\ wire'[c][k].id <= Len(sentLog'[c])
                             /\ (k < m /\ wire'[c][m].cls \in {ACK, NAK})
                                  => wire'[c][k].id < wire'[c][m].id
                    <6>1. wire'[c][k].id <= L
                        BY <4>6, <5>1
                    <6>2. Len(sentLog'[c]) = L
                        BY <1>3
                    <6>3. ASSUME k < m, wire'[c][m].cls \in {ACK, NAK}
                          PROVE  wire'[c][k].id < wire'[c][m].id
                        <7>1. CASE m \in 1..Len(W)
                            <8>1. k \in 1..Len(W)
                                BY <4>1, <5>1, <6>3, <7>1
                            <8>. QED
                                BY <4>1, <4>2, <5>1, <6>3, <7>1, <8>1 DEF InOrder
                        <7>2. CASE m = Len(W) + 1
                            <8>1. k \in 1..Len(W)
                                BY <4>1, <5>1, <6>3, <7>2
                            <8>. QED
                                BY <1>0, <1>2, <4>1, <4>3, <5>1, <6>3, <7>2, <8>1
                        <7>. QED
                            BY <4>1, <5>1, <7>1, <7>2
                    <6>. QED
                        BY <6>1, <6>2, <6>3
                <5>. QED
                    BY <5>1 DEF InOrder
            <4>. QED
                BY <3>2, <4>4, <4>5
        <3>. QED
            BY <3>1, <3>2
    <2>7. RequestAcknowledged'
        <3>1. ASSUME NEW j \in DOMAIN delivered'
              PROVE  delivered'[j].id \in AnsIds(wire'[delivered'[j].origin])
            <4>1. CASE delivered' = delivered
                <5>1. delivered[j].id \in AnsIds(wire[delivered[j].origin])
                    BY <3>1, <4>1, AnswerIdsDef DEF IInv, RequestAcknowledged
                <5>0. j \in DOMAIN delivered
                    BY <3>1, <4>1
                <5>2. delivered[j] \in [origin : Clients, id : Ids]
                    BY <1>0, <5>0, SeqElem
                <5>3. AnsIds(wire[delivered[j].origin]) \subseteq AnsIds(wire'[delivered[j].origin])
                    BY <2>5, <5>2
                <5>. QED
                    BY <4>1, <5>1, <5>3
            <4>2. CASE delivered' = Append(delivered, [origin |-> c, id |-> L - n + 1])
                <5>1. /\ DOMAIN delivered' = 1..(Len(delivered) + 1)
                      /\ delivered'[Len(delivered) + 1] = [origin |-> c, id |-> L - n + 1]
                      /\ \A i \in 1..Len(delivered) : delivered'[i] = delivered[i]
                      /\ DOMAIN delivered = 1..Len(delivered)
                    BY <1>0, <4>2
                <5>2. CASE j \in 1..Len(delivered)
                    <6>1. delivered[j].id \in AnsIds(wire[delivered[j].origin])
                        BY <5>1, <5>2, AnswerIdsDef DEF IInv, RequestAcknowledged
                    <6>2. delivered[j] \in [origin : Clients, id : Ids]
                        BY <1>0, <5>1, <5>2, SeqElem
                    <6>3. delivered'[j] = delivered[j]
                        BY <5>1, <5>2
                    <6>4. AnsIds(wire[delivered[j].origin]) \subseteq AnsIds(wire'[delivered[j].origin])
                        BY <2>5, <6>2
                    <6>. QED
                        BY <6>1, <6>3, <6>4
                <5>3. CASE j = Len(delivered) + 1
                    <6>0. delivered'[j] = [origin |-> c, id |-> L - n + 1]
                        BY <5>1, <5>3, Zenon
                    <6>1. delivered'[j].origin = c /\ delivered'[j].id = L - n + 1
                        BY <6>0
                    <6>. QED
                        BY <2>4, <6>1
                <5>. QED
                    BY <3>1, <5>1, <5>2, <5>3
            <4>. QED
                BY <2>2, <4>1, <4>2
        <3>. QED
            BY <3>1 DEF RequestAcknowledged, AnswerIds, AnsIds
    <2>. QED
        BY <1>4, <2>3, <2>6, <2>7, RepliesOrderByClient DEF IInv
<1>. QED
    BY <1>3, <1>5, <1>6

\* The process thread forwards a request to the monitor: it either dies
\* (socket_ gone, or the write throws) or writes a STATUS frame, which is
\* no answer and so leaves the answered ids and their order alone.
LEMMA XmitIInv ==
    ASSUME IInv, NEW j \in DOMAIN delivered, xmit(j)
    PROVE  IInv'
<1> DEFINE x == [cls |-> STATUS, rx |-> delivered[j].origin, id |-> delivered[j].id]
<1>0. /\ wire \in [Clients -> Seq(Reply)]
      /\ delivered \in Seq([origin : Clients, id : Ids])
      /\ delivered[j] \in [origin : Clients, id : Ids]
      /\ nstatus \in 0..MaxStatus
    BY SeqElem DEF IInv, TypeOK
<1>1. x \in Reply /\ x.cls \notin {ACK, NAK}
    BY <1>0 DEF Reply, STATUS, ACK, NAK, MSG_CTRL, OP_ACK, OP_NAK
<1>2. /\ UNCHANGED <<conn, peerOpen, inbuf, sentLog, delivered, socket_>>
      /\ nstatus' \in 0..MaxStatus
      /\ crash' \in {"none", "nullptr", "throw"}
    <2>1. UNCHANGED <<conn, peerOpen, inbuf, sentLog, delivered, socket_>>
        BY DEF xmit
    <2>2. nstatus' \in 0..MaxStatus
        BY <1>0, LinkAssumption DEF xmit
    <2>3. crash' \in {"none", "nullptr", "throw"}
        <3>1. crash = "none"
            BY DEF xmit, Alive
        <3>2. CASE socket_ = NoSocket \/ conn[socket_] # "open"
            BY <3>2 DEF xmit
        <3>3. CASE ~(socket_ = NoSocket \/ conn[socket_] # "open")
            <4>1. \E w \in WriteOutcomes(socket_) :
                    IF w = "sent" THEN crash' = crash ELSE crash' = "throw"
                BY <3>3 DEF xmit
            <4>. QED
                BY <3>1, <4>1
        <3>. QED
            BY <3>2, <3>3
    <2>. QED
        BY <2>1, <2>2, <2>3
<1>9. \/ UNCHANGED wire
      \/ /\ socket_ \in Clients
         /\ wire' = [wire EXCEPT ![socket_] = Append(@, x)]
    BY DEF xmit, IInv, TypeOK
<1>3. CASE UNCHANGED wire
    <2>1. TypeOK'
        BY <1>2, <1>3 DEF IInv, TypeOK
    <2>. QED
        BY <1>2, <1>3, <2>1, DataFrame
<1>4. CASE /\ socket_ \in Clients
           /\ wire' = [wire EXCEPT ![socket_] = Append(@, x)]
    <2> DEFINE s == socket_
               W == wire[s]
    <2>1. /\ W \in Seq(Reply) /\ Len(W) \in Nat
          /\ wire'[s] = Append(W, x)
          /\ DOMAIN wire'[s] = 1..(Len(W) + 1)
          /\ wire'[s][Len(W) + 1] = x
          /\ \A k \in 1..Len(W) : wire'[s][k] = W[k]
          /\ DOMAIN W = 1..Len(W)
          /\ \A d \in Clients \ {s} : wire'[d] = wire[d]
        BY <1>0, <1>4
    <2>2. TypeOK'
        <3>1. wire' \in [Clients -> Seq(Reply)]
            BY <1>0, <1>1, <1>4
        <3>. QED
            BY <1>2, <3>1 DEF IInv, TypeOK
    <2>3. \A d \in Clients : AnsIds(wire'[d]) = AnsIds(wire[d])
        <3>1. AnsIds(wire'[s]) = AnsIds(W)
            BY <1>1, <2>1, AnsIdsAppend
        <3>. QED
            BY <2>1, <3>1
    \* The new frame is the only new position, and it is no answer.
    <2>4. ASSUME NEW d \in Clients
          PROVE  AnsweredBeforeInbuf(d)' /\ InOrder(d)'
        <3>0. AnsweredBeforeInbuf(d) /\ InOrder(d)
            BY RepliesOrderByClient DEF IInv
        <3>1. CASE d # s
            BY <1>2, <2>1, <3>0, <3>1 DEF AnsweredBeforeInbuf, InOrder
        <3>2. CASE d = s
            <4>1. ASSUME NEW k \in DOMAIN wire'[s], wire'[s][k].cls \in {ACK, NAK}
                  PROVE  k \in DOMAIN W /\ wire'[s][k] = W[k]
                BY <1>1, <2>1, <4>1
            <4>2. AnsweredBeforeInbuf(s)'
                BY <1>2, <3>0, <3>2, <4>1 DEF AnsweredBeforeInbuf
            <4>3. InOrder(s)'
                <5>1. ASSUME NEW k \in DOMAIN wire'[s], NEW m \in DOMAIN wire'[s],
                             wire'[s][k].cls \in {ACK, NAK}
                      PROVE  /\ wire'[s][k].id <= Len(sentLog'[s])
                             /\ (k < m /\ wire'[s][m].cls \in {ACK, NAK})
                                  => wire'[s][k].id < wire'[s][m].id
                    <6>1. k \in DOMAIN W /\ wire'[s][k] = W[k]
                        BY <4>1, <5>1
                    <6>2. wire'[s][k].id <= Len(sentLog'[s])
                        BY <1>2, <3>0, <3>2, <5>1, <6>1 DEF InOrder
                    <6>3. ASSUME k < m, wire'[s][m].cls \in {ACK, NAK}
                          PROVE  wire'[s][k].id < wire'[s][m].id
                        <7>1. m \in DOMAIN W /\ wire'[s][m] = W[m]
                            BY <4>1, <5>1, <6>3
                        <7>. QED
                            BY <3>0, <3>2, <5>1, <6>1, <6>3, <7>1 DEF InOrder
                    <6>. QED
                        BY <6>2, <6>3
                <5>. QED
                    BY <1>2, <5>1 DEF InOrder
            <4>. QED
                BY <1>2, <3>2, <4>2, <4>3
        <3>. QED
            BY <3>1, <3>2
    <2>5. RequestAcknowledged'
        <3>1. ASSUME NEW i \in DOMAIN delivered
              PROVE  delivered[i].id \in AnsIds(wire'[delivered[i].origin])
            <4>1. delivered[i] \in [origin : Clients, id : Ids]
                BY <1>0, SeqElem
            <4>2. delivered[i].id \in AnsIds(wire[delivered[i].origin])
                BY AnswerIdsDef DEF IInv, RequestAcknowledged
            <4>. QED
                BY <2>3, <4>1, <4>2
        <3>. QED
            BY <1>2, <3>1 DEF RequestAcknowledged, AnswerIds, AnsIds
    <2>6. \A d \in Clients : SentIds(d)' /\ InbufTail(d)'
        BY <1>2 DEF IInv, SentIds, InbufTail
    <2>. QED
        BY <2>2, <2>4, <2>5, <2>6, RepliesOrderByClient DEF IInv
<1>. QED
    BY <1>3, <1>4, <1>9


-----------------------------------------------------------------------------
\* Every step of the controller and its clients keeps IInv.
LEMMA NextIInv == IInv /\ [Next]_vars => IInv'
<1> SUFFICES ASSUME IInv, [Next]_vars PROVE IInv'
    OBVIOUS
<1>1. CASE ClientStep
    <2>1. CASE \E c \in Clients : Connect(c) \/ Shutdown(c)
        BY <2>1, ConnStepsIInv
    <2>2. CASE \E c \in Clients, h \in FrameKinds : Send(c, h)
        BY <2>2, SendIInv
    <2>. QED
        BY <1>1, <2>1, <2>2 DEF ClientStep
<1>2. CASE \E c \in Clients : ListenerStep(c)
    <2>1. CASE \E c \in Clients : Accept(c) \/ DetectClose(c)
        BY <2>1, ConnStepsIInv
    <2>2. CASE \E c \in Clients : Read(c)
        BY <2>2, ReadIInv
    <2>. QED
        BY <1>2, <2>1, <2>2 DEF ListenerStep
<1>3. CASE SelectTimeout \/ Crashed \/ UNCHANGED vars
    BY <1>3, ConnStepsIInv
<1>4. CASE \E j \in DOMAIN delivered : xmit(j)
    BY <1>4, XmitIInv
<1>. QED
    BY <1>1, <1>2, <1>3, <1>4 DEF Next

-----------------------------------------------------------------------------
\* Every reachable state is well typed: in particular each written frame
\* is an ACK, NAK or STATUS for a client with an id the client sent, and
\* nstatus never passes its bound (NetLink's TypeOK).
THEOREM TypeCorrect == Spec => []TypeOK
<1>1. IInv => TypeOK
    BY DEF IInv
<1>. QED
    BY InitIInv, NextIInv, <1>1, PTL DEF Spec

\* handle() answers the frames of a connection at most once each, in the
\* order the client sent them, and only frames it did send, however the
\* listener's reads, failed writes, shutdowns and the process thread's
\* STATUS writes interleave (RepliesInSendOrder).
THEOREM RepliesOrdered == Spec => []RepliesInSendOrder
<1>1. IInv => RepliesInSendOrder
    BY DEF IInv
<1>. QED
    BY InitIInv, NextIInv, <1>1, PTL DEF Spec

\* onRead hands a request to the process thread only after handle() has
\* written the ACK or NAK for its frame (RequestAcknowledged).
THEOREM RequestsAcknowledged == Spec => []RequestAcknowledged
<1>1. IInv => RequestAcknowledged
    BY DEF IInv
<1>. QED
    BY InitIInv, NextIInv, <1>1, PTL DEF Spec

=============================================================================
