------------------------------ MODULE NetLink ------------------------------
(***************************************************************************)
(* The controller's network side: the select() loop of                     *)
(* TransportSocket::listen, whose onAccept and onRead callbacks            *)
(* (NetProtocol::run) remember the accepted socket in socket_ and pass a   *)
(* read packet to MsgProtocol::handle, which answers ACK or NAK on the     *)
(* reading socket and hands the parsed request to                          *)
(* ElevatorCtrl::input_data_consumer; and the status path, on which        *)
(* goToFloor's emitNewData reaches NetProtocol::input_data_consumer and    *)
(* MsgProtocol::xmit writes on socket_.                                    *)
(*                                                                         *)
(* The listener's callbacks run under std::async, but the future is a      *)
(* temporary destroyed at the end of the statement, whose destructor       *)
(* waits: each callback runs to completion inside the loop, so one fd's    *)
(* handling is one action.  An exception escaping a callback is stored in  *)
(* that future and dropped.  xmit runs on the controller's process         *)
(* thread, concurrently with the listener.                                 *)
(*                                                                         *)
(* A frame is abstracted to its header fields that handle() and            *)
(* header_check() look at, its command byte, and the position (msg_id) it  *)
(* has in its client's stream.  The clients are the environment.          *)
(***************************************************************************)
EXTENDS Naturals, Sequences

CONSTANTS
    Clients,     \* the peer nodes that connect to the controller
    FrameKinds,  \* the frame headers the clients may send
    MaxFrames,   \* frames each client sends at most
    MaxStatus,   \* status updates the controller emits at most
    NoSocket     \* socket_ before any accept: an empty weak_ptr

\* Wire constants of MsgProtocol (NetProtocol.h) and Request::Command.
MagicValue == 14   \* 0x0E
MSG_CTRL   == 1
MSG_DATA   == 2
OP_NAK     == 128  \* 10xxxxxx
OP_ACK     == 192  \* 11xxxxxx
FrameLen   == 23   \* header (10) + payload (11) + crc (2)
CALL       == 1
GO         == 2

\* The header fields a frame can carry: the right value, or a wrong one.
Header == [magic : {MagicValue, 0}, cls : {MSG_DATA, MSG_CTRL},
           len : {FrameLen, 0}, cmd : {CALL, GO, 3}]

ASSUME LinkAssumption ==
    /\ FrameKinds \subseteq Header /\ FrameKinds # {}
    /\ MaxFrames \in Nat \ {0}
    /\ MaxStatus \in Nat
    /\ NoSocket \notin Clients

Ids    == 1..MaxFrames
Frame  == [id : Ids, hdr : Header]
\* msg_class of what the controller writes: OP bits OR MSG_CTRL for
\* replies (disjoint bit fields, so | is +), 0x02 for a status update.
ACK    == MSG_CTRL + OP_ACK
NAK    == MSG_CTRL + OP_NAK
STATUS == 2
\* A frame the controller writes: its class, its rx_node_addr and msg_id.
Reply  == [cls : {ACK, NAK, STATUS}, rx : Clients, id : Ids]
Conn   == {"idle", "pending", "open", "closed"}

VARIABLES
    conn,       \* listener's view of each client: in backlog, in _clientSockets, erased
    peerOpen,   \* the client has not shut its side down
    inbuf,      \* frames in the client's kernel receive buffer, unread
    sentLog,    \* every frame the client has sent (history)
    wire,       \* what the controller wrote to each client, in order
    delivered,  \* requests handed to ElevatorCtrl::call/go: origin and msg_id
    socket_,    \* NetProtocol::socket_
    nstatus,    \* status updates emitted so far
    crash       \* "none", or why the process died

vars == <<conn, peerOpen, inbuf, sentLog, wire, delivered, socket_, nstatus, crash>>

Init ==
    /\ conn = [c \in Clients |-> "idle"]
    /\ peerOpen = [c \in Clients |-> TRUE]
    /\ inbuf = [c \in Clients |-> <<>>]
    /\ sentLog = [c \in Clients |-> <<>>]
    /\ wire = [c \in Clients |-> <<>>]
    /\ delivered = <<>>
    /\ socket_ = NoSocket
    /\ nstatus = 0
    /\ crash = "none"

Alive == crash = "none"

(***************************************************************************)
(* Helpers.                                                                *)
(***************************************************************************)

\* MsgProtocol::header_check(header, exp_len).
header_check(h, exp_len) ==
    /\ h.magic = MagicValue
    /\ h.len = exp_len
    /\ h.cls = MSG_DATA

\* Mutant: the reply class without the MSG_CTRL bits.
ReplyClassNoCtrl(ok) == IF ok THEN OP_ACK ELSE OP_NAK

\* The class handle() puts in its reply (NetProtocol.h:339-340).
ReplyClass(ok) == IF ok THEN MSG_CTRL + OP_ACK ELSE MSG_CTRL + OP_NAK

\* ClientSocket::write: send() to a peer that has shut down may fail, and
\* then write throws runtime_error.
WriteOutcomes(c) == IF peerOpen[c] THEN {"sent"} ELSE {"sent", "error"}

\* A fd select() reports readable: the listening socket with a connection
\* in its backlog, or a client with data or an end of stream.
Ready(c) ==
    \/ conn[c] = "pending"
    \/ conn[c] = "open" /\ (inbuf[c] # <<>> \/ ~peerOpen[c])

(***************************************************************************)
(* The clients.                                                            *)
(***************************************************************************)

Connect(c) ==
    /\ Alive /\ conn[c] = "idle"
    /\ conn' = [conn EXCEPT ![c] = "pending"]
    /\ UNCHANGED <<peerOpen, inbuf, sentLog, wire, delivered, socket_, nstatus, crash>>

Send(c, h) ==
    /\ Alive /\ conn[c] \in {"pending", "open"} /\ peerOpen[c]
    /\ Len(sentLog[c]) < MaxFrames
    /\ LET f == [id |-> Len(sentLog[c]) + 1, hdr |-> h]
       IN  /\ inbuf' = [inbuf EXCEPT ![c] = Append(@, f)]
           /\ sentLog' = [sentLog EXCEPT ![c] = Append(@, f)]
    /\ UNCHANGED <<conn, peerOpen, wire, delivered, socket_, nstatus, crash>>

Shutdown(c) ==
    /\ Alive /\ conn[c] \in {"pending", "open"} /\ peerOpen[c]
    /\ peerOpen' = [peerOpen EXCEPT ![c] = FALSE]
    /\ UNCHANGED <<conn, inbuf, sentLog, wire, delivered, socket_, nstatus, crash>>

(***************************************************************************)
(* The listener thread: one action per ready fd of a select() round.       *)
(***************************************************************************)

\* NetProtocol's onAccept callback: the socket locks (its shared_ptr is
\* alive) and becomes socket_.
onAccept(c) == socket_' = c

\* accept(), FD_SET, make_shared<ClientSocket>, onAccept (waited for by
\* the temporary future), push onto _clientSockets.
Accept(c) ==
    /\ Alive /\ conn[c] = "pending"
    /\ conn' = [conn EXCEPT ![c] = "open"]
    /\ onAccept(c)
    /\ UNCHANGED <<peerOpen, inbuf, sentLog, wire, delivered, nstatus, crash>>

\* ClientSocket::read: recv() until nothing is left; every frame queued on
\* the socket comes back as one packet.
read(c) == inbuf[c]

\* The reply handle() writes for the first frame f of a packet from c:
\* tx and rx swapped, msg_id kept, ACK or NAK by header_check.
HandleReply(c, f) ==
    [cls |-> ReplyClass(header_check(f.hdr, f.hdr.len)), rx |-> c, id |-> f.id]

\* ElevatorCtrl::input_data_consumer: call() or go() for commands 1 and 2;
\* any other command throws invalid_argument and nothing is queued.
input_data_consumer(c, f) ==
    IF f.hdr.cmd \in {CALL, GO}
      THEN Append(delivered, [origin |-> c, id |-> f.id])
      ELSE delivered

\* Mutant: the packet is peeked at but never taken off the socket.
ReadNoDrain(c) ==
    /\ Alive /\ conn[c] = "open" /\ inbuf[c] # <<>>
    /\ wire' = [wire EXCEPT ![c] = Append(@, HandleReply(c, Head(read(c))))]
    /\ delivered' = input_data_consumer(c, Head(read(c)))
    /\ UNCHANGED <<conn, peerOpen, inbuf, sentLog, socket_, nstatus, crash>>

\* Mutant: the request is emitted before the reply is written, so a
\* failed write no longer keeps it from the controller.
ReadEmitFirst(c) ==
    /\ Alive /\ conn[c] = "open" /\ inbuf[c] # <<>>
    /\ delivered' = input_data_consumer(c, Head(read(c)))
    /\ \E w \in WriteOutcomes(c) :
         wire' = IF w = "sent" THEN [wire EXCEPT ![c] = Append(@, HandleReply(c, Head(read(c))))]
                               ELSE wire
    /\ inbuf' = [inbuf EXCEPT ![c] = <<>>]
    /\ UNCHANGED <<conn, peerOpen, sentLog, socket_, nstatus, crash>>

\* recv(MSG_PEEK) > 0 and onRead: read() the packet, handle() its first
\* frame, write the reply, and unless that write threw, emit the request.
Read(c) ==
    /\ Alive /\ conn[c] = "open" /\ inbuf[c] # <<>>
    /\ LET f == Head(read(c))
       IN  \E w \in WriteOutcomes(c) :
             \/ /\ w = "sent"
                /\ wire' = [wire EXCEPT ![c] = Append(@, HandleReply(c, f))]
                /\ delivered' = input_data_consumer(c, f)
             \/ /\ w = "error"
                /\ UNCHANGED <<wire, delivered>>
    /\ inbuf' = [inbuf EXCEPT ![c] = <<>>]
    /\ UNCHANGED <<conn, peerOpen, sentLog, socket_, nstatus, crash>>

close(c) == conn' = [conn EXCEPT ![c] = "closed"]

\* recv(MSG_PEEK) <= 0 on a known client: the peer has gone.
DetectClose(c) ==
    /\ Alive /\ conn[c] = "open" /\ inbuf[c] = <<>> /\ ~peerOpen[c]
    /\ close(c)
    /\ UNCHANGED <<peerOpen, inbuf, sentLog, wire, delivered, socket_, nstatus, crash>>

\* select() times out with nothing ready; the loop goes round again.
SelectTimeout ==
    /\ Alive /\ \A c \in Clients : ~Ready(c)
    /\ UNCHANGED vars

(***************************************************************************)
(* The controller's process thread: goToFloor emits a status update for    *)
(* the request it carries; xmit writes it on socket_.lock().               *)
(***************************************************************************)

xmit(j) ==
    /\ Alive /\ nstatus < MaxStatus
    /\ nstatus' = nstatus + 1
    /\ IF socket_ = NoSocket \/ conn[socket_] # "open"
         THEN /\ crash' = "nullptr"   \* lock() of an expired weak_ptr
              /\ UNCHANGED wire
         ELSE \E w \in WriteOutcomes(socket_) :
                IF w = "sent"
                  THEN /\ wire' = [wire EXCEPT ![socket_] = Append(@,
                               [cls |-> STATUS, rx |-> delivered[j].origin,
                                id |-> delivered[j].id])]
                       /\ UNCHANGED crash
                  ELSE /\ crash' = "throw"  \* uncaught in the process thread
                       /\ UNCHANGED wire
    /\ UNCHANGED <<conn, peerOpen, inbuf, sentLog, delivered, socket_>>

\* After a crash nothing runs any more.
Crashed == ~Alive /\ UNCHANGED vars

ClientStep == \E c \in Clients :
    Connect(c) \/ Shutdown(c) \/ \E h \in FrameKinds : Send(c, h)

ListenerStep(c) == Accept(c) \/ Read(c) \/ DetectClose(c)

Next ==
    \/ ClientStep
    \/ \E c \in Clients : ListenerStep(c)
    \/ SelectTimeout
    \/ \E j \in DOMAIN delivered : xmit(j)
    \/ Crashed

\* No fairness: a listener round need not complete, because onRead waits
\* on a blocking std::async future (TransportSocket.h:323) for call(),
\* which blocks on inputQueueMutex_ while process() spins in a scan.
Spec == Init /\ [][Next]_vars

(***************************************************************************)
(* Properties.                                                             *)
(***************************************************************************)

TypeOK ==
    /\ conn \in [Clients -> Conn]
    /\ peerOpen \in [Clients -> BOOLEAN]
    /\ inbuf \in [Clients -> Seq(Frame)]
    /\ sentLog \in [Clients -> Seq(Frame)]
    /\ wire \in [Clients -> Seq(Reply)]
    /\ delivered \in Seq([origin : Clients, id : Ids])
    /\ socket_ \in Clients \cup {NoSocket}
    /\ nstatus \in 0..MaxStatus
    /\ crash \in {"none", "nullptr", "throw"}

\* The ids of the ACK/NAK replies written to c, in order.
AnswerIds(c) == {wire[c][k].id : k \in {k \in DOMAIN wire[c] : wire[c][k].cls \in {ACK, NAK}}}

\* handle() answers each frame at most once and in the order the client
\* sent them: the ACK/NAK replies on a connection carry strictly increasing
\* msg_ids, all of frames the client did send (read()'s drain of the
\* socket and handle()'s reply on the socket it read from).
RepliesInSendOrder ==
    \A c \in Clients :
      \A k, m \in DOMAIN wire[c] :
        /\ wire[c][k].cls \in {ACK, NAK} => wire[c][k].id <= Len(sentLog[c])
        /\ (k < m /\ wire[c][k].cls \in {ACK, NAK} /\ wire[c][m].cls \in {ACK, NAK})
             => wire[c][k].id < wire[c][m].id

\* No request reaches ElevatorCtrl::call/go unless its sender was sent the
\* ACK or NAK for it first (handle() writes the reply before it returns
\* the Request that run()'s onRead emits).
RequestAcknowledged ==
    \A j \in DOMAIN delivered : delivered[j].id \in AnswerIds(delivered[j].origin)

LengthFieldChecked ==
    \A c \in Clients : \A k \in DOMAIN wire[c] :
      wire[c][k].cls = ACK => sentLog[c][wire[c][k].id].hdr.len = FrameLen

\* A frame the controller NAKs as corrupted is not turned into a request.
NakedNotEnqueued ==
    \A j \in DOMAIN delivered :
      \A k \in DOMAIN wire[delivered[j].origin] :
        wire[delivered[j].origin][k].id = delivered[j].id
          => wire[delivered[j].origin][k].cls # NAK

\* A frame the controller ACKs is turned into a request.
AckedEnqueued ==
    \A c \in Clients : \A k \in DOMAIN wire[c] :
      wire[c][k].cls = ACK =>
        \E j \in DOMAIN delivered : delivered[j] = [origin |-> c, id |-> wire[c][k].id]

\* goToFloor's status updates go to the node that made the request
\* ("Sending the current status to the requester"): a status written on
\* a connection is addressed to that connection's client.
StatusToRequester ==
    \A c \in Clients : \A k \in DOMAIN wire[c] :
      wire[c][k].cls = STATUS => wire[c][k].rx = c

\* A client disconnecting does not bring the controller down.
SurvivesDisconnect == Alive

=============================================================================
