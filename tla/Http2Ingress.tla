---------------------------- MODULE Http2Ingress ----------------------------
(***************************************************************************)
(* The request direction of one ingress connection of the HTTP/2 adaptor   *)
(* (src/src/adaptors/http2/http2_adaptor.c).                               *)
(*                                                                         *)
(*  - nghttp2 receive callbacks turn a client's HEADERS, DATA and trailer   *)
(*    frames into a streaming AMQP message per stream;                     *)
(*  - router-core callbacks supply the reply-to address (second attach of *)
(*    the dynamic out-link) and in-link credit, and route the delivery;    *)
(*  - raw-connection events (READ, WAKE, CLOSED_READ, DISCONNECTED) drive   *)
(*    reading on the connection's thread;                                  *)
(*  - per-message Q2 backpressure stops reading, and the unblocked handler *)
(*    run by the consuming thread restarts it via q2_restart and a wake.   *)
(*                                                                         *)
(* The message content (message.c is not part of the sources) is modelled *)
(* from its interface in message.h and the description of Q2.  A message  *)
(* is a sequence of sections: "H" for the composed header, properties and *)
(* application properties, the numbers 1..MaxChunks for the body chunks of *)
(* the stream in the order the client sent them, "F" for a footer holding *)
(* the trailers and "Fe" for a footer whose fields are missing (encoded as *)
(* the numbers after MaxChunks).                                           *)
(***************************************************************************)
EXTENDS Integers, Sequences, FiniteSets

CONSTANTS
    Streams,     \* ids of the HTTP/2 streams the client opens
    MaxChunks,   \* DATA chunks the client sends at most on one stream
    MaxCredit,   \* in-link credit the core grants at most to one stream
    Q2Lower      \* QD_QLIMIT_Q2_LOWER, scaled down

ASSUME MaxChunks \in Nat \ {0} /\ MaxCredit \in Nat \ {0} /\ Q2Lower \in Nat \ {0}

\* QD_QLIMIT_Q2_UPPER is defined as twice the lower limit.
Q2Upper == 2 * Q2Lower

VARIABLES
    rawConn,        \* conn->pn_raw_conn is set
    rawClosedRead,  \* conn->raw_closed_read
    reading,        \* the connection thread is inside handle_incoming_http
    q2Blocked,      \* conn->q2_blocked
    q2Restart,      \* conn->q2_restart (atomic flag)
    wakePending,    \* pn_raw_connection_wake called, WAKE not yet delivered
    peer,           \* per stream: how far the client's frames have got
    sent,           \* per stream: DATA chunks the client has sent
    sd,             \* per stream: the qdr_http2_stream_data_t record
    msg,            \* per stream: the content of the stream's message
    handlerPending, \* per stream: the consumer thread is about to run the
                    \* message's Q2 unblocked handler
    heldAtRead,     \* history: per stream, was its message held off by Q2
                    \* when the current read started
    delQueued,      \* close_connections queued qdr_del_http2_connection_CT
    connFreed,      \* free_qdr_http2_connection ran: the pool item's
                    \* sequence has moved past the one in conn_sp
    handlerPtr      \* per stream: "none", or what the running unblocked
                    \* handler's qd_alloc_deref_safe_ptr returned ("conn" or
                    \* "null"); it holds the activation lock meanwhile

vars == <<rawConn, rawClosedRead, reading, q2Blocked, q2Restart, wakePending,
          peer, sent, sd, msg, handlerPending, heldAtRead,
          delQueued, connFreed, handlerPtr>>

\* The connection object's life, which only the handler, DISCONNECTED and
\* the core's delete change.
lifeVars == <<delQueued, connFreed, handlerPtr>>

PeerPhase == {"idle", "headers", "body", "trailers", "ended", "reset"}
H == MaxChunks + 1
F == MaxChunks + 2
Fe == MaxChunks + 3
Section == 1..Fe

-----------------------------------------------------------------------------
(* The streaming message (qd_message_t), modelled from message.h.          *)

NoMessage == [alive |-> FALSE, sections |-> <<>>, consumed |-> 0,
              holdoff |-> FALSE, disabled |-> FALSE, handler |-> FALSE,
              recvComplete |-> FALSE]

\* qd_message(): an empty message that is still receiving.
NewMessage == [NoMessage EXCEPT !.alive = TRUE]

IsChunk(x) == x \in 1..MaxChunks
Body(m) == SelectSeq(m.sections, IsChunk)

\* Body buffers in the content not yet consumed by the outbound path.
Held(m) == Len(Body(m)) - m.consumed

\* Appending data makes Q2 engage ("this call caused Q2 to block").
Q2Blocks(m, data) ==
    data /= <<>> /\ ~m.holdoff /\ ~m.disabled /\ Held(m) + Len(data) >= Q2Upper

\* qd_message_stream_data_append: moves the buffers into the content.
StreamDataAppend(m, data) ==
    [m EXCEPT !.sections = @ \o data, !.holdoff = @ \/ Q2Blocks(m, data)]

\* qd_message_compose_3: the content becomes the composed prefix.
Compose3(m, rc) == [m EXCEPT !.sections = <<H>>, !.recvComplete = rc]

\* qd_message_extend with the footer builder.
Extend(m) == [m EXCEPT !.sections = Append(@, F)]

\* qd_message_stream_data_footer_append: appends a footer, disables Q2.
FooterAppend(m, tok) ==
    [m EXCEPT !.sections = Append(@, tok), !.disabled = TRUE, !.holdoff = FALSE]

-----------------------------------------------------------------------------
(* The stream record (qdr_http2_stream_data_t).  footer is the footer      *)
(* builder: "none" before any trailer field, "open" while fields are added, *)
(* "taken" once its buffers were moved into the message.                   *)

NoStream == [live |-> FALSE, status |-> "OPEN", entireHeader |-> FALSE,
             useFooter |-> FALSE, footer |-> "none", entireFooter |-> FALSE,
             composed |-> FALSE, bodyAdded |-> FALSE, staged |-> <<>>,
             replyTo |-> FALSE, credit |-> 0, inDlv |-> FALSE]

\* create_qdr_http2_stream_data: zeroed record, status OPEN.
NewStream == [NoStream EXCEPT !.live = TRUE]

\* advance_stream_status
AdvanceStreamStatus(status) ==
    CASE status = "OPEN"        -> "HALF_CLOSED"
      [] status = "HALF_CLOSED" -> "FULLY_CLOSED"
      [] OTHER                  -> status

\* free_http2_stream_data: the record goes, and a message that was never
\* delivered loses its unblocked handler and is freed.
FreedStream(st) == [st EXCEPT !.live = FALSE, !.staged = <<>>]
FreedMessage(st, m) == IF st.inDlv THEN m ELSE NoMessage

FooterSection(footer) == IF footer = "taken" THEN Fe ELSE F

\* Result of routing: new stream record and message, whether an append
\* caused Q2 to block, and whether the unblocked handler was run inline.
NoRoute(st, m) == [st |-> st, m |-> m, blocked |-> FALSE, fired |-> FALSE]

\* Fault: the composed message leaves out the staged body_buffers.
ComposeDroppingStaged(st, m, rc) ==
    [st |-> [st EXCEPT !.composed = TRUE, !.staged = <<>>],
     m  |-> Compose3([m EXCEPT !.handler = TRUE], rc),
     blocked |-> FALSE, fired |-> FALSE]

\* The header_and_props_composed block of compose_and_deliver.
Compose(st, m, rc) ==
    LET m1 == Compose3([m EXCEPT !.handler = TRUE], rc)
        m2 == StreamDataAppend(m1, st.staged)
        hasFooter == st.footer /= "none"
    IN [st |-> [st EXCEPT !.composed = TRUE, !.staged = <<>>,
                          !.bodyAdded = rc \/ st.staged /= <<>> \/ hasFooter,
                          !.footer = IF hasFooter THEN "taken" ELSE @],
        m  |-> IF hasFooter THEN FooterAppend(m2, FooterSection(st.footer)) ELSE m2,
        blocked |-> Q2Blocks(m1, st.staged),
        fired |-> hasFooter /\ m2.holdoff /\ m2.handler]

\* compose_and_deliver returns early while a footer is only half received.
FooterIncomplete(st, rc) ==
    ~rc /\ st.footer /= "none" /\ ~st.entireFooter

\* Fault: deliver without checking in_link_credit.
DeliverWithoutCredit(c) ==
    IF ~c.st.inDlv
    THEN [c EXCEPT !.st.inDlv = TRUE, !.st.credit = @ - 1]
    ELSE c

\* The qdr_link_deliver step of compose_and_deliver.
Deliver(c) ==
    IF ~c.st.inDlv /\ c.st.credit > 0
    THEN [c EXCEPT !.st.inDlv = TRUE, !.st.credit = @ - 1]
    ELSE c

ComposeAndDeliver(st, m, rc) ==
    CASE st.composed                -> Deliver(NoRoute(st, m))
      [] FooterIncomplete(st, rc)   -> NoRoute(st, [m EXCEPT !.handler = TRUE])
      [] OTHER                      -> Deliver(Compose(st, m, rc))

\* route_delivery on an ingress connection.
RouteDelivery(st, m, rc) ==
    IF ~st.inDlv /\ st.replyTo /\ st.entireHeader
    THEN ComposeAndDeliver(st, m, rc)
    ELSE NoRoute(st, m)

\* Install the result of routing stream s.  A handler run inline does what
\* qdr_http2_q2_unblocked_handler does.
ApplyRoute(s, r) ==
    /\ sd' = [sd EXCEPT ![s] = r.st]
    /\ msg' = [msg EXCEPT ![s] = r.m]
    /\ q2Blocked' = (q2Blocked \/ r.blocked)
    /\ q2Restart' = (q2Restart \/ (r.fired /\ rawConn))
    /\ wakePending' = (wakePending \/ (r.fired /\ rawConn))

-----------------------------------------------------------------------------
Init ==
    /\ rawConn = TRUE
    /\ rawClosedRead = FALSE
    /\ reading = FALSE
    /\ q2Blocked = FALSE
    /\ q2Restart = FALSE
    /\ wakePending = FALSE
    /\ peer = [s \in Streams |-> "idle"]
    /\ sent = [s \in Streams |-> 0]
    /\ sd = [s \in Streams |-> NoStream]
    /\ msg = [s \in Streams |-> NoMessage]
    /\ handlerPending = [s \in Streams |-> FALSE]
    /\ heldAtRead = [s \in Streams |-> FALSE]
    /\ delQueued = FALSE
    /\ connFreed = FALSE
    /\ handlerPtr = [s \in Streams |-> "none"]

StartReading ==
    /\ reading' = TRUE
    /\ heldAtRead' = [s \in Streams |-> msg[s].holdoff]

-----------------------------------------------------------------------------
(* nghttp2 receive callbacks.  They run on the connection thread inside    *)
(* handle_incoming_http, one frame at a time.                              *)

\* on_begin_headers_callback for a request on an ingress connection:
\* create the stream record and its message, attach the in-link and the
\* dynamic out-link.
OnBeginHeaders(s) ==
    /\ reading /\ peer[s] = "idle"
    /\ peer' = [peer EXCEPT ![s] = "headers"]
    /\ sd' = [sd EXCEPT ![s] = NewStream]
    /\ msg' = [msg EXCEPT ![s] = NewMessage]
    /\ UNCHANGED <<rawConn, rawClosedRead, reading, q2Blocked, q2Restart,
                   wakePending, sent, handlerPending, heldAtRead>>

\* on_header_callback for the first field of a trailer block: once the
\* request headers have ended, fields go to a new footer builder.
OnTrailerHeader(s) ==
    /\ reading /\ peer[s] = "body" /\ sd[s].live
    /\ peer' = [peer EXCEPT ![s] = "trailers"]
    /\ sd' = [sd EXCEPT ![s].footer = IF @ = "none" THEN "open" ELSE @]
    /\ UNCHANGED <<rawConn, rawClosedRead, reading, q2Blocked, q2Restart,
                   wakePending, sent, msg, handlerPending, heldAtRead>>

\* on_data_chunk_recv_callback: append to the message once its header is
\* composed (staged buffers first), else stage the chunk in body_buffers.
OnDataChunkRecv(s) ==
    /\ reading /\ peer[s] = "body" /\ sd[s].live /\ sent[s] < MaxChunks
    /\ sent' = [sent EXCEPT ![s] = @ + 1]
    /\ LET st == sd[s]
           chunk == <<sent[s] + 1>>
           first == IF st.staged /= <<>> /\ ~st.bodyAdded THEN st.staged ELSE <<>>
           m1 == StreamDataAppend(msg[s], first)
       IN IF st.inDlv \/ st.composed
          THEN /\ msg' = [msg EXCEPT ![s] = StreamDataAppend(m1, chunk)]
               /\ sd' = [sd EXCEPT ![s].bodyAdded = TRUE,
                                   ![s].staged = IF first = <<>> THEN @ ELSE <<>>]
               /\ q2Blocked' = (q2Blocked \/ Q2Blocks(msg[s], first)
                                          \/ Q2Blocks(m1, chunk))
          ELSE /\ sd' = [sd EXCEPT ![s].staged = @ \o chunk]
               /\ UNCHANGED <<msg, q2Blocked>>
    /\ UNCHANGED <<rawConn, rawClosedRead, reading, q2Restart, wakePending,
                   peer, handlerPending, heldAtRead>>

\* on_frame_recv_callback, DATA frame with END_STREAM: the message is
\* receive-complete and the stream half closed.
OnDataEndStream(s) ==
    /\ reading /\ peer[s] = "body" /\ sd[s].live
    /\ peer' = [peer EXCEPT ![s] = "ended"]
    /\ msg' = [msg EXCEPT ![s].recvComplete = TRUE]
    /\ sd' = [sd EXCEPT ![s].status = AdvanceStreamStatus(@)]
    /\ UNCHANGED <<rawConn, rawClosedRead, reading, q2Blocked, q2Restart,
                   wakePending, sent, handlerPending, heldAtRead>>

\* Fault: END_HEADERS marks the message receive-complete even without
\* END_STREAM.
OnHeadersEndCompleting(s, endStream) ==
    /\ reading /\ sd[s].live
    /\ \/ peer[s] = "headers"
       \/ peer[s] = "trailers" /\ endStream
    /\ peer' = [peer EXCEPT ![s] = IF endStream THEN "ended" ELSE "body"]
    /\ LET st == sd[s]
           st1 == [st EXCEPT !.entireHeader = TRUE,
                             !.useFooter = TRUE,
                             !.entireFooter = @ \/ st.useFooter,
                             !.footer = IF st.useFooter THEN "taken" ELSE @,
                             !.status = IF endStream THEN AdvanceStreamStatus(@) ELSE @]
           m1 == IF st.useFooter THEN Extend(msg[s]) ELSE msg[s]
           m2 == [m1 EXCEPT !.recvComplete = TRUE]
       IN ApplyRoute(s, RouteDelivery(st1, m2, endStream))
    /\ UNCHANGED <<rawConn, rawClosedRead, reading, sent, handlerPending, heldAtRead>>

\* on_frame_recv_callback, HEADERS or CONTINUATION with END_HEADERS: the
\* request headers end the application properties; trailers end the
\* footer, which is extended into the message.  Then route the delivery.
OnHeadersEnd(s, endStream) ==
    /\ reading /\ sd[s].live
    /\ \/ peer[s] = "headers"
       \/ peer[s] = "trailers" /\ endStream
    /\ peer' = [peer EXCEPT ![s] = IF endStream THEN "ended" ELSE "body"]
    /\ LET st == sd[s]
           st1 == [st EXCEPT !.entireHeader = TRUE,
                             !.useFooter = TRUE,
                             !.entireFooter = @ \/ st.useFooter,
                             !.footer = IF st.useFooter THEN "taken" ELSE @,
                             !.status = IF endStream THEN AdvanceStreamStatus(@) ELSE @]
           m1 == IF st.useFooter THEN Extend(msg[s]) ELSE msg[s]
           m2 == [m1 EXCEPT !.recvComplete = @ \/ endStream]
       IN ApplyRoute(s, RouteDelivery(st1, m2, endStream))
    /\ UNCHANGED <<rawConn, rawClosedRead, reading, sent, handlerPending, heldAtRead>>

\* on_frame_recv_callback, RST_STREAM: drop the delivery's context and free
\* the stream.
OnRstStream(s) ==
    /\ reading /\ sd[s].live
    /\ peer[s] \in {"headers", "body", "trailers", "ended"}
    /\ peer' = [peer EXCEPT ![s] = "reset"]
    /\ sd' = [sd EXCEPT ![s] = FreedStream(@)]
    /\ msg' = [msg EXCEPT ![s] = FreedMessage(sd[s], @)]
    /\ UNCHANGED <<rawConn, rawClosedRead, reading, q2Blocked, q2Restart,
                   wakePending, sent, handlerPending, heldAtRead>>

-----------------------------------------------------------------------------
(* Router-core callbacks, run by qdr_connection_process on the connection  *)
(* thread when it is woken, never inside a read.                          *)

\* Fault: record the reply-to address without trying to route.
SecondAttachWithoutRoute(s) ==
    /\ ~reading /\ sd[s].live /\ ~sd[s].replyTo
    /\ sd' = [sd EXCEPT ![s].replyTo = TRUE]
    /\ UNCHANGED <<rawConn, rawClosedRead, reading, q2Blocked, q2Restart,
                   wakePending, peer, sent, msg, handlerPending, heldAtRead>>

\* qdr_http_second_attach of the dynamic out-link: copy the reply-to
\* address and try to route.
QdrHttpSecondAttach(s) ==
    /\ ~reading /\ sd[s].live /\ ~sd[s].replyTo
    /\ ApplyRoute(s, RouteDelivery([sd[s] EXCEPT !.replyTo = TRUE], msg[s],
                                   msg[s].recvComplete))
    /\ UNCHANGED <<rawConn, rawClosedRead, reading, peer, sent,
                   handlerPending, heldAtRead>>

\* qdr_http_flow: add the credit and route if not yet routed.
QdrHttpFlow(s) ==
    /\ ~reading /\ sd[s].live /\ sd[s].credit < MaxCredit
    /\ ApplyRoute(s, RouteDelivery([sd[s] EXCEPT !.credit = @ + 1], msg[s],
                                   msg[s].recvComplete))
    /\ UNCHANGED <<rawConn, rawClosedRead, reading, peer, sent,
                   handlerPending, heldAtRead>>

-----------------------------------------------------------------------------
(* Other threads: the outbound path consuming a routed message, and the   *)
(* unblocked handler it runs when Q2 releases.                            *)

\* Consumption of one body buffer; below the lower limit Q2 releases and
\* the registered unblocked handler is run once.
ConsumeBuffer(s) ==
    /\ msg[s].alive /\ sd[s].inDlv /\ Held(msg[s]) > 0
    /\ LET m1 == [msg[s] EXCEPT !.consumed = @ + 1]
           unblock == m1.holdoff /\ Held(m1) < Q2Lower
       IN /\ msg' = [msg EXCEPT ![s] = [m1 EXCEPT !.holdoff = @ /\ ~unblock]]
          /\ handlerPending' = [handlerPending EXCEPT ![s] = @ \/ (unblock /\ m1.handler)]
    /\ UNCHANGED <<rawConn, rawClosedRead, reading, q2Blocked, q2Restart,
                   wakePending, peer, sent, sd, heldAtRead>>

\* qd_alloc_deref_safe_ptr: the pointer is returned only while the pool
\* item's sequence still equals the one QD_SAFE_PTR_INIT recorded, i.e.
\* until free_qdr_http2_connection_t gives the connection back to the pool.
DerefSafePtr == IF connFreed THEN "null" ELSE "conn"

\* No thread holds the server's activation lock on behalf of a handler.
ActivationLockFree == \A s \in Streams : handlerPtr[s] = "none"

\* qdr_http2_q2_unblocked_handler, first half: take the activation lock and
\* dereference conn_sp.
QdrHttp2Q2UnblockedHandlerDeref(s) ==
    /\ handlerPending[s] /\ handlerPtr[s] = "none" /\ ActivationLockFree
    /\ handlerPtr' = [handlerPtr EXCEPT ![s] = DerefSafePtr]
    /\ UNCHANGED <<rawConn, rawClosedRead, reading, q2Blocked, q2Restart,
                   wakePending, peer, sent, sd, msg, handlerPending,
                   heldAtRead, delQueued, connFreed>>

\* qdr_http2_q2_unblocked_handler, second half: if the pointer was valid
\* and conn->pn_raw_conn is set, set q2_restart and wake the raw
\* connection; release the lock.  The delete does not take the lock, so
\* conn may have been freed since the deref; the read then sees what the
\* freed object last held (no other connection reuses it in this model).
QdrHttp2Q2UnblockedHandler(s) ==
    /\ handlerPtr[s] /= "none"
    /\ handlerPending' = [handlerPending EXCEPT ![s] = FALSE]
    /\ handlerPtr' = [handlerPtr EXCEPT ![s] = "none"]
    /\ LET act == handlerPtr[s] = "conn" /\ rawConn
       IN /\ q2Restart' = (q2Restart \/ act)
          /\ wakePending' = (wakePending \/ act)
    /\ UNCHANGED <<rawConn, rawClosedRead, reading, q2Blocked, peer, sent,
                   sd, msg, heldAtRead, delQueued, connFreed>>

-----------------------------------------------------------------------------
(* Raw-connection events (handle_connection_event).                       *)

\* PN_RAW_CONNECTION_READ: nothing while Q2 blocked, else read.
RawRead ==
    /\ ~reading /\ rawConn /\ ~rawClosedRead /\ ~q2Blocked
    /\ StartReading
    /\ UNCHANGED <<rawConn, rawClosedRead, q2Blocked, q2Restart, wakePending,
                   peer, sent, sd, msg, handlerPending>>

\* The end of handle_incoming_http: every read buffer has gone to nghttp2.
HandleIncomingHttpDone ==
    /\ reading
    /\ reading' = FALSE
    /\ UNCHANGED <<rawConn, rawClosedRead, q2Blocked, q2Restart, wakePending,
                   peer, sent, sd, msg, handlerPending, heldAtRead>>

\* Fault: the WAKE consumes q2_restart but leaves conn->q2_blocked set.
RawWakeKeepingQ2 ==
    /\ wakePending /\ ~reading /\ rawConn
    /\ wakePending' = FALSE
    /\ q2Restart' = FALSE
    /\ UNCHANGED <<rawConn, rawClosedRead, reading, q2Blocked, peer, sent,
                   sd, msg, handlerPending, heldAtRead>>

\* PN_RAW_CONNECTION_WAKE: if q2_restart was set, clear it and Q2 and read.
RawWake ==
    /\ wakePending /\ ~reading /\ rawConn
    /\ wakePending' = FALSE
    /\ IF q2Restart
       THEN /\ q2Restart' = FALSE
            /\ q2Blocked' = FALSE
            /\ IF rawClosedRead THEN UNCHANGED <<reading, heldAtRead>>
                                ELSE StartReading
       ELSE UNCHANGED <<q2Restart, q2Blocked, reading, heldAtRead>>
    /\ UNCHANGED <<rawConn, rawClosedRead, peer, sent, sd, msg, handlerPending>>

\* PN_RAW_CONNECTION_CLOSED_READ: clear Q2, set raw_closed_read, read what
\* is left, close.
RawClosedRead ==
    /\ ~reading /\ rawConn /\ ~rawClosedRead
    /\ q2Blocked' = FALSE
    /\ rawClosedRead' = TRUE
    /\ StartReading
    /\ UNCHANGED <<rawConn, q2Restart, wakePending, peer, sent, sd, msg,
                   handlerPending>>

\* clean_http2_conn: free_all_connection_streams.
CleanHttp2Conn ==
    /\ sd' = [s \in Streams |-> IF sd[s].live THEN FreedStream(sd[s]) ELSE sd[s]]
    /\ msg' = [s \in Streams |-> IF sd[s].live THEN FreedMessage(sd[s], msg[s])
                                                ELSE msg[s]]

\* close_connections: close the core connection and queue its deletion.
CloseConnections == delQueued' = TRUE

\* free_qdr_http2_connection: free the remaining streams, the session and
\* the timer, then return the object to the pool (its sequence advances).
FreeQdrHttp2Connection == connFreed' = TRUE

\* Fault: handle_disconnected leaves conn->pn_raw_conn set.
HandleDisconnectedKeepingRawConn ==
    /\ ActivationLockFree
    /\ rawConn' = rawConn
    /\ CleanHttp2Conn
    /\ CloseConnections

\* handle_disconnected on an ingress connection: under the activation lock
\* clear pn_raw_conn, free every stream and close the core connection.
HandleDisconnected ==
    /\ ActivationLockFree
    /\ rawConn' = FALSE
    /\ CleanHttp2Conn
    /\ CloseConnections

\* PN_RAW_CONNECTION_DISCONNECTED on an ingress connection.
RawDisconnected ==
    /\ ~reading /\ rawConn /\ rawClosedRead
    /\ HandleDisconnected
    /\ UNCHANGED <<rawClosedRead, reading, q2Blocked, q2Restart, wakePending,
                   peer, sent, handlerPending, heldAtRead, connFreed, handlerPtr>>

\* qdr_del_http2_connection_CT on the core thread: free_qdr_http2_connection
\* frees what is left of the connection (its streams are already gone) and
\* returns the object to the pool, without the activation lock.
QdrDelHttp2ConnectionCT ==
    /\ delQueued /\ ~connFreed
    /\ FreeQdrHttp2Connection
    /\ UNCHANGED <<rawConn, rawClosedRead, reading, q2Blocked, q2Restart,
                   wakePending, peer, sent, sd, msg, handlerPending,
                   heldAtRead, delQueued, handlerPtr>>

\* The connection is gone; the router may stay idle.
Closed ==
    /\ ~rawConn
    /\ UNCHANGED vars

Next ==
    \/ /\ \/ \E s \in Streams :
             \/ OnBeginHeaders(s)
             \/ OnTrailerHeader(s)
             \/ OnDataChunkRecv(s)
             \/ OnDataEndStream(s)
             \/ \E endStream \in BOOLEAN : OnHeadersEnd(s, endStream)
             \/ OnRstStream(s)
             \/ QdrHttpSecondAttach(s)
             \/ QdrHttpFlow(s)
             \/ ConsumeBuffer(s)
          \/ RawRead
          \/ HandleIncomingHttpDone
          \/ RawWake
          \/ RawClosedRead
          \/ Closed
       /\ UNCHANGED lifeVars
    \/ \E s \in Streams :
          \/ QdrHttp2Q2UnblockedHandlerDeref(s)
          \/ QdrHttp2Q2UnblockedHandler(s)
    \/ RawDisconnected
    \/ QdrDelHttp2ConnectionCT

Spec == Init /\ [][Next]_vars

\* The connection thread finishes what it started and delivers wakes; the
\* outbound path keeps consuming a routed message and runs the handler.
Fairness ==
    /\ WF_vars(HandleIncomingHttpDone /\ UNCHANGED lifeVars)
    /\ WF_vars(RawWake /\ UNCHANGED lifeVars)
    /\ \A s \in Streams : WF_vars(ConsumeBuffer(s) /\ UNCHANGED lifeVars)
    /\ \A s \in Streams : WF_vars(QdrHttp2Q2UnblockedHandlerDeref(s))
    /\ \A s \in Streams : WF_vars(QdrHttp2Q2UnblockedHandler(s))

FairSpec == Spec /\ Fairness

-----------------------------------------------------------------------------
(* Refinement of RequestRelay.  A stream is gone once its record is freed *)
(* (RST_STREAM or DISCONNECTED); the router sees a message only once it   *)
(* is routed (in_dlv set), and sees it complete when receive_complete is  *)
(* set on it.                                                              *)

RelayPhase(s) ==
    CASE peer[s] = "idle"  -> "idle"
      [] ~sd[s].live       -> "gone"
      [] peer[s] = "ended" -> "ended"
      [] OTHER             -> "open"

Relay == INSTANCE RequestRelay WITH
    phase    <- [s \in Streams |-> RelayPhase(s)],
    body     <- [s \in Streams |-> IF sd[s].inDlv THEN Body(msg[s]) ELSE <<>>],
    routed   <- [s \in Streams |-> sd[s].inDlv],
    complete <- [s \in Streams |-> sd[s].inDlv /\ msg[s].recvComplete]

-----------------------------------------------------------------------------
(* Properties.                                                             *)

StreamRec ==
    [live : BOOLEAN, status : {"OPEN", "HALF_CLOSED", "FULLY_CLOSED"},
     entireHeader : BOOLEAN, useFooter : BOOLEAN,
     footer : {"none", "open", "taken"}, entireFooter : BOOLEAN,
     composed : BOOLEAN, bodyAdded : BOOLEAN, staged : Seq(1..MaxChunks),
     replyTo : BOOLEAN, credit : 0..MaxCredit, inDlv : BOOLEAN]

MessageRec ==
    [alive : BOOLEAN, sections : Seq(Section), consumed : 0..MaxChunks,
     holdoff : BOOLEAN, disabled : BOOLEAN, handler : BOOLEAN,
     recvComplete : BOOLEAN]

TypeOK ==
    /\ rawConn \in BOOLEAN /\ rawClosedRead \in BOOLEAN /\ reading \in BOOLEAN
    /\ q2Blocked \in BOOLEAN /\ q2Restart \in BOOLEAN /\ wakePending \in BOOLEAN
    /\ peer \in [Streams -> PeerPhase]
    /\ sent \in [Streams -> 0..MaxChunks]
    /\ sd \in [Streams -> StreamRec]
    /\ msg \in [Streams -> MessageRec]
    /\ handlerPending \in [Streams -> BOOLEAN]
    /\ heldAtRead \in [Streams -> BOOLEAN]
    /\ delQueued \in BOOLEAN /\ connFreed \in BOOLEAN
    /\ handlerPtr \in [Streams -> {"none", "conn", "null"}]

\* DATA chunks are neither lost nor reordered between the client and the
\* message, whichever of END_HEADERS, the reply-to address (second attach)
\* and credit (qdr_http_flow) comes first: the message body followed by the
\* chunks still staged in body_buffers is exactly what the client sent.
BodyInOrder ==
    \A s \in Streams :
        msg[s].alive =>
            Body(msg[s]) \o sd[s].staged = [i \in 1..sent[s] |-> i]

\* Once the client has sent the whole request, the reply-to address is known
\* and the in-link has credit, the delivery has been routed: every trigger
\* of route_delivery (END_HEADERS, END_STREAM with trailers, second attach,
\* flow) routes when it supplies the last missing condition.
NoStrandedDelivery ==
    \A s \in Streams :
        (sd[s].live /\ peer[s] = "ended" /\ sd[s].replyTo /\ sd[s].credit > 0)
            => sd[s].inDlv

\* A connection that stopped reading because the message of a routed
\* stream hit Q2 reads again: the consumer drains the message, the
\* unblocked handler sets q2_restart and wakes the connection, and the
\* WAKE clears conn->q2_blocked, even when the handler ran before the
\* connection set q2_blocked.  (After CLOSED_READ there is nothing left to
\* read, and the connection only waits for DISCONNECTED.)
Q2Unblocks ==
    \A s \in Streams :
        (q2Blocked /\ msg[s].holdoff /\ sd[s].inDlv) ~> (~q2Blocked \/ rawClosedRead)

\* While the connection is Q2 blocked and still open for reading, something
\* will unblock it: a pending q2_restart or handler run, or a live message
\* held off by Q2 whose unblocked handler is registered.
Q2Recoverable ==
    (rawConn /\ ~rawClosedRead /\ q2Blocked) =>
        \/ q2Restart
        \/ \E s \in Streams :
              \/ handlerPending[s]
              \/ msg[s].alive /\ msg[s].holdoff /\ msg[s].handler

\* "We don't want to read when we are q2 blocked": a read that starts while
\* a stream's message is held off by Q2 appends no body to that message
\* (the final read after CLOSED_READ aside).
Q2HoldoffRespected ==
    [][\A s \in Streams :
         (reading /\ heldAtRead[s] /\ ~rawClosedRead)
            => Len(Body(msg'[s])) = Len(Body(msg[s]))]_vars

\* Once the trailers have been received and the message composed, the
\* message is the composed header, the body and a footer carrying the
\* trailers, in that order.
FooterAfterBody ==
    \A s \in Streams :
        (msg[s].alive /\ sd[s].composed /\ sd[s].entireFooter)
            => msg[s].sections = <<H>> \o Body(msg[s]) \o <<F>>

\* A routed message outlives its connection, so its unblocked handler can
\* run after qdr_del_http2_connection_CT freed the connection, or start
\* before the free and finish after it (the delete does not take the
\* activation lock).  Once the connection is freed no step sets its
\* q2_restart or wakes its raw connection: handle_disconnected cleared
\* pn_raw_conn under the lock before close_connections queued the delete,
\* and a later deref fails on the pool sequence.
NoWakeAfterFree ==
    [][connFreed => /\ (q2Restart' => q2Restart)
                    /\ (wakePending' => wakePending)]_vars

\* The adaptor relays each request as RequestRelay describes: the routed
\* message shows the client's DATA chunks in order, each as it arrives once
\* routed, and is marked receive-complete only when the client has ended
\* the request, whichever of END_HEADERS, END_STREAM, the reply-to address
\* and credit comes last (compose_and_deliver, on_data_chunk_recv_callback,
\* on_frame_recv_callback).
RelaySpec == Relay!Spec

====
