-------------------------- MODULE Http2StreamSettle --------------------------
(***************************************************************************)
(* One HTTP/2 stream of the adaptor (src/src/adaptors/http2/http2_adaptor.c)*)
(* seen from its two deliveries: in_dlv, the message the adaptor routes    *)
(* into the router from the HTTP/2 peer, and out_dlv, the message the      *)
(* router hands the adaptor to send to the peer.  On an ingress connection *)
(* in_dlv is the client's request and out_dlv the response; on an egress   *)
(* connection out_dlv is the request and in_dlv the server's response.     *)
(*                                                                         *)
(* The model follows who settles out_dlv (the peer's END_STREAM on DATA or *)
(* HEADERS, handle_outgoing_http, restart_streams, RST_STREAM), who drops  *)
(* the adaptor's references to the two deliveries, how the router's settle *)
(* of in_dlv is applied (qdr_http_delivery_update), and when the stream    *)
(* record is freed.  All of these run on the connection's proactor thread, *)
(* so each action is one callback or event handler run to completion.      *)
(*                                                                         *)
(* nghttp2 is abstracted to two facts: whether our END_STREAM has gone out *)
(* (esSent) and the peer's side (peer).  Once both sides have ended, or    *)
(* the peer has reset the stream, nghttp2 forgets the stream's user data   *)
(* and no further frame reaches the adaptor's callbacks for it.            *)
(***************************************************************************)
EXTENDS Naturals

\* Settle outcomes the router applies to in_dlv.  PN_MODIFIED takes every
\* branch PN_RELEASED takes, so it is not a separate value.
Disps == {"ACCEPTED", "RELEASED", "REJECTED"}
\* out_dlv_local_disposition: 0 or what read_data_callback decided.
LocalDisps == {"NONE", "ACCEPTED", "REJECTED"}
\* QD_STREAM_OPEN, QD_STREAM_HALF_CLOSED, QD_STREAM_FULLY_CLOSED
Status == {"OPEN", "HALF", "FULL"}

VARIABLES
    ingress,        \* conn->ingress: the stream is on a listener's connection
    live,           \* the qdr_http2_stream_data_t is not freed
    status,         \* stream_data->status
    peer,           \* peer's side: idle (headers not ended), open, done (END_STREAM), reset
    esSent,         \* nghttp2 has sent our END_STREAM on this stream
    writePending,   \* raw write buffers handed to proton, WRITTEN not yet seen
    closedWrite,    \* conn->raw_closed_write
    inDlv,          \* stream_data->in_dlv is set
    inCtx,          \* in_dlv's delivery context points at this stream
    inDecref,       \* stream_data->in_dlv_decrefed
    inRel,          \* number of times the adaptor dropped its in_dlv reference
    inUpdate,       \* the router's settle of in_dlv: none, a disposition due, done
    outDlv,         \* stream_data->out_dlv is set
    outInc,         \* number of times the adaptor took an out_dlv reference
    outDecref,      \* stream_data->out_dlv_decrefed
    outRel,         \* number of times the adaptor dropped its out_dlv reference
    outSettles,     \* qdr_delivery_remote_state_updated(out_dlv, settled) calls
    outMsg,         \* out message as produced by the router: none, partial, complete, aborted
    pushPending,    \* the router has out_dlv content for qdr_http_deliver
    headerSent,     \* stream_data->out_msg_header_sent
    hasBody,        \* stream_data->out_msg_has_body
    dataItem,       \* nghttp2 data provider of this stream: none, deferred, blocked, eof
    bodySent,       \* stream_data->out_msg_body_sent
    sendComplete,   \* stream_data->out_msg_send_complete
    localDisp,      \* stream_data->out_dlv_local_disposition
    dispUpdated,    \* stream_data->disp_updated
    dispApplied,    \* stream_data->disp_applied
    forceClosed,    \* stream_data->stream_force_closed
    connUp,         \* the raw connection has not been DISCONNECTED
    applied,        \* disposition qdr_http_delivery_update applied, or none
    goawayFreed     \* history: the stream was freed by the GOAWAY handler

vars == <<ingress, live, status, peer, esSent, writePending, closedWrite, inDlv, inCtx,
          inDecref, inRel, inUpdate, outDlv, outInc, outDecref, outRel,
          outSettles, outMsg, pushPending, headerSent, hasBody, dataItem,
          bodySent, sendComplete, localDisp, dispUpdated, dispApplied,
          forceClosed, connUp, applied, goawayFreed>>

\* What handle_outgoing_http may change besides out_dlv.
sendVars == <<status, esSent, outDecref, outRel, outSettles,
              headerSent, hasBody, dataItem, bodySent, sendComplete,
              localDisp, dispUpdated>>
inVars == <<inDlv, inCtx, inDecref, inRel, inUpdate>>
coreVars == <<outMsg, pushPending, outInc>>

-----------------------------------------------------------------------------
(* Helpers                                                                 *)

\* advance_stream_status: OPEN -> HALF_CLOSED -> FULLY_CLOSED, then stays.
Advance(s) == IF s = "OPEN" THEN "HALF" ELSE "FULL"

\* One more qdr_delivery_remote_state_updated(out_dlv, ..., settled=true).
\* Counted up to 2, which is all the properties tell apart.
SettleOut == outSettles' = IF outSettles < 2 THEN outSettles + 1 ELSE 2

\* nghttp2 still delivers frames of the stream to the adaptor.
InSession == peer # "reset" /\ ~(esSent /\ peer = "done")

\* Fault: free releases in_dlv without looking at in_dlv_decrefed.
FreeStreamIgnoringDecref(inDec, inRelNow) ==
    /\ live' = FALSE
    /\ inRel' = IF inDlv THEN inRelNow + 1 ELSE inRelNow
    /\ outRel' = IF outDlv /\ ~outDecref THEN outRel + 1 ELSE outRel

\* free_http2_stream_data, given whether in_dlv_decrefed and the adaptor's
\* in_dlv release count are as at the call: drop each delivery reference
\* the stream still holds and free the record.
FreeStream(inDec, inRelNow) ==
    /\ live' = FALSE
    /\ inRel' = IF inDlv /\ ~inDec THEN inRelNow + 1 ELSE inRelNow
    /\ outRel' = IF outDlv /\ ~outDecref THEN outRel + 1 ELSE outRel

\* read_data_callback, run by nghttp2_session_send on the stream's data
\* provider: the outcomes as [item, body (out_msg_body_sent), disp
\* (out_dlv_local_disposition), es (END_STREAM sent)].  A body still
\* arriving defers; write capacity is zero only while written buffers are
\* still with proton; an aborted or invalid body ends the DATA with
\* END_STREAM and REJECTED but leaves out_msg_body_sent unset.  The
\* stream's flow-control window may run out before the body's end: the
\* item stays active ("blocked") until the peer's WINDOW_UPDATE.
ReadData(wp) ==
    LET deferred == [item |-> "deferred", body |-> bodySent,
                     disp |-> "NONE", es |-> esSent]
        blocked  == [item |-> "blocked", body |-> bodySent,
                     disp |-> localDisp, es |-> esSent]
    IN CASE outMsg = "partial" -> {deferred, blocked}
         [] outMsg = "complete" ->
              {[item |-> "eof", body |-> TRUE, disp |-> "ACCEPTED", es |-> TRUE],
               blocked}
              \cup (IF wp THEN {deferred} ELSE {})
         [] OTHER ->
              {[item |-> "eof", body |-> bodySent, disp |-> "REJECTED", es |-> TRUE]}

\* Fault: the settle in handle_outgoing_http clears out_dlv and sets the
\* flag but leaves out the qdr_delivery_decref.
HandleOutgoingHttpNoDecref(od, wp) ==
    IF closedWrite \/ ~od \/ sendComplete
    THEN outDlv' = od /\ writePending' = wp /\ UNCHANGED sendVars
    ELSE
      \E empty \in (IF ~headerSent /\ outMsg = "complete" THEN BOOLEAN ELSE {FALSE}),
         rd \in ReadData(wp) :
        LET hb   == IF headerSent THEN hasBody ELSE ~empty
            read == hb /\ (~headerSent \/ dataItem = "deferred")
            r    == IF read THEN rd
                    ELSE [item |-> dataItem, body |-> bodySent,
                          disp |-> localDisp, es |-> esSent \/ ~hb]
            sc   == IF hb THEN r.body ELSE TRUE
            st   == IF sc THEN Advance(status) ELSE status
            done == sc /\ ~dispUpdated /\ st = "FULL"
        IN /\ headerSent' = TRUE /\ hasBody' = hb /\ dataItem' = r.item
           /\ bodySent' = r.body /\ localDisp' = r.disp /\ esSent' = r.es
           /\ writePending' = (wp \/ ~headerSent \/ r.item \in {"eof", "blocked"})
           /\ sendComplete' = sc /\ status' = st
           /\ IF done
              THEN /\ SettleOut /\ dispUpdated' = TRUE /\ outDecref' = TRUE
                   /\ outDlv' = FALSE /\ UNCHANGED outRel
              ELSE /\ outDlv' = od
                   /\ UNCHANGED <<outSettles, dispUpdated, outDecref, outRel>>

\* handle_outgoing_http with out_dlv set or not (od), and written buffers
\* still with proton or not (wp).  It submits the
\* headers once (with END_STREAM when the complete message has no body),
\* then submits or resumes the data provider, marks send complete when the
\* body has gone out, advances the status, and when that closes the stream
\* settles and releases out_dlv.
HandleOutgoingHttp(od, wp) ==
    IF closedWrite \/ ~od \/ sendComplete
    THEN outDlv' = od /\ writePending' = wp /\ UNCHANGED sendVars
    ELSE
      \E empty \in (IF ~headerSent /\ outMsg = "complete" THEN BOOLEAN ELSE {FALSE}),
         rd \in ReadData(wp) :
        LET hb   == IF headerSent THEN hasBody ELSE ~empty
            read == hb /\ (~headerSent \/ dataItem = "deferred")
            r    == IF read THEN rd
                    ELSE [item |-> dataItem, body |-> bodySent,
                          disp |-> localDisp, es |-> esSent \/ ~hb]
            sc   == IF hb THEN r.body ELSE TRUE
            st   == IF sc THEN Advance(status) ELSE status
            done == sc /\ ~dispUpdated /\ st = "FULL"
        IN /\ headerSent' = TRUE
           /\ hasBody' = hb
           /\ dataItem' = r.item
           /\ bodySent' = r.body
           /\ localDisp' = r.disp
           /\ esSent' = r.es
           /\ writePending' = (wp \/ ~headerSent \/ r.item \in {"eof", "blocked"})
           /\ sendComplete' = sc
           /\ status' = st
           /\ IF done
              THEN /\ SettleOut
                   /\ dispUpdated' = TRUE
                   /\ outDecref' = TRUE
                   /\ outRel' = outRel + 1
                   /\ outDlv' = FALSE
              ELSE /\ outDlv' = od
                   /\ UNCHANGED <<outSettles, dispUpdated, outDecref, outRel>>

\* Fault: the check forgets disp_updated.
SettleIfClosedTwice(st) ==
    IF outDlv /\ ~outDecref /\ st = "FULL"
    THEN SettleOut /\ dispUpdated' = TRUE
    ELSE UNCHANGED <<outSettles, dispUpdated>>

\* The check after the peer's END_STREAM on DATA or HEADERS and in
\* restart_streams: settle out_dlv once the stream is fully closed.
SettleIfClosed(st) ==
    IF outDlv /\ ~dispUpdated /\ ~outDecref /\ st = "FULL"
    THEN SettleOut /\ dispUpdated' = TRUE
    ELSE UNCHANGED <<outSettles, dispUpdated>>

-----------------------------------------------------------------------------
\* create_qdr_http2_stream_data: status OPEN, out_msg_has_body true.  An
\* ingress stream is created by the client's first HEADERS frame; an egress
\* stream by qdr_http_deliver on the stream dispatcher link, which sets and
\* references out_dlv, a message the router may already have completed.
Init ==
    /\ ingress \in BOOLEAN
    /\ live = TRUE /\ status = "OPEN" /\ peer = "idle"
    /\ esSent = FALSE /\ writePending = FALSE /\ closedWrite = FALSE
    /\ inDlv = FALSE /\ inCtx = FALSE /\ inDecref = FALSE /\ inRel = 0
    /\ inUpdate = "none"
    /\ outDlv = ~ingress /\ outInc = IF ingress THEN 0 ELSE 1
    /\ outDecref = FALSE /\ outRel = 0 /\ outSettles = 0
    /\ outMsg \in IF ingress THEN {"none"} ELSE {"partial", "complete"}
    /\ pushPending = ~ingress
    /\ headerSent = FALSE /\ hasBody = TRUE /\ dataItem = "none"
    /\ bodySent = FALSE /\ sendComplete = FALSE /\ localDisp = "NONE"
    /\ dispUpdated = FALSE /\ dispApplied = FALSE /\ forceClosed = FALSE
    /\ connUp = TRUE /\ applied = "none"
    /\ goawayFreed = FALSE

-----------------------------------------------------------------------------
(* The router core                                                         *)

\* On ingress the router delivers the response on the stream's out link
\* once the request has been routed.
CoreDeliversResponse ==
    /\ ingress /\ live /\ inDlv /\ outMsg = "none"
    /\ outMsg' \in {"partial", "complete"}
    /\ pushPending' = TRUE
    /\ UNCHANGED <<live, sendVars, writePending, outDlv, peer, closedWrite, inVars, outInc,
                   dispApplied, forceClosed, connUp, applied>>

\* The out message grows, completes or is aborted by its sender, and the
\* router offers out_dlv to qdr_http_deliver again.
CoreProduces ==
    /\ live /\ outMsg = "partial"
    /\ \E m \in {"partial", "complete", "aborted"} :
          /\ m = "partial" => ~pushPending
          /\ outMsg' = m
    /\ pushPending' = TRUE
    /\ UNCHANGED <<live, sendVars, writePending, outDlv, peer, closedWrite, inVars, outInc,
                   dispApplied, forceClosed, connUp, applied>>

\* The router settles in_dlv (its consumer accepted, released or rejected
\* it); qdr_http_delivery_update runs on the connection thread later.
CoreSettlesIn ==
    /\ live /\ inDlv /\ inUpdate = "none"
    /\ \E d \in Disps : inUpdate' = d
    /\ UNCHANGED <<live, sendVars, writePending, outDlv, peer, closedWrite, inDlv, inCtx, inDecref,
                   inRel, coreVars, dispApplied, forceClosed, connUp, applied>>

\* qdr_http_deliver for the out link: on ingress the first call sets and
\* references out_dlv; then handle_outgoing_http.  Its return value is
\* always 0, so the free behind "disp == PN_ACCEPTED" never runs.
QdrHttpDeliver ==
    /\ live /\ pushPending
    /\ pushPending' = FALSE
    /\ LET adopt == ingress /\ ~outDlv
       IN /\ outInc' = IF adopt THEN outInc + 1 ELSE outInc
          /\ HandleOutgoingHttp(outDlv \/ adopt, writePending)
    /\ UNCHANGED <<live, peer, closedWrite, inVars, outMsg, dispApplied,
                   forceClosed, connUp, applied>>

-----------------------------------------------------------------------------
(* Frames from the HTTP/2 peer (on_frame_recv_callback)                     *)

\* The peer may speak on an egress stream only after our request headers.
PeerMaySend == live /\ InSession /\ (ingress \/ headerSent)

\* HEADERS with END_HEADERS and without END_STREAM: all headers arrived.
PeerHeaders ==
    /\ PeerMaySend /\ peer = "idle"
    /\ peer' = "open"
    /\ UNCHANGED <<live, sendVars, writePending, outDlv, closedWrite, inVars, coreVars,
                   dispApplied, forceClosed, connUp, applied>>

\* HEADERS with END_HEADERS and END_STREAM (headers of a bodiless message,
\* or trailers): receive complete, advance the status, and settle out_dlv
\* if that closed the stream.
PeerHeadersEnd ==
    /\ PeerMaySend /\ peer \in {"idle", "open"}
    /\ peer' = "done"
    /\ status' = Advance(status)
    /\ SettleIfClosed(Advance(status))
    /\ UNCHANGED <<live, esSent, writePending, outDlv, outDecref, outRel,
                   headerSent, hasBody, dataItem, bodySent, sendComplete,
                   localDisp, closedWrite, inVars, coreVars, dispApplied,
                   forceClosed, connUp, applied>>

\* DATA with END_STREAM: the same, after qdr_delivery_continue of in_dlv.
PeerDataEnd ==
    /\ PeerMaySend /\ peer = "open"
    /\ peer' = "done"
    /\ status' = Advance(status)
    /\ SettleIfClosed(Advance(status))
    /\ UNCHANGED <<live, esSent, writePending, outDlv, outDecref, outRel,
                   headerSent, hasBody, dataItem, bodySent, sendComplete,
                   localDisp, closedWrite, inVars, coreVars, dispApplied,
                   forceClosed, connUp, applied>>

\* Fault: the RST_STREAM handler frees the stream without clearing
\* in_dlv's context (the handler before issue 1106 was fixed).
PeerRstKeepingContext ==
    /\ PeerMaySend
    /\ peer' = "reset"
    /\ IF outDlv
       THEN /\ localDisp' = "REJECTED"
            /\ SettleOut
       ELSE UNCHANGED <<localDisp, outSettles>>
    /\ FreeStream(inDecref, inRel)
    /\ UNCHANGED <<status, esSent, writePending, outDlv, outDecref, headerSent,
                   hasBody, dataItem, bodySent, sendComplete, dispUpdated,
                   closedWrite, inDlv, inCtx, inDecref, inUpdate, coreVars,
                   dispApplied, forceClosed, connUp, applied>>

\* RST_STREAM: reject out_dlv if it is set, clear in_dlv's context unless
\* it was released, and free the stream.
PeerRst ==
    /\ PeerMaySend
    /\ peer' = "reset"
    /\ IF outDlv
       THEN /\ localDisp' = "REJECTED"
            /\ SettleOut
       ELSE UNCHANGED <<localDisp, outSettles>>
    /\ inCtx' = (inCtx /\ ~(inDlv /\ ~inDecref))
    /\ FreeStream(inDecref, inRel)
    /\ UNCHANGED <<status, esSent, writePending, outDlv, outDecref, headerSent,
                   hasBody, dataItem, bodySent, sendComplete, dispUpdated,
                   closedWrite, inDlv, inDecref, inUpdate, coreVars,
                   dispApplied, forceClosed, connUp, applied>>

\* route_delivery / compose_and_deliver once all headers have arrived and
\* the in link has credit (and, on ingress, the reply-to address): route
\* in_dlv and point its context at the stream.
RouteDelivery ==
    /\ live /\ peer \in {"open", "done"} /\ ~inDlv
    /\ inDlv' = TRUE
    /\ inCtx' = TRUE
    /\ UNCHANGED <<live, sendVars, writePending, outDlv, peer, closedWrite, inDecref, inRel,
                   inUpdate, coreVars, dispApplied, forceClosed, connUp, applied>>

-----------------------------------------------------------------------------
(* Router callbacks and raw connection events                              *)

\* qdr_http_delivery_update for in_dlv settled with disposition d.  With
\* no context it returns.  Otherwise: egress marks the stream force closed
\* on RELEASED/MODIFIED/REJECTED; ingress then submits a 503 or 400
\* response with END_STREAM; egress submits DATA with END_STREAM (refused
\* by nghttp2 while the stream's data provider is attached, and otherwise
\* our END_STREAM is already out), advances the status and marks send
\* complete.  Then it clears the context, releases in_dlv and frees the
\* stream if it is send complete and fully closed, else sets disp_applied.
QdrHttpDeliveryUpdate ==
    /\ live /\ inUpdate \in Disps
    /\ inUpdate' = "done"
    /\ IF ~inCtx
       THEN UNCHANGED <<live, sendVars, writePending, outDlv, inDlv, inCtx,
                        inDecref, inRel, dispApplied, forceClosed, applied>>
       ELSE LET bad  == inUpdate # "ACCEPTED"
                st   == IF ~ingress /\ bad THEN Advance(status) ELSE status
                sc   == sendComplete \/ (~ingress /\ bad)
            IN /\ forceClosed' = (forceClosed \/ (~ingress /\ bad))
               /\ esSent' = (esSent \/ (ingress /\ bad))
               /\ writePending' = (writePending \/ (ingress /\ bad))
               /\ status' = st
               /\ sendComplete' = sc
               /\ applied' = inUpdate
               /\ inCtx' = FALSE
               /\ inDecref' = TRUE
               /\ IF sc /\ st = "FULL"
                  THEN FreeStream(TRUE, inRel + 1) /\ UNCHANGED dispApplied
                  ELSE /\ inRel' = inRel + 1
                       /\ dispApplied' = TRUE
                       /\ UNCHANGED <<live, outRel>>
               /\ UNCHANGED <<outDlv, outDecref, outSettles, headerSent, hasBody,
                              dataItem, bodySent, localDisp, dispUpdated, inDlv>>
    /\ UNCHANGED <<peer, closedWrite, coreVars, connUp>>

\* restart_streams for this stream: a fully closed stream settles out_dlv
\* if nobody has and is freed once send complete with its disposition
\* applied; any other stream not yet ACCEPTED is pushed again.
RestartStreams ==
    IF status = "FULL"
    THEN /\ SettleIfClosed(status)
         /\ IF sendComplete /\ dispApplied
            THEN FreeStream(inDecref, inRel)
            ELSE UNCHANGED <<live, inRel, outRel>>
         /\ writePending' = FALSE
         /\ UNCHANGED <<status, esSent, outDlv, outDecref, headerSent, hasBody,
                        dataItem, bodySent, sendComplete, localDisp>>
    ELSE IF localDisp # "ACCEPTED"
         THEN HandleOutgoingHttp(outDlv, FALSE) /\ UNCHANGED <<live, inRel>>
         ELSE /\ writePending' = FALSE
              /\ UNCHANGED <<live, sendVars, outDlv, inRel>>

\* PN_RAW_CONNECTION_WRITTEN: take back the written buffers, then
\* restart_streams.
RawWritten ==
    /\ live /\ writePending
    /\ RestartStreams
    /\ UNCHANGED <<peer, closedWrite, inDlv, inCtx, inDecref, inUpdate,
                   coreVars, dispApplied, forceClosed, connUp, applied>>

\* PN_RAW_CONNECTION_CLOSED_WRITE: conn->raw_closed_write is set.
RawClosedWrite ==
    /\ live /\ ~closedWrite
    /\ closedWrite' = TRUE
    /\ UNCHANGED <<live, sendVars, writePending, outDlv, peer, inVars,
                   coreVars, dispApplied, forceClosed, connUp, applied>>

\* PN_RAW_CONNECTION_DISCONNECTED: clean_http2_conn frees every stream of
\* the connection with free_all_connection_streams.
Disconnected ==
    /\ live
    /\ connUp' = FALSE
    /\ FreeStream(inDecref, inRel)
    /\ UNCHANGED <<status, esSent, writePending, outDlv, outDecref, outSettles,
                   headerSent, hasBody, dataItem, bodySent, sendComplete,
                   localDisp, dispUpdated, peer, closedWrite, inDlv, inCtx,
                   inDecref, inUpdate, coreVars, dispApplied, forceClosed,
                   applied>>

\* free_unprocessed_streams frees the stream when its id is above the
\* GOAWAY's last_stream_id.  That id counts streams the receiver of the
\* GOAWAY opened.  On ingress the router opens none, so nghttp2 accepts
\* only 0 and every request stream is above it.  On egress the server
\* names the last request it processed; a stream it answered is at or
\* below it, and one it has not answered may be on either side.
GoawayFrees ==
    IF ingress THEN {TRUE}
    ELSE IF peer = "idle" THEN BOOLEAN ELSE {FALSE}

\* on_frame_recv_callback, GOAWAY: free the unprocessed streams with
\* free_http2_stream_data, set goaway_received and close the raw
\* connection (its CLOSED_WRITE and DISCONNECTED follow as events).
PeerGoaway ==
    /\ live /\ connUp
    /\ \E unprocessed \in GoawayFrees :
          IF unprocessed
          THEN FreeStream(inDecref, inRel) /\ goawayFreed' = TRUE
          ELSE UNCHANGED <<live, inRel, outRel, goawayFreed>>
    /\ UNCHANGED <<status, esSent, writePending, outDlv, outDecref, outSettles,
                   headerSent, hasBody, dataItem, bodySent, sendComplete,
                   localDisp, dispUpdated, peer, closedWrite, inDlv, inCtx,
                   inDecref, inUpdate, coreVars, dispApplied, forceClosed,
                   connUp, applied>>

\* WINDOW_UPDATE from the peer: handle_incoming_http ends with
\* nghttp2_session_send, which runs read_data_callback on the blocked
\* item again.  Nothing of handle_outgoing_http runs: send complete, the
\* status advance and the settle stay as they were.
PeerWindowUpdate ==
    /\ live /\ InSession /\ dataItem = "blocked"
    /\ \E rd \in ReadData(writePending) :
          /\ dataItem' = rd.item
          /\ bodySent' = rd.body
          /\ localDisp' = rd.disp
          /\ esSent' = rd.es
          /\ writePending' = (writePending \/ rd.item \in {"eof", "blocked"})
    /\ UNCHANGED <<live, status, outDlv, outDecref, outRel, outSettles,
                   headerSent, hasBody, sendComplete, dispUpdated, peer,
                   closedWrite, inVars, coreVars, dispApplied, forceClosed,
                   connUp, applied>>

\* The stream is freed: no handler reaches it again.
Freed ==
    /\ ~live
    /\ UNCHANGED vars

\* A connection is an ingress or an egress one for its whole life.
Next ==
    /\ \/ /\ \/ CoreDeliversResponse \/ CoreProduces \/ CoreSettlesIn
             \/ QdrHttpDeliver \/ PeerHeaders \/ PeerHeadersEnd \/ PeerDataEnd
             \/ PeerRst \/ RouteDelivery \/ QdrHttpDeliveryUpdate \/ RawWritten
             \/ RawClosedWrite \/ PeerWindowUpdate \/ Disconnected \/ Freed
          /\ UNCHANGED goawayFreed
       \/ PeerGoaway
    /\ UNCHANGED ingress

Spec == Init /\ [][Next]_vars

\* The router core runs qdr_http_deliver and qdr_http_delivery_update once
\* it has work queued for the connection and the connection is woken, and
\* proton delivers WRITTEN for buffers it has written.  The peer, the
\* router's production and settling of messages and the transport are the
\* environment and get no fairness.
FairSpec ==
    /\ Spec
    /\ WF_vars(QdrHttpDeliver /\ UNCHANGED <<ingress, goawayFreed>>)
    /\ WF_vars(QdrHttpDeliveryUpdate /\ UNCHANGED <<ingress, goawayFreed>>)
    /\ WF_vars(RawWritten /\ UNCHANGED <<ingress, goawayFreed>>)

-----------------------------------------------------------------------------
(* Properties                                                              *)

TypeOK ==
    /\ live \in BOOLEAN /\ status \in Status
    /\ peer \in {"idle", "open", "done", "reset"}
    /\ {esSent, writePending, closedWrite, inDlv, inCtx, inDecref, outDlv,
        outDecref, pushPending, headerSent, hasBody, bodySent, sendComplete,
        dispUpdated, dispApplied, forceClosed, connUp, goawayFreed} \subseteq BOOLEAN
    /\ inRel \in 0..1 /\ outInc \in 0..2 /\ outRel \in 0..2
    /\ outSettles \in 0..2
    /\ inUpdate \in {"none", "done"} \cup Disps
    /\ applied \in {"none"} \cup Disps
    /\ outMsg \in {"none", "partial", "complete", "aborted"}
    /\ dataItem \in {"none", "deferred", "blocked", "eof"}
    /\ localDisp \in LocalDisps

\* References: once the stream record is freed, the adaptor has dropped
\* every delivery reference it took, each exactly once (in_dlv from
\* qdr_link_deliver, out_dlv from the incref in qdr_http_deliver), across
\* qdr_http_delivery_update, handle_outgoing_http and
\* free_http2_stream_data.  On egress only: on ingress the core may offer
\* a response already settled in restart_streams to qdr_http_deliver again,
\* and the second reference is never dropped (README, the readoption leak).
RefsBalanced ==
    (~ingress /\ ~live) => /\ inRel = IF inDlv THEN 1 ELSE 0
                           /\ outRel = outInc

\* A stream freed while its connection is up leaves no delivery whose
\* context still points at it, so a later qdr_http_delivery_update cannot
\* reach freed memory (the RST_STREAM handler clears in_dlv's context
\* before free_http2_stream_data).
NoDanglingContext ==
    (~live /\ connUp) => ~inCtx

\* The same for every free but GOAWAY's, which is checked on its own
\* (README, finding 11): the RST_STREAM handler clears in_dlv's context
\* unless the delivery was already released, qdr_http_delivery_update
\* clears it before it frees, and restart_streams frees only a stream
\* whose disposition was applied, so whose context is already cleared.
NoDanglingContextButGoaway ==
    (~live /\ connUp /\ ~goawayFreed) => ~inCtx

\* The specification: qdr_delivery_remote_state_updated with settled=true
\* is emitted at most once for a delivery (spec.md section 8).  On ingress
\* only: on egress a RST_STREAM after the server's END_STREAM settles the
\* request a second time (README, finding 6).
OutSettledOnce ==
    ingress => outSettles <= 1

\* The specification: a request settled RELEASED or REJECTED on ingress
\* gets a 503 or 400 with END_STREAM and the stream reaches FULLY_CLOSED
\* (spec.md section 8, scenario 5), here once the client has ended its
\* side too.
ErrorResponseCloses ==
    (ingress /\ live /\ applied \in {"RELEASED", "REJECTED"} /\ peer = "done")
        ~> (status = "FULL" \/ ~live \/ closedWrite)

====
