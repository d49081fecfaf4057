---------------------------- MODULE Http2OutBody ----------------------------
(***************************************************************************)
(* How the adaptor writes the body of an outgoing message onto its HTTP/2  *)
(* stream (src/src/adaptors/http2/http2_adaptor.c): handle_outgoing_http   *)
(* submits the headers and a DATA provider, nghttp2_session_send calls     *)
(* read_data_callback and send_data_callback while the stream's            *)
(* flow-control window lasts, and handle_outgoing_http finally submits the *)
(* footer as trailers and marks the message send complete.                 *)
(*                                                                         *)
(* The message is a sequence of sections (body data, then at most one      *)
(* footer) that the router core appends on its own thread while the        *)
(* adaptor reads it; qd_message_next_stream_data hands them out one by one *)
(* as stream-data windows that must each be released once.  A section is   *)
(* abstracted to its kind and payload length; a byte on the wire is the    *)
(* number of the section it was copied from.                               *)
(*                                                                         *)
(* The connection's proactor thread runs qdr_http_deliver, WRITTEN and     *)
(* incoming frames one at a time.  handle_outgoing_http is split at its    *)
(* nghttp2_session_send: each callback nghttp2 makes is a step, so that    *)
(* the core may extend the message between two of them.                   *)
(***************************************************************************)
EXTENDS Integers, Sequences, SequencesExt

CONSTANTS
    Shapes,      \* the messages the router may hand the adaptor
    MaxBuf,      \* QD_ADAPTOR_MAX_BUFFER_SIZE and the peer's max frame size
    MaxWindow    \* bound of the stream's flow-control window

\* Sections of a message.
Body(n) == [kind |-> "body", len |-> n]
Footer == [kind |-> "footer", len |-> 0]

\* qd_message_stream_data_result_t
Results == {"BODY_OK", "FOOTER_OK", "INCOMPLETE", "NO_MORE", "ABORTED"}

VARIABLES
    content,     \* the sections of the out message, in order
    arrived,     \* how many of them the core has appended
    term,        \* open, complete (receive complete) or aborted
    pushPending, \* the core has new content for qdr_http_deliver
    sd,          \* the stream record's outbound fields (qdr_http2_stream_data_t)
    item,        \* nghttp2's DATA item for the stream: none, active, deferred, done
    window,      \* the stream's remaining flow-control window
    pc,          \* where the proactor thread is: idle, out_send, out_tail, in_send
    writing,     \* written buffers are with proton, WRITTEN not yet handled
    wire,        \* what the adaptor put into conn->out_buffs, in order
    flushed,     \* how much of wire has been handed to proton
    stale,       \* a released or missing window was read (observation)
    live         \* the stream record is not freed

vars == <<content, arrived, term, pushPending, sd, item, window, pc, writing,
          wire, flushed, stale, live>>
coreVars == <<content, arrived, term, pushPending>>

Sections == 1..3
Ref == 0..3                     \* a section number, or 0 for none

-----------------------------------------------------------------------------
(* The message API (src/include/qpid/dispatch/message.h)                   *)

\* qd_message_next_stream_data after k sections have been handed out.  An
\* aborted message only answers ABORTED; a complete one NO_MORE after its
\* last section; otherwise a section not yet appended is INCOMPLETE.
NextSection(k) ==
    CASE term = "aborted" -> [res |-> "ABORTED", sec |-> 0, k |-> k]
      [] k < arrived ->
           [res |-> IF content[k + 1].kind = "body" THEN "BODY_OK" ELSE "FOOTER_OK",
            sec |-> k + 1, k |-> k + 1]
      [] term = "complete" -> [res |-> "NO_MORE", sec |-> 0, k |-> k]
      [] OTHER -> [res |-> "INCOMPLETE", sec |-> 0, k |-> k]

\* qd_message_check_depth(QD_DEPTH_BODY) is OK once a section has arrived
\* or the message has ended.
DepthOk == arrived > 0 \/ term # "open"

\* qd_message_stream_data_release of window i (a no-op for none), counted.
Release(s, i) ==
    IF i = 0 THEN s
    ELSE [s EXCEPT !.released[i] = IF @ < 2 THEN @ + 1 ELSE 2]

\* The stream record with the next section fetched into next_stream_data.
LookAhead(s) ==
    LET f == NextSection(s.cursor)
    IN [s EXCEPT !.next = f.sec, !.nextRes = f.res, !.cursor = f.k]

-----------------------------------------------------------------------------
(* read_data_callback                                                      *)

\* NGHTTP2_ERR_DEFERRED, the negative value read_data_callback returns.
DEFERRED == -1

\* Outcomes of read_data_callback: the new record, the byte count or
\* DEFERRED, and the EOF and NO_END_STREAM flags.
Ret(s, n, eof, noEs) == [st |-> s, n |-> n, eof |-> eof, noEs |-> noEs]
Deferred(s) == Ret([s EXCEPT !.disp = "NONE"], DEFERRED, FALSE, FALSE)

\* Fault: the middle of a long section is cut at the buffer size, not at
\* the length nghttp2 allows.
ReadBodyIgnoringLength(s, length, cap) ==
    LET plen == content[s.curr].len
        rem  == plen - s.handled
    IN
    CASE ~cap -> Deferred(s)
      [] plen = 0 ->
           \* an empty section: look ahead one to see whether the body ends
           LET t == LookAhead(s)
           IN CASE t.nextRes = "NO_MORE" ->
                     LET u == IF t.hasFooter THEN t
                              ELSE [Release(t, t.curr) EXCEPT !.iter = 0, !.curr = 0]
                     IN Ret([Release(u, u.next) EXCEPT !.eof = TRUE, !.bodySent = TRUE,
                               !.full = TRUE, !.next = 0, !.disp = "ACCEPTED"],
                            0, TRUE, FALSE)
                [] t.nextRes = "FOOTER_OK" -> Ret([t EXCEPT !.full = TRUE], 0, FALSE, FALSE)
                [] OTHER -> Ret([Release(t, t.curr) EXCEPT !.iter = 0, !.curr = 0],
                                0, FALSE, FALSE)
      [] rem <= MaxBuf /\ length < rem -> Ret([s EXCEPT !.full = FALSE], length, FALSE, FALSE)
      [] rem <= MaxBuf ->
           \* the rest of the section goes: look ahead one section
           LET t == LookAhead([s EXCEPT !.full = TRUE])
           IN CASE t.nextRes = "NO_MORE" ->
                     Ret([t EXCEPT !.eof = TRUE, !.bodySent = TRUE, !.disp = "ACCEPTED"],
                         rem, TRUE, FALSE)
                [] t.nextRes = "FOOTER_OK" ->
                     Ret([t EXCEPT !.hasFooter = TRUE, !.bodySent = TRUE], rem, FALSE, FALSE)
                [] OTHER -> Ret(t, rem, FALSE, FALSE)
      [] OTHER ->
           Ret([s EXCEPT !.full = FALSE], MaxBuf, FALSE, FALSE)

\* BODY_OK with length requested, cap the raw connection's write capacity.
ReadBody(s, length, cap) ==
    LET plen == content[s.curr].len
        rem  == plen - s.handled
    IN
    CASE ~cap -> Deferred(s)
      [] plen = 0 ->
           \* an empty section: look ahead one to see whether the body ends
           LET t == LookAhead(s)
           IN CASE t.nextRes = "NO_MORE" ->
                     LET u == IF t.hasFooter THEN t
                              ELSE [Release(t, t.curr) EXCEPT !.iter = 0, !.curr = 0]
                     IN Ret([Release(u, u.next) EXCEPT !.eof = TRUE, !.bodySent = TRUE,
                               !.full = TRUE, !.next = 0, !.disp = "ACCEPTED"],
                            0, TRUE, FALSE)
                [] t.nextRes = "FOOTER_OK" -> Ret([t EXCEPT !.full = TRUE], 0, FALSE, FALSE)
                [] OTHER -> Ret([Release(t, t.curr) EXCEPT !.iter = 0, !.curr = 0],
                                0, FALSE, FALSE)
      [] rem <= MaxBuf /\ length < rem -> Ret([s EXCEPT !.full = FALSE], length, FALSE, FALSE)
      [] rem <= MaxBuf ->
           \* the rest of the section goes: look ahead one section
           LET t == LookAhead([s EXCEPT !.full = TRUE])
           IN CASE t.nextRes = "NO_MORE" ->
                     Ret([t EXCEPT !.eof = TRUE, !.bodySent = TRUE, !.disp = "ACCEPTED"],
                         rem, TRUE, FALSE)
                [] t.nextRes = "FOOTER_OK" ->
                     Ret([t EXCEPT !.hasFooter = TRUE, !.bodySent = TRUE], rem, FALSE, FALSE)
                [] OTHER -> Ret(t, rem, FALSE, FALSE)
      [] OTHER ->
           Ret([s EXCEPT !.full = FALSE], IF length < MaxBuf THEN length ELSE MaxBuf,
               FALSE, FALSE)

\* FOOTER_OK: note the footer and look ahead once; a broken message after
\* it drops the footer.
ReadFooter(s) ==
    LET t == IF s.hasFooter THEN s ELSE LookAhead([s EXCEPT !.hasFooter = TRUE])
    IN IF t.nextRes = "ABORTED"
       THEN Ret([Release(t, t.next) EXCEPT !.hasFooter = FALSE, !.next = 0], 0, FALSE, FALSE)
       ELSE Ret(t, 0, FALSE, FALSE)

\* NO_MORE: end the DATA, without END_STREAM when trailers are to follow.
ReadEnd(s, cap) ==
    IF ~cap THEN Deferred(s)
    ELSE Ret([s EXCEPT !.eof = TRUE, !.full = TRUE, !.bodySent = TRUE,
                       !.disp = "ACCEPTED"],
             0, TRUE, s.hasFooter)

\* Fault: the current window is released but still referenced.
ReadAbortedKeepingCurr(s) ==
    Ret([Release(s, s.curr) EXCEPT !.eof = TRUE, !.disp = "REJECTED"], 0, TRUE, FALSE)

\* ABORTED: end the DATA with END_STREAM and reject the delivery.
ReadAborted(s) ==
    Ret([Release(s, s.curr) EXCEPT !.eof = TRUE, !.iter = IF s.curr # 0 THEN 0 ELSE @,
                                   !.curr = 0, !.disp = "REJECTED"],
        0, TRUE, FALSE)

\* Fault: a section not yet appended is taken for the end of the body.
ReadDataEndingIncomplete(s, length, cap) ==
    IF ~DepthOk THEN Deferred(s)
    ELSE
    LET s1 == IF s.next # 0
              THEN [s EXCEPT !.curr = s.next, !.iter = s.next,
                             !.currRes = s.nextRes, !.next = 0]
              ELSE s
        f  == NextSection(s1.cursor)
        s2 == IF s1.curr = 0
              THEN [s1 EXCEPT !.currRes = f.res, !.curr = f.sec, !.cursor = f.k,
                              !.iter = IF f.sec # 0 THEN f.sec ELSE @]
              ELSE s1
        s3 == IF s2.next = 0 /\ s2.nextRes \in {"NO_MORE", "ABORTED"}
              THEN [s2 EXCEPT !.currRes = s2.nextRes]
              ELSE s2
    IN CASE s3.currRes = "BODY_OK"    -> ReadBody(s3, length, cap)
         [] s3.currRes = "FOOTER_OK"  -> ReadFooter(s3)
         [] s3.currRes = "INCOMPLETE" -> ReadEnd(s3, cap)
         [] s3.currRes = "NO_MORE"    -> ReadEnd(s3, cap)
         [] OTHER                     -> ReadAborted(s3)

\* read_data_callback(length): promote the look-ahead window, fetch one if
\* there is none, let a look-ahead that ended the stream decide, and act on
\* the current result.
ReadData(s, length, cap) ==
    IF ~DepthOk THEN Deferred(s)
    ELSE
    LET s1 == IF s.next # 0
              THEN [s EXCEPT !.curr = s.next, !.iter = s.next,
                             !.currRes = s.nextRes, !.next = 0]
              ELSE s
        f  == NextSection(s1.cursor)
        s2 == IF s1.curr = 0
              THEN [s1 EXCEPT !.currRes = f.res, !.curr = f.sec, !.cursor = f.k,
                              !.iter = IF f.sec # 0 THEN f.sec ELSE @]
              ELSE s1
        s3 == IF s2.next = 0 /\ s2.nextRes \in {"NO_MORE", "ABORTED"}
              THEN [s2 EXCEPT !.currRes = s2.nextRes]
              ELSE s2
    IN CASE s3.currRes = "BODY_OK"    -> ReadBody(s3, length, cap)
         [] s3.currRes = "FOOTER_OK"  -> ReadFooter(s3)
         [] s3.currRes = "INCOMPLETE" -> Deferred(s3)
         [] s3.currRes = "NO_MORE"    -> ReadEnd(s3, cap)
         [] OTHER                     -> ReadAborted(s3)

-----------------------------------------------------------------------------
(* send_data_callback and the wire                                         *)

\* An entry of the wire: a frame or flag f, and the section it came from.
El(f, i) == [f |-> f, sec |-> i]

\* n body bytes copied from section i.
Bytes(i, n) == [j \in 1..n |-> El("DATA", i)]

\* The bytes of the message's body, in order.
BodyBytes == FlattenSeq([i \in 1..Len(content) |->
                            IF content[i].kind = "body" THEN Bytes(i, content[i].len)
                            ELSE <<>>])

\* Appending to conn->out_buffs; flush hands everything to proton.
\* wr: whether written buffers were with proton before.
Flush(w, wr) == /\ flushed' = Len(w)
                /\ writing' = (wr \/ Len(w) > flushed)

\* send_data_callback for a DATA frame of n bytes: copy them from the
\* current iterator (a frame header alone for an empty frame ending the
\* DATA), flush unless trailers are to follow, and once the window is
\* fully sent keep it as the footer or release it.
SendData(s, n, eof, noEs) ==
    LET w  == wire \o Bytes(s.iter, n) \o (IF eof /\ ~noEs THEN <<El("ES", 0)>> ELSE <<>>)
        t  == IF ~s.full THEN [s EXCEPT !.handled = @ + n]
              ELSE IF s.curr = 0 THEN [s EXCEPT !.handled = 0]
              ELSE IF s.currRes = "FOOTER_OK"
              THEN [s EXCEPT !.footerSd = s.curr, !.footerIter = s.iter,
                             !.iter = 0, !.curr = 0, !.handled = 0]
              ELSE [Release(s, s.curr) EXCEPT !.iter = 0, !.curr = 0, !.handled = 0]
    IN /\ wire' = w
       /\ stale' = (stale \/ (n > 0 /\ (s.iter = 0 \/ s.released[s.iter] > 0)))
       /\ IF ~s.hasFooter THEN Flush(w, writing) ELSE UNCHANGED <<flushed, writing>>
       /\ sd' = t

\* END_STREAM has gone out on the stream.
EsSent == \E i \in 1..Len(wire) : wire[i].f = "ES"

\* What pn_raw_connection_write_buffers_capacity may report: zero only
\* while written buffers are still with proton.
Capacity == IF writing THEN BOOLEAN ELSE {TRUE}

-----------------------------------------------------------------------------
(* The proactor thread                                                     *)

\* handle_outgoing_http, first call: fetch the first section and look ahead
\* past an empty one; a body that ends there goes as HEADERS with
\* END_STREAM, else the headers wait in out_buffs (delay_buffer_write) for
\* the DATA provider, which is submitted and run.
SubmitHeaders(wr) ==
    LET f  == NextSection(sd.cursor)
        s1 == [sd EXCEPT !.currRes = f.res, !.curr = f.sec, !.cursor = f.k]
        s2 == IF f.res = "BODY_OK" /\ content[f.sec].len = 0 THEN LookAhead(s1) ELSE s1
        nb == f.res = "BODY_OK" /\ content[f.sec].len = 0 /\ s2.nextRes = "NO_MORE"
        s3 == CASE nb -> [Release(Release(s2, s2.next), s2.curr) EXCEPT
                              !.next = 0, !.curr = 0, !.hasBody = FALSE]
                [] f.res = "BODY_OK" /\ content[f.sec].len > 0 -> [s2 EXCEPT !.iter = f.sec]
                [] OTHER -> s2
        w  == wire \o <<El("HDR", 0)>> \o (IF nb THEN <<El("ES", 0)>> ELSE <<>>)
    IN /\ sd' = s3
       /\ wire' = w
       /\ IF nb THEN Flush(w, wr) ELSE /\ writing' = wr /\ UNCHANGED flushed
       /\ item' = IF nb THEN "none" ELSE "active"
       /\ pc' = IF nb THEN "out_tail" ELSE "out_send"

\* Fault: a later call never resumes the deferred DATA item.
HandleOutgoingHttpWithoutResume(wr) ==
    IF sd.sendComplete THEN /\ writing' = wr /\ UNCHANGED <<sd, item, pc, wire, flushed>>
    ELSE IF ~sd.headerSent THEN SubmitHeaders(wr)
    ELSE /\ pc' = IF sd.hasBody THEN "out_send" ELSE "out_tail"
         /\ writing' = wr
         /\ UNCHANGED <<sd, item, wire, flushed>>

\* handle_outgoing_http up to its nghttp2_session_send: the headers the
\* first time, then nghttp2_session_resume_data of a deferred DATA item.
\* A message already send complete is left alone.
\* wr: whether written buffers are with proton when it is called.
HandleOutgoingHttp(wr) ==
    IF sd.sendComplete THEN /\ writing' = wr /\ UNCHANGED <<sd, item, pc, wire, flushed>>
    ELSE IF ~sd.headerSent THEN SubmitHeaders(wr)
    ELSE /\ item' = IF sd.hasBody /\ item = "deferred" THEN "active" ELSE item
         /\ pc' = IF sd.hasBody THEN "out_send" ELSE "out_tail"
         /\ writing' = wr
         /\ UNCHANGED <<sd, wire, flushed>>

\* nghttp2_session_send, one DATA frame: while the stream's DATA item is
\* active, its window open and our END_STREAM not sent, nghttp2 calls
\* read_data_callback for at most min(window, MaxBuf) bytes and, unless it
\* deferred, send_data_callback for the frame.
SendFrame ==
    /\ pc \in {"out_send", "in_send"}
    /\ item = "active" /\ window > 0 /\ ~EsSent
    /\ \E cap \in Capacity :
         LET r == ReadData(sd, IF window < MaxBuf THEN window ELSE MaxBuf, cap)
         IN IF r.n = DEFERRED
            THEN /\ sd' = r.st /\ item' = "deferred"
                 /\ UNCHANGED <<window, wire, flushed, writing, stale>>
            ELSE /\ SendData(r.st, r.n, r.eof, r.noEs)
                 /\ window' = window - r.n
                 /\ item' = IF r.eof THEN "done" ELSE "active"
    /\ UNCHANGED <<coreVars, pc, live>>

\* nghttp2_session_send returns once nothing more of the stream can go.
SendDone ==
    /\ pc \in {"out_send", "in_send"}
    /\ ~(item = "active" /\ window > 0 /\ ~EsSent)
    /\ pc' = IF pc = "out_send" THEN "out_tail" ELSE "idle"
    /\ UNCHANGED <<coreVars, sd, item, window, writing, wire, flushed, stale, live>>

\* The rest of handle_outgoing_http: out_msg_header_sent is set; a footer
\* goes as trailers (HEADERS with END_STREAM) built from the footer's
\* iterator once the body has been marked sent, and then the footer, the
\* current and the look-ahead windows are released; the message is send
\* complete once its body has been sent.  Without the footer's iterator
\* the trailers carry no footer fields (qd_parse of a null iterator).
\* nghttp2 refuses HEADERS on a stream whose END_STREAM has gone (an
\* aborted body), so then the trailers never reach the wire.
OutTail ==
    /\ pc = "out_tail"
    /\ LET trailers == sd.hasFooter /\ ~(sd.hasBody /\ ~sd.bodySent)
           fi       == sd.footerIter
           fields   == IF fi # 0 /\ sd.released[fi] = 0 /\ content[fi].kind = "footer"
                       THEN fi ELSE 0
           s1       == [sd EXCEPT !.headerSent = TRUE]
           s2       == IF trailers
                       THEN [Release(Release(Release(s1, s1.footerSd), s1.curr), s1.next)
                                EXCEPT !.curr = 0, !.iter = IF s1.curr # 0 THEN 0 ELSE @,
                                       !.next = 0]
                       ELSE s1
           w        == IF trailers /\ ~EsSent THEN wire \o <<El("TR", fields), El("ES", 0)>> ELSE wire
       IN /\ sd' = [s2 EXCEPT !.sendComplete = @ \/ ~s2.hasBody \/ s2.bodySent]
          /\ wire' = w
          /\ IF trailers THEN Flush(w, writing) ELSE UNCHANGED <<flushed, writing>>
          /\ stale' = (stale \/ (trailers /\ fi # 0 /\ sd.released[fi] > 0))
    /\ pc' = "idle"
    /\ UNCHANGED <<coreVars, item, window, live>>

\* qdr_http_deliver: the core offers out_dlv with new content.
QdrHttpDeliver ==
    /\ pc = "idle" /\ live /\ pushPending
    /\ pushPending' = FALSE
    /\ HandleOutgoingHttp(writing)
    /\ UNCHANGED <<content, arrived, term, window, stale, live>>

\* PN_RAW_CONNECTION_WRITTEN: proton gives back the written buffers and
\* restart_streams runs handle_outgoing_http on a stream whose local
\* disposition is not yet ACCEPTED.
RawWritten ==
    /\ pc = "idle" /\ live /\ writing
    /\ IF sd.disp # "ACCEPTED"
       THEN HandleOutgoingHttp(FALSE)
       ELSE /\ writing' = FALSE
            /\ UNCHANGED <<sd, item, pc, wire, flushed>>
    /\ UNCHANGED <<coreVars, window, stale, live>>

\* A WINDOW_UPDATE from the peer read by handle_incoming_http, which then
\* calls nghttp2_session_send.
WindowUpdate ==
    /\ pc = "idle" /\ live /\ window < MaxWindow
    /\ \E w \in window + 1..MaxWindow : window' = w
    /\ pc' = "in_send"
    /\ UNCHANGED <<coreVars, sd, item, writing, wire, flushed, stale, live>>

\* RST_STREAM or a closed connection: free_http2_stream_data releases the
\* current and look-ahead windows while it still holds a delivery, which
\* it does at least until the message is send complete.
FreeStream ==
    /\ pc = "idle" /\ live
    /\ \E held \in IF sd.sendComplete THEN BOOLEAN ELSE {TRUE} :
         sd' = IF held THEN [Release(Release(sd, sd.curr), sd.next) EXCEPT
                                !.curr = 0, !.iter = 0, !.next = 0]
               ELSE sd
    /\ live' = FALSE
    /\ UNCHANGED <<coreVars, item, window, pc, writing, wire, flushed, stale>>

\* Proton takes the buffers of other streams of the connection, flushing
\* out_buffs.
OtherWrite ==
    /\ pc = "idle" /\ flushed < Len(wire)
    /\ Flush(wire, writing)
    /\ UNCHANGED <<coreVars, sd, item, window, pc, wire, stale, live>>

-----------------------------------------------------------------------------
(* The router core, on its own thread                                      *)

\* The sender's next section arrives and the core offers the delivery.
CoreAppends ==
    /\ term = "open" /\ arrived < Len(content)
    /\ arrived' = arrived + 1
    /\ pushPending' = TRUE
    /\ UNCHANGED <<content, term, sd, item, window, pc, writing, wire, flushed, stale, live>>

\* The message becomes receive complete, or its sender aborts it.
CoreEnds ==
    /\ term = "open"
    /\ \E t \in {"complete", "aborted"} :
         /\ t = "complete" => arrived = Len(content)
         /\ term' = t
    /\ pushPending' = TRUE
    /\ UNCHANGED <<content, arrived, sd, item, window, pc, writing, wire, flushed, stale, live>>

-----------------------------------------------------------------------------
\* A stream record is created zeroed with out_msg_has_body set; the message
\* is routed with none, some or all of its sections.
Init ==
    /\ content \in Shapes
    /\ term = "open"
    /\ arrived \in 0..Len(content)
    /\ pushPending = TRUE
    /\ sd = [cursor |-> 0, curr |-> 0, currRes |-> "BODY_OK", next |-> 0,
             nextRes |-> "BODY_OK", iter |-> 0, footerSd |-> 0, footerIter |-> 0,
             handled |-> 0, full |-> FALSE, hasFooter |-> FALSE,
             bodySent |-> FALSE, eof |-> FALSE, disp |-> "NONE",
             hasBody |-> TRUE, headerSent |-> FALSE, sendComplete |-> FALSE,
             released |-> [i \in Sections |-> 0]]
    /\ item = "none" /\ window \in 1..MaxWindow /\ pc = "idle"
    /\ writing = FALSE /\ wire = <<>> /\ flushed = 0
    /\ stale = FALSE /\ live = TRUE

Next ==
    \/ QdrHttpDeliver \/ RawWritten \/ WindowUpdate
    \/ SendFrame \/ SendDone \/ OutTail
    \/ FreeStream \/ OtherWrite
    \/ CoreAppends \/ CoreEnds

Spec == Init /\ [][Next]_vars

\* The proactor thread runs every handler it has been given to completion,
\* and the core's wakes for qdr_http_deliver and proton's WRITTEN events
\* come.  The peer, the core's production and the transport get none.
FairSpec ==
    /\ Spec
    /\ WF_vars(SendFrame) /\ WF_vars(SendDone) /\ WF_vars(OutTail)
    /\ WF_vars(QdrHttpDeliver) /\ WF_vars(RawWritten)

-----------------------------------------------------------------------------
(* Properties                                                              *)

\* The body bytes on the wire.
WireBytes == SelectSeq(wire, LAMBDA e : e.f = "DATA")

\* The message carries a footer.
FooterOf == {i \in 1..Len(content) : content[i].kind = "footer"}

\* The peer keeps opening the stream's flow-control window.
WindowOpens == []<>(window > 0)

TypeOK ==
    /\ arrived \in 0..Len(content) /\ term \in {"open", "complete", "aborted"}
    /\ {pushPending, writing, stale, live} \subseteq BOOLEAN
    /\ sd.cursor \in 0..Len(content)
    /\ {sd.curr, sd.next, sd.iter, sd.footerSd, sd.footerIter} \subseteq Ref
    /\ {sd.currRes, sd.nextRes} \subseteq Results
    /\ sd.handled \in 0..3
    /\ {sd.full, sd.hasFooter, sd.bodySent, sd.eof, sd.hasBody, sd.headerSent,
        sd.sendComplete} \subseteq BOOLEAN
    /\ sd.disp \in {"NONE", "ACCEPTED", "REJECTED"}
    /\ sd.released \in [Sections -> 0..2]
    /\ item \in {"none", "active", "deferred", "done"}
    /\ window \in 0..MaxWindow
    /\ pc \in {"idle", "out_send", "out_tail", "in_send"}
    /\ flushed \in 0..Len(wire)

\* Windows are used safely: no stream-data window is released twice, and
\* send_data_callback and the trailers never read a window that is already
\* released, or none at all.
WindowsSafe ==
    /\ ~stale
    /\ \A i \in Sections : sd.released[i] <= 1

\* The specification: a trailer-only footer round-trips as an HTTP/2
\* trailers frame (spec.md section 9, scenario 3).  When END_STREAM ends a
\* complete message that has a footer, trailers carrying that footer went
\* before it.
FooterDelivered ==
    (EsSent /\ term = "complete")
        => \A f \in FooterOf : \E i \in 1..Len(wire) : wire[i] = El("TR", f)

\* The body keeps flowing: if the peer keeps opening the window, every byte
\* of a complete message's body is eventually written, whatever the order
\* of the core's appends, deferrals for capacity and WRITTEN events.
BodyFlows ==
    WindowOpens => ((term = "complete") ~> (WireBytes = BodyBytes \/ ~live))

\* The abstract stream (OutStream), with the wire as its output and the
\* core's sections and ending as its message.
Out == INSTANCE OutStream WITH Messages <- Shapes, msg <- content,
                                avail <- arrived, done <- term, out <- wire

\* The specification: body frames go out in stream-data-window order and
\* footers follow the body (spec.md section 6).  The stream refines
\* OutStream: every step of the adaptor, whatever the interleaving of the
\* core's appends with read_data_callback's look-ahead, payload_handled,
\* window promotion and deferrals, only appends to the wire what the
\* abstract stream could write: the headers first, the body bytes in order
\* with none skipped or repeated and none of a section the core has not
\* appended, trailers only after the whole body, END_STREAM last and only
\* once the message is wholly appended and written, or aborted.
OutStreamSpec == Out!Spec

====
