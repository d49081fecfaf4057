----------------------------- MODULE Http2Egress -----------------------------
(***************************************************************************)
(* The life of one egress connection of the HTTP/2 adaptor                 *)
(* (src/src/adaptors/http2/http2_adaptor.c): connecting to the server, the *)
(* debounced reconnect timer, activation by the router core, the raw      *)
(* connection's CONNECTED / CLOSED_READ / CLOSED_WRITE / WAKE /            *)
(* DISCONNECTED events, deletion of the connector by management, and the  *)
(* freeing of the connection object.                                       *)
(*                                                                         *)
(* Four threads touch the connection: the proactor thread running its raw *)
(* connection events, the timer thread running egress_conn_timer_handler, *)
(* the core thread (qdr_http_activate, qdr_del_http2_connection_CT) and   *)
(* the management thread (qd_http2_delete_connector).  Steps are split    *)
(* where a thread lets go of the activation lock or does two atomic       *)
(* operations in a row.                                                    *)
(***************************************************************************)
EXTENDS Naturals

CONSTANTS
    RequireTls      \* the connector has an sslProfile

\* Timer delays used by schedule_activation: immediate activation, and the
\* 2-second reconnect back-off.
Now == 0
Backoff == 2000

VARIABLES
    rawConn,            \* conn->pn_raw_conn is set (its context is conn)
    raw,                \* proton raw connection: none, connecting, up, down
    evRd, evWr,         \* CLOSED_READ / CLOSED_WRITE delivered for this raw conn
    rawClosedRead,      \* conn->raw_closed_read
    rawClosedWrite,     \* conn->raw_closed_write
    established,        \* conn->connection_established
    activateScheduled,  \* conn->activate_scheduled
    timer,              \* activate_timer: idle or armed
    timerDelay,         \* delay the armed timer was scheduled with
    cb,                 \* egress_conn_timer_handler: idle, fired, cleared, unlocked
    cbDelay,            \* delay of the timer whose callback is running
    dpc,                \* DISCONNECTED handler: idle, cancelled, handle
    wake,               \* a pn_raw_connection_wake is pending
    activateReq,        \* the core is about to call qdr_http_activate
    coreClose,          \* the core has closed the connection, conn_close due
    qdrOpen,            \* the qdr_connection_t is not yet closed
    coreCtx,            \* the qdr_connection_t's context points at conn
    deleted,            \* conn->delete_egress_connections
    delQueued,          \* qdr_del_http2_connection_CT is queued on the core
    freed,              \* free_qdr_http2_connection has run
    doubleFree,         \* ... and has run twice
    retryPending        \* a DISCONNECTED has happened since the last connect

vars == <<rawConn, raw, evRd, evWr, rawClosedRead, rawClosedWrite, established,
          activateScheduled, timer, timerDelay, cb, cbDelay, dpc, wake,
          activateReq, coreClose, qdrOpen, coreCtx, deleted, delQueued,
          freed, doubleFree, retryPending>>

timerVars == <<timer, timerDelay, activateScheduled>>
rawVars == <<rawConn, raw, evRd, evWr, rawClosedRead, rawClosedWrite, established>>
coreVars == <<wake, activateReq, coreClose, qdrOpen, coreCtx, deleted, delQueued>>

-----------------------------------------------------------------------------
(* Helpers                                                                 *)

\* schedule_activation: only the caller that sets activate_scheduled arms
\* the timer.
ScheduleActivation(msec) ==
    IF ~activateScheduled
    THEN /\ activateScheduled' = TRUE
         /\ timer' = "armed"
         /\ timerDelay' = msec
    ELSE UNCHANGED timerVars

\* free_qdr_http2_connection: frees the streams, qd_timer_free the
\* activate_timer, and frees the object.
FreeConnection ==
    /\ freed' = TRUE
    /\ doubleFree' = (doubleFree \/ freed)
    /\ timer' = "idle"

\* qdr_connection_process running on the connection thread: if the core
\* closed the connection it calls qdr_http_conn_close, which closes the raw
\* connection.
QdrHttpConnClose ==
    IF coreClose
    THEN /\ coreClose' = FALSE
         /\ raw' = IF raw \in {"connecting", "up"} THEN "down" ELSE raw
    ELSE UNCHANGED <<coreClose, raw>>

\* http_connector_establish: under the activation lock create the raw
\* connection and start connecting; with TLS only if the TLS session could
\* be set up.
HttpConnectorEstablish ==
    \E tlsOk \in IF RequireTls THEN BOOLEAN ELSE {TRUE} :
        IF tlsOk
        THEN /\ rawConn' = TRUE
             /\ raw' = "connecting"
             /\ evRd' = FALSE /\ evWr' = FALSE
             /\ retryPending' = FALSE
        ELSE UNCHANGED <<rawConn, raw, evRd, evWr, retryPending>>

\* close_connections: clear the core connection's context, close it and
\* queue qdr_del_http2_connection_CT.
CloseConnections ==
    /\ coreCtx' = FALSE
    /\ qdrOpen' = FALSE
    /\ delQueued' = TRUE

-----------------------------------------------------------------------------
Init ==
    /\ rawConn = FALSE /\ raw = "none"
    /\ evRd = FALSE /\ evWr = FALSE
    /\ rawClosedRead = FALSE /\ rawClosedWrite = FALSE
    /\ established = FALSE
    /\ activateScheduled = FALSE /\ timer = "idle" /\ timerDelay = Now
    /\ cb = "idle" /\ cbDelay = Now
    /\ dpc = "idle"
    /\ wake = FALSE
    /\ activateReq = TRUE       \* attaching the dummy link activates conn
    /\ coreClose = FALSE
    /\ qdrOpen = TRUE /\ coreCtx = TRUE
    /\ deleted = FALSE /\ delQueued = FALSE
    /\ freed = FALSE /\ doubleFree = FALSE
    /\ retryPending = FALSE

-----------------------------------------------------------------------------
(* Core and management threads                                             *)

\* The core has work for the connection (deliveries, link events) and
\* activates it; it does so only while the connection is open.
CoreActivates ==
    /\ qdrOpen /\ ~activateReq
    /\ activateReq' = TRUE
    /\ UNCHANGED <<rawVars, timerVars, cb, cbDelay, dpc, wake, coreClose,
                   qdrOpen, coreCtx, deleted, delQueued, freed, doubleFree,
                   retryPending>>

\* qdr_http_activate, under the activation lock: wake the raw connection
\* if there is one that is not closed in both directions, else schedule
\* the timer to fire at once.
QdrHttpActivate ==
    /\ activateReq
    /\ activateReq' = FALSE
    /\ IF ~coreCtx
       THEN UNCHANGED <<wake, timerVars>>
       ELSE IF rawConn /\ ~(rawClosedRead /\ rawClosedWrite)
            THEN wake' = TRUE /\ UNCHANGED timerVars
            ELSE ScheduleActivation(Now) /\ UNCHANGED wake
    /\ UNCHANGED <<rawVars, cb, cbDelay, dpc, coreClose, qdrOpen, coreCtx,
                   deleted, delQueued, freed, doubleFree, retryPending>>

\* qd_http2_delete_connector: mark the connection for deletion and have
\* the core close it (qdr_core_close_connection, which activates it).
QdHttp2DeleteConnector ==
    /\ ~deleted /\ coreCtx
    /\ deleted' = TRUE
    /\ coreClose' = TRUE
    /\ activateReq' = TRUE
    /\ UNCHANGED <<rawVars, timerVars, cb, cbDelay, dpc, wake, qdrOpen,
                   coreCtx, delQueued, freed, doubleFree, retryPending>>

\* qdr_del_http2_connection_CT on the core thread.  qd_timer_free waits
\* for a running timer callback.
QdrDelHttp2ConnectionCT ==
    /\ delQueued /\ cb = "idle"
    /\ delQueued' = FALSE
    /\ FreeConnection
    /\ UNCHANGED <<rawVars, activateScheduled, timerDelay, cb, cbDelay, dpc,
                   wake, activateReq, coreClose, qdrOpen, coreCtx, deleted,
                   retryPending>>

-----------------------------------------------------------------------------
(* Timer thread: egress_conn_timer_handler                                 *)

TimerFire ==
    /\ timer = "armed" /\ cb = "idle"
    /\ timer' = "idle"
    /\ cb' = "fired"
    /\ cbDelay' = timerDelay
    /\ UNCHANGED <<rawVars, activateScheduled, timerDelay, dpc, coreVars,
                   freed, doubleFree, retryPending>>

\* Fault: the callback leaves activate_scheduled set.
TimerKeepsScheduled ==
    /\ cb = "fired"
    /\ cb' = "cleared"
    /\ UNCHANGED <<rawVars, timerVars, cbDelay, dpc, coreVars, freed,
                   doubleFree, retryPending>>

\* CLEAR_ATOMIC_FLAG(&conn->activate_scheduled), before taking the lock.
TimerClearScheduled ==
    /\ cb = "fired"
    /\ cb' = "cleared"
    /\ activateScheduled' = FALSE
    /\ UNCHANGED <<rawVars, timer, timerDelay, cbDelay, dpc, coreVars,
                   freed, doubleFree, retryPending>>

\* Under the activation lock: a deleted connection is closed and freed; an
\* existing raw connection ends the handler; otherwise unlock and go on.
TimerLocked ==
    /\ cb = "cleared"
    /\ \/ /\ deleted
          /\ cb' = "idle"
          /\ qdrOpen' = FALSE
          /\ FreeConnection
          /\ UNCHANGED <<rawVars, activateScheduled, timerDelay, cbDelay, dpc,
                         wake, activateReq, coreClose, coreCtx, deleted,
                         delQueued, retryPending>>
       \/ /\ ~deleted /\ rawConn
          /\ cb' = "idle"
          /\ UNCHANGED <<rawVars, timerVars, cbDelay, dpc, coreVars, freed,
                         doubleFree, retryPending>>
       \/ /\ ~deleted /\ ~rawConn
          /\ cb' = "unlocked"
          /\ UNCHANGED <<rawVars, timerVars, cbDelay, dpc, coreVars, freed,
                         doubleFree, retryPending>>

\* Outside the lock: connect unless the connection is established.
TimerEstablish ==
    /\ cb = "unlocked"
    /\ cb' = "idle"
    /\ IF established
       THEN UNCHANGED <<rawConn, raw, evRd, evWr, retryPending>>
       ELSE HttpConnectorEstablish
    /\ UNCHANGED <<rawClosedRead, rawClosedWrite, established, timerVars,
                   cbDelay, dpc, coreVars, freed, doubleFree>>

-----------------------------------------------------------------------------
(* The server and the network                                              *)

\* The connect fails or the server closes the connection.
PeerClose ==
    /\ raw \in {"connecting", "up"}
    /\ raw' = "down"
    /\ UNCHANGED <<rawConn, evRd, evWr, rawClosedRead, rawClosedWrite,
                   established, timerVars, cb, cbDelay, dpc, coreVars, freed,
                   doubleFree, retryPending>>

-----------------------------------------------------------------------------
(* Proactor thread: handle_connection_event for the raw connection         *)

\* PN_RAW_CONNECTION_CONNECTED, handle_raw_connected_event for egress.
HandleRawConnectedEvent ==
    /\ raw = "connecting" /\ dpc = "idle"
    /\ rawClosedRead' = FALSE /\ rawClosedWrite' = FALSE
    /\ established' = TRUE
    /\ \/ coreClose /\ QdrHttpConnClose
       \/ ~coreClose /\ raw' = "up" /\ UNCHANGED coreClose
    /\ UNCHANGED <<rawConn, evRd, evWr, timerVars, cb, cbDelay, dpc, wake,
                   activateReq, qdrOpen, coreCtx, deleted, delQueued, freed,
                   doubleFree, retryPending>>

\* PN_RAW_CONNECTION_CLOSED_READ: set raw_closed_read and close.
RawClosedRead ==
    /\ raw \in {"up", "down"} /\ ~evRd /\ dpc = "idle"
    /\ evRd' = TRUE
    /\ rawClosedRead' = TRUE
    /\ raw' = "down"
    /\ UNCHANGED <<rawConn, evWr, rawClosedWrite, established, timerVars, cb,
                   cbDelay, dpc, coreVars, freed, doubleFree, retryPending>>

\* PN_RAW_CONNECTION_CLOSED_WRITE: set raw_closed_write.
RawClosedWrite ==
    /\ raw = "down" /\ ~evWr /\ dpc = "idle"
    /\ evWr' = TRUE
    /\ rawClosedWrite' = TRUE
    /\ UNCHANGED <<rawConn, raw, evRd, rawClosedRead, established, timerVars,
                   cb, cbDelay, dpc, coreVars, freed, doubleFree, retryPending>>

\* PN_RAW_CONNECTION_WAKE: run the core's work for the connection.
RawWake ==
    /\ wake /\ rawConn /\ raw /= "none" /\ dpc = "idle"
    /\ wake' = FALSE
    /\ QdrHttpConnClose
    /\ UNCHANGED <<rawConn, evRd, evWr, rawClosedRead, rawClosedWrite,
                   established, timerVars, cb, cbDelay, dpc, activateReq,
                   qdrOpen, coreCtx, deleted, delQueued, freed, doubleFree,
                   retryPending>>

\* Fault: the reconnect delay given in seconds instead of milliseconds.
RawDisconnectedSeconds ==
    /\ raw = "down" /\ dpc = "idle"
    /\ established' = FALSE
    /\ \/ /\ deleted /\ cb = "idle"
          /\ timer' = "idle"
          /\ dpc' = "cancelled"
          /\ UNCHANGED <<activateScheduled, timerDelay, retryPending>>
       \/ /\ ~deleted
          /\ ScheduleActivation(2)
          /\ dpc' = "handle"
          /\ retryPending' = TRUE
    /\ UNCHANGED <<rawConn, raw, evRd, evWr, rawClosedRead, rawClosedWrite,
                   cb, cbDelay, coreVars, freed, doubleFree>>

\* PN_RAW_CONNECTION_DISCONNECTED, first part: a deleted connection
\* cancels its timer (qd_timer_cancel, which waits for a running callback);
\* otherwise the 2-second reconnect timer is scheduled.
RawDisconnected ==
    /\ raw = "down" /\ dpc = "idle"
    /\ established' = FALSE
    /\ \/ /\ deleted /\ cb = "idle"
          /\ timer' = "idle"
          /\ dpc' = "cancelled"
          /\ UNCHANGED <<activateScheduled, timerDelay, retryPending>>
       \/ /\ ~deleted
          /\ ScheduleActivation(Backoff)
          /\ dpc' = "handle"
          /\ retryPending' = TRUE
    /\ UNCHANGED <<rawConn, raw, evRd, evWr, rawClosedRead, rawClosedWrite,
                   cb, cbDelay, coreVars, freed, doubleFree>>

\* cancel_activation, second part: clear activate_scheduled after the
\* cancel.
CancelActivationClear ==
    /\ dpc = "cancelled"
    /\ activateScheduled' = FALSE
    /\ dpc' = "handle"
    /\ UNCHANGED <<rawVars, timer, timerDelay, cb, cbDelay, coreVars, freed,
                   doubleFree, retryPending>>

\* Fault: a deleted connection is cleaned but its core connection is
\* never closed.
HandleDisconnectedWithoutClose ==
    /\ dpc = "handle"
    /\ dpc' = "idle"
    /\ rawConn' = FALSE
    /\ raw' = "none"
    /\ wake' = FALSE
    /\ UNCHANGED <<coreCtx, qdrOpen, delQueued>>
    /\ UNCHANGED <<evRd, evWr, rawClosedRead, rawClosedWrite, established,
                   timerVars, cb, cbDelay, activateReq, coreClose, deleted,
                   freed, doubleFree, retryPending>>

\* handle_disconnected on an egress connection, under the activation lock:
\* drop pn_raw_conn, free the session, and if the connector was deleted
\* close the core connection and queue the delete.
HandleDisconnected ==
    /\ dpc = "handle"
    /\ dpc' = "idle"
    /\ rawConn' = FALSE
    /\ raw' = "none"
    /\ wake' = FALSE
    /\ IF deleted
       THEN CloseConnections
       ELSE UNCHANGED <<coreCtx, qdrOpen, delQueued>>
    /\ UNCHANGED <<evRd, evWr, rawClosedRead, rawClosedWrite, established,
                   timerVars, cb, cbDelay, activateReq, coreClose, deleted,
                   freed, doubleFree, retryPending>>

\* Nothing more happens to a freed connection.
Freed ==
    /\ freed /\ raw = "none" /\ ~delQueued /\ cb = "idle"
    /\ UNCHANGED vars

Next ==
    \/ CoreActivates
    \/ QdrHttpActivate
    \/ QdHttp2DeleteConnector
    \/ QdrDelHttp2ConnectionCT
    \/ TimerFire
    \/ TimerClearScheduled
    \/ TimerLocked
    \/ TimerEstablish
    \/ PeerClose
    \/ HandleRawConnectedEvent
    \/ RawClosedRead
    \/ RawClosedWrite
    \/ RawWake
    \/ RawDisconnected
    \/ CancelActivationClear
    \/ HandleDisconnected
    \/ Freed

Spec == Init /\ [][Next]_vars

\* The proactor delivers the raw connection's events and wakes, the timer
\* thread runs a due timer, and the core thread runs queued activations and
\* actions.  The server, the core's own work and management are not fair.
Fairness ==
    /\ WF_vars(QdrHttpActivate)
    /\ WF_vars(QdrDelHttp2ConnectionCT)
    /\ WF_vars(TimerFire) /\ WF_vars(TimerClearScheduled)
    /\ WF_vars(TimerLocked) /\ WF_vars(TimerEstablish)
    /\ WF_vars(HandleRawConnectedEvent)
    /\ WF_vars(RawClosedRead) /\ WF_vars(RawClosedWrite)
    /\ WF_vars(RawWake) /\ WF_vars(RawDisconnected)
    /\ WF_vars(CancelActivationClear) /\ WF_vars(HandleDisconnected)

FairSpec == Spec /\ Fairness

-----------------------------------------------------------------------------
(* Properties                                                              *)

TypeOK ==
    /\ rawConn \in BOOLEAN
    /\ raw \in {"none", "connecting", "up", "down"}
    /\ evRd \in BOOLEAN /\ evWr \in BOOLEAN
    /\ rawClosedRead \in BOOLEAN /\ rawClosedWrite \in BOOLEAN
    /\ established \in BOOLEAN
    /\ activateScheduled \in BOOLEAN
    /\ timer \in {"idle", "armed"}
    /\ timerDelay \in {Now, Backoff} /\ cbDelay \in {Now, Backoff}
    /\ cb \in {"idle", "fired", "cleared", "unlocked"}
    /\ dpc \in {"idle", "cancelled", "handle"}
    /\ wake \in BOOLEAN /\ activateReq \in BOOLEAN /\ coreClose \in BOOLEAN
    /\ qdrOpen \in BOOLEAN /\ coreCtx \in BOOLEAN /\ deleted \in BOOLEAN
    /\ delQueued \in BOOLEAN /\ freed \in BOOLEAN /\ doubleFree \in BOOLEAN
    /\ retryPending \in BOOLEAN

\* The comment of cancel_activation: activate_scheduled is never left set
\* without the timer being scheduled (or its callback about to clear it, or
\* cancel_activation about to clear it), since schedule_activation would
\* then never arm the timer again.
ScheduledMeansArmed ==
    (~freed /\ activateScheduled) =>
        \/ timer = "armed"
        \/ cb = "fired"
        \/ dpc = "cancelled"

\* Deleting the connector frees the egress connection: through the timer
\* when there is no raw connection, else through conn_close, DISCONNECTED,
\* close_connections and qdr_del_http2_connection_CT.
DeleteCompletes == deleted ~> freed

\* When the connection object is freed nothing can reach it any more: no
\* raw connection whose context is conn, no queued delete action, no
\* running timer callback or DISCONNECTED handler, no core activation
\* through the connection's context, and it is freed only once.
FreedUnreachable ==
    freed =>
        /\ ~rawConn /\ raw = "none"
        /\ ~delQueued
        /\ cb = "idle" /\ dpc = "idle"
        /\ ~(coreCtx /\ activateReq)
        /\ ~doubleFree

\* An egress connection whose connector is not deleted connects again
\* after it has lost its raw connection (spec: on egress a 2-second
\* reconnect is scheduled on DISCONNECTED).
Reconnects ==
    (~deleted /\ raw = "none") ~> (raw /= "none" \/ deleted)
====
