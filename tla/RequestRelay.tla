---------------------------- MODULE RequestRelay ----------------------------
(***************************************************************************)
(* What the router can see of the requests an ingress HTTP/2 connection   *)
(* relays, one per stream: the client sends a request body chunk by       *)
(* chunk; at some point the adaptor routes the request as a delivery whose *)
(* message then shows, in order, every chunk received so far and each     *)
(* later one as it arrives; the message is marked receive-complete only   *)
(* once the client has ended the request, and then it holds the whole     *)
(* body.  A stream that is reset or whose connection drops is gone: its   *)
(* message, if routed, keeps what it has.                                  *)
(*                                                                         *)
(* Http2Ingress is shown to implement this specification.                 *)
(***************************************************************************)
EXTENDS Naturals, Sequences

CONSTANTS
    Streams,     \* the HTTP/2 streams of the connection
    MaxChunks    \* DATA chunks a client sends at most on one stream

VARIABLES
    phase,       \* per stream: idle, open, ended (client END_STREAM), gone
    sent,        \* per stream: chunks the client has sent
    body,        \* per stream: the body of the routed message, <<>> before
    routed,      \* per stream: the request has been routed as a delivery
    complete     \* per stream: the routed message is receive-complete

vars == <<phase, sent, body, routed, complete>>

\* The chunks 1..k in the order the client sent them.
Upto(k) == [i \in 1..k |-> i]

Init ==
    /\ phase = [s \in Streams |-> "idle"]
    /\ sent = [s \in Streams |-> 0]
    /\ body = [s \in Streams |-> <<>>]
    /\ routed = [s \in Streams |-> FALSE]
    /\ complete = [s \in Streams |-> FALSE]

\* The client opens the stream.
Open(s) ==
    /\ phase[s] = "idle"
    /\ phase' = [phase EXCEPT ![s] = "open"]
    /\ UNCHANGED <<sent, body, routed, complete>>

\* The client sends the next chunk; a routed message shows it at once.
Receive(s) ==
    /\ phase[s] = "open" /\ sent[s] < MaxChunks
    /\ sent' = [sent EXCEPT ![s] = @ + 1]
    /\ body' = IF routed[s] THEN [body EXCEPT ![s] = Append(@, sent[s] + 1)]
                            ELSE body
    /\ UNCHANGED <<phase, routed, complete>>

\* The client ends the request; a routed message becomes complete.
End(s) ==
    /\ phase[s] = "open"
    /\ phase' = [phase EXCEPT ![s] = "ended"]
    /\ complete' = [complete EXCEPT ![s] = routed[s]]
    /\ UNCHANGED <<sent, body, routed>>

\* The request is routed once, its message holding everything sent so far
\* and complete if the client has ended.  The client's END_STREAM may come
\* in the same step, for it is what completes the headers that routing
\* waits for.
Route(s) ==
    /\ phase[s] \in {"open", "ended"} /\ ~routed[s]
    /\ \E p \in {phase[s], "ended"} :
          /\ phase' = [phase EXCEPT ![s] = p]
          /\ complete' = [complete EXCEPT ![s] = (p = "ended")]
    /\ routed' = [routed EXCEPT ![s] = TRUE]
    /\ body' = [body EXCEPT ![s] = Upto(sent[s])]
    /\ UNCHANGED sent

\* The stream is reset or its connection closes.
Gone(s) ==
    /\ phase[s] \in {"open", "ended"}
    /\ phase' = [phase EXCEPT ![s] = "gone"]
    /\ UNCHANGED <<sent, body, routed, complete>>

\* The connection closes: every stream the client opened is gone at once.
Close ==
    /\ \E s \in Streams : phase[s] \in {"open", "ended"}
    /\ phase' = [s \in Streams |->
                    IF phase[s] \in {"open", "ended"} THEN "gone" ELSE phase[s]]
    /\ UNCHANGED <<sent, body, routed, complete>>

Next ==
    \/ \E s \in Streams : Open(s) \/ Receive(s) \/ End(s) \/ Route(s) \/ Gone(s)
    \/ Close

Spec == Init /\ [][Next]_vars
====
