----------------------------- MODULE OutStream -----------------------------
(***************************************************************************)
(* What an HTTP/2 stream promises of an outgoing message (spec.md, body    *)
(* frames in stream-data-window order and footers after the body): the     *)
(* stream's output only grows; it opens with the headers; it carries the   *)
(* message's body bytes in order, never one of a section the router has    *)
(* not yet appended; trailers, carrying at most the message's footer, come *)
(* only once the whole body is out; END_STREAM ends it, and only once the  *)
(* message has been wholly appended and written, or aborted.               *)
(*                                                                         *)
(* A byte is the number of the section it belongs to, as in Http2OutBody.  *)
(* One write may carry several entries (a DATA frame and its END_STREAM    *)
(* flag, trailers and theirs), each of which the stream could have written *)
(* on its own.                                                             *)
(***************************************************************************)
EXTENDS Integers, Sequences, SequencesExt

CONSTANT Messages   \* the messages, as sequences of sections

VARIABLES
    msg,    \* the message being sent
    avail,  \* how many of its sections have been appended
    done,   \* open, complete or aborted
    out     \* what has been written onto the stream

vars == <<msg, avail, done, out>>

Entry(f, i) == [f |-> f, sec |-> i]

\* The message's body as the bytes it carries.
Payload(m) == FlattenSeq([i \in 1..Len(m) |->
                  IF m[i].kind = "body" THEN [j \in 1..m[i].len |-> Entry("DATA", i)]
                  ELSE <<>>])

\* Facts about an output o.
DataOf(o) == SelectSeq(o, LAMBDA e : e.f = "DATA")
Carries(o, f) == \E i \in 1..Len(o) : o[i].f = f
BodyOut(o) == Len(DataOf(o)) = Len(Payload(msg))

\* Entry e may follow output o.
CanWrite(o, e) ==
    CASE e.f = "HDR" -> o = <<>>
      [] o = <<>> \/ Carries(o, "ES") -> FALSE
      [] e.f = "DATA" ->
           /\ ~Carries(o, "TR") /\ ~BodyOut(o)
           /\ e = Payload(msg)[Len(DataOf(o)) + 1]
           /\ e.sec <= avail
      [] e.f = "TR" ->
           /\ ~Carries(o, "TR") /\ BodyOut(o)
           /\ e.sec \in {0} \cup {i \in 1..avail : msg[i].kind = "footer"}
      [] e.f = "ES" -> done = "aborted" \/ (BodyOut(o) /\ avail = Len(msg))

Init ==
    /\ msg \in Messages
    /\ avail \in 0..Len(msg)
    /\ done = "open"
    /\ out = <<>>

\* The router appends a section, or completes or aborts the message.
Produce ==
    /\ done = "open" /\ avail < Len(msg)
    /\ avail' = avail + 1
    /\ UNCHANGED <<msg, done, out>>

Finish ==
    /\ done = "open"
    /\ \E d \in {"complete", "aborted"} :
         /\ d = "complete" => avail = Len(msg)
         /\ done' = d
    /\ UNCHANGED <<msg, avail, out>>

\* The stream writes one or more entries.
Write ==
    /\ Len(out') > Len(out) /\ IsPrefix(out, out')
    /\ \A j \in Len(out) + 1..Len(out') : CanWrite(SubSeq(out', 1, j - 1), out'[j])
    /\ UNCHANGED <<msg, avail, done>>

Next == Produce \/ Finish \/ Write

Spec == Init /\ [][Next]_vars
====
