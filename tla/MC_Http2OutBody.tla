--------------------------- MODULE MC_Http2OutBody ---------------------------
(* Model-checking instance of Http2OutBody: 16 KiB is scaled to 2 bytes, *)
(* so a section of 3 bytes is larger than one frame, and the stream's     *)
(* window holds one full frame and a bit.                                 *)
EXTENDS Http2OutBody

\* Messages as the ingress adaptor and the core produce them: bodies of one
\* or more sections, an empty body or an empty last section, and trailers
\* after a body of one or more sections or alone.
MCShapes ==
    { <<Body(3)>>, <<Body(1), Body(2)>>, <<Body(0)>>, <<>>,
      <<Body(2), Footer>>, <<Body(0), Footer>>, <<Footer>>,
      <<Body(1), Body(2), Footer>>, <<Body(3), Body(0), Footer>> }
====
