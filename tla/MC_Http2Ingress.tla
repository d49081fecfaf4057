--------------------------- MODULE MC_Http2Ingress ---------------------------
(* Model-checking instance of Http2Ingress: the streams are model values. *)
EXTENDS Http2Ingress, TLC

CONSTANTS s1, s2

MCStreams == {s1, s2}
MCOneStream == {s1}

MCSymmetry == Permutations(MCStreams)
====
