\* An ingress client's GOAWAY frees its request stream while the routed
\* request delivery's context still points at the stream.
SPECIFICATION Spec
INVARIANT NoDanglingContext
