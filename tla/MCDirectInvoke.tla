--------------------------- MODULE MCDirectInvoke ---------------------------
(* DirectInvoke for TLC: a plain request, limits at their edges, streamed and invalid ones. *)
EXTENDS DirectInvoke

Says(max, mode_, bad) == [max |-> max, mode |-> mode_, bad |-> bad]

SomeHeaders ==
    {Says(MaxPayloadSize, "", "no"), Says(-1, "", "no"), Says(MaxPayloadSize, "Streaming", "no"),
     Says(0, "Buffered", "no"), Says(MaxInt, "Buffered", "token")}
=============================================================================
