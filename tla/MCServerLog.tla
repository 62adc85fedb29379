----------------------------- MODULE MCServerLog -----------------------------
(* Two kinds of line, and the node without a line. *)
EXTENDS ServerLog

MCLines == {"connect", "request", NULL}
=============================================================================
