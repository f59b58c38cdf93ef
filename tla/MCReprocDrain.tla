--------------------------- MODULE MCReprocDrain ---------------------------
(* Pipes of two chunks, children that write up to three: one pipe can be    *)
(* filled while the other is empty, and emptied in parts.                  *)
EXTENDS ReprocDrain

MCSinkResults == {0, 1, -12}
=============================================================================
