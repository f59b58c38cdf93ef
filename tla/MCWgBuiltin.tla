----------------------------- MODULE MCWgBuiltin -----------------------------
(***************************************************************************)
(* WgBuiltin for TLC: two shells and two interfaces are enough for every   *)
(* race the commands can have over one interface, with another one in the  *)
(* listing.                                                                *)
(***************************************************************************)
EXTENDS WgBuiltin
=============================================================================
