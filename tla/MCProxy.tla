------------------------------ MODULE MCProxy ------------------------------
(* Without a command, and with one for what the client sends.              *)
EXTENDS Proxy

MCFilters == {{}, {"up"}}
=============================================================================
