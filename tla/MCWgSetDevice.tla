---------------------------- MODULE MCWgSetDevice ----------------------------
(***************************************************************************)
(* WgSetDevice with its history for TLC: two callers, two peers, three     *)
(* allowed IPs.                                                            *)
(***************************************************************************)
EXTENDS WgSetDeviceHistory

Peer(k, remove, replace, ips) ==
  [key |-> k, remove |-> remove, replace |-> replace, ips |-> ips]

Request(replace, peers) == [replace_peers |-> replace, peers |-> peers]

CONSTANTS k1, k2, i1, i2, i3

\* A full configuration; an update of both peers that moves i1 and drops what
\* k2 had; a removal that lists allowed IPs; a key listed twice; no peers.
MCRequests ==
  { Request(TRUE,  <<Peer(k1, FALSE, TRUE, <<i1, i2>>), Peer(k2, FALSE, TRUE, <<i3>>)>>),
    Request(FALSE, <<Peer(k2, FALSE, TRUE, <<i2, i1>>), Peer(k1, FALSE, FALSE, <<>>)>>),
    Request(FALSE, <<Peer(k1, TRUE, FALSE, <<i1, i3>>)>>),
    Request(FALSE, <<Peer(k1, FALSE, TRUE, <<i3, i1>>), Peer(k1, FALSE, FALSE, <<i2>>)>>),
    Request(TRUE,  <<>>) }
=============================================================================
