---------------------------- MODULE MCWgGetDevice ----------------------------
(***************************************************************************)
(* WgGetDevice for TLC: three states of a device with up to three peers,   *)
(* one peer with three allowed IPs so that a dump can cut it twice.        *)
(***************************************************************************)
EXTENDS WgGetDevice

CONSTANTS k1, k2, k3, i1, i2, i3, i4

MCTables ==
  { <<>>,
    << [key |-> k1, ips |-> <<i1, i2, i3>>], [key |-> k2, ips |-> <<>>],
       [key |-> k3, ips |-> <<i4>>] >>,
    << [key |-> k2, ips |-> <<i2, i1>>], [key |-> k1, ips |-> <<i3>>] >> }
=============================================================================
