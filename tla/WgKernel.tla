------------------------------ MODULE WgKernel ------------------------------
(***************************************************************************)
(* The peer table of one WireGuard device, as the kernel keeps it and as   *)
(* the code in src/wireguard.c relies on it.  The kernel is not part of    *)
(* the repository: only the effects wg_set_device and wg_get_device depend *)
(* on are here.                                                            *)
(*                                                                         *)
(* A configuration is a record                                             *)
(*   by[k]     who last set the own attributes of peer k (preshared key,   *)
(*             endpoint, keepalive): a caller, "bare" when the peer exists *)
(*             and nobody has, "absent" when there is no such peer         *)
(*   owner[i]  the peer allowed IP i belongs to, or NoPeer.  An allowed IP *)
(*             has one owner: giving it to a peer takes it from another.   *)
(***************************************************************************)
CONSTANTS Callers, Keys, Ips, NoPeer

Authors == Callers \cup {"absent", "bare"}

Configs == [by : [Keys -> Authors], owner : [Ips -> Keys \cup {NoPeer}]]

EmptyConfig == [by |-> [k \in Keys |-> "absent"], owner |-> [i \in Ips |-> NoPeer]]

\* conf without peer k and without the allowed IPs it owned
RemovePeer(conf, k) ==
  [by    |-> [conf.by EXCEPT ![k] = "absent"],
   owner |-> [i \in Ips |-> IF conf.owner[i] = k THEN NoPeer ELSE conf.owner[i]]]

\* One WGPEER nest carrying key k, sent by c: its flags, whether it holds the
\* peer's own attributes, and the allowed IPs it lists.  A nest that names an
\* unknown key creates the peer; WGPEER_F_REMOVE_ME ends its processing.
SetPeer(conf, c, k, remove, replace, full, ips) ==
  IF remove
  THEN RemovePeer(conf, k)
  ELSE [by    |-> [conf.by EXCEPT ![k] =
                     IF full THEN c ELSE IF @ = "absent" THEN "bare" ELSE @],
        owner |-> [i \in Ips |-> IF i \in ips THEN k
                                 ELSE IF replace /\ conf.owner[i] = k THEN NoPeer
                                 ELSE conf.owner[i]]]
=============================================================================
