----------------------------- MODULE WgConfigure -----------------------------
(***************************************************************************)
(* What wg_set_device promises, without messages, buffers or cursors: a    *)
(* call applies its request to the peer table item by item, in order.  A   *)
(* peer's own attributes come before its allowed IPs, no item is left out  *)
(* or applied twice, a call succeeds only at the end of its request, and   *)
(* one that fails has applied a prefix of it.                              *)
(***************************************************************************)
EXTENDS WgKernel, Integers, Sequences

CONSTANT Requests

VARIABLES req, conf,
          status,  \* "ready", "running", "ok" or "error"
          at       \* <<p, i>>: next comes IP i of peer p, or, with i = 0, peer p
                   \* itself

vars == <<req, conf, status, at>>

Peers(c) == req[c].peers

Init ==
  /\ req \in [Callers -> Requests]
  /\ conf = EmptyConfig
  /\ status = [c \in Callers |-> "ready"]
  /\ at = [c \in Callers |-> <<1, 0>>]

\* The device's own attributes
Begin(c) ==
  /\ status[c] = "ready"
  /\ status' = [status EXCEPT ![c] = "running"]
  /\ conf' = IF req[c].replace_peers THEN EmptyConfig ELSE conf
  /\ UNCHANGED <<req, at>>

\* The items of one peer from at[c] on, up to but not including IP j
Advance(c) ==
  LET p == at[c][1]
      i == at[c][2]
      r == Peers(c)[p]
      first == IF i = 0 THEN 1 ELSE i
  IN  /\ status[c] = "running"
      /\ p <= Len(Peers(c))
      /\ \E j \in first .. Len(r.ips) + 1 :
           /\ i = 0 \/ j > i
           /\ conf' = SetPeer(conf, c, r.key, r.remove, i = 0 /\ r.replace, i = 0,
                              {r.ips[n] : n \in first .. j - 1})
           /\ at' = [at EXCEPT ![c] = IF j = Len(r.ips) + 1 THEN <<p + 1, 0>>
                                      ELSE <<p, j>>]
      /\ UNCHANGED <<req, status>>

Succeed(c) ==
  /\ status[c] = "running"
  /\ at[c] = <<Len(Peers(c)) + 1, 0>>
  /\ status' = [status EXCEPT ![c] = "ok"]
  /\ UNCHANGED <<req, conf, at>>

Fail(c) ==
  /\ status[c] \in {"ready", "running"}
  /\ status' = [status EXCEPT ![c] = "error"]
  /\ UNCHANGED <<req, conf, at>>

Next == \E c \in Callers : Begin(c) \/ Advance(c) \/ Succeed(c) \/ Fail(c)

Spec == Init /\ [][Next]_vars
=============================================================================
