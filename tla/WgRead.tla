-------------------------------- MODULE WgRead --------------------------------
(***************************************************************************)
(* What wg_get_device promises, without messages, dumps or pieces: a call  *)
(* looks at the device at one instant between its beginning and its end,   *)
(* and returns what it saw, or fails and returns nothing.  It may look     *)
(* again, and then only the last look counts.  After an allocation has     *)
(* failed, peers may lack allowed IPs, or the call may crash.              *)
(***************************************************************************)
EXTENDS Naturals, Sequences

CONSTANT Tables  \* what the device may hold

VARIABLES table,  \* the device's peers
          seen,   \* the device at the last look: no table or one
          lossy,  \* an allocation has failed since
          phase,  \* of the call: "reading", "ok", "error" or "crashed"
          answer  \* the list of peers it returns

vars == <<table, seen, lossy, phase, answer>>

Init ==
  /\ table \in Tables
  /\ seen = {}
  /\ lossy = FALSE
  /\ phase = "reading"
  /\ answer = <<>>

\* s is t with some elements left out
SubSequence(s, t) ==
  \E f \in [DOMAIN s -> DOMAIN t] :
    \A i, j \in DOMAIN s : s[i] = t[f[i]] /\ (i < j => f[i] < f[j])

\* The list tells table t: each peer once, in order, with its own attributes,
\* and with its allowed IPs in order, all of them unless allocations failed.
Tells(list, t, losing) ==
  /\ Len(list) = Len(t)
  /\ \A p \in DOMAIN list : /\ list[p].key = t[p].key
                            /\ list[p].full
                            /\ SubSequence(list[p].ips, t[p].ips)
                            /\ ~losing => list[p].ips = t[p].ips

Change ==
  /\ table' \in Tables \ {table}
  /\ UNCHANGED <<seen, lossy, phase, answer>>

Look ==
  /\ phase = "reading"
  /\ seen' = {table}
  /\ UNCHANGED <<table, lossy, phase, answer>>

Forget ==
  /\ phase = "reading"
  /\ seen' = {} /\ lossy' = FALSE
  /\ UNCHANGED <<table, phase, answer>>

Lose ==
  /\ phase = "reading"
  /\ lossy' = TRUE
  /\ UNCHANGED <<table, seen, phase, answer>>

Succeed ==
  /\ phase = "reading"
  /\ \E t \in seen : Tells(answer', t, lossy)
  /\ phase' = "ok" /\ seen' = {}
  /\ UNCHANGED <<table, lossy>>

Fail ==
  /\ phase = "reading"
  /\ phase' = "error" /\ seen' = {}
  /\ UNCHANGED <<table, lossy, answer>>

Crash ==
  /\ phase = "reading" /\ lossy
  /\ phase' = "crashed" /\ seen' = {}
  /\ UNCHANGED <<table, lossy, answer>>

Next == Change \/ Look \/ Forget \/ Lose \/ Succeed \/ Fail \/ Crash

Spec == Init /\ [][Next]_vars
=============================================================================
