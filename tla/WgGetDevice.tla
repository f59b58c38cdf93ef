----------------------------- MODULE WgGetDevice -----------------------------
(***************************************************************************)
(* wg_get_device (src/wireguard.c): the kernel dumps a device as a         *)
(* sequence of messages, each built while nobody changes the device.  When *)
(* the device has changed since the previous message, the next one carries *)
(* NLM_F_DUMP_INTR and the caller starts over.  A peer whose allowed IPs do *)
(* not fit a message is continued in the next one, with its key alone;      *)
(* coalesce_peers joins the pieces.                                        *)
(*                                                                         *)
(* The device's own attributes and the other attributes of a peer are data *)
(* and left out, but for the mark `full` of the nest that carries them.    *)
(***************************************************************************)
EXTENDS Integers, Sequences

CONSTANTS Tables,          \* what the device may hold: sequences of peers
          MaxIps,          \* no peer of a table has more allowed IPs
          MaxAhead,        \* messages the kernel queues for the caller
          MaxDisturbances  \* bound on the changes of the device and the signals

Keys == UNION {{t[p].key : p \in DOMAIN t} : t \in Tables}
Ips  == UNION {UNION {{t[p].ips[i] : i \in DOMAIN t[p].ips} : p \in DOMAIN t} : t \in Tables}

ASSUME GetAssumption ==
  /\ MaxIps \in Nat /\ MaxAhead \in Nat \ {0} /\ MaxDisturbances \in Nat
  /\ \A t \in Tables :
       /\ t \in Seq([key : Keys, ips : Seq(Ips)])
       /\ \A p, q \in DOMAIN t : t[p].key = t[q].key => p = q
       /\ \A p \in DOMAIN t : Len(t[p].ips) <= MaxIps

VARIABLES
  table,        \* the device's peers, in the kernel
  disturbances, \* changes and signals so far
  dump,         \* the kernel's dump: "none", "started", "running" or "done"
  cursor,       \* <<p, i>>: the dump goes on at IP i of peer p, or at peer p (i = 0)
  stale,        \* the device has changed since the dump's first message
  queue,        \* messages sent to the caller and not read
  snap,         \* history: the table when that first message was built
  pc,           \* where the caller is in wg_get_device
  got,          \* the list of peers of *device
  walk,         \* coalesce_peers' cursor in it
  ret,          \* the variable ret
  short         \* history: in this dump an allocation of parse_allowedips failed

kernelVars == <<table, disturbances, dump, cursor, stale, queue, snap>>
callerVars == <<pc, got, walk, ret, short>>
vars == <<kernelVars, callerVars>>

\* Mutant: `ret` not initialised
InitUnset ==
  /\ table \in Tables
  /\ disturbances = 0
  /\ dump = "none"
  /\ cursor = <<1, 0>>
  /\ stale = FALSE
  /\ queue = <<>>
  /\ snap = table
  /\ pc = "try"
  /\ got = <<>>
  /\ walk = 1
  /\ ret = "unset"
  /\ short = FALSE

Init ==
  /\ table \in Tables
  /\ disturbances = 0
  /\ dump = "none"
  /\ cursor = <<1, 0>>
  /\ stale = FALSE
  /\ queue = <<>>
  /\ snap = table
  /\ pc = "try"
  /\ got = <<>>
  /\ walk = 1
  /\ ret = "ok"
  /\ short = FALSE

-----------------------------------------------------------------------------
\* The kernel

End(t) == <<Len(t) + 1, 0>>

\* Where a message that starts at a may stop: a fresh message has room for a
\* peer's attributes and one allowed IP at least.
Stops(t, a) ==
  IF a = End(t) THEN {a}
  ELSE {<<p, 0>> : p \in a[1] + 1 .. Len(t) + 1}
       \cup {b \in (a[1] .. Len(t)) \X (1 .. MaxIps) :
               /\ b[2] <= Len(t[b[1]].ips)
               /\ b[1] = a[1] => b[2] > a[2] /\ b[2] > 1}

\* The nests of a message with what lies between a and b
Nests(t, a, b) ==
  [n \in 1 .. (IF b[2] = 0 THEN b[1] - a[1] ELSE b[1] - a[1] + 1) |->
     LET p  == a[1] + n - 1
         lo == IF n = 1 /\ a[2] > 0 THEN a[2] ELSE 1
         hi == IF p = b[1] THEN b[2] - 1 ELSE Len(t[p].ips)
     IN  [key |-> t[p].key, full |-> n > 1 \/ a[2] = 0,
          ips |-> SubSeq(t[p].ips, lo, hi)]]

\* One message of the dump; its last one comes with NLMSG_DONE
Fill ==
  /\ dump \in {"started", "running"}
  /\ Len(queue) < MaxAhead
  /\ snap' = IF dump = "started" THEN table ELSE snap
  /\ \/ /\ ~stale
        /\ \E b \in Stops(table, cursor) :
             /\ cursor' = b
             /\ dump' = IF b = End(table) THEN "done" ELSE "running"
             /\ queue' = Append(queue, [intr |-> FALSE, done |-> b = End(table),
                                        nests |-> Nests(table, cursor, b)])
     \/ /\ stale
        /\ dump' = "done"
        /\ queue' = Append(queue, [intr |-> TRUE, done |-> TRUE, nests |-> <<>>])
        /\ UNCHANGED cursor
  /\ UNCHANGED <<table, disturbances, stale, callerVars>>

\* Another program configures the device
Change ==
  /\ disturbances < MaxDisturbances
  /\ disturbances' = disturbances + 1
  /\ table' \in Tables \ {table}
  /\ stale' = (stale \/ dump \in {"running", "done"})
  /\ UNCHANGED <<dump, cursor, queue, snap, callerVars>>

-----------------------------------------------------------------------------
\* The caller

\* Label `try_again`: a new device, a new socket, a new dump
TryAgain ==
  /\ pc = "try"
  /\ pc' = "recv"
  /\ got' = <<>>
  /\ dump' = "started"
  /\ cursor' = <<1, 0>>
  /\ stale' = FALSE
  /\ queue' = <<>>
  /\ short' = FALSE
  /\ UNCHANGED <<table, disturbances, snap, walk, ret>>

\* No memory for the device or no socket: returned at once, whatever ret is
OpenFails ==
  /\ pc = "try"
  /\ pc' = "returned"
  /\ got' = <<>>
  /\ ret' = "error"
  /\ UNCHANGED <<kernelVars, walk, short>>

\* Mutant: last_allowedip is set by the second allowed IP only
ParsedLastLate(nest, kept) ==
  [key |-> nest.key, full |-> nest.full, ips |-> SubSeq(nest.ips, 1, kept),
   last |-> kept > 1]

\* A peer of the device as parse_peers leaves it.  An allocation that fails in
\* parse_allowedips ends the nest after `kept` IPs, and parse_peers does not
\* tell (its `ret` is not 0 and the peer has its key).
Parsed(nest, kept) ==
  [key |-> nest.key, full |-> nest.full, ips |-> SubSeq(nest.ips, 1, kept),
   last |-> kept > 0]

KeptCounts(nests) ==
  {f \in [DOMAIN nests -> 0 .. MaxIps] : \A n \in DOMAIN f : f[n] <= Len(nests[n].ips)}

\* Mutant: __mnl_cb_run does not look at NLM_F_DUMP_INTR
ReceiveUnchecked ==
  LET m == Head(queue) IN
  /\ pc = "recv"
  /\ queue # <<>>
  /\ queue' = Tail(queue)
  /\ \E kept \in KeptCounts(m.nests) :
       /\ got' = got \o [n \in DOMAIN m.nests |-> Parsed(m.nests[n], kept[n])]
       /\ short' = (short \/ \E n \in DOMAIN m.nests : kept[n] < Len(m.nests[n].ips))
  /\ pc' = IF m.done THEN "coalesce" ELSE "recv"
  /\ walk' = 1
  /\ UNCHANGED <<table, disturbances, dump, cursor, stale, snap, ret>>

Receive ==
  LET m == Head(queue) IN
  /\ pc = "recv"
  /\ queue # <<>>
  /\ ~m.intr
  /\ queue' = Tail(queue)
  /\ \E kept \in KeptCounts(m.nests) :
       /\ got' = got \o [n \in DOMAIN m.nests |-> Parsed(m.nests[n], kept[n])]
       /\ short' = (short \/ \E n \in DOMAIN m.nests : kept[n] < Len(m.nests[n].ips))
  /\ pc' = IF m.done THEN "coalesce" ELSE "recv"
  /\ walk' = 1
  /\ UNCHANGED <<table, disturbances, dump, cursor, stale, snap, ret>>

\* __mnl_cb_run meets NLM_F_DUMP_INTR
Interrupted ==
  /\ pc = "recv"
  /\ queue # <<>>
  /\ Head(queue).intr
  /\ queue' = Tail(queue)
  /\ ret' = "EINTR"
  /\ pc' = "out"
  /\ UNCHANGED <<table, disturbances, dump, cursor, stale, snap, got, walk, short>>

\* A signal ends recvfrom
Signal ==
  /\ pc = "recv"
  /\ disturbances < MaxDisturbances
  /\ disturbances' = disturbances + 1
  /\ ret' = "EINTR"
  /\ pc' = "out"
  /\ UNCHANGED <<table, dump, cursor, stale, queue, snap, got, walk, short>>

\* The request or the answer fails, or parse_peers has no memory for a peer
RecvFails ==
  /\ pc = "recv"
  /\ ret' = "error"
  /\ pc' = "out"
  /\ UNCHANGED <<kernelVars, got, walk, short>>

\* Mutant: memcmp taken for equality
DifferentKey == got[walk].key # got[walk + 1].key

\* coalesce_peers, one turn of its loop
SameKey == got[walk].key = got[walk + 1].key

NextPeer ==
  /\ pc = "coalesce"
  /\ walk < Len(got)
  /\ ~SameKey
  /\ walk' = walk + 1
  /\ UNCHANGED <<kernelVars, pc, got, ret, short>>

\* The next peer's list goes behind this one's: through last_allowedip, which
\* is NULL when the piece joined before had no allowed IP.
Joined(a, b) ==
  [a EXCEPT !.ips = @ \o b.ips, !.last = b.last]

Join ==
  /\ pc = "coalesce"
  /\ walk < Len(got)
  /\ SameKey
  /\ IF got[walk].ips = <<>> \/ got[walk].last
     THEN /\ got' = SubSeq(got, 1, walk - 1) \o <<Joined(got[walk], got[walk + 1])>>
                    \o SubSeq(got, walk + 2, Len(got))
          /\ UNCHANGED pc
     ELSE pc' = "crashed" /\ UNCHANGED got
  /\ UNCHANGED <<kernelVars, walk, ret, short>>

Coalesced ==
  /\ pc = "coalesce"
  /\ walk >= Len(got)
  /\ pc' = "out"
  /\ UNCHANGED <<kernelVars, got, walk, ret, short>>

\* Mutant: any failure is tried again
OutRetries ==
  /\ pc = "out"
  /\ pc' = IF ret # "ok" THEN "try" ELSE "returned"
  /\ got' = IF ret = "ok" THEN got ELSE <<>>
  /\ UNCHANGED <<kernelVars, walk, ret, short>>

\* Mutant: *device is not set to NULL after a failure
OutKeeps ==
  /\ pc = "out"
  /\ pc' = IF ret = "EINTR" THEN "try" ELSE "returned"
  /\ UNCHANGED <<kernelVars, got, walk, ret, short>>

\* Label `out`.  ret is 0 only if no attempt has set it.
Out ==
  /\ pc = "out"
  /\ pc' = IF ret = "EINTR" THEN "try" ELSE "returned"
  /\ got' = IF ret = "ok" THEN got ELSE <<>>
  /\ UNCHANGED <<kernelVars, walk, ret, short>>

-----------------------------------------------------------------------------
Step == \/ TryAgain \/ Receive \/ Interrupted
        \/ NextPeer \/ Join \/ Coalesced \/ Out

Fail == OpenFails \/ Signal \/ RecvFails

Next == Fill \/ Change \/ Step \/ Fail

Spec == Init /\ [][Next]_vars

\* The kernel answers and the caller does not stop by itself.  Nothing is
\* assumed of changes, signals and failures.
FairSpec == Spec /\ WF_vars(Fill) /\ WF_vars(Step)
-----------------------------------------------------------------------------
Peer == [key : Keys, full : BOOLEAN, ips : Seq(Ips), last : BOOLEAN]
Message == [intr : BOOLEAN, done : BOOLEAN,
            nests : Seq([key : Keys, full : BOOLEAN, ips : Seq(Ips)])]

\* The types of the dump's and the caller's state.
TypeOK ==
  /\ table \in Tables /\ snap \in Tables
  /\ disturbances \in 0 .. MaxDisturbances
  /\ dump \in {"none", "started", "running", "done"}
  /\ cursor \in Nat \X Nat
  /\ stale \in BOOLEAN /\ short \in BOOLEAN
  /\ queue \in Seq(Message) /\ Len(queue) <= MaxAhead
  /\ pc \in {"try", "recv", "coalesce", "out", "returned", "crashed"}
  /\ got \in Seq(Peer)
  /\ walk \in Nat \ {0}
  /\ ret \in {"ok", "EINTR", "error"}

Succeeded == pc = "returned" /\ ret = "ok"

\* A call that succeeds returns the device as it was at one instant of the
\* call, each peer once, with its own attributes and all its allowed IPs in
\* order, wherever the kernel cut its messages and whenever the device changed
\* (unless an allocation failed in parse_allowedips).
ReadsOneInstant ==
  Succeeded /\ ~short =>
    /\ Len(got) = Len(snap)
    /\ \A p \in DOMAIN got : /\ got[p].key = snap[p].key
                             /\ got[p].ips = snap[p].ips
                             /\ got[p].full

\* wg_get_device implements WgRead: the caller has looked when the kernel has
\* built the first message of the dump it is reading.
InCall == pc \in {"try", "recv", "coalesce", "out"}

Phase == IF InCall THEN "reading"
         ELSE IF pc = "crashed" THEN "crashed"
         ELSE IF ret = "ok" THEN "ok" ELSE "error"

Seen == IF InCall /\ dump \in {"running", "done"} THEN {snap} ELSE {}

Answer == IF pc = "returned" THEN got ELSE <<>>

Read == INSTANCE WgRead WITH seen <- Seen, lossy <- short, phase <- Phase, answer <- Answer

\* A call looks at the device once it has begun and returns that, whatever the
\* messages, the pieces and the repetitions are; a failed allocation costs
\* allowed IPs only: never a peer, its attributes or the order, and no peer gets
\* another's; a call that fails returns no list.
ImplementsRead == Read!Spec

\* coalesce_peers follows a NULL last_allowedip only after a failed allocation:
\* no way the kernel cuts a dump makes it.
CrashNeedsShort == pc = "crashed" => short

\* A call that nothing interrupts returns.
ReturnsIfUndisturbed ==
  pc = "try" ~> (pc \in {"returned", "crashed"} \/ disturbances > 0)

\* A call returns once nothing interrupts its dumps any more: a dump that is
\* interrupted is repeated (label try_again), and one that is not is returned.
Returns == pc = "try" ~> pc \in {"returned", "crashed"}
=============================================================================
