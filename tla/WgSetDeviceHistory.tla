-------------------------- MODULE WgSetDeviceHistory --------------------------
(***************************************************************************)
(* WgSetDevice with two history variables that say which calls ran         *)
(* undisturbed: what a call that no other one came between leaves behind.  *)
(***************************************************************************)
EXTENDS WgSetDevice

ASSUME HistoryAssumption ==
  /\ None \notin Configs
  /\ Callers \cap {"absent", "bare"} = {}

VARIABLES before,  \* the table when the kernel took c's first message, or None
          mixed    \* the calls between whose messages another's was processed

historyVars == <<vars, before, mixed>>

InFlight(c) == before[c] # None /\ pc[c] # "out"

HistoryInit == Init /\ before = [c \in Callers |-> None] /\ mixed = {}

\* A message enters the kernel
Enters(c) == lock = None /\ lock' = c

HistoryNext ==
  /\ Next
  /\ before' = [c \in Callers |->
                  IF Enters(c) /\ before[c] = None THEN conf ELSE before[c]]
  /\ mixed' = mixed \cup {d \in Callers : InFlight(d)
                                          /\ \E c \in Callers \ {d} : Enters(c)}

HistorySpec == HistoryInit /\ [][HistoryNext]_historyVars

\* The scheduler of FairSpec
HistoryFairSpec ==
  /\ HistorySpec
  /\ \A c \in Callers : WF_historyVars((Build(c) \/ Exchange(c)) /\ HistoryNext)

-----------------------------------------------------------------------------
\* The first `to` allowed IPs of a peer
FirstIps(p, to) == {p.ips[j] : j \in 1 .. to}

\* A table after the first 0, 1, 2, ... peers of request r of caller c, each
\* applied at once and unfragmented
AfterPeers(r, c, table) ==
  LET after[n \in 0 .. Len(r.peers)] ==
        IF n = 0 THEN IF r.replace_peers THEN EmptyConfig ELSE table
        ELSE LET p == r.peers[n]
             IN  SetPeer(after[n - 1], c, p.key, p.remove, p.replace, TRUE,
                         FirstIps(p, Len(p.ips)))
  IN  after

\* The request of c applied at once to a table
Whole(c, table) == AfterPeers(req[c], c, table)[Len(Peers(c))]

\* A call that returns 0, and between whose messages no other call's was
\* processed, leaves what its request applied in one message would have left:
\* the cuts at toobig_peers and toobig_allowedips change nothing.
SuccessExact ==
  [][\A c \in Callers :
       ret[c] = "none" /\ ret'[c] = "ok" /\ c \notin mixed
       => conf' = Whole(c, before[c])]_historyVars

\* A peer is left without its own attributes (preshared key, endpoint) only if
\* another call's message came between two messages of one call: the
\* continuation of a peer omits what its first message said.
BareOnlyIfMixed ==
  (\E k \in Keys : conf.by[k] = "bare") => mixed # {}

-----------------------------------------------------------------------------
(***************************************************************************)
(* The inductive invariant behind both: at every message of an undisturbed *)
(* call, the table is what the peers and allowed IPs processed so far make *)
(* of the one it began with.                                               *)
(***************************************************************************)
Exact(c) ==
  LET after == AfterPeers(req[c], c, before[c]) IN
  IF applied[c] = 0 THEN conf = after[0]
  ELSE LET nest == stream[c][applied[c]]
           p    == Peers(c)[nest.peer]
       IN  conf = SetPeer(after[nest.peer - 1], c, p.key, p.remove, p.replace, TRUE,
                          FirstIps(p, nest.to - 1))

HistoryOf(c) ==
  /\ pc[c] = "idle" => before[c] = None
  /\ before[c] = None => mark[c] = 0 /\ lock # c
  /\ before[c] # None /\ pc[c] \in {"again", "peers", "ips", "send"} => mark[c] # 0
  /\ InFlight(c) /\ c \notin mixed => lock \in {None, c} /\ Exact(c)

HistoryInv ==
  /\ before \in [Callers -> Configs \cup {None}]
  /\ mixed \subseteq Callers
  /\ \A c \in Callers : HistoryOf(c)
  /\ BareOnlyIfMixed
=============================================================================
