----------------------------- MODULE WgSetDevice -----------------------------
(***************************************************************************)
(* wg_set_device (src/wireguard.c): a device request is written into as    *)
(* many WG_CMD_SET_DEVICE messages as its peers and allowed IPs need, each *)
(* sent and acknowledged before the next is built.  Several callers (one   *)
(* per shell that has the builtin loaded) configure the same device.       *)
(*                                                                         *)
(* A message is not kept byte by byte.  stream[c] is the sequence of peer  *)
(* nests caller c has written; the first mark[c] of them are in messages   *)
(* already sent, the rest in the buffer under construction.  Where a message *)
(* is full is left open: any mnl_attr_*_check may fail once the message holds *)
(* a whole peer, or one peer with an allowed IP.  Before that none fails: the *)
(* buffer has a page or more (mnl_ideal_socket_buffer_size), the header, a *)
(* peer's attributes and one allowed IP take less than 300 bytes.          *)
(***************************************************************************)
EXTENDS WgKernel, Integers, Sequences

CONSTANTS Requests,   \* the device requests a caller may make
          None        \* no caller holds the kernel's lock

ASSUME SetAssumption ==
  /\ None \notin Callers
  /\ NoPeer \notin Keys
  /\ \A r \in Requests :
       /\ r.replace_peers \in BOOLEAN
       /\ r.peers \in Seq([key : Keys, remove : BOOLEAN, replace : BOOLEAN,
                           ips : Seq(Ips)])

VARIABLES
  pc,       \* where each caller is in wg_set_device
  req,      \* the wg_device it was called with
  peer,     \* index of the cursor `peer`; 0 is NULL
  allowedip,\* index of the cursor `allowedip` in that peer; 0 is NULL
  stream,   \* the peer nests written so far, oldest first
  mark,     \* how many of them are in messages already sent
  header,   \* whether the message holds the device's own attributes
  ret,      \* what the call returned
  conf,     \* the kernel's peer table
  lock,     \* the caller whose message the kernel is processing, or None
  applied   \* how many nests of stream the kernel has processed

callerVars == <<pc, req, peer, allowedip, stream, mark, header, ret>>
kernelVars == <<conf, lock, applied>>
vars == <<callerVars, kernelVars>>

Peers(c) == req[c].peers
IpsOf(c, p) == Peers(c)[p].ips

\* A WGPEER nest: the peer it is about, whether it carries the peer's own
\* attributes (the code's `if (!allowedip)` block) and the REMOVE_ME and
\* REPLACE_ALLOWEDIPS flags, and the allowed IPs from..to-1 it lists.
Nest == [peer : Nat, full : BOOLEAN, remove : BOOLEAN, replace : BOOLEAN,
         from : Nat, to : Nat]

Init ==
  /\ pc = [c \in Callers |-> "idle"]
  /\ req \in [Callers -> Requests]
  /\ peer = [c \in Callers |-> 0]
  /\ allowedip = [c \in Callers |-> 0]
  /\ stream = [c \in Callers |-> <<>>]
  /\ mark = [c \in Callers |-> 0]
  /\ header = [c \in Callers |-> FALSE]
  /\ ret = [c \in Callers |-> "none"]
  /\ conf = EmptyConfig
  /\ lock = None
  /\ applied = [c \in Callers |-> 0]

-----------------------------------------------------------------------------
\* The caller

Call(c) ==
  /\ pc[c] = "idle"
  /\ pc' = [pc EXCEPT ![c] = "again"]
  /\ UNCHANGED <<req, peer, allowedip, stream, mark, header, ret, kernelVars>>

\* Mutant: the device's attributes, REPLACE_PEERS included, in every message
PrepareHeaderAlways(c) ==
  /\ pc[c] = "again"
  /\ header' = [header EXCEPT ![c] = TRUE]
  /\ IF Peers(c) = <<>>
     THEN pc' = [pc EXCEPT ![c] = "send"] /\ UNCHANGED peer
     ELSE /\ pc' = [pc EXCEPT ![c] = "peers"]
          /\ peer' = [peer EXCEPT ![c] = IF @ = 0 THEN 1 ELSE @]
  /\ UNCHANGED <<req, allowedip, stream, mark, ret, kernelVars>>

\* Label `again`: the device's own attributes go in the message only while
\* the peer cursor is NULL; the peer loop resumes at the cursor.
Prepare(c) ==
  /\ pc[c] = "again"
  /\ header' = [header EXCEPT ![c] = peer[c] = 0]
  /\ IF Peers(c) = <<>>
     THEN pc' = [pc EXCEPT ![c] = "send"] /\ UNCHANGED peer
     ELSE /\ pc' = [pc EXCEPT ![c] = "peers"]
          /\ peer' = [peer EXCEPT ![c] = IF @ = 0 THEN 1 ELSE @]
  /\ UNCHANGED <<req, allowedip, stream, mark, ret, kernelVars>>

\* The loop step peer = peer->next_peer, and what follows it
NextPeer(c) ==
  LET next == IF peer[c] < Len(Peers(c)) THEN peer[c] + 1 ELSE 0
  IN  /\ peer' = [peer EXCEPT ![c] = next]
      /\ pc' = [pc EXCEPT ![c] = IF next = 0 THEN "send" ELSE "peers"]

\* Mutant: without `if (!allowedip)` around the peer's own attributes
NewNestAlwaysFull(c) ==
  LET p == Peers(c)[peer[c]]
      first == IF allowedip[c] = 0 THEN 1 ELSE allowedip[c]
  IN  [peer |-> peer[c], full |-> TRUE, remove |-> p.remove,
       replace |-> p.replace, from |-> first, to |-> first]

\* Mutant: the flags outside that block, REPLACE_ALLOWEDIPS in every nest
NewNestReplaceAlways(c) ==
  LET p == Peers(c)[peer[c]]
      first == IF allowedip[c] = 0 THEN 1 ELSE allowedip[c]
  IN  [peer |-> peer[c], full |-> allowedip[c] = 0, remove |-> p.remove,
       replace |-> p.replace, from |-> first, to |-> first]

\* Mutant: the peer's own attributes under `if (!peer)`, as the device's are
NewNestFullOnce(c) ==
  LET p == Peers(c)[peer[c]]
      start == allowedip[c] = 0
      first == IF start THEN 1 ELSE allowedip[c]
  IN  [peer |-> peer[c], full |-> start /\ peer[c] = 1, remove |-> p.remove,
       replace |-> start /\ p.replace, from |-> first, to |-> first]

\* The nest that PutPeer opens: everything but REMOVE_ME depends on whether
\* this message starts the peer or continues it.
NewNest(c) ==
  LET p == Peers(c)[peer[c]]
      start == allowedip[c] = 0
      first == IF start THEN 1 ELSE allowedip[c]
  IN  [peer |-> peer[c], full |-> start, remove |-> p.remove,
       replace |-> start /\ p.replace, from |-> first, to |-> first]

PutPeer(c) ==
  /\ pc[c] = "peers"
  /\ stream' = [stream EXCEPT ![c] = Append(@, NewNest(c))]
  /\ IF IpsOf(c, peer[c]) = <<>>
     THEN NextPeer(c) /\ UNCHANGED allowedip
     ELSE /\ allowedip' = [allowedip EXCEPT ![c] = IF @ = 0 THEN 1 ELSE @]
          /\ pc' = [pc EXCEPT ![c] = "ips"]
          /\ UNCHANGED peer
  /\ UNCHANGED <<req, mark, header, ret, kernelVars>>

\* Mutant: a message too small for one peer is sent all the same
PeersTooBigAtOnce(c) ==
  /\ pc[c] = "peers"
  /\ pc' = [pc EXCEPT ![c] = "send"]
  /\ UNCHANGED <<req, peer, allowedip, stream, mark, header, ret, kernelVars>>

\* Label `toobig_peers`: the nest is cancelled, the cursor stays on the peer
PeersTooBig(c) ==
  /\ pc[c] = "peers"
  /\ Len(stream[c]) > mark[c]
  /\ pc' = [pc EXCEPT ![c] = "send"]
  /\ UNCHANGED <<req, peer, allowedip, stream, mark, header, ret, kernelVars>>

\* The open nest lists one more allowed IP
WithNextIp(nests) ==
  [nests EXCEPT ![Len(nests)].to = @ + 1]

PutIp(c) ==
  /\ pc[c] = "ips"
  /\ stream' = [stream EXCEPT ![c] = WithNextIp(@)]
  /\ IF allowedip[c] < Len(IpsOf(c, peer[c]))
     THEN /\ allowedip' = [allowedip EXCEPT ![c] = @ + 1]
          /\ UNCHANGED <<pc, peer>>
     ELSE /\ allowedip' = [allowedip EXCEPT ![c] = 0]
          /\ NextPeer(c)
  /\ UNCHANGED <<req, mark, header, ret, kernelVars>>

\* Label `toobig_allowedips`: the nests are closed, both cursors stay
IpsTooBig(c) ==
  LET n == Len(stream[c]) IN
  /\ pc[c] = "ips"
  /\ n > mark[c] + 1 \/ stream[c][n].to > stream[c][n].from
  /\ pc' = [pc EXCEPT ![c] = "send"]
  /\ UNCHANGED <<req, peer, allowedip, stream, mark, header, ret, kernelVars>>

\* mnlg_socket_send fails, or mnlg_socket_open did before the first message:
\* the kernel has not seen the message
SendFails(c) ==
  /\ \/ pc[c] = "send"
     \/ pc[c] = "again" /\ stream[c] = <<>>
  /\ pc' = [pc EXCEPT ![c] = "out"]
  /\ ret' = [ret EXCEPT ![c] = "error"]
  /\ UNCHANGED <<req, peer, allowedip, stream, mark, header, kernelVars>>

-----------------------------------------------------------------------------
\* The kernel processes one message at a time, in the sender's send call: the
\* device's attributes, then its peer nests one by one.

Send(c) ==
  /\ pc[c] = "send"
  /\ lock = None
  /\ lock' = c
  /\ pc' = [pc EXCEPT ![c] = "kernel"]
  /\ mark' = [mark EXCEPT ![c] = Len(stream[c])]
  /\ conf' = IF header[c] /\ req[c].replace_peers THEN EmptyConfig ELSE conf
  /\ UNCHANGED <<req, peer, allowedip, stream, header, ret, applied>>

ListedIps(c, n) ==
  LET nest == stream[c][n]
  IN  {IpsOf(c, nest.peer)[j] : j \in nest.from .. nest.to - 1}

KernelPeer(c) ==
  LET n    == applied[c] + 1
      nest == stream[c][n]
  IN  /\ lock = c
      /\ n <= mark[c]
      /\ conf' = SetPeer(conf, c, Peers(c)[nest.peer].key, nest.remove,
                         nest.replace, nest.full, ListedIps(c, n))
      /\ applied' = [applied EXCEPT ![c] = n]
      /\ UNCHANGED <<callerVars, lock>>

\* The kernel gives up in the middle of a message (ENOMEM, ENODEV, ...), or the
\* acknowledgement cannot be read: mnlg_socket_recv_run < 0 either way.
RecvFails(c) ==
  /\ lock = c
  /\ lock' = None
  /\ pc' = [pc EXCEPT ![c] = "out"]
  /\ ret' = [ret EXCEPT ![c] = "error"]
  /\ UNCHANGED <<req, peer, allowedip, stream, mark, header, conf, applied>>

\* Mutant: no `if (peer) goto again`
AckOnce(c) ==
  /\ lock = c
  /\ applied[c] = mark[c]
  /\ lock' = None
  /\ pc' = [pc EXCEPT ![c] = "out"]
  /\ ret' = [ret EXCEPT ![c] = "ok"]
  /\ UNCHANGED <<req, peer, allowedip, stream, mark, header, conf, applied>>

\* Mutant: `ret` not initialised
AckUnset(c) ==
  /\ lock = c
  /\ applied[c] = mark[c]
  /\ lock' = None
  /\ IF peer[c] # 0
     THEN pc' = [pc EXCEPT ![c] = "again"] /\ UNCHANGED ret
     ELSE /\ pc' = [pc EXCEPT ![c] = "out"]
          /\ ret' = [ret EXCEPT ![c] = "unset"]
  /\ UNCHANGED <<req, peer, allowedip, stream, mark, header, conf, applied>>

\* The acknowledgement: `if (peer) goto again`
Ack(c) ==
  /\ lock = c
  /\ applied[c] = mark[c]
  /\ lock' = None
  /\ IF peer[c] # 0
     THEN pc' = [pc EXCEPT ![c] = "again"] /\ UNCHANGED ret
     ELSE /\ pc' = [pc EXCEPT ![c] = "out"]
          /\ ret' = [ret EXCEPT ![c] = "ok"]
  /\ UNCHANGED <<req, peer, allowedip, stream, mark, header, conf, applied>>

-----------------------------------------------------------------------------
Build(c) == Prepare(c) \/ PutPeer(c) \/ PeersTooBig(c) \/ PutIp(c) \/ IpsTooBig(c)
Exchange(c) == Send(c) \/ SendFails(c) \/ KernelPeer(c) \/ RecvFails(c) \/ Ack(c)

Next == \E c \in Callers : Call(c) \/ Build(c) \/ Exchange(c)

Spec == Init /\ [][Next]_vars

\* A call that is running keeps running: the loops never wait but for the
\* kernel, which processes a message to its end.
FairSpec == Spec /\ \A c \in Callers : WF_vars(Build(c) \/ Exchange(c))
-----------------------------------------------------------------------------
\* The types of the callers' and the kernel's state: cursors, nests and results
\* of wg_set_device.
TypeOK ==
  /\ pc \in [Callers -> {"idle", "again", "peers", "ips", "send", "kernel", "out"}]
  /\ req \in [Callers -> Requests]
  /\ peer \in [Callers -> Nat]
  /\ allowedip \in [Callers -> Nat]
  /\ stream \in [Callers -> Seq(Nest)]
  /\ mark \in [Callers -> Nat]
  /\ header \in [Callers -> BOOLEAN]
  /\ ret \in [Callers -> {"none", "ok", "error"}]
  /\ conf \in Configs
  /\ lock \in Callers \cup {None}
  /\ applied \in [Callers -> Nat]

\* Nest b takes up the request where nest a left it
Follows(c, a, b) ==
  IF a.to <= Len(IpsOf(c, a.peer))
  THEN b.peer = a.peer /\ ~b.full /\ b.from = a.to
  ELSE b.peer = a.peer + 1 /\ b.full /\ b.from = 1

\* The parts of StreamInOrder
StreamStarts(c) ==
  stream[c] # <<>> => /\ stream[c][1].peer = 1
                      /\ stream[c][1].full
                      /\ stream[c][1].from = 1

NestInRequest(c, a) ==
  /\ a.peer \in 1 .. Len(Peers(c))
  /\ a.from \in 1 .. a.to
  /\ a.to <= Len(IpsOf(c, a.peer)) + 1
  /\ a.remove = Peers(c)[a.peer].remove
  /\ a.replace = (a.full /\ Peers(c)[a.peer].replace)

InOrder(c) ==
  /\ StreamStarts(c)
  /\ \A n \in 1 .. Len(stream[c]) : NestInRequest(c, stream[c][n])
  /\ \A n \in 1 .. Len(stream[c]) - 1 : Follows(c, stream[c][n], stream[c][n + 1])

\* The nests written for c, wherever the messages were cut, list the request's
\* peers and allowed IPs in order, none left out and none twice, with the
\* peer's own attributes and REPLACE_ALLOWEDIPS in the first nest of a peer
\* only and REMOVE_ME in each (the peer loop of wg_set_device).
StreamInOrder == \A c \in Callers : InOrder(c)

\* stream[c] reaches the end of the request
Complete(c) ==
  IF Peers(c) = <<>> THEN stream[c] = <<>>
  ELSE LET last == stream[c][Len(stream[c])] IN
       /\ stream[c] # <<>>
       /\ last.peer = Len(Peers(c))
       /\ last.to = Len(IpsOf(c, last.peer)) + 1

\* wg_set_device returns 0 only when the kernel has processed the whole request
SuccessComplete ==
  \A c \in Callers : ret[c] = "ok" => applied[c] = Len(stream[c]) /\ Complete(c)

\* Every call of wg_set_device returns: each message it sends carries at least
\* one peer or allowed IP further.
CallReturns == \A c \in Callers : pc[c] = "again" ~> pc[c] = "out"

\* The nests the kernel has processed amount to a prefix of the request
Reached(c) ==
  IF applied[c] = 0 THEN <<1, 0>>
  ELSE LET last == stream[c][applied[c]] IN
       IF last.to > Len(IpsOf(c, last.peer)) THEN <<last.peer + 1, 0>>
       ELSE <<last.peer, last.to>>

Status(c) ==
  CASE ret[c] # "none" -> ret[c]
    [] ret[c] = "none" /\ (mark[c] > 0 \/ lock = c) -> "running"
    [] OTHER -> "ready"

\* wg_set_device implements WgConfigure
Configure == INSTANCE WgConfigure
               WITH status <- [c \in Callers |-> Status(c)],
                    at     <- [c \in Callers |-> Reached(c)]

\* Whatever the messages are, the kernel's table goes through the steps of
\* WgConfigure only.
ImplementsConfigure == Configure!Spec

-----------------------------------------------------------------------------
(***************************************************************************)
(* The inductive invariant behind StreamInOrder and SuccessComplete: where *)
(* the two cursors stand with respect to the last nest written, and what   *)
(* of the stream is sent and processed at each point of the loop.          *)
(***************************************************************************)
LastNest(c) == stream[c][Len(stream[c])]

CursorsAfterLast(c) ==
  /\ peer[c] \in 0 .. Len(Peers(c))
  /\ allowedip[c] # 0 => peer[c] # 0
  /\ stream[c] = <<>> => (peer[c] \in {0, 1} /\ allowedip[c] = 0)
  /\ stream[c] # <<>> =>
       LET last == LastNest(c) IN
       IF allowedip[c] # 0
       THEN /\ last.peer = peer[c]
            /\ last.to = allowedip[c]
            /\ allowedip[c] <= Len(IpsOf(c, peer[c]))
       ELSE /\ last.to = Len(IpsOf(c, last.peer)) + 1
            /\ last.peer + 1 = IF peer[c] = 0 THEN Len(Peers(c)) + 1 ELSE peer[c]

SentSoFar(c) ==
  /\ applied[c] <= mark[c]
  /\ mark[c] <= Len(stream[c])
  /\ (lock = c) <=> (pc[c] = "kernel")
  /\ (lock # c /\ ret[c] # "error") => applied[c] = mark[c]
  /\ (ret[c] = "none") <=> (pc[c] # "out")
  /\ pc[c] = "idle" => (stream[c] = <<>> /\ peer[c] = 0)
  /\ pc[c] = "again" => mark[c] = Len(stream[c])
  /\ (pc[c] = "again" /\ peer[c] = 0) => stream[c] = <<>>
  /\ pc[c] \in {"peers", "ips"} => peer[c] # 0
  /\ pc[c] = "ips" => (allowedip[c] # 0 /\ mark[c] < Len(stream[c]))
  /\ (pc[c] = "send" /\ Peers(c) # <<>>) => mark[c] < Len(stream[c])
  /\ pc[c] = "kernel" => mark[c] = Len(stream[c])
  /\ (pc[c] = "kernel" /\ Peers(c) # <<>>) => stream[c] # <<>>

IndInv ==
  /\ TypeOK
  /\ \A c \in Callers : InOrder(c) /\ CursorsAfterLast(c) /\ SentSoFar(c)
  /\ SuccessComplete

\* For the refinement: a message that continues a peer carries an allowed IP
\* of it, and the device's own attributes are in the first message only.
MessageAdvances(c) ==
  /\ (pc[c] = "peers" /\ allowedip[c] # 0) => Len(stream[c]) = mark[c]
  /\ \A n \in 1 .. Len(stream[c]) :
       \/ stream[c][n].full
       \/ stream[c][n].from < stream[c][n].to
       \/ pc[c] = "ips" /\ n = Len(stream[c]) /\ n = mark[c] + 1

HeaderOnce(c) ==
  /\ pc[c] = "idle" => mark[c] = 0
  /\ pc[c] = "again" => (peer[c] = 0 <=> mark[c] = 0)
  /\ pc[c] \in {"peers", "ips", "send"} => (header[c] <=> mark[c] = 0)

MessageInv == \A c \in Callers : MessageAdvances(c) /\ HeaderOnce(c)
=============================================================================
