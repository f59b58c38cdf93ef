------------------------------- MODULE Proxy -------------------------------
(***************************************************************************)
(* The TCP proxy (proxy.c): the server forks a process for a connection,   *)
(* which connects to the remote host and forks two forwarders, one for     *)
(* each direction.  The four processes share the two sockets; nobody waits *)
(* for anybody, and a forwarder that comes to the end of its input shuts   *)
(* both sockets down in both directions.                                   *)
(***************************************************************************)
EXTENDS Integers, FiniteSets

CONSTANTS Filters,    \* the options -i and -o: sets of directions that pass
                      \* through an external command
          MaxChunks,  \* what a peer sends, at most
          PipeSize    \* what a pipe to or from a command holds, at most

Direction == {"up", "down"}   \* from the client to the remote host, and back
Socket    == {"client", "remote"}
Process   == {"server", "handler"} \cup Direction

ASSUME ProxyAssumption ==
    /\ Filters \subseteq SUBSET Direction
    /\ MaxChunks \in Nat /\ PipeSize \in Nat \ {0}

Src(d)   == IF d = "up" THEN "client" ELSE "remote"
Dst(d)   == IF d = "up" THEN "remote" ELSE "client"
Other(d) == IF d = "up" THEN "down" ELSE "up"

VARIABLES
    filtered, \* the directions with a command
    server, handler, \* where these two processes are
    fw,       \* where the forwarders are
    fd,       \* the sockets each process has open
    made,     \* the sockets there are: accepted, connected
    shut,     \* the sockets that have been shut down
    reset,    \* the sockets whose peer has reset the connection
    sent, eof,\* what the peer at the source has sent, and that it sends no more
    queue,    \* received by the source socket, not by the forwarder
    buf,      \* in the forwarder
    filter,   \* the external commands, and what is in the pipes to and from them
    got,      \* sent on to the destination
    first     \* history: the first direction to be forwarded to its end

peerVars == <<filtered, sent, eof, reset>>
dataVars == <<queue, buf, filter, got>>
vars     == <<server, handler, fw, fd, made, shut, first, peerVars, dataVars>>

Init ==
    /\ filtered \in Filters
    /\ server = "accept" /\ handler = "none"
    /\ fw = [d \in Direction |-> "none"]
    /\ fd = [p \in Process |-> {}]
    /\ made = {} /\ shut = {} /\ reset = {}
    /\ sent = [d \in Direction |-> 0]
    /\ eof = [d \in Direction |-> FALSE]
    /\ queue = [d \in Direction |-> 0]
    /\ buf = [d \in Direction |-> 0]
    /\ filter = [d \in Direction |-> [command |-> "none", input |-> 0, output |-> 0]]
    /\ got = [d \in Direction |-> 0]
    /\ first = "none"
-----------------------------------------------------------------------------
(* server_loop.  Neither accept nor fork is checked: after a failed accept *)
(* a handler is forked with client_sock = -1, after a failed fork the      *)
(* client is dropped.  One connection is modelled.                         *)

Accept ==
    /\ server = "accept"
    /\ \/ made' = {"client"} /\ fd' = [fd EXCEPT !["server"] = {"client"}]
       \/ UNCHANGED <<made, fd>>
    /\ server' = "fork"
    /\ UNCHANGED <<handler, fw, shut, first, peerVars, dataVars>>

ForkHandler ==
    /\ server = "fork"
    /\ \/ handler' = "connect" /\ fd' = [fd EXCEPT !["handler"] = fd["server"]]
       \/ UNCHANGED <<handler, fd>>
    /\ server' = "close"
    /\ UNCHANGED <<fw, made, shut, first, peerVars, dataVars>>

ServerCloses ==
    /\ server = "close"
    /\ server' = "served"
    /\ fd' = [fd EXCEPT !["server"] = {}]
    /\ UNCHANGED <<handler, fw, made, shut, first, peerVars, dataVars>>
-----------------------------------------------------------------------------
(* handle_client *)

Connect ==
    /\ handler = "connect"
    /\ \/ /\ handler' = "fork.up"
          /\ made' = made \cup {"remote"}
          /\ fd' = [fd EXCEPT !["handler"] = @ \cup {"remote"}]
       \/ handler' = "cleanup" /\ UNCHANGED <<made, fd>>
    /\ UNCHANGED <<server, fw, shut, first, peerVars, dataVars>>

(* A fork that fails is taken for the parent's return of one that has not. *)
ForkForwarder(d, at, next) ==
    /\ handler = at
    /\ handler' = next
    /\ \/ /\ fw' = [fw EXCEPT ![d] = IF d \in filtered THEN "filter.start" ELSE "recv"]
          /\ fd' = [fd EXCEPT ![d] = fd["handler"]]
       \/ UNCHANGED <<fw, fd>>
    /\ UNCHANGED <<server, made, shut, first, peerVars, dataVars>>

Cleanup ==
    /\ handler = "cleanup"
    /\ handler' = "ended"
    /\ fd' = [fd EXCEPT !["handler"] = {}]
    /\ UNCHANGED <<server, fw, made, shut, first, peerVars, dataVars>>
-----------------------------------------------------------------------------
(* forward_data and forward_data_ext *)

(* The process ends without a word: exit after an error, or SIGPIPE.       *)
Dies(d) == fw' = [fw EXCEPT ![d] = "dead"] /\ fd' = [fd EXCEPT ![d] = {}]

(* The pipes cannot be made; the command runs; or its fork fails, which is *)
(* taken for the parent's return of one that has not: then nobody is at    *)
(* the other ends of the pipes.                                            *)
FilterStart(d) ==
    /\ fw[d] = "filter.start"
    /\ \/ Dies(d) /\ UNCHANGED filter
       \/ /\ fw' = [fw EXCEPT ![d] = "recv"] /\ UNCHANGED fd
          /\ \/ filter' = [filter EXCEPT ![d].command = "runs"]
             \/ UNCHANGED filter
    /\ UNCHANGED <<server, handler, made, shut, first, queue, buf, got, peerVars>>

Recv(d) ==
    /\ fw[d] = "recv"
    /\ Src(d) \in fd[d] \ reset
    /\ queue[d] > 0
    /\ \E n \in 1 .. queue[d] :
          /\ queue' = [queue EXCEPT ![d] = @ - n]
          /\ buf' = [buf EXCEPT ![d] = n]
    /\ fw' = [fw EXCEPT ![d] = IF d \in filtered THEN "filter.write" ELSE "send"]
    /\ UNCHANGED <<server, handler, fd, made, shut, first, filter, got, peerVars>>

\* Mutant: only the socket that has ended is shut down.
RecvEndsHalf(d) ==
    /\ fw[d] = "recv"
    /\ Src(d) \in fd[d] \ reset
    /\ queue[d] = 0
    /\ eof[d] \/ Src(d) \in shut
    /\ fw' = [fw EXCEPT ![d] = "done"]
    /\ shut' = shut \cup {Src(d)}
    /\ fd' = [fd EXCEPT ![d] = {}]
    /\ first' = IF first = "none" THEN d ELSE first
    /\ UNCHANGED <<server, handler, made, peerVars, dataVars>>

(* n = 0: the peer has ended its stream or the socket has been shut down.  *)
(* Both sockets are shut down, for the other forwarder too.                *)
RecvEnds(d) ==
    /\ fw[d] = "recv"
    /\ Src(d) \in fd[d] \ reset
    /\ queue[d] = 0
    /\ eof[d] \/ Src(d) \in shut
    /\ fw' = [fw EXCEPT ![d] = "done"]
    /\ shut' = shut \cup fd[d]
    /\ fd' = [fd EXCEPT ![d] = {}]
    /\ first' = IF first = "none" THEN d ELSE first
    /\ UNCHANGED <<server, handler, made, peerVars, dataVars>>

(* n < 0: a reset, or a socket that is -1.  forward_data exits at once;    *)
(* forward_data_ext does not tell it from the end of the stream.           *)
RecvFails(d) ==
    /\ fw[d] = "recv"
    /\ Src(d) \notin fd[d] \ reset
    /\ Dies(d)
    /\ shut' = IF d \in filtered THEN shut \cup fd[d] ELSE shut
    /\ UNCHANGED <<server, handler, made, first, peerVars, dataVars>>

\* Mutant: a send that takes a part only.
SendPart(d) ==
    /\ fw[d] = "send"
    /\ buf' = [buf EXCEPT ![d] = 0]
    /\ \/ /\ Dst(d) \in shut \cup reset
          /\ Dies(d) /\ UNCHANGED got
       \/ /\ Dst(d) \in fd[d] \ (shut \cup reset)
          /\ got' = [got EXCEPT ![d] = @ + 1]
          /\ fw' = [fw EXCEPT ![d] = "recv"] /\ UNCHANGED fd
    /\ UNCHANGED <<server, handler, made, shut, first, queue, filter, peerVars>>

(* What send returns is not looked at, but SIGPIPE kills.                  *)
Send(d) ==
    /\ fw[d] = "send"
    /\ buf' = [buf EXCEPT ![d] = 0]
    /\ \/ /\ Dst(d) \in shut \cup reset
          /\ Dies(d) /\ UNCHANGED got
       \/ /\ Dst(d) \in fd[d] \ (shut \cup reset)
          /\ got' = [got EXCEPT ![d] = @ + buf[d]]
          /\ fw' = [fw EXCEPT ![d] = "recv"] /\ UNCHANGED fd
       \/ /\ Dst(d) \notin fd[d] \cup shut \cup reset
          /\ fw' = [fw EXCEPT ![d] = "recv"] /\ UNCHANGED <<fd, got>>
    /\ UNCHANGED <<server, handler, made, shut, first, queue, filter, peerVars>>

(* write() returns when all is in the pipe: it sleeps while there is no    *)
(* room, for good if the command does not read.                            *)
FilterWrite(d) ==
    /\ fw[d] = "filter.write"
    /\ \/ /\ filter[d].command # "runs"
          /\ Dies(d)
          /\ buf' = [buf EXCEPT ![d] = 0] /\ UNCHANGED filter
       \/ /\ filter[d].command = "runs"
          /\ \E n \in 1 .. buf[d] :
                /\ filter[d].input + n <= PipeSize
                /\ filter' = [filter EXCEPT ![d].input = @ + n]
                /\ buf' = [buf EXCEPT ![d] = @ - n]
                /\ fw' = [fw EXCEPT ![d] = IF n = buf[d] THEN "filter.read" ELSE "filter.write"]
          /\ UNCHANGED fd
    /\ UNCHANGED <<server, handler, made, shut, first, queue, got, peerVars>>

(* One read for each write: the forwarder sleeps until the command gives   *)
(* something, and at the end of the input takes nothing more from it.      *)
FilterRead(d) ==
    /\ fw[d] = "filter.read"
    /\ \/ \E n \in 1 .. filter[d].output :
             /\ filter' = [filter EXCEPT ![d].output = @ - n]
             /\ buf' = [buf EXCEPT ![d] = n]
             /\ fw' = [fw EXCEPT ![d] = "send"]
       \/ /\ filter[d].command # "runs" /\ filter[d].output = 0
          /\ fw' = [fw EXCEPT ![d] = "recv"]
          /\ UNCHANGED <<filter, buf>>
    /\ UNCHANGED <<server, handler, fd, made, shut, first, queue, got, peerVars>>

Forward(d) ==
    \/ Recv(d) \/ RecvEnds(d) \/ RecvFails(d) \/ Send(d)
    \/ FilterStart(d) \/ FilterWrite(d) \/ FilterRead(d)
-----------------------------------------------------------------------------
(* The peers and the external command *)

PeerSends(d) ==
    /\ Src(d) \in made \ reset /\ ~eof[d] /\ sent[d] < MaxChunks
    /\ sent' = [sent EXCEPT ![d] = @ + 1]
    /\ queue' = [queue EXCEPT ![d] = @ + 1]
    /\ UNCHANGED <<server, handler, fw, fd, made, shut, first, filtered, eof, reset, buf, filter, got>>

PeerEnds(d) ==
    /\ Src(d) \in made /\ ~eof[d]
    /\ eof' = [eof EXCEPT ![d] = TRUE]
    /\ UNCHANGED <<server, handler, fw, fd, made, shut, first, filtered, sent, reset, dataVars>>

PeerResets(s) ==
    /\ s \in made \ reset
    /\ reset' = reset \cup {s}
    /\ UNCHANGED <<server, handler, fw, fd, made, shut, first, filtered, sent, eof, dataVars>>

(* A command reads, writes and ends as it likes.                           *)
Commanded(d) == filter[d].command = "runs" /\ fw[d] \notin {"done", "dead"}

Command(d, then) ==
    /\ Commanded(d)
    /\ filter' = [filter EXCEPT ![d] = then]
    /\ UNCHANGED <<server, handler, fw, fd, made, shut, first, peerVars, queue, buf, got>>

CommandReads(d) ==
    filter[d].input > 0 /\ Command(d, [filter[d] EXCEPT !.input = @ - 1])

CommandWrites(d) ==
    filter[d].output < PipeSize /\ Command(d, [filter[d] EXCEPT !.output = @ + 1])

CommandEnds(d) == Command(d, [filter[d] EXCEPT !.command = "ended", !.input = 0])

Next ==
    \/ Accept \/ ForkHandler \/ ServerCloses
    \/ Connect \/ Cleanup
    \/ ForkForwarder("up", "fork.up", "fork.down")
    \/ ForkForwarder("down", "fork.down", "cleanup")
    \/ \E d \in Direction : \/ Forward(d) \/ PeerSends(d) \/ PeerEnds(d)
                            \/ CommandReads(d) \/ CommandWrites(d) \/ CommandEnds(d)
    \/ \E s \in Socket : PeerResets(s)

Spec == Init /\ [][Next]_vars

(* The forwarders run, but for a send to a peer that need not read.  An    *)
(* external command need not do anything.                                  *)
MaySleep(d) == fw[d] = "send" /\ Dst(d) \in fd[d] \ (shut \cup reset)

FairSpec == Spec /\ \A d \in Direction : WF_vars(~MaySleep(d) /\ Forward(d))
-----------------------------------------------------------------------------
(* Properties *)

(* The direction that ends first has forwarded all it was sent.  It is the *)
(* other one that loses what was still under way, because both sockets are *)
(* shut down in both directions: a client that only ends its own stream    *)
(* may never get its answer.                                               *)
Faultless(d) == d \notin filtered /\ Dst(d) \in made /\ reset = {}

FirstLosesNothing ==
    \A d \in Direction :
        fw[d] = "done" /\ Faultless(d) /\ got[d] < sent[d] => first = Other(d)

(* When one forwarder has come to the end of its stream, the other one     *)
(* does not stay behind, although nobody waits for it or signals it, and   *)
(* although it may be asleep in a send.  Only its external command can     *)
(* hold it for ever: one that does not read what the forwarder writes, or  *)
(* does not answer it.                                                     *)
HeldByCommand(d) ==
    /\ filter[d].command = "runs"
    /\ \/ fw[d] = "filter.write" /\ filter[d].input = PipeSize
       \/ fw[d] = "filter.read" /\ filter[d].output = 0

OneEndsBoth ==
    \A d \in Direction :
        <>(fw[d] = "done") =>
            <>[](fw[Other(d)] \in {"done", "dead", "none"} \/ HeldByCommand(Other(d)))
=============================================================================
