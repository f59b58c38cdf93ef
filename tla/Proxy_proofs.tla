---------------------------- MODULE Proxy_proofs ----------------------------
(***************************************************************************)
(* Proofs about Proxy, for any options and any amount of data.  While no   *)
(* peer resets and both connections are made, a chunk that was sent is in  *)
(* the socket's queue, in the forwarder or at its destination, and the     *)
(* first to shut the sockets down has found its own queue empty; that is   *)
(* what FirstLosesNothing rests on.                                        *)
(***************************************************************************)
EXTENDS Proxy, TLAPS

Filtering == [command : {"none", "runs", "ended"}, input : Nat, output : Nat]

TypeOK ==
    /\ filtered \subseteq Direction
    /\ server \in {"accept", "fork", "close", "served"}
    /\ handler \in {"none", "connect", "fork.up", "fork.down", "cleanup", "ended"}
    /\ fw \in [Direction -> {"none", "recv", "filter.start", "filter.write", "filter.read",
                             "send", "done", "dead"}]
    /\ fd \in [Process -> SUBSET Socket]
    /\ made \subseteq Socket /\ shut \subseteq Socket /\ reset \subseteq Socket
    /\ sent \in [Direction -> Nat] /\ eof \in [Direction -> BOOLEAN]
    /\ queue \in [Direction -> Nat] /\ buf \in [Direction -> Nat]
    /\ filter \in [Direction -> Filtering]
    /\ got \in [Direction -> Nat]
    /\ first \in Direction \cup {"none"}

Running(d) == fw[d] \notin {"none", "done", "dead"}

(* The sockets are there before the forwarders, and those that are there   *)
(* when a process is forked are the ones it has.                           *)
Inherited ==
    /\ server = "accept" => made = {} /\ fd["server"] = {}
    /\ server \in {"accept", "fork"} => handler = "none"
    /\ server = "fork" => fd["server"] = made
    /\ handler \in {"connect", "fork.up", "fork.down"} => fd["handler"] = made
    /\ handler \in {"none", "connect", "fork.up"} => fw["up"] = "none"
    /\ handler \in {"none", "connect", "fork.up", "fork.down"} => fw["down"] = "none"
    /\ \A d \in Direction : Running(d) => fd[d] = made

(* What the peer at the source of d has sent is at the destination, in the *)
(* forwarder or still to be received, unless the forwarder has died.       *)
Accounted(d) ==
    /\ fw[d] \notin {"filter.start", "filter.write", "filter.read"}
    /\ fw[d] # "send" => buf[d] = 0
    /\ fw[d] # "dead" => sent[d] = got[d] + buf[d] + queue[d]

(* No shutdown comes before a direction has ended, and the one that ends   *)
(* first does so because its peer has.                                     *)
EndsByPeer ==
    /\ shut # {} => first # "none"
    /\ first # "none" => fw[first] = "done" /\ eof[first] /\ queue[first] = 0

Undisturbed == made = Socket /\ reset = {}

(* What the properties need of the time before the forwarders.             *)
Untouched ==
    /\ \A d \in Direction : fw[d] = "none" => got[d] = 0 /\ buf[d] = 0 /\ sent[d] = queue[d]
    /\ (\A d \in Direction : fw[d] = "none") => shut = {} /\ first = "none"

Ended == \A d \in Direction : fw[d] = "done" => first # "none" /\ Src(d) \in made

IndInv ==
    /\ TypeOK
    /\ Inherited
    /\ Untouched
    /\ Ended
    /\ Undisturbed => EndsByPeer /\ \A d \in Direction \ filtered : Accounted(d)

LEMMA Directions ==
    /\ "up" \in Direction /\ "down" \in Direction
    /\ \A d \in Direction : /\ Src(d) \in Socket /\ Dst(d) \in Socket /\ Src(d) # Dst(d)
                            /\ Other(d) \in Direction /\ Other(d) # d
                            /\ \A e \in Direction : e = d \/ e = Other(d)
                            /\ d \in Process
    /\ "server" \in Process /\ "handler" \in Process
    /\ "server" \notin Direction /\ "handler" \notin Direction /\ "none" \notin Direction
BY DEF Direction, Socket, Process, Src, Dst, Other

LEMMA InitIndInv == Init => IndInv
BY ProxyAssumption DEF Filtering, Init, IndInv, TypeOK, Ended, Inherited, Untouched, Running, Undisturbed, EndsByPeer,
   Accounted, Direction, Socket, Process

LEMMA TypeStep == TypeOK /\ [Next]_vars => TypeOK'
<1> SUFFICES ASSUME TypeOK, [Next]_vars PROVE TypeOK'
  OBVIOUS
<1> USE DEF TypeOK, peerVars, dataVars
<1>1. CASE UNCHANGED vars
  BY <1>1 DEF vars
<1>2. CASE Accept
  <2>1. fd' \in [Process -> SUBSET Socket] /\ made' \subseteq Socket
    <3>1. {"client"} \in SUBSET Socket
      BY DEF Socket
    <3>2. \A x \in SUBSET Socket : [fd EXCEPT !["server"] = x] \in [Process -> SUBSET Socket]
      BY Directions
    <3> QED
      BY <1>2, <3>1, <3>2 DEF Accept
  <2> QED
    BY <1>2, <2>1 DEF Accept
<1>3. CASE ForkHandler
  BY <1>3, Directions DEF ForkHandler, Socket
<1>4. CASE ServerCloses
  BY <1>4, Directions DEF ServerCloses, Socket
<1>5. CASE Connect
  <2>1. fd' \in [Process -> SUBSET Socket] /\ made' \subseteq Socket
    <3>1. {"remote"} \in SUBSET Socket /\ fd["handler"] \in SUBSET Socket
      BY Directions DEF Socket
    <3>2. fd["handler"] \cup {"remote"} \in SUBSET Socket
      BY <3>1
    <3>3. \A x \in SUBSET Socket : [fd EXCEPT !["handler"] = x] \in [Process -> SUBSET Socket]
      BY Directions
    <3> QED
      BY <1>5, <3>1, <3>2, <3>3 DEF Connect
  <2>2. handler' \in {"fork.up", "cleanup"}
    BY <1>5 DEF Connect
  <2> QED
    BY <1>5, <2>1, <2>2 DEF Connect
<1>6. CASE Cleanup
  BY <1>6, Directions DEF Cleanup, Socket
<1>7. ASSUME NEW d \in Direction, NEW at,
             NEW next \in {"fork.down", "cleanup"}, ForkForwarder(d, at, next)
      PROVE  TypeOK'
  <2>1. /\ handler' \in {"none", "connect", "fork.up", "fork.down", "cleanup", "ended"}
        /\ UNCHANGED <<server, made, shut, first, peerVars, dataVars>>
    BY <1>7 DEF ForkForwarder
  <2>2. CASE UNCHANGED <<fw, fd>>
    BY <2>1, <2>2
  <2>3. CASE /\ fw' = [fw EXCEPT ![d] = IF d \in filtered THEN "filter.start" ELSE "recv"]
             /\ fd' = [fd EXCEPT ![d] = fd["handler"]]
    <3>1. fd' \in [Process -> SUBSET Socket]
      BY <2>3, Directions
    <3> QED
      BY <2>1, <2>3, <3>1
  <2> QED
    BY <1>7, <2>2, <2>3 DEF ForkForwarder
<1>8. ASSUME NEW d \in Direction, Recv(d)
      PROVE  TypeOK'
  BY <1>8, Directions DEF Recv
<1>9. ASSUME NEW d \in Direction, RecvEnds(d)
      PROVE  TypeOK'
  BY <1>9, Directions DEF RecvEnds
<1>10. ASSUME NEW d \in Direction, RecvFails(d)
      PROVE  TypeOK'
  BY <1>10, Directions DEF RecvFails, Dies
<1>11. ASSUME NEW d \in Direction, Send(d)
      PROVE  TypeOK'
  BY <1>11, Directions DEF Send, Dies
<1>12. ASSUME NEW d \in Direction, FilterWrite(d)
      PROVE  TypeOK'
  <2>1. filter[d] \in Filtering /\ buf[d] \in Nat
    OBVIOUS
  <2>2. CASE Dies(d) /\ buf' = [buf EXCEPT ![d] = 0] /\ UNCHANGED filter
    BY <1>12, <2>2, Directions DEF FilterWrite, Dies
  <2>3. ASSUME NEW n \in 1 .. buf[d],
               filter' = [filter EXCEPT ![d].input = @ + n],
               buf' = [buf EXCEPT ![d] = @ - n],
               fw' = [fw EXCEPT ![d] = IF n = buf[d] THEN "filter.read" ELSE "filter.write"],
               fd' = fd
        PROVE  TypeOK'
    <3>1. [filter[d] EXCEPT !.input = filter[d].input + n] \in Filtering
      BY <2>1 DEF Filtering
    <3>2. filter' \in [Direction -> Filtering]
      BY <2>3, <3>1
    <3>3. buf' \in [Direction -> Nat]
      BY <2>1, <2>3
    <3> QED
      BY <1>12, <2>3, <3>2, <3>3 DEF FilterWrite
  <2> QED
    BY <1>12, <2>2, <2>3 DEF FilterWrite
<1>13. ASSUME NEW d \in Direction, FilterRead(d)
      PROVE  TypeOK'
  <2>1. filter[d] \in Filtering
    OBVIOUS
  <2>2. \A n \in 1 .. filter[d].output :
           /\ [filter[d] EXCEPT !.output = filter[d].output - n] \in Filtering
           /\ n \in Nat
    BY <2>1 DEF Filtering
  <2>3. filter' \in [Direction -> Filtering]
    BY <1>13, <2>2 DEF FilterRead
  <2>4. buf' \in [Direction -> Nat]
    BY <1>13, <2>2 DEF FilterRead
  <2> QED
    BY <1>13, <2>3, <2>4 DEF FilterRead
<1>14. ASSUME NEW d \in Direction, FilterStart(d)
      PROVE  TypeOK'
  <2>1. [filter[d] EXCEPT !.command = "runs"] \in Filtering
    BY DEF Filtering
  <2>2. filter' \in [Direction -> Filtering]
    BY <1>14, <2>1 DEF FilterStart
  <2> QED
    BY <1>14, <2>2, Directions DEF FilterStart, Dies
<1>15. ASSUME NEW d \in Direction, PeerSends(d)
      PROVE  TypeOK'
  BY <1>15, Directions DEF PeerSends
<1>16. ASSUME NEW d \in Direction, PeerEnds(d)
      PROVE  TypeOK'
  BY <1>16, Directions DEF PeerEnds
<1>17. ASSUME NEW d \in Direction, CommandReads(d) \/ CommandWrites(d) \/ CommandEnds(d)
      PROVE  TypeOK'
  <2>1. filter[d] \in Filtering
    OBVIOUS
  <2>2. \E f \in Filtering : Command(d, f)
    <3>1. CASE CommandReads(d)
      <4>1. [filter[d] EXCEPT !.input = filter[d].input - 1] \in Filtering
        BY <2>1, <3>1 DEF CommandReads, Filtering
      <4> QED
        BY <3>1, <4>1 DEF CommandReads
    <3>2. CASE CommandWrites(d)
      <4>1. [filter[d] EXCEPT !.output = filter[d].output + 1] \in Filtering
        BY <2>1 DEF Filtering
      <4> QED
        BY <3>2, <4>1 DEF CommandWrites
    <3>3. CASE CommandEnds(d)
      <4>1. [filter[d] EXCEPT !.command = "ended", !.input = 0] \in Filtering
        BY <2>1 DEF Filtering
      <4> QED
        BY <3>3, <4>1 DEF CommandEnds
    <3> QED
      BY <1>17, <3>1, <3>2, <3>3
  <2> QED
    BY <2>2 DEF Command
<1>18. ASSUME NEW s \in Socket, PeerResets(s)
      PROVE  TypeOK'
  BY <1>18 DEF PeerResets
<1> QED
  BY Directions, <1>1, <1>2, <1>3, <1>4, <1>5, <1>6, <1>7, <1>8, <1>9, <1>10, <1>11, <1>12, <1>13, <1>15, <1>16, <1>17, <1>18, <1>14
     DEF Next, Forward

LEMMA InheritedStep ==
  ASSUME IndInv, [Next]_vars
  PROVE  Inherited'
<1> USE DEF IndInv, TypeOK, Inherited, Running, peerVars, dataVars
<1>1. CASE UNCHANGED vars
  BY <1>1 DEF vars
<1>2. CASE Accept
  <2>1. /\ handler = "none" /\ handler' = handler /\ server' = "fork" /\ fw' = fw
        /\ \A d \in Direction : fw[d] = "none"
    BY <1>2, Directions DEF Accept, Direction
  <2>2. fd'["server"] = made'
    <3>1. CASE made' = {"client"} /\ fd' = [fd EXCEPT !["server"] = {"client"}]
      BY <3>1, Directions
    <3>2. CASE made' = made /\ fd' = fd
      BY <1>2, <3>2 DEF Accept
    <3> QED
      BY <1>2, <3>1, <3>2 DEF Accept
  <2> QED
    BY <2>1, <2>2, Directions
<1>3. CASE ForkHandler
  BY <1>3, Directions DEF ForkHandler
<1>4. CASE ServerCloses
  BY <1>4, Directions DEF ServerCloses
<1>5. CASE Connect
  <2>1. /\ server' = server /\ server \notin {"accept", "fork"} /\ fw' = fw
        /\ \A d \in Direction : fw[d] = "none"
    BY <1>5 DEF Connect, Direction
  <2>2. handler' = "cleanup" \/ (handler' = "fork.up" /\ fd'["handler"] = made')
    <3>1. CASE handler' = "fork.up"
      <4>1. /\ fd["handler"] = made /\ made' = made \cup {"remote"}
            /\ fd' = [fd EXCEPT !["handler"] = fd["handler"] \cup {"remote"}]
        BY <1>5, <3>1 DEF Connect
      <4> QED
        BY <3>1, <4>1, Directions
    <3>2. CASE handler' # "fork.up"
      BY <1>5, <3>2 DEF Connect
    <3> QED
      BY <3>1, <3>2
  <2> QED
    BY <2>1, <2>2, Directions
<1>6. CASE Cleanup
  BY <1>6, Directions DEF Cleanup
<1>7. CASE ForkForwarder("up", "fork.up", "fork.down")
  BY <1>7, Directions DEF ForkForwarder
<1>8. CASE ForkForwarder("down", "fork.down", "cleanup")
  BY <1>8, Directions DEF ForkForwarder
<1>9. ASSUME NEW d \in Direction, Recv(d)
      PROVE  Inherited'
  BY <1>9, Directions DEF Recv
<1>10. ASSUME NEW d \in Direction, RecvEnds(d)
      PROVE  Inherited'
  BY <1>10, Directions DEF RecvEnds
<1>11. ASSUME NEW d \in Direction, RecvFails(d)
      PROVE  Inherited'
  BY <1>11, Directions DEF RecvFails, Dies
<1>12. ASSUME NEW d \in Direction, Send(d)
      PROVE  Inherited'
  <2>1. fw[d] = "send" /\ UNCHANGED <<server, handler, made>>
    BY <1>12 DEF Send
  <2>2. CASE fw' = [fw EXCEPT ![d] = "dead"] /\ fd' = [fd EXCEPT ![d] = {}]
    BY <2>1, <2>2, Directions
  <2>3. CASE fw' = [fw EXCEPT ![d] = "recv"] /\ fd' = fd
    BY <2>1, <2>3, Directions
  <2> QED
    BY <1>12, <2>2, <2>3 DEF Send, Dies
<1>13. ASSUME NEW d \in Direction, FilterWrite(d)
      PROVE  Inherited'
  <2>1. fw[d] = "filter.write" /\ UNCHANGED <<server, handler, made>>
    BY <1>13 DEF FilterWrite
  <2>2. CASE fw' = [fw EXCEPT ![d] = "dead"] /\ fd' = [fd EXCEPT ![d] = {}]
    BY <2>1, <2>2, Directions
  <2>3. CASE /\ fd' = fd
             /\ \/ fw' = [fw EXCEPT ![d] = "filter.read"]
                \/ fw' = [fw EXCEPT ![d] = "filter.write"]
    BY <2>1, <2>3, Directions
  <2> QED
    BY <1>13, <2>2, <2>3 DEF FilterWrite, Dies
<1>14. ASSUME NEW d \in Direction, FilterRead(d)
      PROVE  Inherited'
  BY <1>14, Directions DEF FilterRead
<1>15. ASSUME NEW d \in Direction, PeerSends(d)
      PROVE  Inherited'
  BY <1>15, Directions DEF PeerSends
<1>16. ASSUME NEW d \in Direction, PeerEnds(d)
      PROVE  Inherited'
  BY <1>16, Directions DEF PeerEnds
<1>17. ASSUME NEW d \in Direction, CommandReads(d) \/ CommandWrites(d) \/ CommandEnds(d)
      PROVE  Inherited'
  <2>1. \E f : Command(d, f)
    BY <1>17 DEF CommandReads, CommandWrites, CommandEnds
  <2> QED
    BY <2>1, Directions DEF Command
<1>18. ASSUME NEW d \in Direction, FilterStart(d)
      PROVE  Inherited'
  BY <1>18, Directions DEF FilterStart, Dies
<1>19. ASSUME NEW s \in Socket, PeerResets(s)
      PROVE  Inherited'
  BY <1>19 DEF PeerResets
<1> QED
  BY <1>1, <1>2, <1>3, <1>4, <1>5, <1>6, <1>7, <1>8, <1>9, <1>10, <1>11, <1>12, <1>13, <1>14, <1>15, <1>16, <1>17, <1>19, <1>18
     DEF Next, Forward

LEMMA UntouchedStep ==
  ASSUME IndInv, [Next]_vars
  PROVE  Untouched'
<1> USE DEF IndInv, TypeOK, Inherited, Untouched, peerVars, dataVars
<1>1. CASE UNCHANGED vars
  BY <1>1 DEF vars
<1>2. CASE Accept
  BY <1>2, Directions DEF Accept
<1>3. CASE ForkHandler
  BY <1>3, Directions DEF ForkHandler
<1>4. CASE ServerCloses
  BY <1>4, Directions DEF ServerCloses
<1>5. CASE Connect
  BY <1>5, Directions DEF Connect
<1>6. CASE Cleanup
  BY <1>6, Directions DEF Cleanup
<1>7. CASE ForkForwarder("up", "fork.up", "fork.down")
  BY <1>7, Directions DEF ForkForwarder
<1>8. CASE ForkForwarder("down", "fork.down", "cleanup")
  BY <1>8, Directions DEF ForkForwarder
<1>9. ASSUME NEW d \in Direction, Recv(d)
      PROVE  Untouched'
  BY <1>9, Directions DEF Recv
<1>10. ASSUME NEW d \in Direction, RecvEnds(d)
      PROVE  Untouched'
  BY <1>10, Directions DEF RecvEnds
<1>11. ASSUME NEW d \in Direction, RecvFails(d)
      PROVE  Untouched'
  BY <1>11, Directions DEF RecvFails, Dies
<1>12. ASSUME NEW d \in Direction, Send(d)
      PROVE  Untouched'
  BY <1>12, Directions DEF Send, Dies
<1>13. ASSUME NEW d \in Direction, FilterWrite(d)
      PROVE  Untouched'
  BY <1>13, Directions DEF FilterWrite, Dies
<1>14. ASSUME NEW d \in Direction, FilterRead(d)
      PROVE  Untouched'
  BY <1>14, Directions DEF FilterRead
<1>15. ASSUME NEW d \in Direction, PeerSends(d)
      PROVE  Untouched'
  BY <1>15, Directions DEF PeerSends
<1>16. ASSUME NEW d \in Direction, PeerEnds(d)
      PROVE  Untouched'
  BY <1>16, Directions DEF PeerEnds
<1>17. ASSUME NEW d \in Direction, CommandReads(d) \/ CommandWrites(d) \/ CommandEnds(d)
      PROVE  Untouched'
  <2>1. \E f : Command(d, f)
    BY <1>17 DEF CommandReads, CommandWrites, CommandEnds
  <2> QED
    BY <2>1, Directions DEF Command
<1>18. ASSUME NEW d \in Direction, FilterStart(d)
      PROVE  Untouched'
  BY <1>18, Directions DEF FilterStart, Dies
<1>19. ASSUME NEW s \in Socket, PeerResets(s)
      PROVE  Untouched'
  BY <1>19 DEF PeerResets
<1> QED
  BY <1>1, <1>2, <1>3, <1>4, <1>5, <1>6, <1>7, <1>8, <1>9, <1>10, <1>11, <1>12, <1>13, <1>14, <1>15, <1>16, <1>17, <1>19, <1>18
     DEF Next, Forward

LEMMA EndedStep ==
  ASSUME IndInv, [Next]_vars
  PROVE  Ended'
<1> USE DEF IndInv, TypeOK, Inherited, Ended, Running, peerVars, dataVars
<1>1. CASE UNCHANGED vars
  BY <1>1 DEF vars
<1>2. CASE Accept
  BY <1>2, Directions DEF Accept
<1>3. CASE ForkHandler
  BY <1>3, Directions DEF ForkHandler
<1>4. CASE ServerCloses
  BY <1>4, Directions DEF ServerCloses
<1>5. CASE Connect
  BY <1>5, Directions DEF Connect
<1>6. CASE Cleanup
  BY <1>6, Directions DEF Cleanup
<1>7. CASE ForkForwarder("up", "fork.up", "fork.down")
  BY <1>7, Directions DEF ForkForwarder
<1>8. CASE ForkForwarder("down", "fork.down", "cleanup")
  BY <1>8, Directions DEF ForkForwarder
<1>9. ASSUME NEW d \in Direction, Recv(d)
      PROVE  Ended'
  BY <1>9, Directions DEF Recv
<1>10. ASSUME NEW d \in Direction, RecvEnds(d)
      PROVE  Ended'
  BY <1>10, Directions DEF RecvEnds
<1>11. ASSUME NEW d \in Direction, RecvFails(d)
      PROVE  Ended'
  BY <1>11, Directions DEF RecvFails, Dies
<1>12. ASSUME NEW d \in Direction, Send(d)
      PROVE  Ended'
  BY <1>12, Directions DEF Send, Dies
<1>13. ASSUME NEW d \in Direction, FilterWrite(d)
      PROVE  Ended'
  BY <1>13, Directions DEF FilterWrite, Dies
<1>14. ASSUME NEW d \in Direction, FilterRead(d)
      PROVE  Ended'
  BY <1>14, Directions DEF FilterRead
<1>15. ASSUME NEW d \in Direction, PeerSends(d)
      PROVE  Ended'
  BY <1>15, Directions DEF PeerSends
<1>16. ASSUME NEW d \in Direction, PeerEnds(d)
      PROVE  Ended'
  BY <1>16, Directions DEF PeerEnds
<1>17. ASSUME NEW d \in Direction, CommandReads(d) \/ CommandWrites(d) \/ CommandEnds(d)
      PROVE  Ended'
  <2>1. \E f : Command(d, f)
    BY <1>17 DEF CommandReads, CommandWrites, CommandEnds
  <2> QED
    BY <2>1, Directions DEF Command
<1>18. ASSUME NEW d \in Direction, FilterStart(d)
      PROVE  Ended'
  BY <1>18, Directions DEF FilterStart, Dies
<1>19. ASSUME NEW s \in Socket, PeerResets(s)
      PROVE  Ended'
  BY <1>19 DEF PeerResets
<1> QED
  BY <1>1, <1>2, <1>3, <1>4, <1>5, <1>6, <1>7, <1>8, <1>9, <1>10, <1>11, <1>12, <1>13, <1>14, <1>15, <1>16, <1>17, <1>19, <1>18
     DEF Next, Forward

LEMMA UndisturbedStep ==
  ASSUME IndInv, [Next]_vars, Undisturbed'
  PROVE  (EndsByPeer /\ \A e \in Direction \ filtered : Accounted(e))'
<1> USE DEF IndInv, TypeOK, Inherited, Running, Untouched, Undisturbed, EndsByPeer, Accounted, peerVars, dataVars
<1>1. CASE UNCHANGED vars
  BY <1>1 DEF vars
<1>2. CASE Accept
  BY <1>2, Directions DEF Accept
<1>3. CASE ForkHandler
  BY <1>3, Directions DEF ForkHandler
<1>4. CASE ServerCloses
  BY <1>4, Directions DEF ServerCloses
<1>5. CASE Connect
  <2>1. handler = "connect" /\ UNCHANGED <<fw, shut, first, sent, eof, queue, buf, got, filtered>>
    BY <1>5 DEF Connect
  <2>2. \A d \in Direction : fw[d] = "none"
    BY <2>1 DEF Direction
  <2>3. shut = {} /\ first = "none"
    BY <2>2
  <2>4. EndsByPeer'
    BY <2>1, <2>3
  <2>5. \A d \in Direction : got[d] = 0 /\ buf[d] = 0 /\ sent[d] = queue[d]
    BY <2>2
  <2>6. \A d \in Direction : sent[d] = got[d] + buf[d] + queue[d]
    BY <2>5
  <2>7. (\A e \in Direction \ filtered : Accounted(e))'
    BY <2>1, <2>2, <2>5, <2>6
  <2> QED
    BY <2>4, <2>7
<1>6. CASE Cleanup
  BY <1>6, Directions DEF Cleanup
<1>7. CASE ForkForwarder("up", "fork.up", "fork.down")
  BY <1>7, Directions DEF ForkForwarder
<1>8. CASE ForkForwarder("down", "fork.down", "cleanup")
  BY <1>8, Directions DEF ForkForwarder
<1>9. ASSUME NEW d \in Direction, Recv(d)
      PROVE  (EndsByPeer /\ \A e \in Direction \ filtered : Accounted(e))'
  BY <1>9, Directions DEF Recv
<1>10. ASSUME NEW d \in Direction, RecvEnds(d)
      PROVE  (EndsByPeer /\ \A e \in Direction \ filtered : Accounted(e))'
  BY <1>10, Directions DEF RecvEnds
<1>11. ASSUME NEW d \in Direction, RecvFails(d)
      PROVE  (EndsByPeer /\ \A e \in Direction \ filtered : Accounted(e))'
  BY <1>11, Directions DEF RecvFails, Dies
<1>12. ASSUME NEW d \in Direction, Send(d)
      PROVE  (EndsByPeer /\ \A e \in Direction \ filtered : Accounted(e))'
  BY <1>12, Directions DEF Send, Dies
<1>13. ASSUME NEW d \in Direction, FilterWrite(d)
      PROVE  (EndsByPeer /\ \A e \in Direction \ filtered : Accounted(e))'
  BY <1>13, Directions DEF FilterWrite, Dies
<1>14. ASSUME NEW d \in Direction, FilterRead(d)
      PROVE  (EndsByPeer /\ \A e \in Direction \ filtered : Accounted(e))'
  BY <1>14, Directions DEF FilterRead
<1>15. ASSUME NEW d \in Direction, PeerSends(d)
      PROVE  (EndsByPeer /\ \A e \in Direction \ filtered : Accounted(e))'
  BY <1>15, Directions DEF PeerSends
<1>16. ASSUME NEW d \in Direction, PeerEnds(d)
      PROVE  (EndsByPeer /\ \A e \in Direction \ filtered : Accounted(e))'
  BY <1>16, Directions DEF PeerEnds
<1>17. ASSUME NEW d \in Direction, CommandReads(d) \/ CommandWrites(d) \/ CommandEnds(d)
      PROVE  (EndsByPeer /\ \A e \in Direction \ filtered : Accounted(e))'
  <2>1. \E f : Command(d, f)
    BY <1>17 DEF CommandReads, CommandWrites, CommandEnds
  <2> QED
    BY <2>1, Directions DEF Command
<1>18. ASSUME NEW d \in Direction, FilterStart(d)
      PROVE  (EndsByPeer /\ \A e \in Direction \ filtered : Accounted(e))'
  BY <1>18, Directions DEF FilterStart, Dies
<1>19. ASSUME NEW s \in Socket, PeerResets(s)
      PROVE  (EndsByPeer /\ \A e \in Direction \ filtered : Accounted(e))'
  BY <1>19 DEF PeerResets
<1> QED
  BY <1>1, <1>2, <1>3, <1>4, <1>5, <1>6, <1>7, <1>8, <1>9, <1>10, <1>11, <1>12, <1>13, <1>14, <1>15, <1>16, <1>17, <1>19, <1>18
     DEF Next, Forward

LEMMA IndInvStep == IndInv /\ [Next]_vars => IndInv'
<1> SUFFICES ASSUME IndInv, [Next]_vars PROVE IndInv'
  OBVIOUS
<1>1. TypeOK'
  BY TypeStep DEF IndInv
<1>2. Inherited' /\ Untouched' /\ Ended'
  BY InheritedStep, UntouchedStep, EndedStep
<1>3. ASSUME Undisturbed'
      PROVE  EndsByPeer' /\ (\A e \in Direction \ filtered : Accounted(e))'
  BY <1>3, UndisturbedStep
<1> QED
  BY <1>1, <1>2, <1>3 DEF IndInv

(* Whatever is accepted, forked, connected, reset and filtered, the        *)
(* processes of proxy.c have the sockets their parent had, and while       *)
(* nothing fails every chunk received is on one side or the other.         *)
THEOREM Invariance == Spec => []IndInv
<1>1. Init => IndInv
  BY InitIndInv
<1>2. IndInv /\ [Next]_vars => IndInv'
  BY IndInvStep
<1> QED
  BY <1>1, <1>2, PTL DEF Spec

(* The variables keep their types: a process has only sockets, and counts  *)
(* no less than nothing.                                                   *)
THEOREM TypeCorrect == Spec => []TypeOK
<1>1. IndInv => TypeOK
  BY DEF IndInv
<1> QED
  BY <1>1, Invariance, PTL

LEMMA FirstIsWhole == IndInv => FirstLosesNothing
<1> SUFFICES ASSUME IndInv, NEW d \in Direction, fw[d] = "done", Faultless(d), got[d] < sent[d]
             PROVE  first = Other(d)
  BY DEF FirstLosesNothing
<1> USE DEF IndInv
<1>1. first # "none" /\ Src(d) \in made
  BY DEF Ended
<1>2. made = Socket
  <2>1. made \subseteq Socket
    BY DEF TypeOK
  <2>2. Dst(d) \in made
    BY DEF Faultless
  <2> QED
    BY <1>1, <2>1, <2>2 DEF Src, Dst, Socket, Direction
<1>3. Undisturbed
  BY <1>2 DEF Undisturbed, Faultless
<1>4. EndsByPeer /\ Accounted(d)
  BY <1>3 DEF Faultless
<1>5. first \in Direction
  BY <1>1 DEF TypeOK
<1>6. CASE first = d
  <2>1. queue[d] = 0 /\ buf[d] = 0 /\ sent[d] = got[d] + buf[d] + queue[d]
    BY <1>1, <1>4, <1>6 DEF EndsByPeer, Accounted
  <2> QED
    BY <2>1 DEF TypeOK
<1> QED
  BY <1>5, <1>6, Directions

(* forward_data shuts both sockets down when its recv returns 0.  Unless a *)
(* peer resets, the direction that does so first has received and sent all *)
(* its peer sent: only the other one can have lost something.              *)
THEOREM FirstIsComplete == Spec => []FirstLosesNothing
<1>1. IndInv => FirstLosesNothing
  BY FirstIsWhole
<1> QED
  BY <1>1, Invariance, PTL
=============================================================================
