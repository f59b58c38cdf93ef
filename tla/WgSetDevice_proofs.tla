------------------------- MODULE WgSetDevice_proofs -------------------------
(***************************************************************************)
(* Proofs about WgSetDevice, for any set of callers, requests, keys and    *)
(* allowed IPs and any place where a message may be full.                  *)
(***************************************************************************)
EXTENDS WgSetDeviceHistory, TLAPS, WellFoundedInduction

PeerReq == [key : Keys, remove : BOOLEAN, replace : BOOLEAN, ips : Seq(Ips)]

LEMMA RequestTypes ==
  ASSUME TypeOK, NEW c \in Callers
  PROVE  /\ Peers(c) \in Seq(PeerReq)
         /\ req[c].replace_peers \in BOOLEAN
         /\ Len(Peers(c)) \in Nat
         /\ \A p \in 1 .. Len(Peers(c)) :
              /\ Peers(c)[p] \in PeerReq
              /\ IpsOf(c, p) \in Seq(Ips)
              /\ Len(IpsOf(c, p)) \in Nat
<1>1. req[c] \in Requests
  BY DEF TypeOK
<1>2. Peers(c) \in Seq(PeerReq) /\ req[c].replace_peers \in BOOLEAN
  BY <1>1, SetAssumption DEF Peers, PeerReq
<1>3. \A p \in 1 .. Len(Peers(c)) : Peers(c)[p] \in PeerReq
  BY <1>2
<1>4. \A p \in 1 .. Len(Peers(c)) : IpsOf(c, p) \in Seq(Ips)
  BY <1>3 DEF IpsOf, PeerReq
<1> QED
  BY <1>2, <1>3, <1>4

LEMMA SetPeerType ==
  ASSUME NEW table \in Configs, NEW c \in Callers, NEW k \in Keys,
         NEW remove \in BOOLEAN, NEW replace \in BOOLEAN, NEW full \in BOOLEAN,
         NEW ips
  PROVE  SetPeer(table, c, k, remove, replace, full, ips) \in Configs
<1>1. CASE remove
  BY <1>1 DEF SetPeer, RemovePeer, Configs, Authors
<1>2. CASE ~remove
  BY <1>2 DEF SetPeer, Configs, Authors
<1> QED
  BY <1>1, <1>2

LEMMA EmptyConfigType == EmptyConfig \in Configs
BY DEF EmptyConfig, Configs, Authors

\* The order of the stream, over a step that leaves it as it is
LEMMA InOrderKept ==
  ASSUME NEW c \in Callers, InOrder(c), stream'[c] = stream[c],
         req'[c] = req[c]
  PROVE  InOrder(c)'
<1>1. /\ Peers(c)' = Peers(c)
      /\ \A p : IpsOf(c, p)' = IpsOf(c, p)
  BY DEF Peers, IpsOf
<1>2. StreamStarts(c)'
  BY DEF InOrder, StreamStarts
<1>3. \A a : NestInRequest(c, a) => NestInRequest(c, a)'
  BY <1>1 DEF NestInRequest
<1>4. \A a, b : Follows(c, a, b) => Follows(c, a, b)'
  BY <1>1 DEF Follows
<1> QED
  BY <1>2, <1>3, <1>4 DEF InOrder

\* Everything said about d survives a step that leaves d's variables alone
LEMMA Frame ==
  ASSUME NEW d \in Callers,
         InOrder(d), CursorsAfterLast(d), SentSoFar(d),
         req'[d] = req[d], pc'[d] = pc[d], peer'[d] = peer[d],
         allowedip'[d] = allowedip[d], stream'[d] = stream[d],
         mark'[d] = mark[d], ret'[d] = ret[d], applied'[d] = applied[d],
         (lock' = d) <=> (lock = d)
  PROVE  InOrder(d)' /\ CursorsAfterLast(d)' /\ SentSoFar(d)'
<1>1. InOrder(d)'
  BY InOrderKept
<1>2. CursorsAfterLast(d)'
  BY DEF CursorsAfterLast, LastNest, Peers, IpsOf
<1>3. SentSoFar(d)'
  BY DEF SentSoFar, Peers
<1> QED
  BY <1>1, <1>2, <1>3

-----------------------------------------------------------------------------
LEMMA InitIndInv == Init => IndInv
<1> SUFFICES ASSUME Init PROVE IndInv
  OBVIOUS
<1>1. TypeOK
  BY EmptyConfigType DEF Init, TypeOK
<1>2. ASSUME NEW c \in Callers
      PROVE  InOrder(c) /\ CursorsAfterLast(c) /\ SentSoFar(c)
  <2>1. InOrder(c)
    BY DEF Init, InOrder, StreamStarts
  <2>2. CursorsAfterLast(c)
    BY <1>1, RequestTypes DEF Init, CursorsAfterLast
  <2>3. SentSoFar(c)
    BY SetAssumption DEF Init, SentSoFar
  <2> QED
    BY <2>1, <2>2, <2>3
<1>3. SuccessComplete
  BY DEF Init, SuccessComplete
<1> QED
  BY <1>1, <1>2, <1>3 DEF IndInv

\* The nest PutPeer opens fits the request
LEMMA NewNestType ==
  ASSUME IndInv, NEW c \in Callers, pc[c] = "peers"
  PROVE  /\ NewNest(c) \in Nest
         /\ NestInRequest(c, NewNest(c))
         /\ peer[c] \in 1 .. Len(Peers(c))
         /\ IpsOf(c, peer[c]) = <<>> => allowedip[c] = 0
<1> USE DEF IndInv
<1>1. peer[c] \in 1 .. Len(Peers(c)) /\ allowedip[c] \in Nat
  BY RequestTypes DEF SentSoFar, CursorsAfterLast, TypeOK
<1>2. /\ Peers(c)[peer[c]] \in PeerReq
      /\ IpsOf(c, peer[c]) \in Seq(Ips)
      /\ Len(IpsOf(c, peer[c])) \in Nat
  BY <1>1, RequestTypes
<1>3. allowedip[c] # 0 => allowedip[c] <= Len(IpsOf(c, peer[c]))
  BY DEF CursorsAfterLast
<1>4. NewNest(c) \in Nest
  BY <1>1, <1>2 DEF NewNest, Nest, PeerReq
<1>5. NestInRequest(c, NewNest(c))
  <2>1. NewNest(c).peer = peer[c] /\ NewNest(c).remove = Peers(c)[peer[c]].remove
    BY DEF NewNest
  <2>2. /\ NewNest(c).from \in 1 .. NewNest(c).to
        /\ NewNest(c).to <= Len(IpsOf(c, peer[c])) + 1
    BY <1>1, <1>2, <1>3 DEF NewNest
  <2>3. NewNest(c).replace = (NewNest(c).full /\ Peers(c)[peer[c]].replace)
    BY DEF NewNest
  <2> QED
    BY <1>1, <2>1, <2>2, <2>3 DEF NestInRequest
<1>6. IpsOf(c, peer[c]) = <<>> => allowedip[c] = 0
  BY <1>1, <1>2, <1>3
<1> QED
  BY <1>1, <1>4, <1>5, <1>6

\* WithNextIp changes one field of the last nest
LEMMA WithNextIpIs ==
  ASSUME NEW nests \in Seq(Nest) \ {<<>>}
  PROVE  /\ WithNextIp(nests) \in Seq(Nest)
         /\ Len(WithNextIp(nests)) = Len(nests)
         /\ \A n \in 1 .. Len(nests) - 1 : WithNextIp(nests)[n] = nests[n]
         /\ WithNextIp(nests)[Len(nests)] =
              [nests[Len(nests)] EXCEPT !.to = nests[Len(nests)].to + 1]
<1> DEFINE len  == Len(nests)
           last == [nests[len] EXCEPT !.to = nests[len].to + 1]
<1>1. len \in 1 .. len /\ nests[len] \in Nest
  OBVIOUS
<1>2. last \in Nest
  <2>1. \A nest \in Nest, t \in Nat : [nest EXCEPT !.to = t] \in Nest
    BY DEF Nest
  <2>2. nests[len].to + 1 \in Nat
    BY <1>1 DEF Nest
  <2> QED
    BY <1>1, <2>1, <2>2
<1>3. WithNextIp(nests) = [nests EXCEPT ![len] = last]
  BY <1>1 DEF WithNextIp
<1> HIDE DEF last
<1>4. /\ [nests EXCEPT ![len] = last] \in Seq(Nest)
      /\ Len([nests EXCEPT ![len] = last]) = len
      /\ \A n \in 1 .. len - 1 : [nests EXCEPT ![len] = last][n] = nests[n]
      /\ [nests EXCEPT ![len] = last][len] = last
  BY <1>1, <1>2
<1> QED
  BY <1>3, <1>4 DEF last

\* What NextPeer does to the cursor
LEMMA NextPeerCursor ==
  ASSUME TypeOK, NEW c \in Callers, peer[c] \in 1 .. Len(Peers(c)), NextPeer(c)
  PROVE  /\ peer' \in [Callers -> Nat]
         /\ pc' = [pc EXCEPT ![c] = IF peer'[c] = 0 THEN "send" ELSE "peers"]
         /\ peer' = [peer EXCEPT ![c] = peer'[c]]
         /\ peer'[c] \in 0 .. Len(Peers(c))
         /\ peer[c] + 1 = IF peer'[c] = 0 THEN Len(Peers(c)) + 1 ELSE peer'[c]
BY RequestTypes DEF NextPeer, TypeOK

\* What is sent and processed, over a step that puts something in the message
LEMMA PutSentSoFar ==
  ASSUME NEW c \in Callers, SentSoFar(c), pc[c] \in {"peers", "ips"},
         req'[c] = req[c], mark'[c] = mark[c], ret'[c] = ret[c],
         lock' = lock, applied'[c] = applied[c],
         mark[c] \in Nat, mark[c] < Len(stream'[c]), Len(stream'[c]) \in Nat,
         \/ pc'[c] = "ips" /\ peer'[c] # 0 /\ allowedip'[c] # 0
         \/ pc'[c] = IF peer'[c] = 0 THEN "send" ELSE "peers"
  PROVE  SentSoFar(c)'
<1>1. lock # c /\ ret[c] = "none" /\ applied[c] <= mark[c]
      /\ (ret[c] # "error" => applied[c] = mark[c])
  BY DEF SentSoFar
<1>2. pc'[c] \in {"ips", "send", "peers"}
  OBVIOUS
<1>3. mark'[c] <= Len(stream'[c])
  OBVIOUS
<1> QED
  BY <1>1, <1>2, <1>3 DEF SentSoFar

LEMMA TypeStep ==
  ASSUME IndInv, NEW c \in Callers, Call(c) \/ Build(c) \/ Exchange(c)
  PROVE  TypeOK'
<1> USE DEF IndInv
<1>1. CASE Call(c)
  BY <1>1 DEF Call, TypeOK, kernelVars
<1>2. CASE Prepare(c)
  <2>1. CASE Peers(c) = <<>>
    BY <1>2, <2>1 DEF Prepare, TypeOK, kernelVars
  <2>2. CASE Peers(c) # <<>>
    <3>1. /\ peer' = [peer EXCEPT ![c] = IF @ = 0 THEN 1 ELSE @]
          /\ pc' = [pc EXCEPT ![c] = "peers"]
      BY <1>2, <2>2, Zenon DEF Prepare
    <3>2. peer' \in [Callers -> Nat]
      BY <3>1 DEF TypeOK
    <3> QED
      BY <1>2, <3>1, <3>2 DEF Prepare, TypeOK, kernelVars
  <2> QED
    BY <2>1, <2>2
<1>3. CASE PutPeer(c)
  <2>1. NewNest(c) \in Nest /\ peer[c] \in 1 .. Len(Peers(c))
    BY <1>3, NewNestType DEF PutPeer
  <2>2. stream' \in [Callers -> Seq(Nest)]
    BY <1>3, <2>1 DEF PutPeer, TypeOK
  <2>3. CASE IpsOf(c, peer[c]) = <<>>
    <3>1. NextPeer(c)
      BY <1>3, <2>3 DEF PutPeer
    <3> QED
      BY <1>3, <2>1, <2>2, <2>3, <3>1, NextPeerCursor DEF PutPeer, TypeOK, kernelVars
  <2>4. CASE IpsOf(c, peer[c]) # <<>>
    <3>1. /\ allowedip' = [allowedip EXCEPT ![c] = IF @ = 0 THEN 1 ELSE @]
          /\ pc' = [pc EXCEPT ![c] = "ips"]
          /\ peer' = peer
      BY <1>3, <2>4, Zenon DEF PutPeer
    <3> QED
      BY <1>3, <2>2, <3>1 DEF PutPeer, TypeOK, kernelVars
  <2> QED
    BY <2>3, <2>4
<1>4. CASE PeersTooBig(c)
  BY <1>4 DEF PeersTooBig, TypeOK, kernelVars
<1>5. CASE PutIp(c)
  <2>1. peer[c] \in 1 .. Len(Peers(c)) /\ stream[c] \in Seq(Nest) \ {<<>>}
    BY <1>5, RequestTypes DEF PutIp, SentSoFar, CursorsAfterLast, TypeOK
  <2>2. stream' \in [Callers -> Seq(Nest)]
    BY <1>5, <2>1, WithNextIpIs DEF PutIp, TypeOK
  <2>3. CASE allowedip[c] < Len(IpsOf(c, peer[c]))
    <3>1. /\ allowedip' = [allowedip EXCEPT ![c] = @ + 1]
          /\ pc' = pc
          /\ peer' = peer
      BY <1>5, <2>3, Zenon DEF PutIp
    <3>2. allowedip' \in [Callers -> Nat]
      BY <3>1 DEF TypeOK
    <3> QED
      BY <1>5, <2>2, <3>1, <3>2 DEF PutIp, TypeOK, kernelVars
  <2>4. CASE ~(allowedip[c] < Len(IpsOf(c, peer[c])))
    <3>1. NextPeer(c) /\ allowedip' = [allowedip EXCEPT ![c] = 0]
      BY <1>5, <2>4, Zenon DEF PutIp
    <3>2. /\ peer' \in [Callers -> Nat]
          /\ pc' = [pc EXCEPT ![c] = IF peer'[c] = 0 THEN "send" ELSE "peers"]
      BY <2>1, <3>1, NextPeerCursor
    <3> QED
      BY <1>5, <2>2, <3>1, <3>2 DEF PutIp, TypeOK, kernelVars
  <2> QED
    BY <2>3, <2>4
<1>6. CASE IpsTooBig(c)
  BY <1>6 DEF IpsTooBig, TypeOK, kernelVars
<1>7. CASE SendFails(c)
  BY <1>7 DEF SendFails, TypeOK, kernelVars
<1>8. CASE Send(c)
  <2>1. conf' \in Configs
    BY <1>8, EmptyConfigType DEF Send, TypeOK
  <2> QED
    BY <1>8, <2>1 DEF Send, TypeOK
<1>9. CASE KernelPeer(c)
  <2> DEFINE n == applied[c] + 1
             nest == stream[c][n]
  <2>1. n \in 1 .. Len(stream[c]) /\ nest \in Nest /\ NestInRequest(c, nest)
    BY <1>9 DEF KernelPeer, TypeOK, SentSoFar, InOrder
  <2>2. Peers(c)[nest.peer].key \in Keys
    BY <2>1, RequestTypes DEF NestInRequest, PeerReq
  <2>3. conf' \in Configs
    <3>1. conf' = SetPeer(conf, c, Peers(c)[nest.peer].key, nest.remove,
                          nest.replace, nest.full, ListedIps(c, n))
      BY <1>9 DEF KernelPeer
    <3>2. nest.remove \in BOOLEAN /\ nest.replace \in BOOLEAN /\ nest.full \in BOOLEAN
      BY <2>1 DEF Nest
    <3>3. conf \in Configs
      BY DEF TypeOK
    <3> QED
      BY <2>2, <3>1, <3>2, <3>3, SetPeerType
  <2>4. applied' \in [Callers -> Nat]
    BY <1>9 DEF KernelPeer, TypeOK
  <2> QED
    BY <1>9, <2>3, <2>4 DEF KernelPeer, TypeOK, callerVars
<1>10. CASE RecvFails(c)
  BY <1>10 DEF RecvFails, TypeOK
<1>11. CASE Ack(c)
  BY <1>11 DEF Ack, TypeOK
<1> QED
  BY <1>1, <1>2, <1>3, <1>4, <1>5, <1>6, <1>7, <1>8, <1>9, <1>10, <1>11
     DEF Build, Exchange

-----------------------------------------------------------------------------
SameFor(d) ==
  /\ req'[d] = req[d] /\ pc'[d] = pc[d] /\ peer'[d] = peer[d]
  /\ allowedip'[d] = allowedip[d] /\ stream'[d] = stream[d]
  /\ mark'[d] = mark[d] /\ ret'[d] = ret[d] /\ applied'[d] = applied[d]
  /\ (lock' = d) <=> (lock = d)

\* A step of one caller changes nothing of another but the table and the lock
LEMMA OthersKept ==
  ASSUME IndInv, NEW c \in Callers, Call(c) \/ Build(c) \/ Exchange(c),
         NEW d \in Callers, d # c
  PROVE  SameFor(d)
<1> USE DEF IndInv, TypeOK, SameFor
<1>1. CASE Call(c)
  BY <1>1 DEF Call, kernelVars
<1>2. CASE Prepare(c)
  BY <1>2 DEF Prepare, kernelVars
<1>3. CASE PutPeer(c)
  BY <1>3 DEF PutPeer, NextPeer, kernelVars
<1>4. CASE PeersTooBig(c)
  BY <1>4 DEF PeersTooBig, kernelVars
<1>5. CASE PutIp(c)
  BY <1>5 DEF PutIp, NextPeer, kernelVars
<1>6. CASE IpsTooBig(c)
  BY <1>6 DEF IpsTooBig, kernelVars
<1>7. CASE SendFails(c)
  BY <1>7 DEF SendFails, kernelVars
<1>8. CASE Send(c)
  BY <1>8, SetAssumption DEF Send
<1>9. CASE KernelPeer(c)
  BY <1>9 DEF KernelPeer, callerVars
<1>10. CASE RecvFails(c)
  BY <1>10, SetAssumption DEF RecvFails
<1>11. CASE Ack(c)
  BY <1>11, SetAssumption DEF Ack
<1> QED
  BY <1>1, <1>2, <1>3, <1>4, <1>5, <1>6, <1>7, <1>8, <1>9, <1>10, <1>11
     DEF Build, Exchange

\* PutPeer appends a nest that takes up the request where the last one left it
LEMMA PutPeerInOrder ==
  ASSUME IndInv, NEW c \in Callers, PutPeer(c)
  PROVE  InOrder(c)'
<1> DEFINE new == NewNest(c)
           len == Len(stream[c])
<1> USE DEF IndInv
<1>1. /\ new \in Nest /\ NestInRequest(c, new)
      /\ peer[c] \in 1 .. Len(Peers(c))
  BY NewNestType DEF PutPeer
<1>2. stream[c] \in Seq(Nest) /\ stream'[c] = Append(stream[c], new) /\ req' = req
  BY DEF PutPeer, TypeOK
<1>3. /\ Len(stream'[c]) = len + 1
      /\ \A n \in 1 .. len : stream'[c][n] = stream[c][n]
      /\ stream'[c][len + 1] = new
  BY <1>1, <1>2
<1>F. /\ new.peer = peer[c]
      /\ new.full <=> (allowedip[c] = 0)
      /\ new.from = IF allowedip[c] = 0 THEN 1 ELSE allowedip[c]
  BY DEF NewNest
<1>L. stream[c] = <<>> => peer[c] \in {0, 1} /\ allowedip[c] = 0
  BY DEF CursorsAfterLast
<1> HIDE DEF new
<1>4. stream[c] = <<>> => new.peer = 1 /\ new.full /\ new.from = 1
  BY <1>1, <1>F, <1>L
<1>5. stream[c] # <<>> => Follows(c, stream[c][len], new)
  <2> SUFFICES ASSUME stream[c] # <<>> PROVE Follows(c, stream[c][len], new)
    OBVIOUS
  <2>1. stream[c][len] \in Nest /\ stream[c][len].peer \in 1 .. Len(Peers(c))
    BY <1>2 DEF InOrder, NestInRequest
  <2>2. Len(IpsOf(c, stream[c][len].peer)) \in Nat /\ allowedip[c] \in Nat
    BY <2>1, RequestTypes DEF TypeOK
  <2>3. CASE allowedip[c] # 0
    <3>1. /\ stream[c][len].peer = peer[c]
          /\ stream[c][len].to = allowedip[c]
          /\ allowedip[c] <= Len(IpsOf(c, peer[c]))
      BY <2>3 DEF CursorsAfterLast, LastNest
    <3> QED
      BY <1>F, <2>3, <3>1 DEF Follows
  <2>4. CASE allowedip[c] = 0
    <3>1. /\ stream[c][len].to = Len(IpsOf(c, stream[c][len].peer)) + 1
          /\ stream[c][len].peer + 1 = peer[c]
      BY <1>1, <2>4 DEF CursorsAfterLast, LastNest
    <3> QED
      BY <1>F, <2>2, <2>4, <3>1 DEF Follows
  <2> QED
    BY <2>3, <2>4
<1>6. StreamStarts(c)'
  <2>1. CASE stream[c] = <<>>
    BY <1>3, <1>4, <2>1 DEF StreamStarts
  <2>2. CASE stream[c] # <<>>
    BY <1>2, <1>3, <2>2 DEF StreamStarts, InOrder
  <2> QED
    BY <2>1, <2>2
<1>7. ASSUME NEW n \in 1 .. Len(stream'[c])
      PROVE  NestInRequest(c, stream[c][n])'
  <2>1. NestInRequest(c, stream'[c][n])
    BY <1>1, <1>2, <1>3 DEF InOrder
  <2> QED
    BY <1>2, <2>1 DEF NestInRequest, Peers, IpsOf
<1>8. ASSUME NEW n \in 1 .. Len(stream'[c]) - 1
      PROVE  Follows(c, stream[c][n], stream[c][n + 1])'
  <2>1. Follows(c, stream'[c][n], stream'[c][n + 1])
    BY <1>2, <1>3, <1>5 DEF InOrder
  <2> QED
    BY <1>2, <2>1 DEF Follows, Peers, IpsOf
<1> QED
  BY <1>6, <1>7, <1>8 DEF InOrder

\* PutIp widens the last nest, which stays within the request
LEMMA PutIpInOrder ==
  ASSUME IndInv, NEW c \in Callers, PutIp(c)
  PROVE  InOrder(c)'
<1> DEFINE len  == Len(stream[c])
           last == stream[c][len]
           new  == [last EXCEPT !.to = last.to + 1]
<1> USE DEF IndInv
<1>1. /\ stream[c] \in Seq(Nest) \ {<<>>}
      /\ stream'[c] = WithNextIp(stream[c])
      /\ req' = req
      /\ allowedip[c] # 0
  BY DEF PutIp, TypeOK, SentSoFar
<1>2. /\ Len(stream'[c]) = len
      /\ \A n \in 1 .. len - 1 : stream'[c][n] = stream[c][n]
      /\ stream'[c][len] = new
      /\ len \in 1 .. len
  BY <1>1, WithNextIpIs
<1>3. last \in Nest /\ NestInRequest(c, last)
  BY <1>1 DEF InOrder
<1>4. last.peer = peer[c] /\ last.to <= Len(IpsOf(c, last.peer))
  BY <1>1 DEF CursorsAfterLast, LastNest
<1>5. /\ new.peer = last.peer /\ new.full = last.full /\ new.from = last.from
      /\ new.remove = last.remove /\ new.replace = last.replace
      /\ new.to = last.to + 1
  BY <1>3 DEF Nest
<1>6. NestInRequest(c, new)
  BY <1>3, <1>4, <1>5, RequestTypes DEF NestInRequest, Nest
<1>7. StreamStarts(c)'
  <2>1. /\ stream[c][1].peer = 1 /\ stream[c][1].full /\ stream[c][1].from = 1
    BY <1>1 DEF StreamStarts, InOrder
  <2>2. CASE len = 1
    BY <1>2, <1>5, <2>1, <2>2 DEF StreamStarts
  <2>3. CASE len # 1
    <3>1. 1 \in 1 .. len - 1
      <4>1. len \in Nat /\ len >= 1
        BY <1>1, <1>2
      <4>2. \A m \in Nat : m >= 1 /\ m # 1 => 1 \in 1 .. m - 1
        OBVIOUS
      <4> QED
        BY <2>3, <4>1, <4>2
    <3>2. stream'[c][1] = stream[c][1]
      BY <1>2, <3>1
    <3> QED
      BY <2>1, <3>2 DEF StreamStarts
  <2> QED
    BY <2>2, <2>3
<1>8. ASSUME NEW n \in 1 .. Len(stream'[c])
      PROVE  NestInRequest(c, stream[c][n])'
  <2>1. NestInRequest(c, stream'[c][n])
    BY <1>2, <1>6 DEF InOrder
  <2> QED
    BY <1>1, <2>1 DEF NestInRequest, Peers, IpsOf
<1>9. ASSUME NEW n \in 1 .. Len(stream'[c]) - 1
      PROVE  Follows(c, stream[c][n], stream[c][n + 1])'
  <2>1. Follows(c, stream[c][n], stream[c][n + 1])
    BY <1>2 DEF InOrder
  <2>2. Follows(c, stream'[c][n], stream'[c][n + 1])
    <3>1. stream'[c][n] = stream[c][n]
      BY <1>2
    <3>2. CASE n + 1 = len
      BY <1>2, <1>5, <2>1, <3>1, <3>2 DEF Follows
    <3>3. CASE n + 1 # len
      BY <1>2, <2>1, <3>1, <3>3
    <3> QED
      BY <3>2, <3>3
  <2> QED
    BY <1>1, <2>2 DEF Follows, Peers, IpsOf
<1> QED
  BY <1>7, <1>8, <1>9 DEF InOrder

-----------------------------------------------------------------------------
\* Where the cursors stand after a put
LEMMA PutCursors ==
  ASSUME IndInv, NEW c \in Callers, PutPeer(c) \/ PutIp(c)
  PROVE  CursorsAfterLast(c)'
<1> USE DEF IndInv
<1>1. CASE PutPeer(c)
  <2>1. /\ NewNest(c) \in Nest
        /\ peer[c] \in 1 .. Len(Peers(c))
        /\ IpsOf(c, peer[c]) = <<>> => allowedip[c] = 0
    BY <1>1, NewNestType DEF PutPeer
  <2>2. /\ stream'[c] # <<>>
        /\ stream'[c][Len(stream'[c])] = NewNest(c)
        /\ req' = req
    BY <1>1, <2>1 DEF PutPeer, TypeOK
  <2>3. /\ NewNest(c).peer = peer[c]
        /\ NewNest(c).to = IF allowedip[c] = 0 THEN 1 ELSE allowedip[c]
    BY DEF NewNest
  <2>4. IpsOf(c, peer[c]) \in Seq(Ips) /\ Len(Peers(c)) \in Nat /\ allowedip[c] \in Nat
    BY <2>1, RequestTypes DEF TypeOK
  <2>5. Peers(c)' = Peers(c) /\ \A p : IpsOf(c, p)' = IpsOf(c, p)
    BY <2>2 DEF Peers, IpsOf
  <2>6. CASE IpsOf(c, peer[c]) = <<>>
    <3>1. NextPeer(c) /\ allowedip' = allowedip
      BY <1>1, <2>6, Zenon DEF PutPeer
    <3>2. /\ peer'[c] \in 0 .. Len(Peers(c))
          /\ peer[c] + 1 = IF peer'[c] = 0 THEN Len(Peers(c)) + 1 ELSE peer'[c]
      BY <2>1, <3>1, NextPeerCursor
    <3> QED
      BY <2>1, <2>2, <2>3, <2>4, <2>5, <2>6, <3>1, <3>2 DEF CursorsAfterLast, LastNest
  <2>7. CASE IpsOf(c, peer[c]) # <<>>
    <3>1. /\ allowedip' = [allowedip EXCEPT ![c] = IF @ = 0 THEN 1 ELSE @]
          /\ peer' = peer
      BY <1>1, <2>7, Zenon DEF PutPeer
    <3>2. allowedip'[c] = NewNest(c).to /\ allowedip'[c] \in Nat \ {0}
      BY <2>3, <2>4, <3>1 DEF TypeOK
    <3>3. allowedip'[c] <= Len(IpsOf(c, peer[c]))
      BY <2>3, <2>4, <2>7, <3>2 DEF CursorsAfterLast
    <3> QED
      BY <2>1, <2>2, <2>3, <2>4, <2>5, <3>1, <3>2, <3>3 DEF CursorsAfterLast, LastNest
  <2> QED
    BY <2>6, <2>7
<1>2. CASE PutIp(c)
  <2> DEFINE len  == Len(stream[c])
             last == stream[c][len]
  <2>1. /\ stream[c] \in Seq(Nest) \ {<<>>}
        /\ stream'[c] = WithNextIp(stream[c])
        /\ req' = req
        /\ allowedip[c] \in Nat \ {0}
        /\ peer[c] \in 1 .. Len(Peers(c))
    BY <1>2, RequestTypes DEF PutIp, TypeOK, SentSoFar, CursorsAfterLast
  <2>2. /\ last \in Nest
        /\ last.peer = peer[c]
        /\ last.to = allowedip[c]
        /\ allowedip[c] <= Len(IpsOf(c, peer[c]))
    BY <2>1 DEF CursorsAfterLast, LastNest
  <2>3. /\ stream'[c] # <<>>
        /\ LastNest(c)' = [last EXCEPT !.to = last.to + 1]
    BY <2>1, WithNextIpIs DEF LastNest
  <2>4. LastNest(c)'.peer = peer[c] /\ LastNest(c)'.to = allowedip[c] + 1
    BY <2>2, <2>3 DEF Nest
  <2>5. Peers(c)' = Peers(c) /\ \A p : IpsOf(c, p)' = IpsOf(c, p)
    BY <2>1 DEF Peers, IpsOf
  <2>6. Len(IpsOf(c, peer[c])) \in Nat /\ Len(Peers(c)) \in Nat
    BY <2>1, RequestTypes
  <2>7. CASE allowedip[c] < Len(IpsOf(c, peer[c]))
    <3>1. allowedip' = [allowedip EXCEPT ![c] = @ + 1] /\ peer' = peer
      BY <1>2, <2>7, Zenon DEF PutIp
    <3>2. allowedip'[c] = allowedip[c] + 1
      BY <3>1 DEF TypeOK
    <3> QED
      BY <2>1, <2>3, <2>4, <2>5, <2>6, <2>7, <3>1, <3>2 DEF CursorsAfterLast
  <2>8. CASE ~(allowedip[c] < Len(IpsOf(c, peer[c])))
    <3>1. NextPeer(c) /\ allowedip' = [allowedip EXCEPT ![c] = 0]
      BY <1>2, <2>8, Zenon DEF PutIp
    <3>2. /\ peer'[c] \in 0 .. Len(Peers(c))
          /\ peer[c] + 1 = IF peer'[c] = 0 THEN Len(Peers(c)) + 1 ELSE peer'[c]
      BY <2>1, <3>1, NextPeerCursor
    <3>3. allowedip'[c] = 0
      BY <3>1 DEF TypeOK
    <3> QED
      BY <2>1, <2>2, <2>3, <2>4, <2>5, <2>6, <2>8, <3>2, <3>3 DEF CursorsAfterLast
  <2> QED
    BY <2>7, <2>8
<1> QED
  BY <1>1, <1>2

LEMMA CursorsKept ==
  ASSUME NEW c \in Callers, CursorsAfterLast(c), stream'[c] = stream[c],
         req'[c] = req[c], peer'[c] = peer[c], allowedip'[c] = allowedip[c]
  PROVE  CursorsAfterLast(c)'
BY DEF CursorsAfterLast, LastNest, Peers, IpsOf

\* A caller's own step keeps what is said of it
LEMMA OwnStep ==
  ASSUME IndInv, NEW c \in Callers, Call(c) \/ Build(c) \/ Exchange(c)
  PROVE  InOrder(c)' /\ CursorsAfterLast(c)' /\ SentSoFar(c)'
<1> USE DEF IndInv
<1>1. CASE Call(c)
  <2>1. SentSoFar(c)'
    BY <1>1, SetAssumption DEF Call, SentSoFar, TypeOK, kernelVars, Peers
  <2> QED
    BY <1>1, <2>1, InOrderKept, CursorsKept DEF Call
<1>2. CASE Prepare(c)
  <2>1. Len(Peers(c)) \in Nat /\ (Peers(c) # <<>> => Len(Peers(c)) >= 1)
    BY RequestTypes
  <2>2. CASE Peers(c) = <<>>
    <3>1. pc' = [pc EXCEPT ![c] = "send"] /\ peer' = peer
      BY <1>2, <2>2, Zenon DEF Prepare
    <3>2. SentSoFar(c)'
      BY <1>2, <2>2, <3>1 DEF Prepare, SentSoFar, TypeOK, kernelVars, Peers
    <3> QED
      BY <1>2, <3>1, <3>2, InOrderKept, CursorsKept DEF Prepare
  <2>3. CASE Peers(c) # <<>>
    <3>1. /\ pc' = [pc EXCEPT ![c] = "peers"]
          /\ peer' = [peer EXCEPT ![c] = IF @ = 0 THEN 1 ELSE @]
      BY <1>2, <2>3, Zenon DEF Prepare
    <3>2. peer'[c] = (IF peer[c] = 0 THEN 1 ELSE peer[c]) /\ peer'[c] # 0
      BY <3>1 DEF TypeOK
    <3>3. SentSoFar(c)'
      BY <1>2, <2>3, <3>1, <3>2 DEF Prepare, SentSoFar, TypeOK, kernelVars, Peers
    <3>4. CursorsAfterLast(c)'
      <4>1. peer[c] = 0 => stream[c] = <<>>
        BY <1>2 DEF Prepare, SentSoFar
      <4>2. /\ stream'[c] = stream[c] /\ allowedip'[c] = allowedip[c]
            /\ Peers(c)' = Peers(c) /\ \A p : IpsOf(c, p)' = IpsOf(c, p)
        BY <1>2 DEF Prepare, Peers, IpsOf
      <4>3. CASE peer[c] = 0
        BY <2>1, <2>3, <3>2, <4>1, <4>2, <4>3 DEF CursorsAfterLast
      <4>4. CASE peer[c] # 0
        BY <1>2, <3>2, <4>4, CursorsKept DEF Prepare
      <4> QED
        BY <4>3, <4>4
    <3> QED
      BY <1>2, <3>3, <3>4, InOrderKept DEF Prepare
  <2> QED
    BY <2>2, <2>3
<1>3. CASE PutPeer(c)
  <2>1. NewNest(c) \in Nest /\ peer[c] \in 1 .. Len(Peers(c))
    BY <1>3, NewNestType DEF PutPeer
  <2>2. Len(stream'[c]) = Len(stream[c]) + 1 /\ Len(stream[c]) \in Nat
    BY <1>3, <2>1 DEF PutPeer, TypeOK
  <2>3. \/ /\ pc' = [pc EXCEPT ![c] = "ips"] /\ peer' = peer
           /\ allowedip' = [allowedip EXCEPT ![c] = IF @ = 0 THEN 1 ELSE @]
        \/ NextPeer(c)
    BY <1>3, Zenon DEF PutPeer
  <2>4. SentSoFar(c)'
    <3>1. /\ pc[c] = "peers"
          /\ UNCHANGED <<req, mark, ret, lock, applied>>
      BY <1>3 DEF PutPeer, kernelVars
    <3>2. mark[c] \in Nat /\ mark[c] <= Len(stream[c])
      BY DEF TypeOK, SentSoFar
    <3>3. CASE NextPeer(c)
      <4>1. pc'[c] = IF peer'[c] = 0 THEN "send" ELSE "peers"
        BY <2>1, <3>3, NextPeerCursor DEF TypeOK
      <4> QED
        BY <2>2, <3>1, <3>2, <4>1, PutSentSoFar
    <3>4. CASE /\ pc' = [pc EXCEPT ![c] = "ips"] /\ peer' = peer
               /\ allowedip' = [allowedip EXCEPT ![c] = IF @ = 0 THEN 1 ELSE @]
      <4>1. pc'[c] = "ips" /\ peer'[c] # 0 /\ allowedip'[c] # 0
        BY <2>1, <3>4 DEF TypeOK
      <4> QED
        BY <2>2, <3>1, <3>2, <4>1, PutSentSoFar
    <3> QED
      BY <2>3, <3>3, <3>4
  <2> QED
    BY <1>3, <2>4, PutPeerInOrder, PutCursors
<1>4. CASE PeersTooBig(c)
  <2>1. SentSoFar(c)'
    BY <1>4 DEF PeersTooBig, SentSoFar, TypeOK, kernelVars, Peers
  <2> QED
    BY <1>4, <2>1, InOrderKept, CursorsKept DEF PeersTooBig
<1>5. CASE PutIp(c)
  <2>1. peer[c] \in 1 .. Len(Peers(c)) /\ stream[c] \in Seq(Nest) \ {<<>>}
    BY <1>5, RequestTypes DEF PutIp, SentSoFar, CursorsAfterLast, TypeOK
  <2>2. Len(stream'[c]) = Len(stream[c])
    BY <1>5, <2>1, WithNextIpIs DEF PutIp, TypeOK
  <2>3. \/ pc' = pc /\ peer' = peer /\ allowedip' = [allowedip EXCEPT ![c] = @ + 1]
        \/ NextPeer(c)
    BY <1>5, Zenon DEF PutIp
  <2>4. SentSoFar(c)'
    <3>1. /\ pc[c] = "ips"
          /\ UNCHANGED <<req, mark, ret, lock, applied>>
      BY <1>5 DEF PutIp, kernelVars
    <3>2. /\ mark[c] \in Nat /\ mark[c] < Len(stream[c]) /\ Len(stream[c]) \in Nat
          /\ peer[c] # 0 /\ allowedip[c] \in Nat
      BY <2>1, <3>1 DEF TypeOK, SentSoFar
    <3>3. CASE NextPeer(c)
      <4>1. pc'[c] = IF peer'[c] = 0 THEN "send" ELSE "peers"
        BY <2>1, <3>3, NextPeerCursor DEF TypeOK
      <4> QED
        BY <2>2, <3>1, <3>2, <4>1, PutSentSoFar
    <3>4. CASE pc' = pc /\ peer' = peer /\ allowedip' = [allowedip EXCEPT ![c] = @ + 1]
      <4>1. pc'[c] = "ips" /\ peer'[c] # 0 /\ allowedip'[c] # 0
        BY <3>1, <3>2, <3>4 DEF TypeOK
      <4> QED
        BY <2>2, <3>1, <3>2, <4>1, PutSentSoFar
    <3> QED
      BY <2>3, <3>3, <3>4
  <2> QED
    BY <1>5, <2>4, PutIpInOrder, PutCursors
<1>6. CASE IpsTooBig(c)
  <2>1. SentSoFar(c)'
    BY <1>6 DEF IpsTooBig, SentSoFar, TypeOK, kernelVars, Peers
  <2> QED
    BY <1>6, <2>1, InOrderKept, CursorsKept DEF IpsTooBig
<1>7. CASE SendFails(c)
  <2>1. SentSoFar(c)'
    BY <1>7 DEF SendFails, SentSoFar, TypeOK, kernelVars, Peers
  <2> QED
    BY <1>7, <2>1, InOrderKept, CursorsKept DEF SendFails
<1>8. CASE Send(c)
  <2>1. stream[c] \in Seq(Nest) /\ Len(stream[c]) \in Nat
    BY DEF TypeOK
  <2>2. SentSoFar(c)'
    BY <1>8, <2>1 DEF Send, SentSoFar, TypeOK, Peers
  <2> QED
    BY <1>8, <2>2, InOrderKept, CursorsKept DEF Send
<1>9. CASE KernelPeer(c)
  <2>1. SentSoFar(c)'
    BY <1>9 DEF KernelPeer, SentSoFar, TypeOK, callerVars, Peers
  <2> QED
    BY <1>9, <2>1, InOrderKept, CursorsKept DEF KernelPeer, callerVars
<1>10. CASE RecvFails(c)
  <2>1. SentSoFar(c)'
    BY <1>10, SetAssumption DEF RecvFails, SentSoFar, TypeOK, Peers
  <2> QED
    BY <1>10, <2>1, InOrderKept, CursorsKept DEF RecvFails
<1>11. CASE Ack(c)
  <2>1. /\ lock = c /\ applied[c] = mark[c] /\ lock' = None
        /\ \/ peer[c] # 0 /\ pc' = [pc EXCEPT ![c] = "again"] /\ ret' = ret
           \/ pc' = [pc EXCEPT ![c] = "out"] /\ ret' = [ret EXCEPT ![c] = "ok"]
    BY <1>11, Zenon DEF Ack
  <2>2. SentSoFar(c)'
    BY <1>11, <2>1, SetAssumption DEF Ack, SentSoFar, TypeOK, Peers
  <2> QED
    BY <1>11, <2>2, InOrderKept, CursorsKept DEF Ack
<1> QED
  BY <1>1, <1>2, <1>3, <1>4, <1>5, <1>6, <1>7, <1>8, <1>9, <1>10, <1>11
     DEF Build, Exchange

LEMMA SuccessStep ==
  ASSUME IndInv, NEW c \in Callers, Call(c) \/ Build(c) \/ Exchange(c)
  PROVE  SuccessComplete'
<1> USE DEF IndInv
<1> SUFFICES ASSUME NEW d \in Callers, ret'[d] = "ok"
             PROVE  (applied[d] = Len(stream[d]) /\ Complete(d))'
  BY DEF SuccessComplete
<1>1. CASE ret[d] = "ok"
  <2>1. SameFor(d)
    <3>1. CASE d # c
      BY <3>1, OthersKept
    <3>2. CASE d = c
      <4>1. pc[c] = "out" /\ lock # c
        BY <1>1, <3>2 DEF SentSoFar, TypeOK
      <4> QED
        BY <4>1 DEF Build, Exchange, Call, Prepare, PutPeer, PeersTooBig, PutIp,
                    IpsTooBig, SendFails, Send, KernelPeer, RecvFails, Ack
    <3> QED
      BY <3>1, <3>2
  <2>2. applied[d] = Len(stream[d]) /\ Complete(d)
    BY <1>1 DEF SuccessComplete
  <2> QED
    BY <2>1, <2>2 DEF SameFor, Complete, Peers, IpsOf
<1>2. CASE ret[d] # "ok"
  <2>1. d = c
    BY <1>2, OthersKept DEF SameFor
  <2>2. Ack(c) /\ peer[c] = 0
    BY <1>2, <2>1 DEF Build, Exchange, Call, Prepare, PutPeer, PeersTooBig, PutIp,
                      IpsTooBig, SendFails, Send, KernelPeer, RecvFails, Ack, TypeOK,
                      callerVars
  <2>3. applied[c] = mark[c] /\ mark[c] = Len(stream[c]) /\ pc[c] = "kernel"
    BY <2>2 DEF Ack, SentSoFar
  <2>4. /\ applied' = applied /\ stream' = stream /\ req' = req
    BY <2>2 DEF Ack
  <2>5. Complete(c)
    <3>1. CASE Peers(c) = <<>>
      <4>1. stream[c] \in Seq(Nest)
        BY DEF TypeOK
      <4>2. \A n \in 1 .. Len(stream[c]) : stream[c][n].peer \in 1 .. 0
        BY <3>1 DEF InOrder, NestInRequest
      <4> QED
        BY <3>1, <4>1, <4>2 DEF Complete
    <3>2. CASE Peers(c) # <<>>
      <4>1. stream[c] # <<>> /\ allowedip[c] = 0
        BY <2>2, <2>3, <3>2 DEF SentSoFar, CursorsAfterLast
      <4>2. LastNest(c) \in Nest /\ Len(Peers(c)) \in Nat
        BY <4>1, RequestTypes DEF LastNest, TypeOK
      <4>3. /\ LastNest(c).peer = Len(Peers(c))
            /\ LastNest(c).to = Len(IpsOf(c, LastNest(c).peer)) + 1
        BY <2>2, <4>1, <4>2 DEF CursorsAfterLast, Nest
      <4> QED
        BY <3>2, <4>1, <4>3 DEF Complete, LastNest
    <3> QED
      BY <3>1, <3>2
  <2> QED
    BY <2>1, <2>3, <2>4, <2>5 DEF Complete, Peers, IpsOf
<1> QED
  BY <1>1, <1>2

LEMMA IndInvStep == IndInv /\ [Next]_vars => IndInv'
<1> SUFFICES ASSUME IndInv, [Next]_vars PROVE IndInv'
  OBVIOUS
<1>1. CASE UNCHANGED vars
  <2>1. TypeOK'
    BY <1>1 DEF IndInv, TypeOK, vars, callerVars, kernelVars
  <2>2. ASSUME NEW d \in Callers
        PROVE  InOrder(d)' /\ CursorsAfterLast(d)' /\ SentSoFar(d)'
    BY <1>1, Frame DEF IndInv, vars, callerVars, kernelVars
  <2>3. SuccessComplete'
    BY <1>1 DEF IndInv, SuccessComplete, Complete, Peers, IpsOf, vars, callerVars,
                kernelVars
  <2> QED
    BY <2>1, <2>2, <2>3 DEF IndInv
<1>2. ASSUME NEW c \in Callers, Call(c) \/ Build(c) \/ Exchange(c)
      PROVE  IndInv'
  <2>1. TypeOK'
    BY <1>2, TypeStep
  <2>2. ASSUME NEW d \in Callers
        PROVE  InOrder(d)' /\ CursorsAfterLast(d)' /\ SentSoFar(d)'
    <3>1. CASE d = c
      BY <1>2, <3>1, OwnStep
    <3>2. CASE d # c
      BY <1>2, <3>2, OthersKept, Frame DEF IndInv, SameFor
    <3> QED
      BY <3>1, <3>2
  <2>3. SuccessComplete'
    BY <1>2, SuccessStep
  <2> QED
    BY <2>1, <2>2, <2>3 DEF IndInv
<1> QED
  BY <1>1, <1>2 DEF Next

\* The inductive invariant holds of every run of wg_set_device
THEOREM Invariance == Spec => []IndInv
BY InitIndInv, IndInvStep, PTL DEF Spec

\* Type correctness of wg_set_device's cursors and of the kernel's table
THEOREM TypeCorrect == Spec => []TypeOK
<1>1. IndInv => TypeOK
  BY DEF IndInv
<1> QED
  BY <1>1, Invariance, PTL

\* However the request is cut into messages, its peers and allowed IPs are
\* sent in order, each once, and with the flags wg_set_device gives them
THEOREM OrderKept == Spec => []StreamInOrder
<1>1. IndInv => StreamInOrder
  BY DEF IndInv, StreamInOrder
<1> QED
  BY <1>1, Invariance, PTL

\* wg_set_device returns 0 only for a request processed to its end
THEOREM SuccessIsComplete == Spec => []SuccessComplete
<1>1. IndInv => SuccessComplete
  BY DEF IndInv
<1> QED
  BY <1>1, Invariance, PTL

-----------------------------------------------------------------------------
(***************************************************************************)
(* wg_set_device implements WgConfigure: whatever the messages are, the    *)
(* kernel's table only goes through the steps WgConfigure allows.          *)
(***************************************************************************)
Step(c) == Call(c) \/ Build(c) \/ Exchange(c)

LEMMA MessageKept ==
  ASSUME NEW d \in Callers, MessageAdvances(d), HeaderOnce(d), SameFor(d),
         header'[d] = header[d]
  PROVE  MessageAdvances(d)' /\ HeaderOnce(d)'
BY DEF MessageAdvances, HeaderOnce, SameFor

LEMMA MessageStep ==
  ASSUME IndInv, MessageInv, NEW c \in Callers, Step(c)
  PROVE  MessageInv'
<1> USE DEF IndInv
<1>1. ASSUME NEW d \in Callers, d # c
      PROVE  MessageAdvances(d)' /\ HeaderOnce(d)'
  <2>1. header'[d] = header[d]
    BY <1>1 DEF Step, Build, Exchange, Call, Prepare, PutPeer, PeersTooBig, PutIp,
                IpsTooBig, SendFails, Send, KernelPeer, RecvFails, Ack, TypeOK,
                callerVars
  <2> QED
    BY <1>1, <2>1, OthersKept, MessageKept DEF MessageInv, Step
<1>2. MessageAdvances(c) /\ HeaderOnce(c)
  BY DEF MessageInv
<1>3. CASE Call(c)
  BY <1>1, <1>2, <1>3
     DEF Call, MessageInv, MessageAdvances, HeaderOnce, SentSoFar, TypeOK, kernelVars
<1>4. CASE Prepare(c)
  <2>1. /\ header' = [header EXCEPT ![c] = (peer[c] = 0)]
        /\ \/ pc' = [pc EXCEPT ![c] = "send"] /\ peer' = peer
           \/ /\ pc' = [pc EXCEPT ![c] = "peers"]
              /\ peer' = [peer EXCEPT ![c] = IF @ = 0 THEN 1 ELSE @]
    BY <1>4, Zenon DEF Prepare
  <2>2. header'[c] <=> peer[c] = 0
    BY <2>1 DEF TypeOK
  <2>3. pc[c] = "again" /\ stream' = stream /\ mark' = mark /\ allowedip' = allowedip
    BY <1>4 DEF Prepare
  <2>4. pc'[c] \in {"send", "peers"}
    BY <2>1 DEF TypeOK
  <2>5. MessageAdvances(c)'
    BY <1>2, <2>3, <2>4 DEF MessageAdvances, SentSoFar
  <2>6. HeaderOnce(c)'
    BY <1>2, <2>2, <2>3, <2>4 DEF HeaderOnce
  <2> QED
    BY <1>1, <2>5, <2>6 DEF MessageInv
<1>5. CASE PutPeer(c)
  <2> DEFINE len == Len(stream[c])
  <2>1. NewNest(c) \in Nest /\ peer[c] \in 1 .. Len(Peers(c))
        /\ (IpsOf(c, peer[c]) = <<>> => allowedip[c] = 0)
    BY <1>5, NewNestType DEF PutPeer
  <2>2. /\ stream'[c] = Append(stream[c], NewNest(c))
        /\ mark' = mark /\ header' = header /\ pc[c] = "peers"
        /\ stream[c] \in Seq(Nest)
    BY <1>5 DEF PutPeer, TypeOK
  <2>3. /\ Len(stream'[c]) = len + 1
        /\ len \in Nat
        /\ \A n \in 1 .. len : stream'[c][n] = stream[c][n]
        /\ stream'[c][len + 1] = NewNest(c)
    BY <2>1, <2>2
  <2>4. NewNest(c).full <=> allowedip[c] = 0
    BY DEF NewNest
  <2>5. \A n \in 1 .. len : stream[c][n].full \/ stream[c][n].from < stream[c][n].to
    BY <1>2, <2>2 DEF MessageAdvances
  <2>6. CASE IpsOf(c, peer[c]) = <<>>
    <3>1. NextPeer(c) /\ allowedip' = allowedip
      BY <1>5, <2>6, Zenon DEF PutPeer
    <3>2. pc'[c] \in {"send", "peers"}
      BY <2>1, <3>1, NextPeerCursor DEF TypeOK
    <3>3. MessageAdvances(c)'
      <4>1. allowedip[c] = 0 /\ allowedip'[c] = 0 /\ NewNest(c).full
        BY <2>1, <2>4, <2>6, <3>1
      <4>2. ASSUME NEW n \in 1 .. Len(stream'[c])
            PROVE  stream'[c][n].full \/ stream'[c][n].from < stream'[c][n].to
        <5>1. CASE n = len + 1
          BY <2>3, <4>1, <5>1
        <5>2. CASE n # len + 1
          <6>1. n \in 1 .. len
            BY <2>3, <5>2
          <6> QED
            BY <2>3, <2>5, <6>1
        <5> QED
          BY <5>1, <5>2
      <4> QED
        BY <4>1, <4>2 DEF MessageAdvances
    <3>4. HeaderOnce(c)'
      BY <1>2, <2>2, <3>2 DEF HeaderOnce
    <3> QED
      BY <1>1, <3>3, <3>4 DEF MessageInv
  <2>7. CASE IpsOf(c, peer[c]) # <<>>
    <3>1. pc'[c] = "ips"
      BY <1>5, <2>7 DEF PutPeer, TypeOK
    <3>2. allowedip[c] # 0 => len = mark[c]
      BY <1>2, <2>2 DEF MessageAdvances
    <3>3. MessageAdvances(c)'
      BY <2>2, <2>3, <2>4, <2>5, <3>1, <3>2 DEF MessageAdvances
    <3>4. HeaderOnce(c)'
      BY <1>2, <2>2, <3>1 DEF HeaderOnce
    <3> QED
      BY <1>1, <3>3, <3>4 DEF MessageInv
  <2> QED
    BY <2>6, <2>7
<1>6. CASE PeersTooBig(c)
  <2>1. MessageAdvances(c)'
    BY <1>2, <1>6 DEF PeersTooBig, MessageAdvances, TypeOK
  <2>2. HeaderOnce(c)'
    BY <1>2, <1>6 DEF PeersTooBig, HeaderOnce, TypeOK
  <2> QED
    BY <1>1, <2>1, <2>2 DEF MessageInv
<1>7. CASE PutIp(c)
  <2> DEFINE len  == Len(stream[c])
             last == stream[c][len]
  <2>1. /\ stream[c] \in Seq(Nest) \ {<<>>}
        /\ stream'[c] = WithNextIp(stream[c])
        /\ mark' = mark /\ header' = header /\ pc[c] = "ips"
        /\ peer[c] \in 1 .. Len(Peers(c))
    BY <1>7, RequestTypes DEF PutIp, TypeOK, SentSoFar, CursorsAfterLast
  <2>2. /\ Len(stream'[c]) = len
        /\ \A n \in 1 .. len - 1 : stream'[c][n] = stream[c][n]
        /\ stream'[c][len] = [last EXCEPT !.to = last.to + 1]
        /\ len \in Nat \ {0}
        /\ last \in Nest
    BY <2>1, WithNextIpIs
  <2>3. stream'[c][len].from < stream'[c][len].to
    <3>1. NestInRequest(c, last)
      BY <2>2 DEF InOrder
    <3> QED
      BY <2>2, <3>1 DEF NestInRequest, Nest
  <2>4. \A n \in 1 .. len - 1 : stream[c][n].full \/ stream[c][n].from < stream[c][n].to
    BY <1>2, <2>2 DEF MessageAdvances
  <2>5. \/ pc' = pc
        \/ NextPeer(c) /\ allowedip' = [allowedip EXCEPT ![c] = 0]
    BY <1>7, Zenon DEF PutIp
  <2>6. pc'[c] = "ips" \/ (pc'[c] \in {"send", "peers"} /\ allowedip'[c] = 0)
    BY <2>1, <2>5, NextPeerCursor DEF TypeOK
  <2>7. MessageAdvances(c)'
    <3>1. ASSUME NEW n \in 1 .. Len(stream'[c])
          PROVE  stream'[c][n].full \/ stream'[c][n].from < stream'[c][n].to
      <4>1. CASE n = len
        BY <2>3, <4>1
      <4>2. CASE n # len
        <5>1. n \in 1 .. len - 1
          BY <2>2, <4>2
        <5> QED
          BY <2>2, <2>4, <5>1
      <4> QED
        BY <4>1, <4>2
    <3> QED
      BY <2>6, <3>1 DEF MessageAdvances
  <2>8. HeaderOnce(c)'
    BY <1>2, <2>1, <2>6 DEF HeaderOnce
  <2> QED
    BY <1>1, <2>7, <2>8 DEF MessageInv
<1>8. CASE IpsTooBig(c)
  <2> DEFINE len == Len(stream[c])
  <2>1. /\ pc[c] = "ips" /\ pc' = [pc EXCEPT ![c] = "send"]
        /\ len > mark[c] + 1 \/ stream[c][len].to > stream[c][len].from
        /\ stream' = stream /\ mark' = mark /\ header' = header
    BY <1>8 DEF IpsTooBig
  <2>2. stream[c] \in Seq(Nest) /\ mark[c] \in Nat
    BY DEF TypeOK
  <2>3. \A n \in 1 .. len : stream[c][n].full \/ stream[c][n].from < stream[c][n].to
    <3> SUFFICES ASSUME NEW n \in 1 .. len, n = len, n = mark[c] + 1
                 PROVE  stream[c][n].from < stream[c][n].to
      BY <1>2 DEF MessageAdvances
    <3>1. \A s \in Seq(Nest) : \A k \in 1 .. Len(s) : s[k] \in Nest
      OBVIOUS
    <3>2. stream[c][n] \in Nest
      BY <2>2, <3>1
    <3> QED
      BY <2>1, <2>2, <3>2 DEF Nest
  <2>4. MessageAdvances(c)'
    BY <2>1, <2>3 DEF MessageAdvances, TypeOK
  <2>5. HeaderOnce(c)'
    BY <1>2, <2>1 DEF HeaderOnce, TypeOK
  <2> QED
    BY <1>1, <2>4, <2>5 DEF MessageInv
<1>9. CASE SendFails(c)
  <2>1. MessageAdvances(c)' /\ HeaderOnce(c)'
    BY <1>2, <1>9 DEF SendFails, MessageAdvances, HeaderOnce, TypeOK
  <2> QED
    BY <1>1, <2>1 DEF MessageInv
<1>10. CASE Send(c)
  <2>1. MessageAdvances(c)' /\ HeaderOnce(c)'
    BY <1>2, <1>10 DEF Send, MessageAdvances, HeaderOnce, TypeOK
  <2> QED
    BY <1>1, <2>1 DEF MessageInv
<1>11. CASE KernelPeer(c)
  <2>1. MessageAdvances(c)' /\ HeaderOnce(c)'
    BY <1>2, <1>11 DEF KernelPeer, callerVars, MessageAdvances, HeaderOnce, TypeOK
  <2> QED
    BY <1>1, <2>1 DEF MessageInv
<1>12. CASE RecvFails(c)
  <2>1. MessageAdvances(c)' /\ HeaderOnce(c)'
    BY <1>2, <1>12 DEF RecvFails, SentSoFar, MessageAdvances, HeaderOnce, TypeOK
  <2> QED
    BY <1>1, <2>1 DEF MessageInv
<1>13. CASE Ack(c)
  <2>1. /\ lock = c /\ stream' = stream /\ mark' = mark /\ peer' = peer
        /\ \/ peer[c] # 0 /\ pc' = [pc EXCEPT ![c] = "again"]
           \/ pc' = [pc EXCEPT ![c] = "out"]
    BY <1>13, Zenon DEF Ack
  <2>2. pc[c] = "kernel" /\ mark[c] = Len(stream[c]) /\ mark[c] \in Nat
    BY <2>1 DEF SentSoFar, TypeOK
  <2>3. peer[c] # 0 => mark[c] # 0
    <3>1. peer[c] # 0 => Peers(c) # <<>>
      BY RequestTypes DEF CursorsAfterLast
    <3>2. stream[c] \in Seq(Nest)
      BY DEF TypeOK
    <3> QED
      BY <2>2, <3>1, <3>2 DEF SentSoFar
  <2>4. MessageAdvances(c)'
    BY <1>2, <2>1, <2>2 DEF MessageAdvances, TypeOK
  <2>5. HeaderOnce(c)'
    BY <2>1, <2>2, <2>3 DEF HeaderOnce, TypeOK
  <2> QED
    BY <1>1, <2>4, <2>5 DEF MessageInv
<1> QED
  BY <1>3, <1>4, <1>5, <1>6, <1>7, <1>8, <1>9, <1>10, <1>11, <1>12, <1>13
     DEF Step, Build, Exchange

MapInv == IndInv /\ MessageInv

LEMMA InitMapInv == Init => MapInv
<1> SUFFICES ASSUME Init PROVE MessageInv
  BY InitIndInv DEF MapInv
<1> SUFFICES ASSUME NEW c \in Callers
             PROVE  MessageAdvances(c) /\ HeaderOnce(c)
  BY DEF MessageInv
<1>1. pc[c] = "idle" /\ stream[c] = <<>> /\ mark[c] = 0
  BY DEF Init
<1> QED
  BY <1>1 DEF MessageAdvances, HeaderOnce

LEMMA MapInvStep == MapInv /\ [Next]_vars => MapInv'
<1> SUFFICES ASSUME MapInv, [Next]_vars PROVE MapInv'
  OBVIOUS
<1>1. IndInv'
  BY IndInvStep DEF MapInv
<1>2. CASE UNCHANGED vars
  <2>1. MessageInv'
    BY <1>2 DEF MapInv, MessageInv, MessageAdvances, HeaderOnce, vars, callerVars,
                kernelVars
  <2> QED
    BY <1>1, <2>1 DEF MapInv
<1>3. CASE Next
  BY <1>1, <1>3, MessageStep DEF MapInv, Next, Step
<1> QED
  BY <1>2, <1>3

LEMMA MapInvariance == Spec => []MapInv
BY InitMapInv, MapInvStep, PTL DEF Spec

-----------------------------------------------------------------------------
StatusBar == [c \in Callers |-> Status(c)]
AtBar == [c \in Callers |-> Reached(c)]

\* A step that leaves both mapped variables and the table alone is a stutter
LEMMA Stutter ==
  ASSUME req' = req, conf' = conf,
         \A d \in Callers : Status(d)' = Status(d) /\ Reached(d)' = Reached(d)
  PROVE  UNCHANGED Configure!vars
BY DEF Configure!vars

\* Status and Reached of a caller depend on that caller's variables only
LEMMA MappedSame ==
  ASSUME NEW d \in Callers, SameFor(d)
  PROVE  Status(d)' = Status(d) /\ Reached(d)' = Reached(d)
<1>1. Status(d)' = Status(d)
  BY DEF SameFor, Status
<1>2. Reached(d)' = Reached(d)
  BY DEF SameFor, Reached, Peers, IpsOf
<1> QED
  BY <1>1, <1>2

LEMMA InitMaps == Init => Configure!Init
<1> SUFFICES ASSUME Init PROVE Configure!Init
  OBVIOUS
<1>1. ASSUME NEW c \in Callers PROVE Status(c) = "ready" /\ Reached(c) = <<1, 0>>
  BY SetAssumption DEF Init, Status, Reached
<1> QED
  BY <1>1 DEF Init, Configure!Init, Configure!EmptyConfig, EmptyConfig

\* A message under construction changes none of the nests processed
LEMMA AppliedNestsKept ==
  ASSUME IndInv, NEW c \in Callers, Call(c) \/ Build(c), applied[c] # 0
  PROVE  /\ stream'[c][applied[c]].peer = stream[c][applied[c]].peer
         /\ stream'[c][applied[c]].to = stream[c][applied[c]].to
<1> USE DEF IndInv
<1>1. applied[c] \in 1 .. Len(stream[c])
  BY DEF SentSoFar, TypeOK
<1>2. CASE PutPeer(c)
  <2>1. NewNest(c) \in Nest
    BY <1>2, NewNestType DEF PutPeer
  <2> QED
    BY <1>1, <1>2, <2>1 DEF PutPeer, TypeOK
<1>3. CASE PutIp(c)
  <2>1. /\ stream[c] \in Seq(Nest) \ {<<>>}
        /\ stream'[c] = WithNextIp(stream[c])
        /\ mark[c] < Len(stream[c])
        /\ applied[c] <= mark[c]
    BY <1>3 DEF PutIp, TypeOK, SentSoFar
  <2>2. applied[c] \in 1 .. Len(stream[c]) - 1
    <3>1. mark[c] \in Nat /\ Len(stream[c]) \in Nat
      BY DEF TypeOK
    <3> QED
      BY <1>1, <2>1, <3>1
  <2>3. \A n \in 1 .. Len(stream[c]) - 1 : stream'[c][n] = stream[c][n]
    <3> HIDE DEF IndInv
    <3> QED
      BY <2>1, WithNextIpIs
  <2> QED
    BY <2>2, <2>3
<1>4. CASE ~PutPeer(c) /\ ~PutIp(c)
  BY <1>4 DEF Build, Call, Prepare, PeersTooBig, IpsTooBig
<1> QED
  BY <1>2, <1>3, <1>4

\* Building a message changes nothing the kernel has seen
LEMMA BuildStutters ==
  ASSUME MapInv, NEW c \in Callers, Call(c) \/ Build(c)
  PROVE  UNCHANGED Configure!vars
<1> USE DEF MapInv, IndInv
<1>1. /\ req' = req /\ conf' = conf /\ lock' = lock /\ applied' = applied
      /\ mark' = mark /\ ret' = ret
  BY DEF Build, Call, Prepare, PutPeer, PeersTooBig, PutIp, IpsTooBig, kernelVars
<1>2. ASSUME NEW d \in Callers
      PROVE  Status(d)' = Status(d) /\ Reached(d)' = Reached(d)
  <2>1. CASE d # c
    BY <2>1, OthersKept, MappedSame DEF Step
  <2>2. CASE d = c
    <3>1. Status(c)' = Status(c)
      BY <1>1 DEF Status
    <3>3. applied[c] # 0 => /\ stream'[c][applied[c]].peer = stream[c][applied[c]].peer
                            /\ stream'[c][applied[c]].to = stream[c][applied[c]].to
      BY AppliedNestsKept
    <3>4. Reached(c)' = Reached(c)
      BY <1>1, <3>3 DEF Reached, IpsOf, Peers
    <3> QED
      BY <2>2, <3>1, <3>4
  <2> QED
    BY <2>1, <2>2
<1> QED
  BY <1>1, <1>2, Stutter

\* The kernel takes a message: the first one begins the request
LEMMA SendMaps ==
  ASSUME MapInv, NEW c \in Callers, Send(c)
  PROVE  Configure!Begin(c) \/ UNCHANGED Configure!vars
<1> USE DEF MapInv, IndInv
<1>1. /\ pc[c] = "send" /\ lock = None /\ lock' = c
      /\ req' = req /\ ret' = ret /\ stream' = stream /\ applied' = applied
      /\ mark' = [mark EXCEPT ![c] = Len(stream[c])]
      /\ conf' = IF header[c] /\ req[c].replace_peers THEN EmptyConfig ELSE conf
  BY DEF Send
<1>2. header[c] <=> mark[c] = 0
  BY <1>1 DEF MessageInv, HeaderOnce
<1>3. ret[c] = "none" /\ lock # c
  BY <1>1, SetAssumption DEF SentSoFar
<1>4. \A d \in Callers : Reached(d)' = Reached(d)
  BY <1>1 DEF Reached, Peers, IpsOf
<1>5. \A d \in Callers : d # c => Status(d)' = Status(d)
  BY OthersKept, MappedSame DEF Exchange
<1>6. Status(c)' = "running"
  BY <1>1, <1>3 DEF Status
<1>7. CASE mark[c] = 0
  <2>1. Status(c) = "ready"
    BY <1>3, <1>7 DEF Status
  <2>2. StatusBar' = [StatusBar EXCEPT ![c] = "running"]
    BY <1>5, <1>6 DEF StatusBar
  <2> QED
    BY <1>1, <1>2, <1>4, <1>7, <2>1, <2>2
       DEF Configure!Begin, StatusBar, Configure!EmptyConfig, EmptyConfig
<1>8. CASE mark[c] # 0
  <2>1. Status(c) = "running"
    BY <1>3, <1>8 DEF Status, TypeOK
  <2>2. conf' = conf
    BY <1>1, <1>2, <1>8
  <2> QED
    BY <1>1, <1>4, <1>5, <1>6, <2>1, <2>2, Stutter
<1> QED
  BY <1>7, <1>8

\* The kernel processes one nest: the items of one peer from where the nest
\* before it ended
LEMMA KernelPeerMaps ==
  ASSUME MapInv, NEW c \in Callers, KernelPeer(c)
  PROVE  Configure!Advance(c)
<1> DEFINE n    == applied[c] + 1
           nest == stream[c][n]
           p    == nest.peer
           len  == Len(IpsOf(c, p))
<1> USE DEF MapInv, IndInv
<1>1. /\ lock = c /\ n <= mark[c] /\ applied' = [applied EXCEPT ![c] = n]
      /\ conf' = SetPeer(conf, c, Peers(c)[p].key, nest.remove, nest.replace,
                         nest.full, ListedIps(c, n))
      /\ UNCHANGED <<callerVars, lock>>
  BY DEF KernelPeer
<1>2. /\ n \in 1 .. Len(stream[c]) /\ nest \in Nest /\ NestInRequest(c, nest)
      /\ applied[c] \in Nat
  BY <1>1 DEF TypeOK, SentSoFar, InOrder
<1>3. /\ p \in 1 .. Len(Peers(c)) /\ len \in Nat
      /\ nest.from \in 1 .. nest.to /\ nest.to \in 1 .. len + 1
      /\ nest.remove = Peers(c)[p].remove
      /\ nest.replace = (nest.full /\ Peers(c)[p].replace)
  BY <1>2, RequestTypes DEF NestInRequest, Nest
<1>4. nest.full \/ nest.from < nest.to
  BY <1>1, <1>2 DEF MessageInv, MessageAdvances, SentSoFar, TypeOK
<1>5. Reached(c) = <<p, IF nest.full THEN 0 ELSE nest.from>>
      /\ (nest.full => nest.from = 1)
  <2>1. CASE applied[c] = 0
    <3>1. p = 1 /\ nest.full /\ nest.from = 1
      BY <1>2, <2>1 DEF InOrder, StreamStarts
    <3> QED
      BY <2>1, <3>1 DEF Reached
  <2>2. CASE applied[c] # 0
    <3> DEFINE a == stream[c][applied[c]]
    <3>1. applied[c] \in 1 .. Len(stream[c]) - 1 /\ a \in Nest /\ NestInRequest(c, a)
      <4>1. Len(stream[c]) \in Nat /\ stream[c] \in Seq(Nest)
        BY DEF TypeOK
      <4>2. applied[c] \in 1 .. Len(stream[c]) - 1
        BY <1>2, <2>2, <4>1
      <4> QED
        BY <4>1, <4>2 DEF InOrder
    <3>2. Follows(c, a, nest)
      BY <1>2, <3>1 DEF InOrder
    <3>3. Len(IpsOf(c, a.peer)) \in Nat /\ a.to \in Nat
      BY <3>1, RequestTypes DEF NestInRequest, Nest
    <3>4. CASE a.to <= Len(IpsOf(c, a.peer))
      BY <2>2, <3>2, <3>3, <3>4 DEF Reached, Follows
    <3>5. CASE ~(a.to <= Len(IpsOf(c, a.peer)))
      BY <2>2, <3>2, <3>3, <3>5 DEF Reached, Follows
    <3> QED
      BY <3>4, <3>5
  <2> QED
    BY <2>1, <2>2
<1>6. Status(c) = "running" /\ \A d \in Callers : Status(d)' = Status(d)
  <2>1. ret[c] = "none"
    BY <1>1 DEF SentSoFar
  <2> QED
    BY <1>1, <2>1 DEF Status, callerVars
<1>7. /\ \A d \in Callers : d # c => Reached(d)' = Reached(d)
      /\ Reached(c)' = IF nest.to = len + 1 THEN <<p + 1, 0>> ELSE <<p, nest.to>>
  <2>1. \A d \in Callers : d # c => Reached(d)' = Reached(d)
    BY OthersKept, MappedSame DEF Exchange
  <2>2. applied'[c] = n /\ n # 0 /\ stream' = stream /\ req' = req
    BY <1>1, <1>2 DEF TypeOK, callerVars
  <2>3. Reached(c)' = IF nest.to > len THEN <<p + 1, 0>> ELSE <<p, nest.to>>
    BY <2>2 DEF Reached, IpsOf, Peers
  <2> QED
    BY <1>3, <2>1, <2>3
<1>8. AtBar' = [AtBar EXCEPT ![c] = IF nest.to = len + 1 THEN <<p + 1, 0>>
                                    ELSE <<p, nest.to>>]
  BY <1>7 DEF AtBar
<1>9. conf' = Configure!SetPeer(conf, c, Peers(c)[p].key, Peers(c)[p].remove,
                nest.full /\ Peers(c)[p].replace, nest.full,
                {IpsOf(c, p)[k] : k \in nest.from .. nest.to - 1})
  BY <1>1, <1>3 DEF ListedIps, SetPeer, RemovePeer, Configure!SetPeer,
                    Configure!RemovePeer
<1> DEFINE i == IF nest.full THEN 0 ELSE nest.from
<1>10. /\ AtBar[c][1] = p /\ AtBar[c][2] = i
       /\ StatusBar[c] = "running"
       /\ StatusBar' = StatusBar
       /\ req' = req
  <2> HIDE DEF MapInv, IndInv
  <2>1. AtBar[c] = <<p, i>>
    BY <1>5 DEF AtBar
  <2>2. StatusBar[c] = "running" /\ StatusBar' = StatusBar
    BY <1>6 DEF StatusBar
  <2>3. req' = req
    BY <1>1 DEF callerVars
  <2> QED
    BY <2>1, <2>2, <2>3
<1>11. /\ (IF i = 0 THEN 1 ELSE i) = nest.from
       /\ (i = 0) <=> nest.full
       /\ i = 0 \/ nest.to > i
  BY <1>3, <1>4, <1>5
<1>12. Configure!Peers(c) = Peers(c) /\ IpsOf(c, p) = Peers(c)[p].ips
  BY DEF Configure!Peers, Peers, IpsOf
<1> DEFINE q     == AtBar[c][1]
           m     == AtBar[c][2]
           first == IF m = 0 THEN 1 ELSE m
           r     == Configure!Peers(c)[q]
<1>13. /\ q = p /\ m = i /\ first = nest.from /\ r = Peers(c)[p]
       /\ r.ips = IpsOf(c, p)
  BY <1>10, <1>11, <1>12
<1>14. \E j \in first .. Len(r.ips) + 1 :
         /\ m = 0 \/ j > m
         /\ conf' = Configure!SetPeer(conf, c, r.key, r.remove, m = 0 /\ r.replace,
                                      m = 0, {r.ips[k] : k \in first .. j - 1})
         /\ AtBar' = [AtBar EXCEPT ![c] = IF j = Len(r.ips) + 1 THEN <<q + 1, 0>>
                                          ELSE <<q, j>>]
  <2>1. nest.to \in first .. Len(r.ips) + 1
    BY <1>3, <1>13
  <2>2. conf' = Configure!SetPeer(conf, c, r.key, r.remove, m = 0 /\ r.replace,
                                  m = 0, {r.ips[k] : k \in first .. nest.to - 1})
    <3>1. (m = 0 /\ r.replace) = (nest.full /\ Peers(c)[p].replace)
      BY <1>11, <1>13
    <3>2. (m = 0) = nest.full
      BY <1>2, <1>11, <1>13 DEF Nest
    <3>3. {r.ips[k] : k \in first .. nest.to - 1}
            = {IpsOf(c, p)[k] : k \in nest.from .. nest.to - 1}
      BY <1>13
    <3> QED
      BY <1>9, <1>13, <3>1, <3>2, <3>3
  <2>3. AtBar' = [AtBar EXCEPT ![c] = IF nest.to = Len(r.ips) + 1 THEN <<q + 1, 0>>
                                      ELSE <<q, nest.to>>]
    BY <1>8, <1>13
  <2>4. m = 0 \/ nest.to > m
    BY <1>11, <1>13
  <2> QED
    BY <2>1, <2>2, <2>3, <2>4
<1>15. q <= Len(Configure!Peers(c))
  BY <1>3, <1>12, <1>13
<1> QED
  BY <1>10, <1>14, <1>15, Zenon DEF Configure!Advance, AtBar, StatusBar

LEMMA AckMaps ==
  ASSUME MapInv, NEW c \in Callers, Ack(c)
  PROVE  Configure!Succeed(c) \/ UNCHANGED Configure!vars
<1> USE DEF MapInv, IndInv
<1>1. /\ lock = c /\ applied[c] = mark[c] /\ UNCHANGED <<req, stream, mark, conf, applied>>
      /\ \/ peer[c] # 0 /\ ret' = ret
         \/ peer[c] = 0 /\ ret' = [ret EXCEPT ![c] = "ok"]
  BY Zenon DEF Ack
<1>2. ret[c] = "none" /\ Status(c) = "running" /\ mark[c] = Len(stream[c])
  BY <1>1 DEF SentSoFar, Status
<1>3. \A d \in Callers : Reached(d)' = Reached(d)
  BY <1>1 DEF Reached, Peers, IpsOf
<1>4. \A d \in Callers : d # c => Status(d)' = Status(d)
  BY OthersKept, MappedSame DEF Exchange
<1>5. CASE peer[c] # 0 /\ ret' = ret
  <2>1. Peers(c) # <<>>
    BY <1>5, RequestTypes DEF CursorsAfterLast
  <2>2. mark[c] > 0
    BY <1>1, <1>2, <2>1 DEF SentSoFar, TypeOK
  <2>3. Status(c)' = "running"
    BY <1>1, <1>2, <1>5, <2>2 DEF Status
  <2> QED
    BY <1>1, <1>2, <1>3, <1>4, <2>3, Stutter
<1>6. CASE peer[c] = 0 /\ ret' = [ret EXCEPT ![c] = "ok"]
  <2>1. Status(c)' = "ok"
    BY <1>6 DEF Status, TypeOK
  <2>2. StatusBar' = [StatusBar EXCEPT ![c] = "ok"]
    BY <1>4, <2>1 DEF StatusBar
  <2>3. applied[c] = Len(stream[c]) /\ Complete(c)
    <3>1. SuccessComplete'
      BY SuccessStep DEF Exchange
    <3>2. (applied[c] = Len(stream[c]) /\ Complete(c))'
      BY <1>6, <3>1 DEF SuccessComplete, TypeOK
    <3> QED
      BY <1>1, <3>2 DEF Complete, Peers, IpsOf
  <2>4. Reached(c) = <<Len(Peers(c)) + 1, 0>>
    <3>1. CASE Peers(c) = <<>>
      BY <2>3, <3>1 DEF Complete, Reached
    <3>2. CASE Peers(c) # <<>>
      <4>1. LastNest(c) \in Nest /\ Len(stream[c]) # 0
        BY <2>3, <3>2 DEF Complete, LastNest, TypeOK
      <4>2. /\ LastNest(c).peer = Len(Peers(c))
            /\ LastNest(c).to = Len(IpsOf(c, LastNest(c).peer)) + 1
        BY <2>3, <3>2 DEF Complete, LastNest
      <4>3. Len(IpsOf(c, LastNest(c).peer)) \in Nat
        BY <3>2, <4>2, RequestTypes
      <4> QED
        BY <2>3, <4>1, <4>2, <4>3 DEF Reached, LastNest
    <3> QED
      BY <3>1, <3>2
  <2>5. Configure!Peers(c) = Peers(c)
    BY DEF Configure!Peers, Peers
  <2> QED
    BY <1>1, <1>2, <1>3, <2>2, <2>4, <2>5 DEF Configure!Succeed, StatusBar
<1> QED
  BY <1>1, <1>5, <1>6

LEMMA FailMaps ==
  ASSUME MapInv, NEW c \in Callers, SendFails(c) \/ RecvFails(c)
  PROVE  Configure!Fail(c)
<1> USE DEF MapInv, IndInv
<1>1. /\ ret' = [ret EXCEPT ![c] = "error"] /\ UNCHANGED <<req, stream, conf, applied>>
      /\ pc[c] \in {"send", "again"} \/ lock = c
  BY DEF SendFails, RecvFails, kernelVars
<1>2. ret[c] = "none"
  BY <1>1 DEF SentSoFar
<1>3. Status(c) \in {"ready", "running"} /\ Status(c)' = "error"
  BY <1>1, <1>2 DEF Status, TypeOK
<1>4. \A d \in Callers : Reached(d)' = Reached(d)
  BY <1>1 DEF Reached, Peers, IpsOf
<1>5. \A d \in Callers : d # c => Status(d)' = Status(d)
  BY OthersKept, MappedSame DEF Exchange
<1>6. StatusBar' = [StatusBar EXCEPT ![c] = "error"]
  BY <1>3, <1>5 DEF StatusBar
<1> QED
  BY <1>1, <1>3, <1>4, <1>6 DEF Configure!Fail, StatusBar

\* wg_set_device goes through the steps of WgConfigure only: no cut between
\* messages loses, repeats or reorders a part of the request, or shows it in
\* part as a success.
THEOREM Refinement == Spec => ImplementsConfigure
<1>1. MapInv /\ [Next]_vars => [Configure!Next]_(Configure!vars)
  <2> SUFFICES ASSUME MapInv, [Next]_vars
               PROVE  Configure!Next \/ UNCHANGED Configure!vars
    OBVIOUS
  <2>1. CASE UNCHANGED vars
    <3>1. \A d \in Callers : Status(d)' = Status(d) /\ Reached(d)' = Reached(d)
      BY <2>1 DEF vars, callerVars, kernelVars, Status, Reached, Peers, IpsOf
    <3> QED
      BY <2>1, <3>1, Stutter DEF vars, callerVars, kernelVars
  <2>2. ASSUME NEW c \in Callers, Step(c)
        PROVE  Configure!Next \/ UNCHANGED Configure!vars
    BY <2>2, BuildStutters, SendMaps, KernelPeerMaps, AckMaps, FailMaps
       DEF Step, Exchange, Configure!Next
  <2> QED
    BY <2>1, <2>2 DEF Next, Step
<1> QED
  BY InitMaps, MapInvariance, <1>1, PTL DEF Spec, ImplementsConfigure, Configure!Spec

-----------------------------------------------------------------------------
(***************************************************************************)
(* What an undisturbed call leaves: the nests of its messages together     *)
(* make of the table what the request in one message would have made.      *)
(***************************************************************************)

\* A nest that continues a peer adds its allowed IPs to those of the first
Started(table, c, k, remove, replace, ips) ==
  SetPeer(table, c, k, remove, replace, TRUE, ips)

Continued(table, c, k, remove, ips) ==
  SetPeer(table, c, k, remove, FALSE, FALSE, ips)

LEMMA SetPeerJoins ==
  ASSUME NEW table, NEW c \in Callers, NEW k \in Keys, NEW remove \in BOOLEAN,
         NEW replace \in BOOLEAN, NEW A, NEW B,
         Started(table, c, k, remove, replace, A) \in Configs
  PROVE  Continued(Started(table, c, k, remove, replace, A), c, k, remove, B)
           = Started(table, c, k, remove, replace, A \cup B)
<1> USE DEF Started, Continued
<1>1. CASE remove
  <2>1. RemovePeer(RemovePeer(table, k), k) = RemovePeer(table, k)
    BY DEF RemovePeer
  <2> QED
    BY <1>1, <2>1 DEF SetPeer
<1>2. CASE ~remove
  <2> DEFINE first == SetPeer(table, c, k, FALSE, replace, TRUE, A)
  <2>1. /\ first.by = [table.by EXCEPT ![k] = c]
        /\ first.owner = [i \in Ips |-> IF i \in A THEN k
                                        ELSE IF replace /\ table.owner[i] = k THEN NoPeer
                                        ELSE table.owner[i]]
    BY DEF SetPeer
  <2>D. k \in DOMAIN table.by
    <3>1. DOMAIN first.by = Keys
      BY <1>2 DEF Configs
    <3> QED
      BY <2>1, <3>1
  <2> HIDE DEF first
  <2>2. [first.by EXCEPT ![k] = IF FALSE THEN c ELSE IF @ = "absent" THEN "bare" ELSE @]
          = [table.by EXCEPT ![k] = c]
    BY <2>1, <2>D, HistoryAssumption
  <2>3. [i \in Ips |-> IF i \in B THEN k
                       ELSE IF FALSE /\ first.owner[i] = k THEN NoPeer
                       ELSE first.owner[i]]
          = [i \in Ips |-> IF i \in A \cup B THEN k
                           ELSE IF replace /\ table.owner[i] = k THEN NoPeer
                           ELSE table.owner[i]]
    BY <2>1
  <2>4. SetPeer(first, c, k, FALSE, FALSE, FALSE, B)
          = SetPeer(table, c, k, FALSE, replace, TRUE, A \cup B)
    BY <2>2, <2>3 DEF SetPeer
  <2> QED
    BY <1>2, <2>4 DEF first
<1> QED
  BY <1>1, <1>2

-----------------------------------------------------------------------------
\* AfterPeers is a recursive function: that there is one is proved by taking
\* the least length for which there would be none.
Tables(r, c, table, n, f) ==
  f = [m \in 0 .. n |->
         IF m = 0 THEN IF r.replace_peers THEN EmptyConfig ELSE table
         ELSE LET p == r.peers[m]
              IN  SetPeer(f[m - 1], c, p.key, p.remove, p.replace, TRUE,
                          FirstIps(p, Len(p.ips)))]

Less == {s \in Nat \X Nat : s[1] < s[2]}

LEMMA LeastNatural ==
  ASSUME NEW S \in SUBSET Nat, S # {}
  PROVE  \E x \in S : \A y \in S : x <= y
<1>1. IsWellFoundedOn(Less, Nat)
  BY NatLessThanWellFounded DEF OpToRel, Less
<1>2. PICK x \in S : \A y \in S : ~(<<y, x>> \in Less)
  BY <1>1, WFMin
<1>3. \A y \in S : <<y, x>> \in Nat \X Nat
  OBVIOUS
<1>4. \A y \in S : ~(y < x)
  BY <1>2, <1>3 DEF Less
<1>5. \A y \in S : x \in Nat /\ y \in Nat
  OBVIOUS
<1> QED
  BY <1>4, <1>5

TableAt(r, c, table, m, t) ==
  IF m = 0 THEN IF r.replace_peers THEN EmptyConfig ELSE table
  ELSE LET p == r.peers[m]
       IN  SetPeer(t, c, p.key, p.remove, p.replace, TRUE, FirstIps(p, Len(p.ips)))

LEMMA TablesExist ==
  ASSUME NEW r, NEW c, NEW table, NEW n \in Nat
  PROVE  \E f : Tables(r, c, table, n, f)
<1> DEFINE S == {m \in Nat : ~ \E f : Tables(r, c, table, m, f)}
<1>1. SUFFICES ASSUME S # {} PROVE FALSE
  OBVIOUS
<1>2. PICK m \in S : \A y \in S : m <= y
  BY <1>1, LeastNatural
<1>3. m # 0
  <2> DEFINE f == [i \in 0 .. 0 |-> TableAt(r, c, table, 0, table)]
  <2>1. Tables(r, c, table, 0, f)
    BY DEF Tables, TableAt
  <2> QED
    BY <1>2, <2>1
<1>4. m - 1 \in Nat /\ m - 1 \notin S
  BY <1>2, <1>3
<1>5. PICK f : Tables(r, c, table, m - 1, f)
  BY <1>4
<1> DEFINE g == [i \in 0 .. m |-> IF i = m THEN TableAt(r, c, table, m, f[m - 1]) ELSE f[i]]
<1>6. \A i \in 0 .. m - 1 : g[i] = f[i]
  BY <1>4
<1>7. ASSUME NEW i \in 0 .. m
      PROVE  g[i] = TableAt(r, c, table, i, g[i - 1])
  <2>1. CASE i = m
    <3>1. g[m] = TableAt(r, c, table, m, f[m - 1]) /\ g[m - 1] = f[m - 1]
      BY <1>4, <1>6
    <3> HIDE DEF g
    <3> QED
      BY <1>3, <2>1, <3>1
  <2>2. CASE i # m
    <3>1. i \in 0 .. m - 1 /\ (i # 0 => i - 1 \in 0 .. m - 1)
      BY <1>4, <2>2
    <3>2. f[i] = TableAt(r, c, table, i, f[i - 1])
      BY <1>5, <3>1, Zenon DEF Tables, TableAt
    <3>3. g[i] = f[i] /\ (i # 0 => g[i - 1] = f[i - 1])
      BY <1>6, <3>1
    <3> HIDE DEF g
    <3>4. CASE i = 0
      BY <3>2, <3>3, <3>4 DEF TableAt
    <3>5. CASE i # 0
      BY <3>2, <3>3, <3>5
    <3> QED
      BY <3>4, <3>5
  <2> QED
    BY <2>1, <2>2
<1>8. g = [i \in 0 .. m |-> g[i]]
  OBVIOUS
<1> HIDE DEF g
<1>9. Tables(r, c, table, m, g)
  BY <1>7, <1>8, Zenon DEF Tables, TableAt
<1> QED
  BY <1>2, <1>9

After(c) == AfterPeers(req[c], c, before[c])

LEMMA AfterPeersIs ==
  ASSUME TypeOK, NEW c \in Callers, NEW start
  PROVE  \A n \in 0 .. Len(Peers(c)) :
           AfterPeers(req[c], c, start)[n]
             = TableAt(req[c], c, start, n, AfterPeers(req[c], c, start)[n - 1])
<1> DEFINE len == Len(req[c].peers)
           after == CHOOSE f : Tables(req[c], c, start, len, f)
<1>1. len \in Nat
  BY RequestTypes DEF Peers
<1>2. Tables(req[c], c, start, len, after)
  BY <1>1, TablesExist, Zenon
<1>3. AfterPeers(req[c], c, start) = after
  BY DEF AfterPeers, Tables
<1> HIDE DEF after
<1>4. \A n \in 0 .. len : after[n] = TableAt(req[c], c, start, n, after[n - 1])
  BY <1>2, Zenon DEF Tables, TableAt
<1> QED
  BY <1>3, <1>4 DEF Peers

LEMMA AfterIs ==
  ASSUME TypeOK, NEW c \in Callers, NEW n \in 1 .. Len(Peers(c))
  PROVE  LET p == Peers(c)[n]
         IN  After(c)[n] = Started(After(c)[n - 1], c, p.key, p.remove, p.replace,
                                   FirstIps(p, Len(p.ips)))
<1>1. n \in 0 .. Len(Peers(c)) /\ n # 0
  BY RequestTypes
<1>2. After(c)[n] = TableAt(req[c], c, before[c], n, After(c)[n - 1])
  BY <1>1, AfterPeersIs DEF After
<1> QED
  BY <1>1, <1>2, Zenon DEF TableAt, Peers, Started

\* What the nests processed so far, with one more, make of the table
LEMMA ExactAdvances ==
  ASSUME IndInv, NEW c \in Callers, Exact(c), KernelPeer(c), before'[c] = before[c]
  PROVE  Exact(c)'
<1> DEFINE k    == applied[c]
           n    == k + 1
           nest == stream[c][n]
           p    == Peers(c)[nest.peer]
           To(m) == SetPeer(After(c)[nest.peer - 1], c, p.key, p.remove, p.replace, TRUE,
                            FirstIps(p, m))
<1> USE DEF IndInv
<1>1. /\ lock = c /\ n <= mark[c] /\ applied' = [applied EXCEPT ![c] = n]
      /\ conf' = SetPeer(conf, c, p.key, nest.remove, nest.replace, nest.full,
                         ListedIps(c, n))
      /\ UNCHANGED <<callerVars, lock>>
  BY DEF KernelPeer
<1>2. /\ n \in 1 .. Len(stream[c]) /\ nest \in Nest /\ NestInRequest(c, nest)
      /\ k \in Nat
  <2>1. k \in Nat /\ n \in 1 .. Len(stream[c]) /\ stream[c] \in Seq(Nest)
    BY <1>1 DEF TypeOK, SentSoFar
  <2> QED
    BY <2>1 DEF InOrder
<1>3. /\ nest.peer \in 1 .. Len(Peers(c)) /\ nest.from \in 1 .. nest.to
      /\ nest.remove = p.remove
      /\ nest.replace = (nest.full /\ p.replace)
      /\ nest.to \in Nat /\ nest.from \in Nat /\ nest.full \in BOOLEAN
  BY <1>2 DEF NestInRequest, Nest
<1>4. p.key \in Keys /\ p.remove \in BOOLEAN /\ p.replace \in BOOLEAN
  BY <1>3, RequestTypes DEF PeerReq
<1>5. ListedIps(c, n) = {p.ips[j] : j \in nest.from .. nest.to - 1}
  BY DEF ListedIps, IpsOf, Peers
<1>6. /\ req' = req /\ stream' = stream /\ applied'[c] = n /\ n # 0
      /\ Peers(c)' = Peers(c) /\ After(c)' = After(c)
  BY <1>1, <1>2 DEF callerVars, TypeOK, Peers, After
<1>7. SUFFICES conf' = To(nest.to - 1)
  BY <1>6 DEF Exact, After
<1>9. CASE nest.full /\ conf = After(c)[nest.peer - 1] /\ nest.from = 1
  <2>1. ListedIps(c, n) = FirstIps(p, nest.to - 1)
    BY <1>5, <1>9 DEF FirstIps
  <2>2. nest.full = TRUE /\ nest.replace = p.replace
    BY <1>3, <1>4, <1>9
  <2> QED
    BY <1>1, <1>3, <1>9, <2>1, <2>2
<1>10. CASE k = 0
  <2>1. nest.peer = 1 /\ nest.full /\ nest.from = 1
    BY <1>2, <1>10 DEF InOrder, StreamStarts
  <2>2. conf = After(c)[0]
    BY <1>10 DEF Exact, After
  <2> QED
    BY <1>9, <2>1, <2>2
<1>11. CASE k # 0
  <2> DEFINE prev == stream[c][k]
             q    == Peers(c)[prev.peer]
  <2>K. Len(stream[c]) \in Nat /\ stream[c] \in Seq(Nest)
    BY DEF TypeOK
  <2>I. k \in 1 .. Len(stream[c]) - 1 /\ k \in 1 .. Len(stream[c])
    BY <1>2, <1>11, <2>K
  <2>1. prev \in Nest /\ NestInRequest(c, prev) /\ Follows(c, prev, nest)
    BY <2>K, <2>I DEF InOrder
  <2>2. conf = SetPeer(After(c)[prev.peer - 1], c, q.key, q.remove, q.replace, TRUE,
                       FirstIps(q, prev.to - 1))
    BY <1>11 DEF Exact, After
  <2>3. /\ prev.peer \in 1 .. Len(Peers(c)) /\ prev.to \in Nat \ {0}
        /\ prev.to <= Len(IpsOf(c, prev.peer)) + 1
        /\ Len(IpsOf(c, prev.peer)) \in Nat
    BY <2>1, RequestTypes DEF NestInRequest, Nest
  <2>4. CASE prev.to <= Len(IpsOf(c, prev.peer))
    <3>1. nest.peer = prev.peer /\ ~nest.full /\ nest.from = prev.to /\ q = p
      BY <2>1, <2>4 DEF Follows
    <3>2. conf = To(prev.to - 1)
      BY <2>2, <3>1
    <3>3. FirstIps(p, nest.to - 1) = FirstIps(p, prev.to - 1) \cup ListedIps(c, n)
      <4> HIDE DEF p, nest, prev, IndInv
      <4>1. 1 .. nest.to - 1 = (1 .. prev.to - 1) \cup (nest.from .. nest.to - 1)
        BY <1>3, <2>3, <3>1
      <4> QED
        BY <1>5, <4>1 DEF FirstIps
    <3>4. conf' = SetPeer(conf, c, p.key, p.remove, FALSE, FALSE, ListedIps(c, n))
      BY <1>1, <1>3, <3>1
    <3>6. To(prev.to - 1) \in Configs
      BY <3>2 DEF TypeOK
    <3>7. SetPeer(To(prev.to - 1), c, p.key, p.remove, FALSE, FALSE, ListedIps(c, n))
            = SetPeer(After(c)[nest.peer - 1], c, p.key, p.remove, p.replace, TRUE,
                      FirstIps(p, prev.to - 1) \cup ListedIps(c, n))
      <4> DEFINE table   == After(c)[nest.peer - 1]
                 key     == p.key
                 remove  == p.remove
                 replace == p.replace
                 A       == FirstIps(p, prev.to - 1)
                 B       == ListedIps(c, n)
      <4>1. /\ key \in Keys /\ remove \in BOOLEAN /\ replace \in BOOLEAN
            /\ Started(table, c, key, remove, replace, A) \in Configs
        BY <1>4, <3>6 DEF Started
      <4> HIDE DEF table, key, remove, replace, A, B
      <4>2. Continued(Started(table, c, key, remove, replace, A), c, key, remove, B)
              = Started(table, c, key, remove, replace, A \cup B)
        BY <4>1, SetPeerJoins
      <4> QED
        BY <4>2 DEF Started, Continued, table, key, remove, replace, A, B
    <3> HIDE DEF p, nest, prev, IndInv
    <3> QED
      BY <3>2, <3>3, <3>4, <3>7
  <2>5. CASE ~(prev.to <= Len(IpsOf(c, prev.peer)))
    <3>1. nest.peer = prev.peer + 1 /\ nest.full /\ nest.from = 1
      BY <2>1, <2>5 DEF Follows
    <3>2. prev.to - 1 = Len(q.ips)
      <4>1. IpsOf(c, prev.peer) = q.ips
        BY DEF IpsOf
      <4> HIDE DEF q, prev
      <4> QED
        BY <2>3, <2>5, <4>1
    <3>3. conf = After(c)[prev.peer]
      <4>1. prev.peer \in 1 .. Len(Peers(c)) /\ TypeOK
        BY <2>3
      <4>2. After(c)[prev.peer]
              = SetPeer(After(c)[prev.peer - 1], c, q.key, q.remove, q.replace, TRUE,
                        FirstIps(q, Len(q.ips)))
        <5> HIDE DEF prev, q, IndInv
        <5> QED
          BY <4>1, AfterIs DEF q, Started
      <4> QED
        BY <2>2, <3>2, <4>2
    <3>4. conf = After(c)[nest.peer - 1]
      BY <2>3, <3>1, <3>3
    <3> QED
      BY <1>9, <3>1, <3>4
  <2> QED
    BY <2>4, <2>5
<1> QED
  BY <1>10, <1>11

LEMMA ExactKept ==
  ASSUME NEW c \in Callers, Exact(c), req' = req, conf' = conf,
         before'[c] = before[c], applied'[c] = applied[c],
         applied[c] # 0 => /\ stream'[c][applied[c]].peer = stream[c][applied[c]].peer
                           /\ stream'[c][applied[c]].to = stream[c][applied[c]].to
  PROVE  Exact(c)'
BY DEF Exact, Peers

LEMMA OnlySendEnters ==
  ASSUME MapInv, NEW c \in Callers, Step(c), NEW d \in Callers
  PROVE  Enters(d) <=> d = c /\ Send(c)
<1>1. Enters(d) => d = c
  BY SetAssumption, OthersKept DEF Enters, MapInv, Step, SameFor
<1>2. lock' = c /\ lock = None => Send(c)
  BY SetAssumption DEF Step, Call, Build, Exchange, Prepare, PutPeer, PeersTooBig, PutIp,
     IpsTooBig, SendFails, KernelPeer, RecvFails, Ack, kernelVars
<1>3. Send(c) => lock' = c /\ lock = None
  BY DEF Send
<1> QED
  BY <1>1, <1>2, <1>3 DEF Enters

HistoryUpdate ==
  /\ before' = [c \in Callers |->
                  IF Enters(c) /\ before[c] = None THEN conf ELSE before[c]]
  /\ mixed' = mixed \cup {d \in Callers : InFlight(d)
                                          /\ \E c \in Callers \ {d} : Enters(c)}

LEMMA UpdateIs ==
  ASSUME MapInv, NEW c \in Callers, Step(c), HistoryUpdate
  PROVE  /\ \A d \in Callers : d # c \/ ~Send(c) => before'[d] = before[d]
         /\ Send(c) => before'[c] = IF before[c] = None THEN conf ELSE before[c]
         /\ mixed \subseteq mixed'
         /\ Send(c) => \A d \in Callers \ {c} : InFlight(d) => d \in mixed'
BY OnlySendEnters DEF HistoryUpdate

LEMMA OthersHistory ==
  ASSUME MapInv, HistoryInv, NEW c \in Callers, Step(c), HistoryUpdate,
         NEW d \in Callers, d # c
  PROVE  HistoryOf(d)'
<1>1. HistoryOf(d)
  BY DEF HistoryInv
<1>2. SameFor(d)
  BY OthersKept DEF MapInv, Step
<1>3. before'[d] = before[d] /\ mixed \subseteq mixed'
  BY UpdateIs
<1>4. ASSUME InFlight(d)', d \notin mixed'
      PROVE  lock' \in {None, d} /\ Exact(d)'
  <2>1. InFlight(d) /\ d \notin mixed
    BY <1>2, <1>3, <1>4 DEF InFlight, SameFor
  <2>2. ~Send(c)
    BY <1>4, <2>1, UpdateIs
  <2>3. lock \in {None, d} /\ Exact(d)
    BY <1>1, <2>1 DEF HistoryOf
  <2>4. lock # c
    BY <2>3, SetAssumption
  <2>5. lock' = lock /\ conf' = conf /\ req' = req
    BY <2>2, <2>4 DEF Step, Call, Build, Exchange, Prepare, PutPeer, PeersTooBig, PutIp,
       IpsTooBig, SendFails, KernelPeer, RecvFails, Ack, kernelVars
  <2>6. Exact(d)'
    BY <1>2, <1>3, <2>3, <2>5, ExactKept DEF SameFor
  <2> QED
    BY <2>3, <2>5, <2>6
<1> QED
  BY <1>1, <1>2, <1>3, <1>4 DEF HistoryOf, SameFor

\* A caller's own step, when it is not the one that hands a message over
LEMMA OwnHistory ==
  ASSUME MapInv, HistoryInv, NEW c \in Callers, Step(c), HistoryUpdate, ~Send(c), MapInv'
  PROVE  HistoryOf(c)'
<1> USE DEF MapInv, IndInv
<1>1. HistoryOf(c)
  BY DEF HistoryInv
<1>2. before'[c] = before[c] /\ mixed \subseteq mixed'
  BY UpdateIs
<1>3. pc[c] # "out"
  BY DEF Step, Call, Build, Exchange, Prepare, PutPeer, PeersTooBig, PutIp, IpsTooBig,
         SendFails, KernelPeer, RecvFails, Ack, SentSoFar
<1>4. CASE Call(c)
  <2>1. /\ pc[c] = "idle" /\ pc'[c] = "again" /\ mark' = mark /\ lock' = lock
    BY <1>4 DEF Call, kernelVars, TypeOK
  <2>2. before[c] = None
    BY <1>1, <2>1 DEF HistoryOf
  <2>3. ~InFlight(c)' /\ before'[c] = None
    BY <1>2, <2>2 DEF InFlight
  <2>4. mark[c] = 0 /\ lock # c
    BY <1>1, <2>2 DEF HistoryOf
  <2> HIDE DEF MapInv, IndInv
  <2> QED
    BY <2>1, <2>3, <2>4 DEF HistoryOf
<1>5. CASE Build(c)
  <2>1. /\ pc[c] \in {"again", "peers", "ips"} /\ mark' = mark /\ lock' = lock
        /\ conf' = conf /\ req' = req /\ applied' = applied
    BY <1>5 DEF Build, Prepare, PutPeer, PeersTooBig, PutIp, IpsTooBig, kernelVars
  <2>2. pc'[c] # "idle"
    <3>1. NextPeer(c) => pc'[c] # "idle"
      BY DEF NextPeer, TypeOK
    <3>2. CASE Prepare(c)
      BY <3>2 DEF Prepare, TypeOK
    <3>3. CASE PutPeer(c)
      BY <3>1, <3>3 DEF PutPeer, TypeOK
    <3>4. CASE PutIp(c)
      BY <2>1, <3>1, <3>4 DEF PutIp
    <3>5. CASE PeersTooBig(c) \/ IpsTooBig(c)
      BY <3>5 DEF PeersTooBig, IpsTooBig, TypeOK
    <3> QED
      BY <1>5, <3>2, <3>3, <3>4, <3>5 DEF Build
  <2>3. Exact(c) => Exact(c)'
    BY <1>2, <1>5, <2>1, AppliedNestsKept, ExactKept
  <2> QED
    BY <1>1, <1>2, <1>3, <2>1, <2>2, <2>3 DEF HistoryOf, InFlight
<1>6. CASE SendFails(c) \/ RecvFails(c)
  <2>1. pc'[c] = "out" /\ mark' = mark /\ (lock' = lock \/ lock' = None)
    BY <1>6 DEF SendFails, RecvFails, kernelVars, TypeOK
  <2>2. lock' = c => lock = c
    BY <2>1, SetAssumption
  <2> QED
    BY <1>1, <1>2, <2>1, <2>2 DEF HistoryOf, InFlight
<1>7. CASE KernelPeer(c)
  <2>1. lock = c /\ lock' = lock /\ pc' = pc /\ mark' = mark
    BY <1>7 DEF KernelPeer, callerVars
  <2>2. pc[c] = "kernel"
    BY <2>1 DEF SentSoFar
  <2>3. Exact(c) => Exact(c)'
    BY <1>2, <1>7, ExactAdvances
  <2> QED
    BY <1>1, <1>2, <2>1, <2>2, <2>3 DEF HistoryOf, InFlight
<1>8. CASE Ack(c)
  <2>1. /\ lock = c /\ lock' = None /\ mark' = mark
        /\ conf' = conf /\ req' = req /\ applied' = applied /\ stream' = stream
        /\ peer' = peer
        /\ \/ peer[c] # 0 /\ pc' = [pc EXCEPT ![c] = "again"]
           \/ pc' = [pc EXCEPT ![c] = "out"]
    BY <1>8, Zenon DEF Ack
  <2>2. pc'[c] = "out" \/ (pc'[c] = "again" /\ peer'[c] # 0)
    BY <2>1 DEF TypeOK
  <2>3. pc'[c] = "again" => mark'[c] # 0
    BY <2>2 DEF MessageInv, HeaderOnce
  <2>4. Exact(c) => Exact(c)'
    BY <1>2, <2>1, ExactKept
  <2>5. lock' # c
    BY <2>1, SetAssumption
  <2> QED
    BY <1>1, <1>2, <1>3, <2>1, <2>2, <2>3, <2>4, <2>5 DEF HistoryOf, InFlight
<1> QED
  BY <1>4, <1>5, <1>6, <1>7, <1>8 DEF Step, Exchange

\* The first message of a call begins with the table it finds, or an empty one
LEMMA SendHistory ==
  ASSUME MapInv, HistoryInv, NEW c \in Callers, Send(c), HistoryUpdate
  PROVE  HistoryOf(c)'
<1> USE DEF MapInv, IndInv
<1>1. HistoryOf(c)
  BY DEF HistoryInv
<1>2. /\ pc[c] = "send" /\ pc'[c] = "kernel" /\ lock = None /\ lock' = c
      /\ req' = req /\ stream' = stream /\ applied' = applied
      /\ conf' = IF header[c] /\ req[c].replace_peers THEN EmptyConfig ELSE conf
  BY DEF Send, TypeOK
<1>3. /\ before'[c] = IF before[c] = None THEN conf ELSE before[c]
      /\ mixed \subseteq mixed'
  BY UpdateIs DEF Step, Exchange
<1>4. header[c] <=> mark[c] = 0
  BY <1>2 DEF MessageInv, HeaderOnce
<1>5. conf # None /\ before'[c] # None
  BY <1>3, HistoryAssumption DEF TypeOK
<1>6. CASE before[c] = None
  <2>1. header[c] /\ applied[c] = 0
    BY <1>1, <1>4, <1>6 DEF HistoryOf, SentSoFar, TypeOK
  <2>3. After(c)'[0] = IF req'[c].replace_peers THEN EmptyConfig ELSE before'[c]
    <3>1. 0 \in 0 .. Len(Peers(c))
      BY RequestTypes
    <3> QED
      BY <1>2, <3>1, AfterPeersIs DEF After, TableAt
  <2>4. conf' = After(c)'[0]
    BY <1>2, <1>3, <1>6, <2>1, <2>3
  <2>5. Exact(c)'
    BY <1>2, <2>1, <2>4 DEF Exact, After
  <2> QED
    BY <1>2, <1>5, <2>5 DEF HistoryOf
<1>7. CASE before[c] # None
  <2>1. mark[c] # 0
    BY <1>1, <1>2, <1>7 DEF HistoryOf
  <2>2. conf' = conf /\ before'[c] = before[c]
    BY <1>2, <1>3, <1>4, <1>7, <2>1
  <2>3. Exact(c) => Exact(c)'
    BY <1>2, <2>2, ExactKept
  <2>4. InFlight(c)
    BY <1>2, <1>7 DEF InFlight
  <2> QED
    BY <1>1, <1>2, <1>3, <1>5, <2>3, <2>4 DEF HistoryOf
<1> QED
  BY <1>6, <1>7

LEMMA BareStep ==
  ASSUME MapInv, HistoryInv, NEW c \in Callers, Step(c), HistoryUpdate
  PROVE  BareOnlyIfMixed'
<1> USE DEF MapInv, IndInv
<1> SUFFICES ASSUME mixed' = {}, NEW j \in Keys
             PROVE  conf'.by[j] # "bare"
  BY DEF BareOnlyIfMixed
<1>1. mixed = {}
  BY UpdateIs
<1>2. conf \in Configs /\ \A k \in Keys : conf.by[k] # "bare"
  BY <1>1 DEF HistoryInv, BareOnlyIfMixed, TypeOK
<1>3. CASE KernelPeer(c)
  <2> DEFINE k    == applied[c]
             n    == k + 1
             nest == stream[c][n]
             p    == Peers(c)[nest.peer]
  <2>1. /\ lock = c /\ n <= mark[c]
        /\ conf' = SetPeer(conf, c, p.key, nest.remove, nest.replace, nest.full,
                           ListedIps(c, n))
    BY <1>3 DEF KernelPeer
  <2>2. /\ n \in 1 .. Len(stream[c]) /\ nest \in Nest /\ NestInRequest(c, nest)
        /\ k \in Nat /\ Len(stream[c]) \in Nat /\ stream[c] \in Seq(Nest)
    BY <2>1 DEF TypeOK, SentSoFar, InOrder
  <2>3. c # "bare" /\ c # "absent"
    BY HistoryAssumption
  <2>4. CASE nest.remove
    <3>1. conf'.by = [conf.by EXCEPT ![p.key] = "absent"]
      BY <2>1, <2>4 DEF SetPeer, RemovePeer
    <3> QED
      BY <1>2, <3>1 DEF Configs
  <2>5. CASE ~nest.remove /\ nest.full
    <3>1. conf'.by = [conf.by EXCEPT ![p.key] = c]
      BY <2>1, <2>5 DEF SetPeer
    <3> QED
      BY <1>2, <2>3, <3>1 DEF Configs
  <2>6. CASE ~nest.remove /\ ~nest.full
    <3> DEFINE prev == stream[c][k]
               q    == Peers(c)[prev.peer]
    <3>1. k # 0
      BY <2>2, <2>6 DEF InOrder, StreamStarts
    <3>2. k \in 1 .. Len(stream[c]) - 1
      BY <2>2, <3>1
    <3>3. Follows(c, prev, nest)
      BY <2>2, <3>2 DEF InOrder
    <3>4. nest.peer = prev.peer /\ q = p
      BY <2>6, <3>3 DEF Follows
    <3>5. HistoryOf(c) /\ pc[c] # "out"
      BY <2>1 DEF HistoryInv, SentSoFar
    <3>6. Exact(c)
      BY <1>1, <2>1, <3>5 DEF HistoryOf, InFlight
    <3>7. conf = Started(After(c)[prev.peer - 1], c, p.key, p.remove, p.replace,
                         FirstIps(p, prev.to - 1))
      BY <3>1, <3>4, <3>6 DEF Exact, After, Started
    <3>8. ~p.remove /\ p.key \in Keys
      BY <2>2, <2>6, RequestTypes DEF NestInRequest, PeerReq
    <3>9. conf.by = [After(c)[prev.peer - 1].by EXCEPT ![p.key] = c]
      BY <3>7, <3>8 DEF Started, SetPeer
    <3>10. conf.by[p.key] = c
      BY <1>2, <3>8, <3>9 DEF Configs
    <3>11. conf'.by = [conf.by EXCEPT ![p.key] = IF @ = "absent" THEN "bare" ELSE @]
      BY <2>1, <2>6 DEF SetPeer
    <3> QED
      BY <1>2, <2>3, <3>10, <3>11 DEF Configs
  <2> QED
    BY <2>4, <2>5, <2>6
<1>4. CASE ~KernelPeer(c)
  <2>1. conf' \in {conf, EmptyConfig}
    BY <1>4 DEF Step, Call, Build, Exchange, Prepare, PutPeer, PeersTooBig, PutIp,
                IpsTooBig, SendFails, Send, RecvFails, Ack, kernelVars
  <2> QED
    BY <1>2, <2>1 DEF EmptyConfig
<1> QED
  BY <1>3, <1>4

LEMMA InitHistory == HistoryInit => MapInv /\ HistoryInv
<1> SUFFICES ASSUME HistoryInit PROVE MapInv /\ HistoryInv
  OBVIOUS
<1>1. MapInv
  BY InitMapInv DEF HistoryInit
<1>2. ASSUME NEW c \in Callers PROVE HistoryOf(c)
  BY SetAssumption DEF HistoryInit, Init, HistoryOf, InFlight
<1>3. BareOnlyIfMixed
  BY DEF HistoryInit, Init, BareOnlyIfMixed, EmptyConfig
<1> QED
  BY <1>1, <1>2, <1>3 DEF HistoryInv, HistoryInit

LEMMA HistoryStep ==
  MapInv /\ HistoryInv /\ [HistoryNext]_historyVars => (MapInv /\ HistoryInv)'
<1> SUFFICES ASSUME MapInv, HistoryInv, [HistoryNext]_historyVars
             PROVE  (MapInv /\ HistoryInv)'
  OBVIOUS
<1>1. [Next]_vars
  BY DEF HistoryNext, historyVars
<1>2. MapInv'
  BY <1>1, MapInvStep
<1>3. CASE UNCHANGED historyVars
  <2>1. ASSUME NEW c \in Callers PROVE HistoryOf(c)'
    <3>1. HistoryOf(c)
      BY DEF HistoryInv
    <3>2. Exact(c) => Exact(c)'
      BY <1>3, ExactKept DEF historyVars, vars, callerVars, kernelVars
    <3> QED
      BY <1>3, <3>1, <3>2 DEF HistoryOf, InFlight, historyVars, vars, callerVars, kernelVars
  <2> QED
    BY <1>2, <1>3, <2>1
       DEF HistoryInv, BareOnlyIfMixed, historyVars, vars, callerVars, kernelVars
<1>4. ASSUME NEW c \in Callers, Step(c), HistoryUpdate
      PROVE  HistoryInv'
  <2>1. before' \in [Callers -> Configs \cup {None}] /\ mixed' \subseteq Callers
    BY <1>4 DEF HistoryUpdate, HistoryInv, MapInv, IndInv, TypeOK
  <2>2. HistoryOf(c)'
    BY <1>2, <1>4, OwnHistory, SendHistory
  <2>3. \A d \in Callers : d # c => HistoryOf(d)'
    BY <1>4, OthersHistory
  <2>4. BareOnlyIfMixed'
    BY <1>4, BareStep
  <2> QED
    BY <2>1, <2>2, <2>3, <2>4 DEF HistoryInv
<1> QED
  BY <1>2, <1>3, <1>4 DEF HistoryNext, Next, Step, HistoryUpdate

LEMMA HistoryInvariance == HistorySpec => [](MapInv /\ HistoryInv)
BY InitHistory, HistoryStep, PTL DEF HistorySpec

\* A peer is left without its own attributes only where another call's message
\* came between two of one call: the continuation of a peer in wg_set_device
\* does not repeat them.
THEOREM BareOnlyByMixing == HistorySpec => []BareOnlyIfMixed
<1>1. HistoryInv => BareOnlyIfMixed
  BY DEF HistoryInv
<1> QED
  BY <1>1, HistoryInvariance, PTL

\* A call of wg_set_device that returns 0 and that no other came between has
\* made of the table what its request in one message would have made of it,
\* wherever toobig_peers and toobig_allowedips cut the messages.
THEOREM UndisturbedIsExact == HistorySpec => SuccessExact
<1>1. ASSUME MapInv, HistoryInv, [HistoryNext]_historyVars, NEW c \in Callers,
             ret[c] = "none", ret'[c] = "ok", c \notin mixed
      PROVE  conf' = Whole(c, before[c])
  <2> USE DEF MapInv, IndInv
  <2>1. Ack(c)
    <3>1. PICK d \in Callers : Step(d)
      BY <1>1 DEF HistoryNext, historyVars, vars, callerVars, Next, Step
    <3>2. d = c
      BY <1>1, <3>1, OthersKept DEF Step, SameFor
    <3> QED
      BY <1>1, <3>1, <3>2 DEF Step, Build, Exchange, Call, Prepare, PutPeer, PeersTooBig,
         PutIp, IpsTooBig, SendFails, Send, KernelPeer, RecvFails, Ack, TypeOK, callerVars
  <2>2. lock = c /\ conf' = conf /\ req' = req /\ applied' = applied /\ stream' = stream
    BY <2>1, Zenon DEF Ack
  <2>3. HistoryOf(c) /\ pc[c] # "out"
    BY <1>1, <2>2 DEF HistoryInv, SentSoFar
  <2>4. Exact(c)
    BY <1>1, <2>2, <2>3 DEF HistoryOf, InFlight
  <2>5. applied[c] = Len(stream[c]) /\ Complete(c)
    <3> HIDE DEF IndInv
    <3>1. SuccessComplete'
      BY <1>1, <2>1, SuccessStep DEF Exchange
    <3>2. (applied[c] = Len(stream[c]) /\ Complete(c))'
      BY <1>1, <3>1 DEF SuccessComplete
    <3> QED
      BY <2>2, <3>2 DEF Complete, Peers, IpsOf
  <2>6. Whole(c, before[c]) = After(c)[Len(Peers(c))]
    BY DEF Whole, After
  <2>7. CASE Peers(c) = <<>>
    BY <2>2, <2>4, <2>5, <2>6, <2>7 DEF Complete, Exact, After
  <2>8. CASE Peers(c) # <<>>
    <3> DEFINE last == LastNest(c)
               p    == Peers(c)[last.peer]
    <3>1. /\ Len(stream[c]) # 0 /\ last.peer = Len(Peers(c))
          /\ last.to = Len(IpsOf(c, last.peer)) + 1
      BY <2>5, <2>8 DEF Complete, LastNest, TypeOK
    <3>2. last.peer \in 1 .. Len(Peers(c)) /\ Len(IpsOf(c, last.peer)) \in Nat
      BY <2>8, <3>1, RequestTypes
    <3>3. last.to - 1 = Len(p.ips)
      BY <3>1, <3>2 DEF IpsOf
    <3>4. conf = Started(After(c)[last.peer - 1], c, p.key, p.remove, p.replace,
                         FirstIps(p, last.to - 1))
      BY <2>4, <2>5, <3>1 DEF Exact, After, Started, LastNest
    <3>5. After(c)[last.peer] = Started(After(c)[last.peer - 1], c, p.key, p.remove,
                                        p.replace, FirstIps(p, Len(p.ips)))
      <4> HIDE DEF last, IndInv
      <4> QED
        BY <1>1, <3>2, AfterIs DEF IndInv
    <3> QED
      BY <2>2, <2>6, <3>1, <3>3, <3>4, <3>5
  <2> QED
    BY <2>7, <2>8
<1>2. MapInv /\ HistoryInv /\ [HistoryNext]_historyVars
      => [\A c \in Callers : ret[c] = "none" /\ ret'[c] = "ok" /\ c \notin mixed
                             => conf' = Whole(c, before[c])]_historyVars
  BY <1>1
<1> QED
  BY <1>2, HistoryInvariance, PTL DEF HistorySpec, SuccessExact
=============================================================================
