------------------------- MODULE WgGetDevice_proofs -------------------------
(***************************************************************************)
(* Proofs about WgGetDevice, for devices with any number of peers and      *)
(* allowed IPs, and any cuts, changes, signals and failed allocations.     *)
(*                                                                         *)
(* A position in a table t is a pair: <<p, 0>> stands before peer p, and   *)
(* <<p, i>> before the allowed IP i of peer p.                             *)
(***************************************************************************)
EXTENDS WgGetDevice, SequenceTheorems, TLAPS

Place == Nat \X Nat

Position(t, a) ==
  /\ a \in Place
  /\ \/ a = End(t)
     \/ a[1] \in 1 .. Len(t) /\ a[2] <= Len(t[a[1]].ips)

\* From x one piece of a peer leads to y: to the next peer, or further on.
Bounds(t, x, y) ==
  /\ x \in Place /\ y \in Place
  /\ x[1] \in 1 .. Len(t) /\ x[2] <= Len(t[x[1]].ips)
  /\ \/ y = <<x[1] + 1, 0>>
     \/ y[1] = x[1] /\ y[2] > x[2] /\ y[2] <= Len(t[x[1]].ips)

Lo(x)       == IF x[2] = 0 THEN 1 ELSE x[2]
Hi(t, x, y) == IF y[2] = 0 THEN Len(t[x[1]].ips) ELSE y[2] - 1

\* s is u from lo to hi, in full or with some elements left out.
Whole(s, u, lo, hi) ==
  Len(s) = hi - lo + 1 /\ \A i \in 1 .. Len(s) : s[i] = u[lo + i - 1]
Drawn(s, u, lo, hi) ==
  \E f \in [1 .. Len(s) -> lo .. hi] :
    /\ \A i \in 1 .. Len(s) : s[i] = u[f[i]]
    /\ \A i, j \in 1 .. Len(s) : i < j => f[i] < f[j]

Nest == [key : Keys, full : BOOLEAN, ips : Seq(Ips)]

\* A nest of the dump, and a peer of *device, as a piece of the table; sh says
\* that an allocation has failed.
Slice(t, nest, x, y) ==
  /\ Bounds(t, x, y)
  /\ nest \in Nest
  /\ nest.key = t[x[1]].key
  /\ nest.full <=> x[2] = 0
  /\ Whole(nest.ips, t[x[1]].ips, Lo(x), Hi(t, x, y))

Piece(t, sh, g, x, y) ==
  /\ Bounds(t, x, y)
  /\ g \in Peer
  /\ g.key = t[x[1]].key
  /\ g.full <=> x[2] = 0
  /\ Drawn(g.ips, t[x[1]].ips, Lo(x), Hi(t, x, y))
  /\ ~sh => /\ Whole(g.ips, t[x[1]].ips, Lo(x), Hi(t, x, y))
            /\ g.ips # <<>> => g.last

\* nests lead from a to b, and the list g from the first peer to b, by the
\* positions A.
Carries(t, nests, a, b) ==
  /\ nests \in Seq(Nest)
  /\ \E B \in [1 .. Len(nests) + 1 -> Place] :
       /\ B[1] = a /\ B[Len(nests) + 1] = b
       /\ \A n \in 1 .. Len(nests) : Slice(t, nests[n], B[n], B[n + 1])

Trail(t, sh, g, A, b) ==
  /\ A \in [1 .. Len(g) + 1 -> Place]
  /\ A[1] = <<1, 0>> /\ A[Len(g) + 1] = b
  /\ \A n \in 1 .. Len(g) : Piece(t, sh, g[n], A[n], A[n + 1])

LEMMA TableFacts ==
  ASSUME NEW t \in Tables
  PROVE  /\ Len(t) \in Nat /\ DOMAIN t = 1 .. Len(t)
         /\ \A p \in 1 .. Len(t) : /\ t[p].key \in Keys /\ t[p].ips \in Seq(Ips)
                                  /\ Len(t[p].ips) \in Nat
                                  /\ \A i \in 1 .. Len(t[p].ips) : t[p].ips[i] \in Ips
         /\ \A p, q \in 1 .. Len(t) : t[p].key = t[q].key => p = q
<1>1. /\ t \in Seq([key : Keys, ips : Seq(Ips)])
      /\ \A p, q \in DOMAIN t : t[p].key = t[q].key => p = q
  BY GetAssumption
<1>2. Len(t) \in Nat /\ DOMAIN t = 1 .. Len(t)
  BY <1>1, LenProperties
<1>3. \A p \in 1 .. Len(t) : t[p] \in [key : Keys, ips : Seq(Ips)]
  BY <1>1, ElementOfSeq
<1>4. \A p \in 1 .. Len(t) : t[p].key \in Keys /\ t[p].ips \in Seq(Ips)
  BY <1>3
<1>5. \A p \in 1 .. Len(t) : Len(t[p].ips) \in Nat /\ \A i \in 1 .. Len(t[p].ips) : t[p].ips[i] \in Ips
  BY <1>4, LenProperties, ElementOfSeq
<1> QED
  BY <1>1, <1>2, <1>4, <1>5

LEMMA LoHi ==
  ASSUME NEW t \in Tables, NEW x, NEW y, Bounds(t, x, y)
  PROVE  /\ Lo(x) \in Nat \ {0} /\ Hi(t, x, y) \in Nat
         /\ Lo(x) <= Hi(t, x, y) + 1 /\ Hi(t, x, y) <= Len(t[x[1]].ips)
         /\ x[2] # 0 => Lo(x) <= Hi(t, x, y)
BY TableFacts DEF Bounds, Lo, Hi, Place

\* What the kernel puts in a message leads from its start to its stop.
LEMMA NestsCarry ==
  ASSUME NEW t \in Tables, NEW a, NEW b, Position(t, a), b \in Stops(t, a)
  PROVE  Position(t, b) /\ Carries(t, Nests(t, a, b), a, b)
<1> DEFINE k == IF b[2] = 0 THEN b[1] - a[1] ELSE b[1] - a[1] + 1
           N == Nests(t, a, b)
           B == [n \in 1 .. k + 1 |->
                   IF n = 1 THEN a ELSE IF n = k + 1 THEN b ELSE <<a[1] + n - 1, 0>>]
<1>1. /\ Len(t) \in Nat
      /\ \A p \in 1 .. Len(t) : /\ t[p].key \in Keys /\ t[p].ips \in Seq(Ips)
                               /\ Len(t[p].ips) \in Nat
                               /\ \A i \in 1 .. Len(t[p].ips) : t[p].ips[i] \in Ips
  BY TableFacts
<1>2. /\ a \in Place /\ b \in Place /\ Position(t, b)
      /\ \/ a = End(t) /\ b = a
         \/ /\ a[1] \in 1 .. Len(t) /\ a[2] <= Len(t[a[1]].ips)
            /\ \/ b[1] \in a[1] + 1 .. Len(t) + 1 /\ b = <<b[1], 0>>
               \/ /\ b[1] \in a[1] .. Len(t) /\ b[2] \in Nat \ {0} /\ b[2] <= Len(t[b[1]].ips)
                  /\ b[1] = a[1] => b[2] > a[2]
  <2>1. a \in Place
    BY DEF Position
  <2>2. CASE a = End(t)
    BY <1>1, <2>2 DEF Stops, End, Position, Place
  <2>3. CASE a # End(t)
    <3>1. a[1] \in 1 .. Len(t) /\ a[2] <= Len(t[a[1]].ips)
      BY <2>3 DEF Position
    <3>2. CASE b \in {<<p, 0>> : p \in a[1] + 1 .. Len(t) + 1}
      <4>1. PICK p \in a[1] + 1 .. Len(t) + 1 : b = <<p, 0>>
        BY <3>2
      <4>2. b[1] = p /\ b \in Place
        BY <1>1, <2>1, <3>1, <4>1 DEF Place
      <4>3. Position(t, b)
        BY <1>1, <2>1, <3>1, <4>1, <4>2 DEF Position, End, Place
      <4> QED
        BY <2>1, <3>1, <4>1, <4>2, <4>3
    <3>3. CASE b \in {c \in (a[1] .. Len(t)) \X (1 .. MaxIps) :
                        /\ c[2] <= Len(t[c[1]].ips)
                        /\ c[1] = a[1] => c[2] > a[2] /\ c[2] > 1}
      BY <1>1, <2>1, <3>1, <3>3, GetAssumption DEF Position, Place
    <3> QED
      BY <2>3, <3>2, <3>3 DEF Stops
  <2> QED
    BY <2>2, <2>3
<1>3. k \in Nat
  BY <1>1, <1>2 DEF End, Place
<1>4. B \in [1 .. k + 1 -> Place] /\ B[1] = a /\ B[k + 1] = b
  <2>1. \A n \in 1 .. k + 1 : (IF n = 1 THEN a ELSE IF n = k + 1 THEN b ELSE <<a[1] + n - 1, 0>>) \in Place
    BY <1>2, <1>3 DEF Place
  <2>2. k = 0 => a = b
    BY <1>1, <1>2 DEF End, Place
  <2> QED
    BY <1>3, <2>1, <2>2
<1>5. ASSUME NEW n \in 1 .. k
      PROVE  Slice(t, N[n], B[n], B[n + 1])
  <2> DEFINE p  == a[1] + n - 1
             lo == IF n = 1 /\ a[2] > 0 THEN a[2] ELSE 1
             hi == IF p = b[1] THEN b[2] - 1 ELSE Len(t[p].ips)
             x  == IF n = 1 THEN a ELSE <<p, 0>>
             y  == IF n = k THEN b ELSE <<p + 1, 0>>
             full == n > 1 \/ a[2] = 0
  <2>0. /\ n \in Nat /\ 1 <= n /\ n <= k
        /\ N[n] = [key |-> t[p].key, full |-> full, ips |-> SubSeq(t[p].ips, lo, hi)]
    BY <1>3 DEF Nests
  <2> HIDE DEF k, N, full
  <2>1. a[1] \in Nat /\ a[2] \in Nat /\ b[1] \in Nat /\ b[2] \in Nat
    BY <1>2 DEF Place
  <2>2. B[n] = x /\ B[n + 1] = y
    <3>1. n \in 1 .. k + 1 /\ n + 1 \in 1 .. k + 1 /\ n + 1 # 1 /\ n # k + 1 /\ a[1] + (n + 1) - 1 = p + 1
      BY <1>3, <2>0, <2>1
    <3>2. n + 1 = k + 1 <=> n = k
      BY <1>3, <2>0
    <3> QED
      BY <3>1, <3>2
  <2>3. a[1] \in 1 .. Len(t) /\ a[2] <= Len(t[a[1]].ips)
    BY <1>1, <1>2, <2>0, <2>1 DEF End, k
  <2>4. /\ b[2] = 0 => b = <<b[1], 0>> /\ b[1] <= Len(t) + 1 /\ k = b[1] - a[1]
        /\ b[2] # 0 => /\ b[1] <= Len(t) /\ b[2] <= Len(t[b[1]].ips) /\ k = b[1] - a[1] + 1
                       /\ b[1] = a[1] => b[2] > a[2]
    <3>1. CASE a = End(t) /\ b = a
      BY <1>1, <2>1, <2>3, <3>1 DEF End, k
    <3>2. CASE b[1] \in a[1] + 1 .. Len(t) + 1 /\ b = <<b[1], 0>>
      BY <1>1, <2>1, <3>2 DEF k
    <3>3. CASE /\ b[1] \in a[1] .. Len(t) /\ b[2] \in Nat \ {0} /\ b[2] <= Len(t[b[1]].ips)
               /\ b[1] = a[1] => b[2] > a[2]
      BY <1>1, <2>1, <3>3 DEF k
    <3> QED
      BY <1>2, <3>1, <3>2, <3>3
  <2>5. p \in Nat /\ p = a[1] + n - 1
    BY <2>0, <2>1, <2>3
  <2> HIDE DEF B, p
  <2>6. p \in 1 .. Len(t) /\ (n = 1 => p = a[1]) /\ p >= a[1]
    <3>1. Len(t) \in Nat /\ a[1] >= 1
      BY <1>1, <2>3
    <3>2. /\ b[2] = 0 => b[1] <= Len(t) + 1 /\ k = b[1] - a[1]
          /\ b[2] # 0 => b[1] <= Len(t) /\ k = b[1] - a[1] + 1
      BY <2>4
    <3>3. a[1] + k <= Len(t) + 1
      BY <2>1, <3>1, <3>2
    <3>4. p <= Len(t)
      BY <1>3, <2>0, <2>1, <2>5, <3>1, <3>3
    <3>5. (n = 1 => p = a[1]) /\ p >= a[1]
      BY <2>0, <2>1, <2>5
    <3>6. p >= 1
      BY <2>1, <2>5, <3>1, <3>5
    <3> QED
      BY <2>5, <3>4, <3>5, <3>6
  <2>7. /\ x \in Place /\ x[1] = p /\ x[2] = (IF n = 1 THEN a[2] ELSE 0)
        /\ x[2] <= Len(t[p].ips)
    <3>1. CASE n = 1
      <4>1. x = a
        BY <3>1
      <4> HIDE DEF x
      <4> QED
        BY <1>2, <2>3, <2>6, <3>1, <4>1
    <3>2. CASE n # 1
      <4>1. x = <<p, 0>> /\ 0 \in Nat
        BY <3>2
      <4>2. Len(t[p].ips) \in Nat
        BY <1>1, <2>6
      <4> HIDE DEF x
      <4> QED
        BY <2>5, <3>2, <4>1, <4>2 DEF Place
    <3> QED
      BY <3>1, <3>2
  <2>8. \/ y = <<p + 1, 0>> /\ p # b[1]
        \/ y = b /\ p = b[1] /\ b[2] # 0 /\ b[2] > x[2] /\ b[2] <= Len(t[p].ips)
    <3>1. CASE b[2] = 0
      <4>1. p # b[1] /\ (n = k => b[1] = p + 1)
        <5>1. k = b[1] - a[1]
          BY <2>4, <3>1
        <5> QED
          BY <2>0, <2>1, <2>5, <5>1
      <4>2. y = <<p + 1, 0>>
        <5>1. b = <<b[1], 0>>
          BY <2>4, <3>1
        <5> QED
          BY <4>1, <5>1
      <4> QED
        BY <4>1, <4>2
    <3>2. CASE b[2] # 0 /\ n # k
      <4>1. k = b[1] - a[1] + 1
        BY <2>4, <3>2
      <4>2. p # b[1]
        BY <1>3, <2>0, <2>1, <2>5, <3>2, <4>1
      <4>3. y = <<p + 1, 0>>
        BY <3>2
      <4> QED
        BY <4>2, <4>3
    <3>3. CASE b[2] # 0 /\ n = k
      <4>1. k = b[1] - a[1] + 1 /\ b[2] <= Len(t[b[1]].ips) /\ (b[1] = a[1] => b[2] > a[2])
        BY <2>4, <3>3
      <4>2. p = b[1]
        <5>1. n = b[1] - a[1] + 1
          BY <3>3, <4>1
        <5> QED
          BY <2>1, <2>5, <5>1
      <4>3. (n = 1 => b[1] = a[1]) /\ b[2] > 0
        BY <2>0, <2>1, <3>3, <4>1
      <4> QED
        BY <2>1, <2>7, <3>3, <4>1, <4>2, <4>3
    <3> QED
      BY <3>1, <3>2, <3>3
  <2> HIDE DEF x, y
  <2>9. y \in Place /\ Bounds(t, x, y)
    <3>1. x[1] \in 1 .. Len(t) /\ x[2] <= Len(t[x[1]].ips)
      BY <2>6, <2>7
    <3>2. CASE y = <<p + 1, 0>>
      BY <2>5, <2>7, <3>1, <3>2 DEF Bounds, Place
    <3>3. CASE y = b /\ p = b[1] /\ b[2] # 0 /\ b[2] > x[2] /\ b[2] <= Len(t[p].ips)
      BY <1>2, <2>7, <3>1, <3>3 DEF Bounds
    <3> QED
      BY <2>8, <3>2, <3>3
  <2>10. lo = Lo(x) /\ hi = Hi(t, x, y)
    BY <2>1, <2>5, <2>7, <2>8 DEF Lo, Hi
  <2>11. /\ lo \in Nat \ {0} /\ hi \in Nat /\ lo <= hi + 1 /\ hi <= Len(t[p].ips)
    BY <2>7, <2>9, <2>10, LoHi
  <2>16. full \in BOOLEAN /\ (full <=> x[2] = 0)
    BY <2>0, <2>1, <2>7 DEF full
  <2> HIDE DEF lo, hi
  <2>12. \A i \in lo .. hi : t[p].ips[i] \in Ips
    BY <1>1, <2>6, <2>11
  <2>13. /\ SubSeq(t[p].ips, lo, hi) \in Seq(Ips)
         /\ Len(SubSeq(t[p].ips, lo, hi)) = IF lo <= hi THEN hi - lo + 1 ELSE 0
         /\ \A i \in 1 .. hi - lo + 1 : SubSeq(t[p].ips, lo, hi)[i] = t[p].ips[lo + i - 1]
    BY <2>11, <2>12, SubSeqProperties
  <2>14. Whole(SubSeq(t[p].ips, lo, hi), t[p].ips, lo, hi)
    BY <2>11, <2>13 DEF Whole
  <2>15. N[n] \in Nest
    BY <1>1, <2>0, <2>6, <2>13, <2>16 DEF Nest
  <2>17. N[n].key = t[p].key /\ N[n].ips = SubSeq(t[p].ips, lo, hi)
    <3> DEFINE s == SubSeq(t[p].ips, lo, hi)
    <3>1. N[n] = [key |-> t[p].key, full |-> full, ips |-> s]
      BY <2>0
    <3> HIDE DEF s
    <3>2. N[n].key = t[p].key
      BY <3>1
    <3>3. N[n].ips = s
      BY <3>1
    <3> QED
      BY <3>2, <3>3 DEF s
  <2>20. N[n].full = full
    BY <2>0
  <2>18. N[n].full <=> x[2] = 0
    BY <2>16, <2>20, Zenon
  <2>19. Slice(t, N[n], x, y)
    BY <2>7, <2>9, <2>10, <2>14, <2>15, <2>17, <2>18 DEF Slice
  <2> QED
    BY <2>2, <2>19
<1>6. N \in [1 .. k -> Nest] /\ N \in Seq(Nest) /\ Len(N) = k
  <2>1. DOMAIN N = 1 .. k /\ N = [n \in 1 .. k |-> N[n]]
    BY DEF Nests
  <2>2. \A n \in 1 .. k : N[n] \in Nest
    BY <1>5 DEF Slice
  <2>3. N \in [1 .. k -> Nest]
    BY <2>1, <2>2
  <2> HIDE DEF N, k
  <2>4. N \in Seq(Nest)
    BY <1>3, <2>3, SeqDef
  <2>5. Len(N) = k
    BY <1>3, <2>1, <2>4, LenProperties
  <2> QED
    BY <2>3, <2>4, <2>5
<1> HIDE DEF k, N, B
<1> QED
  BY <1>2, <1>4, <1>5, <1>6 DEF Carries, N

\* What parse_peer makes of a nest stands for the same piece of the table.
LEMMA ParsedPiece ==
  ASSUME NEW t \in Tables, NEW nest, NEW x, NEW y, Slice(t, nest, x, y),
         NEW kept \in Nat, kept <= Len(nest.ips),
         NEW sh \in BOOLEAN, kept < Len(nest.ips) => sh
  PROVE  Piece(t, sh, Parsed(nest, kept), x, y)
<1> DEFINE g == Parsed(nest, kept)
           u == t[x[1]].ips
           s == SubSeq(nest.ips, 1, kept)
           lo == Lo(x)
           hi == Hi(t, x, y)
<1>1. /\ Bounds(t, x, y) /\ nest \in Nest /\ nest.key = t[x[1]].key
      /\ nest.full <=> x[2] = 0
      /\ Len(nest.ips) = hi - lo + 1 /\ \A i \in 1 .. Len(nest.ips) : nest.ips[i] = u[lo + i - 1]
  BY DEF Slice, Whole
<1>2. /\ nest.key \in Keys /\ nest.full \in BOOLEAN /\ nest.ips \in Seq(Ips)
      /\ Len(nest.ips) \in Nat /\ \A i \in 1 .. Len(nest.ips) : nest.ips[i] \in Ips
  <2>1. nest.key \in Keys /\ nest.full \in BOOLEAN /\ nest.ips \in Seq(Ips)
    BY <1>1 DEF Nest
  <2> QED
    BY <2>1, LenProperties, ElementOfSeq
<1>3. lo \in Nat \ {0} /\ hi \in Nat /\ lo <= hi + 1
  BY <1>1, LoHi
<1>4. s \in Seq(Ips) /\ Len(s) = kept /\ \A i \in 1 .. kept : s[i] = nest.ips[i]
  BY <1>2, SubSeqProperties
<1>5. g = [key |-> nest.key, full |-> nest.full, ips |-> s, last |-> kept > 0]
  BY DEF Parsed
<1>6. (kept > 0) \in BOOLEAN
  OBVIOUS
<1> HIDE DEF s, g, lo, hi, u
<1>7. g \in Peer /\ g.key = nest.key /\ g.full = nest.full /\ g.ips = s
  BY <1>2, <1>4, <1>5, <1>6 DEF Peer
<1>8. g.last <=> kept > 0
  BY <1>5
<1>9. Drawn(s, u, lo, hi)
  <2> DEFINE f == [i \in 1 .. Len(s) |-> lo + i - 1]
  <2>1. f \in [1 .. Len(s) -> lo .. hi]
    BY <1>1, <1>3, <1>4
  <2>2. \A i \in 1 .. Len(s) : s[i] = u[f[i]]
    <3>1. \A i \in 1 .. Len(s) : i \in 1 .. Len(nest.ips)
      BY <1>2, <1>4
    <3> QED
      BY <1>1, <1>4, <3>1
  <2>3. \A i, j \in 1 .. Len(s) : i < j => f[i] < f[j]
    BY <1>3, <1>4
  <2> HIDE DEF f
  <2> QED
    BY <2>1, <2>2, <2>3 DEF Drawn
<1>10. ~sh => Whole(s, u, lo, hi) /\ (s # <<>> => g.last)
  <2> SUFFICES ASSUME ~sh PROVE Whole(s, u, lo, hi) /\ (s # <<>> => g.last)
    OBVIOUS
  <2>1. kept = Len(nest.ips)
    BY <1>2
  <2>2. Whole(s, u, lo, hi)
    BY <1>1, <1>4, <2>1 DEF Whole
  <2>3. s # <<>> => kept > 0
    BY <1>4, EmptySeq
  <2> QED
    BY <1>8, <2>2, <2>3
<1>11. g.full <=> x[2] = 0
  BY <1>1, <1>7, Zenon
<1> QED
  BY <1>1, <1>7, <1>9, <1>10, <1>11 DEF Piece, g, lo, hi, u

\* Two pieces of one peer that follow each other join to one.
LEMMA JoinedPiece ==
  ASSUME NEW t \in Tables, NEW sh \in BOOLEAN, NEW g, NEW h, NEW x, NEW y, NEW z,
         Piece(t, sh, g, x, y), Piece(t, sh, h, y, z), y[2] # 0
  PROVE  Piece(t, sh, Joined(g, h), x, z)
<1> DEFINE j == Joined(g, h)
           u == t[x[1]].ips
           m == y[2]
           lo == Lo(x)
           hi == Hi(t, x, z)
<1>1. /\ Bounds(t, x, y) /\ g \in Peer /\ g.key = t[x[1]].key
      /\ g.full <=> x[2] = 0
      /\ Bounds(t, y, z) /\ h \in Peer
  BY DEF Piece
<1>2. y[1] = x[1] /\ m > x[2] /\ m \in Nat \ {0} /\ Bounds(t, x, z) /\ x[2] \in Nat
  <2>1. Len(t) \in Nat /\ \A p \in 1 .. Len(t) : Len(t[p].ips) \in Nat
    BY TableFacts
  <2>2. /\ y \in Place /\ x \in Place /\ z \in Place
        /\ y[1] = x[1] /\ y[2] > x[2] /\ x[1] \in 1 .. Len(t) /\ x[2] <= Len(t[x[1]].ips)
        /\ \/ z = <<x[1] + 1, 0>>
           \/ z[1] = x[1] /\ z[2] > y[2] /\ z[2] <= Len(t[x[1]].ips)
    BY <1>1 DEF Bounds, Place
  <2>3. x[2] \in Nat /\ y[2] \in Nat /\ z[2] \in Nat
    BY <2>2 DEF Place
  <2>4. z[2] > y[2] => z[2] > x[2]
    BY <2>2, <2>3
  <2> QED
    BY <2>2, <2>3, <2>4 DEF Bounds
<1>3. Hi(t, x, y) = m - 1 /\ Lo(y) = m /\ Hi(t, y, z) = hi
  BY <1>2 DEF Hi, Lo
<1>4. lo \in Nat \ {0} /\ lo <= m /\ hi \in Nat /\ m <= hi
  <2>1. lo \in Nat \ {0} /\ hi \in Nat
    BY <1>2, LoHi
  <2>2. Lo(y) <= Hi(t, y, z)
    BY <1>1, LoHi
  <2>3. lo <= m
    BY <1>2 DEF Lo
  <2> QED
    BY <1>3, <2>1, <2>2, <2>3
<1>5. /\ Drawn(g.ips, u, lo, m - 1) /\ Drawn(h.ips, u, m, hi)
      /\ ~sh => Whole(g.ips, u, lo, m - 1) /\ Whole(h.ips, u, m, hi) /\ (h.ips # <<>> => h.last)
  BY <1>2, <1>3 DEF Piece
<1>6. /\ g.ips \in Seq(Ips) /\ h.ips \in Seq(Ips) /\ h.last \in BOOLEAN
      /\ g.key \in Keys /\ g.full \in BOOLEAN
  BY <1>1 DEF Peer
<1> DEFINE s == g.ips \o h.ips
           k == Len(g.ips)
           l == Len(h.ips)
<1>7. /\ k \in Nat /\ l \in Nat /\ s \in Seq(Ips) /\ Len(s) = k + l
      /\ \A i \in 1 .. k + l : s[i] = IF i <= k THEN g.ips[i] ELSE h.ips[i - k]
  BY <1>6, ConcatProperties, LenProperties
<1>8. j \in Peer /\ j.key = g.key /\ j.ips = s
  BY <1>1, <1>6, <1>7 DEF Joined, Peer
<1>9. j.full = g.full /\ j.last = h.last
  BY <1>1 DEF Joined, Peer
<1> HIDE DEF j, s, k, l, lo, hi, m, u
<1>10. Drawn(s, u, lo, hi)
  <2>1. PICK f1 \in [1 .. k -> lo .. m - 1] :
          /\ \A i \in 1 .. k : g.ips[i] = u[f1[i]]
          /\ \A a, b \in 1 .. k : a < b => f1[a] < f1[b]
    BY <1>5 DEF Drawn, k
  <2>2. PICK f2 \in [1 .. l -> m .. hi] :
          /\ \A i \in 1 .. l : h.ips[i] = u[f2[i]]
          /\ \A a, b \in 1 .. l : a < b => f2[a] < f2[b]
    BY <1>5 DEF Drawn, l
  <2> DEFINE f == [i \in 1 .. k + l |-> IF i <= k THEN f1[i] ELSE f2[i - k]]
  <2>3. \A i \in 1 .. k + l : /\ i <= k => i \in 1 .. k /\ f[i] = f1[i]
                             /\ ~(i <= k) => i - k \in 1 .. l /\ f[i] = f2[i - k]
    BY <1>7
  <2>7. \A i \in 1 .. k : f[i] = f1[i]
    BY <1>7
  <2>8. \A i \in 1 .. k : s[i] = g.ips[i]
    BY <1>7
  <2>4. f \in [1 .. k + l -> lo .. hi]
    <3>1. \A i \in 1 .. k : f1[i] \in lo .. m - 1
      BY <2>1
    <3>2. \A i \in 1 .. l : f2[i] \in m .. hi
      BY <2>2
    <3>3. lo .. m - 1 \subseteq lo .. hi /\ m .. hi \subseteq lo .. hi
      BY <1>2, <1>4 DEF m
    <3>4. \A i \in 1 .. k + l : f[i] \in lo .. hi
      BY <2>3, <3>1, <3>2, <3>3
    <3> QED
      BY <3>4
  <2> HIDE DEF f
  <2>5. ASSUME NEW i \in 1 .. k + l PROVE s[i] = u[f[i]]
    <3>1. CASE i <= k
      <4>0. i \in 1 .. k
        BY <1>7, <3>1
      <4>1. i \in 1 .. k /\ f[i] = f1[i] /\ s[i] = g.ips[i]
        BY <2>7, <2>8, <4>0
      <4>2. g.ips[i] = u[f1[i]]
        BY <2>1, <4>1
      <4> QED
        BY <4>1, <4>2
    <3>2. CASE ~(i <= k)
      <4>1. i - k \in 1 .. l /\ f[i] = f2[i - k] /\ s[i] = h.ips[i - k]
        BY <1>7, <2>3, <3>2
      <4>2. h.ips[i - k] = u[f2[i - k]]
        BY <2>2, <4>1
      <4> QED
        BY <4>1, <4>2
    <3> QED
      BY <3>1, <3>2
  <2>6. ASSUME NEW a \in 1 .. k + l, NEW b \in 1 .. k + l, a < b
        PROVE  f[a] < f[b]
    <3>1. CASE b <= k
      <4>1. a \in 1 .. k /\ b \in 1 .. k /\ a <= k
        BY <1>7, <2>6, <3>1
      <4>2. f[a] = f1[a] /\ f[b] = f1[b]
        BY <2>7, <4>1
      <4>3. f1[a] < f1[b]
        BY <2>1, <2>6, <4>1
      <4> QED
        BY <4>2, <4>3
    <3>2. CASE a <= k /\ ~(b <= k)
      <4>4. a \in 1 .. k /\ b - k \in 1 .. l
        BY <1>7, <3>2
      <4>2. a \in 1 .. k /\ f[a] = f1[a] /\ b - k \in 1 .. l /\ f[b] = f2[b - k]
        BY <2>3, <2>7, <3>2, <4>4
      <4>3. f1[a] \in lo .. m - 1 /\ f2[b - k] \in m .. hi
        BY <2>1, <2>2, <4>2
      <4>1. f[a] \in lo .. m - 1 /\ f[b] \in m .. hi
        BY <4>2, <4>3
      <4> QED
        BY <1>2, <1>4, <4>1 DEF m
    <3>3. CASE ~(a <= k)
      <4>1. ~(b <= k) /\ a - k < b - k
        BY <1>7, <2>6, <3>3
      <4> QED
        BY <2>2, <2>3, <3>3, <4>1
    <3> QED
      BY <3>1, <3>2, <3>3
  <2> QED
    BY <1>7, <2>4, <2>5, <2>6 DEF Drawn
<1>11. ~sh => Whole(s, u, lo, hi) /\ h.ips # <<>>
  <2> SUFFICES ASSUME ~sh PROVE Whole(s, u, lo, hi) /\ h.ips # <<>>
    OBVIOUS
  <2>1. /\ k = m - lo /\ \A i \in 1 .. k : g.ips[i] = u[lo + i - 1]
        /\ l = hi - m + 1 /\ \A i \in 1 .. l : h.ips[i] = u[m + i - 1]
    <3>1. m \in Int /\ lo \in Int /\ m - 1 - lo + 1 = m - lo
      BY <1>2, <1>4 DEF m
    <3> QED
      BY <1>5, <3>1 DEF Whole, k, l
  <2>2. m \in Int
    BY <1>2 DEF m
  <2>3. k + l = hi - lo + 1 /\ l > 0
    BY <1>4, <2>1, <2>2
  <2>4. ASSUME NEW i \in 1 .. k + l PROVE s[i] = u[lo + i - 1]
    <3>1. CASE i <= k
      BY <1>7, <2>1, <3>1
    <3>2. CASE ~(i <= k)
      <4>1. i - k \in 1 .. l /\ m + (i - k) - 1 = lo + i - 1
        BY <1>4, <1>7, <2>1, <2>2, <3>2
      <4> QED
        BY <1>7, <2>1, <3>2, <4>1
    <3> QED
      BY <3>1, <3>2
  <2>5. h.ips # <<>>
    BY <1>6, <2>3, EmptySeq DEF l
  <2> QED
    BY <1>7, <2>3, <2>4, <2>5 DEF Whole
<1>12. ~sh => j.last
  BY <1>5, <1>9, <1>11, Zenon
<1>13. j.full <=> x[2] = 0
  BY <1>1, <1>9, Zenon
<1> QED
  BY <1>1, <1>2, <1>8, <1>10, <1>11, <1>12, <1>13 DEF Piece, j, lo, hi, u

LEMMA PieceKept ==
  ASSUME NEW t, NEW sh \in BOOLEAN, NEW sh2 \in BOOLEAN, sh => sh2,
         NEW g, NEW x, NEW y, Piece(t, sh, g, x, y)
  PROVE  Piece(t, sh2, g, x, y)
BY DEF Piece

LEMMA Concat ==
  ASSUME NEW S, NEW s \in Seq(S), NEW u \in Seq(S), NEW k, NEW l, Len(s) = k, Len(u) = l
  PROVE  /\ k \in Nat /\ l \in Nat /\ s \o u \in Seq(S) /\ Len(s \o u) = k + l
         /\ \A n \in 1 .. k + l : (s \o u)[n] = IF n <= k THEN s[n] ELSE u[n - k]
BY ConcatProperties, LenProperties

\* h is what parse_peer makes of nests; if it lost allowed IPs, sh says so.
ParsedAs(nests, h, sh) ==
  \E kept \in [DOMAIN nests -> Nat] :
    /\ \A n \in DOMAIN nests : /\ kept[n] <= Len(nests[n].ips)
                               /\ kept[n] < Len(nests[n].ips) => sh
    /\ h = [n \in DOMAIN nests |-> Parsed(nests[n], kept[n])]

\* A message read takes the list on from where it was to where the message ends.
LEMMA TrailGrows ==
  ASSUME NEW t \in Tables, NEW sh \in BOOLEAN, NEW sh2 \in BOOLEAN, sh => sh2,
         NEW g \in Seq(Peer), NEW A, NEW a, NEW b, Trail(t, sh, g, A, a),
         NEW nests, Carries(t, nests, a, b), NEW h, ParsedAs(nests, h, sh2)
  PROVE  g \o h \in Seq(Peer) /\ \E C : Trail(t, sh2, g \o h, C, b)
<1> DEFINE k == Len(g)
           l == Len(nests)
<1>1. PICK B \in [1 .. l + 1 -> Place] :
        /\ B[1] = a /\ B[l + 1] = b
        /\ \A n \in 1 .. l : Slice(t, nests[n], B[n], B[n + 1])
  BY DEF Carries
<1>2. l \in Nat /\ DOMAIN nests = 1 .. l
  BY LenProperties DEF Carries
<1>3. DOMAIN h = 1 .. l /\ \A n \in 1 .. l : Piece(t, sh2, h[n], B[n], B[n + 1])
  <2>1. PICK kept \in [DOMAIN nests -> Nat] :
          /\ \A n \in DOMAIN nests : /\ kept[n] <= Len(nests[n].ips)
                                     /\ kept[n] < Len(nests[n].ips) => sh2
          /\ h = [n \in DOMAIN nests |-> Parsed(nests[n], kept[n])]
    BY DEF ParsedAs
  <2> QED
    BY <1>1, <1>2, <2>1, ParsedPiece
<1>4. h = [n \in 1 .. l |-> h[n]]
  <2>1. PICK kept \in [DOMAIN nests -> Nat] : h = [n \in DOMAIN nests |-> Parsed(nests[n], kept[n])]
    BY DEF ParsedAs
  <2> QED
    BY <1>2, <2>1
<1>5. h \in Seq(Peer) /\ Len(h) = l
  <2>1. h \in [1 .. l -> Peer]
    BY <1>2, <1>3, <1>4 DEF Piece
  <2>2. h \in Seq(Peer)
    BY <1>2, <2>1, SeqDef
  <2> QED
    BY <1>2, <2>1, <2>2, LenProperties
<1> HIDE DEF k, l
<1>6. /\ g \o h \in Seq(Peer) /\ k \in Nat /\ Len(g \o h) = k + l
      /\ \A n \in 1 .. k + l : (g \o h)[n] = IF n <= k THEN g[n] ELSE h[n - k]
  <2>1. Len(g) = k
    BY DEF k
  <2> QED
    BY <1>5, <2>1, Concat
<1>7. /\ A \in [1 .. k + 1 -> Place] /\ A[1] = <<1, 0>> /\ A[k + 1] = a
      /\ \A n \in 1 .. k : Piece(t, sh, g[n], A[n], A[n + 1])
  BY DEF Trail, k
<1> DEFINE C == [n \in 1 .. k + l + 1 |-> IF n <= k THEN A[n] ELSE B[n - k]]
<1>8. \A n \in 1 .. k + 1 : C[n] = A[n]
  <2> SUFFICES ASSUME NEW n \in 1 .. k + 1 PROVE C[n] = A[n]
    OBVIOUS
  <2>1. n \in 1 .. k + l + 1 /\ (~(n <= k) => n = k + 1 /\ n - k = 1)
    BY <1>2, <1>6
  <2> QED
    BY <1>1, <1>7, <2>1
<1>9. \A n \in 1 .. l + 1 : C[k + n] = B[n]
  <2> SUFFICES ASSUME NEW n \in 1 .. l + 1 PROVE C[k + n] = B[n]
    OBVIOUS
  <2>1. k + n \in 1 .. k + l + 1 /\ ~(k + n <= k) /\ (k + n) - k = n
    BY <1>2, <1>6
  <2> QED
    BY <2>1
<1>10. C \in [1 .. k + l + 1 -> Place]
  <2> SUFFICES ASSUME NEW n \in 1 .. k + l + 1
               PROVE (IF n <= k THEN A[n] ELSE B[n - k]) \in Place
    OBVIOUS
  <2>1. CASE n <= k
    <3>1. n \in 1 .. k + 1
      BY <1>2, <1>6, <2>1
    <3> QED
      BY <1>7, <2>1, <3>1
  <2>2. CASE ~(n <= k)
    <3>1. n - k \in 1 .. l + 1
      BY <1>2, <1>6, <2>2
    <3> QED
      BY <1>1, <2>2, <3>1
  <2> QED
    BY <2>1, <2>2
<1> HIDE DEF C
<1>11. C[1] = <<1, 0>> /\ C[k + l + 1] = b
  <2>1. 1 \in 1 .. k + 1 /\ l + 1 \in 1 .. l + 1 /\ k + (l + 1) = k + l + 1
    BY <1>2, <1>6
  <2> QED
    BY <1>1, <1>7, <1>8, <1>9, <2>1
<1>12. ASSUME NEW n \in 1 .. k + l
       PROVE  Piece(t, sh2, (g \o h)[n], C[n], C[n + 1])
  <2>1. CASE n <= k
    <3>1. n \in 1 .. k /\ n \in 1 .. k + 1 /\ n + 1 \in 1 .. k + 1
      BY <1>2, <1>6, <2>1
    <3>2. C[n] = A[n] /\ C[n + 1] = A[n + 1] /\ (g \o h)[n] = g[n]
      BY <1>6, <1>8, <2>1, <3>1
    <3>3. Piece(t, sh, g[n], A[n], A[n + 1])
      BY <1>7, <3>1
    <3> QED
      BY <3>2, <3>3, PieceKept
  <2>2. CASE ~(n <= k)
    <3>1. n - k \in 1 .. l /\ n - k \in 1 .. l + 1 /\ (n - k) + 1 \in 1 .. l + 1
      BY <1>2, <1>6, <2>2
    <3>2. k + (n - k) = n /\ k + ((n - k) + 1) = n + 1
      BY <1>2, <1>6
    <3>3. C[n] = B[n - k] /\ C[n + 1] = B[(n - k) + 1]
      <4>1. C[k + (n - k)] = B[n - k] /\ C[k + ((n - k) + 1)] = B[(n - k) + 1]
        BY <1>9, <3>1
      <4> QED
        BY <3>2, <4>1
    <3>5. (g \o h)[n] = h[n - k]
      BY <1>6, <2>2
    <3>4. Piece(t, sh2, h[n - k], B[n - k], B[(n - k) + 1])
      BY <1>3, <3>1
    <3> QED
      BY <3>3, <3>4, <3>5
  <2> QED
    BY <2>1, <2>2
<1>13. Trail(t, sh2, g \o h, C, b)
  BY <1>6, <1>10, <1>12, <1>11 DEF Trail
<1> QED
  BY <1>6, <1>13

\* Two neighbours of the list have the same key only if they are pieces of the
\* same peer.
LEMMA SamePeer ==
  ASSUME NEW t \in Tables, NEW sh \in BOOLEAN, NEW g, NEW h, NEW x, NEW y, NEW z,
         Piece(t, sh, g, x, y), Piece(t, sh, h, y, z)
  PROVE  /\ g.key = h.key => y[2] # 0
         /\ g.key # h.key => y = <<x[1] + 1, 0>>
<1>1. /\ Bounds(t, x, y) /\ Bounds(t, y, z) /\ g.key = t[x[1]].key /\ h.key = t[y[1]].key
  BY DEF Piece
<1>2. /\ x[1] \in 1 .. Len(t) /\ y[1] \in 1 .. Len(t) /\ Len(t) \in Nat /\ x[2] \in Nat
      /\ \/ y = <<x[1] + 1, 0>>
         \/ y[1] = x[1] /\ y[2] > x[2] /\ y[2] \in Nat
  BY <1>1, TableFacts DEF Bounds, Place
<1>3. CASE y = <<x[1] + 1, 0>>
  <2>1. y[1] # x[1]
    BY <1>2, <1>3
  <2> QED
    BY <1>1, <1>2, <1>3, <2>1, TableFacts
<1>4. CASE y[1] = x[1] /\ y[2] > x[2] /\ y[2] \in Nat
  BY <1>1, <1>2, <1>4
<1> QED
  BY <1>2, <1>3, <1>4

\* Joining two neighbours of one key leaves the list as complete as it was.
LEMMA TrailJoins ==
  ASSUME NEW t \in Tables, NEW sh \in BOOLEAN, NEW g \in Seq(Peer), NEW A, NEW b,
         Trail(t, sh, g, A, b), NEW w \in 1 .. Len(g) - 1, g[w].key = g[w + 1].key
  PROVE  LET j == SubSeq(g, 1, w - 1) \o <<Joined(g[w], g[w + 1])>> \o SubSeq(g, w + 2, Len(g))
         IN  /\ j \in Seq(Peer)
             /\ \E C : Trail(t, sh, j, C, b) /\ \A n \in 1 .. w : C[n] = A[n]
<1> DEFINE m == Joined(g[w], g[w + 1])
           p == SubSeq(g, 1, w - 1)
           q == SubSeq(g, w + 2, Len(g))
           j == p \o <<m>> \o q
           k == Len(g)
<1>1. /\ A \in [1 .. k + 1 -> Place] /\ A[1] = <<1, 0>> /\ A[k + 1] = b
      /\ \A n \in 1 .. k : Piece(t, sh, g[n], A[n], A[n + 1])
  BY DEF Trail
<1>2. /\ k \in Nat /\ w \in Nat /\ 1 <= w /\ w + 1 <= k /\ \A n \in 1 .. k : g[n] \in Peer
  BY LenProperties, ElementOfSeq
<1>3. Piece(t, sh, m, A[w], A[w + 2])
  <2>1. w \in 1 .. k /\ w + 1 \in 1 .. k /\ (w + 1) + 1 = w + 2
    BY <1>2
  <2>2. Piece(t, sh, g[w], A[w], A[w + 1]) /\ Piece(t, sh, g[w + 1], A[w + 1], A[w + 2])
    BY <1>1, <2>1
  <2>3. A[w + 1][2] # 0
    BY <2>2, SamePeer
  <2> QED
    BY <2>2, <2>3, JoinedPiece
<1>4. m \in Peer
  BY <1>3 DEF Piece
<1>5. p \in Seq(Peer) /\ Len(p) = w - 1 /\ \A n \in 1 .. w - 1 : p[n] = g[n]
  <2>1. \A i \in 1 .. w - 1 : g[i] \in Peer
    BY <1>2
  <2>2. /\ p \in Seq(Peer) /\ Len(p) = (IF 1 <= w - 1 THEN (w - 1) - 1 + 1 ELSE 0)
        /\ \A i \in 1 .. (w - 1) - 1 + 1 : p[i] = g[1 + i - 1]
    BY <1>2, <2>1, SubSeqProperties
  <2> HIDE DEF p
  <2> QED
    BY <1>2, <2>2
<1>6. q \in Seq(Peer) /\ Len(q) = k - w - 1 /\ \A n \in 1 .. k - w - 1 : q[n] = g[w + 1 + n]
  <2>1. \A i \in w + 2 .. k : g[i] \in Peer
    BY <1>2
  <2>2. /\ q \in Seq(Peer) /\ Len(q) = (IF w + 2 <= k THEN k - (w + 2) + 1 ELSE 0)
        /\ \A i \in 1 .. k - (w + 2) + 1 : q[i] = g[(w + 2) + i - 1]
    BY <1>2, <2>1, SubSeqProperties
  <2> HIDE DEF q
  <2>3. k - (w + 2) + 1 = k - w - 1 /\ \A i \in 1 .. k - w - 1 : (w + 2) + i - 1 = w + 1 + i
    BY <1>2
  <2>4. Len(q) = k - w - 1
    BY <1>2, <2>2
  <2> QED
    BY <2>2, <2>3, <2>4
<1>7. <<m>> \in Seq(Peer) /\ Len(<<m>>) = 1 /\ <<m>>[1] = m
  BY <1>4
<1> HIDE DEF m, p, q, k
<1>8. /\ p \o <<m>> \in Seq(Peer) /\ Len(p \o <<m>>) = w
      /\ \A n \in 1 .. w : (p \o <<m>>)[n] = IF n = w THEN m ELSE g[n]
  <2>1. /\ p \o <<m>> \in Seq(Peer) /\ Len(p \o <<m>>) = (w - 1) + 1
        /\ \A n \in 1 .. (w - 1) + 1 :
             (p \o <<m>>)[n] = IF n <= w - 1 THEN p[n] ELSE <<m>>[n - (w - 1)]
    BY <1>5, <1>7, Concat
  <2>2. (w - 1) + 1 = w /\ \A n \in 1 .. w : n <= w - 1 <=> n # w
    BY <1>2
  <2>3. \A n \in 1 .. w : n # w => n \in 1 .. w - 1
    BY <1>2
  <2>4. w - (w - 1) = 1
    BY <1>2
  <2> QED
    BY <1>5, <1>7, <2>1, <2>2, <2>3, <2>4
<1>9. /\ j \in Seq(Peer) /\ Len(j) = k - 1
      /\ \A n \in 1 .. k - 1 : j[n] = IF n < w THEN g[n] ELSE IF n = w THEN m ELSE g[n + 1]
  <2> DEFINE c == p \o <<m>>
  <2>0. c \in Seq(Peer) /\ Len(c) = w
    BY <1>8
  <2> HIDE DEF c
  <2>1. /\ j \in Seq(Peer) /\ Len(j) = w + (k - w - 1)
        /\ \A n \in 1 .. w + (k - w - 1) :
             j[n] = IF n <= w THEN c[n] ELSE q[n - w]
    <3>1. /\ c \o q \in Seq(Peer) /\ Len(c \o q) = w + (k - w - 1)
          /\ \A n \in 1 .. w + (k - w - 1) :
               (c \o q)[n] = IF n <= w THEN c[n] ELSE q[n - w]
      <4> DEFINE r == k - w - 1
      <4>1. Len(q) = r /\ q \in Seq(Peer)
        BY <1>6
      <4> HIDE DEF r
      <4>2. /\ c \o q \in Seq(Peer) /\ Len(c \o q) = w + r
            /\ \A n \in 1 .. w + r : (c \o q)[n] = IF n <= w THEN c[n] ELSE q[n - w]
        <5>1. /\ c \o q \in Seq(Peer) /\ Len(c \o q) = Len(c) + Len(q)
              /\ \A n \in 1 .. Len(c) + Len(q) :
                   (c \o q)[n] = IF n <= Len(c) THEN c[n] ELSE q[n - Len(c)]
          BY <2>0, <4>1, ConcatProperties, Zenon
        <5> QED
          BY <2>0, <4>1, <5>1, Zenon
      <4> QED
        BY <4>2 DEF r
    <3> QED
      BY <3>1 DEF c
  <2>2. w + (k - w - 1) = k - 1
    BY <1>2
  <2> HIDE DEF j
  <2>3. ASSUME NEW n \in 1 .. k - 1
        PROVE  j[n] = IF n < w THEN g[n] ELSE IF n = w THEN m ELSE g[n + 1]
    <3>1. CASE n <= w
      <4>1. n \in 1 .. w /\ (n < w <=> n # w)
        BY <1>2, <3>1
      <4> QED
        BY <1>8, <2>1, <2>2, <3>1, <4>1 DEF c
    <3>2. CASE ~(n <= w)
      <4>1. n - w \in 1 .. k - w - 1 /\ w + 1 + (n - w) = n + 1 /\ ~(n < w) /\ n # w
        BY <1>2, <3>2
      <4> QED
        BY <1>6, <2>1, <2>2, <3>2, <4>1
    <3> QED
      BY <3>1, <3>2
  <2> QED
    BY <2>1, <2>2, <2>3
<1> HIDE DEF j
<1> DEFINE C == [n \in 1 .. k |-> IF n <= w THEN A[n] ELSE A[n + 1]]
<1>10. C \in [1 .. k -> Place] /\ C[1] = <<1, 0>> /\ C[k] = b /\ \A n \in 1 .. w : C[n] = A[n]
  <2>1. \A n \in 1 .. k : n \in 1 .. k + 1 /\ n + 1 \in 1 .. k + 1
    BY <1>2
  <2>2. C \in [1 .. k -> Place]
    BY <1>1, <2>1
  <2>3. 1 \in 1 .. k /\ 1 <= w /\ k \in 1 .. k /\ ~(k <= w) /\ \A n \in 1 .. w : n \in 1 .. k /\ n <= w
    BY <1>2
  <2> QED
    BY <1>1, <2>2, <2>3
<1>11. ASSUME NEW n \in 1 .. k - 1
       PROVE  Piece(t, sh, j[n], C[n], C[n + 1])
  <2>0. n \in 1 .. k /\ n + 1 \in 1 .. k
    BY <1>2
  <2>1. CASE n < w
    <3>1. n <= w /\ n + 1 <= w
      BY <1>2, <2>1
    <3> QED
      BY <1>1, <1>9, <2>0, <2>1, <3>1
  <2>2. CASE n = w
    <3>1. n <= w /\ ~(n + 1 <= w) /\ (n + 1) + 1 = w + 2 /\ ~(n < w)
      BY <1>2, <2>2
    <3> QED
      BY <1>3, <1>9, <2>0, <2>2, <3>1
  <2>3. CASE n > w
    <3>1. ~(n <= w) /\ ~(n + 1 <= w) /\ ~(n < w) /\ n # w
      BY <1>2, <2>3
    <3> QED
      BY <1>1, <1>9, <2>0, <3>1
  <2> QED
    BY <1>2, <2>1, <2>2, <2>3
<1> HIDE DEF C
<1>12. Trail(t, sh, j, C, b)
  <2>1. Len(j) + 1 = k
    BY <1>2, <1>9
  <2> QED
    BY <1>9, <1>10, <1>11, <2>1 DEF Trail
<1> QED
  BY <1>9, <1>10, <1>12 DEF j, m, p, q, k

\* A list with exactly one piece for each peer.
Final(t, sh, g) ==
  Len(g) = Len(t) /\ \A n \in 1 .. Len(t) : Piece(t, sh, g[n], <<n, 0>>, <<n + 1, 0>>)

\* coalesce_peers has reached the end of the list.
LEMMA TrailEnds ==
  ASSUME NEW t \in Tables, NEW sh \in BOOLEAN, NEW g \in Seq(Peer), NEW A,
         Trail(t, sh, g, A, End(t)), NEW w \in Nat \ {0}, w >= Len(g),
         \A n \in 1 .. w : n <= Len(g) => A[n] = <<n, 0>>
  PROVE  Final(t, sh, g)
<1> DEFINE k == Len(g)
<1>1. k \in Nat /\ Len(t) \in Nat
  BY LenProperties, TableFacts
<1>2. /\ A[1] = <<1, 0>> /\ A[k + 1] = <<Len(t) + 1, 0>>
      /\ \A n \in 1 .. k : Piece(t, sh, g[n], A[n], A[n + 1]) /\ A[n] = <<n, 0>>
  BY <1>1 DEF Trail, End
<1>3. Len(t) = k
  <2>1. CASE k = 0
    BY <1>1, <1>2, <2>1
  <2>2. CASE k > 0
    <3>1. k \in 1 .. k
      BY <1>1, <2>2
    <3>2. Bounds(t, <<k, 0>>, <<Len(t) + 1, 0>>)
      BY <1>2, <3>1 DEF Piece
    <3> QED
      BY <1>1, <3>2 DEF Bounds
  <2> QED
    BY <1>1, <2>1, <2>2
<1>4. \A n \in 1 .. k : A[n + 1] = <<n + 1, 0>>
  <2> SUFFICES ASSUME NEW n \in 1 .. k PROVE A[n + 1] = <<n + 1, 0>>
    OBVIOUS
  <2>1. n + 1 \in 1 .. k \/ n + 1 = k + 1
    BY <1>1
  <2> QED
    BY <1>2, <1>3, <2>1
<1> QED
  BY <1>2, <1>3, <1>4 DEF Final

\* Such a list is the table, or the table less some allowed IPs.
LEMMA FinalIsTable ==
  ASSUME NEW t \in Tables, NEW sh \in BOOLEAN, NEW g \in Seq(Peer), Final(t, sh, g)
  PROVE  /\ Len(g) = Len(t)
         /\ \A p \in DOMAIN g : /\ g[p].key = t[p].key /\ g[p].full
                                /\ Read!SubSequence(g[p].ips, t[p].ips)
                                /\ ~sh => g[p].ips = t[p].ips
<1>1. Len(g) = Len(t) /\ DOMAIN g = 1 .. Len(t) /\ Len(t) \in Nat
  BY LenProperties, TableFacts DEF Final
<1>2. ASSUME NEW p \in 1 .. Len(t)
      PROVE  /\ g[p].key = t[p].key /\ g[p].full
             /\ Read!SubSequence(g[p].ips, t[p].ips)
             /\ ~sh => g[p].ips = t[p].ips
  <2> DEFINE s == g[p].ips
             u == t[p].ips
             x == <<p, 0>>
             y == <<p + 1, 0>>
  <2>1. Piece(t, sh, g[p], x, y)
    BY DEF Final
  <2>2. x[1] = p /\ x[2] = 0 /\ Lo(x) = 1 /\ Hi(t, x, y) = Len(u)
    BY DEF Lo, Hi
  <2> HIDE DEF x, y
  <2>3. /\ g[p] \in Peer /\ g[p].key = t[p].key /\ g[p].full
        /\ Drawn(s, u, 1, Len(u)) /\ (~sh => Whole(s, u, 1, Len(u)))
    BY <2>1, <2>2 DEF Piece
  <2>4. s \in Seq(Ips) /\ u \in Seq(Ips)
    BY <2>3, TableFacts DEF Peer
  <2> HIDE DEF s, u
  <2>5. /\ Len(s) \in Nat /\ Len(u) \in Nat
        /\ DOMAIN s = 1 .. Len(s) /\ DOMAIN u = 1 .. Len(u)
    BY <2>4, LenProperties
  <2>6. Read!SubSequence(s, u)
    <3>1. PICK f \in [1 .. Len(s) -> 1 .. Len(u)] :
            /\ \A i \in 1 .. Len(s) : s[i] = u[f[i]]
            /\ \A i, j \in 1 .. Len(s) : i < j => f[i] < f[j]
      BY <2>3 DEF Drawn
    <3> QED
      BY <2>5, <3>1 DEF Read!SubSequence
  <2>7. ASSUME ~sh PROVE s = u
    <3>1. Len(s) = Len(u) - 1 + 1 /\ \A i \in 1 .. Len(s) : s[i] = u[1 + i - 1]
      BY <2>3, <2>7 DEF Whole
    <3>2. Len(s) = Len(u) /\ \A i \in 1 .. Len(s) : s[i] = u[i]
      BY <2>5, <3>1
    <3> QED
      BY <2>4, <3>2, SeqEqual
  <2> QED
    BY <2>3, <2>6, <2>7 DEF s, u
<1> QED
  BY <1>1, <1>2

-----------------------------------------------------------------------------
\* The inductive invariant

\* The kernel's dump stands somewhere in the device it began with.
Dump ==
  /\ dump = "started" => ~stale /\ cursor = <<1, 0>> /\ queue = <<>>
  /\ dump = "running" => Position(snap, cursor) /\ (~stale => snap = table)

\* The messages of q lead from `here` to c; an interrupted one is the last.
Leads(t, q, d, here, c) ==
  \E Q \in [1 .. Len(q) + 1 -> Place] :
    /\ Q[1] = here /\ Q[Len(q) + 1] = c
    /\ \A i \in 1 .. Len(q) :
         /\ q[i].done => i = Len(q) /\ d = "done"
         /\ ~q[i].intr => /\ Carries(t, q[i].nests, Q[i], Q[i + 1])
                          /\ q[i].done => Q[i + 1] = End(t)

\* While the caller reads, its list and the messages on their way make up what
\* has been dumped.
Reading ==
  pc = "recv" =>
    /\ dump # "none"
    /\ dump = "started" => got = <<>>
    /\ \E A, here : Trail(snap, short, got, A, here) /\ Leads(snap, queue, dump, here, cursor)

\* coalesce_peers has one piece for each peer before the one it is at.
Joining ==
  pc = "coalesce" =>
    /\ dump = "done"
    /\ \E A : /\ Trail(snap, short, got, A, End(snap))
              /\ \A n \in 1 .. walk : n <= Len(got) => A[n] = <<n, 0>>

Answered ==
  pc \in {"out", "returned"} /\ ret = "ok" => dump = "done" /\ Final(snap, short, got)

IndInv == TypeOK /\ Dump /\ Reading /\ Joining /\ Answered /\ CrashNeedsShort

LEMMA EmptyTrail ==
  ASSUME NEW t, NEW sh
  PROVE  \E A : Trail(t, sh, <<>>, A, <<1, 0>>)
<1> DEFINE A == [n \in 1 .. 1 |-> <<1, 0>>]
<1>1. Len(<<>>) = 0 /\ 1 .. 0 = {} /\ 1 \in 1 .. 1
  OBVIOUS
<1>2. A \in [1 .. 1 -> Place] /\ A[1] = <<1, 0>>
  BY <1>1 DEF Place
<1> HIDE DEF A
<1>3. /\ A \in [1 .. Len(<<>>) + 1 -> Place] /\ A[Len(<<>>) + 1] = <<1, 0>>
      /\ \A n \in 1 .. Len(<<>>) : Piece(t, sh, <<>>[n], A[n], A[n + 1])
  BY <1>1, <1>2
<1> QED
  BY <1>2, <1>3 DEF Trail

LEMMA EmptyLeads ==
  ASSUME NEW t, NEW d, NEW c \in Place
  PROVE  Leads(t, <<>>, d, c, c)
<1> DEFINE Q == [n \in 1 .. 1 |-> c]
<1>1. Len(<<>>) = 0 /\ 1 .. 0 = {} /\ 1 \in 1 .. 1
  OBVIOUS
<1>2. Q \in [1 .. 1 -> Place] /\ Q[1] = c
  BY <1>1
<1> HIDE DEF Q
<1>3. Q \in [1 .. Len(<<>>) + 1 -> Place] /\ Q[Len(<<>>) + 1] = c /\ 1 .. Len(<<>>) = {}
  BY <1>1, <1>2
<1> QED
  BY <1>2, <1>3, Zenon DEF Leads

\* One more message: it leads on from c, or is the one that ends an interrupted dump.
LEMMA LeadsGrow ==
  ASSUME NEW t, NEW q \in Seq(Message), NEW d, NEW here, NEW c, Leads(t, q, d, here, c),
         d # "done", NEW m \in Message, NEW b \in Place, NEW d2, m.done => d2 = "done",
         ~m.intr => Carries(t, m.nests, c, b) /\ (m.done => b = End(t))
  PROVE  Leads(t, Append(q, m), d2, here, b)
<1> DEFINE k == Len(q)
           r == Append(q, m)
<1>1. PICK Q \in [1 .. k + 1 -> Place] :
        /\ Q[1] = here /\ Q[k + 1] = c
        /\ \A i \in 1 .. k :
             /\ q[i].done => i = k /\ d = "done"
             /\ ~q[i].intr => /\ Carries(t, q[i].nests, Q[i], Q[i + 1])
                              /\ q[i].done => Q[i + 1] = End(t)
  BY DEF Leads
<1>2. /\ k \in Nat /\ Len(r) = k + 1 /\ r[k + 1] = m
      /\ \A i \in 1 .. k : r[i] = q[i]
  BY AppendProperties, LenProperties
<1> DEFINE R == [i \in 1 .. k + 2 |-> IF i = k + 2 THEN b ELSE Q[i]]
<1> HIDE DEF k, r
<1>3. /\ R \in [1 .. k + 2 -> Place] /\ R[1] = here /\ R[k + 2] = b
      /\ \A i \in 1 .. k + 1 : R[i] = Q[i]
  <2>1. \A i \in 1 .. k + 2 : i # k + 2 => i \in 1 .. k + 1
    BY <1>2
  <2>2. R \in [1 .. k + 2 -> Place]
    BY <1>1, <2>1
  <2>3. k + 2 \in 1 .. k + 2 /\ 1 \in 1 .. k + 1
    BY <1>2
  <2>4. \A i \in 1 .. k + 1 : i \in 1 .. k + 2 /\ i # k + 2
    BY <1>2
  <2>5. R[k + 2] = b /\ \A i \in 1 .. k + 1 : R[i] = Q[i]
    BY <2>3, <2>4
  <2> HIDE DEF R
  <2> QED
    BY <1>1, <2>2, <2>3, <2>5
<1> HIDE DEF R
<1>4. ASSUME NEW i \in 1 .. k + 1
      PROVE  /\ r[i].done => i = k + 1 /\ d2 = "done"
             /\ ~r[i].intr => /\ Carries(t, r[i].nests, R[i], R[i + 1])
                              /\ r[i].done => R[i + 1] = End(t)
  <2>1. CASE i = k + 1
    <3>1. (k + 1) + 1 = k + 2 /\ R[k + 1] = c /\ R[k + 2] = b /\ k + 1 \in 1 .. k + 1
      BY <1>1, <1>2, <1>3
    <3> QED
      BY <1>2, <2>1, <3>1
  <2>2. CASE i # k + 1
    <3>1. i \in 1 .. k /\ i + 1 \in 1 .. k + 1 /\ i \in 1 .. k + 1
      BY <1>2, <2>2
    <3>2. R[i] = Q[i] /\ R[i + 1] = Q[i + 1] /\ r[i] = q[i]
      BY <1>2, <1>3, <3>1
    <3> QED
      BY <1>1, <3>1, <3>2
  <2> QED
    BY <2>1, <2>2
<1>5. Len(r) + 1 = k + 2
  BY <1>2
<1> QED
  BY <1>2, <1>3, <1>4, <1>5 DEF Leads, r

\* The first message read, the others lead on.
LEMMA LeadsOn ==
  ASSUME NEW t, NEW q \in Seq(Message), NEW d, NEW here, NEW c, Leads(t, q, d, here, c),
         q # <<>>, ~Head(q).intr
  PROVE  \E b : /\ Carries(t, Head(q).nests, here, b)
                /\ Head(q).done => d = "done" /\ b = End(t)
                /\ ~Head(q).done => Leads(t, Tail(q), d, b, c)
<1> DEFINE k == Len(q)
           r == Tail(q)
<1>1. PICK Q \in [1 .. k + 1 -> Place] :
        /\ Q[1] = here /\ Q[k + 1] = c
        /\ \A i \in 1 .. k :
             /\ q[i].done => i = k /\ d = "done"
             /\ ~q[i].intr => /\ Carries(t, q[i].nests, Q[i], Q[i + 1])
                              /\ q[i].done => Q[i + 1] = End(t)
  BY DEF Leads
<1>2. /\ k \in Nat \ {0} /\ Head(q) = q[1] /\ Len(r) = k - 1
      /\ \A i \in 1 .. k - 1 : r[i] = q[i + 1]
  <2>1. k \in Nat /\ k # 0
    BY LenProperties, EmptySeq
  <2>2. Head(q) = q[1] /\ Len(r) = k - 1 /\ \A i \in 1 .. Len(r) : r[i] = q[i + 1]
    BY HeadTailProperties
  <2> QED
    BY <2>1, <2>2
<1> DEFINE R == [i \in 1 .. k |-> Q[i + 1]]
<1> HIDE DEF k, r
<1>3. 1 \in 1 .. k /\ 1 + 1 = 2
  BY <1>2
<1>4. Carries(t, Head(q).nests, here, Q[2]) /\ (Head(q).done => d = "done" /\ Q[2] = End(t))
  BY <1>1, <1>2, <1>3
<1>5. Leads(t, r, d, Q[2], c)
  <2>1. \A i \in 1 .. k : i + 1 \in 1 .. k + 1
    BY <1>2
  <2>2. R \in [1 .. k -> Place] /\ R[1] = Q[2] /\ R[k] = c
    <3>1. k \in 1 .. k
      BY <1>2
    <3> QED
      BY <1>1, <1>3, <2>1, <3>1
  <2>3. \A i \in 1 .. k - 1 : R[i] = Q[i + 1] /\ R[i + 1] = Q[(i + 1) + 1]
    BY <1>2
  <2> HIDE DEF R
  <2>4. ASSUME NEW i \in 1 .. k - 1
        PROVE  /\ r[i].done => i = k - 1 /\ d = "done"
               /\ ~r[i].intr => /\ Carries(t, r[i].nests, R[i], R[i + 1])
                                /\ r[i].done => R[i + 1] = End(t)
    <3>1. i + 1 \in 1 .. k /\ (i + 1 = k => i = k - 1)
      BY <1>2
    <3>2. r[i] = q[i + 1] /\ R[i] = Q[i + 1] /\ R[i + 1] = Q[(i + 1) + 1]
      BY <1>2, <2>3
    <3>3. /\ q[i + 1].done => i + 1 = k /\ d = "done"
          /\ ~q[i + 1].intr => /\ Carries(t, q[i + 1].nests, Q[i + 1], Q[(i + 1) + 1])
                               /\ q[i + 1].done => Q[(i + 1) + 1] = End(t)
      BY <1>1, <3>1
    <3> QED
      BY <3>1, <3>2, <3>3
  <2>5. Len(r) + 1 = k
    BY <1>2
  <2> QED
    <3>1. R \in [1 .. Len(r) + 1 -> Place] /\ R[1] = Q[2] /\ R[Len(r) + 1] = c
      BY <2>2, <2>5
    <3>2. Len(r) = k - 1
      BY <1>2
    <3>3. \A i \in 1 .. Len(r) :
            /\ r[i].done => i = Len(r) /\ d = "done"
            /\ ~r[i].intr => /\ Carries(t, r[i].nests, R[i], R[i + 1])
                             /\ r[i].done => R[i + 1] = End(t)
      BY <2>4, <3>2
    <3> QED
      BY <3>1, <3>3 DEF Leads
<1> QED
  BY <1>4, <1>5 DEF r

-----------------------------------------------------------------------------
\* Each step keeps the invariant

LEMMA InitHolds == Init => IndInv
<1> SUFFICES ASSUME Init PROVE IndInv
  OBVIOUS
<1>1. TypeOK
  <2>1. /\ <<>> \in Seq(Message) /\ <<>> \in Seq(Peer) /\ Len(<<>>) = 0
        /\ 0 <= MaxAhead /\ 0 \in 0 .. MaxDisturbances /\ <<1, 0>> \in Nat \X Nat
    BY GetAssumption
  <2>2. queue \in Seq(Message) /\ got \in Seq(Peer) /\ Len(queue) <= MaxAhead
    BY <2>1 DEF Init
  <2>3. /\ table \in Tables /\ snap \in Tables /\ disturbances \in 0 .. MaxDisturbances
        /\ cursor \in Nat \X Nat
    BY <2>1, Zenon DEF Init
  <2>4. /\ dump \in {"none", "started", "running", "done"}
        /\ pc \in {"try", "recv", "coalesce", "out", "returned", "crashed"}
        /\ ret \in {"ok", "EINTR", "error"}
    BY DEF Init
  <2>5. stale \in BOOLEAN /\ short \in BOOLEAN
    BY Zenon DEF Init
  <2>6. walk \in Nat \ {0}
    BY DEF Init
  <2> QED
    BY <2>2, <2>3, <2>4, <2>5, <2>6 DEF TypeOK
<1> QED
  BY <1>1 DEF Init, IndInv, Dump, Reading, Joining, Answered, CrashNeedsShort

\* The steps that leave the kernel alone
LEMMA FrameStep ==
  ASSUME IndInv, UNCHANGED kernelVars, TypeOK',
         pc' = "recv" => FALSE,
         pc' = "coalesce" => pc = "coalesce" /\ Joining',
         pc' \in {"out", "returned"} /\ ret' = "ok" => Answered',
         pc' = "crashed" => short'
  PROVE  IndInv'
<1>1. Dump'
  BY DEF IndInv, Dump, kernelVars
<1>2. Reading'
  BY DEF Reading
<1>3. Joining'
  BY DEF Joining
<1>4. Answered'
  BY DEF Answered
<1>5. CrashNeedsShort'
  BY DEF CrashNeedsShort
<1> QED
  BY <1>1, <1>2, <1>3, <1>4, <1>5 DEF IndInv

LEMMA FillHolds == IndInv /\ Fill => IndInv'
<1> SUFFICES ASSUME IndInv, Fill PROVE IndInv'
  OBVIOUS
<1>1. /\ dump \in {"started", "running"} /\ Len(queue) < MaxAhead
      /\ snap' = (IF dump = "started" THEN table ELSE snap)
      /\ UNCHANGED <<table, disturbances, stale, callerVars>>
  BY DEF Fill
<1>2. TypeOK /\ Dump /\ Reading
  BY DEF IndInv
<1>3. \/ /\ ~stale /\ snap' = table /\ Position(table, cursor)
         /\ \E b \in Stops(table, cursor) :
             /\ cursor' = b
             /\ dump' = IF b = End(table) THEN "done" ELSE "running"
             /\ queue' = Append(queue, [intr |-> FALSE, done |-> b = End(table),
                                        nests |-> Nests(table, cursor, b)])
      \/ /\ stale /\ snap' = snap
         /\ dump' = "done"
         /\ queue' = Append(queue, [intr |-> TRUE, done |-> TRUE, nests |-> <<>>])
         /\ UNCHANGED cursor
  <2>1. ~stale => snap' = table
    BY <1>1, <1>2 DEF Dump
  <2>2. dump = "started" => Position(table, <<1, 0>>)
    <3>1. table \in Tables
      BY <1>2 DEF TypeOK
    <3>2. Len(table) \in Nat /\ \A p \in 1 .. Len(table) : Len(table[p].ips) \in Nat
      BY <3>1, TableFacts
    <3> QED
      BY <3>2 DEF Position, Place, End
  <2>3. ~stale => Position(table, cursor)
    BY <1>1, <1>2, <2>2 DEF Dump
  <2>4. stale => snap' = snap
    BY <1>1, <1>2 DEF Dump
  <2> QED
    BY <2>1, <2>3, <2>4 DEF Fill
<1>4. PICK m \in Message, b \in Place :
        /\ queue' = Append(queue, m) /\ cursor' = b
        /\ dump' = IF m.done THEN "done" ELSE "running"
        /\ ~m.intr => /\ Carries(snap', m.nests, cursor, b)
                      /\ m.done => b = End(snap')
        /\ ~m.done => Position(snap', b) /\ ~stale /\ snap' = table
  <2>1. CASE /\ ~stale /\ snap' = table /\ Position(table, cursor)
             /\ \E b \in Stops(table, cursor) :
                 /\ cursor' = b
                 /\ dump' = IF b = End(table) THEN "done" ELSE "running"
                 /\ queue' = Append(queue, [intr |-> FALSE, done |-> b = End(table),
                                            nests |-> Nests(table, cursor, b)])
    <3>1. PICK b \in Stops(table, cursor) :
             /\ cursor' = b
             /\ dump' = IF b = End(table) THEN "done" ELSE "running"
             /\ queue' = Append(queue, [intr |-> FALSE, done |-> b = End(table),
                                        nests |-> Nests(table, cursor, b)])
      BY <2>1
    <3>2. table \in Tables
      BY <1>2 DEF TypeOK
    <3>3. Position(table, b) /\ Carries(table, Nests(table, cursor, b), cursor, b)
      BY <2>1, <3>2, NestsCarry
    <3> DEFINE d == b = End(table)
               N == Nests(table, cursor, b)
               m == [intr |-> FALSE, done |-> d, nests |-> N]
    <3>4. N \in Seq(Nest) /\ d \in BOOLEAN
      BY <3>3 DEF Carries
    <3>5. /\ queue' = Append(queue, m) /\ Carries(snap', N, cursor, b)
          /\ b \in Place /\ (dump' = IF d THEN "done" ELSE "running")
          /\ d => b = End(snap')
      BY <2>1, <3>1, <3>3 DEF Position
    <3> HIDE DEF d, N
    <3>6. m \in Message /\ m.nests = N /\ ~m.intr
      BY <3>4 DEF Message, Nest
    <3>7. m.done <=> d
      BY <3>4
    <3> HIDE DEF m
    <3> QED
      BY <2>1, <3>1, <3>3, <3>5, <3>6, <3>7
  <2>2. CASE /\ stale /\ snap' = snap
             /\ dump' = "done"
             /\ queue' = Append(queue, [intr |-> TRUE, done |-> TRUE, nests |-> <<>>])
             /\ UNCHANGED cursor
    <3> DEFINE m == [intr |-> TRUE, done |-> TRUE, nests |-> <<>>]
    <3>1. m \in Message /\ m.intr /\ m.done
      BY DEF Message
    <3>2. cursor \in Place
      BY <1>2 DEF TypeOK, Place
    <3>3. queue' = Append(queue, m)
      BY <2>2
    <3> HIDE DEF m
    <3> QED
      BY <2>2, <3>1, <3>2, <3>3
  <2> QED
    BY <1>3, <2>1, <2>2
<1>5. TypeOK'
  <2>1. queue' \in Seq(Message) /\ Len(queue') <= MaxAhead
    <3>1. queue \in Seq(Message) /\ Len(queue) \in Nat /\ MaxAhead \in Nat
      BY <1>2, GetAssumption, LenProperties DEF TypeOK
    <3>2. queue' \in Seq(Message) /\ Len(queue') = Len(queue) + 1
      BY <1>4, <3>1, AppendProperties
    <3> QED
      BY <1>1, <3>1, <3>2
  <2>2. snap' \in Tables /\ cursor' \in Nat \X Nat /\ dump' \in {"none", "started", "running", "done"}
    BY <1>1, <1>2, <1>4 DEF TypeOK, Place
  <2> QED
    BY <1>1, <1>2, <2>1, <2>2 DEF TypeOK, callerVars
<1>6. Dump'
  BY <1>1, <1>4 DEF Dump
<1>7. Reading'
  <2> SUFFICES ASSUME pc = "recv"
               PROVE  /\ dump' # "none" /\ dump' # "started"
                      /\ \E A, here : /\ Trail(snap', short, got, A, here)
                                      /\ Leads(snap', queue', dump', here, cursor')
    BY <1>1 DEF Reading, callerVars
  <2>1. PICK A, here : Trail(snap', short, got, A, here) /\ Leads(snap', queue, dump, here, cursor)
    <3>1. CASE dump = "started"
      <4>1. got = <<>> /\ queue = <<>> /\ cursor = <<1, 0>> /\ cursor \in Place
        BY <1>2, <3>1 DEF Reading, Dump, TypeOK, Place
      <4>2. Leads(snap', queue, dump, cursor, cursor)
        BY <4>1, EmptyLeads
      <4>3. PICK A : Trail(snap', short, got, A, cursor)
        BY <4>1, EmptyTrail
      <4> QED
        BY <4>2, <4>3
    <3>2. CASE dump # "started"
      BY <1>1, <1>2, <3>2 DEF Reading
    <3> QED
      BY <3>1, <3>2
  <2>2. queue \in Seq(Message) /\ dump # "done"
    BY <1>1, <1>2 DEF TypeOK
  <2>3. Leads(snap', queue', dump', here, cursor')
    BY <1>4, <2>1, <2>2, LeadsGrow
  <2> QED
    BY <1>4, <2>1, <2>3
<1>8. Joining' /\ Answered' /\ CrashNeedsShort'
  BY <1>1 DEF IndInv, Joining, Answered, CrashNeedsShort, callerVars
<1> QED
  BY <1>5, <1>6, <1>7, <1>8 DEF IndInv

LEMMA ChangeHolds == IndInv /\ Change => IndInv'
<1> SUFFICES ASSUME IndInv, Change PROVE IndInv'
  OBVIOUS
<1>1. TypeOK'
  BY GetAssumption DEF Change, IndInv, TypeOK, callerVars
<1>2. Dump'
  BY DEF Change, IndInv, Dump, TypeOK
<1>3. Reading' /\ Joining' /\ Answered' /\ CrashNeedsShort'
  BY DEF Change, IndInv, Reading, Joining, Answered, CrashNeedsShort, callerVars
<1> QED
  BY <1>1, <1>2, <1>3 DEF IndInv

LEMMA TryAgainHolds == IndInv /\ TryAgain => IndInv'
<1> SUFFICES ASSUME IndInv, TryAgain PROVE IndInv'
  OBVIOUS
<1>1. TypeOK'
  <2>1. /\ <<>> \in Seq(Message) /\ <<>> \in Seq(Peer) /\ Len(<<>>) = 0
        /\ 0 <= MaxAhead /\ <<1, 0>> \in Nat \X Nat
    BY GetAssumption
  <2>2. queue' \in Seq(Message) /\ got' \in Seq(Peer) /\ Len(queue') <= MaxAhead
    BY <2>1 DEF TryAgain
  <2> QED
    BY <2>1, <2>2 DEF TryAgain, IndInv, TypeOK
<1>2. Dump'
  BY DEF TryAgain, Dump
<1>3. Reading'
  <2>1. /\ got' = <<>> /\ queue' = <<>> /\ cursor' = <<1, 0>> /\ dump' = "started"
    BY DEF TryAgain
  <2>2. <<1, 0>> \in Place
    BY DEF Place
  <2>3. PICK A : Trail(snap', short', <<>>, A, <<1, 0>>)
    BY EmptyTrail
  <2>4. Leads(snap', <<>>, dump', <<1, 0>>, <<1, 0>>)
    BY <2>2, EmptyLeads
  <2> QED
    BY <2>1, <2>3, <2>4 DEF Reading
<1>4. Joining' /\ Answered' /\ CrashNeedsShort'
  BY DEF TryAgain, Joining, Answered, CrashNeedsShort
<1> QED
  BY <1>1, <1>2, <1>3, <1>4 DEF IndInv

LEMMA ReceiveHolds == IndInv /\ Receive => IndInv'
<1> SUFFICES ASSUME IndInv, Receive PROVE IndInv'
  OBVIOUS
<1> DEFINE m == Head(queue)
<1>1. /\ pc = "recv" /\ queue # <<>> /\ ~m.intr /\ queue' = Tail(queue) /\ walk' = 1
      /\ pc' = (IF m.done THEN "coalesce" ELSE "recv")
      /\ UNCHANGED <<table, disturbances, dump, cursor, stale, snap, ret>>
  BY DEF Receive
<1>2. PICK kept \in KeptCounts(m.nests) :
        /\ got' = got \o [n \in DOMAIN m.nests |-> Parsed(m.nests[n], kept[n])]
        /\ short' = (short \/ \E n \in DOMAIN m.nests : kept[n] < Len(m.nests[n].ips))
  BY DEF Receive
<1>3. /\ snap \in Tables /\ short \in BOOLEAN /\ got \in Seq(Peer) /\ queue \in Seq(Message)
  BY DEF IndInv, TypeOK
<1>4. PICK A, here : Trail(snap, short, got, A, here) /\ Leads(snap, queue, dump, here, cursor)
  BY <1>1 DEF IndInv, Reading
<1>5. PICK b : /\ Carries(snap, m.nests, here, b)
               /\ m.done => dump = "done" /\ b = End(snap)
               /\ ~m.done => Leads(snap, Tail(queue), dump, b, cursor)
  BY <1>1, <1>3, <1>4, LeadsOn
<1>6. short' \in BOOLEAN /\ (short => short')
  BY <1>2, <1>3
<1>7. got' \in Seq(Peer) /\ \E C : Trail(snap, short', got', C, b)
  <2>1. /\ kept \in [DOMAIN m.nests -> Nat]
        /\ \A n \in DOMAIN m.nests : kept[n] <= Len(m.nests[n].ips)
        /\ \A n \in DOMAIN m.nests : kept[n] < Len(m.nests[n].ips) => short'
    <3>1. /\ kept \in [DOMAIN m.nests -> 0 .. MaxIps]
          /\ \A n \in DOMAIN m.nests : kept[n] <= Len(m.nests[n].ips)
      BY <1>2 DEF KeptCounts
    <3>2. 0 .. MaxIps \subseteq Nat
      BY GetAssumption
    <3>3. kept \in [DOMAIN m.nests -> Nat]
      BY <3>1, <3>2
    <3>4. (\E n \in DOMAIN m.nests : kept[n] < Len(m.nests[n].ips)) => short'
      BY <1>2, Zenon
    <3> QED
      BY <3>1, <3>3, <3>4
  <2> DEFINE N == m.nests
             h == [n \in DOMAIN N |-> Parsed(N[n], kept[n])]
  <2>2. got' = got \o h
    BY <1>2
  <2>3. /\ Carries(snap, N, here, b) /\ kept \in [DOMAIN N -> Nat]
        /\ \A n \in DOMAIN N : kept[n] <= Len(N[n].ips)
        /\ \A n \in DOMAIN N : kept[n] < Len(N[n].ips) => short'
    BY <1>5, <2>1
  <2> HIDE DEF N
  <2>4. ParsedAs(N, h, short')
    BY <2>3 DEF ParsedAs
  <2> HIDE DEF h
  <2>5. got \o h \in Seq(Peer) /\ \E C : Trail(snap, short', got \o h, C, b)
    BY <1>3, <1>4, <1>6, <2>3, <2>4, TrailGrows
  <2> QED
    BY <2>2, <2>5
<1> HIDE DEF m
<1>8. TypeOK'
  <2>1. Tail(queue) \in Seq(Message) /\ Len(Tail(queue)) = Len(queue) - 1 /\ Len(queue) \in Nat
    BY <1>1, <1>3, HeadTailProperties, LenProperties
  <2>2. queue' \in Seq(Message) /\ Len(queue') <= MaxAhead
    BY <1>1, <2>1, GetAssumption DEF IndInv, TypeOK
  <2> QED
    BY <1>1, <1>6, <1>7, <2>2 DEF IndInv, TypeOK
<1>9. dump # "started" /\ dump # "none"
  BY <1>1 DEF IndInv, Dump, Reading
<1>10. Dump'
  BY <1>1, <1>9 DEF IndInv, Dump
<1>11. Reading'
  BY <1>1, <1>5, <1>7, <1>9 DEF Reading
<1>12. Joining'
  <2> SUFFICES ASSUME pc' = "coalesce"
               PROVE  /\ dump' = "done"
                      /\ \E C : /\ Trail(snap', short', got', C, End(snap'))
                                /\ \A n \in 1 .. walk' : n <= Len(got') => C[n] = <<n, 0>>
    BY DEF Joining
  <2>1. m.done
    BY <1>1
  <2>2. PICK C : Trail(snap, short', got', C, End(snap))
    BY <1>5, <1>7, <2>1
  <2>3. C[1] = <<1, 0>>
    BY <2>2 DEF Trail
  <2> QED
    BY <1>1, <1>5, <2>1, <2>2, <2>3
<1>13. Answered' /\ CrashNeedsShort'
  BY <1>1 DEF Answered, CrashNeedsShort
<1> QED
  BY <1>8, <1>10, <1>11, <1>12, <1>13 DEF IndInv

LEMMA InterruptedHolds == IndInv /\ Interrupted => IndInv'
<1> SUFFICES ASSUME IndInv, Interrupted PROVE IndInv'
  OBVIOUS
<1>1. /\ pc' = "out" /\ ret' = "EINTR" /\ queue # <<>> /\ queue' = Tail(queue)
      /\ UNCHANGED <<table, disturbances, dump, cursor, stale, snap, got, walk, short>>
  BY DEF Interrupted
<1>2. queue \in Seq(Message)
  BY DEF IndInv, TypeOK
<1>3. Tail(queue) \in Seq(Message) /\ Len(Tail(queue)) = Len(queue) - 1 /\ Len(queue) \in Nat
  BY <1>1, <1>2, HeadTailProperties, LenProperties
<1>4. queue' \in Seq(Message) /\ Len(queue') <= MaxAhead
  BY <1>1, <1>3, GetAssumption DEF IndInv, TypeOK
<1>5. TypeOK'
  BY <1>1, <1>4 DEF IndInv, TypeOK
<1>6. Dump'
  BY <1>1 DEF IndInv, Dump
<1> QED
  BY <1>1, <1>5, <1>6 DEF IndInv, Reading, Joining, Answered, CrashNeedsShort

LEMMA SignalHolds == IndInv /\ Signal => IndInv'
<1> SUFFICES ASSUME IndInv, Signal PROVE IndInv'
  OBVIOUS
<1>1. TypeOK'
  BY GetAssumption DEF Signal, IndInv, TypeOK
<1>2. Dump'
  BY DEF Signal, IndInv, Dump
<1> QED
  BY <1>1, <1>2 DEF Signal, IndInv, Reading, Joining, Answered, CrashNeedsShort

LEMMA FailHolds == IndInv /\ (OpenFails \/ RecvFails) => IndInv'
<1> SUFFICES ASSUME IndInv, OpenFails \/ RecvFails PROVE IndInv'
  OBVIOUS
<1>1. /\ UNCHANGED kernelVars /\ ret' = "error" /\ pc' \in {"returned", "out"}
      /\ got' \in {got, <<>>} /\ UNCHANGED <<walk, short>>
  BY DEF OpenFails, RecvFails
<1>2. got' \in Seq(Peer)
  <2>1. got \in Seq(Peer) /\ <<>> \in Seq(Peer)
    BY DEF IndInv, TypeOK
  <2> QED
    BY <1>1, <2>1
<1>3. TypeOK'
  BY <1>1, <1>2 DEF IndInv, TypeOK, kernelVars
<1> QED
  BY <1>1, <1>3, FrameStep

LEMMA CoalesceHolds == IndInv /\ (NextPeer \/ Join \/ Coalesced) => IndInv'
<1> SUFFICES ASSUME IndInv, NextPeer \/ Join \/ Coalesced PROVE IndInv'
  OBVIOUS
<1>1. /\ pc = "coalesce" /\ UNCHANGED kernelVars /\ UNCHANGED <<ret, short>>
  BY DEF NextPeer, Join, Coalesced
<1>2. /\ snap \in Tables /\ short \in BOOLEAN /\ got \in Seq(Peer) /\ walk \in Nat \ {0}
      /\ Len(got) \in Nat
  BY LenProperties DEF IndInv, TypeOK
<1>3. dump = "done"
  BY <1>1 DEF IndInv, Joining
<1>4. PICK A : /\ Trail(snap, short, got, A, End(snap))
               /\ \A n \in 1 .. walk : n <= Len(got) => A[n] = <<n, 0>>
  BY <1>1 DEF IndInv, Joining
<1>5. CASE NextPeer
  <2>1. /\ walk < Len(got) /\ got[walk].key # got[walk + 1].key /\ walk' = walk + 1
        /\ UNCHANGED <<pc, got>>
    BY <1>5 DEF NextPeer, SameKey
  <2>2. walk \in 1 .. Len(got) /\ walk + 1 \in 1 .. Len(got) /\ walk \in 1 .. walk /\ walk <= Len(got)
    BY <1>2, <2>1
  <2>3. /\ Piece(snap, short, got[walk], A[walk], A[walk + 1])
        /\ Piece(snap, short, got[walk + 1], A[walk + 1], A[(walk + 1) + 1])
    BY <1>4, <2>2 DEF Trail
  <2>4. A[walk] = <<walk, 0>>
    BY <1>4, <2>2
  <2>5. A[walk + 1] = <<walk + 1, 0>>
    <3>1. A[walk + 1] = <<A[walk][1] + 1, 0>>
      BY <1>2, <2>1, <2>3, SamePeer
    <3> QED
      BY <2>4, <3>1
  <2>6. \A n \in 1 .. walk + 1 : n <= Len(got) => A[n] = <<n, 0>>
    <3>1. \A n \in 1 .. walk + 1 : n \in 1 .. walk \/ n = walk + 1
      BY <1>2
    <3> QED
      BY <1>4, <2>5, <3>1
  <2>7. Joining'
    BY <1>1, <1>3, <1>4, <2>1, <2>6 DEF Joining, kernelVars
  <2>8. walk' \in Nat \ {0}
    BY <1>2, <2>1
  <2>9. TypeOK'
    BY <1>1, <2>1, <2>8 DEF IndInv, TypeOK, kernelVars
  <2> QED
    BY <1>1, <2>1, <2>7, <2>9, FrameStep
<1>6. CASE Join
  <2> DEFINE j == SubSeq(got, 1, walk - 1) \o <<Joined(got[walk], got[walk + 1])>>
                    \o SubSeq(got, walk + 2, Len(got))
             ok == got[walk].ips = <<>> \/ got[walk].last
  <2>1. /\ walk < Len(got) /\ got[walk].key = got[walk + 1].key /\ UNCHANGED walk
        /\ ok => got' = j /\ UNCHANGED pc
        /\ ~ok => pc' = "crashed" /\ UNCHANGED got
    BY <1>6, Zenon DEF Join, SameKey
  <2> HIDE DEF j, ok
  <2>2. walk \in 1 .. Len(got) - 1 /\ walk \in 1 .. Len(got) /\ walk \in 1 .. walk /\ walk <= Len(got)
    BY <1>2, <2>1
  <2>3. j \in Seq(Peer) /\ \E C : Trail(snap, short, j, C, End(snap)) /\ \A n \in 1 .. walk : C[n] = A[n]
    BY <1>2, <1>4, <2>1, <2>2, TrailJoins DEF j
  <2>4. CASE ok
    <3>1. PICK C : Trail(snap, short, j, C, End(snap)) /\ \A n \in 1 .. walk : C[n] = A[n]
      BY <2>3
    <3>2. \A n \in 1 .. walk : C[n] = <<n, 0>>
      <4>1. \A n \in 1 .. walk : n <= Len(got)
        BY <1>2, <2>1
      <4> QED
        BY <1>4, <3>1, <4>1
    <3>3. Joining'
      BY <1>1, <1>3, <2>1, <2>4, <3>1, <3>2 DEF Joining, kernelVars
    <3>4. TypeOK'
      BY <1>1, <2>1, <2>3, <2>4 DEF IndInv, TypeOK, kernelVars
    <3> QED
      BY <1>1, <2>1, <2>4, <3>3, <3>4, FrameStep
  <2>5. CASE ~ok
    <3>1. Piece(snap, short, got[walk], A[walk], A[walk + 1])
      BY <1>4, <2>2 DEF Trail
    <3>2. short
      BY <2>5, <3>1 DEF Piece, ok
    <3>3. TypeOK'
      BY <1>1, <2>1, <2>5 DEF IndInv, TypeOK, kernelVars
    <3> QED
      BY <1>1, <2>1, <2>5, <3>2, <3>3, FrameStep
  <2> QED
    BY <2>4, <2>5
<1>7. CASE Coalesced
  <2>1. walk >= Len(got) /\ pc' = "out" /\ UNCHANGED <<got, walk>>
    BY <1>7 DEF Coalesced
  <2>2. Final(snap, short, got)
    BY <1>2, <1>4, <2>1, TrailEnds
  <2>3. Answered'
    BY <1>1, <1>3, <2>1, <2>2 DEF Answered, kernelVars
  <2>4. TypeOK'
    BY <1>1, <2>1 DEF IndInv, TypeOK, kernelVars
  <2> QED
    BY <1>1, <2>1, <2>3, <2>4, FrameStep
<1> QED
  BY <1>5, <1>6, <1>7

LEMMA OutHolds == IndInv /\ Out => IndInv'
<1> SUFFICES ASSUME IndInv, Out PROVE IndInv'
  OBVIOUS
<1>1. /\ pc = "out" /\ pc' \in {"try", "returned"} /\ got' = (IF ret = "ok" THEN got ELSE <<>>)
      /\ UNCHANGED kernelVars /\ UNCHANGED <<walk, ret, short>>
  BY DEF Out
<1>2. got' \in Seq(Peer)
  BY <1>1 DEF IndInv, TypeOK
<1>3. TypeOK'
  BY <1>1, <1>2 DEF IndInv, TypeOK, kernelVars
<1>4. pc' \in {"out", "returned"} /\ ret' = "ok" => Answered'
  BY <1>1 DEF IndInv, Answered, kernelVars
<1> QED
  BY <1>1, <1>3, <1>4, FrameStep

LEMMA NextHolds == IndInv /\ [Next]_vars => IndInv'
<1> SUFFICES ASSUME IndInv, [Next]_vars PROVE IndInv'
  OBVIOUS
<1>1. CASE UNCHANGED vars
  BY <1>1 DEF vars, kernelVars, callerVars, IndInv, TypeOK, Dump, Reading, Joining, Answered,
              CrashNeedsShort
<1>2. CASE Step
  BY <1>2, TryAgainHolds, ReceiveHolds, InterruptedHolds, CoalesceHolds, OutHolds DEF Step
<1>3. CASE Fail
  BY <1>3, SignalHolds, FailHolds DEF Fail
<1> QED
  BY <1>1, <1>2, <1>3, FillHolds, ChangeHolds DEF Next

-----------------------------------------------------------------------------
\* The theorems

\* Whatever the kernel's cuts, the changes of the device and the failures of the
\* caller, the list read and the messages on their way make up the dump so far.
THEOREM Inductive == Spec => []IndInv
BY InitHolds, NextHolds, PTL DEF Spec

\* The state of wg_get_device and of the dump has its types.
THEOREM TypeCorrect == Spec => []TypeOK
<1>1. IndInv => TypeOK
  BY DEF IndInv
<1> QED
  BY <1>1, Inductive, PTL

\* wg_get_device returns the device as it was at one instant of the call, for
\* devices of any size, wherever the kernel cuts and whenever the device changes.
THEOREM OneInstant == Spec => []ReadsOneInstant
<1>1. IndInv => ReadsOneInstant
  BY FinalIsTable DEF IndInv, TypeOK, Answered, Succeeded, ReadsOneInstant
<1> QED
  BY <1>1, Inductive, PTL

\* coalesce_peers follows no NULL pointer unless an allocation failed.
THEOREM CoalesceIsSafe == Spec => []CrashNeedsShort
<1>1. IndInv => CrashNeedsShort
  BY DEF IndInv
<1> QED
  BY <1>1, Inductive, PTL

-----------------------------------------------------------------------------
(***************************************************************************)
(* wg_get_device implements WgRead.  The first message of a dump is the    *)
(* look at the device, the call's end is the answer, and a new dump        *)
(* forgets; all the rest is not seen.                                      *)
(***************************************************************************)
readVars == <<table, Seen, short, Phase, Answer>>

\* A step that leaves the caller where it is, and no new dump
LEMMA Unseen ==
  ASSUME UNCHANGED <<dump, snap, short, pc, got, ret>>
  PROVE  UNCHANGED <<Seen, short, Phase, Answer>>
BY DEF Seen, Phase, Answer, InCall

LEMMA FillReads ==
  ASSUME IndInv, Fill
  PROVE  Read!Look \/ UNCHANGED readVars
<1>1. UNCHANGED <<table, short, pc, got, ret>>
  BY DEF Fill, callerVars
<1>2. UNCHANGED <<short, Phase, Answer>>
  BY <1>1 DEF Phase, Answer, InCall
<1>3. dump' \in {"running", "done"}
  BY DEF Fill
<1>4. CASE ~InCall
  <2>1. Seen' = Seen
    BY <1>1, <1>4 DEF Seen, InCall
  <2> QED
    BY <1>1, <1>2, <2>1 DEF readVars
<1>5. CASE InCall /\ dump = "started"
  <2>1. snap' = table
    BY <1>5 DEF Fill
  <2>2. Seen' = {table} /\ Phase = "reading"
    BY <1>1, <1>3, <1>5, <2>1 DEF Seen, Phase, InCall
  <2> QED
    BY <1>1, <1>2, <2>2 DEF Read!Look
<1>6. CASE InCall /\ dump = "running"
  <2>1. snap' = snap
    BY <1>6 DEF Fill
  <2>2. Seen' = Seen
    BY <1>1, <1>3, <1>6, <2>1 DEF Seen, InCall
  <2> QED
    BY <1>1, <1>2, <2>2 DEF readVars
<1> QED
  BY <1>4, <1>5, <1>6 DEF Fill

LEMMA ChangeReads ==
  ASSUME Change
  PROVE  Read!Change
<1>1. table' \in Tables \ {table} /\ UNCHANGED <<dump, snap, short, pc, got, ret>>
  BY DEF Change, callerVars
<1> QED
  BY <1>1, Unseen DEF Read!Change

LEMMA TryAgainReads ==
  ASSUME TryAgain
  PROVE  Read!Forget
BY DEF TryAgain, Read!Forget, Seen, Phase, Answer, InCall

LEMMA ReceiveReads ==
  ASSUME IndInv, Receive
  PROVE  Read!Lose \/ UNCHANGED readVars
<1>1. /\ pc = "recv" /\ pc' \in {"recv", "coalesce"}
      /\ UNCHANGED <<table, dump, snap, ret>>
      /\ short' \in BOOLEAN /\ (short => short')
  BY DEF Receive, IndInv, TypeOK
<1>2. Phase = "reading" /\ UNCHANGED <<Seen, Phase, Answer>>
  BY <1>1 DEF Seen, Phase, Answer, InCall
<1>3. short \in BOOLEAN
  BY DEF IndInv, TypeOK
<1> QED
  BY <1>1, <1>2, <1>3 DEF Read!Lose, readVars

LEMMA StaysReading ==
  ASSUME UNCHANGED <<table, dump, snap, short>>, InCall, InCall'
  PROVE  UNCHANGED readVars
BY DEF readVars, Seen, Phase, Answer, InCall

LEMMA JoinReads ==
  ASSUME IndInv, Join
  PROVE  Read!Crash \/ UNCHANGED readVars
<1>1. /\ pc = "coalesce" /\ UNCHANGED <<table, dump, snap, short, ret>>
      /\ pc' = pc \/ pc' = "crashed"
  BY DEF Join, kernelVars
<1>2. CASE pc' = pc
  BY <1>1, <1>2, StaysReading DEF InCall
<1>3. CASE pc' = "crashed"
  <2>1. short' /\ short
    BY <1>1, <1>3, NextHolds DEF IndInv, CrashNeedsShort, Next, Step
  <2> QED
    BY <1>1, <1>3, <2>1 DEF Read!Crash, Seen, Phase, Answer, InCall
<1> QED
  BY <1>1, <1>2, <1>3

LEMMA OutReads ==
  ASSUME IndInv, Out
  PROVE  Read!Succeed \/ Read!Fail \/ UNCHANGED readVars
<1>1. /\ pc = "out" /\ pc' = (IF ret = "EINTR" THEN "try" ELSE "returned")
      /\ got' = (IF ret = "ok" THEN got ELSE <<>>)
      /\ UNCHANGED <<table, dump, snap, short, ret>>
  BY DEF Out, kernelVars
<1>2. CASE ret = "EINTR"
  BY <1>1, <1>2, StaysReading DEF InCall
<1>3. CASE ret = "ok"
  <2>1. dump = "done" /\ Final(snap, short, got)
    BY <1>1, <1>3 DEF IndInv, Answered
  <2>2. Read!Tells(got, snap, short)
    BY <2>1, FinalIsTable DEF IndInv, TypeOK, Read!Tells
  <2>3. /\ Phase = "reading" /\ Phase' = "ok" /\ Seen = {snap} /\ Seen' = {}
        /\ Answer' = got
    BY <1>1, <1>3, <2>1 DEF Phase, Seen, Answer, InCall
  <2> QED
    BY <1>1, <2>2, <2>3 DEF Read!Succeed
<1>4. CASE ret \notin {"EINTR", "ok"}
  BY <1>1, <1>4 DEF Read!Fail, Phase, Seen, Answer, InCall
<1> QED
  BY <1>2, <1>3, <1>4

LEMMA FailReads ==
  ASSUME Fail
  PROVE  Read!Fail \/ UNCHANGED readVars
<1>1. CASE OpenFails
  <2>1. /\ pc = "try" /\ pc' = "returned" /\ got' = <<>> /\ ret' = "error"
        /\ UNCHANGED <<table, short>>
    BY <1>1 DEF OpenFails, kernelVars
  <2> QED
    BY <2>1 DEF Read!Fail, Phase, Seen, Answer, InCall
<1>2. CASE Signal \/ RecvFails
  <2>1. UNCHANGED <<table, dump, snap, short>> /\ pc = "recv" /\ pc' = "out"
    BY <1>2 DEF Signal, RecvFails, kernelVars
  <2> QED
    BY <2>1, StaysReading DEF InCall
<1> QED
  BY <1>1, <1>2 DEF Fail

\* Each call of wg_get_device looks at the device once, at an instant that lies
\* in the call, and returns that or nothing: what a dump is cut into, when
\* it is disturbed and how often it is repeated cannot be told from outside.
THEOREM Refinement == Spec => ImplementsRead
<1>1. Init => Read!Init
  BY DEF Init, Read!Init, Seen, Phase, Answer, InCall
<1>2. IndInv /\ [Next]_vars => [Read!Next]_(Read!vars)
  <2> SUFFICES ASSUME IndInv, [Next]_vars
               PROVE  Read!Next \/ UNCHANGED readVars
    BY DEF Read!vars, readVars
  <2>1. CASE UNCHANGED vars
    BY <2>1, Unseen DEF vars, kernelVars, callerVars, readVars
  <2>2. CASE Step
    <3>1. CASE Interrupted \/ NextPeer \/ Coalesced
      <4>1. /\ UNCHANGED <<table, dump, snap, short>>
            /\ pc \in {"recv", "coalesce"} /\ pc' \in {"coalesce", "out"}
        BY <3>1 DEF Interrupted, NextPeer, Coalesced, kernelVars
      <4> QED
        BY <4>1, StaysReading DEF InCall
    <3> QED
      BY <2>2, <3>1, TryAgainReads, ReceiveReads, JoinReads, OutReads DEF Step, Read!Next
  <2> QED
    BY <2>1, <2>2, FillReads, ChangeReads, FailReads DEF Next, Read!Next
<1> QED
  BY <1>1, <1>2, Inductive, PTL DEF Spec, ImplementsRead, Read!Spec
=============================================================================
